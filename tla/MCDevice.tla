------------------------------ MODULE MCDevice ------------------------------
(***************************************************************************)
(* The UDP server with another transport on its ProtoRpc, and the parts of *)
(* the device that have nothing to do with the wire, each on its own: they *)
(* share no state, so a behaviour runs one of them, the one that `part'    *)
(* names, and the others stay as they are.                                 *)
(***************************************************************************)
EXTENDS UdpRpcServer

CONSTANTS s1, s2, Anchor, Unset, c1, c2, NoScript

VARIABLES next, prev, main, iter, flag, app, added, seg, task, num, count, asked,
          modesRaced, drawers, ledCalls
VARIABLES parts, created, state, written, symbols, complete
VARIABLES queue, caller, sentCount, accepted, refused, thread, open, buffers, taken,
          scripts, passed
VARIABLES init, station, useDhcp, retry, flags, gotIp, attempts, losses
VARIABLES part, input

Led == INSTANCE LedStrip WITH
  Segment <- {s1, s2}, NumPixels <- s1 :> 1 @@ s2 :> 2,
  Effects <- {"blink", "blend", "twinkle", "sparkle", "meteor", "dissolve", "fire"}, Lights <- {2},
  MaxCalls <- 2, MaxCount <- 5, raced <- modesRaced, calls <- ledCalls
Encoder == INSTANCE LedEncoder WITH DataSymbols <- 4, Block <- 5, sent <- symbols
Lua == INSTANCE LuaThread WITH Caller <- {c1, c2}, Depth <- 2, MaxScripts <- 5, ran <- scripts
Wifi == INSTANCE WifiConnect WITH MAXIMUM_RETRY <- 4, MaxLosses <- 3
Colour == INSTANCE LedColour
Timer == INSTANCE SwTimer WITH Half <- 16, Full <- 256, Thousand <- 3

\* Datagrams: a call that fails, one without reply, a tag that is not in the
\* table, and an oversized call without reply; by TCP a call that succeeds, and
\* a tag that wraps to one that is in the table and has no handler.
Kind(tag, known, quiet, status, long) ==
  Call(0, tag, known, quiet, status) @@ [long |-> long]
MCKinds ==
  {Kind(1, TRUE, FALSE, RPC_HANDLER_ERROR, FALSE), Kind(2, TRUE, TRUE, RPC_SUCCESS, FALSE),
   Kind(3, TRUE, FALSE, RPC_SUCCESS, FALSE), Kind(2, TRUE, TRUE, RPC_SUCCESS, TRUE)}
MCOtherKinds ==
  {Kind(2, TRUE, FALSE, RPC_SUCCESS, FALSE), Kind(5, FALSE, FALSE, RPC_SUCCESS, FALSE)}

\* Arguments of the functions: a colour, a gradient, or times.
Colours == [h : 0..255, s : {0, 1, 128, 255}, v : {0, 1, 127, 255}]
Ends == [h : {0, 1, 127, 128, 255}, s : {0, 90, 255}, v : {1, 255}]
Gradients == [start : Ends, end : Ends, dir : {"fwd", "bwd", "shortest", "longest"},
              numSteps : {1, 2, 3, 7}]
Times == [start : 0..60, elapsed : 0..40, us : {0, 1, 5, 20}]
Nothing == [none |-> TRUE]

ledVars == <<next, prev, main, iter, flag, app, added, seg, task, num, count, asked,
             modesRaced, drawers, ledCalls>>
encoderVars == <<parts, created, state, written, symbols, complete>>
luaVars == <<queue, caller, sentCount, accepted, refused, thread, open, buffers,
            taken, scripts, passed>>
wifiVars == <<init, station, useDhcp, retry, flags, gotIp, attempts, losses>>

partVars == <<ledVars, encoderVars, luaVars, wifiVars>>
deviceVars == <<vars, partVars, part, input>>

MCInit ==
  /\ Init /\ Led!Init /\ Encoder!Init /\ Lua!Init /\ Wifi!Init
  /\ \/ part \in {"datagrams", "strip", "encoder", "lua", "wifi"} /\ input = Nothing
     \/ part = "colour" /\ input \in Colours
     \/ part = "gradient" /\ input \in Gradients
     \/ part = "timer" /\ input \in Times
  /\ part # "wifi" => useDhcp
  /\ part # "datagrams" => callback = "rpc"

\* Bound: where the other transport calls, no datagram comes twice.
Datagrams == Next /\ (others' = 0 \/ \A n \in DOMAIN copies : copies'[n] <= 1)

\* Bound: the effects of the second segment, those with a counter among them.
Strip == Led!Next /\ asked'[s2] \notin {"sparkle", "fire", "blink"}

MCNext ==
  /\ \/ part = "datagrams" /\ Datagrams /\ UNCHANGED partVars
     \/ part = "strip" /\ Strip /\ UNCHANGED <<vars, encoderVars, luaVars, wifiVars>>
     \/ part = "encoder" /\ Encoder!Next /\ UNCHANGED <<vars, ledVars, luaVars, wifiVars>>
     \/ part = "lua" /\ Lua!Next /\ UNCHANGED <<vars, ledVars, encoderVars, wifiVars>>
     \/ part = "wifi" /\ Wifi!Next /\ UNCHANGED <<vars, ledVars, encoderVars, luaVars>>
  /\ UNCHANGED <<part, input>>

\* The fairness of the UDP server and of the strip; the other parts promise
\* safety only.
Drawing(A) == part = "strip" /\ main # "wild" /\ A /\ UNCHANGED <<vars, encoderVars, luaVars, wifiVars, part, input>>

MCSpec ==
  /\ MCInit /\ [][MCNext]_deviceVars
  /\ WF_deviceVars(part = "datagrams" /\ Server /\ UNCHANGED <<partVars, part, input>>)
  /\ WF_deviceVars(Drawing(Led!Main)) /\ WF_deviceVars(Drawing(Led!Add))

-----------------------------------------------------------------------------

\* LedStrip: the links are the list of the segments, outside an append, and no
\* walk of it goes astray.
RingIsList == Led!RingIsList

\* LedStrip: the method called last on a segment stands, outside a race.
LastCallStands == Led!LastCallStands

\* LedStrip: the counter of an effect on one segment comes back to its start.
CounterReturns == Led!CounterReturns

\* LedStrip: addSegment returns once the strip is set up.
AddReturns == Led!AddReturns

\* LedEncoder: a transmission is the pixels and one reset code, in any pieces.
FrameThenReset == Encoder!FrameThenReset

\* LuaThread: what was accepted is run at most once and in order, or passed over, and
\* the thread keeps neither file nor buffer of it.
AcceptedRunInOrder == Lua!AcceptedRunInOrder

\* WifiConnect: what init reports is what happened.
ReportIsTrue == Wifi!ReportIsTrue

\* LedColour and SwTimer: gradients stay between their ends, and colours have
\* no jumps; elapsed times are exact, and a timer runs out when it should.
ArithmeticHolds ==
  /\ part = "gradient" =>
       Colour!GradientStaysBetween(input.start, input.end, input.dir, input.numSteps)
  /\ part = "colour" => Colour!ColoursAreSmooth(input, 16)
  /\ part = "timer" => /\ Timer!ElapsedIsExact(input.start, input.elapsed)
                       /\ Timer!RunsOutOnce(input.start, input.elapsed, input.us)
=============================================================================
