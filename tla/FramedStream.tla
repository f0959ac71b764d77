---------------------------- MODULE FramedStream ----------------------------
(***************************************************************************)
(* A stream of frames cut into chunks: a sender frames messages with       *)
(* Cobs_framer, a reliable byte stream delivers them in pieces of any size *)
(* and a receiver hands each piece to Cobs_deframer.                       *)
(***************************************************************************)
EXTENDS CobsFrame

CONSTANTS Messages,  \* the messages that may be sent
          MaxEncLen, \* the size of the sender's buffer for a frame
          MaxSent,   \* bound: how many messages are sent
          Window     \* how many messages may be on their way at a time

ASSUME StreamAssumption ==
  /\ Messages \subseteq Seq(Octet)
  /\ MaxEncLen \in Nat /\ MaxSent \in Nat /\ Window \in Nat \ {0}

VARIABLES
  sent,      \* the messages framed so far
  wire,      \* the bytes on their way
  deframer,  \* the receiver's Cobs_Deframer
  delivered, \* the messages Cobs_deframer returned
  awaited,   \* history: was every message but the last delivered before the next was sent?
  whole      \* history: did every chunk hold one frame?

vars == <<sent, wire, deframer, delivered, awaited, whole>>

Init ==
  /\ sent = << >>
  /\ wire = << >>
  /\ deframer = Flushed
  /\ delivered = << >>
  /\ awaited = TRUE
  /\ whole = TRUE

(* The sender frames a message; a frame that does not fit is not sent. *)
Send ==
  /\ Len(sent) < MaxSent
  /\ Len(sent) - Len(delivered) < Window
  /\ \E m \in Messages :
       /\ Framer(m, MaxEncLen).len > 0
       /\ sent' = Append(sent, m)
       /\ wire' = wire \o Framer(m, MaxEncLen).frame
  /\ awaited' = (awaited /\ delivered = sent)
  /\ UNCHANGED <<deframer, delivered, whole>>

(* The length of the frame at the head of the wire. *)
HeadFrame == 1 + FramingByte(Tail(wire))

(* The receiver reads a piece of the stream and deframes it. *)
Receive ==
  /\ \E n \in 1..Len(wire) :
       LET ret == Deframe(deframer, SubSeq(wire, 1, n))
       IN /\ whole' = (whole /\ n = HeadFrame)
          /\ wire' = SubSeq(wire, n + 1, Len(wire))
          /\ deframer' = ret.deframer
          /\ delivered' = IF ret.len > 0 THEN Append(delivered, ret.msg) ELSE delivered
  /\ UNCHANGED <<sent, awaited>>

Next == Send \/ Receive

Spec == Init /\ [][Next]_vars

-----------------------------------------------------------------------------
(* Between two calls: what the deframer holds fits its buffers, the frame    *)
(* being received holds no framing byte, a deframer looking for the end of a *)
(* frame has consumed its fifo, and one in ERROR is there because work is    *)
(* full with bytes still waiting.                                            *)
TypeOK ==
  /\ deframer \in Deframer
  /\ Len(deframer.work) <= Depth /\ Len(deframer.fifo) <= Depth
  /\ FramingByte(deframer.work) = 0
  /\ deframer.state = "FIND_EOF" => deframer.fifo = << >>
  /\ deframer.state = "ERROR" => Len(deframer.work) = Depth /\ deframer.fifo # << >>

(* However the stream is cut, and whatever is lost when a buffer of the      *)
(* deframer overflows: what it delivers was sent, in the order it was sent,  *)
(* and no message is spliced together from pieces of two frames.             *)
DeliveredWasSent ==
  \E at \in [DOMAIN delivered -> DOMAIN sent] :
    /\ \A i, j \in DOMAIN delivered : i < j => at[i] < at[j]
    /\ \A i \in DOMAIN delivered : delivered[i] = sent[at[i]]

(* A sender that awaits the answer to each message loses none, however its   *)
(* frames are cut, when they fit the deframer's buffers.                     *)
NothingLost ==
  /\ awaited
  /\ \A i \in DOMAIN sent : Len(Frame(Encoded(sent[i]))) <= Depth
  /\ wire = << >>
  => delivered = sent

(* While every chunk holds one frame, a frame that fits is delivered by the  *)
(* call it is passed to, whatever happened to the frames before it.          *)
FrameRecovers ==
  [][whole' /\ wire' # wire /\ sent' = sent /\ HeadFrame <= Depth
       => \E m \in Messages :
            /\ SubSeq(wire, 1, HeadFrame) = Frame(Encoded(m))
            /\ delivered' = Append(delivered, m)]_vars
=============================================================================
