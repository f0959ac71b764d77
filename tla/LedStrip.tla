------------------------------ MODULE LedStrip ------------------------------
(***************************************************************************)
(* WS2812Led.c: a strip with its list of segments.  Three kinds of task    *)
(* share it without a lock: led_main, which walks the list and writes the  *)
(* pixels to the strip (on a core of its own); one task for each segment,  *)
(* which runs the effect its mode names; and the application, which adds   *)
(* segments and calls their methods.  A step is what a task does between   *)
(* two points where another one can tell the difference.                   *)
(*                                                                         *)
(* Of the pixels only what the properties need is kept: whether the HSV    *)
(* array is blank, and which of the two arrays is shown.  Of the effects'  *)
(* static locals the counters are kept; they are one for all segments.     *)
(***************************************************************************)
EXTENDS Naturals, Sequences, SequencesExt

CONSTANTS
  Segment,      \* the segments the application may add
  Anchor,         \* the list's own anchor, strip->segments
  Unset,        \* a link that was never stored to
  NumPixels,    \* the number of pixels of each segment
  Effects,      \* the effects it starts: blink, blend, twinkle, sparkle, meteor, dissolve, fire
  Lights,       \* the numbers of pixels it asks twinkle to light
  MaxCalls,     \* bound: methods called in one behaviour
  MaxCount      \* bound: a counter that has passed its end is followed so far

\* The effects that draw into rgb_pixels; the others use the HSV array.
RgbEffects == {"meteor", "dissolve", "fire"}

VARIABLES
  next, prev,   \* CList: the links of every anchor
  main,         \* where led_main is
  iter,         \* the loop variable of its walk
  flag,         \* STRIP_INITIALIZED_FLAG
  app,          \* where the application is: [pc, seg, call, num]
  added,        \* history: the segments in the order they were appended
  seg,          \* the fields of each segment
  task,         \* where the task of each segment is, and the count it has loaded
  num,          \* twinkle's static num
  count,        \* the static count of twinkle and of meteor
  asked,        \* history: the method called last on each segment
  raced,        \* history: its task was inside an effect during that call
  drawers,      \* history: the segments each counting effect was started on
  calls         \* the number of methods called

listVars == <<next, prev, main, iter, flag, added>>
staticVars == <<num, count>>
historyVars == <<asked, raced, drawers>>
vars == <<listVars, app, seg, task, staticVars, historyVars, calls>>

Counting == {"twinkle", "meteor"}
Idle == [pc |-> "idle", seg |-> Anchor, call |-> "none", num |-> 0]

Absent == [pc |-> "none", effect |-> "none", loaded |-> 0]
Asleep == [Absent EXCEPT !.pc = "asleep"]
InEffect(s) == task[s].pc \in {"run", "count", "mode"}

Init ==
  /\ next = [n \in Segment \cup {Anchor} |-> Unset]
  /\ prev = [n \in Segment \cup {Anchor} |-> Unset]
  /\ main = "init" /\ iter = Anchor /\ flag = FALSE
  /\ app = Idle /\ added = <<>>
  /\ seg = [s \in Segment |-> [mode |-> "static", useRgb |-> FALSE, on |-> FALSE,
                                blank |-> FALSE, timer |-> "idle"]]
  /\ task = [s \in Segment |-> Absent]
  /\ num = 0 /\ count = [e \in Counting |-> 0]
  /\ asked = [s \in Segment |-> "none"] /\ raced = [s \in Segment |-> FALSE]
  /\ drawers = [e \in Counting |-> {}]
  /\ calls = 0

-----------------------------------------------------------------------------
(* led_main *)

\* Mutant: the flag is not set.
Mut_InitStrip ==
  /\ main = "init"
  /\ \/ main' = "ended" /\ UNCHANGED <<next, prev, flag>>
     \/ /\ next' = [next EXCEPT ![Anchor] = Anchor]
        /\ prev' = [prev EXCEPT ![Anchor] = Anchor]
        /\ flag' = FALSE
        /\ main' = "transmit"
  /\ UNCHANGED <<iter, added, app, seg, task, staticVars, historyVars, calls>>

\* init_strip and the allocation of leds.  A failure of the first returns from
\* the task before the flag is set, one of the second after it.
InitStrip ==
  /\ main = "init"
  /\ \/ main' = "ended" /\ UNCHANGED <<next, prev, flag>>
     \/ /\ next' = [next EXCEPT ![Anchor] = Anchor]
        /\ prev' = [prev EXCEPT ![Anchor] = Anchor]
        /\ flag' = TRUE
        /\ main' \in {"transmit", "ended"}
  /\ UNCHANGED <<iter, added, app, seg, task, staticVars, historyVars, calls>>

\* The loop of the walk: the pixels of the segment are written to leds, and the
\* next one is the link that is found then.  A link that was never stored is
\* dereferenced.
Walk ==
  /\ main = "walk"
  /\ iter' = next[iter]
  /\ main' = CASE next[iter] = Unset -> "wild"
               [] next[iter] = Anchor -> "transmit"
               [] OTHER -> "walk"
  /\ UNCHANGED <<next, prev, flag, added, app, seg, task, staticVars, historyVars, calls>>

\* rmt_transmit, in both its outcomes, the sleep, and the start of the next walk.
Transmit ==
  /\ main = "transmit"
  /\ iter' = next[Anchor]
  /\ main' = IF next[Anchor] = Anchor THEN "transmit" ELSE "walk"
  /\ UNCHANGED <<next, prev, flag, added, app, seg, task, staticVars, historyVars, calls>>

-----------------------------------------------------------------------------
(* The application: WS2812Led_addSegment *)

\* The allocations, each of which may fail and return, and the defaults.
AddSegment(s) ==
  /\ app.pc = "idle" /\ s \notin Range(added) /\ task[s].pc = "none"
  /\ app' = [app EXCEPT !.pc = "pend", !.seg = s]
  /\ seg' = [seg EXCEPT ![s].mode = "static", ![s].useRgb = FALSE]
  /\ UNCHANGED <<listVars, task, staticVars, historyVars, calls>>

\* RTOS_PEND_ALL_FLAGS, then the first store of CList_insertBefore: prev->next.
LinkForward ==
  /\ app.pc = "pend" /\ flag
  /\ next' = [next EXCEPT ![prev[Anchor]] = app.seg]
  /\ app' = [app EXCEPT !.pc = "link"]
  /\ UNCHANGED <<prev, main, iter, flag, added, seg, task, staticVars, historyVars, calls>>

\* Mutant: the last segment is not linked back.
Mut_LinkRest ==
  /\ app.pc = "link"
  /\ next' = [next EXCEPT ![app.seg] = Anchor]
  /\ prev' = [prev EXCEPT ![app.seg] = prev[Anchor]]
  /\ added' = Append(added, app.seg)
  /\ app' = [app EXCEPT !.pc = "create"]
  /\ UNCHANGED <<main, iter, flag, seg, task, staticVars, historyVars, calls>>

\* Its other three stores, and the count of segments.
LinkRest ==
  /\ app.pc = "link"
  /\ next' = [next EXCEPT ![app.seg] = Anchor]
  /\ prev' = [prev EXCEPT ![app.seg] = prev[Anchor], ![Anchor] = app.seg]
  /\ added' = Append(added, app.seg)
  /\ app' = [app EXCEPT !.pc = "create"]
  /\ UNCHANGED <<main, iter, flag, seg, task, staticVars, historyVars, calls>>

\* RTOS_TASK_CREATE; when it fails the segment stays in the list without a task.
CreateTask ==
  /\ app.pc = "create"
  /\ \/ task' = [task EXCEPT ![app.seg] = Asleep]
     \/ UNCHANGED task
  /\ app' = Idle
  /\ UNCHANGED <<listVars, seg, staticVars, historyVars, calls>>

-----------------------------------------------------------------------------
(* What an effect does once its timer has run out.  Count(e, loaded) is the
   counter after count++ and the test that follows it. *)

Limit(s, e) == IF e = "twinkle" THEN num ELSE 2 * NumPixels[s]

\* Mutant: the counter is compared before it is incremented.
Mut_Count(s, e, loaded) == IF loaded = Limit(s, e) THEN 0 ELSE loaded + 1

Count(s, e, loaded) == IF loaded + 1 = Limit(s, e) THEN 0 ELSE loaded + 1

\* blink: the timer is started at the first call and toggles the segment later.
Blink(segment, expired) ==
  IF segment.timer = "running"
    THEN [segment EXCEPT !.on = IF expired THEN ~segment.on ELSE segment.on]
    ELSE [segment EXCEPT !.timer = "running"]

-----------------------------------------------------------------------------
(* The application: the methods of a segment *)

\* off and the fills: the HSV array is written; which array is shown stays.
Fill(s, call) ==
  /\ app.pc = "idle" /\ s \in Range(added) /\ calls < MaxCalls
  /\ app' = [pc |-> "mode", seg |-> s, call |-> call, num |-> 0]
  /\ seg' = [seg EXCEPT ![s].blank = (call = "off")]
  /\ asked' = [asked EXCEPT ![s] = "none"]
  /\ raced' = [raced EXCEPT ![s] = InEffect(s)]
  /\ calls' = calls + 1
  /\ UNCHANGED <<listVars, task, staticVars, drawers>>

\* An effect with init set, as far as the timer and the statics.
StartEffect(s, e, n) ==
  /\ app.pc = "idle" /\ s \in Range(added) /\ calls < MaxCalls
  /\ app' = [pc |-> IF e = "blink" THEN "mode" ELSE "fill", seg |-> s, call |-> e, num |-> n]
  /\ IF e = "blink"
       THEN \E expired \in BOOLEAN : seg' = [seg EXCEPT ![s] = Blink(seg[s], expired)]
       ELSE seg' = [seg EXCEPT ![s].useRgb = (e \in RgbEffects), ![s].timer = "running"]
  /\ num' = IF e = "twinkle" THEN n ELSE num
  /\ count' = IF e \in Counting THEN [count EXCEPT ![e] = 0] ELSE count
  /\ drawers' = IF e \in Counting THEN [drawers EXCEPT ![e] = @ \cup {s}] ELSE drawers
  /\ asked' = [asked EXCEPT ![s] = "none"]
  /\ raced' = [raced EXCEPT ![s] = InEffect(s)]
  /\ calls' = calls + 1
  /\ UNCHANGED <<listVars, task>>

\* BLANK_STRIP, or for blend the first colour; both leave MODE_STATIC behind.
FillForEffect ==
  /\ app.pc = "fill"
  /\ seg' = [seg EXCEPT ![app.seg].mode = "static",
                         ![app.seg].blank = IF app.call \in RgbEffects THEN @
                                            ELSE app.call # "blend"]
  /\ app' = [app EXCEPT !.pc = "mode"]
  /\ UNCHANGED <<listVars, task, staticVars, historyVars, calls>>

ModeOf(call) == IF call \in {"solid", "off"} THEN "static" ELSE call

\* The mode is stored last.  (The timer was set a moment ago; that it has run out
\* already, and the effect's first turn is taken here, is left out.)
StoreMode ==
  /\ app.pc = "mode"
  /\ seg' = [seg EXCEPT ![app.seg].mode = ModeOf(app.call)]
  /\ asked' = [asked EXCEPT ![app.seg] = app.call]
  /\ app' = Idle
  /\ UNCHANGED <<listVars, task, staticVars, raced, drawers, calls>>

\* WS2812Led_show: the list is walked by the only task that changes it.
Show ==
  /\ app.pc = "idle" /\ added # <<>>
  /\ seg' = [s \in Segment |-> [seg[s] EXCEPT !.on = @ \/ s \in Range(added)]]
  /\ UNCHANGED <<listVars, app, task, staticVars, historyVars, calls>>

-----------------------------------------------------------------------------
(* The task of a segment: segment_loop *)

\* The switch on the mode.
ReadMode(s) ==
  /\ task[s].pc = "asleep" /\ seg[s].mode # "static"
  /\ task' = [task EXCEPT ![s].pc = "run", ![s].effect = seg[s].mode]
  /\ raced' = [raced EXCEPT ![s] = @ \/ (app.seg = s /\ app.pc \in {"fill", "mode"})]
  /\ UNCHANGED <<listVars, app, seg, staticVars, asked, drawers, calls>>

\* An effect whose timer has not run out only stores its mode; blend does not even
\* do that.
Wait(s) ==
  /\ task[s].pc = "run"
  /\ seg' = [seg EXCEPT ![s] = IF task[s].effect = "blink" THEN Blink(@, FALSE) ELSE @]
  /\ task' = [task EXCEPT ![s] = IF task[s].effect = "blend" THEN Asleep
                                   ELSE [@ EXCEPT !.pc = "mode"]]
  /\ UNCHANGED <<listVars, app, staticVars, historyVars, calls>>

\* The timer of the effect a task is in has run out.
Due(s, e) == task[s].pc = "run" /\ task[s].effect = e

\* twinkle lights one more pixel, and loads its counter to count it.
TwinkleDraw(s) ==
  /\ Due(s, "twinkle")
  /\ seg' = [seg EXCEPT ![s].blank = FALSE]
  /\ task' = [task EXCEPT ![s].pc = "count", ![s].loaded = count["twinkle"]]
  /\ UNCHANGED <<listVars, app, staticVars, historyVars, calls>>

\* sparkle blanks the segment and lights as many pixels as it was asked for.
SparkleDraw(s) ==
  /\ Due(s, "sparkle")
  /\ seg' = [seg EXCEPT ![s].blank = FALSE]
  /\ task' = [task EXCEPT ![s].pc = "mode"]
  /\ UNCHANGED <<listVars, app, staticVars, historyVars, calls>>

\* fire cools, diffuses and sparks its heat, and draws it in RGB.
FireDraw(s) ==
  /\ Due(s, "fire")
  /\ task' = [task EXCEPT ![s].pc = "mode"]
  /\ UNCHANGED <<listVars, app, seg, staticVars, historyVars, calls>>

\* dissolve fades its RGB pixels and restores them when all are dark.
DissolveDraw(s) ==
  /\ Due(s, "dissolve")
  /\ task' = [task EXCEPT ![s].pc = "mode"]
  /\ UNCHANGED <<listVars, app, seg, staticVars, historyVars, calls>>

\* meteor fades its RGB pixels, draws the tail at its counter, and counts.
MeteorDraw(s) ==
  /\ Due(s, "meteor")
  /\ task' = [task EXCEPT ![s].pc = "count", ![s].loaded = count["meteor"]]
  /\ UNCHANGED <<listVars, app, seg, staticVars, historyVars, calls>>

\* Mutant: the gradient that starts over does not store its mode.
Mut_BlendDraw(s) ==
  /\ Due(s, "blend")
  /\ \E over \in BOOLEAN :
       seg' = [seg EXCEPT ![s].blank = FALSE, ![s].mode = IF over THEN "static" ELSE @]
  /\ task' = [task EXCEPT ![s] = Asleep]
  /\ UNCHANGED <<listVars, app, staticVars, historyVars, calls>>

\* blend takes a step of its gradient; only when it starts over, which leaves
\* MODE_STATIC behind, does it store its mode.
BlendDraw(s) ==
  /\ Due(s, "blend")
  /\ \/ /\ seg' = [seg EXCEPT ![s].blank = FALSE]
        /\ task' = [task EXCEPT ![s] = Asleep]
     \/ /\ seg' = [seg EXCEPT ![s].blank = FALSE, ![s].mode = "static"]
        /\ task' = [task EXCEPT ![s].pc = "mode"]
  /\ UNCHANGED <<listVars, app, staticVars, historyVars, calls>>

\* blink switches the segment on or off.
BlinkDraw(s) ==
  /\ Due(s, "blink")
  /\ seg' = [seg EXCEPT ![s] = Blink(@, TRUE)]
  /\ task' = [task EXCEPT ![s].pc = "mode"]
  /\ UNCHANGED <<listVars, app, staticVars, historyVars, calls>>

\* count++ is stored, and compared with where the effect starts over.
StoreCount(s) ==
  LET e == task[s].effect IN
  /\ task[s].pc = "count" /\ task[s].loaded < MaxCount
  /\ count' = [count EXCEPT ![e] = Count(s, e, task[s].loaded)]
  /\ seg' = [seg EXCEPT ![s].blank = @ \/ (e = "twinkle" /\ task[s].loaded + 1 = num)]
  /\ task' = [task EXCEPT ![s].pc = "mode", ![s].loaded = 0]
  /\ UNCHANGED <<listVars, app, num, historyVars, calls>>

\* The last statement of an effect: seg->mode, as it was when the effect began.
RestoreMode(s) ==
  /\ task[s].pc = "mode"
  /\ seg' = [seg EXCEPT ![s].mode = task[s].effect]
  /\ task' = [task EXCEPT ![s] = Asleep]
  /\ UNCHANGED <<listVars, app, staticVars, historyVars, calls>>

-----------------------------------------------------------------------------

Main == InitStrip \/ Walk \/ Transmit

Add == LinkForward \/ LinkRest \/ CreateTask

Application ==
  \/ \E s \in Segment : \/ AddSegment(s)
                        \/ \E call \in {"solid", "off"} : Fill(s, call)
                        \/ \E e \in Effects, n \in Lights : StartEffect(s, e, n)
  \/ Add \/ FillForEffect \/ StoreMode \/ Show

Draw(s) ==
  \/ TwinkleDraw(s) \/ SparkleDraw(s) \/ FireDraw(s) \/ DissolveDraw(s)
  \/ MeteorDraw(s) \/ BlendDraw(s) \/ BlinkDraw(s)

Effect(s) == ReadMode(s) \/ Wait(s) \/ Draw(s) \/ StoreCount(s) \/ RestoreMode(s)

\* A wild link is a fault of the device: no task goes on.
Next ==
  /\ main # "wild"
  /\ Main \/ Application \/ \E s \in Segment : Effect(s)

Spec == Init /\ [][Next]_vars

\* The tasks of FreeRTOS run; a call once made goes on.
FairSpec == Spec /\ WF_vars(main # "wild" /\ Main) /\ WF_vars(main # "wild" /\ Add)

-----------------------------------------------------------------------------

\* The ring of links is the list of the segments added, in both directions, at
\* every moment but between the two halves of an append; and only there does
\* led_main follow a link nobody has stored.  (It can: the new segment is made
\* reachable before its own link is stored.)
RingIsList ==
  /\ main = "wild" => app.pc = "link"
  /\ flag /\ app.pc # "link" =>
       LET ring == <<Anchor>> \o added
           After(i) == ring[IF i = Len(ring) THEN 1 ELSE i + 1]
       IN \A i \in 1..Len(ring) : /\ next[ring[i]] = After(i)
                                  /\ prev[After(i)] = ring[i]

\* The method called last stands: between two turns of the segment's task the mode
\* is the one asked for, and after off the HSV array is blank, unless the task was in
\* the middle of an effect during the call, which stores its own mode when it is done.
LastCallStands ==
  \A s \in Segment :
    ~raced[s] /\ asked[s] # "none" /\ ~InEffect(s) =>
      /\ seg[s].mode = ModeOf(asked[s])
      /\ asked[s] = "off" => seg[s].blank

\* A counting effect that runs on one segment, and was not started again while it
\* ran, comes back to its start: the counter, which is compared for equality only,
\* never passes the end.
CounterReturns ==
  \A e \in Counting, s \in Segment :
    drawers[e] = {s} /\ asked[s] = e /\ ~raced[s] /\ app.pc = "idle" =>
      count[e] < Limit(s, e)

\* addSegment waits for the strip without a timeout; it returns unless the strip
\* was never set up, or the device has stopped.
AddReturns ==
  (app.pc = "pend") ~> (app.pc = "idle" \/ main = "wild" \/ (main = "ended" /\ ~flag))
=============================================================================
