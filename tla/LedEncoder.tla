----------------------------- MODULE LedEncoder -----------------------------
(***************************************************************************)
(* encoder.c: the encoder that turns the pixels of the strip into symbols  *)
(* of the RMT peripheral, followed by a reset code.  The driver calls it   *)
(* whenever there is room in the channel's memory, until it says that the  *)
(* encoding is complete.  Its two sub-encoders are the driver's own: one   *)
(* writes as many symbols as fit, and says COMPLETE when all are written   *)
(* and MEM_FULL when no room is left; it may say both.                     *)
(***************************************************************************)
EXTENDS Naturals, Sequences

CONSTANTS
  DataSymbols,  \* the symbols of one transmission
  Block         \* the room the driver may find at a call, at most

VARIABLES
  parts,        \* the objects that are allocated
  created,      \* encoder_new has returned an encoder
  state,        \* led_encoder->state: 0 sends data, 1 sends the reset code
  written,      \* the data symbols written in this session
  sent,         \* history: what was written since the transmission began
  complete      \* what the last call reported

vars == <<parts, created, state, written, sent, complete>>

Init ==
  /\ parts = {} /\ created = FALSE
  /\ state = 0 /\ written = 0 /\ sent = <<>> /\ complete = FALSE

-----------------------------------------------------------------------------

\* encoder_new: three allocations; a failure of a later one gives back the earlier.
New(failing) ==
  /\ ~created /\ parts = {}
  /\ parts' = IF failing = "none" THEN {"encoder", "bytes", "copy"} ELSE {}
  /\ created' = (failing = "none")
  /\ state' = 0
  /\ UNCHANGED <<written, sent, complete>>

\* encoder_del
Del ==
  /\ created /\ sent = <<>>
  /\ parts' = {} /\ created' = FALSE
  /\ UNCHANGED <<state, written, sent, complete>>

\* encoder_reset, by which the driver abandons a transmission.
Reset ==
  /\ created
  /\ state' = 0 /\ written' = 0 /\ sent' = <<>> /\ complete' = FALSE
  /\ UNCHANGED <<parts, created>>

-----------------------------------------------------------------------------

\* What a sub-encoder does with room for so many symbols.
Fits(left, room) == IF left <= room THEN left ELSE room
Complete(left, room) == left <= room
MemFull(left, room) == left >= room

\* Mutant: the state is not reset when the transmission is complete.
Mut_Encode(room) ==
  LET left == DataSymbols - written
      dataDone == state = 1 \/ Complete(left, room)
      data == IF state = 0 THEN Fits(left, room) ELSE 0
      reset == ~(state = 0 /\ MemFull(left, room)) /\ Complete(1, room - data)
  IN
  /\ created /\ ~complete
  /\ state' = IF dataDone /\ ~reset THEN 1 ELSE state
  /\ written' = IF dataDone THEN 0 ELSE written + data
  /\ sent' = sent \o [i \in 1..data |-> "data"] \o (IF reset THEN <<"reset">> ELSE <<>>)
  /\ complete' = reset
  /\ UNCHANGED <<parts, created>>

\* rmt_encode_led_strip: the data; with memory left, or from the next call on, the
\* reset code.
Encode(room) ==
  LET left == DataSymbols - written
      dataDone == state = 1 \/ Complete(left, room)
      yields == state = 0 /\ MemFull(left, room)
      data == IF state = 0 THEN Fits(left, room) ELSE 0
      room1 == room - data
      reset == ~yields /\ Complete(1, room1)
  IN
  /\ created /\ ~complete
  /\ state' = IF reset THEN 0 ELSE IF dataDone THEN 1 ELSE 0
  /\ written' = IF dataDone THEN 0 ELSE written + data
  /\ sent' = sent \o [i \in 1..data |-> "data"] \o (IF reset THEN <<"reset">> ELSE <<>>)
  /\ complete' = reset
  /\ UNCHANGED <<parts, created>>

\* The driver has sent a complete transmission; the next one begins.
Transmitted ==
  /\ complete
  /\ sent' = <<>> /\ complete' = FALSE
  /\ UNCHANGED <<parts, created, state, written>>

Next ==
  \/ \E failing \in {"none", "calloc", "bytes", "copy"} : New(failing)
  \/ Del \/ Reset \/ Transmitted
  \/ \E room \in 0..Block : Encode(room)

Spec == Init /\ [][Next]_vars

-----------------------------------------------------------------------------

\* However the driver's memory cuts it up, a transmission is the data once, then one
\* reset code, reported complete exactly then; and what encoder_new allocates is
\* there while an encoder is, and not after.
FrameThenReset ==
  /\ complete <=> Len(sent) = DataSymbols + 1
  /\ Len(sent) <= DataSymbols + 1
  /\ \A i \in 1..Len(sent) : sent[i] = IF i <= DataSymbols THEN "data" ELSE "reset"
  /\ parts = IF created THEN {"encoder", "bytes", "copy"} ELSE {}
=============================================================================
