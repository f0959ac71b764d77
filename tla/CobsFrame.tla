----------------------------- MODULE CobsFrame -----------------------------
(***************************************************************************)
(* Cobs_framer and Cobs_deframer of Cobs/src/Cobs_frame.c.  A framer is a  *)
(* function of the message; a call of the deframer is a function of the    *)
(* deframer's state and of the bytes it is given.                          *)
(*                                                                         *)
(* The deframer's fifo is the SwFifo of this project used by one task: it  *)
(* is a sequence here, which is what FifoAlone of MCWire shows of SwFifo.  *)
(***************************************************************************)
EXTENDS Cobs

CONSTANTS Depth,  \* buf_depth: the size of the fifo and of the work buffer
          MaxOut  \* max_buf_out: the size of the buffer for a message

ASSUME BufferAssumption == Depth \in Nat \ {0} /\ MaxOut \in Nat \ {0}

Frame(enc) == <<0>> \o enc \o <<0>>

(* Cobs_framer: the frame, or the failure of a buffer that would be filled. *)
Framer(src, maxEncLen) ==
  LET e == Encode(src, maxEncLen)
  IN IF e.len <= 0 \/ e.len + 2 >= maxEncLen
     THEN [len |-> -1, frame |-> << >>]
     ELSE [len |-> e.len + 2, frame |-> Frame(Encoded(src))]

-----------------------------------------------------------------------------
(* The states a deframer can be in between two calls.  FIND_SOF and DECODE   *)
(* never outlive a call.  work holds the bytes of the frame being received   *)
(* (deframer->count of them).                                                *)
Deframer == [state : {"INIT", "FIND_EOF", "ERROR"}, work : Seq(Octet), fifo : Seq(Octet)]

(* Cobs_deframer_init; SwFifo_flush with the state set to INIT. *)
Flushed == [state |-> "INIT", work |-> << >>, fifo |-> << >>]

(* What a call leaves and returns: 0 stands for "no message". *)
Return(d)       == [deframer |-> d, len |-> 0, msg |-> << >>]
Deliver(d, num) == [deframer |-> d, len |-> num.len, msg |-> num.msg]

(* The position of the first framing byte, 0 if there is none. *)
FramingByte(bytes) == SelectInSeq(bytes, LAMBDA b : b = 0)

(* Mutant: after a delivery the state is not set back to INIT. *)
Mut_DecodeFrame(frame, rest) ==
  LET num == Decode(frame, MaxOut)
  IN IF num.len < 0 THEN Return(Flushed)
     ELSE Deliver([Flushed EXCEPT !.fifo = rest, !.state = "FIND_EOF"], num)

(* case DECODE: one message per call, the rest stays in the fifo. *)
DecodeFrame(frame, rest) ==
  LET num == Decode(frame, MaxOut)
  IN IF num.len < 0 THEN Return(Flushed)
     ELSE Deliver([Flushed EXCEPT !.fifo = rest], num)

(* Mutant: a call starts the frame over instead of continuing it. *)
Mut_FindEof(d) ==
  LET eof  == FramingByte(d.fifo)
      room == Depth
      n    == Len(d.fifo)
  IN IF eof \in 1..room
     THEN DecodeFrame(SubSeq(d.fifo, 1, eof - 1), SubSeq(d.fifo, eof + 1, n))
     ELSE LET moved == IF n <= room THEN n ELSE room
          IN Return([state |-> IF n <= room THEN "FIND_EOF" ELSE "ERROR",
                     work  |-> SubSeq(d.fifo, 1, moved),
                     fifo  |-> SubSeq(d.fifo, moved + 1, n)])

(* Mutant: one byte more than work holds is moved. *)
Mut_FindEof_room(d) ==
  LET eof  == FramingByte(d.fifo)
      room == Depth + 1 - Len(d.work)
      n    == Len(d.fifo)
  IN IF eof \in 1..room
     THEN DecodeFrame(d.work \o SubSeq(d.fifo, 1, eof - 1), SubSeq(d.fifo, eof + 1, n))
     ELSE LET moved == IF n <= room THEN n ELSE room
          IN Return([state |-> IF n <= room THEN "FIND_EOF" ELSE "ERROR",
                     work  |-> d.work \o SubSeq(d.fifo, 1, moved),
                     fifo  |-> SubSeq(d.fifo, moved + 1, n)])

(* case FIND_EOF: bytes move from the fifo to work until a framing byte has  *)
(* moved, the fifo is empty, or work is full and another byte is waiting.    *)
FindEof(d) ==
  LET eof  == FramingByte(d.fifo)
      room == Depth - Len(d.work)
      n    == Len(d.fifo)
  IN IF eof \in 1..room
     THEN DecodeFrame(d.work \o SubSeq(d.fifo, 1, eof - 1), SubSeq(d.fifo, eof + 1, n))
     ELSE LET moved == IF n <= room THEN n ELSE room
          IN Return([state |-> IF n <= room THEN "FIND_EOF" ELSE "ERROR",
                     work  |-> d.work \o SubSeq(d.fifo, 1, moved),
                     fifo  |-> SubSeq(d.fifo, moved + 1, n)])

(* cases INIT and FIND_SOF: bytes are discarded up to a framing byte. *)
FindSof(d) ==
  LET sof == FramingByte(d.fifo)
  IN IF sof = 0 THEN Return(Flushed)
     ELSE FindEof([state |-> "FIND_EOF", work |-> << >>,
                   fifo |-> SubSeq(d.fifo, sof + 1, Len(d.fifo))])

(* Mutant: a write the fifo refuses is dropped, and the deframer goes on.    *)
Mut_Deframe(d, chunk) ==
  LET written == [d EXCEPT !.fifo = @ \o chunk]
  IN IF Depth - Len(d.fifo) < Len(chunk) THEN Return(d)
     ELSE IF d.state = "ERROR" THEN Return(Flushed)
     ELSE IF d.state = "INIT"  THEN FindSof(written)
     ELSE FindEof(written)

(* Cobs_deframer *)
Deframe(d, chunk) ==
  LET written == [d EXCEPT !.fifo = @ \o chunk]
  IN IF Depth - Len(d.fifo) < Len(chunk) THEN Return(Flushed)
     ELSE IF d.state = "ERROR" THEN Return(Flushed)
     ELSE IF d.state = "INIT"  THEN FindSof(written)
     ELSE FindEof(written)
=============================================================================
