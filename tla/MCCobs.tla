------------------------------- MODULE MCCobs -------------------------------
(***************************************************************************)
(* Every string of bytes up to a length, as an input of the encoder and as *)
(* an input of the decoder.                                                *)
(***************************************************************************)
EXTENDS Cobs

CONSTANTS Alphabet,  \* the bytes of the strings
          MaxLength  \* bound: the length of the longest string

VARIABLE bytes

Init == bytes = << >>

\* Bound: behind the fifth byte, none is larger than 2.
Grow == /\ Len(bytes) < MaxLength
        /\ \E b \in Alphabet :
             /\ Len(bytes) < 5 \/ b <= 2
             /\ bytes' = Append(bytes, b)

Next == Grow

Spec == Init /\ [][Next]_bytes

-----------------------------------------------------------------------------
(* What Cobs_decode makes of what Cobs_encode made of a message is the       *)
(* message, when the output buffer just holds it, whatever blocks the        *)
(* message falls into.                                                       *)
RoundTrip == Decode(Encoded(bytes), Len(bytes)) = [len |-> Len(bytes), msg |-> bytes]

(* Cobs_encode cuts a message into the blocks the definition of COBS names,  *)
(* except where a zero follows a maximal block.                              *)
EncodesByReference == FullBlockThenZero(bytes) \/ Encoded(bytes) = RefEncode(bytes)

(* Cobs_decode accepts nothing but encodings: zero-free input it decodes is  *)
(* the encoding of its output, save that an empty block may follow a maximal *)
(* one at the end.                                                           *)
AcceptsOnlyEncodings ==
  LET d == Decode(bytes, Len(bytes))
  IN 0 \notin ToSet(bytes) /\ d.len >= 0 =>
       \/ bytes = RefEncode(d.msg)
       \/ bytes = RefEncode(d.msg) \o <<1>>

(* The encoding of a message holds no framing byte (Cobs.c:59-61 takes the   *)
(* byte after a maximal block for "the current non-null byte").              *)
NoFramingByte == 0 \notin ToSet(Encoded(bytes))

(* A buffer of the length COBS promises is enough: Cobs_encode succeeds in   *)
(* it and stores nothing beyond its end, though only its data stores are     *)
(* checked ("Max size of the output buffer", Cobs.c:30).                     *)
PromisedLength == Len(bytes) + (Len(bytes) \div (MaxCode - 1)) + 1

PromisedLengthSuffices ==
  \A max \in PromisedLength..Ample(bytes) :
    LET e == Encode(bytes, max) IN e.len > 0 /\ e.len <= max /\ e.top <= max
=============================================================================
