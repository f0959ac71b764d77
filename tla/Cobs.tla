-------------------------------- MODULE Cobs --------------------------------
(***************************************************************************)
(* Cobs_encode and Cobs_decode of Cobs/src/Cobs.c, as functions of their   *)
(* arguments.  A buffer is a function from offsets to bytes, a message a   *)
(* sequence of bytes.  The length a code byte can announce is a constant,  *)
(* so that blocks of maximal length occur in short messages.               *)
(***************************************************************************)
EXTENDS Integers, Sequences, SequencesExt

CONSTANT MaxCode  \* 255: the code byte of a maximal block

ASSUME MaxCodeAssumption == MaxCode \in Nat /\ MaxCode > 2

Octet == 0..MaxCode

-----------------------------------------------------------------------------
(* Cobs_encode *)

(* The buffer the model gives the encoder reaches past the caller's, so     *)
(* that the stores the code does not check can be seen.                     *)
Room(src) == 0..(2 * Len(src) + 1)

EncodeStart(src) ==
  [out |-> [i \in Room(src) |-> 0], count |-> 0, code |-> 0, top |-> 0, failed |-> FALSE]

(* A store into enc_out; top is the end of what has been stored. *)
Store(s, i, byte) ==
  [s EXCEPT !.out[i] = byte, !.top = IF i >= @ THEN i + 1 ELSE @]

(* A data byte is stored unless its offset is the end of the buffer. *)
StoreData(s, i, byte, maxEncLen) ==
  IF i = maxEncLen THEN [s EXCEPT !.failed = TRUE] ELSE Store(s, i, byte)

(* Mutant: a maximal block is left without opening the next one. *)
Mut_EncodeByte(s, byte, maxEncLen) ==
  LET count == s.count + 1
      next  == s.code + count
  IN IF s.failed THEN s
     ELSE IF byte # 0 /\ count < MaxCode
     THEN StoreData([s EXCEPT !.count = count], s.code + count, byte, maxEncLen)
     ELSE IF count < MaxCode
     THEN [Store(s, s.code, count) EXCEPT !.code = next, !.count = 0]
     ELSE StoreData([Store(s, s.code, count) EXCEPT !.code = next, !.count = 0],
                    next + 1, byte, maxEncLen)

(* One iteration of the loop. *)
EncodeByte(s, byte, maxEncLen) ==
  LET count == s.count + 1
      next  == s.code + count
  IN IF s.failed THEN s
     ELSE IF byte # 0 /\ count < MaxCode
     THEN StoreData([s EXCEPT !.count = count], s.code + count, byte, maxEncLen)
     ELSE IF count < MaxCode
     THEN [Store(s, s.code, count) EXCEPT !.code = next, !.count = 0]
     ELSE StoreData([Store(s, s.code, count) EXCEPT !.code = next, !.count = 1],
                    next + 1, byte, maxEncLen)

(* EncodeLoop(src, maxEncLen)[n]: the encoder after n iterations. *)
EncodeLoop(src, maxEncLen) ==
  LET Loop[n \in 0..Len(src)] ==
        IF n = 0 THEN EncodeStart(src) ELSE EncodeByte(Loop[n - 1], src[n], maxEncLen)
  IN Loop

(* The encoder's buffer, its return value, and how far it stored. *)
Encode(src, maxEncLen) ==
  LET loop == EncodeLoop(src, maxEncLen)[Len(src)]
      last == Store(loop, loop.code, loop.count + 1)
  IN IF loop.failed
     THEN [out |-> loop.out, len |-> -1, top |-> loop.top]
     ELSE [out |-> last.out, len |-> loop.code + loop.count + 1, top |-> last.top]

(* A length no encoding of the message exceeds. *)
Ample(src) == 2 * Len(src) + 2

(* What a caller takes from a buffer that is long enough. *)
Encoded(src) ==
  LET e == Encode(src, Ample(src)) IN [i \in 1..e.len |-> e.out[i - 1]]

-----------------------------------------------------------------------------
(* Cobs_decode *)

Failed == [len |-> -1, msg |-> << >>]

(* The number of bytes the code byte at the head of a block covers, itself  *)
(* included: the copying loop leaves count at 1 for the codes 0 and 1.      *)
BlockLen(code) == IF code = 0 THEN 1 ELSE code

(* Blocks(enc)[p]: what the decoder outputs from the code byte at offset p   *)
(* on.  The loop ends only when a block ends exactly at the end of the       *)
(* input.  When one reaches beyond, the code runs on over whatever follows   *)
(* in memory, producing output until the output buffer is full, and fails.   *)
Blocks(enc) ==
  LET n == Len(enc)
      From[p \in 0..n] ==
        IF p = n THEN Failed
        ELSE LET q    == p + BlockLen(enc[p + 1])
                 data == SubSeq(enc, p + 2, q)
             IN IF q > n THEN Failed
                ELSE IF q = n THEN [len |-> Len(data), msg |-> data]
                ELSE LET rest == From[q]
                         head == IF BlockLen(enc[p + 1]) = MaxCode THEN data ELSE data \o <<0>>
                     IN IF rest.len < 0 THEN Failed
                        ELSE [len |-> Len(head) + rest.len, msg |-> head \o rest.msg]
  IN From

Decode(enc, maxOut) ==
  LET all == Blocks(enc)[0] IN IF all.len > maxOut THEN Failed ELSE all

-----------------------------------------------------------------------------
(* The reference: a message encodes to blocks, each a code byte and the      *)
(* bytes up to the next zero, cut at the longest length a code can announce. *)
RefCut(src, p) ==  \* the end of the block of what follows the first p bytes
  LET n    == Len(src)
      run  == SelectInSubSeq(src, p + 1, n, LAMBDA b : b = 0)
      stop == IF run = 0 THEN n ELSE run - 1
  IN IF stop - p >= MaxCode - 1 THEN p + MaxCode - 1 ELSE stop

RefBlocks(src) ==
  LET n == Len(src)
      Rest[p \in 0..n] ==  \* the encoding of what follows the first p bytes
        LET cut   == RefCut(src, p)
            block == <<cut - p + 1>> \o SubSeq(src, p + 1, cut)
        IN IF cut = n THEN block
           ELSE IF cut - p = MaxCode - 1 THEN block \o Rest[cut]
           ELSE block \o Rest[cut + 1]
  IN Rest

RefEncode(src) == RefBlocks(src)[0]

(* The bytes of a maximal block followed by a zero: the one place where the  *)
(* code departs from the reference.                                          *)
FullBlockThenZero(src) ==
  \E i \in 1..Len(src) :
    /\ src[i] = 0
    /\ i >= MaxCode
    /\ \A j \in (i - MaxCode + 1)..(i - 1) : src[j] # 0
=============================================================================
