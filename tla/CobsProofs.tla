----------------------------- MODULE CobsProofs -----------------------------
(***************************************************************************)
(* Theorems about the codec of Cobs, for messages of any length: decoding  *)
(* inverts encoding, a buffer of the promised length is enough for what    *)
(* the encoder writes, the encoder writes the blocks of the definition of  *)
(* COBS (but where a zero follows a maximal block), and the decoder takes  *)
(* nothing but encodings.                                                  *)
(*                                                                         *)
(* The codec is two recursive functions, over the bytes of the message and *)
(* over the blocks of what was encoded, and the definition of COBS is a    *)
(* third, over the blocks of the message.  The proofs go by induction over *)
(* the set of the lengths for which a fact holds (SetInduction), which     *)
(* follows from the well-founded order of the naturals.  What the encoder  *)
(* has written after n bytes is kept in the invariant of its loop; what    *)
(* the decoder makes of it, and what the definition says of a message, is  *)
(* read block by block from the end.                                       *)
(*                                                                         *)
(* The lemmas about the deframer of CobsFrame say what one call makes of a *)
(* frame of which any part has come: they serve the streams and servers    *)
(* that use it.                                                            *)
(***************************************************************************)
EXTENDS CobsFrame, SequenceTheorems, WellFoundedInduction, TLAPS

(* A set of naturals that holds 0, and with each number the next, holds all. *)
LEMMA SetInduction ==
  ASSUME NEW S \in SUBSET Nat, 0 \in S, \A n \in S : n + 1 \in S
  PROVE  S = Nat
<1> DEFINE R == {ss \in Nat \X Nat : ss[1] < ss[2]}
           T == Nat \ S
<1> SUFFICES ASSUME T # {} PROVE FALSE
  OBVIOUS
<1>1. IsWellFoundedOn(R, Nat)
  BY NatLessThanWellFounded DEF OpToRel
<1>2. PICK x \in T : \A y \in T : ~(<<y, x>> \in R)
  <2> HIDE DEF R, T
  <2>1. T \subseteq Nat
    BY DEF T
  <2> QED BY <1>1, <2>1, WFMin
<1>3. x \in Nat /\ x # 0
  OBVIOUS
<1>4. x - 1 \in Nat /\ <<x - 1, x>> \in R
  BY <1>3
<1>5. x - 1 \in S
  BY <1>2, <1>4
<1> QED BY <1>2, <1>3, <1>5

(* The recursion of EncodeLoop. *)
LEMMA LoopSteps ==
  ASSUME NEW src \in Seq(Octet), NEW max
  PROVE  LET loop == EncodeLoop(src, max) IN
         /\ loop[0] = EncodeStart(src)
         /\ \A n \in 0..(Len(src) - 1) : loop[n + 1] = EncodeByte(loop[n], src[n + 1], max)
<1> DEFINE Body(g, n) == IF n = 0 THEN EncodeStart(src) ELSE EncodeByte(g[n - 1], src[n], max)
           Solves(g, m) == g = [n \in 0..m |-> Body(g, n)]
           S == {m \in Nat : \E g : Solves(g, m)}
<1>1. 0 \in S
  <2> DEFINE g == [n \in 0..0 |-> EncodeStart(src)]
  <2>1. Solves(g, 0)
    OBVIOUS
  <2> QED BY <2>1
<1>2. ASSUME NEW m \in S PROVE m + 1 \in S
  <2>1. PICK g : Solves(g, m)
    BY <1>2
  <2> DEFINE h == [n \in 0..(m + 1) |-> IF n <= m THEN g[n] ELSE EncodeByte(g[m], src[m + 1], max)]
  <2>2. m \in Nat
    BY <1>2
  <2>3. ASSUME NEW n \in 0..(m + 1) PROVE h[n] = Body(h, n)
    <3>1. CASE n = 0
      <4>1. 0 \in 0..m /\ 0 <= m
        BY <2>2
      <4>2. g[0] = EncodeStart(src)
        BY <2>1, <4>1
      <4> QED BY <3>1, <4>1, <4>2
    <3>2. CASE n \in 1..m
      <4>1. n \in 0..m /\ n - 1 \in 0..m /\ n # 0 /\ n <= m /\ n - 1 <= m /\ n - 1 \in 0..(m + 1)
        BY <2>2, <3>2
      <4>2. g[n] = EncodeByte(g[n - 1], src[n], max)
        BY <2>1, <4>1
      <4> QED BY <4>1, <4>2
    <3>3. CASE n = m + 1
      <4>1. ~(n <= m) /\ n - 1 = m /\ m <= m /\ m \in 0..(m + 1) /\ n # 0
        BY <2>2, <3>3
      <4> QED BY <3>3, <4>1
    <3> QED BY <2>2, <3>1, <3>2, <3>3
  <2>4. Solves(h, m + 1)
    <3> HIDE DEF Body
    <3> QED BY <2>3
  <2> HIDE DEF Solves, h
  <2> QED BY <2>2, <2>4
<1>3. S = Nat
  <2> HIDE DEF S
  <2>1. S \in SUBSET Nat
    BY DEF S
  <2> QED BY <1>1, <1>2, <2>1, SetInduction
<1> DEFINE loop == EncodeLoop(src, max)
<1>4. Len(src) \in Nat
  OBVIOUS
<1>5. Solves(loop, Len(src))
  <2>1. \E g : Solves(g, Len(src))
    BY <1>3, <1>4
  <2>2. loop = CHOOSE g : Solves(g, Len(src))
    BY DEF EncodeLoop
  <2> HIDE DEF loop, Solves
  <2> QED BY <2>1, <2>2
<1> HIDE DEF loop
<1>6. loop[0] = EncodeStart(src)
  BY <1>4, <1>5
<1>7. ASSUME NEW n \in 0..(Len(src) - 1) PROVE loop[n + 1] = EncodeByte(loop[n], src[n + 1], max)
  <2>1. n + 1 \in 0..Len(src) /\ n + 1 # 0 /\ n + 1 - 1 = n
    BY <1>4
  <2> QED BY <1>5, <2>1
<1> QED BY <1>6, <1>7 DEF loop

-----------------------------------------------------------------------------
(* Cobs_decode *)

(* What the decoder outputs from a code byte on, in terms of what it outputs  *)
(* from the next one on.                                                      *)
Continue(head, rest) ==
  IF rest.len < 0 THEN Failed ELSE [len |-> Len(head) + rest.len, msg |-> head \o rest.msg]

From(enc, later, p) ==
  LET q    == p + BlockLen(enc[p + 1])
      data == SubSeq(enc, p + 2, q)
  IN IF q > Len(enc) THEN Failed
     ELSE IF q = Len(enc) THEN [len |-> Len(data), msg |-> data]
     ELSE Continue(IF BlockLen(enc[p + 1]) = MaxCode THEN data ELSE data \o << 0 >>, later[q])

(* A block is not empty: it has its code byte. *)
LEMMA BlockMoves ==
  ASSUME NEW enc \in Seq(Octet), NEW p \in 0..(Len(enc) - 1)
  PROVE  BlockLen(enc[p + 1]) \in 1..MaxCode
<1>1. enc[p + 1] \in Octet
  OBVIOUS
<1> QED BY <1>1, MaxCodeAssumption DEF BlockLen, Octet

(* The recursion of Blocks. *)
LEMMA BlocksStep ==
  ASSUME NEW enc \in Seq(Octet)
  PROVE  /\ Blocks(enc)[Len(enc)] = Failed
         /\ \A p \in 0..(Len(enc) - 1) : Blocks(enc)[p] = From(enc, Blocks(enc), p)
<1> DEFINE n == Len(enc)
           Body(g, p) == IF p = n THEN Failed ELSE From(enc, g, p)
           Solves(g, k) == g = [p \in (n - k)..n |-> Body(g, p)]
           S == {k \in Nat : k <= n => \E g : Solves(g, k)}
<1>0. n \in Nat
  OBVIOUS
<1>1. 0 \in S
  <2> DEFINE g == [p \in (n - 0)..n |-> Failed]
  <2>1. Solves(g, 0)
    OBVIOUS
  <2> HIDE DEF Solves, g
  <2> QED BY <2>1
<1>2. ASSUME NEW k \in S PROVE k + 1 \in S
  <2>0. k \in Nat
    OBVIOUS
  <2>1. SUFFICES ASSUME k + 1 <= n PROVE \E g : Solves(g, k + 1)
    <3> HIDE DEF Solves, n
    <3> QED BY <2>0
  <2>2. PICK g : Solves(g, k)
    <3>1. k <= n
      BY <2>0, <2>1, <1>0
    <3> HIDE DEF Solves, n
    <3> QED BY <3>1
  <2> DEFINE first == n - (k + 1)
             h == [p \in first..n |-> IF p = first THEN From(enc, g, p) ELSE g[p]]
  <2>3. ASSUME NEW p \in first..n PROVE h[p] = Body(h, p)
    <3>1. CASE p = n
      <4>1. p # first /\ p \in (n - k)..n
        BY <2>0, <2>1, <3>1
      <4>2. g[p] = Failed
        BY <2>2, <3>1, <4>1
      <4> QED BY <3>1, <4>1, <4>2
    <3>2. CASE p # n
      <4> DEFINE q == p + BlockLen(enc[p + 1])
      <4>1. p \in 0..(n - 1)
        BY <2>0, <2>1, <3>2
      <4>2. BlockLen(enc[p + 1]) \in Nat \ {0}
        BY <4>1, BlockMoves, MaxCodeAssumption
      <4>3. q <= n => q \in first..n /\ q # first
        <5> HIDE DEF n
        <5> QED BY <4>1, <4>2, <1>0, <2>0, <2>1
      <4>4. q <= n => h[q] = g[q]
        BY <4>3
      <4>5. From(enc, h, p) = From(enc, g, p)
        <5> HIDE DEF h
        <5> QED BY <4>1, <4>2, <4>4 DEF From
      <4>6. CASE p = first
        <5> HIDE DEF From
        <5> QED BY <3>2, <4>5, <4>6
      <4>7. CASE p # first
        <5>1. p \in (n - k)..n
          BY <2>0, <2>1, <4>7
        <5>2. g[p] = From(enc, g, p)
          <6> HIDE DEF From
          <6> QED BY <2>2, <3>2, <5>1
        <5> HIDE DEF From
        <5> QED BY <3>2, <4>5, <4>7, <5>2
      <4> QED BY <4>6, <4>7
    <3> QED BY <3>1, <3>2
  <2>4. Solves(h, k + 1)
    <3> HIDE DEF Body
    <3> QED BY <2>3
  <2> HIDE DEF Solves, h
  <2> QED BY <2>4
<1>3. S = Nat
  <2> HIDE DEF S
  <2>1. S \in SUBSET Nat
    BY DEF S
  <2> QED BY <1>1, <1>2, <2>1, SetInduction
<1> DEFINE all == Blocks(enc)
<1>4. Solves(all, n)
  <2>1. \E g : Solves(g, n)
    <3> HIDE DEF Solves
    <3>1. n \in S
      <4> HIDE DEF S, n
      <4> QED BY <1>0, <1>3
    <3>2. n <= n
      BY <1>0
    <3> HIDE DEF n
    <3> QED BY <3>1, <3>2
  <2>2. all = CHOOSE g : g = [p \in 0..n |-> Body(g, p)]
    BY DEF Blocks, From, Continue
  <2>3. n - n = 0
    BY <1>0
  <2> HIDE DEF all, Body, n
  <2> QED BY <2>1, <2>2, <2>3
<1>5. all = [p \in 0..n |-> Body(all, p)]
  <2>1. n - n = 0
    BY <1>0
  <2> HIDE DEF all, Body, n
  <2> QED BY <1>4, <2>1
<1> HIDE DEF all
<1>6. all[n] = Failed
  BY <1>0, <1>5
<1>7. ASSUME NEW p \in 0..(n - 1) PROVE all[p] = From(enc, all, p)
  <2>1. p \in 0..n /\ p # n
    BY <1>0
  <2> HIDE DEF From
  <2> QED BY <1>5, <2>1
<1> HIDE DEF From
<1> QED BY <1>6, <1>7 DEF all

(* What the decoder outputs: a message with its length, or a failure. *)
Result == {Failed} \cup {[len |-> Len(msg), msg |-> msg] : msg \in Seq(Octet)}

LEMMA ContinueResult ==
  ASSUME NEW head \in Seq(Octet), NEW rest \in Result
  PROVE  Continue(head, rest) \in Result
<1>1. CASE rest = Failed
  BY <1>1 DEF Continue, Failed, Result
<1>2. CASE rest # Failed
  <2>1. PICK msg \in Seq(Octet) : rest = [len |-> Len(msg), msg |-> msg]
    BY <1>2 DEF Result
  <2>2. head \o msg \in Seq(Octet) /\ Len(head \o msg) = Len(head) + Len(msg) /\ Len(msg) >= 0
    OBVIOUS
  <2>3. Continue(head, rest) = [len |-> Len(head \o msg), msg |-> head \o msg]
    BY <2>1, <2>2 DEF Continue
  <2> QED BY <2>2, <2>3 DEF Result
<1> QED BY <1>1, <1>2

LEMMA BlocksResult ==
  ASSUME NEW enc \in Seq(Octet)
  PROVE  \A p \in 0..Len(enc) : Blocks(enc)[p] \in Result
<1> DEFINE n == Len(enc)
           all == Blocks(enc)
           S == {k \in Nat : \A p \in 0..n : n - p <= k => all[p] \in Result}
<1>0. n \in Nat
  OBVIOUS
<1>1. all[n] = Failed /\ Failed \in Result
  BY BlocksStep DEF Result
<1>2. 0 \in S
  <2>1. ASSUME NEW p \in 0..n, n - p <= 0 PROVE p = n
    BY <2>1, <1>0
  <2> HIDE DEF n, all
  <2> QED BY <1>1, <2>1
<1>3. ASSUME NEW k \in S PROVE k + 1 \in S
  <2>1. SUFFICES ASSUME NEW p \in 0..n, n - p <= k + 1 PROVE all[p] \in Result
    OBVIOUS
  <2>2. CASE p = n
    BY <1>1, <2>2
  <2>3. CASE p # n
    <3> DEFINE q == p + BlockLen(enc[p + 1])
               data == SubSeq(enc, p + 2, q)
               head == IF BlockLen(enc[p + 1]) = MaxCode THEN data ELSE data \o << 0 >>
    <3>1. p \in 0..(n - 1)
      BY <1>0, <2>3
    <3>2. BlockLen(enc[p + 1]) \in Nat \ {0}
      BY <3>1, BlockMoves, MaxCodeAssumption
    <3>3. all[p] = From(enc, all, p)
      <4> HIDE DEF From
      <4> QED BY <3>1, BlocksStep
    <3>4. CASE q > n
      BY <3>3, <3>4, <1>1 DEF From
    <3>5. CASE q <= n
      <4>1. q \in 0..n /\ p + 2 \in 1..(n + 1) /\ q \in Int
        BY <3>1, <3>2, <3>5
      <4>2. data \in Seq(Octet)
        <5>1. \A i \in (p + 2)..q : i \in 1..n
          BY <3>1, <3>2, <3>5
        <5> HIDE DEF q
        <5> QED BY <3>1, <4>1, <5>1, SubSeqProperties
      <4>3. 0 \in Octet /\ head \in Seq(Octet)
        <5>1. 0 \in Octet
          BY MaxCodeAssumption DEF Octet
        <5>2. data \o << 0 >> \in Seq(Octet)
          <6> HIDE DEF data
          <6> QED BY <4>2, <5>1
        <5> HIDE DEF data
        <5> QED BY <4>2, <5>1, <5>2
      <4>4. all[q] \in Result
        <5>1. n - q <= k
          BY <2>1, <3>1, <3>2, <4>1, <1>3
        <5> HIDE DEF q, all, n
        <5> QED BY <1>3, <4>1, <5>1
      <4>5. Continue(head, all[q]) \in Result
        <5> HIDE DEF head, q, all
        <5> QED BY <4>3, <4>4, ContinueResult
      <4>6. [len |-> Len(data), msg |-> data] \in Result
        <5> HIDE DEF data
        <5> QED BY <4>2 DEF Result
      <4>7. all[p] \in {Continue(head, all[q]), [len |-> Len(data), msg |-> data]}
        BY <3>3, <3>5, <4>1, <1>0 DEF From
      <4> HIDE DEF all, head, q, data
      <4> QED BY <4>5, <4>6, <4>7
    <3>6. q \in Int
      BY <3>1, <3>2
    <3> HIDE DEF q
    <3> QED BY <3>4, <3>5, <3>6, <1>0
  <2> QED BY <2>2, <2>3
<1>4. S = Nat
  <2> HIDE DEF S
  <2>1. S \in SUBSET Nat
    BY DEF S
  <2> QED BY <1>2, <1>3, <2>1, SetInduction
<1>5. ASSUME NEW p \in 0..n PROVE all[p] \in Result
  <2>1. n \in S /\ n - p <= n
    BY <1>0, <1>4
  <2> HIDE DEF n, all
  <2> QED BY <2>1
<1> QED BY <1>5

(* Concatenation associates. *)
LEMMA Associates ==
  \A s, t, u \in Seq(Octet) : (s \o t) \o u = s \o (t \o u)
  BY ConcatAssociative

LEMMA ContinueTwice ==
  ASSUME NEW head \in Seq(Octet), NEW next \in Seq(Octet), NEW rest \in Result
  PROVE  Continue(head, Continue(next, rest)) = Continue(head \o next, rest)
<1>1. CASE rest = Failed
  BY <1>1 DEF Continue, Failed
<1>2. CASE rest # Failed
  <2>1. PICK msg \in Seq(Octet) : rest = [len |-> Len(msg), msg |-> msg]
    BY <1>2 DEF Result
  <2>2. /\ Len(next \o msg) = Len(next) + Len(msg) /\ Len(next) + Len(msg) >= 0 /\ Len(msg) >= 0
        /\ Len(head \o next) = Len(head) + Len(next)
        /\ Len(head) + (Len(next) + Len(msg)) = Len(head) + Len(next) + Len(msg)
    OBVIOUS
  <2>3. head \o (next \o msg) = (head \o next) \o msg
    BY Associates
  <2>4. Continue(next, rest) = [len |-> Len(next) + Len(msg), msg |-> next \o msg]
    BY <2>1, <2>2 DEF Continue
  <2>5. Continue(head, Continue(next, rest))
          = [len |-> Len(head) + (Len(next) + Len(msg)), msg |-> head \o (next \o msg)]
    <3> DEFINE both == Continue(next, rest)
    <3>1. both.len = Len(next) + Len(msg) /\ both.msg = next \o msg /\ ~(both.len < 0)
      BY <2>2, <2>4
    <3> HIDE DEF both
    <3>2. Continue(head, both)
            = [len |-> Len(head) + (Len(next) + Len(msg)), msg |-> head \o (next \o msg)]
      BY <3>1 DEF Continue
    <3> QED BY <3>2 DEF both
  <2>6. Continue(head \o next, rest)
          = [len |-> Len(head \o next) + Len(msg), msg |-> (head \o next) \o msg]
    BY <2>1, <2>2 DEF Continue
  <2> QED BY <2>2, <2>3, <2>5, <2>6
<1> QED BY <1>1, <1>2

-----------------------------------------------------------------------------
(* Cobs_encode *)

EncoderState(src) ==
  [out : [Room(src) -> Octet], count : 0..(MaxCode - 1), code : Nat, top : Nat, failed : BOOLEAN]

LEMMA StoreFields ==
  ASSUME NEW src \in Seq(Octet), NEW s \in EncoderState(src),
         NEW i \in Room(src), NEW byte \in Octet
  PROVE  /\ Store(s, i, byte) \in EncoderState(src)
         /\ Store(s, i, byte).out = [s.out EXCEPT ![i] = byte]
         /\ Store(s, i, byte).code = s.code /\ Store(s, i, byte).count = s.count
         /\ Store(s, i, byte).failed = s.failed
         /\ Store(s, i, byte).top = IF i >= s.top THEN i + 1 ELSE s.top
<1>1. i \in Nat
  BY DEF Room
<1> DEFINE out == [s.out EXCEPT ![i] = byte]
           top == IF i >= s.top THEN i + 1 ELSE s.top
<1>2. out \in [Room(src) -> Octet] /\ top \in Nat
  BY <1>1 DEF EncoderState
<1>3. Store(s, i, byte) = [s EXCEPT !.out = out, !.top = top]
  BY DEF Store
<1> HIDE DEF out, top
<1>4. /\ Store(s, i, byte) \in EncoderState(src)
      /\ Store(s, i, byte).out = out /\ Store(s, i, byte).top = top
      /\ Store(s, i, byte).code = s.code /\ Store(s, i, byte).count = s.count
      /\ Store(s, i, byte).failed = s.failed
  BY <1>2, <1>3 DEF EncoderState
<1> QED BY <1>4 DEF out, top

(* One iteration, when there is room in both buffers: the byte joins the open *)
(* block, or ends it, or the block is full and the byte begins the next one.  *)
Joins(s, byte, t) ==
  LET next == s.code + s.count + 1 IN
  /\ byte # 0
  /\ t.code = s.code /\ t.count = s.count + 1
  /\ t.out = [s.out EXCEPT ![next] = byte]
  /\ t.top = IF next >= s.top THEN next + 1 ELSE s.top

Ends(s, byte, t) ==
  /\ byte = 0 /\ s.count + 1 < MaxCode
  /\ t.code = s.code + s.count + 1 /\ t.count = 0
  /\ t.out = [s.out EXCEPT ![s.code] = s.count + 1]
  /\ t.top = IF s.code >= s.top THEN s.code + 1 ELSE s.top

Begins(s, byte, t) ==
  LET next == s.code + s.count + 1 IN
  /\ s.count + 1 = MaxCode
  /\ t.code = next /\ t.count = 1
  /\ t.out = [[s.out EXCEPT ![s.code] = s.count + 1] EXCEPT ![next + 1] = byte]
  /\ t.top \in {next + 2, s.top, s.code + 1}

LEMMA EncodeByteFields ==
  ASSUME NEW src \in Seq(Octet), NEW s \in EncoderState(src), ~s.failed,
         NEW byte \in Octet, NEW max,
         s.code + s.count + 2 \in Room(src),
         s.code + s.count + 1 # max,
         s.count = MaxCode - 1 => s.code + s.count + 2 # max
  PROVE  LET t == EncodeByte(s, byte, max)
         IN /\ t \in EncoderState(src) /\ ~t.failed
            /\ Joins(s, byte, t) \/ Ends(s, byte, t) \/ Begins(s, byte, t)
<1> USE MaxCodeAssumption
<1> DEFINE t == EncodeByte(s, byte, max)
           count == s.count + 1
           next == s.code + s.count + 1
           closed == [s.out EXCEPT ![s.code] = count]
<1>0. s.code + count = next
  BY DEF EncoderState
<1>1. /\ s.count \in 0..(MaxCode - 1) /\ s.code \in Nat /\ s.top \in Nat
      /\ s.out \in [Room(src) -> Octet]
  BY DEF EncoderState
<1>2. s.code \in Room(src) /\ next \in Room(src) /\ next + 1 \in Room(src)
  BY <1>1 DEF Room
<1>3. CASE byte # 0 /\ count < MaxCode
  <2> DEFINE u == [s EXCEPT !.count = count]
  <2>1. /\ u \in EncoderState(src) /\ u.out = s.out /\ u.code = s.code /\ u.count = count
        /\ u.top = s.top /\ ~u.failed
    <3>1. count \in 0..(MaxCode - 1)
      BY <1>1, <1>3
    <3> HIDE DEF count
    <3>2. u \in EncoderState(src)
      BY <3>1 DEF EncoderState
    <3> QED BY <3>2 DEF EncoderState
  <2>2. t = Store(u, next, byte)
    BY <1>0, <1>1, <1>3 DEF EncodeByte, StoreData
  <2> HIDE DEF u, t
  <2>3. /\ t \in EncoderState(src) /\ t.out = [u.out EXCEPT ![next] = byte]
        /\ t.code = u.code /\ t.count = u.count /\ t.failed = u.failed
        /\ t.top = IF next >= u.top THEN next + 1 ELSE u.top
    BY <1>2, <2>1, <2>2, StoreFields
  <2>4. byte # 0 /\ s.count + 1 < MaxCode /\ s.count + 1 # MaxCode
    BY <1>1, <1>3
  <2> HIDE DEF closed, next
  <2> QED BY <2>1, <2>3, <2>4 DEF next, closed, t, Joins
<1>4. CASE ~(byte # 0 /\ count < MaxCode)
  <2> DEFINE u == Store(s, s.code, count)
             v(k) == [u EXCEPT !.code = next, !.count = k]
  <2>0. count \in Octet
    <3> DEFINE k == s.count
    <3>1. k \in 0..(MaxCode - 1)
      BY <1>1
    <3> HIDE DEF k
    <3>2. k + 1 \in 0..MaxCode
      BY <3>1
    <3> QED BY <3>2 DEF k, Octet
  <2>1. /\ u \in EncoderState(src) /\ u.out = closed /\ u.count = s.count
        /\ u.top = (IF s.code >= s.top THEN s.code + 1 ELSE s.top) /\ ~u.failed
    BY <1>2, <2>0, StoreFields
  <2>2. ASSUME NEW k \in 0..(MaxCode - 1)
        PROVE  /\ v(k) \in EncoderState(src) /\ v(k).out = closed /\ v(k).code = next
               /\ v(k).count = k /\ v(k).top = u.top /\ ~v(k).failed
    <3>1. next \in Nat
      BY <1>1
    <3> HIDE DEF u, closed, next
    <3> QED BY <2>1, <3>1 DEF EncoderState
  <2>3. CASE count < MaxCode
    <3>1. byte = 0 /\ t = v(0)
      BY <1>0, <1>4, <2>3 DEF EncodeByte
    <3>2. 0 \in 0..(MaxCode - 1)
      OBVIOUS
    <3>3. s.count + 1 < MaxCode /\ s.count + 1 # MaxCode
      BY <1>1, <2>3
    <3> HIDE DEF t, v, u
    <3> QED BY <2>1, <2>2, <3>1, <3>2, <3>3 DEF t, Ends
  <2>4. CASE ~(count < MaxCode)
    <3>1. s.count = MaxCode - 1 /\ count = MaxCode
      BY <1>1, <2>4
    <3>2. t = Store(v(1), next + 1, byte)
      <4>1. next + 1 # max
        BY <1>1, <3>1
      <4> QED BY <1>0, <2>4, <4>1 DEF EncodeByte, StoreData
    <3>3. 1 \in 0..(MaxCode - 1)
      OBVIOUS
    <3> HIDE DEF t, v, u
    <3>4. /\ t \in EncoderState(src) /\ t.out = [v(1).out EXCEPT ![next + 1] = byte]
          /\ t.code = v(1).code /\ t.count = v(1).count /\ t.failed = v(1).failed
          /\ t.top = IF next + 1 >= v(1).top THEN next + 1 + 1 ELSE v(1).top
      BY <1>2, <2>2, <3>2, <3>3, StoreFields
    <3>5. t.top \in {next + 2, s.top, s.code + 1}
      BY <1>1, <2>1, <2>2, <3>3, <3>4
    <3>6. s.count + 1 = MaxCode /\ ~(s.count + 1 < MaxCode)
      BY <3>1
    <3> QED BY <2>2, <3>3, <3>4, <3>5, <3>6 DEF t, Begins
  <2> QED BY <2>3, <2>4
<1> QED BY <1>3, <1>4

(* What is true of the encoder after n iterations.  The open block holds the  *)
(* last bytes read; `full' maximal blocks made the output longer; and from    *)
(* what is stored below the open block's code byte the decoder makes what was *)
(* read before, whatever follows.                                             *)
Opened(src, n, s) ==
  \A k \in 1..s.count : s.out[s.code + k] = src[n - s.count + k]

Lengths(n, s) ==
  \E full \in Nat : s.code + s.count = n + full /\ (MaxCode - 1) * full <= n - s.count

Decodes(src, n, s) ==
  \A enc \in Seq(Octet) :
    s.code < Len(enc) /\ (\A i \in 0..(s.code - 1) : enc[i + 1] = s.out[i])
      => Blocks(enc)[0] = Continue(SubSeq(src, 1, n - s.count), Blocks(enc)[s.code])

ZeroFree(src, s) ==
  ~FullBlockThenZero(src) =>
    \A i \in 0..(s.code + s.count) : i # s.code => s.out[i] # 0

LoopInv(src, n, s) ==
  /\ s \in EncoderState(src) /\ ~s.failed
  /\ s.count <= n /\ s.top <= s.code + s.count + 1
  /\ Opened(src, n, s) /\ Lengths(n, s) /\ Decodes(src, n, s) /\ ZeroFree(src, s)

(* A buffer as long as COBS promises: a byte more for each maximal block. *)
Enough(src, max) ==
  /\ max \in Nat
  /\ \A full \in Nat : (MaxCode - 1) * full <= Len(src) => Len(src) + full < max

LEMMA OneBlockMore ==
  ASSUME NEW d \in Nat, d >= 1, NEW full \in Nat
  PROVE  d * (full + 1) = d * full + d /\ full <= d * full /\ d * full \in Nat
<1>1. d * (full + 1) = d * full + d
  OBVIOUS
<1>2. d * full \in Nat
  OBVIOUS
<1>3. d * full = full + (d - 1) * full /\ (d - 1) * full \in Nat
  <2>1. d - 1 \in Nat
    OBVIOUS
  <2> QED BY <2>1
<1> QED BY <1>1, <1>2, <1>3

LEMMA RoomLeft ==
  ASSUME NEW src \in Seq(Octet), NEW max, Enough(src, max), NEW n \in 0..(Len(src) - 1),
         NEW s, LoopInv(src, n, s)
  PROVE  /\ s.code + s.count + 2 \in Room(src)
         /\ s.code + s.count + 1 # max
         /\ s.count = MaxCode - 1 => s.code + s.count + 2 # max
<1> DEFINE d == MaxCode - 1
<1>1. PICK full \in Nat : s.code + s.count = n + full /\ d * full <= n - s.count
  BY DEF LoopInv, Lengths
<1>2. d \in Nat /\ d >= 1 /\ s.count \in 0..d /\ s.code \in Nat /\ Len(src) \in Nat /\ max \in Nat
  BY MaxCodeAssumption DEF LoopInv, EncoderState, Enough
<1>3. \A more \in Nat : d * more <= Len(src) => Len(src) + more < max
  BY DEF Enough
<1> HIDE DEF d
<1>4. d * (full + 1) = d * full + d /\ full <= d * full /\ d * full \in Nat
  BY <1>2, OneBlockMore
<1>5. s.code + s.count + 2 \in Room(src)
  <2>1. full <= n
    BY <1>1, <1>2, <1>4
  <2>2. s.code + s.count = n + full
    BY <1>1
  <2>3. s.code + s.count + 2 \in 0..(2 * Len(src) + 1)
    BY <1>2, <2>1, <2>2
  <2> QED BY <2>3 DEF Room
<1>6. s.code + s.count + 1 # max
  <2>1. Len(src) + full < max
    BY <1>1, <1>2, <1>3, <1>4
  <2> QED BY <1>1, <1>2, <2>1
<1>7. ASSUME s.count = d PROVE s.code + s.count + 2 # max
  <2>1. d * (full + 1) <= Len(src)
    BY <1>1, <1>2, <1>4, <1>7
  <2>2. Len(src) + (full + 1) < max
    BY <1>3, <2>1
  <2> QED BY <1>1, <1>2, <2>2
<1> QED BY <1>5, <1>6, <1>7 DEF d

LEMMA StartInv ==
  ASSUME NEW src \in Seq(Octet)
  PROVE  LoopInv(src, 0, EncodeStart(src))
<1> DEFINE s == EncodeStart(src)
<1>1. s \in EncoderState(src) /\ ~s.failed /\ s.count = 0 /\ s.code = 0 /\ s.top = 0
  BY MaxCodeAssumption DEF EncodeStart, EncoderState, Octet, Room
<1> HIDE DEF s
<1>2. Opened(src, 0, s)
  BY <1>1 DEF Opened
<1>3. Lengths(0, s)
  <2>1. (MaxCode - 1) * 0 = 0
    BY MaxCodeAssumption
  <2> QED BY <1>1, <2>1 DEF Lengths
<1>4. Decodes(src, 0, s)
  <2>1. SUFFICES ASSUME NEW enc \in Seq(Octet), 0 < Len(enc)
                 PROVE  Blocks(enc)[0] = Continue(SubSeq(src, 1, 0), Blocks(enc)[0])
    BY <1>1 DEF Decodes
  <2>2. SubSeq(src, 1, 0) = << >>
    OBVIOUS
  <2>3. 0 \in 0..Len(enc)
    BY <2>1
  <2> DEFINE rest == Blocks(enc)[0]
  <2>4. rest \in Result
    BY <2>3, BlocksResult
  <2> HIDE DEF rest
  <2>5. Continue(<< >>, rest) = rest
    <3>1. CASE rest = Failed
      BY <3>1 DEF Continue, Failed
    <3>2. CASE rest # Failed
      <4>1. PICK msg \in Seq(Octet) : rest = [len |-> Len(msg), msg |-> msg]
        BY <2>4, <3>2 DEF Result
      <4>2. Len(<< >>) + Len(msg) = Len(msg) /\ ~(Len(msg) < 0) /\ << >> \o msg = msg
        OBVIOUS
      <4> QED BY <4>1, <4>2 DEF Continue
    <3> QED BY <3>1, <3>2
  <2> QED BY <2>2, <2>5 DEF rest
<1>5. ZeroFree(src, s)
  BY <1>1 DEF ZeroFree
<1> QED BY <1>1, <1>2, <1>3, <1>4, <1>5 DEF LoopInv, s

(* A byte joins the open block. *)
LEMMA JoinInv ==
  ASSUME NEW src \in Seq(Octet), NEW n \in 0..(Len(src) - 1), NEW s, LoopInv(src, n, s),
         NEW t \in EncoderState(src), ~t.failed,
         s.code + s.count + 2 \in Room(src), Joins(s, src[n + 1], t)
  PROVE  LoopInv(src, n + 1, t)
<1> DEFINE next == s.code + s.count + 1
<1>1. /\ s.count \in Nat /\ s.code \in Nat /\ n \in Nat /\ next \in Nat
      /\ t.code = s.code /\ t.count = s.count + 1
  BY DEF LoopInv, EncoderState, Joins
<1>2. \A i \in 0..next : t.out[i] = IF i = next THEN src[n + 1] ELSE s.out[i]
  <2>1. next + 1 \in Room(src)
    BY <1>1
  <2>2. \A i \in 0..next : i \in Room(src)
    BY <1>1, <2>1 DEF Room
  <2>3. s.out \in [Room(src) -> Octet]
    BY DEF LoopInv, EncoderState
  <2>4. t.out = [s.out EXCEPT ![next] = src[n + 1]]
    BY DEF Joins
  <2> HIDE DEF next
  <2> QED BY <2>2, <2>3, <2>4
<1> HIDE DEF next
<1>3. Opened(src, n + 1, t)
  <2>1. SUFFICES ASSUME NEW k \in 1..t.count
                 PROVE  t.out[t.code + k] = src[(n + 1) - t.count + k]
    BY DEF Opened
  <2>2. CASE k = s.count + 1
    <3>1. t.code + k = next
      BY <1>1, <2>2 DEF next
    <3>2. (n + 1) - t.count + k = n + 1
      <4>1. t.count = k /\ k \in Nat
        BY <1>1, <2>2
      <4> QED BY <1>1, <4>1
    <3>3. next \in 0..next
      BY <1>1
    <3> QED BY <1>2, <3>1, <3>2, <3>3
  <2>3. CASE k \in 1..s.count
    <3>1. t.code + k \in 0..next /\ t.code + k # next
      BY <1>1, <2>3 DEF next
    <3>3. (n + 1) - t.count + k = n - s.count + k
      <4> DEFINE old == s.count
      <4>1. n \in Int /\ old \in Int /\ k \in Int /\ t.count = old + 1
        BY <1>1, <2>3
      <4> HIDE DEF old
      <4>2. (n + 1) - (old + 1) + k = n - old + k
        BY <4>1
      <4> QED BY <4>1, <4>2 DEF old
    <3>2. s.out[s.code + k] = src[n - s.count + k]
      BY <2>3 DEF LoopInv, Opened
    <3>4. t.code = s.code
      BY <1>1
    <3> QED BY <1>2, <3>1, <3>2, <3>3, <3>4
  <2>4. k = s.count + 1 \/ k \in 1..s.count
    BY <1>1
  <2> QED BY <2>2, <2>3, <2>4
<1>4. Lengths(n + 1, t)
  <2>1. PICK full \in Nat : s.code + s.count = n + full /\ (MaxCode - 1) * full <= n - s.count
    BY DEF LoopInv, Lengths
  <2>2. (n + 1) - t.count = n - s.count
    BY <1>1
  <2>3. t.code + t.count = n + 1 + full
    <3>1. t.code + t.count = (s.code + s.count) + 1
      BY <1>1
    <3>2. t.code + t.count = (n + full) + 1
      BY <2>1, <3>1
    <3> QED BY <1>1, <3>2
  <2> QED BY <2>1, <2>2, <2>3 DEF Lengths
<1>5. Decodes(src, n + 1, t)
  <2>1. (n + 1) - t.count = n - s.count
    BY <1>1
  <2>2. \A i \in 0..(s.code - 1) : t.out[i] = s.out[i]
    <3>1. \A i \in 0..(s.code - 1) : i \in 0..next /\ i # next
      BY <1>1 DEF next
    <3> QED BY <1>2, <3>1
  <2>3. Decodes(src, n, s) /\ t.code = s.code
    BY <1>1 DEF LoopInv
  <2>4. SUFFICES ASSUME NEW enc \in Seq(Octet), t.code < Len(enc),
                        \A i \in 0..(t.code - 1) : enc[i + 1] = t.out[i]
                 PROVE  Blocks(enc)[0] = Continue(SubSeq(src, 1, (n + 1) - t.count), Blocks(enc)[t.code])
    BY DEF Decodes
  <2>5. s.code < Len(enc) /\ \A i \in 0..(s.code - 1) : enc[i + 1] = s.out[i]
    BY <2>2, <2>3, <2>4
  <2>6. Blocks(enc)[0] = Continue(SubSeq(src, 1, n - s.count), Blocks(enc)[s.code])
    BY <2>3, <2>5 DEF Decodes
  <2> QED BY <2>1, <2>3, <2>6
<1>6. ZeroFree(src, t)
  <2>1. SUFFICES ASSUME ~FullBlockThenZero(src), NEW i \in 0..next, i # s.code
                 PROVE  t.out[i] # 0
    BY <1>1 DEF ZeroFree, next
  <2>2. CASE i = next
    BY <1>2, <2>2 DEF Joins
  <2>3. CASE i # next
    <3>1. i \in 0..(s.code + s.count)
      BY <1>1, <2>3 DEF next
    <3>2. s.out[i] # 0
      BY <2>1, <3>1 DEF LoopInv, ZeroFree
    <3> QED BY <1>2, <2>3, <3>2
  <2> QED BY <2>2, <2>3
<1>7. t.count <= n + 1
  <2>1. s.count <= n
    BY DEF LoopInv
  <2> QED BY <1>1, <2>1
<1>8. t.top <= t.code + t.count + 1
  <2>1. s.top \in Nat /\ s.top <= next
    BY DEF LoopInv, EncoderState, next
  <2>2. t.top = IF next >= s.top THEN next + 1 ELSE s.top
    BY DEF Joins, next
  <2>3. t.code + t.count + 1 = next + 1
    BY <1>1 DEF next
  <2> QED BY <1>1, <2>1, <2>2, <2>3
<1> QED BY <1>3, <1>4, <1>5, <1>6, <1>7, <1>8 DEF LoopInv

(* The bytes that follow a code byte, in the encoding and in the message. *)
LEMMA BlockData ==
  ASSUME NEW src \in Seq(Octet), NEW n \in 0..Len(src),
         NEW code \in Nat, NEW count \in 0..n,
         NEW enc \in Seq(Octet), code + count + 1 <= Len(enc),
         \A k \in 1..count : enc[code + 1 + k] = src[n - count + k]
  PROVE  SubSeq(enc, code + 2, code + count + 1) = SubSeq(src, n - count + 1, n)
<1> DEFINE data == SubSeq(src, n - count + 1, n)
           q == code + count + 1
<1>1. code \in 0..(Len(enc) - 1) /\ n \in Nat /\ count \in Nat /\ Len(src) \in Nat
  OBVIOUS
<1>2. q <= Len(enc) /\ q \in Nat
  BY <1>1
<1>3. /\ n - count + 1 \in Int
      /\ \A i \in (n - count + 1)..n : src[i] \in Octet
  <2>1. \A i \in (n - count + 1)..n : i \in 1..Len(src)
    BY <1>1
  <2> QED BY <1>1, <2>1
<1>4. /\ data \in Seq(Octet) /\ Len(data) = count
      /\ \A i \in 1..count : data[i] = src[n - count + i]
  <2> DEFINE m == n - count + 1
  <2>1. /\ data \in Seq(Octet)
        /\ Len(data) = IF m <= n THEN n - m + 1 ELSE 0
        /\ \A i \in 1..(n - m + 1) : data[i] = src[m + i - 1]
    BY <1>1, <1>3, SubSeqProperties
  <2>2. n - m + 1 = count /\ (m <= n <=> count > 0)
    BY <1>1
  <2>3. \A i \in 1..count : m + i - 1 = n - count + i
    BY <1>1
  <2> HIDE DEF m, data
  <2>4. Len(data) = count
    BY <1>1, <2>1, <2>2
  <2> QED BY <2>1, <2>2, <2>3, <2>4
<1> DEFINE other == SubSeq(enc, code + 2, q)
<1>5. /\ other \in Seq(Octet) /\ Len(other) = count
      /\ \A i \in 1..count : other[i] = enc[code + 1 + i]
  <2>1. \A i \in (code + 2)..q : enc[i] \in Octet
    <3>1. \A i \in (code + 2)..q : i \in 1..Len(enc)
      BY <1>1, <1>2
    <3> QED BY <3>1
  <2> DEFINE m == code + 2
  <2>2. m \in Int /\ q \in Int
    BY <1>1
  <2> HIDE DEF m, q
  <2>3. /\ SubSeq(enc, m, q) \in Seq(Octet)
        /\ Len(SubSeq(enc, m, q)) = IF m <= q THEN q - m + 1 ELSE 0
        /\ \A i \in 1..(q - m + 1) : SubSeq(enc, m, q)[i] = enc[m + i - 1]
    BY <2>1, <2>2, SubSeqProperties DEF m
  <2>4. q - m + 1 = count /\ (m <= q <=> count > 0)
    BY <1>1 DEF m, q
  <2>5. \A i \in 1..count : m + i - 1 = code + 1 + i
    BY <1>1 DEF m
  <2>6. other = SubSeq(enc, m, q)
    BY DEF m
  <2> HIDE DEF other
  <2>7. Len(other) = count
    BY <1>1, <2>3, <2>4, <2>6
  <2> QED BY <2>3, <2>4, <2>5, <2>6, <2>7
<1>6. \A i \in 1..count : other[i] = data[i]
  BY <1>4, <1>5
<1> HIDE DEF other, data
<1>7. other = data
  BY <1>4, <1>5, <1>6
<1> QED BY <1>7 DEF other, data, q

(* A block has been closed: the decoder outputs its bytes, the last read, and *)
(* a zero unless the block is full.                                           *)
LEMMA ClosedBlock ==
  ASSUME NEW src \in Seq(Octet), NEW n \in 0..Len(src),
         NEW code \in Nat, NEW count \in 0..n, count < MaxCode,
         NEW enc \in Seq(Octet), code + count + 1 < Len(enc), enc[code + 1] = count + 1,
         \A k \in 1..count : enc[code + 1 + k] = src[n - count + k]
  PROVE  LET data == SubSeq(src, n - count + 1, n) IN
         Blocks(enc)[code] =
           Continue(IF count + 1 = MaxCode THEN data ELSE data \o << 0 >>, Blocks(enc)[code + count + 1])
<1> DEFINE data == SubSeq(src, n - count + 1, n)
           q == code + count + 1
<1>1. code \in 0..(Len(enc) - 1) /\ n \in Nat /\ count \in Nat /\ Len(src) \in Nat
  OBVIOUS
<1>2. BlockLen(enc[code + 1]) = count + 1
  BY <1>1 DEF BlockLen
<1>3. code + BlockLen(enc[code + 1]) = q /\ ~(q > Len(enc)) /\ q # Len(enc) /\ q \in Nat
  BY <1>1, <1>2
<1>4. SubSeq(enc, code + 2, q) = data
  <2>1. code + count + 1 <= Len(enc)
    BY <1>1
  <2> QED BY <2>1, BlockData
<1>5. Blocks(enc)[code] = From(enc, Blocks(enc), code)
  BY <1>1, BlocksStep
<1> HIDE DEF data, q
<1>6. From(enc, Blocks(enc), code)
        = Continue(IF count + 1 = MaxCode THEN data ELSE data \o << 0 >>, Blocks(enc)[q])
  BY <1>2, <1>3, <1>4 DEF From
<1> QED BY <1>5, <1>6 DEF data, q

(* What was decoded up to an open block, with the block and what ends it. *)
LEMMA Adjoin ==
  ASSUME NEW src \in Seq(Octet), NEW n \in 0..Len(src), NEW m \in 0..n
  PROVE  /\ SubSeq(src, 1, m) \in Seq(Octet) /\ SubSeq(src, m + 1, n) \in Seq(Octet)
         /\ SubSeq(src, 1, m) \o SubSeq(src, m + 1, n) = SubSeq(src, 1, n)
<1>1. n \in Nat /\ m \in Nat
  OBVIOUS
<1> QED BY <1>1

(* The numbers an encoder's state is made of. *)
LEMMA StateNumbers ==
  ASSUME NEW src \in Seq(Octet), NEW n \in 0..Len(src), NEW s, LoopInv(src, n, s)
  PROVE  /\ s.code \in Nat /\ s.count \in 0..n /\ s.count < MaxCode
         /\ s.out \in [Room(src) -> Octet]
         /\ s.top \in Nat /\ s.top <= s.code + s.count + 1
<1>1. s.count \in Nat /\ s.count < MaxCode /\ s.count <= n
  BY MaxCodeAssumption DEF LoopInv, EncoderState
<1>2. n \in Nat
  OBVIOUS
<1> QED BY <1>1, <1>2 DEF LoopInv, EncoderState

(* What was stored up to offset next, with the open block closed. *)
Stored(enc, s, next) ==
  \A i \in 0..(next - 1) : enc[i + 1] = IF i = s.code THEN s.count + 1 ELSE s.out[i]

(* The open block is closed, and the decoder goes on from the next code byte. *)
LEMMA ClosedDecodes ==
  ASSUME NEW src \in Seq(Octet), NEW n \in 0..(Len(src) - 1), NEW s, LoopInv(src, n, s),
         NEW next, next = s.code + s.count + 1,
         NEW enc \in Seq(Octet), next < Len(enc), Stored(enc, s, next)
  PROVE  Blocks(enc)[0] =
           Continue(IF s.count + 1 = MaxCode THEN SubSeq(src, 1, n) ELSE SubSeq(src, 1, n) \o << 0 >>,
                    Blocks(enc)[next])
<1> DEFINE code == s.code
           count == s.count
           before == SubSeq(src, 1, n - count)
           data == SubSeq(src, n - count + 1, n)
           block == IF count + 1 = MaxCode THEN data ELSE data \o << 0 >>
<1>0. n \in 0..Len(src) /\ n \in Nat
  OBVIOUS
<1>1. code \in Nat /\ count \in 0..n /\ count < MaxCode /\ next = code + count + 1
  BY <1>0, StateNumbers
<1>2. \A k \in 1..count : s.out[code + k] = src[n - count + k]
  BY DEF LoopInv, Opened
<1>3. (\A i \in 0..(code - 1) : enc[i + 1] = s.out[i]) /\ code < Len(enc) =>
        Blocks(enc)[0] = Continue(before, Blocks(enc)[code])
  BY DEF LoopInv, Decodes
<1> HIDE DEF code, count
<1>4. \A i \in 0..(next - 1) : enc[i + 1] = IF i = code THEN count + 1 ELSE s.out[i]
  BY DEF Stored, code, count
<1>5. enc[code + 1] = count + 1
  <2>1. code \in 0..(next - 1)
    BY <1>0, <1>1
  <2> QED BY <1>4, <2>1
<1>6. \A k \in 1..count : enc[code + 1 + k] = src[n - count + k]
  <2> SUFFICES ASSUME NEW k \in 1..count PROVE enc[code + 1 + k] = src[n - count + k]
    OBVIOUS
  <2> DEFINE i == code + k
  <2>1. i \in 0..(next - 1) /\ i # code /\ i + 1 = code + 1 + k
    BY <1>0, <1>1
  <2>2. s.out[i] = src[n - count + k]
    BY <1>2
  <2> HIDE DEF i
  <2> QED BY <1>4, <2>1, <2>2
<1>7. \A i \in 0..(code - 1) : enc[i + 1] = s.out[i]
  <2> SUFFICES ASSUME NEW i \in 0..(code - 1) PROVE enc[i + 1] = s.out[i]
    OBVIOUS
  <2>1. i \in 0..(next - 1) /\ i # code
    BY <1>0, <1>1
  <2> QED BY <1>4, <2>1
<1>8. code + count + 1 < Len(enc) /\ code < Len(enc)
  BY <1>0, <1>1
<1>9. Blocks(enc)[code] = Continue(block, Blocks(enc)[next])
  <2>1. Blocks(enc)[code] = Continue(block, Blocks(enc)[code + count + 1])
    BY <1>0, <1>1, <1>5, <1>6, <1>8, ClosedBlock
  <2> HIDE DEF block
  <2> QED BY <1>1, <2>1
<1>10. Blocks(enc)[0] = Continue(before, Continue(block, Blocks(enc)[next]))
  BY <1>3, <1>7, <1>8, <1>9
<1>11. /\ before \in Seq(Octet) /\ data \in Seq(Octet)
       /\ before \o data = SubSeq(src, 1, n)
  <2> DEFINE m == n - count
  <2>1. m \in 0..n
    BY <1>0, <1>1
  <2> HIDE DEF m
  <2>2. /\ SubSeq(src, 1, m) \in Seq(Octet) /\ SubSeq(src, m + 1, n) \in Seq(Octet)
        /\ SubSeq(src, 1, m) \o SubSeq(src, m + 1, n) = SubSeq(src, 1, n)
    BY <1>0, <2>1, Adjoin
  <2> QED BY <2>2 DEF m
<1>12. Blocks(enc)[next] \in Result
  <2>1. next \in 0..Len(enc)
    BY <1>0, <1>1
  <2> QED BY <2>1, BlocksResult
<1> HIDE DEF before, data
<1>13. CASE count + 1 = MaxCode
  <2>1. block = data
    BY <1>13
  <2> DEFINE rest == Blocks(enc)[next]
  <2>2. Blocks(enc)[0] = Continue(before, Continue(data, rest)) /\ rest \in Result
    BY <1>10, <1>12, <2>1
  <2> HIDE DEF rest
  <2>3. Continue(before, Continue(data, rest)) = Continue(before \o data, rest)
    <3>1. before \in Seq(Octet) /\ data \in Seq(Octet)
      BY <1>11
    <3> QED BY <2>2, <3>1, ContinueTwice
  <2>4. Blocks(enc)[0] = Continue(SubSeq(src, 1, n), rest)
    BY <1>11, <2>2, <2>3
  <2> QED BY <1>13, <2>4 DEF count, rest
<1>14. CASE count + 1 # MaxCode
  <2>1. block = data \o << 0 >> /\ << 0 >> \in Seq(Octet)
    BY <1>14, MaxCodeAssumption DEF Octet
  <2>2. block \in Seq(Octet)
    BY <1>11, <2>1
  <2>3. before \o block = SubSeq(src, 1, n) \o << 0 >>
    <3> DEFINE zero == << 0 >>
    <3>0. zero \in Seq(Octet)
      BY <2>1
    <3>1. block = data \o zero
      BY <2>1
    <3>2. before \in Seq(Octet) /\ data \in Seq(Octet)
      BY <1>11
    <3> HIDE DEF zero, block, before, data
    <3>3. (before \o data) \o zero = before \o (data \o zero)
      <4>1. \A x, y \in Seq(Octet) : (x \o y) \o zero = x \o (y \o zero)
        BY <3>0, Associates, Zenon
      <4> QED BY <3>2, <4>1, Zenon
    <3> QED BY <1>11, <3>1, <3>3 DEF zero
  <2> DEFINE rest == Blocks(enc)[next]
  <2>4. Blocks(enc)[0] = Continue(before, Continue(block, rest)) /\ rest \in Result
    BY <1>10, <1>12
  <2> HIDE DEF block, rest
  <2>5. Continue(before, Continue(block, rest)) = Continue(before \o block, rest)
    <3>1. before \in Seq(Octet)
      BY <1>11
    <3> QED BY <2>2, <2>4, <3>1, ContinueTwice
  <2>6. Blocks(enc)[0] = Continue(SubSeq(src, 1, n) \o << 0 >>, rest)
    BY <2>3, <2>4, <2>5
  <2> QED BY <1>14, <2>6 DEF count, rest
<1> QED BY <1>13, <1>14

(* A zero ends the open block. *)
LEMMA EndsInv ==
  ASSUME NEW src \in Seq(Octet), NEW n \in 0..(Len(src) - 1), NEW s, LoopInv(src, n, s),
         NEW t \in EncoderState(src), ~t.failed,
         s.code + s.count + 2 \in Room(src), Ends(s, src[n + 1], t)
  PROVE  LoopInv(src, n + 1, t)
<1> DEFINE next == s.code + s.count + 1
<1>0. n \in Nat /\ n \in 0..Len(src) /\ n + 1 \in 0..Len(src)
  OBVIOUS
<1>1. /\ s.code \in Nat /\ s.count \in 0..n /\ s.count \in Nat /\ next \in Nat
      /\ t.code = next /\ t.count = 0
  BY <1>0, StateNumbers DEF Ends
<1>2. \A i \in 0..(next - 1) : t.out[i] = IF i = s.code THEN s.count + 1 ELSE s.out[i]
  <2>1. next + 1 \in Room(src)
    BY <1>1
  <2>2. \A i \in 0..(next - 1) : i \in Room(src)
    BY <1>1, <2>1 DEF Room
  <2>3. s.out \in [Room(src) -> Octet]
    BY <1>0, StateNumbers
  <2>4. t.out = [s.out EXCEPT ![s.code] = s.count + 1]
    BY DEF Ends
  <2> HIDE DEF next
  <2> QED BY <2>2, <2>3, <2>4
<1>3. Opened(src, n + 1, t)
  BY <1>1 DEF Opened
<1>4. Lengths(n + 1, t)
  <2>1. PICK full \in Nat : s.code + s.count = n + full /\ (MaxCode - 1) * full <= n - s.count
    BY DEF LoopInv, Lengths
  <2> DEFINE product == (MaxCode - 1) * full
  <2>2. product \in Int
    BY MaxCodeAssumption
  <2>3. product <= n - s.count /\ s.code + s.count = n + full
    BY <2>1
  <2> HIDE DEF product
  <2>4. product <= (n + 1) - t.count
    BY <1>0, <1>1, <2>2, <2>3
  <2>5. t.code + t.count = n + 1 + full
    BY <1>0, <1>1, <2>3
  <2> QED BY <2>4, <2>5 DEF Lengths, product
<1>5. Decodes(src, n + 1, t)
  <2>1. SUFFICES ASSUME NEW enc \in Seq(Octet), t.code < Len(enc),
                        \A i \in 0..(t.code - 1) : enc[i + 1] = t.out[i]
                 PROVE  Blocks(enc)[0] = Continue(SubSeq(src, 1, (n + 1) - t.count), Blocks(enc)[t.code])
    BY DEF Decodes
  <2>2. Stored(enc, s, next)
    BY <1>1, <1>2, <2>1 DEF Stored
  <2>3. (n + 1) - t.count = n + 1
    BY <1>1
  <2>4. SubSeq(src, 1, n + 1) = SubSeq(src, 1, n) \o << 0 >>
    <3>1. src[n + 1] = 0
      BY DEF Ends
    <3>2. SubSeq(src, 1, n + 1) = SubSeq(src, 1, n) \o <<src[n + 1]>>
      BY <1>0
    <3> QED BY <3>1, <3>2
  <2>5. s.count + 1 # MaxCode /\ next < Len(enc)
    BY <1>1, <2>1, MaxCodeAssumption DEF Ends
  <2> HIDE DEF next
  <2>6. next = s.code + s.count + 1
    BY DEF next
  <2>7. Blocks(enc)[0] =
          Continue(IF s.count + 1 = MaxCode THEN SubSeq(src, 1, n) ELSE SubSeq(src, 1, n) \o << 0 >>,
                   Blocks(enc)[next])
    BY <2>2, <2>5, <2>6, ClosedDecodes
  <2>8. Blocks(enc)[0] = Continue(SubSeq(src, 1, n) \o << 0 >>, Blocks(enc)[next])
    BY <2>5, <2>7
  <2>9. t.code = next
    BY <1>1 DEF next
  <2> QED BY <2>3, <2>4, <2>8, <2>9
<1>6. ZeroFree(src, t)
  <2>1. SUFFICES ASSUME ~FullBlockThenZero(src), NEW i \in 0..next, i # next
                 PROVE  t.out[i] # 0
    BY <1>1 DEF ZeroFree
  <2>2. i \in 0..(next - 1)
    BY <1>1, <2>1
  <2>3. CASE i = s.code
    <3>1. t.out[i] = s.count + 1
      BY <1>2, <2>2, <2>3
    <3>2. s.count + 1 # 0
      BY <1>1
    <3> QED BY <3>1, <3>2
  <2>4. CASE i # s.code
    <3>1. s.out[i] # 0
      <4>1. i \in 0..(s.code + s.count)
        BY <1>1, <2>2
      <4> QED BY <2>1, <2>4, <4>1 DEF LoopInv, ZeroFree
    <3> QED BY <1>2, <2>2, <2>4, <3>1
  <2> QED BY <2>3, <2>4
<1>7. t.count <= n + 1
  BY <1>0, <1>1
<1>8. t.top <= t.code + t.count + 1
  <2>1. s.top \in Nat /\ s.top <= next
    BY <1>0, StateNumbers
  <2>2. t.top = IF s.code >= s.top THEN s.code + 1 ELSE s.top
    BY DEF Ends
  <2>3. s.code + 1 <= next
    BY <1>1
  <2> HIDE DEF next
  <2> QED BY <1>1, <2>1, <2>2, <2>3
<1> QED BY <1>3, <1>4, <1>5, <1>6, <1>7, <1>8 DEF LoopInv

(* The open block is full: the next begins with the byte, even with a zero. *)
LEMMA BeginsInv ==
  ASSUME NEW src \in Seq(Octet), NEW n \in 0..(Len(src) - 1), NEW s, LoopInv(src, n, s),
         NEW t \in EncoderState(src), ~t.failed,
         s.code + s.count + 2 \in Room(src), Begins(s, src[n + 1], t)
  PROVE  LoopInv(src, n + 1, t)
<1> DEFINE next == s.code + s.count + 1
<1>0. n \in Nat /\ n \in 0..Len(src) /\ n + 1 \in 0..Len(src) /\ n + 1 \in 1..Len(src)
  OBVIOUS
<1>1. /\ s.code \in Nat /\ s.count \in 0..n /\ s.count \in Nat /\ next \in Nat
      /\ s.count + 1 = MaxCode /\ t.code = next /\ t.count = 1
  <2>1. s.code \in Nat /\ s.count \in 0..n
    BY <1>0, StateNumbers
  <2>2. s.count + 1 = MaxCode /\ t.code = next /\ t.count = 1
    BY DEF Begins
  <2> QED BY <1>0, <2>1, <2>2
<1>2. \A i \in 0..(next + 1) :
        t.out[i] = IF i = next + 1 THEN src[n + 1] ELSE IF i = s.code THEN s.count + 1 ELSE s.out[i]
  <2>1. next + 1 \in Room(src)
    BY <1>1
  <2>2. \A i \in 0..(next + 1) : i \in Room(src)
    BY <1>1, <2>1 DEF Room
  <2>3. s.out \in [Room(src) -> Octet]
    BY <1>0, StateNumbers
  <2>4. t.out = [[s.out EXCEPT ![s.code] = s.count + 1] EXCEPT ![next + 1] = src[n + 1]]
    BY DEF Begins
  <2>5. s.code # next + 1
    BY <1>1
  <2> HIDE DEF next
  <2> QED BY <2>2, <2>3, <2>4, <2>5
<1>3. Opened(src, n + 1, t)
  <2>1. \A k \in 1..t.count : t.code + k = next + 1 /\ (n + 1) - t.count + k = n + 1
    BY <1>0, <1>1
  <2>2. next + 1 \in 0..(next + 1)
    BY <1>1
  <2> HIDE DEF next
  <2> QED BY <1>2, <2>1, <2>2 DEF Opened
<1>4. Lengths(n + 1, t)
  <2>1. PICK full \in Nat : s.code + s.count = n + full /\ (MaxCode - 1) * full <= n - s.count
    BY DEF LoopInv, Lengths
  <2> DEFINE d == MaxCode - 1
             product == d * full
  <2>2. d \in Nat /\ d >= 1
    BY MaxCodeAssumption
  <2>3. product <= n - s.count /\ s.code + s.count = n + full
    BY <2>1
  <2>4. d * (full + 1) = product + d /\ product \in Nat
    <3> HIDE DEF d
    <3> QED BY <2>2, OneBlockMore
  <2>5. s.count = d
    BY <1>1, <2>2
  <2> HIDE DEF product, d
  <2>6. d * (full + 1) <= (n + 1) - t.count
    BY <1>0, <1>1, <2>2, <2>3, <2>4, <2>5
  <2>7. t.code + t.count = n + 1 + (full + 1)
    BY <1>0, <1>1, <2>3
  <2>8. full + 1 \in Nat
    OBVIOUS
  <2> QED BY <2>6, <2>7, <2>8 DEF Lengths, d
<1>5. Decodes(src, n + 1, t)
  <2>1. SUFFICES ASSUME NEW enc \in Seq(Octet), t.code < Len(enc),
                        \A i \in 0..(t.code - 1) : enc[i + 1] = t.out[i]
                 PROVE  Blocks(enc)[0] = Continue(SubSeq(src, 1, (n + 1) - t.count), Blocks(enc)[t.code])
    BY DEF Decodes
  <2>2. Stored(enc, s, next)
    <3>1. \A i \in 0..(next - 1) : i \in 0..(next + 1) /\ i # next + 1
      BY <1>1
    <3> QED BY <1>1, <1>2, <2>1, <3>1 DEF Stored
  <2>3. (n + 1) - t.count = n
    BY <1>0, <1>1
  <2>5. next < Len(enc)
    BY <1>1, <2>1
  <2> HIDE DEF next
  <2>6. next = s.code + s.count + 1
    BY DEF next
  <2>7. Blocks(enc)[0] =
          Continue(IF s.count + 1 = MaxCode THEN SubSeq(src, 1, n) ELSE SubSeq(src, 1, n) \o << 0 >>,
                   Blocks(enc)[next])
    BY <2>2, <2>5, <2>6, ClosedDecodes
  <2>8. Blocks(enc)[0] = Continue(SubSeq(src, 1, n), Blocks(enc)[next])
    BY <1>1, <2>7
  <2>9. t.code = next
    BY <1>1 DEF next
  <2> QED BY <2>3, <2>8, <2>9
<1>6. ZeroFree(src, t)
  <2>1. SUFFICES ASSUME ~FullBlockThenZero(src), NEW i \in 0..(next + 1), i # next
                 PROVE  t.out[i] # 0
    BY <1>1 DEF ZeroFree
  <2>2. ASSUME NEW j \in 0..(s.code + s.count), j # s.code PROVE s.out[j] # 0
    BY <2>1, <2>2 DEF LoopInv, ZeroFree
  <2>3. CASE i = next + 1
    <3>1. SUFFICES ASSUME src[n + 1] = 0 PROVE FALSE
      BY <1>2, <2>3
    <3>2. n + 1 >= MaxCode
      BY <1>0, <1>1, MaxCodeAssumption
    <3>3. ASSUME NEW j \in ((n + 1) - MaxCode + 1)..((n + 1) - 1) PROVE src[j] # 0
      <4> DEFINE k == j - (n - s.count)
      <4>0. MaxCode \in Nat /\ j \in Int
        BY MaxCodeAssumption
      <4>1. k \in 1..s.count /\ n - s.count + k = j
        <5> DEFINE c == s.count
        <5>1. c \in Nat /\ c + 1 = MaxCode
          BY <1>1
        <5>2. j \in (n - c + 1)..n
          BY <1>0, <4>0, <5>1
        <5> HIDE DEF c
        <5>3. j - (n - c) \in 1..c /\ n - c + (j - (n - c)) = j
          BY <1>0, <5>1, <5>2
        <5> QED BY <5>3 DEF c
      <4> HIDE DEF k
      <4>2. s.out[s.code + k] = src[n - s.count + k]
        BY <4>1 DEF LoopInv, Opened
      <4>3. s.code + k \in 0..(s.code + s.count) /\ s.code + k # s.code
        <5>1. k \in 1..s.count
          BY <4>1
        <5>2. s.code \in Nat /\ s.count \in Nat
          BY <1>1
        <5> DEFINE a == s.code
                   b == s.count
        <5>3. a \in Nat /\ b \in Nat /\ k \in 1..b
          BY <5>1, <5>2
        <5> HIDE DEF a, b
        <5>4. a + k \in 0..(a + b) /\ a + k # a
          BY <5>3
        <5> QED BY <5>4 DEF a, b
      <4> QED BY <2>2, <4>1, <4>2, <4>3
    <3>4. FullBlockThenZero(src)
      BY <1>0, <3>1, <3>2, <3>3 DEF FullBlockThenZero
    <3> QED BY <2>1, <3>4
  <2>4. CASE i = s.code
    <3>1. s.code # next + 1 /\ s.count + 1 # 0
      BY <1>1
    <3> HIDE DEF next
    <3> QED BY <1>2, <2>4, <3>1
  <2>5. CASE i # s.code /\ i # next + 1
    <3>1. i \in 0..(s.code + s.count)
      <4> DEFINE p == s.code + s.count
      <4>1. p \in Nat /\ next = p + 1 /\ i \in 0..(next + 1) /\ i # next /\ i # next + 1
        BY <1>1, <2>1, <2>5
      <4> HIDE DEF p, next
      <4>2. i \in 0..p
        BY <4>1
      <4> QED BY <4>2 DEF p
    <3>2. s.out[i] # 0
      BY <2>2, <2>5, <3>1
    <3> HIDE DEF next
    <3> QED BY <1>2, <2>5, <3>2
  <2> QED BY <2>3, <2>4, <2>5
<1>7. t.count <= n + 1
  BY <1>0, <1>1
<1>8. t.top <= t.code + t.count + 1
  <2>1. s.top \in Nat /\ s.top <= next
    BY <1>0, StateNumbers
  <2>2. t.top \in {next + 2, s.top, s.code + 1}
    BY DEF Begins
  <2>3. s.code + 1 <= next + 2 /\ t.code + t.count + 1 = next + 2
    BY <1>1
  <2> HIDE DEF next
  <2> QED BY <1>1, <2>1, <2>2, <2>3
<1> QED BY <1>3, <1>4, <1>5, <1>6, <1>7, <1>8 DEF LoopInv

LEMMA StepInv ==
  ASSUME NEW src \in Seq(Octet), NEW max, Enough(src, max), NEW n \in 0..(Len(src) - 1),
         NEW s, LoopInv(src, n, s)
  PROVE  LoopInv(src, n + 1, EncodeByte(s, src[n + 1], max))
<1> DEFINE t == EncodeByte(s, src[n + 1], max)
<1>1. /\ s.code + s.count + 2 \in Room(src)
      /\ s.code + s.count + 1 # max
      /\ s.count = MaxCode - 1 => s.code + s.count + 2 # max
  BY RoomLeft
<1>2. s \in EncoderState(src) /\ ~s.failed /\ src[n + 1] \in Octet
  BY DEF LoopInv
<1>3. /\ t \in EncoderState(src) /\ ~t.failed
      /\ Joins(s, src[n + 1], t) \/ Ends(s, src[n + 1], t) \/ Begins(s, src[n + 1], t)
  BY <1>1, <1>2, EncodeByteFields
<1> HIDE DEF t
<1>4. LoopInv(src, n + 1, t)
  BY <1>1, <1>3, JoinInv, EndsInv, BeginsInv
<1> QED BY <1>4 DEF t

LEMMA LoopHolds ==
  ASSUME NEW src \in Seq(Octet), NEW max, Enough(src, max)
  PROVE  LoopInv(src, Len(src), EncodeLoop(src, max)[Len(src)])
<1> DEFINE loop == EncodeLoop(src, max)
           S == {n \in Nat : n <= Len(src) => LoopInv(src, n, loop[n])}
<1>0. Len(src) \in Nat
  OBVIOUS
<1>1. 0 \in S
  BY LoopSteps, StartInv
<1>2. ASSUME NEW n \in S PROVE n + 1 \in S
  <2>1. SUFFICES ASSUME n + 1 <= Len(src) PROVE LoopInv(src, n + 1, loop[n + 1])
    OBVIOUS
  <2>2. n \in 0..(Len(src) - 1)
    BY <1>0, <1>2, <2>1
  <2>3. LoopInv(src, n, loop[n])
    BY <1>0, <2>2
  <2>4. loop[n + 1] = EncodeByte(loop[n], src[n + 1], max)
    BY <2>2, LoopSteps
  <2> HIDE DEF loop
  <2> QED BY <2>2, <2>3, <2>4, StepInv
<1>3. S = Nat
  <2> HIDE DEF S
  <2>1. S \in SUBSET Nat
    BY DEF S
  <2> QED BY <1>1, <1>2, <2>1, SetInduction
<1>4. Len(src) \in S /\ Len(src) <= Len(src)
  BY <1>0, <1>3
<1> QED BY <1>4

(* What Cobs_encode leaves in a buffer that is long enough: the blocks closed *)
(* by its loop, and the last.                                                 *)
Contents(e) == [i \in 1..e.len |-> e.out[i - 1]]

Shape(src, max, e) ==
  LET s == EncodeLoop(src, max)[Len(src)]
  IN /\ e.len = s.code + s.count + 1
     /\ \A i \in 0..(e.len - 1) :
          Contents(e)[i + 1] = IF i = s.code THEN s.count + 1 ELSE s.out[i]

Outcome(src, max, e) ==
  /\ Shape(src, max, e)
  /\ e.len \in Nat /\ 0 < e.len /\ e.len <= max /\ e.top \in Nat /\ e.top <= e.len
  /\ Contents(e) \in Seq(Octet) /\ Len(Contents(e)) = e.len
  /\ Blocks(Contents(e))[0] = [len |-> Len(src), msg |-> src]
  /\ ~FullBlockThenZero(src) => \A i \in 1..e.len : Contents(e)[i] # 0

LEMMA EncodeOutcome ==
  ASSUME NEW src \in Seq(Octet), NEW max, Enough(src, max)
  PROVE  Outcome(src, max, Encode(src, max))
<1> DEFINE L == Len(src)
           s == EncodeLoop(src, max)[L]
           code == s.code
           count == s.count
           last == Store(s, code, count + 1)
           e == Encode(src, max)
           enc == Contents(e)
<1>0. L \in Nat /\ L \in 0..L
  OBVIOUS
<1>1. LoopInv(src, L, s)
  BY LoopHolds
<1>2. e = [out |-> last.out, len |-> code + count + 1, top |-> last.top]
  BY <1>1 DEF LoopInv, Encode
<1> HIDE DEF s, e
<1>3. /\ code \in Nat /\ count \in 0..L /\ count < MaxCode /\ count \in Nat
      /\ s.out \in [Room(src) -> Octet] /\ s \in EncoderState(src)
      /\ s.top \in Nat /\ s.top <= code + count + 1
  BY <1>0, <1>1, StateNumbers DEF LoopInv
<1>4. code + count + 1 <= max /\ code + count \in Room(src)
  <2>1. PICK full \in Nat : code + count = L + full /\ (MaxCode - 1) * full <= L - count
    BY <1>1 DEF LoopInv, Lengths
  <2> DEFINE d == MaxCode - 1
  <2>2. d \in Nat /\ d >= 1
    BY MaxCodeAssumption
  <2> HIDE DEF d
  <2>3. d * full \in Nat /\ full <= d * full /\ d * full <= L - count
    BY <2>1, <2>2, OneBlockMore DEF d
  <2> DEFINE product == d * full
  <2>4. product \in Nat /\ full <= product /\ product <= L - count
    BY <2>3
  <2> HIDE DEF product
  <2>5. product <= L /\ full <= L
    BY <1>0, <1>3, <2>4
  <2>6. L + full < max /\ max \in Nat
    <3>1. (MaxCode - 1) * full <= Len(src)
      BY <2>5 DEF product, d
    <3> QED BY <3>1 DEF Enough
  <2>7. code + count = L + full
    BY <2>1
  <2> HIDE DEF L, code, count
  <2>8. code + count + 1 <= max
    BY <1>0, <1>3, <2>6, <2>7
  <2>9. code + count \in 0..(2 * L + 1)
    BY <1>0, <1>3, <2>5, <2>7
  <2> QED BY <2>8, <2>9 DEF L, Room
<1>5. /\ last.out = [s.out EXCEPT ![code] = count + 1]
      /\ last.out \in [Room(src) -> Octet]
      /\ last.top = IF code >= s.top THEN code + 1 ELSE s.top
  <2>1. code \in Room(src)
    BY <1>3, <1>4 DEF Room
  <2>2. count + 1 \in Octet
    BY <1>3, MaxCodeAssumption DEF Octet
  <2>3. s \in EncoderState(src)
    BY <1>3
  <2> HIDE DEF code, count
  <2>4. last \in EncoderState(src)
    BY <2>1, <2>2, <2>3, StoreFields
  <2>5. last.out \in [Room(src) -> Octet]
    <3> HIDE DEF last
    <3> QED BY <2>4 DEF EncoderState
  <2> QED BY <2>1, <2>2, <2>3, <2>5, StoreFields
<1> HIDE DEF last
<1>6. e.len = code + count + 1 /\ e.out = last.out /\ e.top = last.top
  BY <1>2
<1>7. e.len \in Nat /\ 0 < e.len /\ e.len <= max
  BY <1>3, <1>4, <1>6
<1>8. e.top \in Nat /\ e.top <= e.len
  BY <1>3, <1>5, <1>6
<1>9. \A i \in 0..(e.len - 1) :
        e.out[i] \in Octet /\ e.out[i] = IF i = code THEN count + 1 ELSE s.out[i]
  <2>1. \A i \in 0..(e.len - 1) : i \in Room(src)
    BY <1>3, <1>4, <1>6 DEF Room
  <2>2. code \in Room(src)
    BY <1>3, <1>4 DEF Room
  <2> HIDE DEF code, count
  <2>3. last.out \in [Room(src) -> Octet]
    BY <1>5
  <2>4. last.out = [s.out EXCEPT ![code] = count + 1] /\ s.out \in [Room(src) -> Octet]
    BY <1>3, <1>5
  <2> QED BY <1>6, <2>1, <2>2, <2>3, <2>4
<1>10. enc \in Seq(Octet) /\ Len(enc) = e.len
  <2>1. \A i \in 1..e.len : e.out[i - 1] \in Octet
    <3> SUFFICES ASSUME NEW i \in 1..e.len PROVE e.out[i - 1] \in Octet
      OBVIOUS
    <3>1. i - 1 \in 0..(e.len - 1)
      BY <1>7
    <3> QED BY <1>9, <3>1
  <2> QED BY <1>7, <2>1 DEF Contents
<1>11. \A i \in 0..(e.len - 1) : enc[i + 1] = IF i = code THEN count + 1 ELSE s.out[i]
  <2> SUFFICES ASSUME NEW i \in 0..(e.len - 1)
               PROVE  enc[i + 1] = IF i = code THEN count + 1 ELSE s.out[i]
    OBVIOUS
  <2>1. i + 1 \in 1..e.len /\ i + 1 - 1 = i
    BY <1>7
  <2>2. enc[i + 1] = e.out[i]
    BY <2>1 DEF Contents
  <2> HIDE DEF enc
  <2> QED BY <1>9, <2>2
<1> HIDE DEF enc
<1>12. Blocks(enc)[0] = Continue(SubSeq(src, 1, L - count), Blocks(enc)[code])
  <2>1. code < Len(enc)
    BY <1>3, <1>6, <1>10
  <2>2. \A i \in 0..(code - 1) : enc[i + 1] = s.out[i]
    <3>1. \A i \in 0..(code - 1) : i \in 0..(e.len - 1) /\ i # code
      BY <1>3, <1>6
    <3> QED BY <1>11, <3>1
  <2> QED BY <1>1, <1>10, <2>1, <2>2 DEF LoopInv, Decodes
<1>13. SubSeq(enc, code + 2, code + count + 1) = SubSeq(src, L - count + 1, L)
  <2>1. \A k \in 1..count : s.out[code + k] = src[L - count + k]
    BY <1>1 DEF LoopInv, Opened
  <2>2. ASSUME NEW k \in 1..count PROVE enc[code + 1 + k] = src[L - count + k]
    <3> DEFINE i == code + k
    <3>1. i \in 0..(e.len - 1) /\ i # code /\ i + 1 = code + 1 + k
      BY <1>3, <1>6
    <3>2. s.out[i] = src[L - count + k]
      BY <2>1
    <3> HIDE DEF i, code, count
    <3> QED BY <1>11, <3>1, <3>2
  <2>3. code + count + 1 <= Len(enc)
    BY <1>3, <1>6, <1>10
  <2> HIDE DEF code, count, L
  <2>4. L \in 0..Len(src)
    BY <1>0 DEF L
  <2> QED BY <1>3, <1>10, <2>2, <2>3, <2>4, BlockData
<1> HIDE DEF code, count
<1>14. Blocks(enc)[code] = [len |-> Len(SubSeq(src, L - count + 1, L)), msg |-> SubSeq(src, L - count + 1, L)]
  <2>1. code \in 0..(Len(enc) - 1) /\ code \in 0..(e.len - 1)
    BY <1>3, <1>6, <1>10
  <2>2. enc[code + 1] = count + 1
    BY <1>11, <2>1
  <2>3. BlockLen(enc[code + 1]) = count + 1
    BY <1>3, <2>2 DEF BlockLen
  <2>4. code + BlockLen(enc[code + 1]) = code + count + 1 /\ ~(code + count + 1 > Len(enc))
        /\ code + count + 1 = Len(enc)
    BY <1>3, <1>6, <1>10, <2>3
  <2>5. Blocks(enc)[code] = From(enc, Blocks(enc), code)
    BY <1>10, <2>1, BlocksStep
  <2> HIDE DEF L
  <2> QED BY <1>13, <2>4, <2>5 DEF From
<1>15. Blocks(enc)[0] = [len |-> Len(src), msg |-> src]
  <2> DEFINE m == L - count
             before == SubSeq(src, 1, m)
             data == SubSeq(src, m + 1, L)
  <2>1. m \in 0..L
    BY <1>0, <1>3
  <2> HIDE DEF m
  <2>2. before \in Seq(Octet) /\ data \in Seq(Octet) /\ before \o data = SubSeq(src, 1, L)
    BY <1>0, <2>1, Adjoin
  <2>3. SubSeq(src, 1, L) = src
    OBVIOUS
  <2>4. before \o data = src
    BY <2>2, <2>3
  <2>5. Blocks(enc)[0] = Continue(before, [len |-> Len(data), msg |-> data])
    BY <1>12, <1>14 DEF m
  <2>6. Len(data) \in Nat /\ Len(before \o data) = Len(before) + Len(data)
    BY <2>2
  <2> HIDE DEF before, data
  <2>7. Continue(before, [len |-> Len(data), msg |-> data])
          = [len |-> Len(before) + Len(data), msg |-> before \o data]
    BY <2>6 DEF Continue
  <2> QED BY <2>4, <2>5, <2>6, <2>7
<1>16. ASSUME ~FullBlockThenZero(src), NEW i \in 1..e.len PROVE enc[i] # 0
  <2> DEFINE j == i - 1
  <2>1. j \in 0..(e.len - 1) /\ j + 1 = i /\ j \in 0..(code + count)
    BY <1>3, <1>6
  <2> HIDE DEF j
  <2>2. CASE j = code
    <3>1. enc[i] = count + 1 /\ count + 1 # 0
      BY <1>3, <1>11, <2>1, <2>2
    <3> QED BY <3>1
  <2>3. CASE j # code
    <3>1. enc[i] = s.out[j]
      BY <1>11, <2>1, <2>3
    <3>2. s.out[j] # 0
      BY <1>1, <1>16, <2>1, <2>3 DEF LoopInv, ZeroFree, code, count
    <3> QED BY <3>1, <3>2
  <2> QED BY <2>2, <2>3
<1>17. Shape(src, max, e)
  BY <1>6, <1>11 DEF Shape, enc, code, count, s, L
<1> QED BY <1>7, <1>8, <1>10, <1>15, <1>16, <1>17 DEF Outcome, enc, e

LEMMA DivisionBound ==
  ASSUME NEW d \in Nat, d >= 1, NEW full \in Nat, NEW length \in Nat, d * full <= length
  PROVE  full <= length \div d
<1> DEFINE quotient == length \div d
           rest == length % d
<1>1. quotient \in Nat /\ rest \in 0..(d - 1) /\ length = d * quotient + rest
  OBVIOUS
<1>2. SUFFICES ASSUME full > quotient PROVE FALSE
  BY <1>1
<1> HIDE DEF quotient, rest
<1>3. PICK more \in Nat : full = quotient + 1 + more
  <2>1. full - quotient - 1 \in Nat /\ full = quotient + 1 + (full - quotient - 1)
    BY <1>1, <1>2
  <2> QED BY <2>1
<1>4. d * full = d * quotient + d + d * more /\ d * more \in Nat /\ d * quotient \in Nat
  BY <1>1, <1>3
<1> QED BY <1>1, <1>4

LEMMA AmpleEnough ==
  ASSUME NEW src \in Seq(Octet)
  PROVE  Enough(src, Ample(src))
<1> DEFINE d == MaxCode - 1
<1>1. d \in Nat /\ d >= 1 /\ Len(src) \in Nat
  BY MaxCodeAssumption
<1>2. ASSUME NEW full \in Nat, d * full <= Len(src) PROVE Len(src) + full < Ample(src)
  <2> HIDE DEF d
  <2>1. full <= d * full /\ d * full \in Nat
    BY <1>1, OneBlockMore
  <2> DEFINE product == d * full
  <2>2. product \in Nat /\ full <= product /\ product <= Len(src)
    BY <1>2, <2>1
  <2> HIDE DEF product
  <2> QED BY <1>1, <2>2 DEF Ample
<1>3. Ample(src) \in Nat
  BY <1>1 DEF Ample
<1> QED BY <1>2, <1>3 DEF Enough

LEMMA AmpleOutcome ==
  ASSUME NEW src \in Seq(Octet)
  PROVE  /\ Encoded(src) = Contents(Encode(src, Ample(src)))
         /\ Outcome(src, Ample(src), Encode(src, Ample(src)))
<1>1. Enough(src, Ample(src))
  BY AmpleEnough
<1>2. Encoded(src) = Contents(Encode(src, Ample(src)))
  BY DEF Encoded, Contents
<1> QED BY <1>1, <1>2, EncodeOutcome

(* Cobs_decode inverts Cobs_encode, for every message and every length of a  *)
(* block, with a zero after a maximal block or without: it returns the       *)
(* message when the caller's buffer holds it, and fails when it does not.    *)
THEOREM DecodeInverts ==
  ASSUME NEW src \in Seq(Octet), NEW maxOut \in Nat
  PROVE  Decode(Encoded(src), maxOut) =
           IF Len(src) <= maxOut THEN [len |-> Len(src), msg |-> src] ELSE Failed
<1> DEFINE enc == Encoded(src)
<1>1. Blocks(enc)[0] = [len |-> Len(src), msg |-> src]
  BY AmpleOutcome DEF Outcome
<1> HIDE DEF enc
<1>2. Len(src) \in Nat
  OBVIOUS
<1> QED BY <1>1, <1>2 DEF Decode, enc

(* An encoding is not empty, and it holds no framing byte when no zero of    *)
(* the message follows a maximal block.                                      *)
LEMMA EncodedBytes ==
  ASSUME NEW src \in Seq(Octet)
  PROVE  /\ Encoded(src) \in Seq(Octet) /\ Len(Encoded(src)) > 0
         /\ ~FullBlockThenZero(src) => \A i \in 1..Len(Encoded(src)) : Encoded(src)[i] # 0
<1>1. PICK e : Encoded(src) = Contents(e) /\ Outcome(src, Ample(src), e)
  BY AmpleOutcome
<1> QED BY <1>1 DEF Outcome

(* A buffer of the length COBS promises, a byte for each maximal block and   *)
(* one more than the message, is enough for Cobs_encode: it succeeds, and    *)
(* stores nothing beyond the end of the buffer, though the code bytes are    *)
(* stored unchecked.                                                         *)
THEOREM PromiseSuffices ==
  ASSUME NEW src \in Seq(Octet), NEW max \in Nat,
         max >= Len(src) + (Len(src) \div (MaxCode - 1)) + 1
  PROVE  LET e == Encode(src, max) IN e.len > 0 /\ e.len <= max /\ e.top <= max
<1> DEFINE d == MaxCode - 1
<1>1. d \in Nat /\ d >= 1 /\ Len(src) \in Nat
  BY MaxCodeAssumption
<1>2. ASSUME NEW full \in Nat, d * full <= Len(src) PROVE Len(src) + full < max
  <2> DEFINE quotient == Len(src) \div d
  <2>0. max >= Len(src) + quotient + 1 /\ quotient \in Int
    BY <1>1
  <2>1. full <= quotient
    <3> HIDE DEF d
    <3> QED BY <1>1, <1>2, DivisionBound
  <2> HIDE DEF quotient
  <2> QED BY <1>1, <2>0, <2>1
<1>3. Enough(src, max)
  BY <1>2 DEF Enough
<1> DEFINE e == Encode(src, max)
<1>4. e.len \in Nat /\ 0 < e.len /\ e.len <= max /\ e.top \in Nat /\ e.top <= e.len
  BY <1>3, EncodeOutcome DEF Outcome
<1> HIDE DEF e
<1> QED BY <1>4 DEF e

-----------------------------------------------------------------------------
(* The deframer *)

(* The first framing byte. *)
LEMMA FramingByteIs ==
  ASSUME NEW bytes \in Seq(Octet)
  PROVE  /\ FramingByte(bytes) \in 0..Len(bytes)
         /\ FramingByte(bytes) = 0 => \A i \in 1..Len(bytes) : bytes[i] # 0
         /\ FramingByte(bytes) # 0 =>
              /\ bytes[FramingByte(bytes)] = 0
              /\ \A i \in 1..(FramingByte(bytes) - 1) : bytes[i] # 0
<1> DEFINE I == {i \in 1..Len(bytes) : bytes[i] = 0}
<1>0. Len(bytes) \in Nat
  OBVIOUS
<1>1. FramingByte(bytes) = IF I # {} THEN CHOOSE x \in I : \A y \in I : x <= y ELSE 0
  BY DEF FramingByte, SelectInSeq, Min
<1>2. CASE I = {}
  BY <1>0, <1>1, <1>2
<1>3. CASE I # {}
  <2>1. \E x \in I : \A y \in I : x <= y
    <3> DEFINE S == {n \in Nat : \A y \in I : n <= y}
    <3>1. SUFFICES ASSUME ~ \E x \in I : \A y \in I : x <= y PROVE FALSE
      OBVIOUS
    <3>2. 0 \in S
      BY <1>0
    <3>3. ASSUME NEW n \in S PROVE n + 1 \in S
      <4>1. n \notin I
        BY <3>1
      <4>2. ASSUME NEW y \in I PROVE n + 1 <= y
        BY <4>1, <3>3
      <4> QED BY <4>2
    <3>4. S = Nat
      <4> HIDE DEF S
      <4>1. S \in SUBSET Nat
        BY DEF S
      <4> QED BY <3>2, <3>3, <4>1, SetInduction
    <3>5. PICK y \in I : TRUE
      BY <1>3
    <3>6. y + 1 \in S
      <4> HIDE DEF S
      <4>1. y + 1 \in Nat
        BY <1>0
      <4> QED BY <3>4, <4>1
    <3> QED BY <1>0, <3>5, <3>6
  <2> DEFINE first == FramingByte(bytes)
  <2>2. first \in I /\ \A y \in I : first <= y
    <3> HIDE DEF I
    <3> QED BY <1>1, <1>3, <2>1
  <2> HIDE DEF first
  <2>3. first \in 1..Len(bytes) /\ bytes[first] = 0
    BY <2>2
  <2>4. ASSUME NEW i \in 1..(first - 1) PROVE bytes[i] # 0
    <3>1. i \in 1..Len(bytes) /\ ~(first <= i)
      BY <1>0, <2>3
    <3> QED BY <2>2, <3>1
  <2>5. first \in 0..Len(bytes) /\ first # 0
    BY <1>0, <2>3
  <2> QED BY <2>3, <2>4, <2>5 DEF first
<1> QED BY <1>2, <1>3

(* The first zero of a sequence, known by its place. *)
LEMMA FramingByteAt ==
  ASSUME NEW bytes \in Seq(Octet), NEW p \in 1..Len(bytes), bytes[p] = 0,
         \A i \in 1..(p - 1) : bytes[i] # 0
  PROVE  FramingByte(bytes) = p
<1>1. p \in Nat /\ Len(bytes) \in Nat
  OBVIOUS
<1> DEFINE first == FramingByte(bytes)
<1>2. /\ first \in 0..Len(bytes)
      /\ first = 0 => \A i \in 1..Len(bytes) : bytes[i] # 0
      /\ first # 0 => bytes[first] = 0 /\ \A i \in 1..(first - 1) : bytes[i] # 0
  BY FramingByteIs
<1> HIDE DEF first
<1>3. first # 0
  BY <1>2
<1>4. first \in 1..Len(bytes)
  BY <1>1, <1>2, <1>3
<1>5. ~(first < p)
  <2> SUFFICES ASSUME first < p PROVE FALSE
    OBVIOUS
  <2>1. first \in 1..(p - 1)
    BY <1>1, <1>4
  <2> QED BY <1>2, <1>3, <2>1
<1>6. ~(p < first)
  <2> SUFFICES ASSUME p < first PROVE FALSE
    OBVIOUS
  <2>1. p \in 1..(first - 1)
    BY <1>1, <1>4
  <2> QED BY <1>2, <1>3, <2>1
<1> QED BY <1>1, <1>4, <1>5, <1>6 DEF first

ZeroFreeSeq(bytes) == \A i \in 1..Len(bytes) : bytes[i] # 0

LEMMA NoFramingByteIn ==
  ASSUME NEW bytes \in Seq(Octet)
  PROVE  FramingByte(bytes) = 0 <=> ZeroFreeSeq(bytes)
<1>1. /\ FramingByte(bytes) \in 0..Len(bytes)
      /\ FramingByte(bytes) = 0 => \A i \in 1..Len(bytes) : bytes[i] # 0
      /\ FramingByte(bytes) # 0 => bytes[FramingByte(bytes)] = 0
  BY FramingByteIs
<1> DEFINE first == FramingByte(bytes)
<1> HIDE DEF first
<1>2. Len(bytes) \in Nat
  OBVIOUS
<1>3. first # 0 => first \in 1..Len(bytes) /\ bytes[first] = 0
  BY <1>1, <1>2 DEF first
<1> QED BY <1>1, <1>3 DEF ZeroFreeSeq, first

(* What is left of a stream from an offset on. *)
Suffix(stream, p) == SubSeq(stream, p + 1, Len(stream))

LEMMA WholeSuffix ==
  ASSUME NEW stream \in Seq(Octet)
  PROVE  Suffix(stream, 0) = stream /\ Suffix(stream, Len(stream)) = << >>
  BY DEF Suffix

LEMMA SuffixIs ==
  ASSUME NEW stream \in Seq(Octet), NEW p \in 0..Len(stream)
  PROVE  /\ Suffix(stream, p) \in Seq(Octet)
         /\ Len(Suffix(stream, p)) = Len(stream) - p
         /\ \A k \in 1..(Len(stream) - p) : Suffix(stream, p)[k] = stream[p + k]
<1> DEFINE L == Len(stream)
           m == p + 1
<1>1. L \in Nat /\ p \in Nat /\ p <= L /\ m \in Int /\ L \in Int
  OBVIOUS
<1>2. \A i \in m..L : stream[i] \in Octet
  <2>1. \A i \in m..L : i \in 1..L
    BY <1>1
  <2> QED BY <2>1
<1>3. /\ SubSeq(stream, m, L) \in Seq(Octet)
      /\ Len(SubSeq(stream, m, L)) = IF m <= L THEN L - m + 1 ELSE 0
      /\ \A i \in 1..(L - m + 1) : SubSeq(stream, m, L)[i] = stream[m + i - 1]
  <2> HIDE DEF m
  <2> QED BY <1>1, <1>2, SubSeqProperties
<1>4. Suffix(stream, p) = SubSeq(stream, m, L)
  BY DEF Suffix
<1>5. L - m + 1 = L - p /\ (IF m <= L THEN L - m + 1 ELSE 0) = L - p
  BY <1>1
<1>6. \A i \in 1..(L - p) : m + i - 1 = p + i
  BY <1>1
<1> HIDE DEF m, L
<1>7. /\ Suffix(stream, p) \in Seq(Octet)
      /\ Len(Suffix(stream, p)) = L - p
      /\ \A k \in 1..(L - p) : Suffix(stream, p)[k] = stream[p + k]
  BY <1>3, <1>4, <1>5, <1>6
<1> QED BY <1>7 DEF L

(* Sequences that agree are equal. *)
LEMMA SameSeq ==
  ASSUME NEW s \in Seq(Octet), NEW t \in Seq(Octet), Len(s) = Len(t),
         \A i \in 1..Len(s) : s[i] = t[i]
  PROVE  s = t
  OBVIOUS

(* What is left of a stream, in two parts. *)
Splits(stream, p, s, t) == Suffix(stream, p) = s \o t

(* The first part is taken off. *)
LEMMA SuffixDrop ==
  ASSUME NEW stream \in Seq(Octet), NEW p \in 0..Len(stream),
         NEW s \in Seq(Octet), NEW t \in Seq(Octet), Splits(stream, p, s, t)
  PROVE  /\ p + Len(s) \in 0..Len(stream)
         /\ Suffix(stream, p + Len(s)) = t
         /\ \A k \in 1..Len(s) : stream[p + k] = s[k]
<1> DEFINE L == Len(stream)
           both == s \o t
           q == p + Len(s)
<1>1. /\ both \in Seq(Octet) /\ Len(both) = Len(s) + Len(t)
      /\ \A i \in 1..(Len(s) + Len(t)) : both[i] = IF i <= Len(s) THEN s[i] ELSE t[i - Len(s)]
  BY ConcatProperties
<1>2. /\ Len(Suffix(stream, p)) = L - p
      /\ \A k \in 1..(L - p) : Suffix(stream, p)[k] = stream[p + k]
  BY SuffixIs
<1> HIDE DEF both
<1>3. Suffix(stream, p) = both
  BY DEF both, Splits
<1>4. L \in Nat /\ p \in Nat /\ Len(s) \in Nat /\ Len(t) \in Nat
  OBVIOUS
<1>5. L - p = Len(s) + Len(t)
  BY <1>1, <1>2, <1>3
<1>6. \A k \in 1..(Len(s) + Len(t)) : both[k] = stream[p + k]
  BY <1>2, <1>3, <1>5
<1>7. q \in 0..L /\ L - q = Len(t)
  BY <1>4, <1>5
<1> HIDE DEF L
<1>8. \A k \in 1..Len(s) : stream[p + k] = s[k]
  <2>1. \A k \in 1..Len(s) : k \in 1..(Len(s) + Len(t)) /\ k <= Len(s)
    BY <1>4
  <2> QED BY <1>1, <1>6, <2>1
<1> DEFINE rest == Suffix(stream, q)
<1> HIDE DEF q
<1>9. /\ rest \in Seq(Octet) /\ Len(rest) = L - q
      /\ \A k \in 1..(L - q) : rest[k] = stream[q + k]
  BY <1>7, SuffixIs DEF L
<1>10. ASSUME NEW k \in 1..Len(t) PROVE rest[k] = t[k]
  <2> DEFINE i == Len(s) + k
  <2>1. i \in 1..(Len(s) + Len(t)) /\ ~(i <= Len(s)) /\ i - Len(s) = k /\ p + i = q + k
    BY <1>4 DEF q
  <2>2. both[i] = t[k]
    <3> HIDE DEF i
    <3> QED BY <1>1, <2>1
  <2>3. both[i] = stream[p + i]
    <3> HIDE DEF i
    <3> QED BY <1>6, <2>1
  <2> QED BY <1>7, <1>9, <2>1, <2>2, <2>3
<1>11. rest = t
  <2> HIDE DEF rest
  <2> QED BY <1>7, <1>9, <1>10, SameSeq
<1> QED BY <1>7, <1>8, <1>11 DEF q, L

(* A frame, byte by byte. *)
LEMMA FrameBytes ==
  ASSUME NEW enc \in Seq(Octet)
  PROVE  /\ Frame(enc) \in Seq(Octet) /\ Len(Frame(enc)) = Len(enc) + 2
         /\ Frame(enc)[1] = 0 /\ Frame(enc)[Len(enc) + 2] = 0
         /\ \A k \in 1..Len(enc) : Frame(enc)[k + 1] = enc[k]
<1>1. 0 \in Octet
  BY MaxCodeAssumption DEF Octet
<1>2. << 0 >> \in Seq(Octet) /\ Len(<< 0 >>) = 1 /\ << 0 >>[1] = 0
  BY <1>1
<1> DEFINE body == << 0 >> \o enc
<1>3. Len(enc) \in Nat
  OBVIOUS
<1>4. /\ body \in Seq(Octet) /\ Len(body) = 1 + Len(enc)
      /\ \A i \in 1..(1 + Len(enc)) : body[i] = IF i <= 1 THEN 0 ELSE enc[i - 1]
  BY <1>2, ConcatProperties
<1>5. Frame(enc) = body \o << 0 >>
  BY DEF Frame
<1> HIDE DEF body
<1>6. /\ Frame(enc) \in Seq(Octet) /\ Len(Frame(enc)) = Len(body) + 1
      /\ \A i \in 1..(Len(body) + 1) :
           Frame(enc)[i] = IF i <= Len(body) THEN body[i] ELSE << 0 >>[i - Len(body)]
  BY <1>2, <1>4, <1>5, ConcatProperties
<1> DEFINE n == Len(enc)
           f == Frame(enc)
<1> HIDE DEF n, f
<1>7. /\ n \in Nat /\ Len(body) = n + 1
      /\ \A i \in 1..(n + 1) : body[i] = IF i <= 1 THEN 0 ELSE enc[i - 1]
      /\ \A i \in 1..(n + 2) : f[i] = IF i <= n + 1 THEN body[i] ELSE << 0 >>[i - (n + 1)]
  BY <1>3, <1>4, <1>6 DEF n, f
<1>8. f[1] = 0
  BY <1>7
<1>9. f[n + 2] = 0
  <2>1. f[n + 2] = << 0 >>[n + 2 - (n + 1)]
    BY <1>7
  <2>2. n + 2 - (n + 1) = 1
    BY <1>7
  <2> QED BY <1>2, <2>1, <2>2
<1>10. ASSUME NEW k \in 1..n PROVE f[k + 1] = enc[k]
  <2>1. k + 1 \in 1..(n + 1) /\ k + 1 \in 1..(n + 2) /\ k + 1 <= n + 1 /\ ~(k + 1 <= 1)
        /\ k + 1 - 1 = k
    BY <1>7
  <2> QED BY <1>7, <2>1
<1> QED BY <1>3, <1>4, <1>6, <1>8, <1>9, <1>10 DEF n, f

(* A sequence of bytes cut in two. *)
LEMMA Cut ==
  ASSUME NEW s \in Seq(Octet), NEW k \in 0..Len(s)
  PROVE  /\ SubSeq(s, 1, k) \in Seq(Octet) /\ Len(SubSeq(s, 1, k)) = k
         /\ \A i \in 1..k : SubSeq(s, 1, k)[i] = s[i]
         /\ SubSeq(s, k + 1, Len(s)) \in Seq(Octet)
         /\ Len(SubSeq(s, k + 1, Len(s))) = Len(s) - k
         /\ s = SubSeq(s, 1, k) \o SubSeq(s, k + 1, Len(s))
<1> DEFINE n == Len(s)
<1>1. n \in Nat /\ k \in Nat /\ k <= n
  OBVIOUS
<1>2. \A i \in 1..k : s[i] \in Octet
  BY <1>1, ElementOfSeq
<1>3. /\ SubSeq(s, 1, k) \in Seq(Octet)
      /\ Len(SubSeq(s, 1, k)) = IF 1 <= k THEN k - 1 + 1 ELSE 0
      /\ \A i \in 1..(k - 1 + 1) : SubSeq(s, 1, k)[i] = s[1 + i - 1]
  BY <1>1, <1>2, SubSeqProperties
<1>4. Len(SubSeq(s, 1, k)) = k /\ k - 1 + 1 = k /\ \A i \in 1..k : 1 + i - 1 = i
  BY <1>1, <1>3
<1>5. \A i \in 1..k : SubSeq(s, 1, k)[i] = s[i]
  BY <1>3, <1>4
<1>6. Suffix(s, k) \in Seq(Octet) /\ Len(Suffix(s, k)) = n - k
  BY SuffixIs
<1>7. SubSeq(s, 1, k) \o SubSeq(s, k + 1, n) = SubSeq(s, 1, n)
  <2>1. 1 \in 1..(n + 1) /\ k \in (1 - 1)..n /\ n \in k..n
    BY <1>1
  <2> QED BY <2>1, ConcatAdjacentSubSeq
<1>8. SubSeq(s, 1, n) = s
  BY SubSeqFull
<1> QED BY <1>3, <1>4, <1>5, <1>6, <1>7, <1>8 DEF Suffix

LEMMA DecodeResult ==
  ASSUME NEW enc \in Seq(Octet), NEW max \in Nat
  PROVE  /\ Decode(enc, max) \in Result
         /\ enc = << >> => Decode(enc, max) = Failed
<1> DEFINE all == Blocks(enc)
<1>1. 0 \in 0..Len(enc)
  OBVIOUS
<1>2. all[0] \in Result
  BY <1>1, BlocksResult
<1>3. all[Len(enc)] = Failed
  BY BlocksStep
<1> HIDE DEF all
<1>4. Decode(enc, max) = IF all[0].len > max THEN Failed ELSE all[0]
  BY DEF Decode, all
<1>5. Failed \in Result
  BY DEF Result
<1> QED BY <1>2, <1>3, <1>4, <1>5

LEMMA FlushedType == Flushed \in Deframer /\ Flushed.state = "INIT"
                     /\ Flushed.work = << >> /\ Flushed.fifo = << >>
  BY DEF Flushed, Deframer

(* Bytes without a framing byte, put together. *)
LEMMA ZeroFreeConcat ==
  ASSUME NEW s \in Seq(Octet), NEW t \in Seq(Octet), ZeroFreeSeq(s), ZeroFreeSeq(t)
  PROVE  s \o t \in Seq(Octet) /\ Len(s \o t) = Len(s) + Len(t) /\ ZeroFreeSeq(s \o t)
<1> DEFINE both == s \o t
<1>1. /\ both \in Seq(Octet) /\ Len(both) = Len(s) + Len(t)
      /\ \A i \in 1..(Len(s) + Len(t)) : both[i] = IF i <= Len(s) THEN s[i] ELSE t[i - Len(s)]
  BY ConcatProperties
<1> HIDE DEF both
<1>2. Len(s) \in Nat /\ Len(t) \in Nat
  OBVIOUS
<1>3. ASSUME NEW i \in 1..(Len(s) + Len(t)) PROVE both[i] # 0
  <2>1. CASE i <= Len(s)
    <3>1. i \in 1..Len(s)
      BY <1>2, <2>1
    <3> QED BY <1>1, <2>1, <3>1 DEF ZeroFreeSeq
  <2>2. CASE ~(i <= Len(s))
    <3>1. i - Len(s) \in 1..Len(t)
      BY <1>2, <2>2
    <3> QED BY <1>1, <2>2, <3>1 DEF ZeroFreeSeq
  <2> QED BY <2>1, <2>2
<1> QED BY <1>1, <1>3 DEF ZeroFreeSeq, both

(* What follows the framing byte a frame begins with. *)
Closed(enc) == enc \o << 0 >>

LEMMA ClosedBytes ==
  ASSUME NEW enc \in Seq(Octet)
  PROVE  /\ Closed(enc) \in Seq(Octet) /\ Len(Closed(enc)) = Len(enc) + 1
         /\ Closed(enc)[Len(enc) + 1] = 0
         /\ \A k \in 1..Len(enc) : Closed(enc)[k] = enc[k]
<1>1. << 0 >> \in Seq(Octet)
  BY MaxCodeAssumption DEF Octet
<1> QED BY <1>1 DEF Closed

(* What a call makes of a frame that rest completes: the message when rest   *)
(* is empty, and otherwise more of the frame in work. *)
Progress(enc, r, rest) ==
  \/ rest = << >> /\ r = Deliver(Flushed, Decode(enc, MaxOut))
  \/ \E work \in Seq(Octet) :
       /\ r = Return([state |-> "FIND_EOF", work |-> work, fifo |-> << >>])
       /\ ZeroFreeSeq(work) /\ work \o rest = Closed(enc)

LEMMA FindEofProgress ==
  ASSUME NEW enc \in Seq(Octet), ZeroFreeSeq(enc), Len(enc) + 2 <= Depth,
         Decode(enc, MaxOut).len > 0,
         NEW work \in Seq(Octet), ZeroFreeSeq(work),
         NEW fifo \in Seq(Octet), NEW rest \in Seq(Octet),
         work \o (fifo \o rest) = Closed(enc)
  PROVE  Progress(enc, FindEof([state |-> "FIND_EOF", work |-> work, fifo |-> fifo]), rest)
<1> DEFINE E == Len(enc)
           W == Len(work)
           F == Len(fifo)
           R == Len(rest)
           room == Depth - W
           d == [state |-> "FIND_EOF", work |-> work, fifo |-> fifo]
           more == fifo \o rest
           all == work \o more
           closed == Closed(enc)
<1>1. E \in Nat /\ W \in Nat /\ F \in Nat /\ R \in Nat /\ Depth \in Nat /\ E + 2 <= Depth
  BY BufferAssumption
<1>2. /\ more \in Seq(Octet) /\ Len(more) = F + R
      /\ \A i \in 1..(F + R) : more[i] = IF i <= F THEN fifo[i] ELSE rest[i - F]
  BY ConcatProperties
<1> HIDE DEF more
<1>3. /\ all \in Seq(Octet) /\ Len(all) = W + Len(more)
      /\ \A i \in 1..(W + Len(more)) : all[i] = IF i <= W THEN work[i] ELSE more[i - W]
  BY <1>2, ConcatProperties
<1>4. /\ Len(closed) = E + 1 /\ closed[E + 1] = 0
      /\ \A k \in 1..E : closed[k] = enc[k]
  BY ClosedBytes
<1>5. all = closed
  BY DEF more
<1> HIDE DEF all, closed
<1>6. W + F + R = E + 1
  <2>1. Len(all) = W + (F + R)
    BY <1>2, <1>3
  <2>2. Len(all) = E + 1
    BY <1>4, <1>5
  <2> HIDE DEF E, W, F, R
  <2> QED BY <1>1, <2>1, <2>2
<1> HIDE DEF E, W, F, R
<1>7. \A i \in 1..W : work[i] = closed[i]
  <2>1. \A i \in 1..W : i \in 1..(W + Len(more)) /\ i <= W
    BY <1>1, <1>2
  <2> QED BY <1>3, <1>5, <2>1
<1>8. ASSUME NEW k \in 1..F PROVE fifo[k] = closed[W + k]
  <2> DEFINE i == W + k
  <2>1. i \in 1..(W + Len(more)) /\ ~(i <= W) /\ i - W = k /\ k \in 1..(F + R) /\ k <= F
    BY <1>1, <1>2
  <2> HIDE DEF i
  <2>2. all[i] = more[k]
    BY <1>3, <2>1
  <2>3. more[k] = fifo[k]
    BY <1>2, <2>1
  <2> QED BY <1>5, <2>2, <2>3 DEF i
<1>9. \A k \in 1..E : closed[k] # 0
  BY <1>4 DEF ZeroFreeSeq, E
<1>10. W <= E
  <2> SUFFICES ASSUME ~(W <= E) PROVE FALSE
    OBVIOUS
  <2>1. E + 1 \in 1..W
    BY <1>1
  <2>2. work[E + 1] = 0
    BY <1>4, <1>7, <2>1
  <2> QED BY <2>1, <2>2 DEF ZeroFreeSeq, W
<1>11. CASE rest = << >>
  <2>1. R = 0
    BY <1>11, EmptySeq DEF R
  <2>2. W + F = E + 1 /\ F \in 1..room /\ F - 1 \in 0..F /\ F \in 1..F
    BY <1>1, <1>6, <1>10, <2>1
  <2>3. fifo[F] = 0
    <3>1. fifo[F] = closed[W + F]
      BY <1>8, <2>2
    <3> QED BY <1>4, <2>2, <3>1
  <2>4. ASSUME NEW k \in 1..(F - 1) PROVE fifo[k] = enc[W + k] /\ fifo[k] # 0
    <3>1. k \in 1..F /\ W + k \in 1..E
      BY <1>1, <2>2
    <3> DEFINE i == W + k
    <3> HIDE DEF i
    <3>2. fifo[k] = closed[i] /\ i \in 1..E
      BY <1>8, <3>1 DEF i
    <3> QED BY <1>4, <1>9, <3>2 DEF i
  <2>5. FramingByte(fifo) = F
    BY <2>2, <2>3, <2>4, FramingByteAt DEF F
  <2> DEFINE head == SubSeq(fifo, 1, F - 1)
             tail == SubSeq(fifo, F + 1, F)
             frame == work \o head
  <2>6. FindEof(d) = DecodeFrame(frame, tail)
    BY <2>2, <2>5 DEF FindEof, F, W
  <2>7. /\ head \in Seq(Octet) /\ Len(head) = F - 1
        /\ \A i \in 1..(F - 1) : head[i] = fifo[i]
    BY <2>2, Cut DEF F
  <2>8. tail = << >>
    <3>1. F + 1 \in Int /\ F \in Int /\ F < F + 1
      BY <1>1
    <3> QED BY <3>1, SubSeqEmpty
  <2> HIDE DEF head, tail
  <2>9. /\ frame \in Seq(Octet) /\ Len(frame) = W + (F - 1)
        /\ \A i \in 1..(W + (F - 1)) : frame[i] = IF i <= W THEN work[i] ELSE head[i - W]
    <3>1. /\ frame \in Seq(Octet) /\ Len(frame) = W + Len(head)
          /\ \A i \in 1..(W + Len(head)) : frame[i] = IF i <= W THEN work[i] ELSE head[i - W]
      BY <2>7, ConcatProperties DEF W
    <3> QED BY <2>7, <3>1
  <2> HIDE DEF frame
  <2>10. W + (F - 1) = E
    BY <1>1, <2>2
  <2>11. ASSUME NEW i \in 1..E PROVE frame[i] = enc[i]
    <3>1. CASE i <= W
      <4>1. i \in 1..W
        BY <1>1, <3>1
      <4>2. frame[i] = work[i]
        BY <2>9, <2>10, <3>1
      <4> QED BY <1>4, <1>7, <4>1, <4>2
    <3>2. CASE ~(i <= W)
      <4> DEFINE k == i - W
      <4>1. k \in 1..(F - 1) /\ W + k = i
        BY <1>1, <2>2, <3>2
      <4>2. frame[i] = head[k]
        BY <2>9, <2>10, <3>2
      <4> HIDE DEF k
      <4>3. head[k] = enc[W + k]
        BY <2>4, <2>7, <4>1
      <4> QED BY <4>1, <4>2, <4>3
    <3> QED BY <3>1, <3>2
  <2>12. frame = enc
    BY <2>9, <2>10, <2>11, SeqEqual DEF E
  <2> DEFINE num == Decode(enc, MaxOut)
  <2>13. DecodeFrame(enc, << >>) = Deliver(Flushed, num)
    <3>1. [Flushed EXCEPT !.fifo = << >>] = Flushed
      BY DEF Flushed
    <3>2. ~(num.len < 0)
      <4>1. num \in Result /\ num.len > 0
        BY DecodeResult, BufferAssumption
      <4> HIDE DEF num
      <4>2. num.len \in Int
        BY <4>1 DEF Result, Failed
      <4> QED BY <4>1, <4>2
    <3> QED BY <3>1, <3>2 DEF DecodeFrame
  <2> HIDE DEF num, d
  <2>14. FindEof(d) = Deliver(Flushed, num)
    BY <2>6, <2>8, <2>12, <2>13
  <2>15. Progress(enc, FindEof(d), rest)
    BY <1>11, <2>14 DEF Progress, num
  <2> QED BY <2>15 DEF d
<1>12. CASE rest # << >>
  <2>1. R > 0
    BY <1>1, <1>12, EmptySeq DEF R
  <2>2. W + F <= E /\ F <= room
    BY <1>1, <1>6, <2>1
  <2>3. ZeroFreeSeq(fifo)
    <3>1. ASSUME NEW k \in 1..F PROVE fifo[k] # 0
      <4> DEFINE i == W + k
      <4>1. i \in 1..E
        BY <1>1, <2>2
      <4>2. fifo[k] = closed[i]
        BY <1>8
      <4> HIDE DEF i
      <4> QED BY <1>9, <4>1, <4>2
    <3> QED BY <3>1 DEF ZeroFreeSeq, F
  <2>4. FramingByte(fifo) = 0
    BY <2>3, NoFramingByteIn
  <2>5. SubSeq(fifo, 1, F) = fifo /\ SubSeq(fifo, F + 1, F) = << >>
    <3>1. F + 1 \in Int /\ F \in Int /\ F < F + 1
      BY <1>1
    <3>2. SubSeq(fifo, F + 1, F) = << >>
      BY <3>1, SubSeqEmpty
    <3>3. SubSeq(fifo, 1, Len(fifo)) = fifo
      BY SubSeqFull
    <3> QED BY <3>2, <3>3 DEF F
  <2> DEFINE held == work \o fifo
  <2>6. FindEof(d) = Return([state |-> "FIND_EOF", work |-> held, fifo |-> << >>])
    <3>1. ~(0 \in 1..room)
      BY <1>1
    <3>2. d.fifo = fifo /\ d.work = work /\ Len(d.fifo) = F /\ Depth - Len(d.work) = room
      BY DEF F, W
    <3> HIDE DEF d, room
    <3>3. FindEof(d) = Return([state |-> "FIND_EOF", work |-> work \o SubSeq(fifo, 1, F),
                               fifo |-> SubSeq(fifo, F + 1, F)])
      BY <2>2, <2>4, <3>1, <3>2 DEF FindEof
    <3> QED BY <2>5, <3>3
  <2>7. held \in Seq(Octet) /\ ZeroFreeSeq(held)
    BY <2>3, ZeroFreeConcat
  <2>8. held \o rest = closed
    <3>1. held \o rest = work \o more
      BY Associates, Zenon DEF more
    <3> QED BY <1>5, <3>1 DEF all
  <2> HIDE DEF held, d
  <2>9. Progress(enc, FindEof(d), rest)
    BY <2>6, <2>7, <2>8 DEF Progress, closed
  <2> QED BY <2>9 DEF d
<1> QED BY <1>11, <1>12

LEMMA FifoReplaced ==
  \A s, w, f, g : [[state |-> s, work |-> w, fifo |-> f] EXCEPT !.fifo = g]
                     = [state |-> s, work |-> w, fifo |-> g]
  OBVIOUS

(* The deframer goes on with a frame. *)
LEMMA GoesOn ==
  ASSUME NEW enc \in Seq(Octet), ZeroFreeSeq(enc), Len(enc) + 2 <= Depth,
         Decode(enc, MaxOut).len > 0,
         NEW work \in Seq(Octet), ZeroFreeSeq(work),
         NEW chunk \in Seq(Octet), NEW rest \in Seq(Octet),
         work \o (chunk \o rest) = Closed(enc)
  PROVE  Progress(enc, Deframe([state |-> "FIND_EOF", work |-> work, fifo |-> << >>], chunk), rest)
<1> DEFINE d == [state |-> "FIND_EOF", work |-> work, fifo |-> << >>]
           written == [state |-> "FIND_EOF", work |-> work, fifo |-> chunk]
<1>1. Len(chunk) <= Depth
  <2> DEFINE more == chunk \o rest
  <2>1. more \in Seq(Octet) /\ Len(more) = Len(chunk) + Len(rest)
    BY ConcatProperties
  <2>2. Len(Closed(enc)) = Len(enc) + 1
    BY ClosedBytes
  <2>3. work \o more = Closed(enc)
    OBVIOUS
  <2> HIDE DEF more
  <2>4. Len(work \o more) = Len(work) + Len(more)
    BY <2>1, ConcatProperties
  <2>5. /\ Len(work) \in Nat /\ Len(chunk) \in Nat /\ Len(rest) \in Nat /\ Len(enc) \in Nat
        /\ Depth \in Nat /\ Len(enc) + 2 <= Depth
    BY BufferAssumption
  <2>6. Len(work) + (Len(chunk) + Len(rest)) = Len(enc) + 1
    BY <2>1, <2>2, <2>3, <2>4
  <2> DEFINE a == Len(work)
             b == Len(chunk)
             c == Len(rest)
             e == Len(enc)
  <2>7. a \in Nat /\ b \in Nat /\ c \in Nat /\ e \in Nat /\ e + 2 <= Depth /\ a + (b + c) = e + 1
    BY <2>5, <2>6
  <2> HIDE DEF a, b, c, e
  <2>8. b <= Depth
    BY <2>5, <2>7
  <2> QED BY <2>8 DEF b
<1>2. << >> \o chunk = chunk
  BY ConcatEmptySeq
<1>3. Deframe(d, chunk) = FindEof(written)
  <2>1. Len(d.fifo) = 0 /\ d.state = "FIND_EOF"
    BY EmptySeq
  <2>2. ~(Depth - Len(d.fifo) < Len(chunk))
    <3> HIDE DEF d
    <3>1. Len(chunk) \in Nat /\ Depth \in Nat
      BY BufferAssumption
    <3> QED BY <1>1, <2>1, <3>1
  <2>3. [d EXCEPT !.fifo = d.fifo \o chunk] = written
    <3>1. d.fifo \o chunk = chunk
      BY <1>2
    <3>2. [d EXCEPT !.fifo = chunk] = written
      BY FifoReplaced
    <3> HIDE DEF d, written
    <3> QED BY <3>1, <3>2
  <2> HIDE DEF d, written
  <2> QED BY <2>1, <2>2, <2>3 DEF Deframe
<1> HIDE DEF d
<1>4. Progress(enc, FindEof(written), rest)
  BY FindEofProgress
<1> QED BY <1>3, <1>4 DEF d

(* The deframer starts a frame. *)
LEMMA Starts ==
  ASSUME NEW enc \in Seq(Octet), ZeroFreeSeq(enc), Len(enc) + 2 <= Depth,
         Decode(enc, MaxOut).len > 0,
         NEW chunk \in Seq(Octet), chunk # << >>, NEW rest \in Seq(Octet),
         chunk \o rest = Frame(enc)
  PROVE  Progress(enc, Deframe(Flushed, chunk), rest)
<1> DEFINE frame == Frame(enc)
           n == Len(chunk)
           mark == << 0 >>
           head == SubSeq(chunk, 1, 1)
           tail == SubSeq(chunk, 2, n)
           closed == Closed(enc)
           found == [state |-> "FIND_EOF", work |-> << >>, fifo |-> tail]
<1>1. frame \in Seq(Octet) /\ Len(frame) = Len(enc) + 2 /\ frame[1] = 0
  BY FrameBytes
<1>2. mark \in Seq(Octet) /\ Len(mark) = 1
  BY MaxCodeAssumption DEF Octet
<1>3. closed \in Seq(Octet)
  BY ClosedBytes
<1>4. n \in Nat /\ n > 0 /\ 1 \in 0..n /\ 1 \in 1..n
  BY EmptySeq
<1>5. /\ frame = chunk \o rest /\ Len(frame) = n + Len(rest)
      /\ \A i \in 1..(n + Len(rest)) : frame[i] = IF i <= n THEN chunk[i] ELSE rest[i - n]
  BY ConcatProperties
<1>6. chunk[1] = 0 /\ n <= Depth
  <2>1. Len(rest) \in Nat /\ Len(enc) \in Nat /\ Len(enc) + 2 <= Depth /\ Depth \in Nat
    BY BufferAssumption
  <2> DEFINE r == Len(rest)
             e == Len(enc)
  <2>2. r \in Nat /\ e \in Nat /\ e + 2 <= Depth /\ n + r = e + 2
    BY <1>1, <1>5, <2>1
  <2> HIDE DEF r, e, n, frame
  <2>3. n <= Depth
    BY <1>4, <2>1, <2>2
  <2>4. 1 \in 1..(n + r) /\ 1 <= n
    BY <1>4, <2>2
  <2>5. frame[1] = chunk[1]
    BY <1>5, <2>4 DEF r
  <2> QED BY <1>1, <2>3, <2>5
<1>7. /\ head \in Seq(Octet) /\ Len(head) = 1
      /\ \A i \in 1..1 : head[i] = chunk[i]
      /\ tail \in Seq(Octet) /\ chunk = head \o tail
  BY <1>4, Cut
<1>8. FramingByte(chunk) = 1
  BY <1>4, <1>6, FramingByteAt
<1>9. Deframe(Flushed, chunk) = FindEof(found)
  <2>1. Flushed.state = "INIT" /\ Flushed.fifo = << >> /\ Len(<< >>) = 0
    BY FlushedType, EmptySeq
  <2>2. ~(Depth - Len(Flushed.fifo) < n)
    BY <1>4, <1>6, <2>1, BufferAssumption
  <2> DEFINE written == [Flushed EXCEPT !.fifo = Flushed.fifo \o chunk]
  <2>3. written.fifo = chunk
    <3>1. << >> \o chunk = chunk
      BY ConcatEmptySeq
    <3> QED BY <2>1, <3>1 DEF Flushed
  <2>4. Deframe(Flushed, chunk) = FindSof(written)
    BY <2>1, <2>2 DEF Deframe
  <2> HIDE DEF written
  <2>5. FindSof(written) = FindEof(found)
    BY <1>8, <2>3 DEF FindSof
  <2> QED BY <2>4, <2>5
<1>10. tail \o rest = closed
  <2> DEFINE more == tail \o rest
  <2> HIDE DEF frame, head, tail, closed, mark
  <2>1. more \in Seq(Octet)
    BY <1>7, ConcatProperties
  <2>2. head \o more = (head \o tail) \o rest
    <3>1. head \in Seq(Octet) /\ tail \in Seq(Octet)
      BY <1>7
    <3> QED BY <3>1, Associates
  <2>3. mark \o closed = frame
    <3>1. (mark \o enc) \o mark = mark \o (enc \o mark)
      BY <1>2, Associates, Zenon
    <3> QED BY <3>1 DEF frame, Frame, mark, closed, Closed
  <2>4. 0 \in 0..Len(frame) /\ Suffix(frame, 0) = frame
    BY <1>1, WholeSuffix
  <2>5. Splits(frame, 0, head, more)
    BY <1>5, <1>7, <2>2, <2>4 DEF Splits
  <2>6. Splits(frame, 0, mark, closed)
    BY <2>3, <2>4 DEF Splits
  <2> HIDE DEF more
  <2>7. Suffix(frame, 0 + Len(head)) = more
    BY <1>1, <1>7, <2>1, <2>4, <2>5, SuffixDrop
  <2>8. Suffix(frame, 0 + Len(mark)) = closed
    BY <1>1, <1>2, <1>3, <2>4, <2>6, SuffixDrop
  <2> QED BY <1>2, <1>7, <2>7, <2>8 DEF more
<1>11. << >> \in Seq(Octet) /\ ZeroFreeSeq(<< >>)
  BY EmptySeq DEF ZeroFreeSeq
<1>12. << >> \o (tail \o rest) = closed
  <2> HIDE DEF closed
  <2> QED BY <1>3, <1>10, ConcatEmptySeq
<1> HIDE DEF tail
<1>13. Progress(enc, FindEof(found), rest)
  BY <1>7, <1>11, <1>12, FindEofProgress
<1> QED BY <1>9, <1>13

(* What TypeOK says of the deframer. *)
DeframerOK(d) ==
  /\ d \in Deframer
  /\ Len(d.work) <= Depth /\ Len(d.fifo) <= Depth
  /\ FramingByte(d.work) = 0
  /\ d.state = "FIND_EOF" => d.fifo = << >>
  /\ d.state = "ERROR" => Len(d.work) = Depth /\ d.fifo # << >>

LEMMA WaitingOK ==
  ASSUME NEW fifo \in Seq(Octet), Len(fifo) <= Depth
  PROVE  DeframerOK([Flushed EXCEPT !.fifo = fifo])
<1> DEFINE d == [Flushed EXCEPT !.fifo = fifo]
<1>1. d = [state |-> "INIT", work |-> << >>, fifo |-> fifo]
  BY DEF Flushed
<1>2. << >> \in Seq(Octet) /\ Len(<< >>) = 0 /\ ZeroFreeSeq(<< >>)
  BY EmptySeq DEF ZeroFreeSeq
<1>3. FramingByte(<< >>) = 0
  BY <1>2, NoFramingByteIn
<1> HIDE DEF d
<1>4. d \in Deframer
  BY <1>1, <1>2 DEF Deframer
<1>5. DeframerOK(d)
  BY <1>1, <1>2, <1>3, <1>4, BufferAssumption DEF DeframerOK
<1> QED BY <1>5 DEF d

LEMMA FlushedOK == DeframerOK(Flushed)
<1>1. [Flushed EXCEPT !.fifo = << >>] = Flushed
  BY DEF Flushed
<1>2. << >> \in Seq(Octet) /\ Len(<< >>) <= Depth
  BY EmptySeq, BufferAssumption
<1> QED BY <1>1, <1>2, WaitingOK

LEMMA FindEofOK ==
  ASSUME NEW d \in Deframer, Len(d.work) <= Depth, Len(d.fifo) <= Depth, FramingByte(d.work) = 0
  PROVE  DeframerOK(FindEof(d).deframer)
<1> DEFINE eof  == FramingByte(d.fifo)
           room == Depth - Len(d.work)
           n    == Len(d.fifo)
           w    == Len(d.work)
<1>1. d.work \in Seq(Octet) /\ d.fifo \in Seq(Octet) /\ w \in Nat /\ n \in Nat
  BY DEF Deframer
<1>2. room \in Nat /\ Depth \in Nat /\ room = Depth - w /\ n <= Depth
  BY <1>1, BufferAssumption
<1>3. eof \in 0..n
  BY <1>1, FramingByteIs
<1>4. CASE eof \in 1..room
  <2> DEFINE head == SubSeq(d.fifo, 1, eof - 1)
             tail == SubSeq(d.fifo, eof + 1, n)
             frame == d.work \o head
  <2>1. FindEof(d) = DecodeFrame(frame, tail)
    BY <1>4 DEF FindEof
  <2>2. tail \in Seq(Octet) /\ Len(tail) = n - eof
    BY <1>1, <1>3, Cut
  <2> HIDE DEF frame, tail
  <2>3. Len(tail) <= Depth
    <3> HIDE DEF n, eof
    <3> QED BY <1>2, <1>3, <1>1, <2>2
  <2>4. \/ DecodeFrame(frame, tail).deframer = Flushed
        \/ DecodeFrame(frame, tail).deframer = [Flushed EXCEPT !.fifo = tail]
    BY DEF DecodeFrame, Return, Deliver
  <2> QED BY <2>1, <2>2, <2>3, <2>4, FlushedOK, WaitingOK
<1>5. CASE ~(eof \in 1..room)
  <2> DEFINE moved == IF n <= room THEN n ELSE room
             head == SubSeq(d.fifo, 1, moved)
             tail == SubSeq(d.fifo, moved + 1, n)
             work == d.work \o head
             state == IF n <= room THEN "FIND_EOF" ELSE "ERROR"
             left == [state |-> state, work |-> work, fifo |-> tail]
  <2>1. FindEof(d) = Return(left)
    BY <1>5 DEF FindEof
  <2>2. /\ moved \in 0..n /\ moved <= room /\ moved \in Nat
        /\ n <= room => moved = n
        /\ ~(n <= room) => moved = room /\ room < n
    <3> HIDE DEF room, n
    <3>1. n \in Nat /\ room \in Nat
      BY <1>1, <1>2
    <3>2. CASE n <= room
      BY <3>1, <3>2
    <3>3. CASE ~(n <= room)
      BY <3>1, <3>3
    <3> QED BY <3>2, <3>3
  <2>3. eof # 0 => moved < eof
    <3> HIDE DEF room, n, moved, eof
    <3> QED BY <1>1, <1>2, <1>3, <1>5, <2>2
  <2> HIDE DEF moved
  <2>4. /\ head \in Seq(Octet) /\ Len(head) = moved /\ tail \in Seq(Octet)
        /\ Len(tail) = n - moved /\ \A i \in 1..moved : head[i] = d.fifo[i]
    BY <1>1, <2>2, Cut
  <2>5. ZeroFreeSeq(head)
    <3>1. \A i \in 1..moved : d.fifo[i] # 0
      <4>1. CASE eof = 0
        <5>1. \A i \in 1..n : d.fifo[i] # 0
          BY <1>1, <4>1, FramingByteIs
        <5>2. \A i \in 1..moved : i \in 1..n
          <6> HIDE DEF n
          <6> QED BY <1>1, <2>2
        <5> QED BY <5>1, <5>2
      <4>2. CASE eof # 0
        <5>1. \A i \in 1..(eof - 1) : d.fifo[i] # 0
          BY <1>1, <4>2, FramingByteIs
        <5>2. \A i \in 1..moved : i \in 1..(eof - 1)
          <6> HIDE DEF n, eof
          <6> QED BY <1>1, <1>3, <2>2, <2>3, <4>2
        <5> QED BY <5>1, <5>2
      <4> QED BY <4>1, <4>2
    <3> HIDE DEF head
    <3> QED BY <2>4, <3>1 DEF ZeroFreeSeq
  <2> HIDE DEF head, tail
  <2>6. ZeroFreeSeq(d.work)
    BY <1>1, NoFramingByteIn
  <2>7. work \in Seq(Octet) /\ Len(work) = w + moved /\ ZeroFreeSeq(work)
    BY <1>1, <2>4, <2>5, <2>6, ZeroFreeConcat
  <2>8. FramingByte(work) = 0
    BY <2>7, NoFramingByteIn
  <2>9. left \in Deframer
    BY <2>4, <2>7 DEF Deframer
  <2>10. left.work = work /\ left.fifo = tail /\ left.state = state
    OBVIOUS
  <2> HIDE DEF left, work
  <2>11. Len(work) <= Depth /\ Len(tail) <= Depth
    <3> HIDE DEF n, w, room
    <3> QED BY <1>1, <1>2, <2>2, <2>4, <2>7
  <2>12. left.state = "FIND_EOF" => left.fifo = << >>
    <3> SUFFICES ASSUME n <= room PROVE tail = << >>
      BY <2>10
    <3>1. Len(tail) = 0
      <4> HIDE DEF n, w, room
      <4> QED BY <1>1, <2>2, <2>4
    <3> QED BY <2>4, <3>1, EmptySeq
  <2>13. left.state = "ERROR" => Len(left.work) = Depth /\ left.fifo # << >>
    <3> SUFFICES ASSUME ~(n <= room) PROVE Len(work) = Depth /\ tail # << >>
      BY <2>10
    <3>1. Len(work) = Depth /\ Len(tail) > 0
      <4> HIDE DEF n, w, room
      <4> QED BY <1>1, <1>2, <2>2, <2>4, <2>7
    <3>2. tail # << >>
      BY <3>1, EmptySeq
    <3> QED BY <3>1, <3>2
  <2>14. DeframerOK(left)
    BY <2>8, <2>9, <2>10, <2>11, <2>12, <2>13 DEF DeframerOK
  <2>15. Return(left).deframer = left
    BY DEF Return
  <2> QED BY <2>1, <2>14, <2>15
<1> QED BY <1>4, <1>5

LEMMA FindSofOK ==
  ASSUME NEW d \in Deframer, Len(d.fifo) <= Depth
  PROVE  DeframerOK(FindSof(d).deframer)
<1> DEFINE sof == FramingByte(d.fifo)
           n == Len(d.fifo)
<1>1. d.fifo \in Seq(Octet) /\ n \in Nat /\ sof \in 0..n
  BY FramingByteIs DEF Deframer
<1>2. CASE sof = 0
  BY <1>2, FlushedOK DEF FindSof, Return
<1>3. CASE sof # 0
  <2> DEFINE tail == SubSeq(d.fifo, sof + 1, n)
             found == [state |-> "FIND_EOF", work |-> << >>, fifo |-> tail]
  <2>1. FindSof(d) = FindEof(found)
    BY <1>3 DEF FindSof
  <2>2. tail \in Seq(Octet) /\ Len(tail) = n - sof
    BY <1>1, Cut
  <2> HIDE DEF tail
  <2>3. Len(tail) <= Depth
    <3>1. n <= Depth
      OBVIOUS
    <3> HIDE DEF n, sof
    <3> QED BY <1>1, <2>2, <3>1, BufferAssumption
  <2>4. << >> \in Seq(Octet) /\ Len(<< >>) = 0 /\ ZeroFreeSeq(<< >>)
    BY EmptySeq DEF ZeroFreeSeq
  <2>5. found \in Deframer /\ found.work = << >> /\ found.fifo = tail
    BY <2>2, <2>4 DEF Deframer
  <2> HIDE DEF found
  <2>6. FramingByte(found.work) = 0 /\ Len(found.work) <= Depth
    <3>1. FramingByte(<< >>) = 0
      BY <2>4, NoFramingByteIn
    <3> QED BY <2>4, <2>5, <3>1, BufferAssumption
  <2> QED BY <2>1, <2>3, <2>5, <2>6, FindEofOK
<1> QED BY <1>2, <1>3

LEMMA DeframeOK ==
  ASSUME NEW d, DeframerOK(d), NEW chunk \in Seq(Octet)
  PROVE  DeframerOK(Deframe(d, chunk).deframer)
<1> DEFINE written == [d EXCEPT !.fifo = d.fifo \o chunk]
           fits == ~(Depth - Len(d.fifo) < Len(chunk))
<1>1. /\ d \in Deframer /\ d.fifo \in Seq(Octet) /\ FramingByte(d.work) = 0
      /\ Len(d.work) <= Depth
  BY DEF DeframerOK, Deframer
<1>2. d.fifo \o chunk \in Seq(Octet) /\ Len(d.fifo \o chunk) = Len(d.fifo) + Len(chunk)
  BY <1>1, ConcatProperties
<1>3. /\ written \in Deframer /\ written.work = d.work /\ written.fifo = d.fifo \o chunk
  BY <1>1, <1>2 DEF Deframer
<1>4. Deframe(d, chunk) =
        IF ~fits \/ d.state = "ERROR" THEN Return(Flushed)
        ELSE IF d.state = "INIT" THEN FindSof(written) ELSE FindEof(written)
  BY DEF Deframe
<1>5. CASE ~fits \/ d.state = "ERROR"
  BY <1>4, <1>5, FlushedOK DEF Return
<1>6. CASE fits
  <2>1. Len(d.fifo) + Len(chunk) <= Depth
    <3> DEFINE x == Len(d.fifo)
               y == Len(chunk)
    <3>1. x \in Nat /\ y \in Nat /\ ~(Depth - x < y) /\ Depth \in Nat
      BY <1>1, <1>6, BufferAssumption
    <3> HIDE DEF x, y
    <3>2. x + y <= Depth
      BY <3>1
    <3> QED BY <3>2 DEF x, y
  <2>2. Len(written.fifo) <= Depth
    BY <1>2, <1>3, <2>1
  <2> HIDE DEF written, fits
  <2>3. DeframerOK(FindSof(written).deframer)
    BY <1>3, <2>2, FindSofOK
  <2>4. DeframerOK(FindEof(written).deframer)
    BY <1>1, <1>3, <2>2, FindEofOK
  <2> QED BY <1>4, <2>3, <2>4, <1>6, FlushedOK DEF Return
<1> QED BY <1>5, <1>6
-----------------------------------------------------------------------------
(* The definition of COBS *)

(* A set of naturals that is not empty has a least one. *)
LEMMA LeastExists ==
  ASSUME NEW I \in SUBSET Nat, I # {}
  PROVE  \E x \in I : \A y \in I : x <= y
<1> DEFINE S == {n \in Nat : \A y \in I : n <= y}
<1>1. SUFFICES ASSUME ~ \E x \in I : \A y \in I : x <= y PROVE FALSE
  OBVIOUS
<1>2. 0 \in S
  OBVIOUS
<1>3. ASSUME NEW n \in S PROVE n + 1 \in S
  <2>1. n \notin I
    BY <1>1
  <2>2. ASSUME NEW y \in I PROVE n + 1 <= y
    BY <1>3, <2>1
  <2> QED BY <2>2
<1>4. S = Nat
  <2> HIDE DEF S
  <2>1. S \in SUBSET Nat
    BY DEF S
  <2> QED BY <1>2, <1>3, <2>1, SetInduction
<1>5. PICK y \in I : y \in Nat
  OBVIOUS
<1>6. y + 1 \in S
  <2> HIDE DEF S
  <2>1. y + 1 \in Nat
    BY <1>5
  <2> QED BY <1>4, <2>1
<1> QED BY <1>5, <1>6

(* Where a block of the definition ends: before the first zero, or where it is *)
(* as long as a code can announce.                                             *)
CutsAt(src, p, cut) ==
  /\ cut \in p..Len(src) /\ cut - p <= MaxCode - 1
  /\ \A i \in (p + 1)..cut : src[i] # 0
  /\ cut = Len(src) \/ cut - p = MaxCode - 1 \/ src[cut + 1] = 0

LEMMA CutIs ==
  ASSUME NEW src \in Seq(Octet), NEW p \in 0..Len(src)
  PROVE  CutsAt(src, p, RefCut(src, p))
<1> DEFINE n == Len(src)
           I == {i \in (p + 1)..n : src[i] = 0}
           run == IF I # {} THEN CHOOSE x \in I : \A y \in I : x <= y ELSE 0
           stop == IF run = 0 THEN n ELSE run - 1
           d == MaxCode - 1
<1>1. RefCut(src, p) = IF stop - p >= d THEN p + d ELSE stop
  <2>1. p + MaxCode - 1 = p + d
    BY MaxCodeAssumption
  <2> QED BY <2>1 DEF RefCut, SelectInSubSeq, Min
<1>2. n \in Nat /\ p \in 0..n /\ d \in Nat /\ d >= 2
  BY MaxCodeAssumption
<1>3. /\ stop \in p..n
      /\ \A i \in (p + 1)..stop : src[i] # 0
      /\ stop = n \/ src[stop + 1] = 0
  <2>1. CASE I = {}
    <3>1. run = 0 /\ stop = n
      BY <2>1
    <3>2. \A i \in (p + 1)..n : src[i] # 0
      BY <2>1
    <3> HIDE DEF run, stop, I
    <3> QED BY <1>2, <3>1, <3>2
  <2>2. CASE I # {}
    <3>1. I \in SUBSET Nat
      BY <1>2
    <3>2. \E x \in I : \A y \in I : x <= y
      <4> HIDE DEF I
      <4> QED BY <2>2, <3>1, LeastExists
    <3>3. run \in I /\ \A y \in I : run <= y
      <4> HIDE DEF I
      <4> QED BY <2>2, <3>2
    <3> HIDE DEF run
    <3>4. run \in (p + 1)..n /\ src[run] = 0
      BY <3>3
    <3>5. ASSUME NEW i \in (p + 1)..(run - 1) PROVE src[i] # 0
      <4>1. i \in (p + 1)..n /\ ~(run <= i)
        BY <1>2, <3>4
      <4> QED BY <3>3, <4>1
    <3> HIDE DEF I, n
    <3>6. stop = run - 1 /\ run - 1 \in p..n /\ run - 1 + 1 = run
      BY <1>2, <3>4
    <3> QED BY <3>4, <3>5, <3>6
  <2> QED BY <2>1, <2>2
<1> HIDE DEF stop
<1>4. CASE stop - p >= d
  <2>1. RefCut(src, p) = p + d
    BY <1>1, <1>4
  <2>2. p + d \in p..n /\ p + d - p = d
    BY <1>2, <1>3, <1>4
  <2>3. \A i \in (p + 1)..(p + d) : i \in (p + 1)..stop
    BY <1>2, <1>3, <1>4
  <2> QED BY <1>2, <1>3, <2>1, <2>2, <2>3 DEF CutsAt
<1>5. CASE ~(stop - p >= d)
  <2>1. RefCut(src, p) = stop
    BY <1>1, <1>5
  <2>2. stop - p <= d
    BY <1>2, <1>3, <1>5
  <2> QED BY <1>3, <2>1, <2>2 DEF CutsAt
<1> QED BY <1>4, <1>5

(* There is one such place. *)
LEMMA CutAt ==
  ASSUME NEW src \in Seq(Octet), NEW p \in 0..Len(src), NEW cut, CutsAt(src, p, cut)
  PROVE  RefCut(src, p) = cut
<1> DEFINE c == RefCut(src, p)
           d == MaxCode - 1
           n == Len(src)
<1>1. CutsAt(src, p, c)
  BY CutIs
<1> HIDE DEF c
<1>2. d \in Nat /\ p \in Nat /\ n \in Nat
  BY MaxCodeAssumption
<1>3. ASSUME NEW x, NEW y, CutsAt(src, p, x), CutsAt(src, p, y) PROVE ~(x < y)
  <2>1. /\ x \in p..n /\ y \in p..n /\ x - p <= d /\ y - p <= d
        /\ \A i \in (p + 1)..y : src[i] # 0
        /\ x = n \/ x - p = d \/ src[x + 1] = 0
    BY <1>3 DEF CutsAt
  <2>2. SUFFICES ASSUME x < y PROVE FALSE
    OBVIOUS
  <2> HIDE DEF d, n
  <2>3. x # n /\ x - p # d /\ x + 1 \in (p + 1)..y
    BY <1>2, <2>1, <2>2
  <2> QED BY <2>1, <2>3
<1>4. c \in Int /\ cut \in Int
  BY <1>1, <1>2 DEF CutsAt
<1>5. ~(c < cut) /\ ~(cut < c)
  BY <1>1, <1>3
<1>6. c = cut
  BY <1>4, <1>5
<1> QED BY <1>6 DEF c

(* The recursion of RefBlocks. *)
RefBlock(src, p) ==
  LET cut == RefCut(src, p) IN << cut - p + 1 >> \o SubSeq(src, p + 1, cut)

RefNext(src, later, p) ==
  LET cut == RefCut(src, p)
  IN IF cut = Len(src) THEN RefBlock(src, p)
     ELSE IF cut - p = MaxCode - 1 THEN RefBlock(src, p) \o later[cut]
     ELSE RefBlock(src, p) \o later[cut + 1]

LEMMA RefStep ==
  ASSUME NEW src \in Seq(Octet)
  PROVE  \A p \in 0..Len(src) : RefBlocks(src)[p] = RefNext(src, RefBlocks(src), p)
<1> DEFINE n == Len(src)
           Solves(g, k) == g = [p \in (n - k)..n |-> RefNext(src, g, p)]
           S == {k \in Nat : k <= n => \E g : Solves(g, k)}
<1>0. n \in Nat
  OBVIOUS
<1>1. ASSUME NEW f, NEW g, NEW p \in 0..n, \A q \in (p + 1)..n : f[q] = g[q]
      PROVE  RefNext(src, f, p) = RefNext(src, g, p)
  <2> DEFINE cut == RefCut(src, p)
  <2>1. cut \in p..n /\ (cut - p = MaxCode - 1 => cut > p)
    <3>1. cut \in p..n
      BY CutIs DEF CutsAt
    <3> HIDE DEF cut
    <3> QED BY <3>1, MaxCodeAssumption
  <2> HIDE DEF n
  <2>2. cut - p = MaxCode - 1 => f[cut] = g[cut]
    <3> HIDE DEF cut
    <3> QED BY <1>0, <1>1, <2>1
  <2>3. cut # n => f[cut + 1] = g[cut + 1]
    <3> HIDE DEF cut
    <3>1. cut # n => cut + 1 \in (p + 1)..n
      BY <1>0, <2>1
    <3> QED BY <1>1, <3>1
  <2> QED BY <2>2, <2>3 DEF RefNext, n
<1>2. 0 \in S
  <2> DEFINE g == [p \in (n - 0)..n |-> RefNext(src, << >>, p)]
  <2>1. ASSUME NEW p \in (n - 0)..n PROVE RefNext(src, << >>, p) = RefNext(src, g, p)
    <3>1. p \in 0..n /\ \A q \in (p + 1)..n : FALSE
      BY <1>0
    <3> HIDE DEF RefNext, n, g
    <3> QED BY <1>1, <3>1
  <2>2. Solves(g, 0)
    <3> HIDE DEF RefNext
    <3> QED BY <2>1
  <2> HIDE DEF Solves, g
  <2> QED BY <2>2
<1>3. ASSUME NEW k \in S PROVE k + 1 \in S
  <2>0. k \in Nat
    OBVIOUS
  <2>1. SUFFICES ASSUME k + 1 <= n PROVE \E g : Solves(g, k + 1)
    <3> HIDE DEF Solves, n
    <3> QED BY <2>0
  <2>2. PICK g : Solves(g, k)
    <3>1. k <= n
      BY <2>0, <2>1, <1>0
    <3> HIDE DEF Solves, n
    <3> QED BY <3>1
  <2> DEFINE first == n - (k + 1)
             h == [p \in first..n |-> IF p = first THEN RefNext(src, g, p) ELSE g[p]]
  <2>3. ASSUME NEW p \in first..n PROVE h[p] = RefNext(src, h, p)
    <3>1. p \in 0..n
      BY <1>0, <2>0, <2>1
    <3>2. \A q \in (p + 1)..n : h[q] = g[q]
      <4>1. \A q \in (p + 1)..n : q \in first..n /\ q # first
        BY <1>0, <2>0, <2>1
      <4> QED BY <4>1
    <3>3. RefNext(src, h, p) = RefNext(src, g, p)
      <4> HIDE DEF RefNext, h, n
      <4> QED BY <1>1, <3>1, <3>2
    <3>4. CASE p = first
      <4> HIDE DEF RefNext
      <4> QED BY <3>3, <3>4
    <3>5. CASE p # first
      <4>1. p \in (n - k)..n
        BY <1>0, <2>0, <2>1, <3>5
      <4>2. g[p] = RefNext(src, g, p)
        <5> HIDE DEF RefNext
        <5> QED BY <2>2, <4>1
      <4> HIDE DEF RefNext
      <4> QED BY <3>3, <3>5, <4>2
    <3> QED BY <3>4, <3>5
  <2>4. Solves(h, k + 1)
    <3> HIDE DEF RefNext
    <3> QED BY <2>3
  <2> HIDE DEF Solves, h
  <2> QED BY <2>0, <2>4
<1>4. S = Nat
  <2> HIDE DEF S
  <2>1. S \in SUBSET Nat
    BY DEF S
  <2> QED BY <1>2, <1>3, <2>1, SetInduction
<1> DEFINE all == RefBlocks(src)
<1>5. Solves(all, n)
  <2>1. \E g : Solves(g, n)
    <3> HIDE DEF Solves
    <3>1. n \in S
      <4> HIDE DEF S, n
      <4> QED BY <1>0, <1>4
    <3>2. n <= n
      BY <1>0
    <3> HIDE DEF n
    <3> QED BY <3>1, <3>2
  <2>2. all = CHOOSE g : g = [p \in 0..n |-> RefNext(src, g, p)]
    BY DEF RefBlocks, RefNext, RefBlock
  <2>3. n - n = 0
    BY <1>0
  <2> HIDE DEF all, RefNext, n
  <2> QED BY <2>1, <2>2, <2>3
<1>6. all = [p \in 0..n |-> RefNext(src, all, p)]
  <2>1. n - n = 0
    BY <1>0
  <2> HIDE DEF all, RefNext, n
  <2> QED BY <1>5, <2>1
<1> HIDE DEF all
<1>7. ASSUME NEW p \in 0..n PROVE all[p] = RefNext(src, all, p)
  <2> HIDE DEF RefNext, n
  <2> QED BY <1>6
<1> QED BY <1>7 DEF all

LEMMA RefBytes ==
  ASSUME NEW src \in Seq(Octet)
  PROVE  \A p \in 0..Len(src) : RefBlock(src, p) \in Seq(Octet) /\ RefBlocks(src)[p] \in Seq(Octet)
<1> DEFINE n == Len(src)
           all == RefBlocks(src)
           S == {k \in Nat : \A p \in 0..n : n - p <= k => all[p] \in Seq(Octet)}
<1>0. n \in Nat /\ MaxCode \in Nat /\ MaxCode > 2
  BY MaxCodeAssumption
<1>1. ASSUME NEW p \in 0..n PROVE RefBlock(src, p) \in Seq(Octet)
  <2> DEFINE cut == RefCut(src, p)
             data == SubSeq(src, p + 1, cut)
  <2>1. cut \in p..n /\ cut - p <= MaxCode - 1
    BY CutIs DEF CutsAt
  <2>2. data \in Seq(Octet)
    <3> HIDE DEF cut
    <3>1. \A i \in (p + 1)..cut : src[i] \in Octet
      <4>1. \A i \in (p + 1)..cut : i \in 1..n
        BY <1>0, <2>1
      <4> QED BY <4>1
    <3>2. p + 1 \in Int /\ cut \in Int
      BY <1>0, <2>1
    <3> QED BY <3>1, <3>2, SubSeqProperties
  <2>3. cut - p + 1 \in Octet
    <3> HIDE DEF cut, n
    <3>1. cut - p \in 0..(MaxCode - 1)
      BY <1>0, <2>1
    <3> QED BY <1>0, <3>1 DEF Octet
  <2>4. RefBlock(src, p) = << cut - p + 1 >> \o data
    BY DEF RefBlock
  <2> HIDE DEF cut, data
  <2> QED BY <2>2, <2>3, <2>4
<1>2. ASSUME NEW k \in Nat, \A p \in 0..n : n - p < k => all[p] \in Seq(Octet),
             NEW p \in 0..n, n - p <= k
      PROVE  all[p] \in Seq(Octet)
  <2> DEFINE cut == RefCut(src, p)
  <2>1. cut \in p..n /\ (cut - p = MaxCode - 1 => cut > p)
    <3>1. cut \in p..n
      BY CutIs DEF CutsAt
    <3> HIDE DEF cut
    <3> QED BY <3>1, <1>0
  <2>2. cut - p = MaxCode - 1 => all[cut] \in Seq(Octet)
    <3> HIDE DEF cut, all, n
    <3> QED BY <1>0, <1>2, <2>1
  <2>3. cut # n => all[cut + 1] \in Seq(Octet)
    <3> HIDE DEF cut, all, n
    <3> QED BY <1>0, <1>2, <2>1
  <2>4. all[p] = RefNext(src, all, p)
    <3> HIDE DEF RefNext
    <3> QED BY RefStep
  <2>5. RefBlock(src, p) \in Seq(Octet)
    BY <1>1
  <2>6. \A x \in Seq(Octet) : RefBlock(src, p) \o x \in Seq(Octet)
    BY <2>5
  <2> HIDE DEF all
  <2> QED BY <2>2, <2>3, <2>4, <2>5, <2>6 DEF RefNext
<1>3. 0 \in S
  <2> SUFFICES ASSUME NEW p \in 0..n, n - p <= 0 PROVE all[p] \in Seq(Octet)
    OBVIOUS
  <2>1. ~ \E q \in 0..n : n - q < 0
    BY <1>0
  <2> HIDE DEF all, n
  <2> QED BY <1>2, <2>1
<1>4. ASSUME NEW k \in S PROVE k + 1 \in S
  <2> SUFFICES ASSUME NEW p \in 0..n, n - p <= k + 1 PROVE all[p] \in Seq(Octet)
    OBVIOUS
  <2>1. k + 1 \in Nat /\ \A q \in 0..n : n - q < k + 1 => all[q] \in Seq(Octet)
    <3>1. \A q \in 0..n : n - q < k + 1 => n - q <= k
      BY <1>0
    <3> HIDE DEF all, n
    <3> QED BY <1>4, <3>1
  <2> HIDE DEF all, n
  <2> QED BY <1>2, <2>1
<1>5. S = Nat
  <2> HIDE DEF S
  <2>1. S \in SUBSET Nat
    BY DEF S
  <2> QED BY <1>3, <1>4, <2>1, SetInduction
<1>6. ASSUME NEW p \in 0..n PROVE all[p] \in Seq(Octet)
  <2>1. n \in S /\ n - p <= n
    BY <1>0, <1>5
  <2> HIDE DEF n, all
  <2> QED BY <2>1
<1> QED BY <1>1, <1>6

-----------------------------------------------------------------------------
(* Cobs_encode by the definition *)

(* What the encoder has stored of the blocks it has closed. *)
ClosedPart(s) == [i \in 1..s.code |-> s.out[i - 1]]

(* After n iterations the closed blocks are those of the definition, and what  *)
(* is in the open one has no zero.                                             *)
RefInv(src, n, s) ==
  /\ \A k \in 1..s.count : src[n - s.count + k] # 0
  /\ ClosedPart(s) \in Seq(Octet)
  /\ RefBlocks(src)[0] = ClosedPart(s) \o RefBlocks(src)[n - s.count]

LEMMA Beside ==
  ASSUME NEW head \in Seq(Octet), NEW m \in Seq(Octet)
  PROVE  /\ head \o m \in Seq(Octet) /\ Len(head \o m) = Len(head) + Len(m)
         /\ \A i \in 1..Len(head) : (head \o m)[i] = head[i]
         /\ \A i \in 1..Len(m) : (head \o m)[Len(head) + i] = m[i]
<1> DEFINE both == head \o m
           h == Len(head)
           n == Len(m)
<1>1. /\ both \in Seq(Octet) /\ Len(both) = h + n /\ h \in Nat /\ n \in Nat
      /\ \A i \in 1..(h + n) : both[i] = IF i <= h THEN head[i] ELSE m[i - h]
  BY ConcatProperties
<1> HIDE DEF both, h, n
<1>2. ASSUME NEW i \in 1..h PROVE both[i] = head[i]
  <2>1. i \in 1..(h + n) /\ i <= h
    BY <1>1
  <2> QED BY <1>1, <2>1
<1>3. ASSUME NEW i \in 1..n PROVE both[h + i] = m[i]
  <2>1. h + i \in 1..(h + n) /\ ~(h + i <= h) /\ (h + i) - h = i
    BY <1>1
  <2> QED BY <1>1, <2>1
<1> QED BY <1>1, <1>2, <1>3 DEF both, h, n

(* The blocks that were closed before, and one more. *)
LEMMA ClosedIs ==
  ASSUME NEW src \in Seq(Octet), NEW n \in 0..Len(src), NEW s, LoopInv(src, n, s),
         ClosedPart(s) \in Seq(Octet),
         NEW enc \in Seq(Octet), Len(enc) = s.code + s.count + 1,
         \A i \in 0..(Len(enc) - 1) : enc[i + 1] = IF i = s.code THEN s.count + 1 ELSE s.out[i]
  PROVE  enc = ClosedPart(s) \o (<< s.count + 1 >> \o SubSeq(src, n - s.count + 1, n))
<1> DEFINE code == s.code
           count == s.count
           data == SubSeq(src, n - count + 1, n)
           block == << count + 1 >> \o data
<1>0. n \in Nat /\ Len(src) \in Nat
  OBVIOUS
<1>1. /\ code \in Nat /\ count \in 0..n /\ count \in Nat /\ count < MaxCode
      /\ s.out \in [Room(src) -> Octet]
  BY <1>0, StateNumbers
<1>2. \A k \in 1..count : s.out[code + k] = src[n - count + k]
  BY DEF LoopInv, Opened
<1>3. ClosedPart(s) \in Seq(Octet) /\ Len(ClosedPart(s)) = code /\ \A i \in 1..code : ClosedPart(s)[i] = s.out[i - 1]
  BY <1>1 DEF ClosedPart
<1> HIDE DEF code, count
<1>4. count + 1 \in Octet
  BY <1>1, MaxCodeAssumption DEF Octet
<1>5. /\ data \in Seq(Octet) /\ Len(data) = count
      /\ \A i \in 1..count : data[i] = src[n - count + i]
  <2> DEFINE m == n - count + 1
  <2>1. \A i \in m..n : src[i] \in Octet
    <3>1. \A i \in m..n : i \in 1..Len(src)
      BY <1>0, <1>1
    <3> QED BY <3>1
  <2>2. m \in Int /\ n \in Int /\ n - m + 1 = count /\ (m <= n <=> count > 0)
    BY <1>0, <1>1
  <2>3. \A i \in 1..count : m + i - 1 = n - count + i
    BY <1>0, <1>1
  <2> HIDE DEF m
  <2>4. /\ SubSeq(src, m, n) \in Seq(Octet)
        /\ Len(SubSeq(src, m, n)) = IF m <= n THEN n - m + 1 ELSE 0
        /\ \A i \in 1..(n - m + 1) : SubSeq(src, m, n)[i] = src[m + i - 1]
    BY <2>1, <2>2, SubSeqProperties
  <2>5. Len(SubSeq(src, m, n)) = count
    BY <1>1, <2>2, <2>4
  <2> QED BY <2>2, <2>3, <2>4, <2>5 DEF m
<1> HIDE DEF data
<1>6. /\ block \in Seq(Octet) /\ Len(block) = count + 1 /\ block[1] = count + 1
      /\ \A i \in 1..count : block[i + 1] = data[i]
  BY <1>1, <1>4, <1>5
<1> HIDE DEF block
<1> DEFINE both == ClosedPart(s) \o block
<1>7. /\ both \in Seq(Octet) /\ Len(both) = code + count + 1
      /\ \A i \in 1..code : both[i] = s.out[i - 1]
      /\ \A i \in 1..(count + 1) : both[code + i] = block[i]
  <2> DEFINE closed == ClosedPart(s)
  <2>1. closed \in Seq(Octet) /\ Len(closed) = code /\ \A i \in 1..code : closed[i] = s.out[i - 1]
    BY <1>3
  <2> HIDE DEF closed
  <2>2. /\ closed \o block \in Seq(Octet) /\ Len(closed \o block) = code + (count + 1)
        /\ \A i \in 1..code : (closed \o block)[i] = closed[i]
        /\ \A i \in 1..(count + 1) : (closed \o block)[code + i] = block[i]
    <3> DEFINE joint == closed \o block
    <3>1. closed \in Seq(Octet) /\ block \in Seq(Octet) /\ Len(closed) = code /\ Len(block) = count + 1
      BY <1>6, <2>1
    <3>2. /\ joint \in Seq(Octet) /\ Len(joint) = Len(closed) + Len(block)
          /\ \A i \in 1..Len(closed) : joint[i] = closed[i]
          /\ \A i \in 1..Len(block) : joint[Len(closed) + i] = block[i]
      BY <3>1, Beside
    <3> HIDE DEF joint
    <3>3. /\ joint \in Seq(Octet) /\ Len(joint) = code + (count + 1)
          /\ \A i \in 1..code : joint[i] = closed[i]
          /\ \A i \in 1..(count + 1) : joint[code + i] = block[i]
      BY <3>1, <3>2
    <3> QED BY <3>3 DEF joint
  <2>3. code + (count + 1) = code + count + 1
    BY <1>1
  <2> DEFINE joint == closed \o block
  <2>4. /\ joint \in Seq(Octet) /\ Len(joint) = code + count + 1
        /\ \A i \in 1..code : joint[i] = s.out[i - 1]
        /\ \A i \in 1..(count + 1) : joint[code + i] = block[i]
    <3> HIDE DEF joint
    <3>1. /\ joint \in Seq(Octet) /\ Len(joint) = code + (count + 1)
          /\ \A i \in 1..code : joint[i] = closed[i]
          /\ \A i \in 1..(count + 1) : joint[code + i] = block[i]
      BY <2>2 DEF joint
    <3> QED BY <2>1, <2>3, <3>1
  <2> QED BY <2>4 DEF joint, closed
<1> HIDE DEF both
<1>8. Len(enc) = code + count + 1
  BY DEF code, count
<1>9. ASSUME NEW i \in 1..(code + count + 1) PROVE enc[i] = both[i]
  <2>0. i - 1 \in 0..(Len(enc) - 1) /\ (i - 1) + 1 = i
    BY <1>1, <1>8
  <2>1. enc[i] = IF i - 1 = code THEN count + 1 ELSE s.out[i - 1]
    BY <2>0 DEF code, count
  <2>2. CASE i <= code
    <3>1. i \in 1..code /\ i - 1 # code
      BY <1>1, <2>2
    <3> QED BY <1>7, <2>1, <3>1
  <2>3. CASE i = code + 1
    <3>1. i - 1 = code /\ 1 \in 1..(count + 1) /\ both[code + 1] = block[1]
      BY <1>1, <1>7, <2>3
    <3> QED BY <1>6, <2>1, <2>3, <3>1
  <2>4. CASE i > code + 1
    <3>1. PICK k \in 1..count : i = code + (k + 1)
      <4>1. i - code - 1 \in 1..count /\ i = code + ((i - code - 1) + 1)
        BY <1>1, <2>4
      <4> QED BY <4>1
    <3>2. k + 1 \in 1..(count + 1) /\ i - 1 = code + k /\ i - 1 # code
      BY <1>1, <3>1
    <3>3. both[i] = block[k + 1] /\ block[k + 1] = data[k] /\ data[k] = src[n - count + k]
      BY <1>5, <1>6, <1>7, <3>1, <3>2
    <3>4. s.out[code + k] = src[n - count + k]
      BY <1>2, <3>1
    <3> QED BY <2>1, <3>2, <3>3, <3>4
  <2> QED BY <1>1, <2>2, <2>3, <2>4
<1>10. enc = both
  BY <1>7, <1>8, <1>9
<1> QED BY <1>10 DEF both, block, data, code, count

LEMMA RefStepInv ==
  ASSUME NEW src \in Seq(Octet), ~FullBlockThenZero(src), NEW max, Enough(src, max),
         NEW n \in 0..(Len(src) - 1), NEW s, LoopInv(src, n, s), RefInv(src, n, s)
  PROVE  RefInv(src, n + 1, EncodeByte(s, src[n + 1], max))
<1> DEFINE t == EncodeByte(s, src[n + 1], max)
           byte == src[n + 1]
           count == s.count
           p == n - s.count
           data == SubSeq(src, p + 1, n)
<1>0. n \in Nat /\ n \in 0..Len(src) /\ n + 1 \in 1..Len(src) /\ Len(src) \in Nat
      /\ MaxCode \in Nat /\ MaxCode > 2
  BY MaxCodeAssumption
<1>1. /\ s.code + s.count + 2 \in Room(src)
      /\ s.code + s.count + 1 # max
      /\ s.count = MaxCode - 1 => s.code + s.count + 2 # max
  BY RoomLeft
<1>2. s \in EncoderState(src) /\ ~s.failed /\ byte \in Octet
  BY <1>0 DEF LoopInv
<1>3. /\ t \in EncoderState(src) /\ ~t.failed
      /\ Joins(s, byte, t) \/ Ends(s, byte, t) \/ Begins(s, byte, t)
  BY <1>1, <1>2, EncodeByteFields
<1> HIDE DEF t
<1>4. /\ s.code \in Nat /\ count \in 0..n /\ count \in Nat /\ count < MaxCode
      /\ s.out \in [Room(src) -> Octet]
  BY <1>0, StateNumbers
<1>5. /\ \A k \in 1..count : src[p + k] # 0
      /\ ClosedPart(s) \in Seq(Octet) /\ RefBlocks(src)[0] = ClosedPart(s) \o RefBlocks(src)[p]
  BY DEF RefInv
<1>6. p \in 0..n /\ p \in 0..Len(src) /\ n - p = count
  BY <1>0, <1>4
<1>7. \A i \in (p + 1)..n : src[i] # 0
  <2> HIDE DEF p, count
  <2> SUFFICES ASSUME NEW i \in (p + 1)..n PROVE src[i] # 0
    OBVIOUS
  <2>1. i - p \in 1..count /\ p + (i - p) = i
    BY <1>0, <1>6
  <2> QED BY <1>5, <2>1
\* The open block is closed with n: it is one of the definition's.
<1>8. ASSUME count = MaxCode - 1 \/ byte = 0, t.code = s.code + s.count + 1,
             \A i \in 0..(t.code - 1) : t.out[i] = IF i = s.code THEN s.count + 1 ELSE s.out[i],
             NEW q, q = IF count = MaxCode - 1 THEN n ELSE n + 1
      PROVE  /\ ClosedPart(t) \in Seq(Octet)
             /\ RefBlocks(src)[0] = ClosedPart(t) \o RefBlocks(src)[q]
  <2> DEFINE block == << count + 1 >> \o data
  <2>1. ClosedPart(t) \in Seq(Octet) /\ ClosedPart(t) = ClosedPart(s) \o block
    <3> DEFINE enc == ClosedPart(t)
               next == s.code + s.count + 1
    <3>1. next \in Nat /\ t.code = next /\ t.out \in [Room(src) -> Octet]
      BY <1>3, <1>4, <1>8 DEF EncoderState
    <3>2. \A i \in 1..next : i - 1 \in Room(src) /\ i - 1 \in 0..(next - 1)
      BY <1>1, <1>4 DEF Room
    <3> HIDE DEF next
    <3>3. \A i \in 1..next : t.out[i - 1] \in Octet
      BY <3>1, <3>2
    <3>4. enc = [i \in 1..next |-> t.out[i - 1]]
      BY <3>1 DEF ClosedPart
    <3> HIDE DEF enc
    <3>7. enc \in Seq(Octet) /\ Len(enc) = next /\ \A i \in 1..next : enc[i] = t.out[i - 1]
      BY <3>1, <3>3, <3>4
    <3>5. ASSUME NEW i \in 0..(next - 1)
          PROVE  enc[i + 1] = IF i = s.code THEN s.count + 1 ELSE s.out[i]
      <4>1. i + 1 \in 1..next /\ (i + 1) - 1 = i
        BY <3>1
      <4>2. enc[i + 1] = t.out[i]
        BY <3>7, <4>1
      <4> QED BY <1>8, <3>1, <4>2
    <3>6. enc = ClosedPart(s) \o block
      <4>1. LoopInv(src, n, s) /\ ClosedPart(s) \in Seq(Octet) /\ n \in 0..Len(src)
        BY <1>0, <1>5
      <4>2. Len(enc) = s.code + s.count + 1
        BY <3>7 DEF next
      <4>3. \A i \in 0..(Len(enc) - 1) :
              enc[i + 1] = IF i = s.code THEN s.count + 1 ELSE s.out[i]
        BY <3>5, <3>7
      <4>4. enc \in Seq(Octet)
        BY <3>7
      <4>5. enc = ClosedPart(s) \o (<< s.count + 1 >> \o SubSeq(src, n - s.count + 1, n))
        <5> HIDE DEF p, count, block, data, enc
        <5> QED BY ONLY <4>1, <4>2, <4>3, <4>4, ClosedIs, src \in Seq(Octet)
      <4> QED BY <4>5
    <3> QED BY <3>6, <3>7 DEF enc
  <2>2. RefCut(src, p) = n
    <3> HIDE DEF p, count
    <3>1. CutsAt(src, p, n)
      BY <1>0, <1>4, <1>6, <1>7, <1>8 DEF CutsAt
    <3> QED BY <1>6, <3>1, CutAt
  <2>3. RefBlock(src, p) = block /\ block \in Seq(Octet)
    <3>1. RefBlock(src, p) = << n - p + 1 >> \o data
      BY <2>2 DEF RefBlock
    <3>2. RefBlock(src, p) \in Seq(Octet)
      <4> HIDE DEF p
      <4> QED BY <1>6, RefBytes
    <3> HIDE DEF p, data, count
    <3> QED BY <1>6, <3>1, <3>2
  <2>4. RefBlocks(src)[p] = block \o RefBlocks(src)[q]
    <3> HIDE DEF p, block, count
    <3>1. RefBlocks(src)[p] = RefNext(src, RefBlocks(src), p)
      BY <1>6, RefStep
    <3>2. n # Len(src)
      BY <1>0
    <3>3. n - p = MaxCode - 1 <=> count = MaxCode - 1
      BY <1>6
    <3> QED BY <1>8, <2>2, <2>3, <3>1, <3>2, <3>3 DEF RefNext
  <2>5. RefBlocks(src)[q] \in Seq(Octet)
    <3>1. q \in 0..Len(src)
      BY <1>0, <1>8
    <3> QED BY <3>1, RefBytes
  <2> DEFINE rest == RefBlocks(src)[q]
             closed == ClosedPart(s)
  <2>6. (closed \o block) \o rest = closed \o (block \o rest)
    <3>1. closed \in Seq(Octet) /\ block \in Seq(Octet) /\ rest \in Seq(Octet)
      BY <1>5, <2>3, <2>5
    <3> HIDE DEF closed, block, rest
    <3> QED BY <3>1, Associates
  <2> HIDE DEF block
  <2> QED BY <1>5, <2>1, <2>4, <2>6
<1>9. CASE Joins(s, byte, t)
  <2>1. t.code = s.code /\ t.count = count + 1 /\ byte # 0
        /\ t.out = [s.out EXCEPT ![s.code + s.count + 1] = byte]
    BY <1>9 DEF Joins
  <2> HIDE DEF p, count
  <2>2. (n + 1) - t.count = p
    BY <1>0, <1>4, <1>6, <2>1
  <2>3. \A k \in 1..t.count : src[p + k] # 0
    <3> SUFFICES ASSUME NEW k \in 1..t.count PROVE src[p + k] # 0
      OBVIOUS
    <3>1. k \in 1..count \/ (k = count + 1 /\ p + k = n + 1)
      BY <1>0, <1>4, <1>6, <2>1
    <3> QED BY <1>5, <2>1, <3>1
  <2>4. ClosedPart(t) = ClosedPart(s)
    <3>1. \A i \in 1..s.code : t.out[i - 1] = s.out[i - 1]
      <4>1. \A i \in 1..s.code : i - 1 \in Room(src) /\ i - 1 # s.code + s.count + 1
        BY <1>1, <1>4 DEF Room, count
      <4> QED BY <1>4, <2>1, <4>1
    <3> QED BY <2>1, <3>1 DEF ClosedPart
  <2>5. /\ \A k \in 1..t.count : src[(n + 1) - t.count + k] # 0
        /\ RefBlocks(src)[0] = ClosedPart(t) \o RefBlocks(src)[(n + 1) - t.count]
    BY <1>5, <2>2, <2>3, <2>4
  <2>9. RefInv(src, n + 1, t)
    BY <1>5, <2>4, <2>5 DEF RefInv
  <2> QED BY <2>9 DEF t
<1>10. CASE Ends(s, byte, t)
  <2>1. t.code = s.code + s.count + 1 /\ t.count = 0 /\ byte = 0 /\ s.count + 1 < MaxCode
        /\ t.out = [s.out EXCEPT ![s.code] = s.count + 1]
    BY <1>10 DEF Ends
  <2>2. \A i \in 0..(t.code - 1) : t.out[i] = IF i = s.code THEN s.count + 1 ELSE s.out[i]
    <3>1. \A i \in 0..(t.code - 1) : i \in Room(src)
      BY <1>1, <1>4, <2>1 DEF Room
    <3> QED BY <1>4, <2>1, <3>1
  <2>3. n + 1 = IF count = MaxCode - 1 THEN n ELSE n + 1
    BY <1>0, <1>4, <2>1
  <2>4. /\ ClosedPart(t) \in Seq(Octet)
        /\ RefBlocks(src)[0] = ClosedPart(t) \o RefBlocks(src)[n + 1]
    BY <1>8, <2>1, <2>2, <2>3
  <2>5. (n + 1) - t.count = n + 1 /\ 1..t.count = {}
    BY <1>0, <2>1
  <2> HIDE DEF p, count
  <2>6. /\ \A k \in 1..t.count : src[(n + 1) - t.count + k] # 0
        /\ RefBlocks(src)[0] = ClosedPart(t) \o RefBlocks(src)[(n + 1) - t.count]
    BY <2>4, <2>5
  <2>9. RefInv(src, n + 1, t)
    BY <2>4, <2>6 DEF RefInv
  <2> QED BY <2>9 DEF t
<1>11. CASE Begins(s, byte, t)
  <2>1. t.code = s.code + s.count + 1 /\ t.count = 1 /\ s.count + 1 = MaxCode
        /\ t.out = [[s.out EXCEPT ![s.code] = s.count + 1] EXCEPT ![s.code + s.count + 1 + 1] = byte]
    BY <1>11 DEF Begins
  <2>2. \A i \in 0..(t.code - 1) : t.out[i] = IF i = s.code THEN s.count + 1 ELSE s.out[i]
    <3> DEFINE next == s.code + s.count + 1
    <3>1. s.code \in Nat /\ next \in Nat /\ next + 1 \in Room(src) /\ s.code \in Room(src) /\ t.code = next
      <4> DEFINE a == s.code
                 b == s.count
      <4>1. a \in Nat /\ b \in Nat /\ a + b + 2 \in Room(src) /\ t.code = a + b + 1
        BY <1>1, <1>4, <2>1
      <4> HIDE DEF a, b, p, count, byte, data
      <4>2. a + b + 2 \in 0..(2 * Len(src) + 1)
        BY <4>1 DEF Room
      <4>3. a + b + 1 \in Nat /\ (a + b + 1) + 1 = a + b + 2 /\ a \in 0..(2 * Len(src) + 1)
        <5> DEFINE most == 2 * Len(src) + 1
        <5>1. most \in Nat
          BY <1>0
        <5> HIDE DEF most
        <5>2. a + b + 2 \in 0..most
          BY <4>2 DEF most
        <5>3. a + b + 1 \in Nat /\ (a + b + 1) + 1 = a + b + 2 /\ a \in 0..most
          BY <4>1, <5>1, <5>2
        <5> QED BY <5>3 DEF most
      <4>4. a \in Room(src) /\ (a + b + 1) + 1 \in Room(src)
        BY <4>1, <4>3 DEF Room
      <4> QED BY <4>1, <4>3, <4>4 DEF a, b
    <3>2. \A i \in 0..(next - 1) : i \in Room(src) /\ i # next + 1
      <4> HIDE DEF next
      <4> QED BY <3>1 DEF Room
    <3>3. t.out = [[s.out EXCEPT ![s.code] = s.count + 1] EXCEPT ![next + 1] = byte]
      BY <2>1
    <3> HIDE DEF next, byte
    <3> QED BY <1>4, <3>1, <3>2, <3>3
  <2>3. count = MaxCode - 1 /\ n = IF count = MaxCode - 1 THEN n ELSE n + 1
    BY <1>0, <1>4, <2>1
  <2>4. /\ ClosedPart(t) \in Seq(Octet)
        /\ RefBlocks(src)[0] = ClosedPart(t) \o RefBlocks(src)[n]
    BY <1>8, <2>1, <2>2, <2>3
  <2>5. (n + 1) - t.count = n /\ (\A k \in 1..t.count : n + k = n + 1)
    BY <1>0, <2>1
  <2>6. byte # 0
    <3> SUFFICES ASSUME byte = 0 PROVE FullBlockThenZero(src)
      OBVIOUS
    <3> DEFINE i == n + 1
    <3>1. i \in 1..Len(src) /\ src[i] = 0 /\ i >= MaxCode
      BY <1>0, <1>4, <2>3
    <3>2. \A j \in (i - MaxCode + 1)..(i - 1) : src[j] # 0
      <4>1. i - MaxCode + 1 = p + 1 /\ i - 1 = n
        BY <1>0, <1>4, <2>3
      <4> HIDE DEF p, i
      <4> QED BY <1>7, <4>1
    <3> HIDE DEF i
    <3> QED BY <3>1, <3>2 DEF FullBlockThenZero
  <2>7. /\ \A k \in 1..t.count : src[(n + 1) - t.count + k] # 0
        /\ RefBlocks(src)[0] = ClosedPart(t) \o RefBlocks(src)[(n + 1) - t.count]
    BY <2>4, <2>5, <2>6
  <2>9. RefInv(src, n + 1, t)
    BY <2>4, <2>7 DEF RefInv
  <2> QED BY <2>9 DEF t
<1> QED BY <1>3, <1>9, <1>10, <1>11 DEF t

LEMMA RefHolds ==
  ASSUME NEW src \in Seq(Octet), ~FullBlockThenZero(src), NEW max, Enough(src, max)
  PROVE  RefInv(src, Len(src), EncodeLoop(src, max)[Len(src)])
<1> DEFINE loop == EncodeLoop(src, max)
           S == {n \in Nat : n <= Len(src) => LoopInv(src, n, loop[n]) /\ RefInv(src, n, loop[n])}
<1>0. Len(src) \in Nat
  OBVIOUS
<1>1. 0 \in S
  <2>1. LoopInv(src, 0, loop[0]) /\ loop[0] = EncodeStart(src)
    BY LoopSteps, StartInv
  <2> DEFINE s == loop[0]
  <2>2. s.code = 0 /\ s.count = 0
    BY <2>1 DEF EncodeStart
  <2> HIDE DEF s
  <2>3. ClosedPart(s) = << >> /\ << >> \in Seq(Octet)
    BY <2>2 DEF ClosedPart
  <2>4. RefBlocks(src)[0] \in Seq(Octet)
    BY <1>0, RefBytes
  <2> DEFINE all == RefBlocks(src)
  <2>5. all[0] = << >> \o all[0 - s.count] /\ 1..s.count = {}
    <3> HIDE DEF all
    <3>1. 0 - s.count = 0
      BY <2>2
    <3> QED BY <2>2, <2>4, <3>1 DEF all
  <2>6. RefInv(src, 0, s)
    BY <2>3, <2>5 DEF RefInv
  <2> QED BY <2>1, <2>6 DEF s
<1>2. ASSUME NEW n \in S PROVE n + 1 \in S
  <2>1. SUFFICES ASSUME n + 1 <= Len(src)
                 PROVE LoopInv(src, n + 1, loop[n + 1]) /\ RefInv(src, n + 1, loop[n + 1])
    OBVIOUS
  <2>2. n \in 0..(Len(src) - 1)
    BY <1>0, <1>2, <2>1
  <2>3. LoopInv(src, n, loop[n]) /\ RefInv(src, n, loop[n])
    BY <1>0, <2>2
  <2>4. loop[n + 1] = EncodeByte(loop[n], src[n + 1], max)
    BY <2>2, LoopSteps
  <2> HIDE DEF loop
  <2> QED BY <2>2, <2>3, <2>4, StepInv, RefStepInv
<1>3. S = Nat
  <2> HIDE DEF S
  <2>1. S \in SUBSET Nat
    BY DEF S
  <2> QED BY <1>1, <1>2, <2>1, SetInduction
<1>4. Len(src) \in S /\ Len(src) <= Len(src)
  BY <1>0, <1>3
<1> QED BY <1>4

(* Cobs_encode cuts a message into the blocks that the definition of COBS      *)
(* names, for messages and blocks of any length, but where a zero follows a    *)
(* maximal block.                                                              *)
THEOREM EncodesByDefinition ==
  ASSUME NEW src \in Seq(Octet), ~FullBlockThenZero(src)
  PROVE  Encoded(src) = RefEncode(src)
<1> DEFINE max == Ample(src)
           L == Len(src)
           s == EncodeLoop(src, max)[L]
           p == L - s.count
           enc == Encoded(src)
           block == << s.count + 1 >> \o SubSeq(src, p + 1, L)
<1>0. L \in Nat /\ L \in 0..L
  OBVIOUS
<1>1. Enough(src, max)
  BY AmpleEnough
<1>2. LoopInv(src, L, s) /\ RefInv(src, L, s)
  BY <1>1, LoopHolds, RefHolds
<1>3. enc \in Seq(Octet) /\ Len(enc) = s.code + s.count + 1
      /\ \A i \in 0..(Len(enc) - 1) : enc[i + 1] = IF i = s.code THEN s.count + 1 ELSE s.out[i]
  <2>1. PICK e : enc = Contents(e) /\ Outcome(src, max, e)
    BY AmpleOutcome
  <2> HIDE DEF enc, max
  <2>2. enc \in Seq(Octet) /\ Len(enc) = e.len /\ Shape(src, max, e)
    BY <2>1 DEF Outcome
  <2>3. e.len = s.code + s.count + 1
        /\ \A i \in 0..(e.len - 1) :
             Contents(e)[i + 1] = IF i = s.code THEN s.count + 1 ELSE s.out[i]
    BY <2>2 DEF Shape
  <2> HIDE DEF s
  <2> QED BY <2>1, <2>2, <2>3
<1> HIDE DEF s, enc
<1>4. enc = ClosedPart(s) \o block
  <2>1. ClosedPart(s) \in Seq(Octet)
    BY <1>2 DEF RefInv
  <2> QED BY <1>0, <1>2, <1>3, <2>1, ClosedIs
<1>5. s.count \in 0..L /\ s.count < MaxCode /\ s.count \in Nat
  BY <1>0, <1>2, StateNumbers
<1>6. p \in 0..L /\ L - p = s.count
  BY <1>0, <1>5
<1>7. \A k \in 1..s.count : src[p + k] # 0
  BY <1>2 DEF RefInv
<1>8. RefBlocks(src)[0] = ClosedPart(s) \o RefBlocks(src)[p]
  BY <1>2 DEF RefInv
<1> HIDE DEF p
<1>9. RefCut(src, p) = L
  <2>1. \A i \in (p + 1)..L : src[i] # 0
    <3> SUFFICES ASSUME NEW i \in (p + 1)..L PROVE src[i] # 0
      OBVIOUS
    <3>1. i - p \in 1..s.count /\ p + (i - p) = i
      BY <1>0, <1>6
    <3> QED BY <1>7, <3>1
  <2>2. s.count <= MaxCode - 1
    BY <1>5, MaxCodeAssumption
  <2>3. CutsAt(src, p, L)
    BY <1>0, <1>6, <2>1, <2>2 DEF CutsAt
  <2> QED BY <1>6, <2>3, CutAt
<1>10. RefBlocks(src)[p] = block
  <2>1. RefBlocks(src)[p] = RefNext(src, RefBlocks(src), p)
    BY <1>6, RefStep
  <2> QED BY <1>6, <1>9, <2>1 DEF RefNext, RefBlock
<1> HIDE DEF block
<1> QED BY <1>4, <1>8, <1>10 DEF RefEncode, enc

-----------------------------------------------------------------------------
(* What Cobs_decode accepts *)

LEMMA SubSeqIs ==
  ASSUME NEW src \in Seq(Octet), NEW p \in 0..Len(src), NEW q \in p..Len(src)
  PROVE  /\ SubSeq(src, p + 1, q) \in Seq(Octet)
         /\ Len(SubSeq(src, p + 1, q)) = q - p
         /\ \A k \in 1..(q - p) : SubSeq(src, p + 1, q)[k] = src[p + k]
<1> DEFINE m == p + 1
<1>1. p \in Nat /\ q \in Int /\ m \in Int /\ p <= q /\ Len(src) \in Nat
  OBVIOUS
<1>2. \A i \in m..q : src[i] \in Octet
  <2>1. \A i \in m..q : i \in 1..Len(src)
    BY <1>1
  <2> QED BY <2>1
<1>3. /\ (IF m <= q THEN (q - m) + 1 ELSE 0) = q - p /\ (q - m) + 1 = q - p
      /\ \A k \in 1..(q - p) : (m + k) - 1 = p + k
  BY <1>1
<1> HIDE DEF m
<1>4. /\ SubSeq(src, m, q) \in Seq(Octet)
      /\ Len(SubSeq(src, m, q)) = IF m <= q THEN (q - m) + 1 ELSE 0
      /\ \A i \in 1..((q - m) + 1) : SubSeq(src, m, q)[i] = src[(m + i) - 1]
  BY <1>1, <1>2, SubSeqProperties
<1>5. /\ SubSeq(src, m, q) \in Seq(Octet) /\ Len(SubSeq(src, m, q)) = q - p
      /\ \A k \in 1..(q - p) : SubSeq(src, m, q)[k] = src[p + k]
  BY <1>3, <1>4
<1> QED BY <1>5 DEF m

(* The head of a sequence is its first bytes. *)
LEMMA HeadIs ==
  ASSUME NEW head \in Seq(Octet), NEW m \in Seq(Octet)
  PROVE  SubSeq(head \o m, 1, Len(head)) = head
<1> DEFINE both == head \o m
           h == Len(head)
           first == SubSeq(both, 0 + 1, h)
<1>1. /\ both \in Seq(Octet) /\ Len(both) = h + Len(m) /\ h \in Nat /\ Len(m) \in Nat
      /\ \A i \in 1..h : both[i] = head[i]
  BY Beside
<1> HIDE DEF both, h
<1>2. 0 \in 0..Len(both) /\ h \in 0..Len(both) /\ h - 0 = h /\ \A k \in 1..h : 0 + k = k
  BY <1>1
<1>3. first \in Seq(Octet) /\ Len(first) = h /\ \A k \in 1..h : first[k] = both[k]
  BY <1>1, <1>2, SubSeqIs
<1> HIDE DEF first
<1>4. first = head
  BY <1>1, <1>3, SameSeq DEF h
<1>5. 0 + 1 = 1
  OBVIOUS
<1> QED BY <1>4, <1>5 DEF first, both, h

(* The blocks of the definition depend on what follows alone. *)
LEMMA CutMoves ==
  ASSUME NEW head \in Seq(Octet), NEW m \in Seq(Octet), NEW i \in 0..Len(m)
  PROVE  /\ RefCut(head \o m, Len(head) + i) = Len(head) + RefCut(m, i)
         /\ RefBlock(head \o m, Len(head) + i) = RefBlock(m, i)
<1> DEFINE both == head \o m
           h == Len(head)
           n == Len(m)
           cut == RefCut(m, i)
           here == SubSeq(both, (h + i) + 1, h + cut)
           there == SubSeq(m, i + 1, cut)
<1>1. /\ both \in Seq(Octet) /\ Len(both) = h + n /\ h \in Nat /\ n \in Nat
      /\ \A k \in 1..n : both[h + k] = m[k]
  BY Beside
<1>2. CutsAt(m, i, cut)
  BY CutIs
<1>3. /\ cut \in i..n /\ cut - i <= MaxCode - 1 /\ \A k \in (i + 1)..cut : m[k] # 0
      /\ cut = n \/ cut - i = MaxCode - 1 \/ m[cut + 1] = 0
  BY <1>2 DEF CutsAt
<1> HIDE DEF both, h, cut
<1>4. /\ h + i \in 0..Len(both) /\ h + cut \in (h + i)..Len(both) /\ (h + cut) - (h + i) = cut - i
      /\ i \in 0..n /\ cut \in Nat
  BY <1>1, <1>3
<1>5. CutsAt(both, h + i, h + cut)
  <2>1. ASSUME NEW k \in ((h + i) + 1)..(h + cut) PROVE both[k] # 0
    <3>1. k - h \in (i + 1)..cut /\ k - h \in 1..n /\ h + (k - h) = k
      BY <1>1, <1>3, <1>4
    <3> QED BY <1>1, <1>3, <3>1
  <2>2. h + cut = Len(both) \/ (h + cut) - (h + i) = MaxCode - 1 \/ both[(h + cut) + 1] = 0
    <3>1. CASE cut = n
      BY <1>1, <3>1
    <3>2. CASE cut - i = MaxCode - 1
      BY <1>4, <3>2
    <3>3. CASE m[cut + 1] = 0 /\ cut # n
      <4>1. cut + 1 \in 1..n /\ h + (cut + 1) = (h + cut) + 1
        BY <1>1, <1>3, <1>4, <3>3
      <4> QED BY <1>1, <3>3, <4>1
    <3> QED BY <1>3, <3>1, <3>2, <3>3
  <2> QED BY <1>3, <1>4, <2>1, <2>2 DEF CutsAt
<1>6. RefCut(both, h + i) = h + cut
  BY <1>1, <1>4, <1>5, CutAt
<1>7. here \in Seq(Octet) /\ Len(here) = cut - i /\ \A k \in 1..(cut - i) : here[k] = both[(h + i) + k]
  <2> DEFINE p == h + i
             q == h + cut
  <2>1. p \in 0..Len(both) /\ q \in p..Len(both) /\ q - p = cut - i
    BY <1>4
  <2> HIDE DEF p, q
  <2>2. /\ SubSeq(both, p + 1, q) \in Seq(Octet) /\ Len(SubSeq(both, p + 1, q)) = q - p
        /\ \A k \in 1..(q - p) : SubSeq(both, p + 1, q)[k] = both[p + k]
    BY <1>1, <2>1, SubSeqIs
  <2> QED BY <2>1, <2>2 DEF p, q
<1>8. there \in Seq(Octet) /\ Len(there) = cut - i /\ \A k \in 1..(cut - i) : there[k] = m[i + k]
  BY <1>3, <1>4, SubSeqIs
<1> HIDE DEF here, there
<1>9. here = there
  <2>1. ASSUME NEW k \in 1..(cut - i) PROVE here[k] = there[k]
    <3>1. i + k \in 1..n /\ h + (i + k) = (h + i) + k
      BY <1>1, <1>3, <1>4
    <3> QED BY <1>1, <1>7, <1>8, <3>1
  <2> QED BY <1>7, <1>8, <2>1, SameSeq
<1>10. RefBlock(both, h + i) = << (h + cut) - (h + i) + 1 >> \o here
  BY <1>6 DEF RefBlock, here
<1>11. RefBlock(m, i) = << cut - i + 1 >> \o there
  BY DEF RefBlock, there, cut
<1> QED BY <1>4, <1>6, <1>9, <1>10, <1>11 DEF both, h, cut

LEMMA BlocksShift ==
  ASSUME NEW head \in Seq(Octet), NEW m \in Seq(Octet)
  PROVE  \A i \in 0..Len(m) : RefBlocks(head \o m)[Len(head) + i] = RefBlocks(m)[i]
<1> DEFINE both == head \o m
           h == Len(head)
           n == Len(m)
           Same(i) == RefBlocks(both)[h + i] = RefBlocks(m)[i]
           S == {k \in Nat : \A i \in 0..n : n - i <= k => Same(i)}
<1>0. /\ n \in Nat /\ h \in Nat /\ both \in Seq(Octet) /\ Len(both) = h + n
      /\ MaxCode \in Nat /\ MaxCode > 2
  BY Beside, MaxCodeAssumption
<1>1. ASSUME NEW i \in 0..n, \A j \in 0..n : i < j => Same(j)
      PROVE  Same(i)
  <2> DEFINE cut == RefCut(m, i)
             block == RefBlock(m, i)
  <2>1. cut \in i..n /\ (cut - i = MaxCode - 1 => i < cut)
    <3>1. cut \in i..n
      BY CutIs DEF CutsAt
    <3> HIDE DEF cut
    <3> QED BY <1>0, <3>1
  <2>2. RefCut(both, h + i) = h + cut /\ RefBlock(both, h + i) = block
    BY CutMoves
  <2>3. RefBlocks(m)[i] = RefNext(m, RefBlocks(m), i)
    BY RefStep
  <2>4. RefBlocks(both)[h + i] = RefNext(both, RefBlocks(both), h + i)
    <3>1. h + i \in 0..Len(both)
      BY <1>0
    <3> QED BY <1>0, <3>1, RefStep
  <2> HIDE DEF both, h, cut, block, n
  <2>5. RefNext(m, RefBlocks(m), i) =
          IF cut = n THEN block
          ELSE IF cut - i = MaxCode - 1 THEN block \o RefBlocks(m)[cut]
          ELSE block \o RefBlocks(m)[cut + 1]
    BY DEF RefNext, cut, block, n
  <2>6. RefNext(both, RefBlocks(both), h + i) =
          IF h + cut = Len(both) THEN block
          ELSE IF (h + cut) - (h + i) = MaxCode - 1 THEN block \o RefBlocks(both)[h + cut]
          ELSE block \o RefBlocks(both)[(h + cut) + 1]
    BY <2>2 DEF RefNext
  <2>7. /\ h + cut = Len(both) <=> cut = n
        /\ (h + cut) - (h + i) = cut - i /\ (h + cut) + 1 = h + (cut + 1)
    BY <1>0, <2>1
  <2>8. cut - i = MaxCode - 1 => RefBlocks(both)[h + cut] = RefBlocks(m)[cut]
    <3>1. cut \in 0..n
      BY <1>0, <2>1
    <3> QED BY <1>1, <2>1, <3>1
  <2>9. cut # n => RefBlocks(both)[h + (cut + 1)] = RefBlocks(m)[cut + 1]
    <3>1. cut # n => cut + 1 \in 0..n /\ i < cut + 1
      BY <1>0, <2>1
    <3> QED BY <1>1, <3>1
  <2> QED BY <2>3, <2>4, <2>5, <2>6, <2>7, <2>8, <2>9
<1> HIDE DEF Same
<1>2. 0 \in S
  <2> SUFFICES ASSUME NEW i \in 0..n, n - i <= 0 PROVE Same(i)
    OBVIOUS
  <2>1. ~ \E j \in 0..n : i < j
    BY <1>0
  <2> QED BY <1>1, <2>1
<1>3. ASSUME NEW k \in S PROVE k + 1 \in S
  <2> SUFFICES ASSUME NEW i \in 0..n, n - i <= k + 1 PROVE Same(i)
    OBVIOUS
  <2>1. \A j \in 0..n : i < j => n - j <= k
    <3> HIDE DEF n
    <3> QED BY <1>0, <1>3
  <2>2. \A j \in 0..n : i < j => Same(j)
    BY <1>3, <2>1
  <2> QED BY <1>1, <2>2
<1>4. S = Nat
  <2> HIDE DEF S
  <2>1. S \in SUBSET Nat
    BY DEF S
  <2> QED BY <1>2, <1>3, <2>1, SetInduction
<1>5. ASSUME NEW i \in 0..n PROVE Same(i)
  <2>1. n \in S /\ n - i <= n
    BY <1>0, <1>4
  <2> HIDE DEF n
  <2> QED BY <2>1
<1> QED BY <1>5 DEF Same

(* The encodings of a message that is one block, of a message that begins with *)
(* a block and its zero, and of one that begins with a maximal block.          *)
LEMMA FirstCut ==
  ASSUME NEW data \in Seq(Octet), NEW m \in Seq(Octet),
         ZeroFreeSeq(data), Len(data) <= MaxCode - 1,
         m = << >> \/ Len(data) = MaxCode - 1 \/ m[1] = 0
  PROVE  /\ RefCut(data \o m, 0) = Len(data)
         /\ RefBlock(data \o m, 0) = << Len(data) + 1 >> \o data
<1> DEFINE both == data \o m
           h == Len(data)
<1>1. /\ both \in Seq(Octet) /\ Len(both) = h + Len(m) /\ h \in Nat /\ Len(m) \in Nat
      /\ \A i \in 1..h : both[i] = data[i]
      /\ \A i \in 1..Len(m) : both[h + i] = m[i]
  BY Beside
<1>2. SubSeq(both, 1, h) = data
  BY HeadIs
<1> HIDE DEF both
<1>3. h = Len(both) \/ h - 0 = MaxCode - 1 \/ both[h + 1] = 0
  <2>1. CASE m = << >>
    BY <1>1, <2>1
  <2>2. CASE m # << >> /\ m[1] = 0
    <3>1. 1 \in 1..Len(m)
      BY <2>2, <1>1
    <3> HIDE DEF h
    <3> QED BY <1>1, <2>2, <3>1
  <2>3. CASE Len(data) = MaxCode - 1
    BY <1>1, <2>3
  <2> QED BY <2>1, <2>2, <2>3
<1>4. \A i \in (0 + 1)..h : both[i] # 0
  BY <1>1 DEF ZeroFreeSeq
<1>5. h - 0 <= MaxCode - 1 /\ h \in 0..Len(both) /\ 0 \in 0..Len(both) /\ h - 0 + 1 = h + 1 /\ 0 + 1 = 1
  BY <1>1
<1> HIDE DEF h
<1>6. CutsAt(both, 0, h)
  BY <1>3, <1>4, <1>5 DEF CutsAt
<1>7. RefCut(both, 0) = h
  BY <1>1, <1>5, <1>6, CutAt
<1>8. RefBlock(both, 0) = << h + 1 >> \o data
  BY <1>2, <1>5, <1>7 DEF RefBlock
<1> QED BY <1>7, <1>8 DEF both, h

LEMMA RefOne ==
  ASSUME NEW data \in Seq(Octet), ZeroFreeSeq(data), Len(data) <= MaxCode - 1
  PROVE  RefEncode(data) = << Len(data) + 1 >> \o data
<1> DEFINE none == << >>
<1>1. none \in Seq(Octet) /\ data \o none = data /\ 0 \in 0..Len(data)
  OBVIOUS
<1>2. RefCut(data, 0) = Len(data) /\ RefBlock(data, 0) = << Len(data) + 1 >> \o data
  BY <1>1, FirstCut
<1>3. RefBlocks(data)[0] = RefNext(data, RefBlocks(data), 0)
  BY <1>1, RefStep
<1> QED BY <1>2, <1>3 DEF RefEncode, RefNext

LEMMA RefZero ==
  ASSUME NEW data \in Seq(Octet), NEW m \in Seq(Octet),
         ZeroFreeSeq(data), Len(data) < MaxCode - 1
  PROVE  RefEncode((data \o << 0 >>) \o m) = (<< Len(data) + 1 >> \o data) \o RefEncode(m)
<1> DEFINE zero == << 0 >>
           tail == zero \o m
           both == data \o tail
           head == data \o zero
           h == Len(data)
<1>0. 0 \in Octet /\ MaxCode \in Nat
  BY MaxCodeAssumption DEF Octet
<1>1. zero \in Seq(Octet) /\ Len(zero) = 1 /\ zero[1] = 0
  BY <1>0
<1> HIDE DEF zero
<1>2. tail \in Seq(Octet) /\ Len(tail) = 1 + Len(m) /\ tail[1] = 0
  <2>1. 1 \in 1..Len(zero)
    BY <1>1
  <2>2. /\ tail \in Seq(Octet) /\ Len(tail) = Len(zero) + Len(m)
        /\ \A i \in 1..Len(zero) : tail[i] = zero[i]
    BY <1>1, Beside
  <2> HIDE DEF tail
  <2> QED BY <1>1, <2>1, <2>2
<1>3. both = head \o m
  BY <1>1, Associates
<1>4. head \in Seq(Octet) /\ Len(head) = h + 1
  <2>1. head \in Seq(Octet) /\ Len(head) = h + Len(zero)
    BY <1>1, Beside
  <2> QED BY <1>1, <2>1
<1>5. h \in Nat /\ Len(m) \in Nat /\ h <= MaxCode - 1 /\ h # MaxCode - 1
  BY <1>0
<1> HIDE DEF tail, head
<1>6. both \in Seq(Octet) /\ Len(both) = h + Len(tail)
  BY <1>2, Beside
<1>7. RefCut(both, 0) = h /\ RefBlock(both, 0) = << h + 1 >> \o data
  BY <1>2, <1>5, FirstCut
<1>8. RefBlocks(head \o m)[Len(head) + 0] = RefBlocks(m)[0]
  <2>1. 0 \in 0..Len(m)
    OBVIOUS
  <2> QED BY <1>4, <2>1, BlocksShift
<1> HIDE DEF both, h
<1>9. 0 \in 0..Len(both) /\ h # Len(both) /\ h - 0 = h /\ Len(head) + 0 = h + 1
  BY <1>2, <1>4, <1>5, <1>6
<1>10. RefBlocks(both)[0] = RefNext(both, RefBlocks(both), 0)
  BY <1>6, <1>9, RefStep
<1>11. RefBlocks(both)[0] = (<< h + 1 >> \o data) \o RefBlocks(both)[h + 1]
  BY <1>5, <1>7, <1>9, <1>10 DEF RefNext
<1>12. RefBlocks(both)[h + 1] = RefBlocks(m)[0]
  BY <1>3, <1>8, <1>9
<1>13. RefEncode(head \o m) = (<< h + 1 >> \o data) \o RefEncode(m)
  BY <1>3, <1>11, <1>12 DEF RefEncode
<1> QED BY <1>13 DEF head, zero, h

LEMMA RefMaximal ==
  ASSUME NEW data \in Seq(Octet), NEW m \in Seq(Octet),
         ZeroFreeSeq(data), Len(data) = MaxCode - 1, m # << >>
  PROVE  RefEncode(data \o m) = (<< Len(data) + 1 >> \o data) \o RefEncode(m)
<1> DEFINE both == data \o m
           h == Len(data)
<1>1. h \in Nat /\ Len(m) \in Nat /\ Len(m) # 0 /\ h <= MaxCode - 1 /\ h = MaxCode - 1
  BY MaxCodeAssumption
<1>2. both \in Seq(Octet) /\ Len(both) = h + Len(m)
  BY Beside
<1>3. RefCut(both, 0) = h /\ RefBlock(both, 0) = << h + 1 >> \o data
  BY <1>1, FirstCut
<1>4. RefBlocks(both)[h + 0] = RefBlocks(m)[0]
  <2>1. 0 \in 0..Len(m)
    OBVIOUS
  <2> QED BY <2>1, BlocksShift
<1> HIDE DEF both, h
<1>5. 0 \in 0..Len(both) /\ h # Len(both) /\ h - 0 = MaxCode - 1 /\ h + 0 = h
  BY <1>1, <1>2
<1>6. RefBlocks(both)[0] = RefNext(both, RefBlocks(both), 0)
  BY <1>2, <1>5, RefStep
<1>7. RefBlocks(both)[0] = (<< h + 1 >> \o data) \o RefBlocks(m)[0]
  BY <1>3, <1>4, <1>5, <1>6 DEF RefNext
<1> QED BY <1>7 DEF RefEncode, both, h

(* A stream from the head of a block on: the block and what follows it. *)
LEMMA BlockSuffix ==
  ASSUME NEW enc \in Seq(Octet), NEW p \in 0..(Len(enc) - 1), NEW q \in (p + 1)..Len(enc)
  PROVE  /\ SubSeq(enc, p + 2, q) \in Seq(Octet) /\ Len(SubSeq(enc, p + 2, q)) = q - (p + 1)
         /\ \A k \in 1..(q - (p + 1)) : SubSeq(enc, p + 2, q)[k] = enc[(p + 1) + k]
         /\ Suffix(enc, p) = (<< enc[p + 1] >> \o SubSeq(enc, p + 2, q)) \o Suffix(enc, q)
<1> DEFINE n == Len(enc)
           o == p + 1
           data == SubSeq(enc, o + 1, q)
           code == << enc[o] >>
           block == code \o data
           rest == Suffix(enc, q)
           both == block \o rest
<1>0. n \in Nat /\ p \in Nat /\ p \in 0..n /\ o \in 0..n /\ q \in o..n /\ q \in 0..n /\ o = p + 1 /\ o \in 1..n
      /\ o + 1 = p + 2
  OBVIOUS
<1>1. /\ data \in Seq(Octet) /\ Len(data) = q - o
      /\ \A k \in 1..(q - o) : data[k] = enc[o + k]
  <2> HIDE DEF o
  <2> QED BY <1>0, SubSeqIs
<1>2. rest \in Seq(Octet) /\ Len(rest) = n - q /\ \A k \in 1..(n - q) : rest[k] = enc[q + k]
  BY <1>0, SuffixIs
<1>3. code \in Seq(Octet) /\ Len(code) = 1 /\ code[1] = enc[o]
  BY <1>0
<1> HIDE DEF data, rest, code, n, o
<1>4. /\ block \in Seq(Octet) /\ Len(block) = q - p
      /\ block[1] = enc[o] /\ \A k \in 1..(q - o) : block[1 + k] = data[k]
  <2>1. /\ block \in Seq(Octet) /\ Len(block) = Len(code) + Len(data)
        /\ \A i \in 1..Len(code) : block[i] = code[i]
        /\ \A i \in 1..Len(data) : block[Len(code) + i] = data[i]
    BY <1>1, <1>3, Beside
  <2> HIDE DEF block
  <2>2. 1 + (q - o) = q - p
    BY <1>0
  <2> QED BY <1>1, <1>3, <2>1, <2>2
<1> HIDE DEF block
<1>5. /\ both \in Seq(Octet) /\ Len(both) = (q - p) + (n - q)
      /\ \A i \in 1..(q - p) : both[i] = block[i]
      /\ \A i \in 1..(n - q) : both[(q - p) + i] = rest[i]
  <2>1. /\ both \in Seq(Octet) /\ Len(both) = Len(block) + Len(rest)
        /\ \A i \in 1..Len(block) : both[i] = block[i]
        /\ \A i \in 1..Len(rest) : both[Len(block) + i] = rest[i]
    BY <1>2, <1>4, Beside
  <2> HIDE DEF both
  <2> QED BY <1>2, <1>4, <2>1
<1> DEFINE whole == Suffix(enc, p)
<1>6. whole \in Seq(Octet) /\ Len(whole) = n - p /\ \A k \in 1..(n - p) : whole[k] = enc[p + k]
  BY <1>0, SuffixIs DEF n
<1> HIDE DEF both, whole
<1>7. (q - p) + (n - q) = n - p
  BY <1>0
<1>8. ASSUME NEW k \in 1..(n - p) PROVE whole[k] = both[k]
  <2>0. whole[k] = enc[p + k]
    BY <1>6
  <2>1. CASE k = 1
    <3>1. 1 \in 1..(q - p) /\ p + 1 = o
      BY <1>0
    <3> QED BY <1>4, <1>5, <2>0, <2>1, <3>1
  <2>2. CASE k # 1 /\ k <= q - p
    <3> DEFINE j == k - 1
    <3>1. j \in 1..(q - o) /\ 1 + j = k /\ k \in 1..(q - p) /\ o + j = p + k
      BY <1>0, <2>2
    <3> HIDE DEF j
    <3> QED BY <1>1, <1>4, <1>5, <2>0, <3>1
  <2>3. CASE ~(k <= q - p)
    <3> DEFINE j == k - (q - p)
    <3>1. j \in 1..(n - q) /\ (q - p) + j = k /\ q + j = p + k
      BY <1>0, <2>3
    <3> HIDE DEF j
    <3> QED BY <1>2, <1>5, <2>0, <3>1
  <2> QED BY <2>1, <2>2, <2>3
<1>9. whole = both
  BY <1>5, <1>6, <1>7, <1>8, SameSeq
<1>10. /\ data \in Seq(Octet) /\ Len(data) = q - (p + 1)
       /\ \A k \in 1..(q - (p + 1)) : data[k] = enc[(p + 1) + k]
  BY <1>1 DEF o
<1>11. data = SubSeq(enc, p + 2, q)
  BY <1>0 DEF data
<1>12. whole = (<< enc[p + 1] >> \o data) \o rest
  BY <1>9 DEF both, block, code, o
<1> QED BY <1>10, <1>11, <1>12 DEF whole, rest

(* The bytes are the encoding of the message by the definition, or that and an *)
(* empty block more.                                                           *)
Explains(bytes, msg) ==
  \/ bytes = RefEncode(msg)
  \/ bytes = RefEncode(msg) \o << 1 >> /\ msg # << >>

LEMMA BlockExplained ==
  ASSUME NEW data \in Seq(Octet), ZeroFreeSeq(data), Len(data) <= MaxCode - 1,
         NEW rest \in Seq(Octet), NEW m \in Seq(Octet), Explains(rest, m)
  PROVE  Explains((<< Len(data) + 1 >> \o data) \o rest,
                  (IF Len(data) + 1 = MaxCode THEN data ELSE data \o << 0 >>) \o m)
<1> DEFINE h == Len(data)
           zero == << 0 >>
           one == << 1 >>
           head == IF h + 1 = MaxCode THEN data ELSE data \o zero
           msg == head \o m
           block == << h + 1 >> \o data
           enc == RefEncode(m)
<1>0. 0 \in Octet /\ 1 \in Octet /\ MaxCode \in Nat /\ MaxCode > 2 /\ h \in Nat /\ h + 1 \in Octet
  BY MaxCodeAssumption DEF Octet
<1>1. block \in Seq(Octet) /\ enc \in Seq(Octet) /\ one \in Seq(Octet) /\ zero \in Seq(Octet) /\ Len(zero) = 1
  <2>1. enc \in Seq(Octet)
    <3>1. 0 \in 0..Len(m)
      OBVIOUS
    <3> QED BY <3>1, RefBytes DEF RefEncode
  <2>2. << h + 1 >> \in Seq(Octet) /\ one \in Seq(Octet) /\ zero \in Seq(Octet) /\ Len(zero) = 1
    BY <1>0
  <2> HIDE DEF h
  <2> QED BY <2>1, <2>2
<1>2. ASSUME RefEncode(msg) = block \o enc, msg # << >>
      PROVE  Explains(block \o rest, msg)
  <2>1. (block \o enc) \o one = block \o (enc \o one)
    <3> HIDE DEF block, enc, one
    <3>0. one \in Seq(Octet)
      BY <1>1
    <3>1. block \in Seq(Octet) /\ enc \in Seq(Octet)
      BY <1>1
    <3>2. \A x, y \in Seq(Octet) : (x \o y) \o one = x \o (y \o one)
      BY <3>0, Associates, SMTT(60)
    <3> QED BY <3>1, <3>2, Zenon
  <2>2. rest = enc \/ rest = enc \o one
    BY DEF Explains
  <2> HIDE DEF block, enc, msg
  <2> QED BY <1>2, <2>1, <2>2 DEF Explains
<1>3. CASE h + 1 # MaxCode
  <2>1. h < MaxCode - 1
    BY <1>0, <1>3
  <2>2. RefEncode(msg) = block \o enc
    BY <1>3, <2>1, RefZero
  <2>3. msg # << >>
    <3>1. data \o zero \in Seq(Octet) /\ Len(data \o zero) = h + 1
      <4>1. data \o zero \in Seq(Octet) /\ Len(data \o zero) = h + Len(zero)
        BY <1>1, Beside
      <4> QED BY <1>1, <4>1
    <3>2. head = data \o zero
      BY <1>3
    <3> HIDE DEF head
    <3>3. Len(msg) = Len(head) + Len(m)
      BY <3>1, <3>2, Beside
    <3>4. Len(msg) > 0 /\ Len(<< >>) = 0
      BY <1>0, <3>1, <3>2, <3>3
    <3> QED BY <3>4
  <2> HIDE DEF block, msg, enc
  <2> QED BY <1>2, <2>2, <2>3 DEF msg, block
<1>4. CASE h + 1 = MaxCode /\ m # << >>
  <2>1. h = MaxCode - 1 /\ msg = data \o m
    BY <1>0, <1>4
  <2>2. RefEncode(msg) = block \o enc
    BY <1>4, <2>1, RefMaximal
  <2>3. msg # << >>
    <3>1. Len(data \o m) = h + Len(m) /\ Len(<< >>) = 0
      BY Beside
    <3>2. Len(data \o m) > 0
      BY <1>0, <2>1, <3>1
    <3> HIDE DEF msg
    <3> QED BY <2>1, <3>1, <3>2
  <2> HIDE DEF block, msg, enc
  <2> QED BY <1>2, <2>2, <2>3 DEF msg, block
<1>5. CASE h + 1 = MaxCode /\ m = << >>
  <2>1. msg = data
    BY <1>5
  <2>2. RefEncode(data) = block
    BY RefOne
  <2>3. rest = one
    <3>1. RefEncode(<< >>) = << 0 + 1 >> \o << >>
      <4> DEFINE none == << >>
      <4>1. none \in Seq(Octet) /\ Len(none) = 0 /\ ZeroFreeSeq(none) /\ 0 <= MaxCode - 1
        BY <1>0 DEF ZeroFreeSeq
      <4> HIDE DEF none
      <4>2. RefEncode(none) = << 0 + 1 >> \o none
        BY <4>1, RefOne
      <4> QED BY <4>2 DEF none
    <3>2. << 0 + 1 >> \o << >> = << 1 >>
      OBVIOUS
    <3> QED BY <1>5, <3>1, <3>2 DEF Explains
  <2>4. data # << >>
    BY <1>0, <1>5
  <2> HIDE DEF block, msg
  <2>5. Explains(block \o rest, msg)
    BY <2>1, <2>2, <2>3, <2>4 DEF Explains
  <2> QED BY <2>5 DEF block, msg
<1> QED BY <1>3, <1>4, <1>5

LEMMA BlocksExplained ==
  ASSUME NEW enc \in Seq(Octet), ZeroFreeSeq(enc)
  PROVE  \A p \in 0..Len(enc) :
           Blocks(enc)[p].len >= 0 => Explains(Suffix(enc, p), Blocks(enc)[p].msg)
<1> DEFINE n == Len(enc)
           all == Blocks(enc)
           Known(p) == all[p].len >= 0 => Explains(Suffix(enc, p), all[p].msg)
           S == {k \in Nat : \A p \in 0..n : n - p <= k => Known(p)}
<1>0. n \in Nat /\ MaxCode \in Nat /\ MaxCode > 2 /\ ~(-1 >= 0)
  BY MaxCodeAssumption
<1>1. all[n] = Failed
  BY BlocksStep
<1>2. ASSUME NEW p \in 0..n, p # n, \A q \in 0..n : p < q => Known(q) PROVE Known(p)
  <2> DEFINE code == enc[p + 1]
             q == p + code
             data == SubSeq(enc, p + 2, q)
             head == IF code = MaxCode THEN data ELSE data \o << 0 >>
             rest == Suffix(enc, q)
  <2>1. p \in 0..(n - 1) /\ p + 1 \in 1..n /\ p \in Nat
    BY <1>0, <1>2
  <2>2. code \in Octet /\ code # 0
    BY <2>1 DEF ZeroFreeSeq
  <2>3. code \in 1..MaxCode /\ BlockLen(code) = code
    BY <1>0, <2>2 DEF Octet, BlockLen
  <2>4. all[p] = IF q > n THEN Failed
                 ELSE IF q = n THEN [len |-> Len(data), msg |-> data]
                 ELSE Continue(head, all[q])
    <3>1. all[p] = From(enc, all, p)
      <4> HIDE DEF From
      <4> QED BY <2>1, BlocksStep
    <3> HIDE DEF all
    <3> QED BY <2>3, <3>1 DEF From
  <2>5. SUFFICES ASSUME all[p].len >= 0, q <= n PROVE Explains(Suffix(enc, p), all[p].msg)
    <3>1. q > n => all[p].len = -1
      BY <2>4 DEF Failed
    <3>2. q \in Int
      BY <2>1, <2>3
    <3> HIDE DEF q, all
    <3> QED BY <1>0, <3>1, <3>2
  <2>6. q \in (p + 1)..n /\ q - (p + 1) = code - 1 /\ q \in 0..n /\ p < q
    BY <2>1, <2>3, <2>5
  <2> HIDE DEF q
  <2>7. /\ data \in Seq(Octet) /\ Len(data) = code - 1
        /\ \A k \in 1..(code - 1) : data[k] = enc[(p + 1) + k]
        /\ Suffix(enc, p) = (<< code >> \o data) \o rest
    BY <2>1, <2>6, BlockSuffix
  <2>8. rest \in Seq(Octet)
    BY <2>6, SuffixIs
  <2>9. ZeroFreeSeq(data) /\ Len(data) <= MaxCode - 1 /\ Len(data) + 1 = code
    <3>1. ASSUME NEW k \in 1..(code - 1) PROVE data[k] # 0
      <4>1. (p + 1) + k \in 1..n
        BY <2>1, <2>3, <2>6
      <4> HIDE DEF data, code
      <4> QED BY <2>7, <4>1 DEF ZeroFreeSeq
    <3> HIDE DEF data, code
    <3> QED BY <1>0, <2>3, <2>7, <3>1 DEF ZeroFreeSeq
  <2>10. CASE q = n
    <3>1. all[p].msg = data
      <4> HIDE DEF all, data
      <4> QED BY <2>4, <2>10
    <3>2. rest = << >>
      BY <2>10, WholeSuffix
    <3>3. << code >> \o data \in Seq(Octet)
      <4> HIDE DEF data, code
      <4>1. << code >> \in Seq(Octet)
        BY <2>2
      <4> QED BY <2>7, <4>1
    <3>4. (<< code >> \o data) \o << >> = << code >> \o data
      <4> DEFINE block == << code >> \o data
      <4> HIDE DEF block
      <4>1. block \o << >> = block
        BY <3>3 DEF block
      <4> QED BY <4>1 DEF block
    <3>5. RefEncode(data) = << code >> \o data
      <4> HIDE DEF data, code
      <4> QED BY <2>7, <2>9, RefOne
    <3>6. Suffix(enc, p) = RefEncode(data)
      BY <2>7, <3>2, <3>4, <3>5
    <3> HIDE DEF data, all
    <3> QED BY <3>1, <3>6 DEF Explains
  <2>11. CASE q # n
    <3> DEFINE m == all[q].msg
    <3>1. all[p] = Continue(head, all[q])
      <4> HIDE DEF all, head
      <4> QED BY <1>0, <2>4, <2>6, <2>11
    <3>2. all[q] \in Result
      BY <2>6, BlocksResult
    <3>3. all[q].len >= 0
      <4>1. all[q].len < 0 => all[p].len = -1
        <5> HIDE DEF all, head
        <5> QED BY <3>1 DEF Continue, Failed
      <4>2. all[q].len \in Int
        <5> HIDE DEF all
        <5> QED BY <3>2 DEF Result, Failed
      <4> HIDE DEF all
      <4> QED BY <1>0, <2>5, <4>1, <4>2
    <3>4. m \in Seq(Octet)
      <4> HIDE DEF all
      <4> QED BY <1>0, <3>2, <3>3 DEF Result, Failed
    <3>5. all[p].msg = head \o m
      <4>1. ~(all[q].len < 0)
        <5>1. all[q].len \in Int
          <6> HIDE DEF all
          <6> QED BY <3>2 DEF Result, Failed
        <5> HIDE DEF all
        <5> QED BY <3>3, <5>1
      <4> HIDE DEF all, head
      <4> QED BY <3>1, <4>1 DEF Continue
    <3>6. Explains(rest, m)
      <4>1. Known(q)
        BY <1>2, <2>6
      <4> HIDE DEF all
      <4> QED BY <3>3, <4>1
    <3> HIDE DEF rest, m, data, all, code
    <3>7. Explains((<< Len(data) + 1 >> \o data) \o rest,
                   (IF Len(data) + 1 = MaxCode THEN data ELSE data \o << 0 >>) \o m)
      BY <2>7, <2>8, <2>9, <3>4, <3>6, BlockExplained
    <3> QED BY <2>7, <2>9, <3>5, <3>7
  <2> QED BY <2>10, <2>11
<1>3. ASSUME NEW p \in 0..n, \A q \in 0..n : p < q => Known(q) PROVE Known(p)
  <2>1. CASE p = n
    <3>1. all[p].len = -1
      BY <1>1, <2>1 DEF Failed
    <3> HIDE DEF all
    <3> QED BY <1>0, <3>1
  <2>2. CASE p # n
    <3> HIDE DEF Known
    <3> QED BY <1>2, <1>3, <2>2
  <2> QED BY <2>1, <2>2
<1> HIDE DEF Known, all
<1>4. 0 \in S
  <2> SUFFICES ASSUME NEW p \in 0..n, n - p <= 0 PROVE Known(p)
    OBVIOUS
  <2>1. ~ \E q \in 0..n : p < q
    BY <1>0
  <2> QED BY <1>3, <2>1
<1>5. ASSUME NEW k \in S PROVE k + 1 \in S
  <2> SUFFICES ASSUME NEW p \in 0..n, n - p <= k + 1 PROVE Known(p)
    OBVIOUS
  <2>1. \A q \in 0..n : p < q => n - q <= k
    <3> HIDE DEF n
    <3> QED BY <1>0, <1>5
  <2>2. \A q \in 0..n : p < q => Known(q)
    BY <1>5, <2>1
  <2> QED BY <1>3, <2>2
<1>6. S = Nat
  <2> HIDE DEF S
  <2>1. S \in SUBSET Nat
    BY DEF S
  <2> QED BY <1>4, <1>5, <2>1, SetInduction
<1>7. ASSUME NEW p \in 0..n PROVE Known(p)
  <2>1. n \in S /\ n - p <= n
    BY <1>0, <1>6
  <2> HIDE DEF n
  <2> QED BY <2>1
<1> QED BY <1>7 DEF Known, all

(* Cobs_decode accepts nothing but encodings, of any length: zero-free bytes    *)
(* that it decodes are the encoding of its output by the definition of COBS, or *)
(* that and the code byte of an empty block.                                    *)
THEOREM AcceptsEncodings ==
  ASSUME NEW enc \in Seq(Octet), ZeroFreeSeq(enc), NEW max \in Nat
  PROVE  LET d == Decode(enc, max)
         IN d.len >= 0 => \/ enc = RefEncode(d.msg)
                          \/ enc = RefEncode(d.msg) \o << 1 >> /\ d.msg # << >>
<1> DEFINE all == Blocks(enc)[0]
           d == Decode(enc, max)
<1>1. d = Failed \/ d = all
  BY DEF Decode
<1>2. all.len >= 0 => Explains(enc, all.msg)
  <2>1. 0 \in 0..Len(enc)
    OBVIOUS
  <2>2. Suffix(enc, 0) = enc
    BY WholeSuffix
  <2>3. Blocks(enc)[0].len >= 0 => Explains(Suffix(enc, 0), Blocks(enc)[0].msg)
    BY <2>1, BlocksExplained
  <2> QED BY <2>2, <2>3
<1> HIDE DEF all, d
<1>3. Failed.len = -1 /\ ~(-1 >= 0)
  BY DEF Failed
<1>4. d.len >= 0 => Explains(enc, d.msg)
  BY <1>1, <1>2, <1>3
<1> QED BY <1>4 DEF Explains, d
=============================================================================
