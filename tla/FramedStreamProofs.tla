------------------------- MODULE FramedStreamProofs -------------------------
(***************************************************************************)
(* Theorems about FramedStream, for every set of messages, every size of   *)
(* the buffers and every way of cutting the stream of frames into chunks.  *)
(*                                                                         *)
(* The invariant brings back the whole stream, of which the variables keep *)
(* only what is still on its way: where each frame of it ends, how far the *)
(* deframer has come (which an overflow of its buffers moves ahead), and   *)
(* which frame each delivered message came from.  A deframer looking for   *)
(* the end of a frame may have taken the byte that ends one for the byte   *)
(* that begins one, so what it holds need not be the start of a frame.     *)
(***************************************************************************)
EXTENDS FramedStream, CobsProofs

-----------------------------------------------------------------------------
(* What SafeMessages says: no zero of a message follows a maximal block, the *)
(* one kind of message whose encoding holds a framing byte. *)
SafeMessages == \A m \in Messages : ~FullBlockThenZero(m)

LEMMA MessageEncoding ==
  ASSUME SafeMessages, NEW m \in Messages
  PROVE  /\ m \in Seq(Octet)
         /\ Encoded(m) \in Seq(Octet) /\ Len(Encoded(m)) > 0 /\ ZeroFreeSeq(Encoded(m))
<1>1. m \in Seq(Octet)
  BY StreamAssumption
<1> QED BY <1>1, EncodedBytes DEF SafeMessages, ZeroFreeSeq

-----------------------------------------------------------------------------
(* The frame of enc fills the stream from offset p to offset q. *)
FrameAt(stream, p, q, enc) ==
  /\ q = p + Len(enc) + 2
  /\ stream[p + 1] = 0 /\ stream[q] = 0
  /\ \A k \in 1..Len(enc) : stream[p + 1 + k] = enc[k]

(* The stream is the frames of the messages, the i-th ending at ends[i]. *)
Layout(stream, ends, ms) ==
  /\ stream \in Seq(Octet)
  /\ ms \in Seq(Messages)
  /\ ends \in [0..Len(ms) -> Nat]
  /\ ends[0] = 0 /\ ends[Len(ms)] = Len(stream)
  /\ \A i \in 1..Len(ms) : FrameAt(stream, ends[i - 1], ends[i], Encoded(ms[i]))

LEMMA EmptyLayout == Layout(<< >>, [i \in 0..0 |-> 0], << >>)
  BY DEF Layout

LEMMA FrameLengths ==
  ASSUME SafeMessages, NEW stream, NEW ends, NEW ms, Layout(stream, ends, ms),
         NEW i \in 1..Len(ms)
  PROVE  /\ ms[i] \in Messages
         /\ i - 1 \in 0..Len(ms) /\ i \in 0..Len(ms)
         /\ ends[i - 1] \in Nat /\ ends[i] \in Nat /\ Len(Encoded(ms[i])) \in Nat
         /\ Len(Encoded(ms[i])) > 0
         /\ ends[i] = ends[i - 1] + Len(Encoded(ms[i])) + 2
<1>1. ms \in Seq(Messages) /\ Len(ms) \in Nat /\ ends \in [0..Len(ms) -> Nat]
  BY DEF Layout
<1>2. ms[i] \in Messages
  BY <1>1
<1>3. Encoded(ms[i]) \in Seq(Octet) /\ Len(Encoded(ms[i])) > 0
  BY <1>2, MessageEncoding
<1>4. Len(Encoded(ms[i])) \in Nat
  BY <1>3
<1>5. i - 1 \in 0..Len(ms) /\ i \in 0..Len(ms)
  BY <1>1
<1>6. ends[i - 1] \in Nat /\ ends[i] \in Nat
  BY <1>1, <1>5
<1>7. ends[i] = ends[i - 1] + Len(Encoded(ms[i])) + 2
  BY DEF Layout, FrameAt
<1> QED BY <1>2, <1>3, <1>4, <1>5, <1>6, <1>7

(* Frames end in the order the messages were sent. *)
LEMMA EndsIncrease ==
  ASSUME SafeMessages, NEW stream, NEW ends, NEW ms, Layout(stream, ends, ms),
         NEW i \in 0..Len(ms), NEW j \in 0..Len(ms), i < j
  PROVE  ends[i] < ends[j]
<1>1. Len(ms) \in Nat /\ ends \in [0..Len(ms) -> Nat]
  BY DEF Layout
<1> DEFINE S == {n \in Nat : i + 1 + n <= Len(ms) => ends[i] < ends[i + 1 + n]}
<1>2. i \in Nat /\ j \in Nat
  BY <1>1
<1>3. \A k \in 1..Len(ms) : ends[k - 1] \in Nat /\ ends[k] \in Nat /\ ends[k - 1] < ends[k]
  <2> SUFFICES ASSUME NEW k \in 1..Len(ms)
               PROVE  ends[k - 1] \in Nat /\ ends[k] \in Nat /\ ends[k - 1] < ends[k]
    OBVIOUS
  <2> DEFINE x == ends[k - 1]
             y == ends[k]
             l == Len(Encoded(ms[k]))
  <2>1. x \in Nat /\ y \in Nat /\ l \in Nat /\ y = x + l + 2
    BY FrameLengths
  <2> HIDE DEF x, y, l
  <2>2. x \in Nat /\ y \in Nat /\ x < y
    BY <2>1
  <2> QED BY <2>2 DEF x, y
<1>4. 0 \in S
  <2> SUFFICES ASSUME i + 1 + 0 <= Len(ms) PROVE ends[i] < ends[i + 1 + 0]
    OBVIOUS
  <2>1. i + 1 \in 1..Len(ms) /\ i + 1 - 1 = i /\ i + 1 + 0 = i + 1
    BY <1>1, <1>2
  <2> QED BY <1>3, <2>1
<1>5. ASSUME NEW n \in S PROVE n + 1 \in S
  <2> SUFFICES ASSUME i + 1 + (n + 1) <= Len(ms) PROVE ends[i] < ends[i + 1 + (n + 1)]
    OBVIOUS
  <2> DEFINE k == i + 1 + (n + 1)
  <2>1. k \in 1..Len(ms) /\ k - 1 = i + 1 + n /\ i + 1 + n <= Len(ms)
    BY <1>1, <1>2
  <2>2. ends[i] < ends[i + 1 + n]
    BY <2>1
  <2> HIDE DEF k
  <2> DEFINE x == ends[i]
             y == ends[k - 1]
             z == ends[k]
  <2>3. x \in Nat /\ y \in Nat /\ z \in Nat /\ y < z
    BY <1>1, <1>3, <2>1
  <2>4. x < y
    BY <2>1, <2>2
  <2> HIDE DEF x, y, z
  <2>5. x < z
    BY <2>3, <2>4
  <2> QED BY <2>5 DEF x, z, k
<1>6. S = Nat
  <2>1. S \in SUBSET Nat
    BY DEF S
  <2> HIDE DEF S
  <2> QED BY <1>4, <1>5, <2>1, SetInduction
<1>7. j - (i + 1) \in S
  <2>1. j - (i + 1) \in Nat
    BY <1>2
  <2> HIDE DEF S
  <2> QED BY <1>6, <2>1
<1>8. i + 1 + (j - (i + 1)) = j /\ j <= Len(ms)
  BY <1>1, <1>2
<1> QED BY <1>7, <1>8

(* Every offset of the stream lies in the frame of one message. *)
LEMMA Located ==
  ASSUME SafeMessages, NEW stream, NEW ends, NEW ms, Layout(stream, ends, ms),
         NEW p \in 1..Len(stream)
  PROVE  \E i \in 1..Len(ms) : ends[i - 1] < p /\ p <= ends[i]
<1>1. /\ Len(ms) \in Nat /\ ends \in [0..Len(ms) -> Nat] /\ ends[0] = 0
      /\ ends[Len(ms)] = Len(stream) /\ Len(stream) \in Nat
  BY DEF Layout
<1> DEFINE In(i) == ends[i - 1] < p /\ p <= ends[i]
           S == {n \in Nat : n <= Len(ms) /\ p <= ends[n] => \E i \in 1..Len(ms) : In(i)}
<1>2. p \in Nat /\ p > 0 /\ p <= ends[Len(ms)]
  BY <1>1
<1>3. 0 \in S
  BY <1>1, <1>2
<1>4. ASSUME NEW n \in S PROVE n + 1 \in S
  <2>1. n \in Nat /\ (n <= Len(ms) /\ p <= ends[n] => \E i \in 1..Len(ms) : In(i))
    OBVIOUS
  <2>2. ASSUME n + 1 <= Len(ms), p <= ends[n + 1] PROVE \E i \in 1..Len(ms) : In(i)
    <3> DEFINE k == n + 1
    <3>1. k \in 1..Len(ms) /\ k - 1 = n /\ n <= Len(ms) /\ ends[n] \in Nat
      BY <1>1, <2>1, <2>2
    <3> HIDE DEF k
    <3>2. CASE p <= ends[n]
      <4> HIDE DEF In
      <4> QED BY <2>1, <3>1, <3>2
    <3>3. CASE ends[n] < p
      <4>1. p <= ends[k]
        BY <2>2 DEF k
      <4>2. In(k)
        BY <3>1, <3>3, <4>1
      <4> HIDE DEF In
      <4> QED BY <3>1, <4>2
    <3> QED BY <1>2, <3>1, <3>2, <3>3
  <2> QED BY <2>1, <2>2
<1>5. S = Nat
  <2>1. S \in SUBSET Nat
    BY DEF S
  <2> HIDE DEF S
  <2> QED BY <1>3, <1>4, <2>1, SetInduction
<1>6. Len(ms) \in S
  <2> HIDE DEF S
  <2> QED BY <1>1, <1>5
<1>7. \E i \in 1..Len(ms) : In(i)
  <2> HIDE DEF In
  <2> QED BY <1>1, <1>2, <1>6
<1> QED BY <1>7

(* The bytes inside a frame, between its framing bytes, are no framing bytes. *)
LEMMA InsideFrame ==
  ASSUME SafeMessages, NEW stream, NEW ends, NEW ms, Layout(stream, ends, ms),
         NEW i \in 1..Len(ms), NEW p \in Nat, ends[i - 1] + 1 < p, p < ends[i]
  PROVE  stream[p] # 0
<1> DEFINE enc == Encoded(ms[i])
           from == ends[i - 1]
           to == ends[i]
<1>1. /\ ms[i] \in Messages /\ from \in Nat /\ to \in Nat /\ Len(enc) \in Nat
      /\ to = from + Len(enc) + 2
  BY FrameLengths
<1>2. \A k \in 1..Len(enc) : stream[from + 1 + k] = enc[k]
  BY DEF Layout, FrameAt
<1>3. ZeroFreeSeq(enc)
  BY <1>1, MessageEncoding
<1>4. from + 1 < p /\ p < to
  OBVIOUS
<1> HIDE DEF enc, from, to
<1> DEFINE k == p - (from + 1)
<1>5. k \in 1..Len(enc) /\ from + 1 + k = p
  BY <1>1, <1>4
<1> HIDE DEF k
<1> QED BY <1>2, <1>3, <1>5 DEF ZeroFreeSeq

(* The two framing bytes of a frame. *)
LEMMA FramingBytesOf ==
  ASSUME SafeMessages, NEW stream, NEW ends, NEW ms, Layout(stream, ends, ms),
         NEW i \in 1..Len(ms)
  PROVE  stream[ends[i - 1] + 1] = 0 /\ stream[ends[i]] = 0
  BY DEF Layout, FrameAt

(* Two framing bytes with other bytes between them, and no framing byte there. *)
Bracket(stream, p, q) ==
  /\ p \in 1..Len(stream) /\ q \in 1..Len(stream) /\ p + 1 < q
  /\ stream[p] = 0 /\ stream[q] = 0
  /\ \A k \in Nat : p < k /\ k < q => stream[k] # 0

(* They are those of one frame. *)
LEMMA Segment ==
  ASSUME SafeMessages, NEW stream, NEW ends, NEW ms, Layout(stream, ends, ms),
         NEW p, NEW q, Bracket(stream, p, q)
  PROVE  \E i \in 1..Len(ms) : p = ends[i - 1] + 1 /\ q = ends[i]
<1>0. /\ p \in 1..Len(stream) /\ q \in 1..Len(stream) /\ p + 1 < q
      /\ stream[p] = 0 /\ stream[q] = 0
      /\ \A k \in Nat : p < k /\ k < q => stream[k] # 0
  BY DEF Bracket
<1>1. /\ Len(ms) \in Nat /\ ends \in [0..Len(ms) -> Nat]
      /\ ends[Len(ms)] = Len(stream) /\ Len(stream) \in Nat
  BY DEF Layout
<1>2. p \in Nat /\ q \in Nat /\ p <= Len(stream) /\ q <= Len(stream)
  BY <1>0, <1>1
<1>3. PICK i \in 1..Len(ms) : ends[i - 1] < p /\ p <= ends[i]
  BY <1>0, Located
<1>4. ends[i - 1] \in Nat /\ ends[i] \in Nat /\ i \in Nat /\ i <= Len(ms)
  BY <1>1, FrameLengths
<1>5. p # ends[i]
  <2> SUFFICES ASSUME p = ends[i] PROVE FALSE
    OBVIOUS
  <2>1. CASE i = Len(ms)
    BY <1>0, <1>1, <1>2, <2>1
  <2>2. CASE i # Len(ms)
    <3>1. i + 1 \in 1..Len(ms) /\ (i + 1) - 1 = i
      BY <1>1, <1>4, <2>2
    <3>2. stream[ends[i] + 1] = 0
      BY <3>1, FramingBytesOf
    <3>3. p + 1 \in Nat /\ p < p + 1 /\ p + 1 < q
      BY <1>0, <1>2
    <3> QED BY <1>0, <3>2, <3>3
  <2> QED BY <2>1, <2>2
<1>6. p = ends[i - 1] + 1
  <2> SUFFICES ASSUME p # ends[i - 1] + 1 PROVE FALSE
    OBVIOUS
  <2>1. ends[i - 1] + 1 < p /\ p < ends[i]
    <3> DEFINE x == ends[i - 1]
               y == ends[i]
    <3>1. x \in Nat /\ y \in Nat /\ x < p /\ p <= y /\ p # y /\ p # x + 1
      BY <1>3, <1>4, <1>5
    <3> HIDE DEF x, y
    <3>2. x + 1 < p /\ p < y
      BY <1>2, <3>1
    <3> QED BY <3>2 DEF x, y
  <2> QED BY <1>0, <1>2, <2>1, InsideFrame
<1>7. stream[ends[i]] = 0
  BY FramingBytesOf
<1>8. q <= ends[i]
  <2> SUFFICES ASSUME ends[i] < q PROVE FALSE
    BY <1>2, <1>4
  <2>1. p < ends[i]
    BY <1>2, <1>3, <1>4, <1>5
  <2> QED BY <1>0, <1>4, <1>7, <2>1
<1>9. q = ends[i]
  <2> SUFFICES ASSUME q # ends[i] PROVE FALSE
    OBVIOUS
  <2>1. ends[i - 1] + 1 < q /\ q < ends[i]
    BY <1>0, <1>2, <1>4, <1>6, <1>8
  <2> QED BY <1>0, <1>2, <2>1, InsideFrame
<1> QED BY <1>6, <1>9

(* A frame more at the end of the stream. *)
LEMMA LayoutGrows ==
  ASSUME SafeMessages, NEW stream, NEW ends, NEW ms, Layout(stream, ends, ms),
         NEW m \in Messages
  PROVE  Layout(stream \o Frame(Encoded(m)),
                [i \in 0..(Len(ms) + 1) |->
                   IF i <= Len(ms) THEN ends[i] ELSE Len(stream) + Len(Encoded(m)) + 2],
                Append(ms, m))
<1> DEFINE enc == Encoded(m)
           frame == Frame(enc)
           longer == stream \o frame
           more == Append(ms, m)
           N == Len(ms)
           L == Len(stream)
           there == [i \in 0..(N + 1) |-> IF i <= N THEN ends[i] ELSE L + Len(enc) + 2]
<1>1. /\ N \in Nat /\ ends \in [0..N -> Nat] /\ ends[0] = 0 /\ ends[N] = L
      /\ L \in Nat /\ stream \in Seq(Octet) /\ ms \in Seq(Messages)
      /\ \A i \in 1..N : FrameAt(stream, ends[i - 1], ends[i], Encoded(ms[i]))
  BY DEF Layout
<1>2. enc \in Seq(Octet) /\ Len(enc) \in Nat
  BY MessageEncoding
<1>3. /\ frame \in Seq(Octet) /\ Len(frame) = Len(enc) + 2
      /\ frame[1] = 0 /\ frame[Len(enc) + 2] = 0
      /\ \A k \in 1..Len(enc) : frame[k + 1] = enc[k]
  BY <1>2, FrameBytes
<1> HIDE DEF frame
<1>4. /\ longer \in Seq(Octet) /\ Len(longer) = L + Len(frame)
      /\ \A i \in 1..(L + Len(frame)) :
           longer[i] = IF i <= L THEN stream[i] ELSE frame[i - L]
  BY <1>1, <1>3, ConcatProperties
<1>5. /\ more \in Seq(Messages) /\ Len(more) = N + 1 /\ more[N + 1] = m
      /\ \A i \in 1..N : more[i] = ms[i]
  BY <1>1, AppendProperties
<1> DEFINE w == Len(enc)
<1> HIDE DEF enc, longer, more, w
<1>6. /\ w \in Nat /\ Len(frame) = w + 2 /\ Len(longer) = L + w + 2
      /\ \A i \in 1..(L + w + 2) : longer[i] = IF i <= L THEN stream[i] ELSE frame[i - L]
  <2>1. w \in Nat /\ Len(frame) = w + 2
    BY <1>2, <1>3 DEF w
  <2>2. Len(longer) = L + (w + 2) /\ L + (w + 2) = L + w + 2
    BY <1>1, <1>4, <2>1
  <2> QED BY <1>4, <2>1, <2>2
<1> HIDE DEF N, L
<1>7. there \in [0..(N + 1) -> Nat] /\ there[0] = 0 /\ there[N + 1] = L + w + 2
  <2>1. \A i \in 0..(N + 1) : i <= N => ends[i] \in Nat
    BY <1>1
  <2>2. there \in [0..(N + 1) -> Nat]
    BY <1>1, <1>6, <2>1 DEF w
  <2>3. 0 \in 0..(N + 1) /\ 0 <= N /\ N + 1 \in 0..(N + 1) /\ ~(N + 1 <= N)
    BY <1>1
  <2> QED BY <1>1, <2>2, <2>3 DEF w
<1>8. ASSUME NEW i \in 1..N
      PROVE  FrameAt(longer, there[i - 1], there[i], Encoded(more[i]))
  <2> DEFINE e == Encoded(ms[i])
             x == ends[i - 1]
             y == ends[i]
  <2>1. FrameAt(stream, x, y, e)
    BY <1>1
  <2>2. x \in Nat /\ y \in Nat /\ Len(e) \in Nat /\ y = x + Len(e) + 2
    BY FrameLengths DEF N
  <2>3. y <= L
    <3>1. CASE i = N
      BY <1>1, <2>2, <3>1
    <3>2. CASE i # N
      <4>1. i \in 0..N /\ N \in 0..N /\ i < N
        BY <1>1, <3>2
      <4>2. ends[i] < ends[N]
        BY <4>1, EndsIncrease DEF N
      <4> QED BY <1>1, <2>2, <4>2
    <3> QED BY <3>1, <3>2
  <2>4. there[i - 1] = x /\ there[i] = y
    <3>1. i \in 0..(N + 1) /\ i - 1 \in 0..(N + 1) /\ i <= N /\ i - 1 <= N
      BY <1>1
    <3> QED BY <3>1
  <2> HIDE DEF e, x, y, there
  <2>5. Encoded(more[i]) = e
    BY <1>5 DEF e
  <2>6. /\ stream[x + 1] = 0 /\ stream[y] = 0
        /\ \A k \in 1..Len(e) : stream[x + 1 + k] = e[k]
    BY <2>1 DEF FrameAt
  <2>7. /\ x + 1 \in 1..(L + w + 2) /\ x + 1 <= L /\ y \in 1..(L + w + 2) /\ y <= L
        /\ \A k \in 1..Len(e) : x + 1 + k \in 1..(L + w + 2) /\ x + 1 + k <= L
    BY <1>1, <1>6, <2>2, <2>3
  <2>8. /\ longer[x + 1] = 0 /\ longer[y] = 0
        /\ \A k \in 1..Len(e) : longer[x + 1 + k] = e[k]
    BY <1>6, <2>6, <2>7
  <2> QED BY <2>2, <2>4, <2>5, <2>8 DEF FrameAt
<1>9. FrameAt(longer, there[N], there[N + 1], Encoded(more[N + 1]))
  <2>1. there[N] = L
    <3>1. N \in 0..(N + 1) /\ N <= N
      BY <1>1
    <3> QED BY <1>1, <3>1
  <2> HIDE DEF there
  <2>2. Encoded(more[N + 1]) = enc
    BY <1>5 DEF enc
  <2>3. ASSUME NEW k \in 1..(w + 2) PROVE longer[L + k] = frame[k]
    <3> DEFINE i == L + k
    <3>1. i \in 1..(L + w + 2) /\ ~(i <= L) /\ i - L = k
      BY <1>1, <1>6
    <3> HIDE DEF i
    <3>2. longer[i] = frame[i - L]
      BY <1>6, <3>1
    <3> QED BY <3>1, <3>2 DEF i
  <2>4. longer[L + 1] = 0 /\ longer[L + w + 2] = 0
    <3>1. 1 \in 1..(w + 2) /\ w + 2 \in 1..(w + 2) /\ L + (w + 2) = L + w + 2
      BY <1>1, <1>6
    <3>2. longer[L + 1] = frame[1] /\ longer[L + (w + 2)] = frame[w + 2]
      BY <2>3, <3>1
    <3> QED BY <1>3, <3>1, <3>2 DEF w
  <2>5. ASSUME NEW k \in 1..w PROVE longer[L + 1 + k] = enc[k]
    <3>1. k + 1 \in 1..(w + 2) /\ L + 1 + k = L + (k + 1)
      BY <1>1, <1>6
    <3>2. longer[L + (k + 1)] = frame[k + 1]
      BY <2>3, <3>1
    <3> QED BY <1>3, <3>1, <3>2 DEF w
  <2> QED BY <1>7, <2>1, <2>2, <2>4, <2>5 DEF FrameAt, w
<1>10. \A i \in 1..(N + 1) : FrameAt(longer, there[i - 1], there[i], Encoded(more[i]))
  <2> HIDE DEF there
  <2> SUFFICES ASSUME NEW i \in 1..(N + 1)
               PROVE  FrameAt(longer, there[i - 1], there[i], Encoded(more[i]))
    OBVIOUS
  <2>1. CASE i \in 1..N
    BY <1>8, <2>1
  <2>2. CASE i = N + 1
    <3>1. i - 1 = N
      BY <1>1, <2>2
    <3> QED BY <1>9, <2>2, <3>1
  <2>3. i \in 1..N \/ i = N + 1
    BY <1>1
  <2> QED BY <2>1, <2>2, <2>3
<1> HIDE DEF there
<1>11. Layout(longer, there, more)
  BY <1>4, <1>5, <1>6, <1>7, <1>10 DEF Layout
<1> QED BY <1>11 DEF longer, there, more, frame, enc, N, L, w

-----------------------------------------------------------------------------
(* The deframer d holds what the stream carries from offset p on, up to      *)
(* where rest, which it has not read yet, begins.  A deframer looking for    *)
(* the end of a frame has just read a framing byte and the bytes of work.    *)
Held(stream, p, d, rest) ==
  /\ d \in Deframer /\ Len(d.work) <= Depth
  /\ rest \in Seq(Octet)
  /\ p \in 0..Len(stream)
  /\ Suffix(stream, p) = d.work \o (d.fifo \o rest)
  /\ d.state = "INIT" => d.work = << >>
  /\ d.state = "FIND_EOF" => p > 0 /\ stream[p] = 0 /\ ZeroFreeSeq(d.work)

(* A call of the deframer that ends with r has moved on from offset p, and   *)
(* has delivered nothing or the message of a frame that ends beyond p. *)
Moves(stream, ends, ms, p, r, rest) ==
  \E q \in p..Len(stream) :
    /\ Held(stream, q, r.deframer, rest)
    /\ r.len > 0 => \E i \in 1..Len(ms) : p < ends[i] /\ ends[i] <= q /\ r.msg = ms[i]

(* What is flushed is passed over. *)
LEMMA FlushMoves ==
  ASSUME NEW stream \in Seq(Octet), NEW ends, NEW ms, NEW p \in 0..Len(stream),
         NEW s \in Seq(Octet), NEW rest \in Seq(Octet),
         Splits(stream, p, s, rest)
  PROVE  Moves(stream, ends, ms, p, Return(Flushed), rest)
<1> DEFINE q == p + Len(s)
           r == Return(Flushed)
<1>1. q \in 0..Len(stream) /\ Suffix(stream, q) = rest
  BY SuffixDrop
<1>2. q \in p..Len(stream)
  BY <1>1
<1>3. rest = << >> \o (<< >> \o rest)
  BY ConcatEmptySeq
<1>4. r.deframer = Flushed /\ r.len = 0
  BY DEF Return
<1>5. Len(<< >>) <= Depth
  BY BufferAssumption, EmptySeq
<1> HIDE DEF q, r
<1>6. Held(stream, q, r.deframer, rest)
  <2>1. Flushed.state # "FIND_EOF"
    BY FlushedType
  <2> QED BY <1>1, <1>3, <1>4, <1>5, <2>1, FlushedType DEF Held
<1>7. ~(r.len > 0)
  BY <1>4
<1>8. Moves(stream, ends, ms, p, r, rest)
  BY <1>2, <1>6, <1>7 DEF Moves
<1> QED BY <1>8 DEF r

(* The bytes between two framing bytes decode to the message of a frame. *)
LEMMA FrameFound ==
  ASSUME SafeMessages, NEW stream, NEW ends, NEW ms, Layout(stream, ends, ms),
         NEW p \in 1..Len(stream), NEW frame \in Seq(Octet), ZeroFreeSeq(frame),
         NEW q \in 1..Len(stream), q = p + Len(frame) + 1,
         stream[p] = 0, stream[q] = 0,
         \A k \in 1..Len(frame) : stream[p + k] = frame[k],
         Decode(frame, MaxOut).len > 0
  PROVE  \E i \in 1..Len(ms) : q = ends[i] /\ frame = Encoded(ms[i])
                               /\ Decode(frame, MaxOut).msg = ms[i]
<1> DEFINE w == Len(frame)
<1>1. w \in Nat /\ p \in Nat /\ q \in Nat
  BY DEF Layout
<1>2. w # 0
  <2> SUFFICES ASSUME w = 0 PROVE FALSE
    OBVIOUS
  <2>1. frame = << >>
    BY EmptySeq
  <2>2. MaxOut \in Nat
    BY BufferAssumption
  <2>3. Decode(frame, MaxOut) = Failed
    BY <2>1, <2>2, DecodeResult
  <2>4. ~(Failed.len > 0)
    BY DEF Failed
  <2> QED BY <2>3, <2>4
<1>3. \A k \in Nat : p < k /\ k < q => stream[k] # 0
  <2> SUFFICES ASSUME NEW k \in Nat, p < k, k < q PROVE stream[k] # 0
    OBVIOUS
  <2> DEFINE j == k - p
  <2>1. j \in 1..w /\ p + j = k
    BY <1>1
  <2> HIDE DEF j
  <2> QED BY <2>1 DEF ZeroFreeSeq
<1>4. p + 1 < q
  BY <1>1, <1>2
<1>5. PICK i \in 1..Len(ms) : p = ends[i - 1] + 1 /\ q = ends[i]
  <2>1. Bracket(stream, p, q)
    BY <1>3, <1>4 DEF Bracket
  <2> QED BY <2>1, Segment
<1> DEFINE enc == Encoded(ms[i])
<1>6. /\ ms[i] \in Messages /\ ends[i - 1] \in Nat /\ Len(enc) \in Nat
      /\ ends[i] = ends[i - 1] + Len(enc) + 2
  BY FrameLengths
<1>7. ms[i] \in Seq(Octet) /\ enc \in Seq(Octet)
  BY <1>6, MessageEncoding
<1>8. \A k \in 1..Len(enc) : stream[ends[i - 1] + 1 + k] = enc[k]
  BY DEF Layout, FrameAt
<1> HIDE DEF enc
<1>9. Len(frame) = Len(enc)
  <2> DEFINE x == ends[i - 1]
             y == ends[i]
             l == Len(enc)
  <2>1. /\ x \in Nat /\ l \in Nat /\ y = x + l + 2 /\ p = x + 1 /\ q = y
        /\ q = p + w + 1
    BY <1>5, <1>6
  <2> HIDE DEF x, y, l, w
  <2>2. w = l
    BY <1>1, <2>1
  <2> QED BY <2>2 DEF w, l
<1>10. \A k \in 1..Len(frame) : frame[k] = enc[k]
  BY <1>5, <1>8, <1>9
<1>11. frame = enc
  BY <1>7, <1>9, <1>10, SeqEqual
<1>12. Decode(enc, MaxOut) = IF Len(ms[i]) <= MaxOut
                             THEN [len |-> Len(ms[i]), msg |-> ms[i]] ELSE Failed
  BY <1>7, BufferAssumption, DecodeInverts DEF enc
<1>13. Decode(enc, MaxOut).msg = ms[i]
  <2>1. ~(Failed.len > 0)
    BY DEF Failed
  <2> QED BY <1>11, <1>12, <2>1
<1> QED BY <1>5, <1>11, <1>13 DEF enc

(* The call that finds the end of a frame. *)
LEMMA DecodeFrameMoves ==
  ASSUME SafeMessages, NEW stream, NEW ends, NEW ms, Layout(stream, ends, ms),
         NEW p \in 1..Len(stream), stream[p] = 0,
         NEW frame \in Seq(Octet), ZeroFreeSeq(frame),
         NEW fifo \in Seq(Octet), NEW rest \in Seq(Octet),
         Splits(stream, p, frame \o << 0 >>, fifo \o rest)
  PROVE  Moves(stream, ends, ms, p, DecodeFrame(frame, fifo), rest)
<1> DEFINE num == Decode(frame, MaxOut)
           closed == frame \o << 0 >>
           more == fifo \o rest
           q == p + Len(closed)
<1>0. stream \in Seq(Octet) /\ Len(stream) \in Nat /\ p \in Nat /\ p \in 0..Len(stream)
  BY DEF Layout
<1>1. /\ closed \in Seq(Octet) /\ Len(closed) = Len(frame) + 1
      /\ closed[Len(frame) + 1] = 0
      /\ \A k \in 1..Len(frame) : closed[k] = frame[k]
  <2>1. << 0 >> \in Seq(Octet)
    BY MaxCodeAssumption DEF Octet
  <2> QED BY <2>1
<1>2. more \in Seq(Octet) /\ Len(frame) \in Nat /\ Len(fifo) \in Nat
  BY ConcatProperties
<1> HIDE DEF closed, more
<1>3. /\ q \in 0..Len(stream) /\ Suffix(stream, q) = more
      /\ \A k \in 1..Len(closed) : stream[p + k] = closed[k]
  <2>1. Splits(stream, p, closed, more)
    BY DEF closed, more
  <2>2. /\ stream \in Seq(Octet) /\ p \in 0..Len(stream)
        /\ closed \in Seq(Octet) /\ more \in Seq(Octet)
    BY <1>0, <1>1, <1>2
  <2> QED BY <2>1, <2>2, SuffixDrop
<1>4. q = p + Len(frame) + 1 /\ q \in 1..Len(stream) /\ q \in p..Len(stream)
  BY <1>0, <1>1, <1>2, <1>3
<1>5. \A k \in 1..Len(frame) : stream[p + k] = frame[k]
  BY <1>1, <1>2, <1>3
<1>6. stream[q] = 0
  <2>1. Len(frame) + 1 \in 1..Len(closed) /\ p + (Len(frame) + 1) = q
    BY <1>0, <1>1, <1>2, <1>4
  <2>2. stream[p + (Len(frame) + 1)] = closed[Len(frame) + 1]
    BY <1>3, <2>1
  <2> QED BY <1>1, <2>1, <2>2
<1> HIDE DEF q
<1>7. num \in Result
  BY DecodeResult, BufferAssumption
<1>8. CASE num.len < 0
  <2> HIDE DEF num
  <2>1. DecodeFrame(frame, fifo) = Return(Flushed)
    BY <1>8 DEF DecodeFrame, num
  <2>2. Splits(stream, q, fifo, rest)
    BY <1>3 DEF Splits, more
  <2>3. Moves(stream, ends, ms, q, Return(Flushed), rest)
    BY <1>0, <1>3, <2>2, FlushMoves
  <2>4. PICK q2 \in q..Len(stream) : Held(stream, q2, Flushed, rest)
    BY <2>3 DEF Moves, Return
  <2>5. q2 \in p..Len(stream)
    BY <1>0, <1>4
  <2> QED BY <2>1, <2>4, <2>5 DEF Moves, Return
<1>9. CASE ~(num.len < 0)
  <2> DEFINE d == [Flushed EXCEPT !.fifo = fifo]
             r == DecodeFrame(frame, fifo)
  <2> HIDE DEF num
  <2>1. r = Deliver(d, num)
    BY <1>9 DEF DecodeFrame, num
  <2>2. r.deframer = d /\ r.len = num.len /\ r.msg = num.msg
    BY <2>1 DEF Deliver
  <2>3. /\ d \in Deframer /\ d.state = "INIT" /\ d.work = << >> /\ d.fifo = fifo
    <3>1. d = [state |-> "INIT", work |-> << >>, fifo |-> fifo]
      BY DEF Flushed
    <3>2. << >> \in Seq(Octet)
      BY EmptySeq
    <3> HIDE DEF d
    <3> QED BY <3>1, <3>2 DEF Deframer
  <2> HIDE DEF d, r
  <2>4. Held(stream, q, d, rest)
    <3>1. Suffix(stream, q) = << >> \o (fifo \o rest)
      BY <1>2, <1>3, ConcatEmptySeq DEF more
    <3>2. Len(d.work) <= Depth
      BY <2>3, BufferAssumption, EmptySeq
    <3> QED BY <1>3, <2>3, <3>1, <3>2 DEF Held
  <2>5. ASSUME num.len > 0
        PROVE  \E i \in 1..Len(ms) : p < ends[i] /\ ends[i] <= q /\ num.msg = ms[i]
    <3>1. PICK i \in 1..Len(ms) : q = ends[i] /\ num.msg = ms[i]
      BY <1>4, <1>5, <1>6, <2>5, FrameFound DEF num
    <3>2. p < q /\ q <= q
      BY <1>0, <1>2, <1>4
    <3> QED BY <3>1, <3>2
  <2>6. r.len > 0 => \E i \in 1..Len(ms) : p < ends[i] /\ ends[i] <= q /\ r.msg = ms[i]
    BY <2>2, <2>5
  <2>7. Moves(stream, ends, ms, p, r, rest)
    BY <1>4, <2>2, <2>4, <2>6 DEF Moves
  <2> QED BY <2>7 DEF r
<1>10. num.len < 0 \/ ~(num.len < 0)
  OBVIOUS
<1> QED BY <1>8, <1>9

(* The bytes before the first framing byte. *)
LEMMA BeforeFramingByte ==
  ASSUME NEW fifo \in Seq(Octet), NEW eof \in 1..Len(fifo), FramingByte(fifo) = eof
  PROVE  /\ SubSeq(fifo, 1, eof - 1) \in Seq(Octet)
         /\ Len(SubSeq(fifo, 1, eof - 1)) = eof - 1
         /\ ZeroFreeSeq(SubSeq(fifo, 1, eof - 1))
         /\ SubSeq(fifo, eof + 1, Len(fifo)) \in Seq(Octet)
         /\ fifo = (SubSeq(fifo, 1, eof - 1) \o << 0 >>) \o SubSeq(fifo, eof + 1, Len(fifo))
<1> DEFINE n == Len(fifo)
           head == SubSeq(fifo, 1, eof - 1)
           tail == SubSeq(fifo, eof + 1, n)
<1>1. n \in Nat /\ eof \in Nat /\ eof - 1 \in 0..n /\ eof \in 0..n
  OBVIOUS
<1>2. fifo[eof] = 0 /\ \A i \in 1..(eof - 1) : fifo[i] # 0
  BY <1>1, FramingByteIs
<1>3. /\ head \in Seq(Octet) /\ Len(head) = eof - 1
      /\ \A i \in 1..(eof - 1) : head[i] = fifo[i]
  BY <1>1, Cut
<1>4. ZeroFreeSeq(head)
  <2> HIDE DEF head
  <2> QED BY <1>2, <1>3 DEF ZeroFreeSeq
<1>5. tail \in Seq(Octet) /\ fifo = SubSeq(fifo, 1, eof) \o tail
  BY <1>1, Cut
<1>6. SubSeq(fifo, 1, eof) = head \o << 0 >>
  <2>1. SubSeq(fifo, 1, eof) = SubSeq(fifo, 1, eof - 1) \o << fifo[eof] >>
    <3>1. 1 \in 1..Len(fifo) /\ eof \in 1..Len(fifo)
      BY <1>1
    <3> QED BY <3>1, SubSeqRecursiveSecond
  <2> QED BY <1>2, <2>1
<1> QED BY <1>3, <1>4, <1>5, <1>6

(* case FIND_EOF *)
LEMMA FindEofMoves ==
  ASSUME SafeMessages, NEW stream, NEW ends, NEW ms, Layout(stream, ends, ms),
         NEW p, NEW d, NEW rest, Held(stream, p, d, rest), d.state = "FIND_EOF"
  PROVE  Moves(stream, ends, ms, p, FindEof(d), rest)
<1> DEFINE eof  == FramingByte(d.fifo)
           room == Depth - Len(d.work)
           n    == Len(d.fifo)
<1>1. /\ stream \in Seq(Octet) /\ Len(stream) \in Nat
      /\ d \in Deframer /\ d.work \in Seq(Octet) /\ d.fifo \in Seq(Octet)
      /\ rest \in Seq(Octet) /\ Len(d.work) \in Nat /\ n \in Nat
  BY DEF Held, Layout, Deframer
<1>2. /\ p \in 0..Len(stream) /\ p > 0 /\ stream[p] = 0 /\ ZeroFreeSeq(d.work)
      /\ Len(d.work) <= Depth
      /\ Suffix(stream, p) = d.work \o (d.fifo \o rest)
  BY DEF Held
<1>3. p \in 1..Len(stream) /\ p \in p..Len(stream)
  BY <1>1, <1>2
<1>4. room \in Nat /\ Depth \in Nat
  BY <1>1, <1>2, BufferAssumption
<1>5. eof \in 0..n
  BY <1>1, FramingByteIs
<1>6. CASE eof \in 1..room
  <2> DEFINE head == SubSeq(d.fifo, 1, eof - 1)
             tail == SubSeq(d.fifo, eof + 1, n)
             frame == d.work \o head
  <2>1. eof \in 1..Len(d.fifo)
    BY <1>1, <1>4, <1>5, <1>6
  <2>2. /\ head \in Seq(Octet) /\ ZeroFreeSeq(head) /\ tail \in Seq(Octet)
        /\ d.fifo = (head \o << 0 >>) \o tail
    BY <1>1, <2>1, BeforeFramingByte
  <2>3. FindEof(d) = DecodeFrame(frame, tail)
    BY <1>6 DEF FindEof
  <2> HIDE DEF head, tail, eof
  <2>4. frame \in Seq(Octet) /\ ZeroFreeSeq(frame)
    BY <1>1, <1>2, <2>2, ZeroFreeConcat
  <2>5. << 0 >> \in Seq(Octet)
    BY MaxCodeAssumption DEF Octet
  <2>6. Splits(stream, p, frame \o << 0 >>, tail \o rest)
    <3> DEFINE mark == << 0 >>
               begin == head \o mark
    <3>1. begin \in Seq(Octet) /\ mark \in Seq(Octet)
      BY <2>2, <2>5, ConcatProperties
    <3>2. Suffix(stream, p) = d.work \o ((begin \o tail) \o rest)
      BY <1>2, <2>2
    <3> HIDE DEF mark
    <3>0. /\ d.work \in Seq(Octet) /\ head \in Seq(Octet) /\ tail \in Seq(Octet)
          /\ mark \in Seq(Octet) /\ rest \in Seq(Octet) /\ begin \in Seq(Octet)
      BY <1>1, <2>2, <3>1
    <3>3. (d.work \o head) \o mark = d.work \o begin
      <4> DEFINE w == d.work
      <4>1. w \in Seq(Octet) /\ head \in Seq(Octet) /\ mark \in Seq(Octet)
        BY <3>0
      <4> HIDE DEF w
      <4>2. (w \o head) \o mark = w \o (head \o mark)
        BY <4>1, Associates, Zenon
      <4> QED BY <4>2 DEF w
    <3> HIDE DEF begin
    <3>4. d.work \o ((begin \o tail) \o rest) = (d.work \o begin) \o (tail \o rest)
      <4>1. (begin \o tail) \o rest = begin \o (tail \o rest)
        BY <3>0, Associates, Zenon
      <4>2. tail \o rest \in Seq(Octet)
        BY <3>0, ConcatProperties, Zenon
      <4> DEFINE more == tail \o rest
      <4> HIDE DEF more
      <4>3. (d.work \o begin) \o more = d.work \o (begin \o more)
        <5>1. d.work \in Seq(Octet) /\ begin \in Seq(Octet) /\ more \in Seq(Octet)
          BY <3>0, <4>2 DEF more
        <5> QED BY <5>1, Associates, Zenon
      <4> QED BY <4>1, <4>3 DEF more
    <3> QED BY <3>2, <3>3, <3>4 DEF Splits, mark
  <2> HIDE DEF frame
  <2>7. Moves(stream, ends, ms, p, DecodeFrame(frame, tail), rest)
    BY <1>1, <1>2, <1>3, <2>2, <2>4, <2>6, DecodeFrameMoves
  <2> QED BY <2>3, <2>7
<1>7. CASE ~(eof \in 1..room)
  <2> DEFINE moved == IF n <= room THEN n ELSE room
             head == SubSeq(d.fifo, 1, moved)
             tail == SubSeq(d.fifo, moved + 1, n)
             work == d.work \o head
             state == IF n <= room THEN "FIND_EOF" ELSE "ERROR"
             left == [state |-> state, work |-> work, fifo |-> tail]
  <2>1. FindEof(d) = Return(left)
    BY <1>7 DEF FindEof
  <2>2. moved \in 0..Len(d.fifo) /\ moved <= room
    <3> HIDE DEF room, n
    <3>1. n \in Nat /\ room \in Nat
      BY <1>1, <1>4
    <3>2. moved \in 0..n /\ moved <= room
      BY <3>1
    <3> QED BY <3>2 DEF n
  <2> HIDE DEF moved
  <2>3. /\ head \in Seq(Octet) /\ Len(head) = moved /\ tail \in Seq(Octet)
        /\ d.fifo = head \o tail /\ \A i \in 1..moved : head[i] = d.fifo[i]
    BY <1>1, <2>2, Cut
  <2> HIDE DEF head, tail
  <2>4. work \in Seq(Octet) /\ Len(work) = Len(d.work) + moved /\ Len(work) <= Depth
    <3>1. work \in Seq(Octet) /\ Len(work) = Len(d.work) + Len(head)
      BY <1>1, <2>3, ConcatProperties
    <3> QED BY <1>1, <1>4, <2>2, <2>3, <3>1
  <2>5. Suffix(stream, p) = work \o (tail \o rest)
    <3>1. Suffix(stream, p) = d.work \o ((head \o tail) \o rest)
      BY <1>2, <2>3
    <3>2. /\ d.work \in Seq(Octet) /\ head \in Seq(Octet) /\ tail \in Seq(Octet)
          /\ rest \in Seq(Octet)
      BY <1>1, <2>3
    <3>3. d.work \o ((head \o tail) \o rest) = (d.work \o head) \o (tail \o rest)
      <4>1. (head \o tail) \o rest = head \o (tail \o rest)
        BY <3>2, Associates, Zenon
      <4>2. tail \o rest \in Seq(Octet)
        BY <3>2, ConcatProperties, Zenon
      <4>3. (d.work \o head) \o (tail \o rest) = d.work \o (head \o (tail \o rest))
        BY <3>2, <4>2, Associates, Zenon
      <4> QED BY <4>1, <4>3
    <3> QED BY <3>1, <3>3
  <2>6. ASSUME n <= room PROVE ZeroFreeSeq(work)
    <3>1. eof = 0 /\ moved = n
      <4> HIDE DEF eof, room, n
      <4> QED BY <1>1, <1>4, <1>5, <1>7, <2>6 DEF moved
    <3>2. ZeroFreeSeq(d.fifo)
      BY <1>1, <3>1, NoFramingByteIn
    <3>3. ZeroFreeSeq(head)
      BY <2>3, <3>1, <3>2 DEF ZeroFreeSeq
    <3> QED BY <1>1, <1>2, <2>3, <3>3, ZeroFreeConcat
  <2>7. left \in Deframer
    BY <2>3, <2>4 DEF Deframer
  <2>8. /\ left.work = work /\ left.fifo = tail /\ left.state # "INIT"
        /\ left.state = "FIND_EOF" => n <= room
    OBVIOUS
  <2> HIDE DEF left, work
  <2>9. Held(stream, p, left, rest)
    BY <1>1, <1>2, <2>4, <2>5, <2>6, <2>7, <2>8 DEF Held
  <2>10. Moves(stream, ends, ms, p, Return(left), rest)
    BY <1>3, <2>9 DEF Moves, Return
  <2> QED BY <2>1, <2>10
<1> QED BY <1>6, <1>7

(* A call that moves on from an offset beyond p moves on from p. *)
LEMMA MovesFrom ==
  ASSUME NEW stream \in Seq(Octet), NEW ends, NEW ms, NEW p \in Nat, NEW p2 \in Nat, p <= p2,
         ends \in [0..Len(ms) -> Nat], Len(ms) \in Nat,
         NEW r, NEW rest, Moves(stream, ends, ms, p2, r, rest)
  PROVE  Moves(stream, ends, ms, p, r, rest)
<1>1. PICK q \in p2..Len(stream) :
        /\ Held(stream, q, r.deframer, rest)
        /\ r.len > 0 => \E i \in 1..Len(ms) : p2 < ends[i] /\ ends[i] <= q /\ r.msg = ms[i]
  BY DEF Moves
<1>2. q \in p..Len(stream)
  <2>1. Len(stream) \in Nat
    OBVIOUS
  <2> QED BY <2>1
<1>3. ASSUME r.len > 0
      PROVE  \E i \in 1..Len(ms) : p < ends[i] /\ ends[i] <= q /\ r.msg = ms[i]
  <2>1. PICK i \in 1..Len(ms) : p2 < ends[i] /\ ends[i] <= q /\ r.msg = ms[i]
    BY <1>1, <1>3
  <2>2. ends[i] \in Nat
    OBVIOUS
  <2>3. p < ends[i]
    BY <2>1, <2>2
  <2> QED BY <2>1, <2>3
<1> QED BY <1>1, <1>2, <1>3 DEF Moves

(* cases INIT and FIND_SOF *)
LEMMA FindSofMoves ==
  ASSUME SafeMessages, NEW stream, NEW ends, NEW ms, Layout(stream, ends, ms),
         NEW p, NEW d, NEW rest, Held(stream, p, d, rest), d.state = "INIT"
  PROVE  Moves(stream, ends, ms, p, FindSof(d), rest)
<1> DEFINE sof == FramingByte(d.fifo)
           n   == Len(d.fifo)
<1>1. /\ stream \in Seq(Octet) /\ Len(stream) \in Nat
      /\ d \in Deframer /\ d.fifo \in Seq(Octet) /\ d.work = << >>
      /\ rest \in Seq(Octet) /\ n \in Nat /\ p \in 0..Len(stream) /\ p \in Nat
  BY DEF Held, Layout, Deframer
<1>2. Suffix(stream, p) = d.fifo \o rest
  <2>1. Suffix(stream, p) = << >> \o (d.fifo \o rest)
    BY <1>1 DEF Held
  <2>2. d.fifo \o rest \in Seq(Octet)
    BY <1>1, ConcatProperties
  <2> QED BY <2>1, <2>2, ConcatEmptySeq
<1>3. sof \in 0..n
  BY <1>1, FramingByteIs
<1>4. CASE sof = 0
  <2>1. FindSof(d) = Return(Flushed)
    BY <1>4 DEF FindSof
  <2>2. Splits(stream, p, d.fifo, rest)
    BY <1>2 DEF Splits
  <2> QED BY <1>1, <2>1, <2>2, FlushMoves
<1>5. CASE sof # 0
  <2> DEFINE head == SubSeq(d.fifo, 1, sof)
             tail == SubSeq(d.fifo, sof + 1, n)
             found == [state |-> "FIND_EOF", work |-> << >>, fifo |-> tail]
             p2 == p + Len(head)
  <2>1. FindSof(d) = FindEof(found)
    BY <1>5 DEF FindSof
  <2>2. sof \in 1..n /\ d.fifo[sof] = 0
    BY <1>1, <1>3, <1>5, FramingByteIs
  <2> HIDE DEF sof
  <2>3. /\ head \in Seq(Octet) /\ Len(head) = sof /\ tail \in Seq(Octet)
        /\ d.fifo = head \o tail /\ \A i \in 1..sof : head[i] = d.fifo[i]
    BY <1>1, <1>3, Cut
  <2> HIDE DEF head, tail
  <2>4. Splits(stream, p, head, tail \o rest)
    <3>0. head \in Seq(Octet) /\ tail \in Seq(Octet) /\ rest \in Seq(Octet)
      BY <1>1, <2>3
    <3>1. (head \o tail) \o rest = head \o (tail \o rest)
      BY <3>0, Associates, Zenon
    <3> QED BY <1>2, <2>3, <3>1 DEF Splits
  <2>5. tail \o rest \in Seq(Octet)
    BY <1>1, <2>3, ConcatProperties
  <2>6. /\ p2 \in 0..Len(stream) /\ Suffix(stream, p2) = tail \o rest
        /\ \A k \in 1..Len(head) : stream[p + k] = head[k]
    <3> DEFINE more == tail \o rest
    <3>1. more \in Seq(Octet) /\ Splits(stream, p, head, more)
      BY <2>4, <2>5
    <3> HIDE DEF more
    <3>2. /\ p2 \in 0..Len(stream) /\ Suffix(stream, p2) = more
          /\ \A k \in 1..Len(head) : stream[p + k] = head[k]
      BY <1>1, <2>3, <3>1, SuffixDrop
    <3> QED BY <3>2 DEF more
  <2>7. p2 = p + sof /\ p2 > 0 /\ p <= p2 /\ p2 \in Nat
    BY <1>1, <2>2, <2>3
  <2>8. stream[p2] = 0
    BY <2>2, <2>3, <2>6, <2>7
  <2> HIDE DEF p2
  <2>9. Held(stream, p2, found, rest)
    <3>1. found \in Deframer
      BY <2>3, EmptySeq DEF Deframer
    <3>2. found.work = << >> /\ found.fifo = tail /\ found.state = "FIND_EOF"
      OBVIOUS
    <3> HIDE DEF found
    <3>3. Len(found.work) <= Depth /\ ZeroFreeSeq(found.work)
      BY <3>2, BufferAssumption, EmptySeq DEF ZeroFreeSeq
    <3>4. Suffix(stream, p2) = << >> \o (tail \o rest)
      BY <2>5, <2>6, ConcatEmptySeq
    <3> QED BY <1>1, <2>6, <2>7, <2>8, <3>1, <3>2, <3>3, <3>4 DEF Held
  <2>10. Moves(stream, ends, ms, p2, FindEof(found), rest)
    <3>1. found.state = "FIND_EOF"
      OBVIOUS
    <3> HIDE DEF found
    <3> QED BY <2>9, <3>1, FindEofMoves
  <2>11. Moves(stream, ends, ms, p, FindEof(found), rest)
    <3> HIDE DEF found
    <3>1. ends \in [0..Len(ms) -> Nat] /\ Len(ms) \in Nat
      BY DEF Layout
    <3> QED BY <1>1, <2>7, <2>10, <3>1, MovesFrom
  <2> QED BY <2>1, <2>11
<1> QED BY <1>4, <1>5

(* Cobs_deframer: whatever a call does, it moves on in the stream. *)
LEMMA DeframeMoves ==
  ASSUME SafeMessages, NEW stream, NEW ends, NEW ms, Layout(stream, ends, ms),
         NEW p, NEW d, NEW chunk \in Seq(Octet), NEW rest \in Seq(Octet),
         Held(stream, p, d, chunk \o rest)
  PROVE  Moves(stream, ends, ms, p, Deframe(d, chunk), rest)
<1> DEFINE fifo == d.fifo \o chunk
           written == [d EXCEPT !.fifo = fifo]
<1>1. /\ stream \in Seq(Octet) /\ d \in Deframer /\ p \in 0..Len(stream)
      /\ d.work \in Seq(Octet) /\ d.fifo \in Seq(Octet)
  BY DEF Held, Layout, Deframer
<1>2. fifo \in Seq(Octet)
  BY <1>1, ConcatProperties
<1>3. Suffix(stream, p) = d.work \o (fifo \o rest)
  <2>1. Suffix(stream, p) = d.work \o (d.fifo \o (chunk \o rest))
    BY DEF Held
  <2>2. d.fifo \in Seq(Octet) /\ chunk \in Seq(Octet) /\ rest \in Seq(Octet)
    BY <1>1
  <2>3. (d.fifo \o chunk) \o rest = d.fifo \o (chunk \o rest)
    BY <2>2, Associates, Zenon
  <2> QED BY <2>1, <2>3
<1> HIDE DEF fifo
<1>4. /\ written \in Deframer /\ written.fifo = fifo
      /\ written.work = d.work /\ written.state = d.state
  BY <1>1, <1>2 DEF Deframer
<1> HIDE DEF written
<1>5. Held(stream, p, written, rest)
  BY <1>1, <1>3, <1>4 DEF Held
<1>6. CASE Deframe(d, chunk) = Return(Flushed)
  <2> DEFINE all == d.work \o fifo
  <2>1. all \in Seq(Octet)
    BY <1>1, <1>2, ConcatProperties
  <2>2. all \o rest = d.work \o (fifo \o rest)
    <3>1. d.work \in Seq(Octet) /\ fifo \in Seq(Octet) /\ rest \in Seq(Octet)
      BY <1>1, <1>2
    <3> QED BY <3>1, Associates, Zenon
  <2>3. Splits(stream, p, all, rest)
    BY <1>3, <2>2 DEF Splits
  <2> HIDE DEF all
  <2> QED BY <1>1, <1>6, <2>1, <2>3, FlushMoves
<1>7. CASE d.state = "INIT" /\ Deframe(d, chunk) = FindSof(written)
  BY <1>4, <1>5, <1>7, FindSofMoves
<1>8. CASE d.state = "FIND_EOF" /\ Deframe(d, chunk) = FindEof(written)
  BY <1>4, <1>5, <1>8, FindEofMoves
<1>9. \/ Deframe(d, chunk) = Return(Flushed)
      \/ d.state = "INIT" /\ Deframe(d, chunk) = FindSof(written)
      \/ d.state = "FIND_EOF" /\ Deframe(d, chunk) = FindEof(written)
  <2>1. d.state \in {"INIT", "FIND_EOF", "ERROR"}
    BY <1>1 DEF Deframer
  <2>2. Deframe(d, chunk) =
          IF Depth - Len(d.fifo) < Len(chunk) \/ d.state = "ERROR" THEN Return(Flushed)
          ELSE IF d.state = "INIT" THEN FindSof(written) ELSE FindEof(written)
    BY DEF Deframe, written, fifo
  <2> QED BY <2>1, <2>2
<1> QED BY <1>6, <1>7, <1>8, <1>9

-----------------------------------------------------------------------------
(* A message sent while the deframer is at offset p. *)
LEMMA HeldGrows ==
  ASSUME NEW stream \in Seq(Octet), NEW p, NEW d, NEW rest, Held(stream, p, d, rest),
         NEW frame \in Seq(Octet)
  PROVE  Held(stream \o frame, p, d, rest \o frame)
<1> DEFINE longer == stream \o frame
           L == Len(stream)
           F == Len(frame)
<1>1. /\ longer \in Seq(Octet) /\ Len(longer) = L + F
      /\ \A i \in 1..(L + F) : longer[i] = IF i <= L THEN stream[i] ELSE frame[i - L]
  BY ConcatProperties
<1>2. /\ d \in Deframer /\ d.work \in Seq(Octet) /\ d.fifo \in Seq(Octet)
      /\ rest \in Seq(Octet) /\ p \in 0..Len(stream) /\ Len(d.work) <= Depth
      /\ d.state = "INIT" => d.work = << >>
      /\ d.state = "FIND_EOF" => p > 0 /\ stream[p] = 0 /\ ZeroFreeSeq(d.work)
  BY DEF Held, Deframer
<1>3. Suffix(stream, p) = d.work \o (d.fifo \o rest)
  BY DEF Held
<1>4. L \in Nat /\ F \in Nat /\ p \in Nat /\ p <= L /\ p \in 0..(L + F)
  BY <1>2
<1> HIDE DEF longer
<1> DEFINE left == Suffix(stream, p)
           more == Suffix(longer, p)
           both == left \o frame
<1>5. /\ left \in Seq(Octet) /\ Len(left) = L - p
      /\ \A k \in 1..(L - p) : left[k] = stream[p + k]
  BY <1>2, SuffixIs
<1>6. p \in 0..Len(longer)
  BY <1>1, <1>4
<1>7. /\ more \in Seq(Octet) /\ Len(more) = L + F - p
      /\ \A k \in 1..(L + F - p) : more[k] = longer[p + k]
  <2>1. /\ more \in Seq(Octet) /\ Len(more) = Len(longer) - p
        /\ \A k \in 1..(Len(longer) - p) : more[k] = longer[p + k]
    BY <1>1, <1>6, SuffixIs
  <2> HIDE DEF more, L, F
  <2>2. Len(longer) - p = L + F - p
    <3>1. Len(longer) = L + F
      BY <1>1
    <3> QED BY <1>4, <3>1
  <2> QED BY <2>1, <2>2
<1> HIDE DEF left, more
<1>8. /\ both \in Seq(Octet) /\ Len(both) = L - p + F
      /\ \A k \in 1..(L - p + F) : both[k] = IF k <= L - p THEN left[k] ELSE frame[k - (L - p)]
  <2>1. /\ both \in Seq(Octet) /\ Len(both) = Len(left) + F
        /\ \A k \in 1..(Len(left) + F) :
             both[k] = IF k <= Len(left) THEN left[k] ELSE frame[k - Len(left)]
    BY <1>5, ConcatProperties
  <2> HIDE DEF both
  <2> QED BY <1>5, <2>1
<1> HIDE DEF both
<1>9. Len(more) = Len(both) /\ \A k \in 1..Len(more) : more[k] = both[k]
  <2> HIDE DEF L, F
  <2>1. L + F - p = L - p + F
    BY <1>4
  <2>2. ASSUME NEW k \in 1..(L - p + F) PROVE longer[p + k] = both[k]
    <3>1. p + k \in 1..(L + F) /\ p + k - L = k - (L - p)
      BY <1>4
    <3>2. CASE k <= L - p
      <4>1. p + k <= L /\ k \in 1..(L - p)
        BY <1>4, <3>2
      <4>2. longer[p + k] = stream[p + k]
        <5> DEFINE i == p + k
        <5>1. i \in 1..(L + F) /\ i <= L
          BY <3>1, <4>1
        <5> HIDE DEF i
        <5>2. longer[i] = stream[i]
          BY <1>1, <5>1
        <5> QED BY <5>2 DEF i
      <4>3. both[k] = left[k]
        BY <1>8, <3>2
      <4> QED BY <1>5, <4>1, <4>2, <4>3
    <3>3. CASE ~(k <= L - p)
      <4>1. ~(p + k <= L)
        BY <1>4, <3>3
      <4> DEFINE i == p + k
                 j == k - (L - p)
      <4>2. longer[i] = frame[j]
        <5>1. i \in 1..(L + F) /\ ~(i <= L)
          BY <3>1, <4>1
        <5>2. i - L = j
          BY <1>4
        <5> HIDE DEF i, j
        <5> QED BY <1>1, <5>1, <5>2
      <4>3. both[k] = frame[j]
        BY <1>8, <3>3
      <4> HIDE DEF j
      <4> QED BY <4>2, <4>3
    <3> QED BY <3>2, <3>3
  <2> QED BY <1>7, <1>8, <2>1, <2>2
<1>10. more = both
  BY <1>7, <1>8, <1>9, SeqEqual
<1>11. Suffix(longer, p) = d.work \o (d.fifo \o (rest \o frame))
  <2> DEFINE fr == d.fifo \o rest
  <2>1. fr \in Seq(Octet)
    BY <1>2, ConcatProperties
  <2>2. fr \o frame = d.fifo \o (rest \o frame)
    <3>1. d.fifo \in Seq(Octet) /\ rest \in Seq(Octet) /\ frame \in Seq(Octet)
      BY <1>2
    <3> QED BY <3>1, Associates, Zenon
  <2>3. left = d.work \o fr
    BY <1>3 DEF left
  <2> HIDE DEF fr
  <2>4. (d.work \o fr) \o frame = d.work \o (fr \o frame)
    <3>1. d.work \in Seq(Octet) /\ fr \in Seq(Octet) /\ frame \in Seq(Octet)
      BY <1>2, <2>1
    <3> QED BY <3>1, Associates, Zenon
  <2> QED BY <1>10, <2>2, <2>3, <2>4 DEF more, both
<1>12. rest \o frame \in Seq(Octet)
  BY <1>2, ConcatProperties
<1>13. d.state = "FIND_EOF" => longer[p] = 0
  <2> HIDE DEF L, F
  <2>1. p > 0 => p \in 1..(L + F) /\ p <= L
    BY <1>4
  <2> QED BY <1>1, <1>2, <2>1
<1>14. Held(longer, p, d, rest \o frame)
  BY <1>2, <1>6, <1>11, <1>12, <1>13 DEF Held
<1> QED BY <1>14 DEF longer

LEMMA FramerSends ==
  ASSUME SafeMessages, NEW m \in Messages, Framer(m, MaxEncLen).len > 0
  PROVE  /\ Framer(m, MaxEncLen).frame = Frame(Encoded(m))
         /\ Frame(Encoded(m)) \in Seq(Octet)
<1>1. Encoded(m) \in Seq(Octet)
  BY MessageEncoding
<1>2. Frame(Encoded(m)) \in Seq(Octet)
  BY <1>1, FrameBytes
<1>3. Framer(m, MaxEncLen).frame = Frame(Encoded(m))
  BY DEF Framer
<1> QED BY <1>2, <1>3

(* Every message delivered is one that was sent, in the order sent. *)
Traced(at, got, ms) ==
  /\ at \in [DOMAIN got -> DOMAIN ms]
  /\ \A i, j \in DOMAIN got : i < j => at[i] < at[j]
  /\ \A i \in DOMAIN got : got[i] = ms[at[i]]

(* There is a stream that the messages sent make up, of which the deframer   *)
(* has dealt with the first p bytes, and the messages delivered were framed  *)
(* there.  The stream is the history the variables do not keep. *)
Passed(stream, ends, p, at) ==
  /\ Layout(stream, ends, sent)
  /\ Held(stream, p, deframer, wire)
  /\ Traced(at, delivered, sent)
  /\ \A i \in DOMAIN delivered : ends[at[i]] <= p

StreamInv ==
  /\ delivered \in Seq(Messages)
  /\ \E stream, ends, p, at : Passed(stream, ends, p, at)

LEMMA StreamInit == Init => StreamInv
<1> SUFFICES ASSUME Init PROVE StreamInv
  OBVIOUS
<1> DEFINE none == [i \in 0..0 |-> 0]
           at == [i \in {} |-> 0]
<1>1. /\ sent = << >> /\ wire = << >> /\ deframer = Flushed /\ delivered = << >>
  BY DEF Init
<1>2. Layout(<< >>, none, sent)
  BY <1>1, EmptyLayout
<1>3. Held(<< >>, 0, deframer, wire)
  <2>1. << >> \in Seq(Octet) /\ Len(<< >>) = 0 /\ 0 \in 0..Len(<< >>)
    BY EmptySeq
  <2>2. Suffix(<< >>, 0) = << >>
    BY <2>1, WholeSuffix
  <2>3. << >> \o (<< >> \o << >>) = << >>
    BY <2>1, ConcatEmptySeq
  <2>4. Flushed.state # "FIND_EOF"
    BY FlushedType
  <2> QED BY <1>1, <2>1, <2>2, <2>3, <2>4, FlushedType, BufferAssumption DEF Held
<1>4. DOMAIN delivered = {}
  BY <1>1
<1>5. Traced(at, delivered, sent)
  BY <1>4 DEF Traced
<1> HIDE DEF none, at
<1>6. Passed(<< >>, none, 0, at)
  BY <1>2, <1>3, <1>4, <1>5 DEF Passed
<1>7. delivered \in Seq(Messages)
  BY <1>1, EmptySeq
<1> QED BY <1>6, <1>7 DEF StreamInv

LEMMA StreamSend ==
  ASSUME SafeMessages, StreamInv, Send
  PROVE  StreamInv'
<1>1. PICK stream, ends, p, at : Passed(stream, ends, p, at)
  BY DEF StreamInv
<1>2. PICK m \in Messages :
        /\ Framer(m, MaxEncLen).len > 0
        /\ sent' = Append(sent, m)
        /\ wire' = wire \o Framer(m, MaxEncLen).frame
  BY DEF Send
<1>3. deframer' = deframer /\ delivered' = delivered
  BY DEF Send
<1> DEFINE frame == Frame(Encoded(m))
           longer == stream \o frame
           there == [i \in 0..(Len(sent) + 1) |->
                       IF i <= Len(sent) THEN ends[i] ELSE Len(stream) + Len(Encoded(m)) + 2]
<1>4. wire' = wire \o frame /\ frame \in Seq(Octet)
  BY <1>2, FramerSends
<1>5. /\ Layout(stream, ends, sent) /\ Held(stream, p, deframer, wire)
      /\ Traced(at, delivered, sent) /\ \A i \in DOMAIN delivered : ends[at[i]] <= p
  BY <1>1 DEF Passed
<1>6. stream \in Seq(Octet) /\ sent \in Seq(Messages) /\ Len(sent) \in Nat
  BY <1>5 DEF Layout
<1>7. Layout(longer, there, sent')
  BY <1>2, <1>5, LayoutGrows
<1>8. Held(longer, p, deframer', wire')
  BY <1>3, <1>4, <1>5, <1>6, HeldGrows
<1>9. /\ Len(sent') = Len(sent) + 1
      /\ DOMAIN sent = 1..Len(sent) /\ DOMAIN sent' = 1..(Len(sent) + 1)
      /\ \A i \in 1..Len(sent) : sent'[i] = sent[i]
  BY <1>2, <1>6
<1>10. \A i \in DOMAIN delivered : at[i] \in 1..Len(sent) /\ delivered[i] = sent[at[i]]
  BY <1>5, <1>9 DEF Traced
<1> DEFINE N == Len(sent)
<1>11. /\ \A i \in 1..N : i \in 1..(N + 1) /\ i \in 0..(N + 1) /\ i <= N
  BY <1>6
<1>12. Traced(at, delivered', sent')
  <2>1. at \in [DOMAIN delivered -> DOMAIN sent']
    BY <1>5, <1>9, <1>10, <1>11 DEF Traced
  <2> QED BY <1>3, <1>5, <1>9, <1>10, <2>1 DEF Traced
<1>13. \A i \in DOMAIN delivered' : there[at[i]] <= p
  <2>1. \A i \in DOMAIN delivered : there[at[i]] = ends[at[i]]
    BY <1>10, <1>11
  <2> QED BY <1>3, <1>5, <2>1
<1> HIDE DEF there, longer
<1>14. \E s2, e2, p2, at2 :
         /\ Layout(s2, e2, sent') /\ Held(s2, p2, deframer', wire')
         /\ Traced(at2, delivered', sent') /\ \A i \in DOMAIN delivered' : e2[at2[i]] <= p2
  BY <1>7, <1>8, <1>12, <1>13
<1>15. delivered' \in Seq(Messages)
  BY <1>3 DEF StreamInv
<1> QED BY <1>14, <1>15 DEF StreamInv, Passed

(* A chunk read from the wire, of which no more than the deframer's fifo     *)
(* holds is kept. *)
LEMMA Chunk ==
  ASSUME wire \in Seq(Octet), NEW n \in 1..Len(wire)
  PROVE  /\ SubSeq(wire, 1, n) \in Seq(Octet) /\ Len(SubSeq(wire, 1, n)) = n
         /\ SubSeq(wire, n + 1, Len(wire)) \in Seq(Octet)
         /\ wire = SubSeq(wire, 1, n) \o SubSeq(wire, n + 1, Len(wire))
<1>1. n \in 0..Len(wire)
  OBVIOUS
<1> QED BY <1>1, Cut

LEMMA TracedMore ==
  ASSUME SafeMessages, NEW stream, NEW ends, NEW ms, Layout(stream, ends, ms),
         NEW got \in Seq(Messages), NEW at, Traced(at, got, ms),
         NEW p \in Nat, \A j \in DOMAIN got : ends[at[j]] <= p,
         NEW i \in 1..Len(ms), p < ends[i]
  PROVE  Traced([j \in 1..(Len(got) + 1) |-> IF j <= Len(got) THEN at[j] ELSE i],
                Append(got, ms[i]), ms)
<1> DEFINE N == Len(got)
           more == Append(got, ms[i])
           map == [j \in 1..(N + 1) |-> IF j <= N THEN at[j] ELSE i]
<1>1. /\ ms \in Seq(Messages) /\ Len(ms) \in Nat /\ DOMAIN ms = 1..Len(ms)
      /\ ends \in [0..Len(ms) -> Nat] /\ i \in Nat /\ i \in 0..Len(ms) /\ ends[i] \in Nat
  BY DEF Layout
<1>2. ms[i] \in Messages
  BY <1>1
<1>3. /\ more \in Seq(Messages) /\ Len(more) = N + 1 /\ DOMAIN more = 1..(N + 1)
      /\ more[N + 1] = ms[i] /\ \A j \in 1..N : more[j] = got[j]
  BY <1>2, AppendProperties
<1>4. N \in Nat /\ DOMAIN got = 1..N
  OBVIOUS
<1>5. /\ \A j \in 1..N : at[j] \in 1..Len(ms) /\ got[j] = ms[at[j]] /\ ends[at[j]] <= p
      /\ \A j, k \in 1..N : j < k => at[j] < at[k]
  BY <1>1, <1>4 DEF Traced
<1>6. ASSUME NEW j \in 1..N PROVE at[j] < i
  <2> DEFINE a == at[j]
  <2>1. a \in 1..Len(ms) /\ ends[a] <= p
    BY <1>5
  <2> HIDE DEF a
  <2>2. a \in 0..Len(ms) /\ a \in Nat /\ ends[a] \in Nat
    BY <1>1, <2>1
  <2>3. ends[a] < ends[i]
    BY <1>1, <2>1, <2>2
  <2>4. ~(i < a)
    <3> SUFFICES ASSUME i < a PROVE FALSE
      OBVIOUS
    <3>1. ends[i] < ends[a]
      BY <1>1, <2>2, EndsIncrease
    <3> QED BY <1>1, <2>2, <2>3, <3>1
  <2>5. a # i
    BY <1>1, <2>2, <2>3
  <2>6. a < i
    BY <1>1, <2>2, <2>4, <2>5
  <2> QED BY <2>6 DEF a
<1> HIDE DEF more, N
<1>7. /\ \A j \in 1..N : j \in 1..(N + 1) /\ j <= N
      /\ \A j \in 1..(N + 1) : j \in 1..N \/ j = N + 1
      /\ N + 1 \in 1..(N + 1) /\ ~(N + 1 <= N)
  BY <1>4
<1>8. /\ \A j \in 1..N : map[j] = at[j]
      /\ map[N + 1] = i
      /\ DOMAIN map = 1..(N + 1)
  BY <1>7
<1>9. map \in [1..(N + 1) -> 1..Len(ms)]
  BY <1>5, <1>7
<1> HIDE DEF map
<1>10. \A j, k \in 1..(N + 1) : j < k => map[j] < map[k]
  <2> SUFFICES ASSUME NEW j \in 1..(N + 1), NEW k \in 1..(N + 1), j < k
               PROVE  map[j] < map[k]
    OBVIOUS
  <2>1. j \in 1..N
    BY <1>4
  <2>2. CASE k \in 1..N
    BY <1>5, <1>8, <2>1, <2>2
  <2>3. CASE k = N + 1
    BY <1>6, <1>8, <2>1, <2>3
  <2> QED BY <1>7, <2>2, <2>3
<1>11. \A j \in 1..(N + 1) : more[j] = ms[map[j]]
  <2> SUFFICES ASSUME NEW j \in 1..(N + 1) PROVE more[j] = ms[map[j]]
    OBVIOUS
  <2>1. CASE j \in 1..N
    BY <1>3, <1>5, <1>8, <2>1
  <2>2. CASE j = N + 1
    BY <1>3, <1>8, <2>2
  <2> QED BY <1>7, <2>1, <2>2
<1>12. Traced(map, more, ms)
  BY <1>1, <1>3, <1>9, <1>10, <1>11 DEF Traced
<1> QED BY <1>12 DEF map, more, N

LEMMA StreamReceive ==
  ASSUME SafeMessages, StreamInv, Receive
  PROVE  StreamInv'
<1>1. PICK stream, ends, p, at : Passed(stream, ends, p, at)
  BY DEF StreamInv
<1>2. /\ Layout(stream, ends, sent) /\ Held(stream, p, deframer, wire)
      /\ Traced(at, delivered, sent) /\ \A i \in DOMAIN delivered : ends[at[i]] <= p
  BY <1>1 DEF Passed
<1>3. PICK n \in 1..Len(wire) :
        LET ret == Deframe(deframer, SubSeq(wire, 1, n))
        IN /\ wire' = SubSeq(wire, n + 1, Len(wire))
           /\ deframer' = ret.deframer
           /\ delivered' = IF ret.len > 0 THEN Append(delivered, ret.msg) ELSE delivered
  BY DEF Receive
<1> DEFINE chunk == SubSeq(wire, 1, n)
           rest == SubSeq(wire, n + 1, Len(wire))
           r == Deframe(deframer, chunk)
<1>4. sent' = sent
  BY DEF Receive
<1>5. wire \in Seq(Octet) /\ p \in Nat /\ Len(stream) \in Nat
  BY <1>2 DEF Held, Layout
<1>6. chunk \in Seq(Octet) /\ rest \in Seq(Octet) /\ wire = chunk \o rest
  BY <1>5, Chunk
<1>7. /\ wire' = rest /\ deframer' = r.deframer
      /\ delivered' = IF r.len > 0 THEN Append(delivered, r.msg) ELSE delivered
  BY <1>3
<1> HIDE DEF chunk, rest
<1>8. Moves(stream, ends, sent, p, r, rest)
  <2>1. Held(stream, p, deframer, chunk \o rest)
    BY <1>2, <1>6
  <2> QED BY <1>2, <1>6, <2>1, DeframeMoves
<1> HIDE DEF r
<1>9. PICK q \in p..Len(stream) :
        /\ Held(stream, q, r.deframer, rest)
        /\ r.len > 0 => \E i \in 1..Len(sent) : p < ends[i] /\ ends[i] <= q /\ r.msg = sent[i]
  BY <1>8 DEF Moves
<1>10. p <= q /\ q \in Nat
  BY <1>5
<1>11. /\ sent \in Seq(Messages) /\ ends \in [0..Len(sent) -> Nat] /\ Len(sent) \in Nat
       /\ DOMAIN sent = 1..Len(sent) /\ delivered \in Seq(Messages)
       /\ DOMAIN delivered = 1..Len(delivered) /\ Len(delivered) \in Nat
  BY <1>2 DEF Layout, StreamInv
<1>12. ASSUME NEW i \in DOMAIN delivered PROVE ends[at[i]] <= q
  <2> DEFINE e == ends[at[i]]
  <2>1. at[i] \in 1..Len(sent)
    BY <1>2, <1>11 DEF Traced
  <2>2. at[i] \in 0..Len(sent)
    BY <1>11, <2>1
  <2>3. e \in Nat /\ e <= p
    BY <1>2, <1>11, <2>2
  <2> HIDE DEF e
  <2>4. e <= q
    BY <1>5, <1>10, <2>3
  <2> QED BY <2>4 DEF e
<1>13. CASE ~(r.len > 0)
  <2>1. delivered' = delivered
    BY <1>7, <1>13
  <2> QED BY <1>2, <1>4, <1>7, <1>9, <1>11, <1>12, <2>1 DEF StreamInv, Passed
<1>14. CASE r.len > 0
  <2>1. PICK i \in 1..Len(sent) : p < ends[i] /\ ends[i] <= q /\ r.msg = sent[i]
    BY <1>9, <1>14
  <2> DEFINE N == Len(delivered)
             map == [j \in 1..(N + 1) |-> IF j <= N THEN at[j] ELSE i]
  <2>2. delivered' = Append(delivered, sent[i])
    BY <1>7, <1>14, <2>1
  <2>3. Traced(map, Append(delivered, sent[i]), sent)
    BY <1>2, <1>5, <1>11, <2>1, TracedMore
  <2>4. sent[i] \in Messages
    BY <1>11
  <2>5. /\ Append(delivered, sent[i]) \in Seq(Messages)
        /\ DOMAIN Append(delivered, sent[i]) = 1..(N + 1)
    BY <1>11, <2>4
  <2>6. ASSUME NEW j \in 1..(N + 1) PROVE ends[map[j]] <= q
    <3>1. CASE j <= N
      <4>1. j \in DOMAIN delivered
        BY <1>11, <3>1
      <4>2. map[j] = at[j]
        BY <3>1
      <4> HIDE DEF map
      <4> QED BY <1>12, <4>1, <4>2
    <3>2. CASE ~(j <= N)
      BY <2>1, <3>2
    <3> QED BY <3>1, <3>2
  <2> HIDE DEF map, N
  <2>7. Traced(map, delivered', sent') /\ delivered' \in Seq(Messages)
        /\ \A j \in DOMAIN delivered' : ends[map[j]] <= q
    BY <1>4, <2>2, <2>3, <2>5, <2>6
  <2>8. Layout(stream, ends, sent') /\ Held(stream, q, deframer', wire')
    BY <1>2, <1>4, <1>7, <1>9
  <2>9. \E s2, e2, p2, at2 :
          /\ Layout(s2, e2, sent') /\ Held(s2, p2, deframer', wire')
          /\ Traced(at2, delivered', sent') /\ \A j \in DOMAIN delivered' : e2[at2[j]] <= p2
    BY <2>7, <2>8
  <2> QED BY <2>7, <2>9 DEF StreamInv, Passed
<1> QED BY <1>13, <1>14

LEMMA StreamAlways == SafeMessages => (Spec => []StreamInv)
<1> SUFFICES ASSUME SafeMessages PROVE Spec => []StreamInv
  OBVIOUS
<1>1. ASSUME StreamInv, [Next]_vars PROVE StreamInv'
  <2>1. CASE Send
    BY <1>1, <2>1, StreamSend
  <2>2. CASE Receive
    BY <1>1, <2>2, StreamReceive
  <2>3. CASE UNCHANGED vars
    BY <1>1, <2>3 DEF StreamInv, Passed, vars
  <2> QED BY <1>1, <2>1, <2>2, <2>3 DEF Next
<1> QED BY <1>1, StreamInit, PTL DEF Spec

(* However the stream is cut into chunks, and whatever is lost on the way,   *)
(* what the deframer delivers was sent, in the order it was sent, and no     *)
(* message is put together from pieces of two.  The one assumption is on the *)
(* messages: none has a zero after a maximal block. *)
THEOREM NothingMadeUp == SafeMessages => (Spec => []DeliveredWasSent)
<1> SUFFICES ASSUME SafeMessages PROVE Spec => []DeliveredWasSent
  OBVIOUS
<1>1. StreamInv => DeliveredWasSent
  BY DEF StreamInv, Passed, Traced, DeliveredWasSent
<1> QED BY <1>1, StreamAlways, PTL

-----------------------------------------------------------------------------
TypeInv == wire \in Seq(Octet) /\ DeframerOK(deframer)

(* The buffers of the deframer never overflow, a frame being received holds  *)
(* no framing byte, and what a state of the deframer stands for holds        *)
(* between any two calls, for every depth and every way of cutting. *)
THEOREM TypeCorrect == Spec => []TypeOK
<1>1. Init => TypeInv
  BY FlushedOK, EmptySeq DEF Init, TypeInv
<1>2. ASSUME TypeInv, [Next]_vars PROVE TypeInv'
  <2>1. CASE Send
    <3>1. PICK m \in Messages :
            /\ Framer(m, MaxEncLen).len > 0
            /\ wire' = wire \o Framer(m, MaxEncLen).frame
      BY <2>1 DEF Send
    <3>2. deframer' = deframer
      BY <2>1 DEF Send
    <3>3. m \in Seq(Octet)
      BY StreamAssumption
    <3>4. Encoded(m) \in Seq(Octet)
      BY <3>3, EncodedBytes
    <3>5. Frame(Encoded(m)) \in Seq(Octet)
      BY <3>4, FrameBytes
    <3>6. Framer(m, MaxEncLen).frame = Frame(Encoded(m))
      BY <3>1 DEF Framer
    <3>7. wire' \in Seq(Octet)
      BY <1>2, <3>1, <3>5, <3>6, ConcatProperties DEF TypeInv
    <3> QED BY <1>2, <3>2, <3>7 DEF TypeInv
  <2>2. CASE Receive
    <3>1. PICK n \in 1..Len(wire) :
            /\ wire' = SubSeq(wire, n + 1, Len(wire))
            /\ deframer' = Deframe(deframer, SubSeq(wire, 1, n)).deframer
      BY <2>2 DEF Receive
    <3>2. SubSeq(wire, 1, n) \in Seq(Octet) /\ wire' \in Seq(Octet)
      BY <1>2, <3>1, Chunk DEF TypeInv
    <3> QED BY <1>2, <3>1, <3>2, DeframeOK DEF TypeInv
  <2>3. CASE UNCHANGED vars
    BY <1>2, <2>3 DEF TypeInv, vars
  <2> QED BY <1>2, <2>1, <2>2, <2>3 DEF Next
<1>3. TypeInv => TypeOK
  BY DEF TypeInv, DeframerOK, TypeOK
<1> QED BY <1>1, <1>2, <1>3, PTL DEF Spec

-----------------------------------------------------------------------------
(* Every message can be delivered: none is empty, and none is longer than    *)
(* the buffer the receiver gives the deframer. *)
Deliverable == \A m \in Messages : m # << >> /\ Len(m) <= MaxOut

LEMMA MessageDecodes ==
  ASSUME SafeMessages, Deliverable, NEW m \in Messages
  PROVE  /\ Decode(Encoded(m), MaxOut) = [len |-> Len(m), msg |-> m] /\ Len(m) > 0
<1>1. m \in Seq(Octet)
  BY MessageEncoding
<1>2. m # << >> /\ Len(m) <= MaxOut
  BY DEF Deliverable
<1>3. Decode(Encoded(m), MaxOut) = [len |-> Len(m), msg |-> m]
  BY <1>1, <1>2, BufferAssumption, DecodeInverts
<1>4. Len(m) > 0
  BY <1>1, <1>2, EmptySeq
<1> QED BY <1>3, <1>4

(* What a call returns, field by field. *)
LEMMA ReturnFields ==
  /\ \A d : Return(d).deframer = d /\ Return(d).len = 0
  /\ \A d, num : /\ Deliver(d, num).deframer = d
                 /\ Deliver(d, num).len = num.len /\ Deliver(d, num).msg = num.msg
  BY DEF Return, Deliver

(* The frame of m is on its way: all of it is on the wire, or the deframer   *)
(* has begun with it. *)
OnItsWay(m) ==
  \/ deframer = Flushed /\ wire = Frame(Encoded(m))
  \/ \E work \in Seq(Octet) :
       /\ deframer = [state |-> "FIND_EOF", work |-> work, fifo |-> << >>]
       /\ ZeroFreeSeq(work) /\ work \o wire = Closed(Encoded(m))

AllFit == \A i \in DOMAIN sent : Len(Frame(Encoded(sent[i]))) <= Depth

(* While the sender awaits each message, all of them have been delivered, or *)
(* all but the last, which is on its way. *)
LostInv ==
  /\ sent \in Seq(Messages) /\ wire \in Seq(Octet)
  /\ awaited /\ AllFit =>
       \/ delivered = sent /\ wire = << >> /\ deframer = Flushed
       \/ \E ms \in Seq(Messages), m \in Messages :
            sent = Append(ms, m) /\ delivered = ms /\ OnItsWay(m)

LEMMA AppendDiffers ==
  ASSUME NEW ms \in Seq(Messages), NEW m \in Messages
  PROVE  /\ Append(ms, m) # ms /\ Append(ms, m) \in Seq(Messages)
         /\ Len(Append(ms, m)) = Len(ms) + 1 /\ Append(ms, m)[Len(ms) + 1] = m
         /\ \A i \in DOMAIN ms : i \in DOMAIN Append(ms, m) /\ Append(ms, m)[i] = ms[i]
         /\ Len(ms) + 1 \in DOMAIN Append(ms, m)
  OBVIOUS

LEMMA LostSend ==
  ASSUME SafeMessages, LostInv, Send
  PROVE  LostInv'
<1>1. PICK m \in Messages :
        /\ Framer(m, MaxEncLen).len > 0
        /\ sent' = Append(sent, m)
        /\ wire' = wire \o Framer(m, MaxEncLen).frame
  BY DEF Send
<1>2. deframer' = deframer /\ delivered' = delivered /\ awaited' = (awaited /\ delivered = sent)
  BY DEF Send
<1>3. /\ wire' = wire \o Frame(Encoded(m)) /\ Frame(Encoded(m)) \in Seq(Octet)
  BY <1>1, FramerSends
<1>4. sent \in Seq(Messages) /\ wire \in Seq(Octet)
  BY DEF LostInv
<1>5. /\ sent' \in Seq(Messages) /\ wire' \in Seq(Octet)
      /\ \A i \in DOMAIN sent : i \in DOMAIN sent' /\ sent'[i] = sent[i]
  BY <1>1, <1>3, <1>4, AppendDiffers, ConcatProperties
<1>6. ASSUME awaited', AllFit'
      PROVE  \E ms \in Seq(Messages), m2 \in Messages :
               sent' = Append(ms, m2) /\ delivered' = ms /\ OnItsWay(m2)'
  <2>1. awaited /\ delivered = sent
    BY <1>2, <1>6
  <2>2. AllFit
    BY <1>5, <1>6 DEF AllFit
  <2>3. ~ \E ms \in Seq(Messages), m2 \in Messages : sent = Append(ms, m2) /\ delivered = ms
    BY <2>1, AppendDiffers
  <2>4. wire = << >> /\ deframer = Flushed
    BY <2>1, <2>2, <2>3 DEF LostInv
  <2>5. wire' = Frame(Encoded(m))
    BY <1>3, <2>4, ConcatEmptySeq
  <2>6. OnItsWay(m)'
    BY <1>2, <2>4, <2>5 DEF OnItsWay
  <2> QED BY <1>1, <1>2, <1>4, <2>1, <2>6
<1> QED BY <1>5, <1>6 DEF LostInv

LEMMA LostReceive ==
  ASSUME SafeMessages, Deliverable, LostInv, Receive
  PROVE  LostInv'
<1>1. PICK n \in 1..Len(wire) :
        LET ret == Deframe(deframer, SubSeq(wire, 1, n))
        IN /\ wire' = SubSeq(wire, n + 1, Len(wire))
           /\ deframer' = ret.deframer
           /\ delivered' = IF ret.len > 0 THEN Append(delivered, ret.msg) ELSE delivered
  BY DEF Receive
<1> DEFINE chunk == SubSeq(wire, 1, n)
           rest == SubSeq(wire, n + 1, Len(wire))
           r == Deframe(deframer, chunk)
<1>2. /\ wire' = rest /\ deframer' = r.deframer
      /\ delivered' = IF r.len > 0 THEN Append(delivered, r.msg) ELSE delivered
  BY <1>1
<1>3. sent' = sent /\ awaited' = awaited
  BY DEF Receive
<1>4. sent \in Seq(Messages) /\ wire \in Seq(Octet)
  BY DEF LostInv
<1>5. /\ chunk \in Seq(Octet) /\ Len(chunk) = n /\ rest \in Seq(Octet)
      /\ wire = chunk \o rest
  BY <1>4, Chunk
<1> HIDE DEF chunk, rest
<1>6. chunk # << >> /\ wire # << >>
  <2>1. n \in Nat /\ n > 0 /\ Len(wire) \in Nat /\ Len(wire) > 0
    BY <1>4
  <2> QED BY <1>5, <2>1, EmptySeq
<1>7. ASSUME awaited', AllFit'
      PROVE  \/ delivered' = sent' /\ wire' = << >> /\ deframer' = Flushed
             \/ \E ms \in Seq(Messages), m \in Messages :
                  sent' = Append(ms, m) /\ delivered' = ms /\ OnItsWay(m)'
  <2>1. awaited /\ AllFit
    BY <1>3, <1>7 DEF AllFit
  <2>2. PICK ms \in Seq(Messages), m \in Messages :
          sent = Append(ms, m) /\ delivered = ms /\ OnItsWay(m)
    BY <1>6, <2>1 DEF LostInv
  <2> DEFINE enc == Encoded(m)
             num == Decode(enc, MaxOut)
  <2>3. enc \in Seq(Octet) /\ ZeroFreeSeq(enc)
    BY MessageEncoding
  <2>4. num = [len |-> Len(m), msg |-> m] /\ Len(m) > 0
    BY MessageDecodes
  <2>5. num.len > 0 /\ num.msg = m
    BY <2>4
  <2>6. Len(Frame(enc)) = Len(enc) + 2
    BY <2>3, FrameBytes
  <2>7. Len(enc) + 2 <= Depth
    <3>1. Len(ms) + 1 \in DOMAIN sent /\ sent[Len(ms) + 1] = m
      BY <2>2, AppendDiffers
    <3>2. Len(Frame(enc)) <= Depth
      BY <2>1, <3>1 DEF AllFit
    <3> QED BY <2>6, <3>2
  <2> HIDE DEF enc, r
  <2>8. Progress(enc, r, rest)
    <3>1. CASE deframer = Flushed /\ wire = Frame(enc)
      <4>1. chunk \o rest = Frame(enc)
        BY <1>5, <3>1
      <4>2. Progress(enc, Deframe(Flushed, chunk), rest)
        BY <1>5, <1>6, <2>3, <2>5, <2>7, <4>1, Starts
      <4> QED BY <3>1, <4>2 DEF r
    <3>2. ASSUME NEW work \in Seq(Octet),
                 deframer = [state |-> "FIND_EOF", work |-> work, fifo |-> << >>],
                 ZeroFreeSeq(work), work \o wire = Closed(enc)
          PROVE  Progress(enc, r, rest)
      <4>1. work \o (chunk \o rest) = Closed(enc)
        BY <1>5, <3>2
      <4>2. Progress(enc, Deframe([state |-> "FIND_EOF", work |-> work, fifo |-> << >>], chunk),
                     rest)
        BY <1>5, <2>3, <2>5, <2>7, <3>2, <4>1, GoesOn
      <4> QED BY <3>2, <4>2 DEF r
    <3> QED BY <2>2, <3>1, <3>2 DEF OnItsWay, enc
  <2>9. CASE rest = << >> /\ r = Deliver(Flushed, num)
    <3>1. r.deframer = Flushed /\ r.len > 0 /\ r.msg = m
      BY <2>5, <2>9, ReturnFields
    <3>2. delivered' = sent' /\ wire' = << >> /\ deframer' = Flushed
      BY <1>2, <1>3, <2>2, <2>9, <3>1
    <3> QED BY <3>2
  <2>10. ASSUME NEW work \in Seq(Octet),
                r = Return([state |-> "FIND_EOF", work |-> work, fifo |-> << >>]),
                ZeroFreeSeq(work), work \o rest = Closed(enc)
         PROVE  \E ms2 \in Seq(Messages), m2 \in Messages :
                  sent' = Append(ms2, m2) /\ delivered' = ms2 /\ OnItsWay(m2)'
    <3>1. /\ r.deframer = [state |-> "FIND_EOF", work |-> work, fifo |-> << >>]
          /\ ~(r.len > 0)
      BY <2>10, ReturnFields
    <3>2. delivered' = ms /\ sent' = Append(ms, m)
      BY <1>2, <1>3, <2>2, <3>1
    <3>3. OnItsWay(m)'
      <4>1. deframer' = [state |-> "FIND_EOF", work |-> work, fifo |-> << >>] /\ wire' = rest
        BY <1>2, <3>1
      <4>2. work \o wire' = Closed(Encoded(m))
        BY <2>10, <4>1 DEF enc
      <4> QED BY <2>10, <4>1, <4>2 DEF OnItsWay
    <3> QED BY <3>2, <3>3
  <2> QED BY <2>8, <2>9, <2>10 DEF Progress
<1> QED BY <1>2, <1>3, <1>4, <1>5, <1>7 DEF LostInv

LEMMA LostImplies == LostInv /\ SafeMessages => NothingLost
<1> SUFFICES ASSUME LostInv, SafeMessages, awaited, AllFit, wire = << >>
             PROVE  delivered = sent
  BY DEF NothingLost, AllFit
<1> SUFFICES ASSUME NEW m \in Messages, OnItsWay(m) PROVE FALSE
  BY DEF LostInv
<1>1. Encoded(m) \in Seq(Octet)
  BY MessageEncoding
<1>2. CASE wire = Frame(Encoded(m))
  <2>1. Len(Frame(Encoded(m))) = Len(Encoded(m)) + 2 /\ Len(Encoded(m)) \in Nat
    BY <1>1, FrameBytes
  <2>2. Len(Frame(Encoded(m))) # 0
    BY <2>1
  <2> QED BY <1>2, <2>2, EmptySeq
<1>3. ASSUME NEW work \in Seq(Octet), ZeroFreeSeq(work), work \o wire = Closed(Encoded(m))
      PROVE  FALSE
  <2>1. work = Closed(Encoded(m))
    BY <1>3, ConcatEmptySeq
  <2> DEFINE n == Len(Encoded(m))
  <2>2. n \in Nat /\ Len(work) = n + 1 /\ work[n + 1] = 0
    BY <1>1, <2>1, ClosedBytes
  <2> HIDE DEF n
  <2>3. n + 1 \in 1..Len(work)
    BY <2>2
  <2> QED BY <1>3, <2>2, <2>3 DEF ZeroFreeSeq
<1> QED BY <1>2, <1>3 DEF OnItsWay

(* A sender that awaits the answer to each message loses none, however its   *)
(* frames are cut into chunks: when the wire is empty, all that was sent has *)
(* been delivered, if its frames fit the buffers of the deframer. *)
THEOREM AwaitedArrive == SafeMessages /\ Deliverable => (Spec => []NothingLost)
<1> SUFFICES ASSUME SafeMessages, Deliverable PROVE Spec => []NothingLost
  OBVIOUS
<1>1. Init => LostInv
  BY EmptySeq DEF Init, LostInv
<1>2. ASSUME LostInv, [Next]_vars PROVE LostInv'
  <2>1. CASE Send
    BY <1>2, <2>1, LostSend
  <2>2. CASE Receive
    BY <1>2, <2>2, LostReceive
  <2>3. CASE UNCHANGED vars
    BY <1>2, <2>3 DEF LostInv, AllFit, OnItsWay, vars
  <2> QED BY <1>2, <2>1, <2>2, <2>3 DEF Next
<1>3. LostInv => NothingLost
  BY LostImplies
<1> QED BY <1>1, <1>2, <1>3, PTL DEF Spec

-----------------------------------------------------------------------------
(* While every chunk has held one frame, the deframer is as it was at the    *)
(* start, and the wire is what the stream carries after the k-th frame. *)
AtFrame(stream, ends, k) ==
  /\ Layout(stream, ends, sent)
  /\ k \in 0..Len(sent)
  /\ Held(stream, ends[k], Flushed, wire)

WholeInv == whole => deframer = Flushed /\ \E stream, ends, k : AtFrame(stream, ends, k)

LEMMA HeldFlushed ==
  ASSUME NEW stream, NEW p, NEW rest, Held(stream, p, Flushed, rest)
  PROVE  /\ rest \in Seq(Octet) /\ p \in 0..Len(stream) /\ Suffix(stream, p) = rest
<1>1. rest \in Seq(Octet) /\ p \in 0..Len(stream)
  BY DEF Held
<1>2. Suffix(stream, p) = << >> \o (<< >> \o rest)
  BY FlushedType DEF Held
<1> QED BY <1>1, <1>2, ConcatEmptySeq

LEMMA FlushedHeld ==
  ASSUME NEW stream, NEW p \in 0..Len(stream), NEW rest \in Seq(Octet), Suffix(stream, p) = rest
  PROVE  Held(stream, p, Flushed, rest)
<1>1. rest = << >> \o (<< >> \o rest)
  BY ConcatEmptySeq
<1>2. Flushed.state # "FIND_EOF" /\ Len(<< >>) <= Depth
  BY FlushedType, EmptySeq, BufferAssumption
<1> QED BY <1>1, <1>2, FlushedType DEF Held

LEMMA WholeSend ==
  ASSUME SafeMessages, WholeInv, Send
  PROVE  WholeInv'
<1> SUFFICES ASSUME whole'
             PROVE  /\ deframer' = Flushed
                    /\ \E s2, e2, k2 : /\ Layout(s2, e2, sent') /\ k2 \in 0..Len(sent')
                                       /\ Held(s2, e2[k2], Flushed, wire')
  BY DEF WholeInv, AtFrame
<1>1. PICK m \in Messages :
        /\ Framer(m, MaxEncLen).len > 0
        /\ sent' = Append(sent, m)
        /\ wire' = wire \o Framer(m, MaxEncLen).frame
  BY DEF Send
<1>2. deframer' = deframer /\ whole
  BY DEF Send
<1>3. PICK stream, ends, k : AtFrame(stream, ends, k)
  BY <1>2 DEF WholeInv
<1>4. Layout(stream, ends, sent) /\ k \in 0..Len(sent) /\ Held(stream, ends[k], Flushed, wire)
  BY <1>3 DEF AtFrame
<1> DEFINE frame == Frame(Encoded(m))
           longer == stream \o frame
           there == [i \in 0..(Len(sent) + 1) |->
                       IF i <= Len(sent) THEN ends[i] ELSE Len(stream) + Len(Encoded(m)) + 2]
<1>5. wire' = wire \o frame /\ frame \in Seq(Octet)
  BY <1>1, FramerSends
<1>6. stream \in Seq(Octet) /\ sent \in Seq(Messages) /\ Len(sent) \in Nat
  BY <1>4 DEF Layout
<1>7. Layout(longer, there, sent')
  BY <1>1, <1>4, LayoutGrows
<1>8. Held(longer, ends[k], Flushed, wire')
  BY <1>4, <1>5, <1>6, HeldGrows
<1>9. Len(sent') = Len(sent) + 1 /\ k \in 0..Len(sent') /\ k \in 0..(Len(sent) + 1) /\ k <= Len(sent)
  BY <1>1, <1>4, <1>6
<1>10. there[k] = ends[k]
  BY <1>9
<1> HIDE DEF longer, there
<1> QED BY <1>2, <1>7, <1>8, <1>9, <1>10 DEF WholeInv

(* The chunk that holds one frame. *)
LEMMA OneFrame ==
  ASSUME SafeMessages, NEW stream, NEW ends, NEW k, AtFrame(stream, ends, k), wire # << >>
  PROVE  /\ k + 1 \in 1..Len(sent) /\ sent[k + 1] \in Messages
         /\ HeadFrame = Len(Encoded(sent[k + 1])) + 2
         /\ HeadFrame \in 1..Len(wire)
         /\ SubSeq(wire, 1, HeadFrame) = Frame(Encoded(sent[k + 1]))
         /\ ends[k + 1] = ends[k] + HeadFrame
<1> DEFINE enc == Encoded(sent[k + 1])
           E == Len(enc)
           L == Len(stream)
           p == ends[k]
           q == ends[k + 1]
<1>1. Layout(stream, ends, sent) /\ k \in 0..Len(sent) /\ Held(stream, p, Flushed, wire)
  BY DEF AtFrame
<1>2. /\ stream \in Seq(Octet) /\ L \in Nat /\ Len(sent) \in Nat /\ sent \in Seq(Messages)
      /\ ends \in [0..Len(sent) -> Nat] /\ ends[Len(sent)] = L
  BY <1>1 DEF Layout
<1>3. wire \in Seq(Octet) /\ p \in 0..L /\ p \in Nat /\ Suffix(stream, p) = wire
  BY <1>1, <1>2, HeldFlushed
<1>4. Len(wire) = L - p /\ \A i \in 1..(L - p) : wire[i] = stream[p + i]
  <2> HIDE DEF p
  <2>1. /\ Len(Suffix(stream, p)) = L - p
        /\ \A i \in 1..(L - p) : Suffix(stream, p)[i] = stream[p + i]
    BY <1>2, <1>3, SuffixIs
  <2> QED BY <1>3, <2>1
<1>5. k # Len(sent)
  <2> SUFFICES ASSUME k = Len(sent) PROVE FALSE
    OBVIOUS
  <2>1. Len(wire) = 0
    BY <1>2, <1>3, <1>4
  <2> QED BY <1>3, <2>1, EmptySeq
<1>6. k + 1 \in 1..Len(sent) /\ (k + 1) - 1 = k
  BY <1>1, <1>2, <1>5
<1>7. sent[k + 1] \in Messages /\ q \in Nat /\ E \in Nat /\ q = p + E + 2
  <2> DEFINE j == k + 1
  <2>1. j \in 1..Len(sent) /\ j - 1 = k
    BY <1>6
  <2> HIDE DEF j
  <2>2. /\ sent[j] \in Messages /\ ends[j] \in Nat /\ Len(Encoded(sent[j])) \in Nat
        /\ ends[j] = ends[j - 1] + Len(Encoded(sent[j])) + 2
    BY <1>1, <2>1, FrameLengths
  <2> QED BY <2>1, <2>2 DEF j
<1>8. enc \in Seq(Octet) /\ ZeroFreeSeq(enc)
  BY <1>7, MessageEncoding
<1>9. /\ stream[p + 1] = 0 /\ stream[q] = 0
      /\ \A i \in 1..E : stream[p + 1 + i] = enc[i]
  <2> DEFINE j == k + 1
  <2>1. j \in 1..Len(sent) /\ j - 1 = k
    BY <1>6
  <2> HIDE DEF j
  <2>2. FrameAt(stream, ends[j - 1], ends[j], Encoded(sent[j]))
    BY <1>1, <2>1 DEF Layout
  <2> QED BY <2>1, <2>2 DEF FrameAt, j
<1>10. q <= L
  <2>1. CASE k + 1 = Len(sent)
    BY <1>2, <1>7, <2>1
  <2>2. CASE k + 1 # Len(sent)
    <3>1. k + 1 \in 0..Len(sent) /\ Len(sent) \in 0..Len(sent) /\ k + 1 < Len(sent)
      BY <1>2, <1>6, <2>2
    <3>2. ends[k + 1] < ends[Len(sent)]
      BY <1>1, <3>1, EndsIncrease
    <3> QED BY <1>2, <1>7, <3>2
  <2> QED BY <2>1, <2>2
<1> HIDE DEF enc, E, L, p, q
<1>11. E + 2 \in 1..Len(wire) /\ E + 2 <= L - p /\ L - p \in Nat
  BY <1>2, <1>3, <1>4, <1>7, <1>10
<1>12. /\ wire[1] = 0 /\ wire[E + 2] = 0 /\ \A i \in 1..E : wire[i + 1] = enc[i]
  <2>1. /\ 1 \in 1..(L - p) /\ E + 2 \in 1..(L - p) /\ p + (E + 2) = q
        /\ \A i \in 1..E : i + 1 \in 1..(L - p) /\ p + (i + 1) = p + 1 + i
    BY <1>3, <1>7, <1>11
  <2>2. wire[1] = stream[p + 1] /\ wire[E + 2] = stream[p + (E + 2)]
        /\ \A i \in 1..E : wire[i + 1] = stream[p + (i + 1)]
    BY <1>4, <2>1
  <2> QED BY <1>9, <2>1, <2>2
<1>13. FramingByte(Tail(wire)) = E + 1
  <2> DEFINE t == Tail(wire)
  <2>1. /\ t \in Seq(Octet) /\ Len(t) = Len(wire) - 1
        /\ \A i \in 1..Len(t) : t[i] = wire[i + 1]
    BY <1>3, HeadTailProperties
  <2> HIDE DEF t
  <2> DEFINE z == E + 1
  <2>2. /\ z \in 1..Len(t) /\ z + 1 = E + 2
        /\ \A i \in 1..(z - 1) : i \in 1..E /\ i \in 1..Len(t)
    BY <1>3, <1>7, <1>11, <2>1
  <2> HIDE DEF z
  <2>3. t[z] = 0
    BY <1>12, <2>1, <2>2
  <2>4. \A i \in 1..(z - 1) : t[i] # 0
    BY <1>8, <1>12, <2>1, <2>2 DEF ZeroFreeSeq, E
  <2>5. FramingByte(t) = z
    BY <2>1, <2>2, <2>3, <2>4, FramingByteAt
  <2> QED BY <2>5 DEF t, z
<1>14. HeadFrame = E + 2
  BY <1>7, <1>13 DEF HeadFrame
<1> DEFINE head == SubSeq(wire, 1, E + 2)
           frame == Frame(enc)
<1>15. /\ head \in Seq(Octet) /\ Len(head) = E + 2
       /\ \A i \in 1..(E + 2) : head[i] = wire[i]
  <2>1. E + 2 \in 0..Len(wire)
    BY <1>11
  <2> QED BY <1>3, <2>1, Cut
<1>16. /\ frame \in Seq(Octet) /\ Len(frame) = E + 2
       /\ frame[1] = 0 /\ frame[E + 2] = 0
       /\ \A i \in 1..E : frame[i + 1] = enc[i]
  BY <1>8, FrameBytes DEF E
<1> HIDE DEF head, frame
<1>17. ASSUME NEW i \in 1..(E + 2) PROVE head[i] = frame[i]
  <2>1. CASE i = 1
    BY <1>12, <1>15, <1>16, <2>1
  <2>2. CASE i = E + 2
    BY <1>12, <1>15, <1>16, <2>2
  <2>3. CASE i # 1 /\ i # E + 2
    <3> DEFINE j == i - 1
    <3>1. j \in 1..E /\ j + 1 = i
      BY <1>7, <2>3
    <3> HIDE DEF j
    <3>2. wire[j + 1] = enc[j] /\ frame[j + 1] = enc[j]
      BY <1>12, <1>16, <3>1
    <3> QED BY <1>15, <3>1, <3>2
  <2> QED BY <2>1, <2>2, <2>3
<1>18. head = frame
  BY <1>15, <1>16, <1>17, SeqEqual
<1>19. q = p + (E + 2)
  BY <1>3, <1>7
<1> QED BY <1>6, <1>7, <1>11, <1>14, <1>18, <1>19 DEF head, frame, enc, E, p, q

(* A call that is passed one whole frame. *)
LEMMA WholeFrame ==
  ASSUME SafeMessages, Deliverable, NEW m \in Messages
  PROVE  LET r == Deframe(Flushed, Frame(Encoded(m)))
         IN /\ r.deframer = Flushed
            /\ Len(Encoded(m)) + 2 <= Depth => r.len > 0 /\ r.msg = m
<1> DEFINE enc == Encoded(m)
           frame == Frame(enc)
           r == Deframe(Flushed, frame)
<1>1. enc \in Seq(Octet) /\ ZeroFreeSeq(enc) /\ Len(enc) \in Nat
  BY MessageEncoding
<1>2. Decode(enc, MaxOut) = [len |-> Len(m), msg |-> m] /\ Len(m) > 0
  BY MessageDecodes
<1>3. frame \in Seq(Octet) /\ Len(frame) = Len(enc) + 2
  BY <1>1, FrameBytes
<1> HIDE DEF enc
<1>4. CASE Len(enc) + 2 <= Depth
  <2>1. frame # << >>
    BY <1>1, <1>3, EmptySeq
  <2>2. frame \o << >> = frame /\ << >> \in Seq(Octet)
    BY <1>3, ConcatEmptySeq, EmptySeq
  <2>3. Decode(enc, MaxOut).len > 0
    BY <1>2
  <2> HIDE DEF frame, r
  <2>4. Progress(enc, Deframe(Flushed, frame), << >>)
    BY <1>1, <1>3, <1>4, <2>1, <2>2, <2>3, Starts DEF frame
  <2>5. ~ \E work \in Seq(Octet) : ZeroFreeSeq(work) /\ work \o << >> = Closed(enc)
    <3> SUFFICES ASSUME NEW work \in Seq(Octet), ZeroFreeSeq(work), work \o << >> = Closed(enc)
                 PROVE  FALSE
      OBVIOUS
    <3>1. work = Closed(enc)
      BY ConcatEmptySeq
    <3> DEFINE n == Len(enc)
    <3>2. n \in Nat /\ Len(work) = n + 1 /\ work[n + 1] = 0
      BY <1>1, <3>1, ClosedBytes
    <3> HIDE DEF n
    <3>3. n + 1 \in 1..Len(work)
      BY <3>2
    <3> QED BY <3>2, <3>3 DEF ZeroFreeSeq
  <2>6. r = Deliver(Flushed, Decode(enc, MaxOut))
    BY <2>4, <2>5 DEF Progress, r
  <2>7. r.deframer = Flushed /\ r.len = Len(m) /\ r.msg = m
    BY <1>2, <2>6, ReturnFields
  <2> QED BY <1>2, <2>7 DEF r, frame, enc
<1>5. CASE ~(Len(enc) + 2 <= Depth)
  <2>1. Len(Flushed.fifo) = 0
    BY FlushedType, EmptySeq
  <2>2. Depth - Len(Flushed.fifo) < Len(frame)
    <3> HIDE DEF frame
    <3> QED BY <1>1, <1>3, <1>5, <2>1, BufferAssumption
  <2> HIDE DEF frame
  <2>3. r = Return(Flushed)
    BY <2>2 DEF Deframe
  <2>4. r.deframer = Flushed
    BY <2>3, ReturnFields
  <2> QED BY <1>5, <2>4 DEF r, frame, enc
<1> QED BY <1>4, <1>5

LEMMA WholeReceive ==
  ASSUME SafeMessages, Deliverable, WholeInv, Receive, whole'
  PROVE  /\ WholeInv'
         /\ \E m \in Messages :
              /\ SubSeq(wire, 1, HeadFrame) = Frame(Encoded(m))
              /\ HeadFrame <= Depth => delivered' = Append(delivered, m)
<1>1. PICK n \in 1..Len(wire) :
        LET ret == Deframe(deframer, SubSeq(wire, 1, n))
        IN /\ whole' = (whole /\ n = HeadFrame)
           /\ wire' = SubSeq(wire, n + 1, Len(wire))
           /\ deframer' = ret.deframer
           /\ delivered' = IF ret.len > 0 THEN Append(delivered, ret.msg) ELSE delivered
  BY DEF Receive
<1>2. whole /\ n = HeadFrame /\ sent' = sent
  BY <1>1 DEF Receive
<1>3. deframer = Flushed
  BY <1>2 DEF WholeInv
<1>4. PICK stream, ends, k : AtFrame(stream, ends, k)
  BY <1>2 DEF WholeInv
<1>5. Layout(stream, ends, sent) /\ k \in 0..Len(sent) /\ Held(stream, ends[k], Flushed, wire)
  BY <1>4 DEF AtFrame
<1>6. stream \in Seq(Octet) /\ wire \in Seq(Octet) /\ ends[k] \in 0..Len(stream)
      /\ Suffix(stream, ends[k]) = wire
  BY <1>5, HeldFlushed DEF Layout
<1>7. wire # << >>
  <2>1. Len(wire) # 0
    BY <1>6
  <2> QED BY <2>1, EmptySeq
<1> DEFINE m == sent[k + 1]
           enc == Encoded(m)
           chunk == SubSeq(wire, 1, n)
           rest == SubSeq(wire, n + 1, Len(wire))
           r == Deframe(Flushed, chunk)
<1>8. /\ k + 1 \in 1..Len(sent) /\ m \in Messages /\ n = Len(enc) + 2
      /\ chunk = Frame(enc) /\ ends[k + 1] = ends[k] + n
  BY <1>2, <1>4, <1>7, OneFrame
<1>9. /\ chunk \in Seq(Octet) /\ Len(chunk) = n /\ rest \in Seq(Octet)
      /\ wire = chunk \o rest
  BY <1>6, Chunk
<1>10. /\ wire' = rest /\ deframer' = r.deframer
       /\ delivered' = IF r.len > 0 THEN Append(delivered, r.msg) ELSE delivered
  BY <1>1, <1>3
<1>11. r.deframer = Flushed /\ (n <= Depth => r.len > 0 /\ r.msg = m)
  BY <1>8, WholeFrame
<1>12. ends[k + 1] \in 0..Len(stream) /\ Suffix(stream, ends[k + 1]) = rest
  <2> DEFINE p == ends[k]
  <2>1. p \in 0..Len(stream) /\ Splits(stream, p, chunk, rest)
    BY <1>6, <1>9 DEF Splits
  <2> HIDE DEF chunk, rest, p
  <2>2. p + Len(chunk) \in 0..Len(stream) /\ Suffix(stream, p + Len(chunk)) = rest
    BY <1>6, <1>9, <2>1, SuffixDrop
  <2> QED BY <1>8, <1>9, <2>2 DEF p
<1> HIDE DEF chunk, rest, r, m, enc
<1>13. Held(stream, ends[k + 1], Flushed, wire')
  BY <1>9, <1>10, <1>12, FlushedHeld
<1>14. k + 1 \in 0..Len(sent)
  BY <1>5, <1>8
<1>15. \E s2, e2, k2 : /\ Layout(s2, e2, sent') /\ k2 \in 0..Len(sent')
                       /\ Held(s2, e2[k2], Flushed, wire')
  BY <1>2, <1>5, <1>13, <1>14
<1>16. WholeInv'
  BY <1>10, <1>11, <1>15 DEF WholeInv, AtFrame
<1>17. SubSeq(wire, 1, HeadFrame) = Frame(Encoded(m))
  BY <1>2, <1>8 DEF chunk, enc
<1>18. HeadFrame <= Depth => delivered' = Append(delivered, m)
  BY <1>2, <1>10, <1>11
<1> QED BY <1>8, <1>16, <1>17, <1>18

(* While every chunk holds one frame, a frame that fits is delivered by the  *)
(* call it is passed to, whatever happened to the frames before it: one that *)
(* is too long for the deframer costs no other its delivery. *)
THEOREM FrameByFrame == SafeMessages /\ Deliverable => (Spec => FrameRecovers)
<1> SUFFICES ASSUME SafeMessages, Deliverable PROVE Spec => FrameRecovers
  OBVIOUS
<1> DEFINE Recovers ==
      whole' /\ wire' # wire /\ sent' = sent /\ HeadFrame <= Depth
        => \E m \in Messages :
             /\ SubSeq(wire, 1, HeadFrame) = Frame(Encoded(m))
             /\ delivered' = Append(delivered, m)
<1>1. Init => WholeInv
  <2> SUFFICES ASSUME Init PROVE WholeInv
    OBVIOUS
  <2> DEFINE none == [i \in 0..0 |-> 0]
  <2>1. sent = << >> /\ wire = << >> /\ deframer = Flushed
    BY DEF Init
  <2>2. Layout(<< >>, none, sent)
    BY <2>1, EmptyLayout
  <2>3. /\ << >> \in Seq(Octet) /\ Len(<< >>) = 0 /\ none[0] = 0 /\ Len(sent) = 0
    BY <2>1, EmptySeq
  <2> HIDE DEF none
  <2>4. Suffix(<< >>, 0) = << >>
    BY <2>3, WholeSuffix
  <2>5. Held(<< >>, none[0], Flushed, wire)
    <3>1. 0 \in 0..Len(<< >>)
      BY <2>3
    <3>2. Held(<< >>, 0, Flushed, << >>)
      BY <2>3, <2>4, <3>1, FlushedHeld
    <3> QED BY <2>1, <2>3, <3>2
  <2>6. AtFrame(<< >>, none, 0)
    BY <2>2, <2>3, <2>5 DEF AtFrame
  <2> QED BY <2>1, <2>6 DEF WholeInv
<1>2. ASSUME WholeInv, [Next]_vars PROVE WholeInv' /\ [Recovers]_vars
  <2>1. CASE Send
    <3>1. WholeInv'
      BY <1>2, <2>1, WholeSend
    <3>2. PICK m \in Messages : sent' = Append(sent, m)
      BY <2>1 DEF Send
    <3>3. ASSUME whole' PROVE sent' # sent
      <4>1. whole
        BY <2>1, <3>3 DEF Send
      <4>2. sent \in Seq(Messages)
        BY <1>2, <4>1 DEF WholeInv, AtFrame, Layout
      <4> QED BY <3>2, <4>2, AppendDiffers
    <3> QED BY <3>1, <3>3
  <2>2. CASE Receive
    <3>1. CASE whole'
      BY <1>2, <2>2, <3>1, WholeReceive
    <3>2. CASE ~whole'
      BY <3>2 DEF WholeInv
    <3> QED BY <3>1, <3>2
  <2>3. CASE UNCHANGED vars
    BY <1>2, <2>3 DEF WholeInv, AtFrame, vars
  <2> QED BY <1>2, <2>1, <2>2, <2>3 DEF Next
<1>3. WholeInv /\ [Next]_vars => WholeInv'
  BY <1>2
<1>4. WholeInv /\ [Next]_vars => [Recovers]_vars
  BY <1>2
<1>5. Spec => [][Recovers]_vars
  BY <1>1, <1>3, <1>4, PTL DEF Spec
<1> QED BY <1>5 DEF FrameRecovers
=============================================================================
