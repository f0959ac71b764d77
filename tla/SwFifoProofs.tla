---------------------------- MODULE SwFifoProofs ----------------------------
(***************************************************************************)
(* Theorems about SwFifo for every depth, item size and number of tasks:   *)
(* its types, that an acknowledgement stays within what was counted, that  *)
(* it keeps what it promised to those who asked, and that it implements    *)
(* BoundedFifo for any number of writers and one reader.                   *)
(***************************************************************************)
EXTENDS SwFifo, SequenceTheorems, TLAPS

(* The fifo is used as its "threadsafe" argument requires: either it has a *)
(* mutex or a single task uses it.                                         *)
Guarded == ThreadSafe \/ \A s, t \in Task : s = t

(* Where a task holds the mutex. *)
Critical == {"w_copy", "w_add", "w_wrap", "p_copy", "a_add", "a_wrap",
             "f_wr", "f_rd", "q_get"}

Writing == {"w_lock", "w_copy", "w_add", "w_wrap"}
Peeking == {"p_lock", "p_copy"}
Acking  == {"a_lock", "a_add", "a_wrap"}

(* The holder of the mutex is the one task inside a critical section. *)
MutexInv == ThreadSafe => \A t \in Task : pc[t] \in Critical <=> lock = t

(* An index is out of 0..Depth only between its two stores. *)
IndexInv ==
  /\ (\A t \in Task : pc[t] # "w_wrap") => wrIdx <= Depth
  /\ (\A t \in Task : pc[t] # "a_wrap") => rdIdx <= Depth

(* A call's frame holds its arguments until the call returns. *)
FrameInv ==
  \A t \in Task :
    /\ pc[t] \in Writing \cup Peeking \cup Acking => num[t] \in 1..MaxRequest
    /\ pc[t] \in Writing => data[t] \in [0..(num[t] * ItemSize - 1) -> Byte]
    /\ pc[t] \in Peeking \cup Acking => data[t] \in Buffer(num[t])
    /\ pc[t] \notin Writing \cup Peeking \cup Acking => num[t] = 0
    /\ numToRead[t] <= num[t]
    /\ pc[t] \in Acking => numToRead[t] > 0

IInv == TypeOK /\ MutexInv /\ IndexInv /\ FrameInv

USE DepthAssumption, ItemAssumption, TaskAssumption

-----------------------------------------------------------------------------
(* A product with the item size keeps the order. *)
LEMMA Scale ==
  ASSUME NEW a \in Nat, NEW b \in Nat, a <= b
  PROVE  /\ a * ItemSize \in Nat
         /\ b * ItemSize \in Nat
         /\ a * ItemSize <= b * ItemSize
         /\ (b - a) * ItemSize = b * ItemSize - a * ItemSize
         /\ b - a <= (b - a) * ItemSize
         /\ a <= a * ItemSize
  OBVIOUS

(* A copy into a buffer leaves a buffer, if the source holds bytes where *)
(* they are read.                                                        *)
LEMMA MemcpyType ==
  ASSUME NEW size \in Nat, NEW dst \in Buffer(size), NEW src,
         NEW doff \in Nat, NEW soff \in Nat, NEW n \in Int,
         \A b \in soff..(soff + n - 1) : src[b] \in Byte \cup {NoByte}
  PROVE  Memcpy(dst, doff, src, soff, n) \in Buffer(size)
  BY DEF Memcpy, Buffer

(* circWrite stores inside the memory and reads inside the caller's buffer. *)
LEMMA CircWriteType ==
  ASSUME NEW m \in Buffer(Depth + 1), NEW wr \in 0..Depth, NEW n \in 1..MaxRequest,
         NEW src \in [0..(n * ItemSize - 1) -> Byte]
  PROVE  CircWrite(m, wr, src, n) \in Buffer(Depth + 1)
<1> DEFINE w == Depth - wr + 1
<1>1. CASE wr + n > Depth
  <2>1. w \in Nat /\ n \in Nat /\ w <= n
    BY <1>1
  <2>2. /\ w * ItemSize \in Nat /\ wr * ItemSize \in Nat
        /\ w * ItemSize <= n * ItemSize
        /\ (n - w) * ItemSize = n * ItemSize - w * ItemSize
        /\ w <= w * ItemSize
    <3> HIDE DEF w
    <3> QED BY <2>1, Scale
  <2>3. \A b \in 0..(0 + w * ItemSize - 1) : src[b] \in Byte \cup {NoByte}
    <3> HIDE DEF w
    <3> QED BY <2>1, <2>2
  <2>4. Memcpy(m, wr * ItemSize, src, 0, w * ItemSize) \in Buffer(Depth + 1)
    <3> HIDE DEF w
    <3> QED BY <2>2, <2>3, MemcpyType
  <2>5. \A b \in w..(w + (n - w) * ItemSize - 1) : src[b] \in Byte \cup {NoByte}
    <3> HIDE DEF w
    <3> QED BY <2>1, <2>2
  <2>6. Memcpy(Memcpy(m, wr * ItemSize, src, 0, w * ItemSize), 0, src, w,
               (n - w) * ItemSize) \in Buffer(Depth + 1)
    <3> HIDE DEF w
    <3> QED BY <2>1, <2>2, <2>4, <2>5, MemcpyType
  <2>7. QED
    BY <1>1, <2>6 DEF CircWrite
<1>2. CASE ~(wr + n > Depth)
  <2>1. wr * ItemSize \in Nat /\ n * ItemSize \in Nat
    BY Scale
  <2>2. \A b \in 0..(0 + n * ItemSize - 1) : src[b] \in Byte \cup {NoByte}
    BY <2>1
  <2>3. Memcpy(m, wr * ItemSize, src, 0, n * ItemSize) \in Buffer(Depth + 1)
    BY <2>1, <2>2, MemcpyType
  <2>4. QED
    BY <1>2, <2>3 DEF CircWrite
<1>3. QED
  BY <1>1, <1>2

(* circRead reads inside the memory and stores inside the caller's buffer. *)
LEMMA CircReadType ==
  ASSUME NEW m \in Buffer(Depth + 1), NEW rd \in 0..Depth,
         NEW size \in 1..MaxRequest, NEW n \in 1..size, NEW dst \in Buffer(size)
  PROVE  CircRead(m, rd, dst, n) \in Buffer(size)
<1> DEFINE w == Depth - rd + 1
<1>1. /\ rd * ItemSize \in Nat
      /\ n * ItemSize \in Nat
      /\ (Depth + 1) * ItemSize \in Nat
      /\ (Depth + 1 - rd) * ItemSize = (Depth + 1) * ItemSize - rd * ItemSize
      /\ size \in Nat
  BY Scale
<1>2. CASE rd + n > Depth
  <2>1. w \in Nat /\ w <= n /\ w = Depth + 1 - rd
    BY <1>2
  <2>2. /\ w * ItemSize \in Nat
        /\ w * ItemSize = (Depth + 1) * ItemSize - rd * ItemSize
        /\ (n - w) \in Nat
        /\ n - w <= Depth + 1
    <3> HIDE DEF w
    <3> QED BY <2>1, <1>1, Scale
  <2>3. (n - w) * ItemSize \in Nat /\ (n - w) * ItemSize <= (Depth + 1) * ItemSize
    <3> HIDE DEF w
    <3> QED BY <2>2, Scale
  <2>4. \A b \in (rd * ItemSize)..(rd * ItemSize + w * ItemSize - 1) :
          m[b] \in Byte \cup {NoByte}
    <3> HIDE DEF w
    <3> QED BY <2>2, <1>1 DEF Buffer
  <2>5. Memcpy(dst, 0, m, rd * ItemSize, w * ItemSize) \in Buffer(size)
    <3> DEFINE from == rd * ItemSize
               len  == w * ItemSize
    <3>1. from \in Nat /\ len \in Int /\ 0 \in Nat
      BY <2>2, <1>1
    <3>2. \A b \in from..(from + len - 1) : m[b] \in Byte \cup {NoByte}
      BY <2>4
    <3> HIDE DEF w, from, len
    <3>3. Memcpy(dst, 0, m, from, len) \in Buffer(size)
      BY <3>1, <3>2, <1>1, MemcpyType
    <3> QED BY <3>3 DEF from, len
  <2>6. \A b \in 0..(0 + (n - w) * ItemSize - 1) : m[b] \in Byte \cup {NoByte}
    <3> HIDE DEF w
    <3> QED BY <2>3, <1>1 DEF Buffer
  <2>7. Memcpy(Memcpy(dst, 0, m, rd * ItemSize, w * ItemSize), w, m, 0,
               (n - w) * ItemSize) \in Buffer(size)
    <3> DEFINE half == Memcpy(dst, 0, m, rd * ItemSize, w * ItemSize)
               len  == (n - w) * ItemSize
    <3>1. half \in Buffer(size) /\ w \in Nat /\ len \in Int /\ 0 \in Nat
      BY <2>1, <2>3, <2>5
    <3>2. \A b \in 0..(0 + len - 1) : m[b] \in Byte \cup {NoByte}
      BY <2>6
    <3> HIDE DEF w, half, len
    <3>3. Memcpy(half, w, m, 0, len) \in Buffer(size)
      BY <3>1, <3>2, <1>1, MemcpyType
    <3> QED BY <3>3 DEF half, len
  <2>8. QED
    BY <1>2, <2>7 DEF CircRead
<1>3. CASE ~(rd + n > Depth)
  <2>1. rd + n \in Nat /\ rd + n <= Depth + 1 /\ rd <= rd + n /\ rd + n - rd = n
    BY <1>3
  <2>2. /\ (rd + n) * ItemSize <= (Depth + 1) * ItemSize
        /\ n * ItemSize = (rd + n) * ItemSize - rd * ItemSize
    BY <2>1, Scale
  <2>3. \A b \in (rd * ItemSize)..(rd * ItemSize + n * ItemSize - 1) :
          m[b] \in Byte \cup {NoByte}
    BY <2>2, <1>1 DEF Buffer
  <2>4. Memcpy(dst, 0, m, rd * ItemSize, n * ItemSize) \in Buffer(size)
    BY <2>3, <1>1, MemcpyType
  <2>5. QED
    BY <1>3, <2>4 DEF CircRead
<1>4. QED
  BY <1>2, <1>3

(* count and avail on indices inside the memory, and on an index whose      *)
(* increment is not reduced yet.                                            *)
LEMMA CountValue ==
  ASSUME NEW wr \in 0..(2 * Depth), NEW rd \in 0..Depth
  PROVE  /\ wr >= rd => CountOf(wr, rd) = wr - rd
         /\ wr < rd => CountOf(wr, rd) = Depth - rd + wr + 1
         /\ wr <= Depth => CountOf(wr, rd) \in 0..Depth
         /\ wr <= Depth /\ wr # rd => CountOf(wr, rd) > 0
  BY DEF CountOf

LEMMA CountInRange ==
  ASSUME NEW wr \in 0..Depth, NEW rd \in 0..Depth
  PROVE  CountOf(wr, rd) \in 0..Depth
  BY DEF CountOf

(* Sums of indices and requests stay below 2^32. *)
LEMMA AddInRange ==
  ASSUME NEW a \in 0..Depth, NEW b \in 0..MaxRequest
  PROVE  a + b \in 0..(2 * Depth) /\ (a + b) % Modulus = a + b
  OBVIOUS

LEMMA SmallMod ==
  ASSUME NEW a \in Nat, a < Modulus
  PROVE  a % Modulus = a
  OBVIOUS

(* numToRead never exceeds the caller's num. *)
LEMMA LeastValue ==
  ASSUME NEW wr \in Nat, NEW rd \in Nat, NEW n \in 0..MaxRequest
  PROVE  Least(n, CountOf(wr, rd)) \in 0..n
  BY DEF CountOf, Least

-----------------------------------------------------------------------------
LEMMA InitIInv == Init => IInv
<1> SUFFICES ASSUME Init PROVE IInv
  OBVIOUS
<1>1. Blank(Depth + 1) \in Buffer(Depth + 1)
  BY DEF Blank, Buffer
<1>2. TypeOK
  BY <1>1 DEF Init, TypeOK
<1>3. MutexInv /\ IndexInv /\ FrameInv
  BY DEF Init, MutexInv, IndexInv, FrameInv, Critical, Writing, Peeking, Acking
<1>4. QED
  BY <1>2, <1>3 DEF IInv

(* While a task is inside a critical section no other task is in one. *)
LEMMA Exclusive ==
  ASSUME Guarded, MutexInv, NEW s \in Task, NEW t \in Task,
         pc[s] \in Critical, pc[t] \in Critical
  PROVE  s = t
  BY DEF Guarded, MutexInv

(* Hence the task at work in a critical section finds both indices in range. *)
LEMMA InRange ==
  ASSUME Guarded, IInv, NEW t \in Task, pc[t] \in Critical
  PROVE  /\ pc[t] # "w_wrap" => wrIdx \in 0..Depth
         /\ pc[t] # "a_wrap" => rdIdx \in 0..Depth
<1>1. \A s \in Task : pc[s] \in {"w_wrap", "a_wrap"} => s = t
  BY Exclusive DEF IInv, Critical
<1>2. QED
  BY <1>1 DEF IInv, IndexInv, TypeOK

(* Every step of the fifo keeps the invariant. *)
LEMMA NextIInv == Guarded /\ IInv /\ [Next]_vars => IInv'
<1> SUFFICES ASSUME Guarded, IInv, [Next]_vars PROVE IInv'
  OBVIOUS
<1> USE DEF IInv, MutexInv, IndexInv, FrameInv, Critical, Writing, Peeking, Acking, Goto
<1>1. ASSUME NEW t \in Task, WriteCall(t) PROVE IInv'
  <2>a. PICK n \in 1..MaxRequest :
          \E src \in [0..(n * ItemSize - 1) -> Byte] :
            num' = [num EXCEPT ![t] = n] /\ data' = [data EXCEPT ![t] = src]
    BY <1>1 DEF WriteCall
  <2>b. PICK src \in [0..(n * ItemSize - 1) -> Byte] :
          num' = [num EXCEPT ![t] = n] /\ data' = [data EXCEPT ![t] = src]
    BY <2>a
  <2>c. src \in Buffer(n)
    BY DEF Buffer
  <2>1. TypeOK'
    <3>1. wrIdx' \in 0..(2 * Depth) /\ rdIdx' \in 0..(2 * Depth)
      BY <1>1, <2>b, <2>c, InRange DEF TypeOK, WriteCall, Reduced
    <3>2. mem' \in Buffer(Depth + 1)
      BY <1>1, <2>b, <2>c, InRange DEF TypeOK, WriteCall
    <3>3. lock' \in Task \cup {NoTask} /\ pc' \in [Task -> InCall \cup {"idle"}]
      BY <1>1, <2>b, <2>c DEF TypeOK, WriteCall, InCall, Lock, Unlock
    <3>4. num' \in [Task -> 0..MaxRequest] /\ numToRead' \in [Task -> 0..MaxRequest]
      BY <1>1, <2>b, <2>c DEF TypeOK, WriteCall, Return, locals
    <3>5. seen' \in [Task -> 0..Depth]
      BY <1>1, <2>b, <2>c DEF TypeOK, WriteCall, Return, locals
    <3>0. DOMAIN data' = Task
      BY <1>1, <2>b, <2>c DEF TypeOK, WriteCall, Return, locals
    <3>6. \A s \in Task : pc'[s] # "idle" /\ num'[s] > 0 => data'[s] \in Buffer(num'[s])
      BY <1>1, <2>b, <2>c DEF TypeOK, WriteCall, Return, locals
    <3> QED BY <3>1, <3>2, <3>3, <3>4, <3>5, <3>0, <3>6 DEF TypeOK
  <2>2. MutexInv'
    BY <1>1, <2>b, <2>c DEF TypeOK, WriteCall, Lock, Unlock
  <2>3. IndexInv'
    BY <1>1, <2>b, <2>c, Exclusive, InRange DEF TypeOK, WriteCall, Reduced
  <2>4. FrameInv'
    BY <1>1, <2>b, <2>c DEF TypeOK, WriteCall, Return, locals
  <2> QED BY <2>1, <2>2, <2>3, <2>4
<1>2. ASSUME NEW t \in Task, WriteLock(t) PROVE IInv'
  <2>1. TypeOK'
    <3>1. wrIdx' \in 0..(2 * Depth) /\ rdIdx' \in 0..(2 * Depth)
      BY <1>2, InRange DEF TypeOK, WriteLock, Reduced
    <3>2. mem' \in Buffer(Depth + 1)
      BY <1>2, InRange DEF TypeOK, WriteLock
    <3>3. lock' \in Task \cup {NoTask} /\ pc' \in [Task -> InCall \cup {"idle"}]
      BY <1>2 DEF TypeOK, WriteLock, InCall, Lock, Unlock
    <3>4. num' \in [Task -> 0..MaxRequest] /\ numToRead' \in [Task -> 0..MaxRequest]
      BY <1>2 DEF TypeOK, WriteLock, Return, locals
    <3>5. seen' \in [Task -> 0..Depth]
      BY <1>2 DEF TypeOK, WriteLock, Return, locals
    <3>0. DOMAIN data' = Task
      BY <1>2 DEF TypeOK, WriteLock, Return, locals
    <3>6. \A s \in Task : pc'[s] # "idle" /\ num'[s] > 0 => data'[s] \in Buffer(num'[s])
      BY <1>2 DEF TypeOK, WriteLock, Return, locals
    <3> QED BY <3>1, <3>2, <3>3, <3>4, <3>5, <3>0, <3>6 DEF TypeOK
  <2>2. MutexInv'
    BY <1>2 DEF TypeOK, WriteLock, Lock, Unlock
  <2>3. IndexInv'
    BY <1>2, Exclusive, InRange DEF TypeOK, WriteLock, Reduced
  <2>4. FrameInv'
    BY <1>2 DEF TypeOK, WriteLock, Return, locals
  <2> QED BY <2>1, <2>2, <2>3, <2>4
<1>3. ASSUME NEW t \in Task, WriteRefuse(t) PROVE IInv'
  <2>1. TypeOK'
    <3>1. wrIdx' \in 0..(2 * Depth) /\ rdIdx' \in 0..(2 * Depth)
      BY <1>3, InRange DEF TypeOK, WriteRefuse, Reduced
    <3>2. mem' \in Buffer(Depth + 1)
      BY <1>3, InRange DEF TypeOK, WriteRefuse
    <3>3. lock' \in Task \cup {NoTask} /\ pc' \in [Task -> InCall \cup {"idle"}]
      BY <1>3 DEF TypeOK, WriteRefuse, InCall, Lock, Unlock
    <3>4. num' \in [Task -> 0..MaxRequest] /\ numToRead' \in [Task -> 0..MaxRequest]
      BY <1>3 DEF TypeOK, WriteRefuse, Return, locals
    <3>5. seen' \in [Task -> 0..Depth]
      BY <1>3 DEF TypeOK, WriteRefuse, Return, locals
    <3>0. DOMAIN data' = Task
      BY <1>3 DEF TypeOK, WriteRefuse, Return, locals
    <3>6. \A s \in Task : pc'[s] # "idle" /\ num'[s] > 0 => data'[s] \in Buffer(num'[s])
      BY <1>3 DEF TypeOK, WriteRefuse, Return, locals
    <3> QED BY <3>1, <3>2, <3>3, <3>4, <3>5, <3>0, <3>6 DEF TypeOK
  <2>2. MutexInv'
    BY <1>3 DEF TypeOK, WriteRefuse, Lock, Unlock
  <2>3. IndexInv'
    BY <1>3, Exclusive, InRange DEF TypeOK, WriteRefuse, Reduced
  <2>4. FrameInv'
    BY <1>3 DEF TypeOK, WriteRefuse, Return, locals
  <2> QED BY <2>1, <2>2, <2>3, <2>4
<1>4. ASSUME NEW t \in Task, WriteCopy(t) PROVE IInv'
  <2>a. CircWrite(mem, wrIdx, data[t], num[t]) \in Buffer(Depth + 1)
    BY <1>4, InRange, CircWriteType DEF TypeOK, WriteCopy
  <2>1. TypeOK'
    <3>1. wrIdx' \in 0..(2 * Depth) /\ rdIdx' \in 0..(2 * Depth)
      BY <1>4, <2>a, InRange DEF TypeOK, WriteCopy, Reduced
    <3>2. mem' \in Buffer(Depth + 1)
      BY <1>4, <2>a, InRange DEF TypeOK, WriteCopy
    <3>3. lock' \in Task \cup {NoTask} /\ pc' \in [Task -> InCall \cup {"idle"}]
      BY <1>4, <2>a DEF TypeOK, WriteCopy, InCall, Lock, Unlock
    <3>4. num' \in [Task -> 0..MaxRequest] /\ numToRead' \in [Task -> 0..MaxRequest]
      BY <1>4, <2>a DEF TypeOK, WriteCopy, Return, locals
    <3>5. seen' \in [Task -> 0..Depth]
      BY <1>4, <2>a DEF TypeOK, WriteCopy, Return, locals
    <3>0. DOMAIN data' = Task
      BY <1>4, <2>a DEF TypeOK, WriteCopy, Return, locals
    <3>6. \A s \in Task : pc'[s] # "idle" /\ num'[s] > 0 => data'[s] \in Buffer(num'[s])
      BY <1>4, <2>a DEF TypeOK, WriteCopy, Return, locals
    <3> QED BY <3>1, <3>2, <3>3, <3>4, <3>5, <3>0, <3>6 DEF TypeOK
  <2>2. MutexInv'
    BY <1>4, <2>a DEF TypeOK, WriteCopy, Lock, Unlock
  <2>3. IndexInv'
    BY <1>4, <2>a, Exclusive, InRange DEF TypeOK, WriteCopy, Reduced
  <2>4. FrameInv'
    BY <1>4, <2>a DEF TypeOK, WriteCopy, Return, locals
  <2> QED BY <2>1, <2>2, <2>3, <2>4
<1>5. ASSUME NEW t \in Task, WriteAdd(t) PROVE IInv'
  <2>a. wrIdx' = wrIdx + num[t] /\ wrIdx' \in 0..(2 * Depth)
    <3>1. wrIdx \in 0..Depth /\ num[t] \in 0..MaxRequest
      BY <1>5, InRange DEF WriteAdd
    <3>2. wrIdx + num[t] \in 0..(2 * Depth) /\ (wrIdx + num[t]) % Modulus = wrIdx + num[t]
      BY <3>1, AddInRange
    <3> QED BY <1>5, <3>2 DEF WriteAdd
  <2>1. TypeOK'
    <3>1. wrIdx' \in 0..(2 * Depth) /\ rdIdx' \in 0..(2 * Depth)
      BY <1>5, <2>a, InRange DEF TypeOK, WriteAdd, Reduced
    <3>2. mem' \in Buffer(Depth + 1)
      BY <1>5, <2>a, InRange DEF TypeOK, WriteAdd
    <3>3. lock' \in Task \cup {NoTask} /\ pc' \in [Task -> InCall \cup {"idle"}]
      BY <1>5, <2>a DEF TypeOK, WriteAdd, InCall, Lock, Unlock
    <3>4. num' \in [Task -> 0..MaxRequest] /\ numToRead' \in [Task -> 0..MaxRequest]
      BY <1>5, <2>a DEF TypeOK, WriteAdd, Return, locals
    <3>5. seen' \in [Task -> 0..Depth]
      BY <1>5, <2>a DEF TypeOK, WriteAdd, Return, locals
    <3>0. DOMAIN data' = Task
      BY <1>5, <2>a DEF TypeOK, WriteAdd, Return, locals
    <3>6. \A s \in Task : pc'[s] # "idle" /\ num'[s] > 0 => data'[s] \in Buffer(num'[s])
      BY <1>5, <2>a DEF TypeOK, WriteAdd, Return, locals
    <3> QED BY <3>1, <3>2, <3>3, <3>4, <3>5, <3>0, <3>6 DEF TypeOK
  <2>2. MutexInv'
    BY <1>5, <2>a DEF TypeOK, WriteAdd, Lock, Unlock
  <2>3. IndexInv'
    BY <1>5, <2>a, Exclusive, InRange DEF TypeOK, WriteAdd, Reduced
  <2>4. FrameInv'
    BY <1>5, <2>a DEF TypeOK, WriteAdd, Return, locals
  <2> QED BY <2>1, <2>2, <2>3, <2>4
<1>6. ASSUME NEW t \in Task, WriteWrap(t) PROVE IInv'
  <2>1. TypeOK'
    <3>1. wrIdx' \in 0..(2 * Depth) /\ rdIdx' \in 0..(2 * Depth)
      BY <1>6, InRange DEF TypeOK, WriteWrap, Reduced
    <3>2. mem' \in Buffer(Depth + 1)
      BY <1>6, InRange DEF TypeOK, WriteWrap
    <3>3. lock' \in Task \cup {NoTask} /\ pc' \in [Task -> InCall \cup {"idle"}]
      BY <1>6 DEF TypeOK, WriteWrap, InCall, Lock, Unlock
    <3>4. num' \in [Task -> 0..MaxRequest] /\ numToRead' \in [Task -> 0..MaxRequest]
      BY <1>6 DEF TypeOK, WriteWrap, Return, locals
    <3>5. seen' \in [Task -> 0..Depth]
      BY <1>6 DEF TypeOK, WriteWrap, Return, locals
    <3>0. DOMAIN data' = Task
      BY <1>6 DEF TypeOK, WriteWrap, Return, locals
    <3>6. \A s \in Task : pc'[s] # "idle" /\ num'[s] > 0 => data'[s] \in Buffer(num'[s])
      BY <1>6 DEF TypeOK, WriteWrap, Return, locals
    <3> QED BY <3>1, <3>2, <3>3, <3>4, <3>5, <3>0, <3>6 DEF TypeOK
  <2>2. MutexInv'
    BY <1>6 DEF TypeOK, WriteWrap, Lock, Unlock
  <2>3. IndexInv'
    BY <1>6, Exclusive, InRange DEF TypeOK, WriteWrap, Reduced
  <2>4. FrameInv'
    BY <1>6 DEF TypeOK, WriteWrap, Return, locals
  <2> QED BY <2>1, <2>2, <2>3, <2>4
<1>7. ASSUME NEW t \in Task, ReadCall(t) PROVE IInv'
  <2>a. PICK n \in 1..MaxRequest :
          /\ num' = [num EXCEPT ![t] = n]
          /\ data' = [data EXCEPT ![t] = Blank(n)]
          /\ pc' = [pc EXCEPT ![t] = "p_lock"]
          /\ numToRead' = [numToRead EXCEPT ![t] = Least(n, Count)]
    BY <1>7 DEF ReadCall
  <2>b. /\ pc[t] = "idle"
        /\ UNCHANGED <<wrIdx, rdIdx, mem, lock, seen>>
    BY <1>7 DEF ReadCall
  <2>c. Blank(n) \in Buffer(n) /\ Least(n, Count) \in 0..n
    <3>1. wrIdx \in Nat /\ rdIdx \in Nat /\ n \in 0..MaxRequest
      BY DEF TypeOK
    <3>2. Least(n, Count) \in 0..n
      BY <3>1, LeastValue DEF Count
    <3> QED BY <3>2 DEF Blank, Buffer
  <2>1. TypeOK'
    <3>1. wrIdx' \in 0..(2 * Depth) /\ rdIdx' \in 0..(2 * Depth)
      BY <2>a, <2>b, <2>c, InRange DEF TypeOK, Reduced
    <3>2. mem' \in Buffer(Depth + 1)
      BY <2>a, <2>b, <2>c, InRange DEF TypeOK
    <3>3. lock' \in Task \cup {NoTask} /\ pc' \in [Task -> InCall \cup {"idle"}]
      BY <2>a, <2>b, <2>c DEF TypeOK, InCall, Lock, Unlock
    <3>4. num' \in [Task -> 0..MaxRequest] /\ numToRead' \in [Task -> 0..MaxRequest]
      <4>1. num' \in [Task -> 0..MaxRequest]
        BY <2>a DEF TypeOK
      <4>2. Least(n, Count) \in 0..MaxRequest
        BY <2>c
      <4> QED BY <2>a, <4>1, <4>2 DEF TypeOK
    <3>5. seen' \in [Task -> 0..Depth]
      BY <2>a, <2>b, <2>c DEF TypeOK, Return, locals
    <3>0. DOMAIN data' = Task
      BY <2>a, <2>b, <2>c DEF TypeOK, Return, locals
    <3>6. \A s \in Task : pc'[s] # "idle" /\ num'[s] > 0 => data'[s] \in Buffer(num'[s])
      BY <2>a, <2>b, <2>c DEF TypeOK, Return, locals
    <3> QED BY <3>1, <3>2, <3>3, <3>4, <3>5, <3>0, <3>6 DEF TypeOK
  <2>2. MutexInv'
    BY <2>a, <2>b, <2>c DEF TypeOK, Lock, Unlock
  <2>3. IndexInv'
    BY <2>a, <2>b, <2>c, Exclusive, InRange DEF TypeOK, Reduced
  <2>4. FrameInv'
    <3>1. num'[t] = n /\ data'[t] = Blank(n) /\ pc'[t] \in Peeking /\ numToRead'[t] <= n
      <4>1. num'[t] = n /\ data'[t] = Blank(n) /\ pc'[t] \in Peeking
        BY <2>a DEF TypeOK
      <4>2. numToRead'[t] = Least(n, Count)
        BY <2>a DEF TypeOK
      <4> QED BY <4>1, <4>2, <2>c
    <3>2. ASSUME NEW s \in Task, s # t
          PROVE  /\ num'[s] = num[s]
                 /\ data'[s] = data[s]
                 /\ pc'[s] = pc[s]
                 /\ numToRead'[s] = numToRead[s]
      BY <3>2, <2>a DEF TypeOK
    <3> QED BY <3>1, <3>2, <2>c
  <2> QED BY <2>1, <2>2, <2>3, <2>4
<1>8. ASSUME NEW t \in Task, PeekLock(t) PROVE IInv'
  <2>1. TypeOK'
    <3>1. wrIdx' \in 0..(2 * Depth) /\ rdIdx' \in 0..(2 * Depth)
      BY <1>8, InRange DEF TypeOK, PeekLock, Reduced
    <3>2. mem' \in Buffer(Depth + 1)
      BY <1>8, InRange DEF TypeOK, PeekLock
    <3>3. lock' \in Task \cup {NoTask} /\ pc' \in [Task -> InCall \cup {"idle"}]
      BY <1>8 DEF TypeOK, PeekLock, InCall, Lock, Unlock
    <3>4. num' \in [Task -> 0..MaxRequest] /\ numToRead' \in [Task -> 0..MaxRequest]
      BY <1>8 DEF TypeOK, PeekLock, Return, locals
    <3>5. seen' \in [Task -> 0..Depth]
      BY <1>8 DEF TypeOK, PeekLock, Return, locals
    <3>0. DOMAIN data' = Task
      BY <1>8 DEF TypeOK, PeekLock, Return, locals
    <3>6. \A s \in Task : pc'[s] # "idle" /\ num'[s] > 0 => data'[s] \in Buffer(num'[s])
      BY <1>8 DEF TypeOK, PeekLock, Return, locals
    <3> QED BY <3>1, <3>2, <3>3, <3>4, <3>5, <3>0, <3>6 DEF TypeOK
  <2>2. MutexInv'
    BY <1>8 DEF TypeOK, PeekLock, Lock, Unlock
  <2>3. IndexInv'
    BY <1>8, Exclusive, InRange DEF TypeOK, PeekLock, Reduced
  <2>4. FrameInv'
    BY <1>8 DEF TypeOK, PeekLock, Return, locals
  <2> QED BY <2>1, <2>2, <2>3, <2>4
<1>9. ASSUME NEW t \in Task, PeekNothing(t) PROVE IInv'
  <2>1. TypeOK'
    <3>1. wrIdx' \in 0..(2 * Depth) /\ rdIdx' \in 0..(2 * Depth)
      BY <1>9, InRange DEF TypeOK, PeekNothing, Reduced
    <3>2. mem' \in Buffer(Depth + 1)
      BY <1>9, InRange DEF TypeOK, PeekNothing
    <3>3. lock' \in Task \cup {NoTask} /\ pc' \in [Task -> InCall \cup {"idle"}]
      BY <1>9 DEF TypeOK, PeekNothing, InCall, Lock, Unlock
    <3>4. num' \in [Task -> 0..MaxRequest] /\ numToRead' \in [Task -> 0..MaxRequest]
      BY <1>9 DEF TypeOK, PeekNothing, Return, locals
    <3>5. seen' \in [Task -> 0..Depth]
      BY <1>9 DEF TypeOK, PeekNothing, Return, locals
    <3>0. DOMAIN data' = Task
      BY <1>9 DEF TypeOK, PeekNothing, Return, locals
    <3>6. \A s \in Task : pc'[s] # "idle" /\ num'[s] > 0 => data'[s] \in Buffer(num'[s])
      BY <1>9 DEF TypeOK, PeekNothing, Return, locals
    <3> QED BY <3>1, <3>2, <3>3, <3>4, <3>5, <3>0, <3>6 DEF TypeOK
  <2>2. MutexInv'
    BY <1>9 DEF TypeOK, PeekNothing, Lock, Unlock
  <2>3. IndexInv'
    BY <1>9, Exclusive, InRange DEF TypeOK, PeekNothing, Reduced
  <2>4. FrameInv'
    BY <1>9 DEF TypeOK, PeekNothing, Return, locals
  <2> QED BY <2>1, <2>2, <2>3, <2>4
<1>10. ASSUME NEW t \in Task, PeekCopy(t) PROVE IInv'
  <2>a. CircRead(mem, rdIdx, data[t], numToRead[t]) \in Buffer(num[t])
    <3>1. rdIdx \in 0..Depth /\ num[t] \in 1..MaxRequest /\ data[t] \in Buffer(num[t])
      BY <1>10, InRange DEF PeekCopy
    <3>2. numToRead[t] \in 1..num[t] /\ mem \in Buffer(Depth + 1)
      BY <1>10, <3>1 DEF PeekCopy, TypeOK
    <3> QED BY <3>1, <3>2, CircReadType
  <2>1. TypeOK'
    <3>1. wrIdx' \in 0..(2 * Depth) /\ rdIdx' \in 0..(2 * Depth)
      BY <1>10, <2>a, InRange DEF TypeOK, PeekCopy, Reduced
    <3>2. mem' \in Buffer(Depth + 1)
      BY <1>10, <2>a, InRange DEF TypeOK, PeekCopy
    <3>3. lock' \in Task \cup {NoTask} /\ pc' \in [Task -> InCall \cup {"idle"}]
      BY <1>10, <2>a DEF TypeOK, PeekCopy, InCall, Lock, Unlock
    <3>4. num' \in [Task -> 0..MaxRequest] /\ numToRead' \in [Task -> 0..MaxRequest]
      BY <1>10, <2>a DEF TypeOK, PeekCopy, Return, locals
    <3>5. seen' \in [Task -> 0..Depth]
      BY <1>10, <2>a DEF TypeOK, PeekCopy, Return, locals
    <3>0. DOMAIN data' = Task
      BY <1>10, <2>a DEF TypeOK, PeekCopy, Return, locals
    <3>6. \A s \in Task : pc'[s] # "idle" /\ num'[s] > 0 => data'[s] \in Buffer(num'[s])
      BY <1>10, <2>a DEF TypeOK, PeekCopy, Return, locals
    <3> QED BY <3>1, <3>2, <3>3, <3>4, <3>5, <3>0, <3>6 DEF TypeOK
  <2>2. MutexInv'
    BY <1>10, <2>a DEF TypeOK, PeekCopy, Lock, Unlock
  <2>3. IndexInv'
    BY <1>10, <2>a, Exclusive, InRange DEF TypeOK, PeekCopy, Reduced
  <2>4. FrameInv'
    BY <1>10, <2>a DEF TypeOK, PeekCopy, Return, locals
  <2> QED BY <2>1, <2>2, <2>3, <2>4
<1>11. ASSUME NEW t \in Task, AckLock(t) PROVE IInv'
  <2>1. TypeOK'
    <3>1. wrIdx' \in 0..(2 * Depth) /\ rdIdx' \in 0..(2 * Depth)
      BY <1>11, InRange DEF TypeOK, AckLock, Reduced
    <3>2. mem' \in Buffer(Depth + 1)
      BY <1>11, InRange DEF TypeOK, AckLock
    <3>3. lock' \in Task \cup {NoTask} /\ pc' \in [Task -> InCall \cup {"idle"}]
      BY <1>11 DEF TypeOK, AckLock, InCall, Lock, Unlock
    <3>4. num' \in [Task -> 0..MaxRequest] /\ numToRead' \in [Task -> 0..MaxRequest]
      BY <1>11 DEF TypeOK, AckLock, Return, locals
    <3>5. seen' \in [Task -> 0..Depth]
      BY <1>11 DEF TypeOK, AckLock, Return, locals
    <3>0. DOMAIN data' = Task
      BY <1>11 DEF TypeOK, AckLock, Return, locals
    <3>6. \A s \in Task : pc'[s] # "idle" /\ num'[s] > 0 => data'[s] \in Buffer(num'[s])
      BY <1>11 DEF TypeOK, AckLock, Return, locals
    <3> QED BY <3>1, <3>2, <3>3, <3>4, <3>5, <3>0, <3>6 DEF TypeOK
  <2>2. MutexInv'
    BY <1>11 DEF TypeOK, AckLock, Lock, Unlock
  <2>3. IndexInv'
    BY <1>11, Exclusive, InRange DEF TypeOK, AckLock, Reduced
  <2>4. FrameInv'
    BY <1>11 DEF TypeOK, AckLock, Return, locals
  <2> QED BY <2>1, <2>2, <2>3, <2>4
<1>12. ASSUME NEW t \in Task, AckAdd(t) PROVE IInv'
  <2>a. rdIdx' = rdIdx + numToRead[t] /\ rdIdx' \in 0..(2 * Depth)
    <3>1. rdIdx \in 0..Depth /\ numToRead[t] \in 0..MaxRequest
      BY <1>12, InRange DEF AckAdd, TypeOK
    <3>2. rdIdx + numToRead[t] \in 0..(2 * Depth) /\ (rdIdx + numToRead[t]) % Modulus = rdIdx + numToRead[t]
      BY <3>1, AddInRange
    <3> QED BY <1>12, <3>2 DEF AckAdd
  <2>1. TypeOK'
    <3>1. wrIdx' \in 0..(2 * Depth) /\ rdIdx' \in 0..(2 * Depth)
      BY <1>12, <2>a, InRange DEF TypeOK, AckAdd, Reduced
    <3>2. mem' \in Buffer(Depth + 1)
      BY <1>12, <2>a, InRange DEF TypeOK, AckAdd
    <3>3. lock' \in Task \cup {NoTask} /\ pc' \in [Task -> InCall \cup {"idle"}]
      BY <1>12, <2>a DEF TypeOK, AckAdd, InCall, Lock, Unlock
    <3>4. num' \in [Task -> 0..MaxRequest] /\ numToRead' \in [Task -> 0..MaxRequest]
      BY <1>12, <2>a DEF TypeOK, AckAdd, Return, locals
    <3>5. seen' \in [Task -> 0..Depth]
      BY <1>12, <2>a DEF TypeOK, AckAdd, Return, locals
    <3>0. DOMAIN data' = Task
      BY <1>12, <2>a DEF TypeOK, AckAdd, Return, locals
    <3>6. \A s \in Task : pc'[s] # "idle" /\ num'[s] > 0 => data'[s] \in Buffer(num'[s])
      BY <1>12, <2>a DEF TypeOK, AckAdd, Return, locals
    <3> QED BY <3>1, <3>2, <3>3, <3>4, <3>5, <3>0, <3>6 DEF TypeOK
  <2>2. MutexInv'
    BY <1>12, <2>a DEF TypeOK, AckAdd, Lock, Unlock
  <2>3. IndexInv'
    BY <1>12, <2>a, Exclusive, InRange DEF TypeOK, AckAdd, Reduced
  <2>4. FrameInv'
    BY <1>12, <2>a DEF TypeOK, AckAdd, Return, locals
  <2> QED BY <2>1, <2>2, <2>3, <2>4
<1>13. ASSUME NEW t \in Task, AckWrap(t) PROVE IInv'
  <2>1. TypeOK'
    <3>1. wrIdx' \in 0..(2 * Depth) /\ rdIdx' \in 0..(2 * Depth)
      BY <1>13, InRange DEF TypeOK, AckWrap, Reduced
    <3>2. mem' \in Buffer(Depth + 1)
      BY <1>13, InRange DEF TypeOK, AckWrap
    <3>3. lock' \in Task \cup {NoTask} /\ pc' \in [Task -> InCall \cup {"idle"}]
      BY <1>13 DEF TypeOK, AckWrap, InCall, Lock, Unlock
    <3>4. num' \in [Task -> 0..MaxRequest] /\ numToRead' \in [Task -> 0..MaxRequest]
      BY <1>13 DEF TypeOK, AckWrap, Return, locals
    <3>5. seen' \in [Task -> 0..Depth]
      BY <1>13 DEF TypeOK, AckWrap, Return, locals
    <3>0. DOMAIN data' = Task
      BY <1>13 DEF TypeOK, AckWrap, Return, locals
    <3>6. \A s \in Task : pc'[s] # "idle" /\ num'[s] > 0 => data'[s] \in Buffer(num'[s])
      BY <1>13 DEF TypeOK, AckWrap, Return, locals
    <3> QED BY <3>1, <3>2, <3>3, <3>4, <3>5, <3>0, <3>6 DEF TypeOK
  <2>2. MutexInv'
    BY <1>13 DEF TypeOK, AckWrap, Lock, Unlock
  <2>3. IndexInv'
    BY <1>13, Exclusive, InRange DEF TypeOK, AckWrap, Reduced
  <2>4. FrameInv'
    BY <1>13 DEF TypeOK, AckWrap, Return, locals
  <2> QED BY <2>1, <2>2, <2>3, <2>4
<1>14. ASSUME NEW t \in Task, FlushLock(t) PROVE IInv'
  <2>1. TypeOK'
    <3>1. wrIdx' \in 0..(2 * Depth) /\ rdIdx' \in 0..(2 * Depth)
      BY <1>14, InRange DEF TypeOK, FlushLock, Reduced
    <3>2. mem' \in Buffer(Depth + 1)
      BY <1>14, InRange DEF TypeOK, FlushLock
    <3>3. lock' \in Task \cup {NoTask} /\ pc' \in [Task -> InCall \cup {"idle"}]
      BY <1>14 DEF TypeOK, FlushLock, InCall, Lock, Unlock
    <3>4. num' \in [Task -> 0..MaxRequest] /\ numToRead' \in [Task -> 0..MaxRequest]
      BY <1>14 DEF TypeOK, FlushLock, Return, locals
    <3>5. seen' \in [Task -> 0..Depth]
      BY <1>14 DEF TypeOK, FlushLock, Return, locals
    <3>0. DOMAIN data' = Task
      BY <1>14 DEF TypeOK, FlushLock, Return, locals
    <3>6. \A s \in Task : pc'[s] # "idle" /\ num'[s] > 0 => data'[s] \in Buffer(num'[s])
      <4>1. pc[t] = "idle" /\ num' = num /\ data' = data
        BY <1>14 DEF FlushLock, locals
      <4>2. num[t] = 0
        BY <4>1
      <4>3. \A s \in Task \ {t} : pc'[s] = pc[s]
        BY <1>14 DEF TypeOK, FlushLock
      <4> QED BY <4>1, <4>2, <4>3 DEF TypeOK
    <3> QED BY <3>1, <3>2, <3>3, <3>4, <3>5, <3>0, <3>6 DEF TypeOK
  <2>2. MutexInv'
    BY <1>14 DEF TypeOK, FlushLock, Lock, Unlock
  <2>3. IndexInv'
    BY <1>14, Exclusive, InRange DEF TypeOK, FlushLock, Reduced
  <2>4. FrameInv'
    BY <1>14 DEF TypeOK, FlushLock, Return, locals
  <2> QED BY <2>1, <2>2, <2>3, <2>4
<1>15. ASSUME NEW t \in Task, FlushWr(t) PROVE IInv'
  <2>1. TypeOK'
    <3>1. wrIdx' \in 0..(2 * Depth) /\ rdIdx' \in 0..(2 * Depth)
      BY <1>15, InRange DEF TypeOK, FlushWr, Reduced
    <3>2. mem' \in Buffer(Depth + 1)
      BY <1>15, InRange DEF TypeOK, FlushWr
    <3>3. lock' \in Task \cup {NoTask} /\ pc' \in [Task -> InCall \cup {"idle"}]
      BY <1>15 DEF TypeOK, FlushWr, InCall, Lock, Unlock
    <3>4. num' \in [Task -> 0..MaxRequest] /\ numToRead' \in [Task -> 0..MaxRequest]
      BY <1>15 DEF TypeOK, FlushWr, Return, locals
    <3>5. seen' \in [Task -> 0..Depth]
      BY <1>15 DEF TypeOK, FlushWr, Return, locals
    <3>0. DOMAIN data' = Task
      BY <1>15 DEF TypeOK, FlushWr, Return, locals
    <3>6. \A s \in Task : pc'[s] # "idle" /\ num'[s] > 0 => data'[s] \in Buffer(num'[s])
      BY <1>15 DEF TypeOK, FlushWr, Return, locals
    <3> QED BY <3>1, <3>2, <3>3, <3>4, <3>5, <3>0, <3>6 DEF TypeOK
  <2>2. MutexInv'
    BY <1>15 DEF TypeOK, FlushWr, Lock, Unlock
  <2>3. IndexInv'
    BY <1>15, Exclusive, InRange DEF TypeOK, FlushWr, Reduced
  <2>4. FrameInv'
    BY <1>15 DEF TypeOK, FlushWr, Return, locals
  <2> QED BY <2>1, <2>2, <2>3, <2>4
<1>16. ASSUME NEW t \in Task, FlushRd(t) PROVE IInv'
  <2>1. TypeOK'
    <3>1. wrIdx' \in 0..(2 * Depth) /\ rdIdx' \in 0..(2 * Depth)
      BY <1>16, InRange DEF TypeOK, FlushRd, Reduced
    <3>2. mem' \in Buffer(Depth + 1)
      BY <1>16, InRange DEF TypeOK, FlushRd
    <3>3. lock' \in Task \cup {NoTask} /\ pc' \in [Task -> InCall \cup {"idle"}]
      BY <1>16 DEF TypeOK, FlushRd, InCall, Lock, Unlock
    <3>4. num' \in [Task -> 0..MaxRequest] /\ numToRead' \in [Task -> 0..MaxRequest]
      BY <1>16 DEF TypeOK, FlushRd, Return, locals
    <3>5. seen' \in [Task -> 0..Depth]
      BY <1>16 DEF TypeOK, FlushRd, Return, locals
    <3>0. DOMAIN data' = Task
      BY <1>16 DEF TypeOK, FlushRd, Return, locals
    <3>6. \A s \in Task : pc'[s] # "idle" /\ num'[s] > 0 => data'[s] \in Buffer(num'[s])
      BY <1>16 DEF TypeOK, FlushRd, Return, locals
    <3> QED BY <3>1, <3>2, <3>3, <3>4, <3>5, <3>0, <3>6 DEF TypeOK
  <2>2. MutexInv'
    BY <1>16 DEF TypeOK, FlushRd, Lock, Unlock
  <2>3. IndexInv'
    BY <1>16, Exclusive, InRange DEF TypeOK, FlushRd, Reduced
  <2>4. FrameInv'
    BY <1>16 DEF TypeOK, FlushRd, Return, locals
  <2> QED BY <2>1, <2>2, <2>3, <2>4
<1>17. ASSUME NEW t \in Task, AskLock(t) PROVE IInv'
  <2>1. TypeOK'
    <3>1. wrIdx' \in 0..(2 * Depth) /\ rdIdx' \in 0..(2 * Depth)
      BY <1>17, InRange DEF TypeOK, AskLock, Reduced
    <3>2. mem' \in Buffer(Depth + 1)
      BY <1>17, InRange DEF TypeOK, AskLock
    <3>3. lock' \in Task \cup {NoTask} /\ pc' \in [Task -> InCall \cup {"idle"}]
      BY <1>17 DEF TypeOK, AskLock, InCall, Lock, Unlock
    <3>4. num' \in [Task -> 0..MaxRequest] /\ numToRead' \in [Task -> 0..MaxRequest]
      BY <1>17 DEF TypeOK, AskLock, Return, locals
    <3>5. seen' \in [Task -> 0..Depth]
      BY <1>17 DEF TypeOK, AskLock, Return, locals
    <3>0. DOMAIN data' = Task
      BY <1>17 DEF TypeOK, AskLock, Return, locals
    <3>6. \A s \in Task : pc'[s] # "idle" /\ num'[s] > 0 => data'[s] \in Buffer(num'[s])
      <4>1. pc[t] = "idle" /\ num' = num /\ data' = data
        BY <1>17 DEF AskLock, locals
      <4>2. num[t] = 0
        BY <4>1
      <4>3. \A s \in Task \ {t} : pc'[s] = pc[s]
        BY <1>17 DEF TypeOK, AskLock
      <4> QED BY <4>1, <4>2, <4>3 DEF TypeOK
    <3> QED BY <3>1, <3>2, <3>3, <3>4, <3>5, <3>0, <3>6 DEF TypeOK
  <2>2. MutexInv'
    BY <1>17 DEF TypeOK, AskLock, Lock, Unlock
  <2>3. IndexInv'
    BY <1>17, Exclusive, InRange DEF TypeOK, AskLock, Reduced
  <2>4. FrameInv'
    BY <1>17 DEF TypeOK, AskLock, Return, locals
  <2> QED BY <2>1, <2>2, <2>3, <2>4
<1>18. ASSUME NEW t \in Task, AskGet(t) PROVE IInv'
  <2>a. Count \in 0..Depth /\ Avail \in 0..Depth
    <3>1. wrIdx \in 0..Depth /\ rdIdx \in 0..Depth
      BY <1>18, InRange DEF AskGet
    <3>2. Count \in 0..Depth
      BY <3>1, CountInRange DEF Count
    <3> QED BY <3>2, SmallMod DEF Avail
  <2>1. TypeOK'
    <3>1. wrIdx' \in 0..(2 * Depth) /\ rdIdx' \in 0..(2 * Depth)
      BY <1>18, <2>a, InRange DEF TypeOK, AskGet, Reduced
    <3>2. mem' \in Buffer(Depth + 1)
      BY <1>18, <2>a, InRange DEF TypeOK, AskGet
    <3>3. lock' \in Task \cup {NoTask} /\ pc' \in [Task -> InCall \cup {"idle"}]
      BY <1>18, <2>a DEF TypeOK, AskGet, InCall, Lock, Unlock
    <3>4. num' \in [Task -> 0..MaxRequest] /\ numToRead' \in [Task -> 0..MaxRequest]
      BY <1>18, <2>a DEF TypeOK, AskGet, Return, locals
    <3>5. seen' \in [Task -> 0..Depth]
      BY <1>18, <2>a DEF TypeOK, AskGet, Return, locals
    <3>0. DOMAIN data' = Task
      BY <1>18, <2>a DEF TypeOK, AskGet, Return, locals
    <3>6. \A s \in Task : pc'[s] # "idle" /\ num'[s] > 0 => data'[s] \in Buffer(num'[s])
      BY <1>18, <2>a DEF TypeOK, AskGet, Return, locals
    <3> QED BY <3>1, <3>2, <3>3, <3>4, <3>5, <3>0, <3>6 DEF TypeOK
  <2>2. MutexInv'
    BY <1>18, <2>a DEF TypeOK, AskGet, Lock, Unlock
  <2>3. IndexInv'
    BY <1>18, <2>a, Exclusive, InRange DEF TypeOK, AskGet, Reduced
  <2>4. FrameInv'
    BY <1>18, <2>a DEF TypeOK, AskGet, Return, locals
  <2> QED BY <2>1, <2>2, <2>3, <2>4
<1>19. CASE UNCHANGED vars
  BY <1>19 DEF vars, TypeOK
<1>21. QED
  BY <1>1, <1>2, <1>3, <1>4, <1>5, <1>6, <1>7, <1>8, <1>9, <1>10, <1>11, <1>12, <1>13, <1>14, <1>15, <1>16, <1>17, <1>18, <1>19
  DEF Next, Call, Step, WriteStep, ReadStep, FlushStep

(* SwFifo.TypeOK for every depth, item size and number of tasks: indices,   *)
(* frames and memory addresses stay in range even while an increment is     *)
(* half stored (SwFifo_write, SwFifo_read, SwFifo_flush).                   *)
THEOREM TypeCorrect == Guarded => (Spec => []TypeOK)
<1> SUFFICES ASSUME Guarded PROVE Spec => []TypeOK
  OBVIOUS
<1>1. IInv /\ [Next]_vars => IInv'
  BY NextIInv
<1>2. IInv => TypeOK
  BY DEF IInv
<1> QED
  BY InitIInv, <1>1, <1>2, PTL DEF Spec

-----------------------------------------------------------------------------
(* One task reads and flushes. *)
SoleReader == \A s, t \in Readers \cup Flushers : s = t

(* A writer past its check still has the space it checked for. *)
SpaceInv ==
  \A t \in Task :
    /\ pc[t] = "w_add" => num[t] <= Depth - CountOf(wrIdx, rdIdx)
    /\ pc[t] = "w_wrap" => /\ wrIdx - num[t] \in 0..Depth
                           /\ num[t] <= Depth - CountOf(wrIdx - num[t], rdIdx)

(* A reader that has computed numToRead finds that many items when it gets  *)
(* the mutex, and keeps finding them until its ack.                         *)
PeekInv ==
  \A t \in Readers :
    /\ pc[t] \in {"p_lock", "p_copy"} =>
         numToRead[t] <= CountOf(Reduced(wrIdx), rdIdx)
    /\ pc[t] \in {"a_lock", "a_add", "a_wrap"} =>
         numToRead[t] <= CountOf(CommittedWr, CommittedRd)

(* Only the code of readers and flushers is executed by them. *)
RoleInv ==
  \A t \in Task :
    /\ pc[t] \in Peeking \cup Acking => t \in Readers
    /\ pc[t] \in {"f_wr", "f_rd"} => t \in Flushers

AInv == IInv /\ SpaceInv /\ PeekInv /\ RoleInv

(* Advancing the write index by k adds k to the count, both before and      *)
(* after the sum is reduced.                                                *)
LEMMA Advance ==
  ASSUME NEW old \in 0..Depth, NEW rd \in 0..Depth, NEW k \in 1..MaxRequest,
         k <= Depth - CountOf(old, rd)
  PROVE  /\ CountOf(old + k, rd) = CountOf(old, rd) + k
         /\ CountOf(Reduced(old + k), rd) = CountOf(old, rd) + k
         /\ Reduced(Reduced(old + k)) = Reduced(old + k)
         /\ Reduced(old + k) \in 0..Depth
<1>1. /\ old >= rd => CountOf(old, rd) = old - rd
      /\ old < rd => CountOf(old, rd) = Depth - rd + old + 1
  <2>1. old \in 0..(2 * Depth)
    OBVIOUS
  <2> QED BY <2>1, CountValue
<1>2. old + k \in 0..(2 * Depth) /\ old + k \in Nat
  OBVIOUS
<1>3. /\ old + k >= rd => CountOf(old + k, rd) = old + k - rd
      /\ old + k < rd => CountOf(old + k, rd) = Depth - rd + old + k + 1
  <2> DEFINE new == old + k
  <2>1. new \in 0..(2 * Depth)
    BY <1>2
  <2> HIDE DEF new
  <2>2. /\ new >= rd => CountOf(new, rd) = new - rd
        /\ new < rd => CountOf(new, rd) = Depth - rd + new + 1
    BY <2>1, CountValue
  <2> QED BY <2>2 DEF new
<1>4. CASE old + k <= Depth
  <2>1. Reduced(old + k) = old + k
    BY <1>4 DEF Reduced
  <2> QED BY <1>1, <1>3, <1>4, <2>1
<1>5. CASE old + k > Depth
  <2>1. Reduced(old + k) = old + k - (Depth + 1) /\ old + k - (Depth + 1) \in 0..Depth
    BY <1>5 DEF Reduced
  <2>2. Reduced(Reduced(old + k)) = Reduced(old + k)
    BY <2>1 DEF Reduced
  <2>3. old >= rd /\ old + k - (Depth + 1) < rd
    BY <1>1, <1>5
  <2>4. CountOf(old + k - (Depth + 1), rd) = Depth - rd + (old + k - (Depth + 1)) + 1
    <3> DEFINE new == old + k - (Depth + 1)
    <3>1. new \in 0..(2 * Depth) /\ new < rd
      BY <2>1, <2>3
    <3> HIDE DEF new
    <3>2. CountOf(new, rd) = Depth - rd + new + 1
      BY <3>1, CountValue
    <3> QED BY <3>2 DEF new
  <2> QED BY <1>1, <1>3, <2>1, <2>2, <2>3, <2>4
<1> QED BY <1>4, <1>5

(* The indices as they were before an increment that is half stored: the    *)
(* definitions of CommittedWr and CommittedRd without their CHOOSE.         *)
CommittedInv ==
  /\ \A t \in Task : pc[t] = "w_wrap" => CommittedWr = wrIdx - num[t]
  /\ \A t \in Task : pc[t] = "a_wrap" => CommittedRd = rdIdx - numToRead[t]
  /\ (\A t \in Task : pc[t] # "w_wrap") => CommittedWr = wrIdx
  /\ (\A t \in Task : pc[t] # "a_wrap") => CommittedRd = rdIdx

LEMMA Committed == Guarded /\ IInv => CommittedInv
<1> SUFFICES ASSUME Guarded, IInv PROVE CommittedInv
  OBVIOUS
<1>1. \A s, t \in Task : pc[s] = "w_wrap" /\ pc[t] = "w_wrap" => s = t
  BY Exclusive DEF IInv, Critical
<1>2. \A s, t \in Task : pc[s] = "a_wrap" /\ pc[t] = "a_wrap" => s = t
  BY Exclusive DEF IInv, Critical
<1>3. ASSUME NEW t \in Task, pc[t] = "w_wrap" PROVE CommittedWr = wrIdx - num[t]
  <2>1. t = CHOOSE s \in Task : pc[s] = "w_wrap"
    BY <1>1, <1>3
  <2> QED BY <1>3, <2>1 DEF CommittedWr
<1>4. ASSUME NEW t \in Task, pc[t] = "a_wrap" PROVE CommittedRd = rdIdx - numToRead[t]
  <2>1. t = CHOOSE s \in Task : pc[s] = "a_wrap"
    BY <1>2, <1>4
  <2> QED BY <1>4, <2>1 DEF CommittedRd
<1> QED
  BY <1>3, <1>4 DEF CommittedWr, CommittedRd, CommittedInv

LEMMA CommittedNext == Guarded /\ IInv' => CommittedInv'
<1> SUFFICES ASSUME Guarded PROVE IInv' => CommittedInv'
  OBVIOUS
<1>1. IInv => CommittedInv
  BY Committed
<1> QED BY <1>1, PTL

(* Every step keeps what the sole reader relies on. *)
LEMMA NextAInv == Guarded /\ SoleReader /\ AInv /\ [Next]_vars => AInv'
<1> SUFFICES ASSUME Guarded, SoleReader, AInv, [Next]_vars PROVE AInv'
  OBVIOUS
<1>a. IInv /\ IInv'
  BY NextIInv DEF AInv
<1>b. CommittedInv /\ CommittedInv'
  BY <1>a, Committed, CommittedNext
<1>1. ASSUME NEW t \in Task, WriteCall(t) PROVE AInv'
  <2>1. RoleInv'
    BY <1>1, <1>a DEF AInv, IInv, TypeOK, RoleInv, WriteCall, Goto, Peeking, Acking
  <2>2. CommittedWr' = CommittedWr /\ CommittedRd' = CommittedRd
    <3>1. /\ UNCHANGED <<wrIdx, rdIdx, numToRead>>
          /\ pc[t] = "idle" /\ pc' = [pc EXCEPT ![t] = "w_lock"]
          /\ \E n : num' = [num EXCEPT ![t] = n]
      BY <1>1 DEF WriteCall, Goto
    <3>2. \A s \in Task : /\ pc'[s] = "w_wrap" <=> pc[s] = "w_wrap"
                          /\ pc'[s] = "a_wrap" <=> pc[s] = "a_wrap"
                          /\ pc[s] = "w_wrap" => num'[s] = num[s]
      BY <3>1, <1>a DEF IInv, TypeOK
    <3> QED BY <3>1, <3>2, <1>b DEF CommittedInv
  <2>3. SpaceInv'
    BY <1>1, <1>a DEF AInv, IInv, TypeOK, SpaceInv, WriteCall, Goto, Return, locals
  <2>4. PeekInv'
    BY <1>1, <1>a, <2>2 DEF AInv, IInv, TypeOK, PeekInv, WriteCall, Goto, Return, locals
  <2> QED BY <1>a, <2>1, <2>3, <2>4 DEF AInv
<1>2. ASSUME NEW t \in Task, WriteLock(t) PROVE AInv'
  <2>1. RoleInv'
    BY <1>2, <1>a DEF AInv, IInv, TypeOK, RoleInv, WriteLock, Goto, Peeking, Acking
  <2>2. CommittedWr' = CommittedWr /\ CommittedRd' = CommittedRd
    BY <1>2, <1>a, <1>b DEF IInv, TypeOK, CommittedInv, WriteLock, Goto, Return, locals
  <2>3. SpaceInv'
    BY <1>2, <1>a DEF AInv, IInv, TypeOK, SpaceInv, WriteLock, Goto, Return, locals
  <2>4. PeekInv'
    BY <1>2, <1>a, <2>2 DEF AInv, IInv, TypeOK, PeekInv, WriteLock, Goto, Return, locals
  <2> QED BY <1>a, <2>1, <2>3, <2>4 DEF AInv
<1>3. ASSUME NEW t \in Task, WriteRefuse(t) PROVE AInv'
  <2>1. RoleInv'
    BY <1>3, <1>a DEF AInv, IInv, TypeOK, RoleInv, WriteRefuse, Goto, Peeking, Acking
  <2>2. CommittedWr' = CommittedWr /\ CommittedRd' = CommittedRd
    BY <1>3, <1>a, <1>b DEF IInv, TypeOK, CommittedInv, WriteRefuse, Goto, Return, locals
  <2>3. SpaceInv'
    BY <1>3, <1>a DEF AInv, IInv, TypeOK, SpaceInv, WriteRefuse, Goto, Return, locals
  <2>4. PeekInv'
    <3>1. /\ UNCHANGED <<wrIdx, rdIdx>>
          /\ \A s \in Task : pc'[s] \in Peeking \cup Acking =>
               pc'[s] = pc[s] /\ numToRead'[s] = numToRead[s]
      BY <1>3, <1>a DEF AInv, IInv, TypeOK, WriteRefuse, Goto, Return, Peeking, Acking
    <3> QED BY <1>a, <2>2, <3>1, TaskAssumption DEF AInv, PeekInv, Peeking, Acking, Task
  <2> QED BY <1>a, <2>1, <2>3, <2>4 DEF AInv
<1>4. ASSUME NEW t \in Task, WriteCopy(t) PROVE AInv'
  <2>1. RoleInv'
    BY <1>4, <1>a DEF AInv, IInv, TypeOK, RoleInv, WriteCopy, Goto, Peeking, Acking
  <2>2. CommittedWr' = CommittedWr /\ CommittedRd' = CommittedRd
    BY <1>4, <1>a, <1>b DEF IInv, TypeOK, CommittedInv, WriteCopy, Goto, Return, locals
  <2>3. SpaceInv'
    <3>1. /\ wrIdx \in 0..Depth /\ rdIdx \in 0..Depth /\ num[t] \in 1..MaxRequest
          /\ \A s \in Task : pc[s] \in Critical => s = t
      BY <1>4, <1>a, InRange, Exclusive DEF WriteCopy, Goto, Critical, IInv, FrameInv, Writing
    <3>2. Count \in 0..Depth
      BY <3>1, CountInRange DEF Count
    <3>3. Avail = Depth - Count
      BY <3>2, SmallMod DEF Avail
    <3>4. num[t] <= Depth - CountOf(wrIdx, rdIdx)
      BY <1>4, <3>1, <3>2, <3>3 DEF WriteCopy, Count
    <3>5. \A s \in Task : pc'[s] = "w_add" => s = t
      BY <1>4, <1>a, <3>1 DEF WriteCopy, Goto, Critical, IInv, TypeOK
    <3>6. \A s \in Task : pc'[s] # "w_wrap"
      BY <1>4, <1>a, <3>1 DEF WriteCopy, Goto, Critical, IInv, TypeOK
    <3> QED BY <1>4, <3>4, <3>5, <3>6 DEF SpaceInv, WriteCopy
  <2>4. PeekInv'
    BY <1>4, <1>a, <2>2 DEF AInv, IInv, TypeOK, PeekInv, WriteCopy, Goto, Return, locals
  <2> QED BY <1>a, <2>1, <2>3, <2>4 DEF AInv
<1>5. ASSUME NEW t \in Task, WriteAdd(t) PROVE AInv'
  <2>a. /\ wrIdx \in 0..Depth /\ rdIdx \in 0..Depth /\ num[t] \in 1..MaxRequest
        /\ \A s \in Task : pc[s] \in Critical => s = t
    BY <1>5, <1>a, InRange, Exclusive DEF WriteAdd, Goto, Critical, IInv, FrameInv, Writing
  <2>b. wrIdx' = wrIdx + num[t]
    <3>1. num[t] \in 0..MaxRequest
      BY <2>a
    <3> QED BY <1>5, <2>a, <3>1, AddInRange DEF WriteAdd
  <2>c. num[t] <= Depth - CountOf(wrIdx, rdIdx)
    BY <1>5 DEF AInv, SpaceInv, WriteAdd, Goto
  <2>d. /\ pc[t] = "w_add" /\ pc' = [pc EXCEPT ![t] = "w_wrap"]
        /\ UNCHANGED <<rdIdx, num, numToRead>>
    BY <1>5 DEF WriteAdd, Goto
  <2>e. \A s \in Task : /\ pc'[s] = "w_wrap" <=> s = t
                        /\ pc'[s] # "w_add" /\ pc'[s] # "a_wrap" /\ pc[s] # "w_wrap" /\ pc[s] # "a_wrap"
    BY <2>a, <2>d, <1>a DEF IInv, TypeOK, Critical
  <2>1. RoleInv'
    BY <1>5, <1>a DEF AInv, IInv, TypeOK, RoleInv, WriteAdd, Goto, Peeking, Acking
  <2>3. SpaceInv'
    <3>1. wrIdx' - num[t] = wrIdx
      BY <2>a, <2>b
    <3> QED BY <2>a, <2>c, <2>d, <2>e, <3>1 DEF SpaceInv
  <2>4. PeekInv'
    <3>1. CommittedWr = wrIdx /\ CommittedWr' = wrIdx' - num'[t]
      BY <1>b, <2>e DEF CommittedInv
    <3>2. CommittedWr' = CommittedWr
      BY <3>1, <2>a, <2>b, <2>d
    <3>3. CommittedRd' = CommittedRd
      BY <1>b, <2>d, <2>e DEF CommittedInv
    <3>4. Reduced(wrIdx) = wrIdx
      BY <2>a DEF Reduced
    <3>5. CountOf(Reduced(wrIdx'), rdIdx) = CountOf(Reduced(wrIdx), rdIdx) + num[t]
      BY <2>a, <2>b, <2>c, <3>4, Advance
    <3>6. CountOf(wrIdx, rdIdx) \in 0..Depth
      BY <2>a, CountInRange
    <3>7. \A r \in Readers : /\ pc'[r] \in {"p_lock", "p_copy"} => pc[r] = pc'[r]
                             /\ pc'[r] \in {"a_lock", "a_add", "a_wrap"} => pc[r] = pc'[r]
      BY <2>d, <1>a DEF IInv, TypeOK, Task
    <3>8. ASSUME NEW r \in Readers, pc'[r] \in {"p_lock", "p_copy"}
          PROVE  numToRead'[r] <= CountOf(Reduced(wrIdx'), rdIdx')
      <4>1. numToRead[r] \in Nat /\ numToRead[r] <= CountOf(Reduced(wrIdx), rdIdx)
        BY <3>7, <3>8, <1>a DEF AInv, PeekInv, IInv, TypeOK, Task
      <4> QED BY <4>1, <3>4, <3>5, <3>6, <2>a, <2>d
    <3>9. ASSUME NEW r \in Readers, pc'[r] \in {"a_lock", "a_add", "a_wrap"}
          PROVE  numToRead'[r] <= CountOf(CommittedWr', CommittedRd')
      BY <3>2, <3>3, <3>7, <3>9, <2>d DEF AInv, PeekInv
    <3> QED BY <3>8, <3>9 DEF PeekInv
  <2> QED BY <1>a, <2>1, <2>3, <2>4 DEF AInv
<1>6. ASSUME NEW t \in Task, WriteWrap(t) PROVE AInv'
  <2>a. /\ rdIdx \in 0..Depth /\ num[t] \in 1..MaxRequest
        /\ \A s \in Task : pc[s] \in Critical => s = t
    BY <1>6, <1>a, InRange, Exclusive DEF WriteWrap, Goto, Critical, IInv, FrameInv, Writing
  <2>b. /\ wrIdx - num[t] \in 0..Depth
        /\ num[t] <= Depth - CountOf(wrIdx - num[t], rdIdx)
    BY <1>6 DEF AInv, SpaceInv, WriteWrap, Goto
  <2>c. /\ pc[t] = "w_wrap" /\ pc' = [pc EXCEPT ![t] = "idle"]
        /\ rdIdx' = rdIdx /\ wrIdx' = Reduced(wrIdx)
        /\ numToRead' = [numToRead EXCEPT ![t] = 0]
    BY <1>6 DEF WriteWrap, Goto, Return
  <2>d. \A s \in Task : /\ pc'[s] # "w_wrap" /\ pc'[s] # "w_add" /\ pc'[s] # "a_wrap"
                        /\ pc[s] # "a_wrap"
                        /\ pc'[s] # "idle" => s # t /\ pc'[s] = pc[s] /\ numToRead'[s] = numToRead[s]
    BY <2>a, <2>c, <1>a DEF IInv, TypeOK, Critical
  <2>e. /\ CountOf(Reduced(wrIdx), rdIdx) = CountOf(wrIdx - num[t], rdIdx) + num[t]
        /\ Reduced(Reduced(wrIdx)) = Reduced(wrIdx)
    <3> DEFINE old == wrIdx - num[t]
    <3>1. old + num[t] = wrIdx /\ old \in 0..Depth /\ num[t] <= Depth - CountOf(old, rdIdx)
      BY <2>b, <2>a, <1>a DEF IInv, TypeOK
    <3> HIDE DEF old
    <3>2. /\ CountOf(Reduced(old + num[t]), rdIdx) = CountOf(old, rdIdx) + num[t]
          /\ Reduced(Reduced(old + num[t])) = Reduced(old + num[t])
      BY <3>1, <2>a, Advance
    <3> QED BY <3>1, <3>2 DEF old
  <2>1. RoleInv'
    BY <1>6, <1>a DEF AInv, IInv, TypeOK, RoleInv, WriteWrap, Goto, Peeking, Acking
  <2>3. SpaceInv'
    BY <2>d DEF SpaceInv
  <2>4. PeekInv'
    <3>1. /\ CommittedWr = wrIdx - num[t] /\ CommittedRd = rdIdx
          /\ CommittedWr' = Reduced(wrIdx) /\ CommittedRd' = rdIdx
      BY <1>b, <2>c, <2>d DEF CommittedInv
    <3>2. CountOf(wrIdx - num[t], rdIdx) \in 0..Depth
      BY <2>a, <2>b, CountInRange
    <3>3. ASSUME NEW r \in Readers, pc'[r] \in {"p_lock", "p_copy"}
          PROVE  numToRead'[r] <= CountOf(Reduced(wrIdx'), rdIdx')
      <4>1. r \in Task
        BY DEF Task
      <4> QED BY <3>3, <4>1, <2>c, <2>d, <2>e DEF AInv, PeekInv
    <3>4. ASSUME NEW r \in Readers, pc'[r] \in {"a_lock", "a_add", "a_wrap"}
          PROVE  numToRead'[r] <= CountOf(CommittedWr', CommittedRd')
      <4>1. r \in Task
        BY DEF Task
      <4>2. numToRead'[r] = numToRead[r] /\ numToRead[r] <= CountOf(wrIdx - num[t], rdIdx)
        BY <3>4, <4>1, <2>d, <3>1 DEF AInv, PeekInv
      <4>3. numToRead[r] \in Nat
        BY <4>1, <1>a DEF IInv, TypeOK
      <4> QED BY <4>2, <4>3, <3>1, <3>2, <2>e, <2>a
    <3> QED BY <3>3, <3>4 DEF PeekInv
  <2> QED BY <1>a, <2>1, <2>3, <2>4 DEF AInv
<1>7. ASSUME NEW t \in Task, ReadCall(t) PROVE AInv'
  <2>1. RoleInv'
    BY <1>7, <1>a DEF AInv, IInv, TypeOK, RoleInv, ReadCall, Goto, Peeking, Acking
  <2>2. CommittedWr' = CommittedWr /\ CommittedRd' = CommittedRd
    BY <1>7, <1>a, <1>b DEF IInv, TypeOK, CommittedInv, ReadCall, Goto, Return, locals
  <2>3. SpaceInv'
    BY <1>7, <1>a DEF AInv, IInv, TypeOK, SpaceInv, ReadCall, Goto, Return, locals
  <2>4. PeekInv'
    <3>1. /\ pc[t] = "idle" /\ pc' = [pc EXCEPT ![t] = "p_lock"]
          /\ UNCHANGED <<wrIdx, rdIdx>>
          /\ t \in Readers
      BY <1>7 DEF ReadCall, Goto
    <3>2. numToRead'[t] <= CountOf(Reduced(wrIdx), rdIdx)
      <4>1. PICK n \in 1..MaxRequest : numToRead' = [numToRead EXCEPT ![t] = Least(n, Count)]
        BY <1>7 DEF ReadCall
      <4>2. rdIdx \in 0..Depth
        <5>1. \A s \in Task : pc[s] = "a_wrap" => s = t
          BY <3>1 DEF AInv, RoleInv, SoleReader, Acking
        <5> QED BY <3>1, <5>1, <1>a DEF IInv, IndexInv, TypeOK
      <4>3. CountOf(wrIdx, rdIdx) = CountOf(Reduced(wrIdx), rdIdx)
        <5>1. CASE \A s \in Task : pc[s] # "w_wrap"
          <6>1. wrIdx \in 0..Depth
            BY <5>1, <1>a DEF IInv, IndexInv, TypeOK
          <6> QED BY <6>1 DEF Reduced
        <5>2. ASSUME NEW w \in Task, pc[w] = "w_wrap"
              PROVE  CountOf(wrIdx, rdIdx) = CountOf(Reduced(wrIdx), rdIdx)
          <6> DEFINE old == wrIdx - num[w]
          <6>1. old \in 0..Depth /\ num[w] <= Depth - CountOf(old, rdIdx)
            BY <5>2 DEF AInv, SpaceInv
          <6>2. num[w] \in 1..MaxRequest /\ wrIdx = old + num[w]
            <7>1. num[w] \in 1..MaxRequest
              BY <5>2, <1>a DEF IInv, FrameInv, Writing
            <7>2. wrIdx \in Nat
              BY <1>a DEF IInv, TypeOK
            <7> QED BY <7>1, <7>2
          <6> HIDE DEF old
          <6>3. CountOf(old + num[w], rdIdx) = CountOf(Reduced(old + num[w]), rdIdx)
            BY <6>1, <6>2, <4>2, Advance
          <6> QED BY <6>2, <6>3
        <5> QED BY <5>1, <5>2
      <4>4. Count \in Nat /\ Least(n, Count) <= Count
        <5>1. wrIdx \in Nat /\ rdIdx \in Nat
          BY <1>a DEF IInv, TypeOK
        <5>2. Count \in Nat
          BY <5>1 DEF Count, CountOf
        <5> QED BY <5>2 DEF Least
      <4>5. numToRead'[t] = Least(n, Count)
        BY <4>1, <1>a, <3>1 DEF IInv, TypeOK
      <4> QED BY <4>3, <4>4, <4>5 DEF Count
    <3>3. \A r \in Readers : r = t
      BY <3>1 DEF SoleReader
    <3>4. pc'[t] = "p_lock"
      BY <3>1, <1>a DEF IInv, TypeOK
    <3> QED BY <3>1, <3>2, <3>3, <3>4 DEF PeekInv
  <2> QED BY <1>a, <2>1, <2>3, <2>4 DEF AInv
<1>8. ASSUME NEW t \in Task, PeekLock(t) PROVE AInv'
  <2>1. RoleInv'
    BY <1>8, <1>a DEF AInv, IInv, TypeOK, RoleInv, PeekLock, Goto, Peeking, Acking
  <2>2. CommittedWr' = CommittedWr /\ CommittedRd' = CommittedRd
    BY <1>8, <1>a, <1>b DEF IInv, TypeOK, CommittedInv, PeekLock, Goto, Return, locals
  <2>3. SpaceInv'
    BY <1>8, <1>a DEF AInv, IInv, TypeOK, SpaceInv, PeekLock, Goto, Return, locals
  <2>4. PeekInv'
    BY <1>8, <1>a, <2>2 DEF AInv, IInv, TypeOK, PeekInv, PeekLock, Goto, Return, locals
  <2> QED BY <1>a, <2>1, <2>3, <2>4 DEF AInv
<1>9. ASSUME NEW t \in Task, PeekNothing(t) PROVE AInv'
  <2>1. RoleInv'
    BY <1>9, <1>a DEF AInv, IInv, TypeOK, RoleInv, PeekNothing, Goto, Peeking, Acking
  <2>2. CommittedWr' = CommittedWr /\ CommittedRd' = CommittedRd
    BY <1>9, <1>a, <1>b DEF IInv, TypeOK, CommittedInv, PeekNothing, Goto, Return, locals
  <2>3. SpaceInv'
    BY <1>9, <1>a DEF AInv, IInv, TypeOK, SpaceInv, PeekNothing, Goto, Return, locals
  <2>4. PeekInv'
    <3>1. /\ UNCHANGED <<wrIdx, rdIdx>>
          /\ \A s \in Task : pc'[s] \in Peeking \cup Acking =>
               pc'[s] = pc[s] /\ numToRead'[s] = numToRead[s]
      BY <1>9, <1>a DEF AInv, IInv, TypeOK, PeekNothing, Goto, Return, Peeking, Acking
    <3> QED BY <1>a, <2>2, <3>1, TaskAssumption DEF AInv, PeekInv, Peeking, Acking, Task
  <2> QED BY <1>a, <2>1, <2>3, <2>4 DEF AInv
<1>10. ASSUME NEW t \in Task, PeekCopy(t) PROVE AInv'
  <2>1. RoleInv'
    BY <1>10, <1>a DEF AInv, IInv, TypeOK, RoleInv, PeekCopy, Goto, Peeking, Acking
  <2>2. CommittedWr' = CommittedWr /\ CommittedRd' = CommittedRd
    BY <1>10, <1>a, <1>b DEF IInv, TypeOK, CommittedInv, PeekCopy, Goto, Return, locals
  <2>3. SpaceInv'
    BY <1>10, <1>a DEF AInv, IInv, TypeOK, SpaceInv, PeekCopy, Goto, Return, locals
  <2>4. PeekInv'
    <3>1. /\ wrIdx \in 0..Depth /\ rdIdx \in 0..Depth
          /\ \A s \in Task : pc[s] \in Critical => s = t
      BY <1>10, <1>a, InRange, Exclusive DEF PeekCopy, Goto, Critical, IInv
    <3>2. /\ t \in Readers /\ pc[t] = "p_copy" /\ pc' = [pc EXCEPT ![t] = "a_lock"]
          /\ UNCHANGED <<wrIdx, rdIdx, numToRead>>
          /\ wrIdx # rdIdx
      BY <1>10 DEF PeekCopy, Goto, AInv, RoleInv, Peeking, IsEmpty
    <3>3. \A r \in Readers : r = t
      BY <3>2 DEF SoleReader
    <3>4. CommittedWr' = wrIdx /\ CommittedRd' = rdIdx
      <4>1. \A s \in Task : pc[s] # "w_wrap" /\ pc[s] # "a_wrap"
        BY <3>1, <3>2 DEF Critical
      <4> QED BY <4>1, <1>b, <2>2 DEF CommittedInv
    <3>5. Reduced(wrIdx) = wrIdx
      BY <3>1 DEF Reduced
    <3>6. numToRead[t] <= CountOf(wrIdx, rdIdx)
      BY <3>2, <3>5 DEF AInv, PeekInv
    <3>7. pc'[t] = "a_lock"
      BY <3>2, <1>a DEF IInv, TypeOK
    <3> QED BY <3>2, <3>3, <3>4, <3>6, <3>7 DEF PeekInv
  <2> QED BY <1>a, <2>1, <2>3, <2>4 DEF AInv
<1>11. ASSUME NEW t \in Task, AckLock(t) PROVE AInv'
  <2>1. RoleInv'
    BY <1>11, <1>a DEF AInv, IInv, TypeOK, RoleInv, AckLock, Goto, Peeking, Acking
  <2>2. CommittedWr' = CommittedWr /\ CommittedRd' = CommittedRd
    BY <1>11, <1>a, <1>b DEF IInv, TypeOK, CommittedInv, AckLock, Goto, Return, locals
  <2>3. SpaceInv'
    BY <1>11, <1>a DEF AInv, IInv, TypeOK, SpaceInv, AckLock, Goto, Return, locals
  <2>4. PeekInv'
    BY <1>11, <1>a, <2>2 DEF AInv, IInv, TypeOK, PeekInv, AckLock, Goto, Return, locals
  <2> QED BY <1>a, <2>1, <2>3, <2>4 DEF AInv
<1>12. ASSUME NEW t \in Task, AckAdd(t) PROVE AInv'
  <2>a. \A s \in Task : pc[s] \in Critical => s = t
    BY <1>12, <1>a, Exclusive DEF AckAdd, Goto, Critical, IInv
  <2>b. \A s \in Task : pc'[s] # "w_add" /\ pc'[s] # "w_wrap"
    BY <1>12, <2>a, <1>a DEF AckAdd, Goto, Critical, IInv, TypeOK
  <2>1. RoleInv'
    BY <1>12, <1>a DEF AInv, IInv, TypeOK, RoleInv, AckAdd, Goto, Peeking, Acking
  <2>3. SpaceInv'
    BY <2>b DEF SpaceInv
  <2>4. PeekInv'
    <3>1. /\ t \in Readers /\ pc[t] = "a_add" /\ pc' = [pc EXCEPT ![t] = "a_wrap"]
          /\ UNCHANGED <<wrIdx, numToRead>>
          /\ rdIdx \in 0..Depth /\ numToRead[t] \in 0..MaxRequest
      BY <1>12, <1>a, InRange DEF AckAdd, Goto, AInv, RoleInv, Acking, Critical, IInv, TypeOK
    <3>2. rdIdx' = rdIdx + numToRead[t]
      BY <1>12, <3>1, AddInRange DEF AckAdd
    <3>3. pc'[t] = "a_wrap"
      BY <3>1, <1>a DEF IInv, TypeOK
    <3>4. \A s \in Task : pc[s] # "w_wrap" /\ pc[s] # "a_wrap" /\ pc'[s] # "w_wrap"
      BY <2>a, <2>b, <3>1 DEF Critical
    <3>5. CommittedWr' = CommittedWr /\ CommittedRd = rdIdx
      BY <1>b, <3>1, <3>4 DEF CommittedInv
    <3>6. CommittedRd' = rdIdx' - numToRead'[t]
      BY <1>b, <3>1, <3>3 DEF CommittedInv, Task
    <3>7. CommittedRd' = CommittedRd
      BY <3>1, <3>2, <3>5, <3>6
    <3>8. numToRead[t] <= CountOf(CommittedWr, CommittedRd)
      BY <3>1 DEF AInv, PeekInv
    <3>9. \A r \in Readers : r = t
      BY <3>1 DEF SoleReader
    <3> QED BY <3>1, <3>3, <3>5, <3>7, <3>8, <3>9 DEF PeekInv
  <2> QED BY <1>a, <2>1, <2>3, <2>4 DEF AInv
<1>13. ASSUME NEW t \in Task, AckWrap(t) PROVE AInv'
  <2>a. \A s \in Task : pc[s] \in Critical => s = t
    BY <1>13, <1>a, Exclusive DEF AckWrap, Goto, Critical, IInv
  <2>b. \A s \in Task : pc'[s] # "w_add" /\ pc'[s] # "w_wrap"
    BY <1>13, <2>a, <1>a DEF AckWrap, Goto, Critical, IInv, TypeOK
  <2>1. RoleInv'
    BY <1>13, <1>a DEF AInv, IInv, TypeOK, RoleInv, AckWrap, Goto, Peeking, Acking
  <2>3. SpaceInv'
    BY <2>b DEF SpaceInv
  <2>4. PeekInv'
    <3>1. t \in Readers \cup Flushers /\ pc'[t] = "idle"
      BY <1>13, <1>a DEF AckWrap, Goto, AInv, RoleInv, Acking, IInv, TypeOK
    <3>2. \A r \in Readers : r = t
      BY <3>1 DEF SoleReader
    <3> QED BY <3>1, <3>2 DEF PeekInv
  <2> QED BY <1>a, <2>1, <2>3, <2>4 DEF AInv
<1>14. ASSUME NEW t \in Task, FlushLock(t) PROVE AInv'
  <2>1. RoleInv'
    BY <1>14, <1>a DEF AInv, IInv, TypeOK, RoleInv, FlushLock, Goto, Peeking, Acking
  <2>2. CommittedWr' = CommittedWr /\ CommittedRd' = CommittedRd
    BY <1>14, <1>a, <1>b DEF IInv, TypeOK, CommittedInv, FlushLock, Goto, Return, locals
  <2>3. SpaceInv'
    BY <1>14, <1>a DEF AInv, IInv, TypeOK, SpaceInv, FlushLock, Goto, Return, locals
  <2>4. PeekInv'
    BY <1>14, <1>a, <2>2 DEF AInv, IInv, TypeOK, PeekInv, FlushLock, Goto, Return, locals
  <2> QED BY <1>a, <2>1, <2>3, <2>4 DEF AInv
<1>15. ASSUME NEW t \in Task, FlushWr(t) PROVE AInv'
  <2>a. \A s \in Task : pc[s] \in Critical => s = t
    BY <1>15, <1>a, Exclusive DEF FlushWr, Goto, Critical, IInv
  <2>b. \A s \in Task : pc'[s] # "w_add" /\ pc'[s] # "w_wrap"
    BY <1>15, <2>a, <1>a DEF FlushWr, Goto, Critical, IInv, TypeOK
  <2>1. RoleInv'
    BY <1>15, <1>a DEF AInv, IInv, TypeOK, RoleInv, FlushWr, Goto, Peeking, Acking
  <2>3. SpaceInv'
    BY <2>b DEF SpaceInv
  <2>4. PeekInv'
    <3>1. t \in Readers \cup Flushers /\ pc'[t] = "f_rd"
      BY <1>15, <1>a DEF FlushWr, Goto, AInv, RoleInv, Acking, IInv, TypeOK
    <3>2. \A r \in Readers : r = t
      BY <3>1 DEF SoleReader
    <3> QED BY <3>1, <3>2 DEF PeekInv
  <2> QED BY <1>a, <2>1, <2>3, <2>4 DEF AInv
<1>16. ASSUME NEW t \in Task, FlushRd(t) PROVE AInv'
  <2>a. \A s \in Task : pc[s] \in Critical => s = t
    BY <1>16, <1>a, Exclusive DEF FlushRd, Goto, Critical, IInv
  <2>b. \A s \in Task : pc'[s] # "w_add" /\ pc'[s] # "w_wrap"
    BY <1>16, <2>a, <1>a DEF FlushRd, Goto, Critical, IInv, TypeOK
  <2>1. RoleInv'
    BY <1>16, <1>a DEF AInv, IInv, TypeOK, RoleInv, FlushRd, Goto, Peeking, Acking
  <2>3. SpaceInv'
    BY <2>b DEF SpaceInv
  <2>4. PeekInv'
    <3>1. t \in Readers \cup Flushers /\ pc'[t] = "idle"
      BY <1>16, <1>a DEF FlushRd, Goto, AInv, RoleInv, Acking, IInv, TypeOK
    <3>2. \A r \in Readers : r = t
      BY <3>1 DEF SoleReader
    <3> QED BY <3>1, <3>2 DEF PeekInv
  <2> QED BY <1>a, <2>1, <2>3, <2>4 DEF AInv
<1>17. ASSUME NEW t \in Task, AskLock(t) PROVE AInv'
  <2>1. RoleInv'
    BY <1>17, <1>a DEF AInv, IInv, TypeOK, RoleInv, AskLock, Goto, Peeking, Acking
  <2>2. CommittedWr' = CommittedWr /\ CommittedRd' = CommittedRd
    BY <1>17, <1>a, <1>b DEF IInv, TypeOK, CommittedInv, AskLock, Goto, Return, locals
  <2>3. SpaceInv'
    BY <1>17, <1>a DEF AInv, IInv, TypeOK, SpaceInv, AskLock, Goto, Return, locals
  <2>4. PeekInv'
    BY <1>17, <1>a, <2>2 DEF AInv, IInv, TypeOK, PeekInv, AskLock, Goto, Return, locals
  <2> QED BY <1>a, <2>1, <2>3, <2>4 DEF AInv
<1>18. ASSUME NEW t \in Task, AskGet(t) PROVE AInv'
  <2>1. RoleInv'
    BY <1>18, <1>a DEF AInv, IInv, TypeOK, RoleInv, AskGet, Goto, Peeking, Acking
  <2>2. CommittedWr' = CommittedWr /\ CommittedRd' = CommittedRd
    BY <1>18, <1>a, <1>b DEF IInv, TypeOK, CommittedInv, AskGet, Goto, Return, locals
  <2>3. SpaceInv'
    BY <1>18, <1>a DEF AInv, IInv, TypeOK, SpaceInv, AskGet, Goto, Return, locals
  <2>4. PeekInv'
    BY <1>18, <1>a, <2>2 DEF AInv, IInv, TypeOK, PeekInv, AskGet, Goto, Return, locals
  <2> QED BY <1>a, <2>1, <2>3, <2>4 DEF AInv
<1>19. CASE UNCHANGED vars
  BY <1>19 DEF vars, AInv, IInv, TypeOK, MutexInv, IndexInv, FrameInv, SpaceInv, PeekInv, RoleInv,
     CommittedWr, CommittedRd
<1>21. QED
  BY <1>1, <1>2, <1>3, <1>4, <1>5, <1>6, <1>7, <1>8, <1>9, <1>10, <1>11, <1>12, <1>13, <1>14, <1>15, <1>16, <1>17, <1>18, <1>19
  DEF Next, Call, Step, WriteStep, ReadStep, FlushStep

(* SwFifo.AckWithinCount for every depth, item size and number of writers:  *)
(* the ack of a sole reader never moves the read index past the write       *)
(* index, although SwFifo_read counts before it locks and releases the      *)
(* mutex between its peek and its ack.                                      *)
THEOREM AckSafe == Guarded /\ SoleReader => (Spec => []AckWithinCount)
<1> SUFFICES ASSUME Guarded, SoleReader PROVE Spec => []AckWithinCount
  OBVIOUS
<1>1. Init => AInv
  BY InitIInv DEF AInv, Init, SpaceInv, PeekInv, RoleInv, Peeking, Acking, Task
<1>2. AInv /\ [Next]_vars => AInv'
  BY NextAInv
<1>3. AInv => AckWithinCount
  BY DEF AInv, PeekInv, AckWithinCount
<1> QED
  BY <1>1, <1>2, <1>3, PTL DEF Spec

-----------------------------------------------------------------------------
(* The refinement of BoundedFifo *)


(* Items of one byte, as Cobs_deframer_init makes the fifo. *)
Bytewise == ItemSize = 1

InFlush == \E t \in Task : pc[t] = "f_rd"

(* How much is between the committed indices. *)
Held == CountOf(CommittedWr, CommittedRd)

(* The cell p cells behind a read index. *)
Cell(rd, p) == Reduced(rd + p)

-----------------------------------------------------------------------------
(* Remainders by Depth + 1 of what two indices may add up to. *)
LEMMA ReducedIsMod ==
  ASSUME NEW a \in 0..(2 * Depth + 1)
  PROVE  a % (Depth + 1) = Reduced(a) /\ Reduced(a) \in 0..Depth
<1>1. CASE a <= Depth
  BY <1>1 DEF Reduced
<1>2. CASE a > Depth
  <2>1. a = 1 * (Depth + 1) + (a - (Depth + 1)) /\ a - (Depth + 1) \in 0..Depth
    BY <1>2
  <2>2. a % (Depth + 1) = a - (Depth + 1)
    BY <2>1
  <2> QED BY <1>2, <2>1, <2>2 DEF Reduced
<1> QED BY <1>1, <1>2

(* Cells at different distances are different. *)
LEMMA CellsDiffer ==
  ASSUME NEW rd \in 0..Depth, NEW p \in 0..Depth, NEW q \in 0..Depth, p # q
  PROVE  Cell(rd, p) # Cell(rd, q) /\ Cell(rd, p) \in 0..Depth
  BY DEF Cell, Reduced

(* The write index is as many cells behind the read index as there are items. *)
LEMMA WriteCell ==
  ASSUME NEW wr \in 0..Depth, NEW rd \in 0..Depth, NEW k \in Nat,
         CountOf(wr, rd) + k <= Depth
  PROVE  Reduced(wr + k) = Cell(rd, CountOf(wr, rd) + k)
<1>1. /\ wr >= rd => CountOf(wr, rd) = wr - rd
      /\ wr < rd => CountOf(wr, rd) = Depth - rd + wr + 1
  <2>1. wr \in 0..(2 * Depth)
    OBVIOUS
  <2> QED BY <2>1, CountValue
<1>2. CASE wr >= rd
  BY <1>1, <1>2 DEF Cell, Reduced
<1>3. CASE wr < rd
  BY <1>1, <1>3 DEF Cell, Reduced
<1> QED BY <1>2, <1>3

(* Behind an advanced read index the cells are nearer. *)
LEMMA ReadCell ==
  ASSUME NEW rd \in 0..Depth, NEW n \in 0..Depth, NEW p \in Nat, n + p <= Depth
  PROVE  Cell(Reduced(rd + n), p) = Cell(rd, n + p)
  BY DEF Cell, Reduced

(* Advancing the read index by n takes n from the count. *)
LEMMA AdvanceRd ==
  ASSUME NEW wr \in 0..Depth, NEW rd \in 0..Depth, NEW n \in 0..Depth,
         n <= CountOf(wr, rd)
  PROVE  Reduced(rd + n) \in 0..Depth /\ CountOf(wr, Reduced(rd + n)) = CountOf(wr, rd) - n
<1> DEFINE new == Reduced(rd + n)
<1>1. new = (IF rd + n > Depth THEN rd + n - (Depth + 1) ELSE rd + n) /\ new \in 0..Depth
  BY DEF Reduced
<1>2. /\ wr >= rd => CountOf(wr, rd) = wr - rd
      /\ wr < rd => CountOf(wr, rd) = Depth - rd + wr + 1
  <2>1. wr \in 0..(2 * Depth)
    OBVIOUS
  <2> QED BY <2>1, CountValue
<1>3. /\ wr >= new => CountOf(wr, new) = wr - new
      /\ wr < new => CountOf(wr, new) = Depth - new + wr + 1
  <2>1. wr \in 0..(2 * Depth)
    OBVIOUS
  <2> HIDE DEF new
  <2> QED BY <1>1, <2>1, CountValue
<1> HIDE DEF new
<1>4. CountOf(wr, new) = CountOf(wr, rd) - n
  <2>1. CASE wr >= rd
    BY <1>1, <1>2, <1>3, <2>1
  <2>2. CASE wr < rd
    BY <1>1, <1>2, <1>3, <2>2
  <2> QED BY <2>1, <2>2
<1> QED BY <1>1, <1>4 DEF new

(* An item of a byte is that byte. *)
LEMMA ByteItem ==
  ASSUME Bytewise, NEW m, NEW n, NEW a \in Nat, NEW b \in Nat, m[a] = n[b]
  PROVE  ItemAt(m, a) = ItemAt(n, b)
  BY DEF ItemAt, Bytewise

LEMMA ItemsOfBytes ==
  ASSUME Bytewise, NEW n \in 1..MaxRequest, NEW buf, NEW B,
         \A k \in 0..(n - 1) : buf[k] \in B
  PROVE  /\ Items(buf, n) \in [1..n -> [0..(ItemSize - 1) -> B]]
         /\ \A k \in 0..(n - 1) : Items(buf, n)[k + 1] = ItemAt(buf, k)
<1>1. \A i \in 1..n : ItemAt(buf, i - 1) \in [0..(ItemSize - 1) -> B]
  <2> SUFFICES ASSUME NEW i \in 1..n PROVE ItemAt(buf, i - 1) \in [0..(ItemSize - 1) -> B]
    OBVIOUS
  <2>1. (i - 1) * 1 + 0 = i - 1 /\ i - 1 \in 0..(n - 1)
    OBVIOUS
  <2> QED BY <2>1 DEF ItemAt, Bytewise
<1>2. \A k \in 0..(n - 1) : k + 1 \in 1..n /\ k + 1 - 1 = k
  OBVIOUS
<1> QED BY <1>1, <1>2 DEF Items

(* The cells of the memory are at distances from the read index. *)
LEMMA CellInRange ==
  ASSUME NEW rd \in 0..Depth, NEW p \in 0..Depth
  PROVE  Cell(rd, p) \in 0..Depth
  BY DEF Cell, Reduced

(* circWrite on items of a byte. *)
LEMMA CircWriteBytes ==
  ASSUME Bytewise, NEW m \in Buffer(Depth + 1), NEW wr \in 0..Depth, NEW n \in 1..MaxRequest,
         NEW src
  PROVE  /\ \A k \in 0..(n - 1) : CircWrite(m, wr, src, n)[Reduced(wr + k)] = src[k]
         /\ \A c \in 0..Depth : (\A k \in 0..(n - 1) : c # Reduced(wr + k)) =>
              CircWrite(m, wr, src, n)[c] = m[c]
<1> USE DEF Bytewise
<1>1. DOMAIN m = 0..Depth
  BY DEF Buffer
<1>2. CASE wr + n > Depth
  <2> DEFINE w == Depth - wr + 1
             half == Memcpy(m, wr, src, 0, w)
             all == Memcpy(half, 0, src, w, n - w)
  <2>1. CircWrite(m, wr, src, n) = all
    BY <1>2 DEF CircWrite
  <2>2. w \in 1..n
    BY <1>2
  <2>3. DOMAIN half = 0..Depth /\ \A c \in 0..Depth : half[c] = IF c >= wr THEN src[c - wr] ELSE m[c]
    <3>1. half = [c \in 0..Depth |-> IF c \in wr..(wr + w - 1) THEN src[c - wr + 0] ELSE m[c]]
      BY <1>1 DEF Memcpy
    <3>2. wr + w - 1 = Depth
      OBVIOUS
    <3> HIDE DEF half, w
    <3>3. \A c \in 0..Depth : (c \in wr..(wr + w - 1) <=> c >= wr) /\ c - wr + 0 = c - wr
      BY <3>2
    <3> QED BY <3>1, <3>3
  <2>4. \A c \in 0..Depth : all[c] = IF c <= n - w - 1 THEN src[c + w] ELSE half[c]
    BY <2>2, <2>3 DEF Memcpy
  <2>5. \A k \in 0..(n - 1) : Reduced(wr + k) = IF k < w THEN wr + k ELSE k - w
    BY <1>2 DEF Reduced
  <2>6. n - w - 1 < wr
    OBVIOUS
  <2>7. \A k \in 0..(n - 1) : all[Reduced(wr + k)] = src[k]
    <3> SUFFICES ASSUME NEW k \in 0..(n - 1) PROVE all[Reduced(wr + k)] = src[k]
      OBVIOUS
    <3>1. CASE k < w
      <4>1. Reduced(wr + k) = wr + k /\ wr + k \in 0..Depth /\ ~(wr + k <= n - w - 1)
        BY <2>5, <2>6, <3>1
      <4>2. wr + k - wr = k /\ wr + k >= wr
        OBVIOUS
      <4> HIDE DEF all, half
      <4> QED BY <2>3, <2>4, <4>1, <4>2
    <3>2. CASE ~(k < w)
      <4>1. Reduced(wr + k) = k - w /\ k - w \in 0..Depth /\ k - w <= n - w - 1
        BY <2>2, <2>5, <3>2
      <4>2. k - w + w = k
        BY <2>2
      <4> HIDE DEF all, half, w
      <4> QED BY <2>4, <4>1, <4>2
    <3> QED BY <3>1, <3>2
  <2>8. ASSUME NEW c \in 0..Depth, \A k \in 0..(n - 1) : c # Reduced(wr + k)
        PROVE  all[c] = m[c]
    <3>1. c < wr
      <4> SUFFICES ASSUME c >= wr PROVE FALSE
        OBVIOUS
      <4> DEFINE k == c - wr
      <4>1. k \in 0..(n - 1) /\ k < w /\ wr + k = c
        BY <2>2
      <4> HIDE DEF w, k
      <4>2. Reduced(wr + k) = c
        BY <2>5, <4>1
      <4> QED BY <2>8, <4>1, <4>2
    <3>2. c > n - w - 1
      <4> SUFFICES ASSUME c <= n - w - 1 PROVE FALSE
        OBVIOUS
      <4>1. c + w \in 0..(n - 1) /\ ~(c + w < w) /\ c + w - w = c
        BY <2>2
      <4>2. Reduced(wr + (c + w)) = c
        <5> DEFINE k == c + w
        <5>1. k \in 0..(n - 1) /\ ~(k < w) /\ k - w = c
          BY <4>1
        <5> HIDE DEF w, k
        <5>2. Reduced(wr + k) = c
          BY <2>5, <5>1
        <5> QED BY <5>2 DEF k
      <4> QED BY <2>8, <4>1, <4>2
    <3> HIDE DEF all, half
    <3> QED BY <3>1, <3>2, <2>3, <2>4
  <2> QED BY <2>1, <2>7, <2>8
<1>3. CASE ~(wr + n > Depth)
  <2>1. CircWrite(m, wr, src, n) = Memcpy(m, wr, src, 0, n)
    BY <1>3 DEF CircWrite
  <2>2. \A k \in 0..(n - 1) : Reduced(wr + k) = wr + k
    BY <1>3 DEF Reduced
  <2> DEFINE all == Memcpy(m, wr, src, 0, n)
  <2>0. CircWrite(m, wr, src, n) = all
    BY <2>1
  <2>3. \A c \in 0..Depth : all[c] = IF c \in wr..(wr + n - 1) THEN src[c - wr + 0] ELSE m[c]
    BY <1>1 DEF Memcpy
  <2> HIDE DEF all
  <2>4. \A k \in 0..(n - 1) : all[wr + k] = src[k]
    <3> SUFFICES ASSUME NEW k \in 0..(n - 1) PROVE all[wr + k] = src[k]
      OBVIOUS
    <3>1. wr + k \in 0..Depth /\ wr + k \in wr..(wr + n - 1) /\ wr + k - wr + 0 = k
      BY <1>3
    <3> QED BY <2>3, <3>1
  <2>5. ASSUME NEW c \in 0..Depth, \A k \in 0..(n - 1) : c # Reduced(wr + k)
        PROVE  all[c] = m[c]
    <3>1. c \notin wr..(wr + n - 1)
      <4> SUFFICES ASSUME c \in wr..(wr + n - 1) PROVE FALSE
        OBVIOUS
      <4>1. c - wr \in 0..(n - 1) /\ wr + (c - wr) = c
        OBVIOUS
      <4> QED BY <2>2, <2>5, <4>1
    <3> QED BY <2>3, <3>1
  <2> QED BY <2>0, <2>2, <2>4, <2>5
<1> QED BY <1>2, <1>3

(* circRead on items of a byte. *)
LEMMA CircReadBytes ==
  ASSUME Bytewise, NEW m, NEW rd \in 0..Depth, NEW size \in 1..MaxRequest, NEW n \in 1..size,
         NEW dst \in Buffer(size)
  PROVE  \A k \in 0..(n - 1) : CircRead(m, rd, dst, n)[k] = m[Cell(rd, k)]
<1> USE DEF Bytewise
<1>1. DOMAIN dst = 0..(size - 1)
  BY DEF Buffer
<1>2. CASE rd + n > Depth
  <2> DEFINE w == Depth - rd + 1
             half == Memcpy(dst, 0, m, rd, w)
             all == Memcpy(half, w, m, 0, n - w)
  <2>1. CircRead(m, rd, dst, n) = all
    BY <1>2 DEF CircRead
  <2>2. w \in 1..n
    BY <1>2
  <2>3. DOMAIN half = 0..(size - 1) /\ \A k \in 0..(size - 1) : k < w => half[k] = m[k + rd]
    BY <1>1, <2>2 DEF Memcpy
  <2>4. \A k \in 0..(n - 1) : all[k] = IF k >= w THEN m[k - w] ELSE half[k]
    BY <2>2, <2>3 DEF Memcpy
  <2>5. \A k \in 0..(n - 1) : Cell(rd, k) = IF k < w THEN rd + k ELSE k - w
    BY <1>2 DEF Reduced, Cell
  <2> HIDE DEF all, half, w
  <2> QED BY <2>1, <2>2, <2>3, <2>4, <2>5
<1>3. CASE ~(rd + n > Depth)
  <2>1. CircRead(m, rd, dst, n) = Memcpy(dst, 0, m, rd, n)
    BY <1>3 DEF CircRead
  <2>2. \A k \in 0..(n - 1) : Cell(rd, k) = rd + k
    BY <1>3 DEF Reduced, Cell
  <2> DEFINE all == Memcpy(dst, 0, m, rd, n)
  <2>0. CircRead(m, rd, dst, n) = all
    BY <2>1
  <2>3. \A k \in 0..(n - 1) : all[k] = m[k - 0 + rd]
    BY <1>1 DEF Memcpy
  <2>4. \A k \in 0..(n - 1) : k - 0 + rd = rd + k
    OBVIOUS
  <2> HIDE DEF all
  <2> QED BY <2>0, <2>2, <2>3, <2>4
<1> QED BY <1>2, <1>3

-----------------------------------------------------------------------------
(* Where the indices are in the middle of an ack or a flush. *)
PlaceInv ==
  \A t \in Task :
    /\ pc[t] = "a_wrap" => rdIdx - numToRead[t] \in 0..Depth
    /\ pc[t] = "f_rd" => wrIdx = 0

(* What the memory and the buffers of callers hold in the middle of a call:  *)
(* a write has stored its items behind those of the queue, and what a reader *)
(* has peeked is still at the head.                                          *)
DataInv ==
  \A t \in Task :
    /\ pc[t] \in {"w_add", "w_wrap"} =>
         \A k \in 0..(num[t] - 1) : mem[Cell(CommittedRd, Held + k)] = data[t][k]
    /\ pc[t] \in Acking =>
         \A k \in 0..(numToRead[t] - 1) : mem[Cell(CommittedRd, k)] = data[t][k]

HeldInv == AInv /\ PlaceInv
FifoInv == HeldInv /\ DataInv

(* Steps that do not touch the indices and come to no place where an        *)
(* increment or a flush is half done ...                                    *)
Still ==
  /\ UNCHANGED <<wrIdx, rdIdx>>
  /\ \A s \in Task :
       /\ pc'[s] = "w_wrap" <=> pc[s] = "w_wrap"
       /\ pc'[s] = "a_wrap" <=> pc[s] = "a_wrap"
       /\ pc'[s] = "f_rd" <=> pc[s] = "f_rd"
       /\ pc[s] = "w_wrap" => num'[s] = num[s]
       /\ pc[s] = "a_wrap" => numToRead'[s] = numToRead[s]

(* ... and that leave the memory and the buffers of the others alone too. *)
Quiet ==
  /\ Still
  /\ mem' = mem
  /\ \A s \in Task :
       /\ pc'[s] \in {"w_add", "w_wrap"} =>
            pc[s] = pc'[s] /\ num'[s] = num[s] /\ data'[s] = data[s]
       /\ pc'[s] \in Acking =>
            pc[s] \in Acking /\ numToRead'[s] = numToRead[s] /\ data'[s] = data[s]

RangeOK == CommittedWr \in 0..Depth /\ CommittedRd \in 0..Depth /\ Held \in 0..Depth

LEMMA CommittedRange ==
  ASSUME Guarded, HeldInv
  PROVE  RangeOK
<1>1. CommittedInv
  BY Committed DEF HeldInv, AInv
<1>2. CommittedWr \in 0..Depth
  <2>1. CASE \A t \in Task : pc[t] # "w_wrap"
    BY <1>1, <2>1 DEF HeldInv, AInv, IInv, IndexInv, TypeOK, CommittedInv
  <2>2. ASSUME NEW t \in Task, pc[t] = "w_wrap" PROVE CommittedWr \in 0..Depth
    BY <1>1, <2>2 DEF HeldInv, AInv, SpaceInv, CommittedInv
  <2> QED BY <2>1, <2>2
<1>3. CommittedRd \in 0..Depth
  <2>1. CASE \A t \in Task : pc[t] # "a_wrap"
    BY <1>1, <2>1 DEF HeldInv, AInv, IInv, IndexInv, TypeOK, CommittedInv
  <2>2. ASSUME NEW t \in Task, pc[t] = "a_wrap" PROVE CommittedRd \in 0..Depth
    BY <1>1, <2>2 DEF HeldInv, PlaceInv, CommittedInv
  <2> QED BY <2>1, <2>2
<1> QED BY <1>2, <1>3, CountInRange DEF Held, RangeOK

LEMMA CommittedRangeNext == Guarded /\ HeldInv' => RangeOK'
<1> SUFFICES ASSUME Guarded PROVE HeldInv' => RangeOK'
  OBVIOUS
<1>1. HeldInv => RangeOK
  BY CommittedRange
<1> QED BY <1>1, PTL

-----------------------------------------------------------------------------
(* What the steps do to the committed indices, whatever the item size. *)

(* Before and after a step of a fifo with one reader. *)
Around == Guarded /\ SoleReader /\ HeldInv /\ AInv'

SameHeld == CommittedWr' = CommittedWr /\ CommittedRd' = CommittedRd /\ Held' = Held

LEMMA AroundFacts ==
  ASSUME Around
  PROVE  /\ IInv /\ IInv' /\ TypeOK /\ TypeOK' /\ AInv /\ RoleInv /\ RoleInv'
         /\ CommittedInv /\ CommittedInv'
         /\ RangeOK
         /\ PlaceInv' => HeldInv' /\ RangeOK'
<1>1. IInv /\ IInv' /\ TypeOK /\ TypeOK' /\ AInv /\ RoleInv /\ RoleInv' /\ Guarded
  BY DEF Around, HeldInv, AInv, IInv
<1>2. CommittedInv /\ CommittedInv'
  BY <1>1, Committed, CommittedNext
<1>3. RangeOK
  BY CommittedRange DEF Around
<1>4. PlaceInv' => HeldInv'
  BY DEF Around, HeldInv
<1>5. HeldInv' => RangeOK'
  BY <1>1, CommittedRangeNext
<1> QED BY <1>1, <1>2, <1>3, <1>4, <1>5

LEMMA Alone ==
  ASSUME Around, NEW t \in Task, pc[t] \in Critical
  PROVE  \A s \in Task : pc[s] \in Critical => s = t
  BY Exclusive, AroundFacts DEF Around, IInv

LEMMA StillHeld ==
  ASSUME Around, Still
  PROVE  SameHeld /\ PlaceInv' /\ InFlush' = InFlush
<1>1. CommittedWr' = CommittedWr /\ CommittedRd' = CommittedRd
  BY AroundFacts DEF Still, CommittedInv
<1>2. InFlush' = InFlush
  BY DEF Still, InFlush
<1>3. PlaceInv'
  BY DEF Around, HeldInv, PlaceInv, Still
<1> QED BY <1>1, <1>2, <1>3 DEF Held, SameHeld

(* The first store of an increment of the write index shows to nobody ... *)
LEMMA WriteAddHeld ==
  ASSUME Around, NEW t \in Task, WriteAdd(t)
  PROVE  SameHeld /\ PlaceInv' /\ InFlush' = InFlush
<1>1. /\ pc[t] = "w_add" /\ pc' = [pc EXCEPT ![t] = "w_wrap"]
      /\ num[t] \in 1..MaxRequest
      /\ UNCHANGED <<rdIdx, num, numToRead>>
      /\ wrIdx' = (wrIdx + num[t]) % Modulus
  BY AroundFacts DEF WriteAdd, Goto, IInv, FrameInv, Writing
<1>2. \A s \in Task : pc[s] \in Critical => s = t
  BY <1>1, Alone DEF Critical
<1>3. \A s \in Task : /\ pc[s] \notin {"w_wrap", "a_wrap", "f_rd"}
                      /\ pc'[s] \notin {"w_add", "a_wrap", "f_rd"}
                      /\ pc'[s] = "w_wrap" <=> s = t
  BY <1>1, <1>2, AroundFacts DEF Critical, TypeOK
<1>4. wrIdx \in 0..Depth /\ num[t] \in 0..MaxRequest
  BY <1>1, InRange, AroundFacts DEF Critical, Around
<1>5. wrIdx' = wrIdx + num[t] /\ wrIdx' - num[t] = wrIdx
  <2>1. (wrIdx + num[t]) % Modulus = wrIdx + num[t]
    BY <1>4, AddInRange
  <2> QED BY <1>1, <1>4, <2>1
<1>6. CommittedWr = wrIdx /\ CommittedRd = rdIdx /\ CommittedRd' = rdIdx'
  BY <1>3, AroundFacts DEF CommittedInv
<1>7. CommittedWr' = wrIdx' - num'[t]
  BY <1>3, AroundFacts DEF CommittedInv
<1>8. CommittedWr' = CommittedWr /\ CommittedRd' = CommittedRd
  BY <1>1, <1>5, <1>6, <1>7
<1> QED BY <1>3, <1>6, <1>8 DEF PlaceInv, InFlush, SameHeld, Held

(* ... the second one adds what was written. *)
LEMMA WriteWrapHeld ==
  ASSUME Around, NEW t \in Task, WriteWrap(t)
  PROVE  /\ PlaceInv' /\ ~InFlush /\ ~InFlush'
         /\ CommittedRd = rdIdx /\ CommittedRd' = rdIdx
         /\ num[t] \in 1..MaxRequest /\ Held \in 0..Depth
         /\ Held' = Held + num[t] /\ Held + num[t] <= Depth
<1>1. /\ pc[t] = "w_wrap" /\ pc' = [pc EXCEPT ![t] = "idle"]
      /\ num[t] \in 1..MaxRequest
      /\ rdIdx' = rdIdx /\ wrIdx' = Reduced(wrIdx)
  BY AroundFacts DEF WriteWrap, Goto, IInv, FrameInv, Writing
<1>2. \A s \in Task : pc[s] \in Critical => s = t
  BY <1>1, Alone DEF Critical
<1>3. \A s \in Task : /\ pc[s] \notin {"a_wrap", "f_rd"}
                      /\ pc'[s] \notin {"w_add", "w_wrap", "a_wrap", "f_rd"}
  BY <1>1, <1>2, AroundFacts DEF Critical, TypeOK
<1>4. /\ CommittedWr = wrIdx - num[t] /\ CommittedRd = rdIdx
      /\ CommittedWr' = Reduced(wrIdx) /\ CommittedRd' = rdIdx
  BY <1>1, <1>3, AroundFacts DEF CommittedInv
<1>5. Held' = Held + num[t] /\ Held \in 0..Depth /\ Held + num[t] <= Depth
  <2> DEFINE old == wrIdx - num[t]
  <2>1. old + num[t] = wrIdx /\ old \in 0..Depth /\ num[t] <= Depth - CountOf(old, rdIdx)
    BY <1>1, AroundFacts DEF AInv, SpaceInv, TypeOK
  <2>2. rdIdx \in 0..Depth
    BY <1>4, AroundFacts DEF RangeOK
  <2> HIDE DEF old
  <2>3. CountOf(Reduced(old + num[t]), rdIdx) = CountOf(old, rdIdx) + num[t]
    BY <1>1, <2>1, <2>2, Advance
  <2>4. CountOf(old, rdIdx) \in 0..Depth
    BY <2>1, <2>2, CountInRange
  <2> QED BY <1>1, <1>4, <2>1, <2>3, <2>4 DEF Held, old
<1> QED BY <1>1, <1>3, <1>4, <1>5 DEF PlaceInv, InFlush

(* The same for the read index: the first store of an ack shows to nobody ... *)
LEMMA AckAddHeld ==
  ASSUME Around, NEW t \in Task, AckAdd(t)
  PROVE  SameHeld /\ PlaceInv' /\ InFlush' = InFlush
<1>1. /\ pc[t] = "a_add" /\ pc' = [pc EXCEPT ![t] = "a_wrap"]
      /\ numToRead[t] \in 0..MaxRequest
      /\ UNCHANGED <<wrIdx, num, numToRead>>
      /\ rdIdx' = (rdIdx + numToRead[t]) % Modulus
  BY AroundFacts DEF AckAdd, Goto, TypeOK
<1>2. \A s \in Task : pc[s] \in Critical => s = t
  BY <1>1, Alone DEF Critical
<1>3. \A s \in Task : /\ pc[s] \notin {"w_wrap", "a_wrap", "f_rd"}
                      /\ pc'[s] \notin {"w_wrap", "f_rd"}
                      /\ pc'[s] = "a_wrap" <=> s = t
  BY <1>1, <1>2, AroundFacts DEF Critical, TypeOK
<1>4. rdIdx \in 0..Depth
  BY <1>1, InRange, AroundFacts DEF Critical, Around
<1>5. rdIdx' = rdIdx + numToRead[t] /\ rdIdx' - numToRead[t] = rdIdx
  <2>1. (rdIdx + numToRead[t]) % Modulus = rdIdx + numToRead[t]
    BY <1>1, <1>4, AddInRange
  <2> QED BY <1>1, <1>4, <2>1
<1>6. CommittedWr = wrIdx /\ CommittedRd = rdIdx /\ CommittedWr' = wrIdx'
  BY <1>3, AroundFacts DEF CommittedInv
<1>7. CommittedRd' = rdIdx' - numToRead'[t]
  BY <1>3, AroundFacts DEF CommittedInv
<1>8. CommittedWr' = CommittedWr /\ CommittedRd' = CommittedRd
  BY <1>1, <1>5, <1>6, <1>7
<1>9. PlaceInv'
  BY <1>1, <1>3, <1>4, <1>5 DEF PlaceInv
<1> QED BY <1>3, <1>6, <1>8, <1>9 DEF InFlush, SameHeld, Held

(* ... the second one takes what was read. *)
LEMMA AckWrapHeld ==
  ASSUME Around, NEW t \in Task, AckWrap(t)
  PROVE  /\ PlaceInv' /\ ~InFlush /\ ~InFlush' /\ t \in Readers
         /\ \A s \in Task : pc'[s] \notin {"w_add", "w_wrap"} /\ pc'[s] \notin Acking
         /\ CommittedRd \in 0..Depth /\ CommittedRd' = Reduced(CommittedRd + numToRead[t])
         /\ numToRead[t] \in 1..MaxRequest /\ numToRead[t] <= Held /\ Held \in 0..Depth
         /\ Held' = Held - numToRead[t]
<1> DEFINE n == numToRead[t]
<1>1. /\ pc[t] = "a_wrap" /\ pc' = [pc EXCEPT ![t] = "idle"]
      /\ n \in 1..MaxRequest
      /\ wrIdx' = wrIdx /\ rdIdx' = Reduced(rdIdx)
      /\ t \in Readers
  BY AroundFacts DEF AckWrap, Goto, IInv, FrameInv, Acking, TypeOK, RoleInv
<1>2. \A s \in Task : pc[s] \in Critical => s = t
  BY <1>1, Alone DEF Critical
<1>3. \A s \in Task : /\ pc[s] \notin {"w_wrap", "f_rd"}
                      /\ pc'[s] \notin {"w_add", "w_wrap", "f_rd"}
                      /\ pc'[s] \notin Acking
  <2>1. \A s \in Task : pc[s] \notin {"w_wrap", "f_rd"} /\ pc'[s] \notin {"w_add", "w_wrap", "f_rd"}
    BY <1>1, <1>2, AroundFacts DEF Critical, TypeOK
  <2>2. \A s \in Task : pc'[s] \in Acking => s = t
    BY <1>1, AroundFacts DEF Around, RoleInv, SoleReader
  <2>3. pc'[t] \notin Acking
    BY <1>1, AroundFacts DEF Acking, TypeOK
  <2> QED BY <2>1, <2>2, <2>3
<1>4. CommittedWr = wrIdx /\ CommittedRd = rdIdx - n /\ CommittedWr' = wrIdx /\ CommittedRd' = Reduced(rdIdx)
  BY <1>1, <1>3, AroundFacts DEF CommittedInv, Acking
<1> DEFINE rd == CommittedRd
<1>5. /\ rd \in 0..Depth /\ rdIdx = rd + n /\ wrIdx \in 0..Depth
      /\ Held = CountOf(wrIdx, rd) /\ n <= Held /\ Held \in 0..Depth
      /\ n \in 1..MaxRequest /\ n \in 0..Depth
  <2>1. rdIdx \in Nat
    BY AroundFacts DEF TypeOK
  <2>2. n <= Held
    BY <1>1, AroundFacts DEF AInv, PeekInv, Held
  <2> QED BY <1>1, <1>4, <2>1, <2>2, AroundFacts DEF RangeOK, Held
<1>6. rd' = Reduced(rd + n) /\ Held' = Held - n
  <2>1. rd' = Reduced(rd + n)
    BY <1>4, <1>5
  <2>2. CountOf(wrIdx, Reduced(rd + n)) = CountOf(wrIdx, rd) - n
    <3> HIDE DEF rd, n
    <3> QED BY <1>5, AdvanceRd
  <2> QED BY <1>4, <1>5, <2>1, <2>2 DEF Held
<1>7. PlaceInv'
  BY <1>3 DEF PlaceInv, Acking
<1> QED BY <1>1, <1>3, <1>5, <1>6, <1>7 DEF InFlush

LEMMA FlushWrHeld ==
  ASSUME Around, NEW t \in Task, FlushWr(t)
  PROVE  /\ PlaceInv' /\ InFlush' /\ t \in Flushers
         /\ \A s \in Task : pc'[s] \notin {"w_add", "w_wrap"} /\ pc'[s] \notin Acking
<1>1. /\ pc[t] = "f_wr" /\ pc' = [pc EXCEPT ![t] = "f_rd"] /\ t \in Flushers /\ wrIdx' = 0
  BY AroundFacts DEF FlushWr, Goto, RoleInv
<1>2. \A s \in Task : pc[s] \in Critical => s = t
  BY <1>1, Alone DEF Critical
<1>3. \A s \in Task : pc'[s] \notin {"w_add", "w_wrap"} /\ pc'[s] \notin Acking
  <2>1. \A s \in Task : pc'[s] \notin {"w_add", "w_wrap"}
    BY <1>1, <1>2, AroundFacts DEF Critical, TypeOK
  <2>2. \A s \in Task : pc'[s] \in Acking => s = t
    BY <1>1, AroundFacts DEF Around, RoleInv, SoleReader
  <2>3. pc'[t] \notin Acking
    BY <1>1, AroundFacts DEF Acking, TypeOK
  <2> QED BY <2>1, <2>2, <2>3
<1>4. InFlush'
  BY <1>1, AroundFacts DEF InFlush, TypeOK
<1> QED BY <1>1, <1>3, <1>4 DEF PlaceInv, Acking

LEMMA FlushRdHeld ==
  ASSUME Around, NEW t \in Task, FlushRd(t)
  PROVE  /\ PlaceInv' /\ InFlush /\ ~InFlush' /\ Held' = 0 /\ t \in Flushers
         /\ \A s \in Task : pc'[s] \notin {"w_add", "w_wrap"} /\ pc'[s] \notin Acking
<1>1. /\ pc[t] = "f_rd" /\ pc' = [pc EXCEPT ![t] = "idle"] /\ t \in Flushers
      /\ wrIdx' = 0 /\ rdIdx' = 0
  BY AroundFacts DEF FlushRd, Goto, RoleInv, Around, HeldInv, PlaceInv
<1>2. \A s \in Task : pc[s] \in Critical => s = t
  BY <1>1, Alone DEF Critical
<1>3. \A s \in Task : pc'[s] \notin {"w_add", "w_wrap", "f_rd"} /\ pc'[s] \notin Acking
  <2>1. \A s \in Task : pc'[s] \notin {"w_add", "w_wrap", "f_rd"}
    BY <1>1, <1>2, AroundFacts DEF Critical, TypeOK
  <2>2. \A s \in Task : pc'[s] \in Acking => s = t
    BY <1>1, AroundFacts DEF Around, RoleInv, SoleReader
  <2>3. pc'[t] \notin Acking
    BY <1>1, AroundFacts DEF Acking, TypeOK
  <2> QED BY <2>1, <2>2, <2>3
<1>4. CommittedWr' = 0 /\ CommittedRd' = 0
  <2>1. \A s \in Task : pc'[s] # "a_wrap"
    BY <1>3 DEF Acking
  <2> QED BY <1>1, <1>3, <2>1, AroundFacts DEF CommittedInv
<1>5. CountOf(0, 0) = 0
  BY DEF CountOf
<1> QED BY <1>1, <1>3, <1>4, <1>5 DEF PlaceInv, Acking, InFlush, Held

(* The steps that move no index. *)
StillStep(t) ==
  \/ WriteCall(t) \/ WriteLock(t) \/ WriteRefuse(t) \/ WriteCopy(t)
  \/ ReadCall(t) \/ PeekLock(t) \/ PeekNothing(t) \/ PeekCopy(t) \/ AckLock(t)
  \/ FlushLock(t) \/ AskLock(t) \/ AskGet(t)

MovingStep(t) ==
  \/ WriteAdd(t) \/ WriteWrap(t) \/ AckAdd(t) \/ AckWrap(t) \/ FlushWr(t) \/ FlushRd(t)

LEMMA StillSteps ==
  ASSUME Around, NEW t \in Task, StillStep(t)
  PROVE  Still
<1> USE DEF Goto, Still
<1>1. CASE WriteCall(t)
  BY <1>1, AroundFacts DEF WriteCall, Return, locals, TypeOK
<1>2. CASE WriteLock(t)
  BY <1>2, AroundFacts DEF WriteLock, Return, locals, TypeOK
<1>3. CASE WriteRefuse(t)
  BY <1>3, AroundFacts DEF WriteRefuse, Return, locals, TypeOK
<1>4. CASE WriteCopy(t)
  BY <1>4, AroundFacts DEF WriteCopy, Return, locals, TypeOK
<1>5. CASE ReadCall(t)
  BY <1>5, AroundFacts DEF ReadCall, Return, locals, TypeOK
<1>6. CASE PeekLock(t)
  BY <1>6, AroundFacts DEF PeekLock, Return, locals, TypeOK
<1>7. CASE PeekNothing(t)
  BY <1>7, AroundFacts DEF PeekNothing, Return, locals, TypeOK
<1>8. CASE PeekCopy(t)
  BY <1>8, AroundFacts DEF PeekCopy, Return, locals, TypeOK
<1>9. CASE AckLock(t)
  BY <1>9, AroundFacts DEF AckLock, Return, locals, TypeOK
<1>10. CASE FlushLock(t)
  BY <1>10, AroundFacts DEF FlushLock, Return, locals, TypeOK
<1>11. CASE AskLock(t)
  BY <1>11, AroundFacts DEF AskLock, Return, locals, TypeOK
<1>12. CASE AskGet(t)
  BY <1>12, AroundFacts DEF AskGet, Return, locals, TypeOK
<1> QED BY <1>1, <1>2, <1>3, <1>4, <1>5, <1>6, <1>7, <1>8, <1>9, <1>10, <1>11, <1>12 DEF StillStep

LEMMA NextHeldInv ==
  ASSUME Guarded, SoleReader, HeldInv, [Next]_vars
  PROVE  Around /\ HeldInv'
<1>1. Around
  BY NextAInv DEF Around, HeldInv
<1>2. ASSUME NEW t \in Task, StillStep(t) PROVE PlaceInv'
  BY <1>1, <1>2, StillSteps, StillHeld
<1>3. ASSUME NEW t \in Task, MovingStep(t) PROVE PlaceInv'
  BY <1>1, <1>3, WriteAddHeld, WriteWrapHeld, AckAddHeld, AckWrapHeld, FlushWrHeld, FlushRdHeld
  DEF MovingStep
<1>4. ASSUME UNCHANGED vars PROVE PlaceInv'
  <2>1. Still
    BY <1>4 DEF vars, Still
  <2> QED BY <1>1, <2>1, StillHeld
<1>5. PlaceInv'
  <2>1. ASSUME NEW t \in Task, Call(t) \/ Step(t) PROVE StillStep(t) \/ MovingStep(t)
    BY <2>1 DEF Call, Step, WriteStep, ReadStep, FlushStep, StillStep, MovingStep
  <2>2. CASE Next
    BY <1>2, <1>3, <2>1, <2>2 DEF Next
  <2> QED BY <1>4, <2>2
<1> QED BY <1>1, <1>5, AroundFacts

-----------------------------------------------------------------------------
(* What those who asked were told. *)

SoleWriter == /\ \A s, t \in Writers : s = t
              /\ Writers \cap Readers = {}

(* The space a writer knows of is there, and so are the items a reader knows *)
(* of, unless it is flushing them; a reader past its count has counted them. *)
PromiseInv ==
  /\ \A t \in Task : pc[t] \in Writing => t \in Writers
  /\ \A t \in Writers : seen[t] <= Depth - (IF InFlush THEN 0 ELSE Held)
  /\ \A t \in Readers :
       /\ pc[t] # "f_rd" => seen[t] <= Held
       /\ pc[t] \in Peeking \cup Acking => numToRead[t] >= Least(num[t], seen[t])

(* Steps that take nothing from the queue, add nothing to it and count        *)
(* nothing.                                                                   *)
Unaware ==
  /\ SameHeld
  /\ InFlush' = InFlush
  /\ \A s \in Task :
       /\ seen'[s] <= seen[s]
       /\ pc'[s] \in Writing => pc[s] \in Writing \/ s \in Writers
       /\ pc'[s] = "f_rd" <=> pc[s] = "f_rd"
       /\ pc'[s] \in Peeking \cup Acking =>
            /\ pc[s] \in Peeking \cup Acking
            /\ num'[s] = num[s] /\ numToRead'[s] = numToRead[s]

LEMMA UnawareKeeps ==
  ASSUME Around, PromiseInv, Unaware
  PROVE  PromiseInv'
<1>1. /\ Held \in 0..Depth /\ Held' = Held /\ InFlush' = InFlush
      /\ seen \in [Task -> 0..Depth] /\ seen' \in [Task -> 0..Depth]
      /\ num \in [Task -> 0..MaxRequest] /\ numToRead \in [Task -> 0..MaxRequest]
  BY AroundFacts DEF RangeOK, TypeOK, Unaware, SameHeld
<1>2. \A s \in Task : pc'[s] \in Writing => s \in Writers
  BY DEF Unaware, PromiseInv
<1>3. ASSUME NEW s \in Writers PROVE seen'[s] <= Depth - (IF InFlush' THEN 0 ELSE Held')
  <2>1. s \in Task /\ seen[s] <= Depth - (IF InFlush THEN 0 ELSE Held) /\ seen'[s] <= seen[s]
    BY DEF Task, PromiseInv, Unaware
  <2>2. seen[s] \in 0..Depth /\ seen'[s] \in 0..Depth
    BY <1>1, <2>1
  <2> QED BY <1>1, <2>1, <2>2
<1>4. ASSUME NEW s \in Readers
      PROVE  /\ pc'[s] # "f_rd" => seen'[s] <= Held'
             /\ pc'[s] \in Peeking \cup Acking => numToRead'[s] >= Least(num'[s], seen'[s])
  <2>1. s \in Task /\ seen'[s] <= seen[s] /\ seen[s] \in 0..Depth /\ seen'[s] \in 0..Depth
    BY <1>1 DEF Task, Unaware
  <2>2. pc'[s] # "f_rd" => seen'[s] <= Held'
    BY <1>1, <2>1 DEF PromiseInv, Unaware
  <2>3. ASSUME pc'[s] \in Peeking \cup Acking
        PROVE  numToRead'[s] >= Least(num'[s], seen'[s])
    <3>1. /\ num'[s] = num[s] /\ numToRead'[s] = numToRead[s]
          /\ numToRead[s] >= Least(num[s], seen[s])
      BY <2>1, <2>3 DEF PromiseInv, Unaware
    <3>2. num[s] \in 0..MaxRequest /\ numToRead[s] \in 0..MaxRequest
      BY <1>1, <2>1
    <3> QED BY <2>1, <3>1, <3>2 DEF Least
  <2> QED BY <2>2, <2>3
<1> QED BY <1>2, <1>3, <1>4 DEF PromiseInv

LEMMA NextPromiseInv ==
  ASSUME Around, SoleWriter, PromiseInv, [Next]_vars
  PROVE  PromiseInv'
<1> USE DEF Goto
<1>0. /\ TypeOK /\ TypeOK' /\ RangeOK /\ CommittedInv
      /\ seen \in [Task -> 0..Depth] /\ seen' \in [Task -> 0..Depth]
      /\ num \in [Task -> 0..MaxRequest] /\ numToRead \in [Task -> 0..MaxRequest]
  BY AroundFacts DEF TypeOK
<1>1. ASSUME NEW t \in Task, WriteCall(t) PROVE PromiseInv'
  <2>1. SameHeld /\ InFlush' = InFlush
    BY <1>1, StillSteps, StillHeld DEF StillStep
  <2>2. Unaware
    BY <1>0, <1>1, <2>1 DEF Unaware, WriteCall, Return, locals, TypeOK, Writing, Peeking, Acking
  <2> QED BY <2>2, UnawareKeeps
<1>2. ASSUME NEW t \in Task, WriteLock(t) PROVE PromiseInv'
  <2>1. SameHeld /\ InFlush' = InFlush
    BY <1>2, StillSteps, StillHeld DEF StillStep
  <2>2. Unaware
    BY <1>0, <1>2, <2>1 DEF Unaware, WriteLock, Return, locals, TypeOK, Writing, Peeking, Acking
  <2> QED BY <2>2, UnawareKeeps
<1>3. ASSUME NEW t \in Task, WriteRefuse(t) PROVE PromiseInv'
  <2>1. SameHeld /\ InFlush' = InFlush
    BY <1>3, StillSteps, StillHeld DEF StillStep
  <2>2. Unaware
    BY <1>0, <1>3, <2>1 DEF Unaware, WriteRefuse, Return, locals, TypeOK, Writing, Peeking, Acking
  <2> QED BY <2>2, UnawareKeeps
<1>4. ASSUME NEW t \in Task, WriteCopy(t) PROVE PromiseInv'
  <2>1. SameHeld /\ InFlush' = InFlush
    BY <1>4, StillSteps, StillHeld DEF StillStep
  <2>2. Unaware
    BY <1>0, <1>4, <2>1 DEF Unaware, WriteCopy, Return, locals, TypeOK, Writing, Peeking, Acking
  <2> QED BY <2>2, UnawareKeeps
<1>5. ASSUME NEW t \in Task, WriteAdd(t) PROVE PromiseInv'
  <2>1. SameHeld /\ InFlush' = InFlush
    BY <1>5, WriteAddHeld
  <2>2. Unaware
    BY <1>0, <1>5, <2>1 DEF Unaware, WriteAdd, Return, locals, TypeOK, Writing, Peeking, Acking
  <2> QED BY <2>2, UnawareKeeps
<1>6. ASSUME NEW t \in Task, PeekLock(t) PROVE PromiseInv'
  <2>1. SameHeld /\ InFlush' = InFlush
    BY <1>6, StillSteps, StillHeld DEF StillStep
  <2>2. Unaware
    BY <1>0, <1>6, <2>1 DEF Unaware, PeekLock, Return, locals, TypeOK, Writing, Peeking, Acking
  <2> QED BY <2>2, UnawareKeeps
<1>7. ASSUME NEW t \in Task, PeekNothing(t) PROVE PromiseInv'
  <2>1. SameHeld /\ InFlush' = InFlush
    BY <1>7, StillSteps, StillHeld DEF StillStep
  <2>2. Unaware
    BY <1>0, <1>7, <2>1 DEF Unaware, PeekNothing, Return, locals, TypeOK, Writing, Peeking, Acking
  <2> QED BY <2>2, UnawareKeeps
<1>8. ASSUME NEW t \in Task, PeekCopy(t) PROVE PromiseInv'
  <2>1. SameHeld /\ InFlush' = InFlush
    BY <1>8, StillSteps, StillHeld DEF StillStep
  <2>2. Unaware
    BY <1>0, <1>8, <2>1 DEF Unaware, PeekCopy, Return, locals, TypeOK, Writing, Peeking, Acking
  <2> QED BY <2>2, UnawareKeeps
<1>9. ASSUME NEW t \in Task, AckLock(t) PROVE PromiseInv'
  <2>1. SameHeld /\ InFlush' = InFlush
    BY <1>9, StillSteps, StillHeld DEF StillStep
  <2>2. Unaware
    BY <1>0, <1>9, <2>1 DEF Unaware, AckLock, Return, locals, TypeOK, Writing, Peeking, Acking
  <2> QED BY <2>2, UnawareKeeps
<1>10. ASSUME NEW t \in Task, AckAdd(t) PROVE PromiseInv'
  <2>1. SameHeld /\ InFlush' = InFlush
    BY <1>10, AckAddHeld
  <2>2. Unaware
    BY <1>0, <1>10, <2>1 DEF Unaware, AckAdd, Return, locals, TypeOK, Writing, Peeking, Acking
  <2> QED BY <2>2, UnawareKeeps
<1>11. ASSUME NEW t \in Task, FlushLock(t) PROVE PromiseInv'
  <2>1. SameHeld /\ InFlush' = InFlush
    BY <1>11, StillSteps, StillHeld DEF StillStep
  <2>2. Unaware
    BY <1>0, <1>11, <2>1 DEF Unaware, FlushLock, Return, locals, TypeOK, Writing, Peeking, Acking
  <2> QED BY <2>2, UnawareKeeps
<1>12. ASSUME NEW t \in Task, AskLock(t) PROVE PromiseInv'
  <2>1. SameHeld /\ InFlush' = InFlush
    BY <1>12, StillSteps, StillHeld DEF StillStep
  <2>2. Unaware
    BY <1>0, <1>12, <2>1 DEF Unaware, AskLock, Return, locals, TypeOK, Writing, Peeking, Acking
  <2> QED BY <2>2, UnawareKeeps
<1>13. ASSUME NEW t \in Task, WriteWrap(t) PROVE PromiseInv'
  <2>1. /\ ~InFlush /\ ~InFlush' /\ num[t] \in 1..MaxRequest /\ Held \in 0..Depth
        /\ Held' = Held + num[t] /\ Held + num[t] <= Depth
    BY <1>13, WriteWrapHeld
  <2>2. /\ pc[t] = "w_wrap" /\ pc' = [pc EXCEPT ![t] = "idle"]
        /\ seen' = [seen EXCEPT ![t] = IF @ > num[t] THEN @ - num[t] ELSE 0]
        /\ num' = [num EXCEPT ![t] = 0] /\ numToRead' = [numToRead EXCEPT ![t] = 0]
    BY <1>13 DEF WriteWrap, Return
  <2>3. t \in Writers
    BY <2>2 DEF PromiseInv, Writing
  <2>4. \A s \in Task : pc'[s] \in Writing => s \in Writers
    BY <1>0, <2>2 DEF PromiseInv, TypeOK, Writing
  <2>5. ASSUME NEW s \in Writers PROVE seen'[s] <= Depth - Held'
    <3>1. s = t
      BY <2>3 DEF SoleWriter
    <3>2. seen[t] <= Depth - Held /\ seen[t] \in 0..Depth
      BY <1>0, <2>1, <2>3 DEF PromiseInv
    <3>3. seen'[t] = IF seen[t] > num[t] THEN seen[t] - num[t] ELSE 0
      BY <1>0, <2>2
    <3> QED BY <2>1, <3>1, <3>2, <3>3
  <2>6. ASSUME NEW s \in Readers
        PROVE  /\ pc'[s] # "f_rd" => seen'[s] <= Held'
               /\ pc'[s] \in Peeking \cup Acking => numToRead'[s] >= Least(num'[s], seen'[s])
    <3>1. s # t /\ s \in Task /\ seen[s] \in 0..Depth
      BY <1>0, <2>3 DEF SoleWriter, Task
    <3>2. /\ pc'[s] = pc[s] /\ seen'[s] = seen[s] /\ num'[s] = num[s]
          /\ numToRead'[s] = numToRead[s]
      BY <1>0, <2>2, <3>1 DEF TypeOK
    <3> QED BY <2>1, <3>1, <3>2 DEF PromiseInv
  <2> QED BY <2>1, <2>4, <2>5, <2>6 DEF PromiseInv
<1>14. ASSUME NEW t \in Task, ReadCall(t) PROVE PromiseInv'
  <2>1. SameHeld /\ InFlush' = InFlush /\ (\A s \in Task : pc'[s] = "f_rd" <=> pc[s] = "f_rd")
    BY <1>14, StillSteps, StillHeld DEF StillStep, Still
  <2>2. /\ t \in Readers /\ pc[t] = "idle" /\ pc' = [pc EXCEPT ![t] = "p_lock"] /\ seen' = seen
    BY <1>14 DEF ReadCall
  <2>3. PICK k \in 1..MaxRequest : num' = [num EXCEPT ![t] = k]
                                  /\ numToRead' = [numToRead EXCEPT ![t] = Least(k, Count)]
    BY <1>14 DEF ReadCall
  <2>4. \A s \in Readers : s = t
    BY <2>2 DEF Around, SoleReader
  <2>5. seen[t] <= Held /\ seen[t] \in 0..Depth
    BY <1>0, <2>2 DEF PromiseInv
  <2>6. Count \in Nat /\ Held <= Count
    <3>1. \A s \in Task : pc[s] # "a_wrap"
      BY <2>2, <2>4, AroundFacts DEF RoleInv, Acking
    <3>2. CommittedRd = rdIdx /\ rdIdx \in 0..Depth /\ Held \in 0..Depth
      BY <1>0, <3>1 DEF CommittedInv, RangeOK
    <3>3. CASE \A s \in Task : pc[s] # "w_wrap"
      BY <1>0, <3>2, <3>3 DEF CommittedInv, Held, Count
    <3>4. ASSUME NEW w \in Task, pc[w] = "w_wrap" PROVE Count \in Nat /\ Held <= Count
      <4> DEFINE old == wrIdx - num[w]
      <4>1. /\ old \in 0..Depth /\ num[w] <= Depth - CountOf(old, rdIdx) /\ old + num[w] = wrIdx
            /\ num[w] \in 1..MaxRequest /\ CommittedWr = old
        <5>1. num[w] \in 1..MaxRequest /\ wrIdx \in Nat
          BY <1>0, <3>4, AroundFacts DEF IInv, FrameInv, Writing, TypeOK
        <5>2. old \in 0..Depth /\ num[w] <= Depth - CountOf(old, rdIdx)
          BY <3>4, AroundFacts DEF AInv, SpaceInv
        <5>3. CommittedWr = old
          BY <1>0, <3>4 DEF CommittedInv
        <5> QED BY <5>1, <5>2, <5>3
      <4> HIDE DEF old
      <4>2. CountOf(old + num[w], rdIdx) = CountOf(old, rdIdx) + num[w]
        BY <3>2, <4>1, Advance
      <4>3. Count = Held + num[w]
        BY <3>2, <4>1, <4>2 DEF Held, Count
      <4> QED BY <3>2, <4>1, <4>3
    <3> QED BY <3>3, <3>4
  <2>7. numToRead'[t] = Least(k, Count) /\ num'[t] = k /\ Least(k, Count) >= Least(k, seen[t])
    <3>1. numToRead'[t] = Least(k, Count) /\ num'[t] = k
      BY <1>0, <2>2, <2>3
    <3>2. seen[t] <= Count
      BY <1>0, <2>5, <2>6 DEF RangeOK
    <3> QED BY <2>5, <2>6, <3>1, <3>2 DEF Least
  <2>8. \A s \in Task : pc'[s] \in Writing => s \in Writers
    BY <1>0, <2>2 DEF PromiseInv, TypeOK, Writing
  <2> QED BY <2>1, <2>2, <2>4, <2>7, <2>8 DEF PromiseInv, SameHeld
<1>15. ASSUME NEW t \in Task, AckWrap(t) PROVE PromiseInv'
  <2>1. /\ ~InFlush /\ ~InFlush' /\ t \in Readers
        /\ \A s \in Task : pc'[s] \notin Acking
        /\ numToRead[t] \in 1..MaxRequest /\ numToRead[t] <= Held /\ Held \in 0..Depth
        /\ Held' = Held - numToRead[t]
    BY <1>15, AckWrapHeld
  <2>2. /\ pc[t] = "a_wrap" /\ pc' = [pc EXCEPT ![t] = "idle"]
        /\ seen' = [seen EXCEPT ![t] = IF @ > numToRead[t] THEN @ - numToRead[t] ELSE 0]
    BY <1>15 DEF AckWrap
  <2>3. \A s \in Readers : s = t
    BY <2>1 DEF Around, SoleReader
  <2>4. \A s \in Task : pc'[s] \in Writing => s \in Writers
    BY <1>0, <2>2 DEF PromiseInv, TypeOK, Writing
  <2>5. ASSUME NEW s \in Writers PROVE seen'[s] <= Depth - Held'
    <3>1. s # t /\ s \in Task
      BY <2>1 DEF SoleWriter, Task
    <3>2. seen'[s] = seen[s] /\ seen[s] <= Depth - Held /\ seen[s] \in 0..Depth
      BY <1>0, <2>1, <2>2, <3>1 DEF PromiseInv
    <3> QED BY <2>1, <3>2
  <2>6. pc'[t] = "idle" /\ seen'[t] <= Held'
    <3>1. seen[t] <= Held /\ seen[t] \in 0..Depth
      BY <1>0, <2>1, <2>2 DEF PromiseInv
    <3>2. pc'[t] = "idle" /\ seen'[t] = IF seen[t] > numToRead[t] THEN seen[t] - numToRead[t] ELSE 0
      BY <1>0, <2>2 DEF TypeOK
    <3> QED BY <2>1, <3>1, <3>2
  <2> QED BY <2>1, <2>3, <2>4, <2>5, <2>6 DEF PromiseInv, Peeking, Acking
<1>16. ASSUME NEW t \in Task, FlushWr(t) PROVE PromiseInv'
  <2>1. InFlush' /\ t \in Flushers /\ pc' = [pc EXCEPT ![t] = "f_rd"] /\ seen' = seen
    BY <1>16, FlushWrHeld DEF FlushWr
  <2>2. \A s \in Readers : s = t /\ pc'[s] = "f_rd"
    BY <1>0, <2>1 DEF Around, SoleReader, TypeOK
  <2>3. \A s \in Task : pc'[s] \in Writing => s \in Writers
    BY <1>0, <2>1 DEF PromiseInv, TypeOK, Writing
  <2>4. \A s \in Writers : seen'[s] <= Depth - 0
    BY <1>0, <2>1 DEF Task
  <2> QED BY <2>1, <2>2, <2>3, <2>4 DEF PromiseInv, Peeking, Acking
<1>17. ASSUME NEW t \in Task, FlushRd(t) PROVE PromiseInv'
  <2>1. /\ InFlush /\ ~InFlush' /\ Held' = 0 /\ t \in Flushers
        /\ pc' = [pc EXCEPT ![t] = "idle"] /\ seen' = [seen EXCEPT ![t] = 0]
    BY <1>17, FlushRdHeld DEF FlushRd
  <2>2. \A s \in Readers : s = t /\ pc'[s] = "idle" /\ seen'[s] = 0
    BY <1>0, <2>1 DEF Around, SoleReader, TypeOK
  <2>3. \A s \in Task : pc'[s] \in Writing => s \in Writers
    BY <1>0, <2>1 DEF PromiseInv, TypeOK, Writing
  <2>4. \A s \in Writers : seen'[s] <= Depth - 0
    BY <1>0 DEF Task
  <2> QED BY <2>1, <2>2, <2>3, <2>4 DEF PromiseInv, Peeking, Acking
<1>18. ASSUME NEW t \in Task, AskGet(t) PROVE PromiseInv'
  <2>1. SameHeld /\ InFlush' = InFlush
    BY <1>18, StillSteps, StillHeld DEF StillStep
  <2>2. /\ pc[t] = "q_get" /\ pc' = [pc EXCEPT ![t] = "idle"]
        /\ seen' = [seen EXCEPT ![t] = IF t \in Writers THEN Avail ELSE Count]
        /\ num' = num /\ numToRead' = numToRead
    BY <1>18 DEF AskGet, locals
  <2>3. \A s \in Task : pc[s] \notin {"w_wrap", "a_wrap", "f_rd"}
    BY <2>2, Alone DEF Critical
  <2>4. Held = Count /\ Held \in 0..Depth /\ ~InFlush
    BY <1>0, <2>3 DEF CommittedInv, Held, Count, RangeOK, InFlush
  <2>5. Avail = Depth - Held
    BY <2>4, SmallMod DEF Avail
  <2>6. \A s \in Task : pc'[s] \in Writing => s \in Writers
    BY <1>0, <2>2 DEF PromiseInv, TypeOK, Writing
  <2>7. ASSUME NEW s \in Writers PROVE seen'[s] <= Depth - Held
    <3>1. s \in Task
      BY DEF Task
    <3>2. CASE s = t
      BY <1>0, <2>2, <2>4, <2>5, <3>1, <3>2
    <3>3. CASE s # t
      BY <1>0, <2>2, <2>4, <3>1, <3>3 DEF PromiseInv
    <3> QED BY <3>2, <3>3
  <2>8. ASSUME NEW s \in Readers
        PROVE  /\ seen'[s] <= Held
               /\ pc'[s] \in Peeking \cup Acking => numToRead'[s] >= Least(num'[s], seen'[s])
    <3>1. s \in Task /\ s \notin Writers
      BY DEF Task, SoleWriter
    <3>2. CASE s = t
      BY <1>0, <2>2, <2>4, <3>1, <3>2 DEF TypeOK, Peeking, Acking
    <3>3. CASE s # t
      <4>1. pc'[s] = pc[s] /\ seen'[s] = seen[s]
        BY <1>0, <2>2, <3>1, <3>3 DEF TypeOK
      <4> QED BY <2>2, <2>3, <3>1, <4>1 DEF PromiseInv
    <3> QED BY <3>2, <3>3
  <2> QED BY <2>1, <2>4, <2>6, <2>7, <2>8 DEF PromiseInv, SameHeld
<1>19. CASE UNCHANGED vars
  <2>1. Still
    BY <1>19 DEF vars, Still
  <2>2. Unaware
    BY <1>0, <1>19, <2>1, StillHeld DEF Unaware, vars
  <2> QED BY <2>2, UnawareKeeps
<1> QED
  BY <1>1, <1>2, <1>3, <1>4, <1>5, <1>6, <1>7, <1>8, <1>9, <1>10, <1>11, <1>12, <1>13, <1>14, <1>15, <1>16, <1>17, <1>18, <1>19
  DEF Next, Call, Step, WriteStep, ReadStep, FlushStep

(* What was promised is kept when the time comes. *)
LEMMA PromiseStep ==
  ASSUME Around, SoleWriter, PromiseInv
  PROVE  /\ \A t \in Writers : num[t] <= seen[t] => ~WriteRefuse(t)
         /\ \A t \in Readers : seen[t] > 0 => ~PeekNothing(t)
         /\ \A t \in Readers : AckWrap(t) => numToRead[t] >= Least(num[t], seen[t])
<1>0. /\ TypeOK /\ RangeOK /\ CommittedInv /\ IInv
      /\ seen \in [Task -> 0..Depth]
      /\ num \in [Task -> 0..MaxRequest] /\ numToRead \in [Task -> 0..MaxRequest]
  BY AroundFacts DEF TypeOK
<1>1. ASSUME NEW t \in Task, pc[t] \in {"w_copy", "p_copy"}
      PROVE  Held = Count /\ Held \in 0..Depth /\ ~InFlush
  <2>1. \A s \in Task : pc[s] \notin {"w_wrap", "a_wrap", "f_rd"}
    BY <1>1, Alone DEF Critical
  <2> QED BY <1>0, <2>1 DEF CommittedInv, Held, Count, RangeOK, InFlush
<1>2. ASSUME NEW t \in Writers, num[t] <= seen[t], WriteRefuse(t) PROVE FALSE
  <2>1. t \in Task /\ pc[t] = "w_copy" /\ Avail < num[t]
    BY <1>2 DEF WriteRefuse, Goto, Task
  <2>2. Held = Count /\ Held \in 0..Depth /\ seen[t] <= Depth - Held
    BY <1>1, <2>1 DEF PromiseInv
  <2>3. Avail = Depth - Held
    BY <2>2, SmallMod DEF Avail
  <2>4. seen[t] \in 0..Depth /\ num[t] \in 0..MaxRequest
    BY <1>0, <2>1
  <2> QED BY <1>2, <2>1, <2>2, <2>3, <2>4
<1>3. ASSUME NEW t \in Readers, seen[t] > 0, PeekNothing(t) PROVE FALSE
  <2>1. t \in Task /\ pc[t] = "p_copy" /\ (wrIdx = rdIdx \/ numToRead[t] = 0)
    BY <1>3 DEF PeekNothing, Goto, Task, IsEmpty
  <2>2. Held = Count /\ seen[t] <= Held /\ numToRead[t] >= Least(num[t], seen[t])
    BY <1>1, <2>1 DEF PromiseInv, Peeking
  <2>3. seen[t] \in 0..Depth /\ num[t] \in 1..MaxRequest /\ numToRead[t] \in 0..MaxRequest
    BY <1>0, <2>1 DEF IInv, FrameInv, Peeking
  <2>4. wrIdx = rdIdx => Count = 0
    BY <1>0 DEF Count, CountOf, TypeOK
  <2>5. Least(num[t], seen[t]) > 0
    BY <1>3, <2>3 DEF Least
  <2>6. Held = 0 \/ numToRead[t] = 0
    BY <2>1, <2>2, <2>4
  <2>7. ~(seen[t] <= 0)
    BY <1>3, <2>3
  <2>8. ~(0 >= Least(num[t], seen[t]))
    <3>1. Least(num[t], seen[t]) \in Int
      BY <2>3 DEF Least
    <3> QED BY <2>5, <3>1
  <2> QED BY <2>2, <2>6, <2>7, <2>8
<1>4. ASSUME NEW t \in Readers, AckWrap(t) PROVE numToRead[t] >= Least(num[t], seen[t])
  BY <1>4 DEF AckWrap, Goto, PromiseInv, Acking
<1> QED BY <1>2, <1>3, <1>4

(* SwFifo.PromisesKept for every depth and item size: with one writer and one *)
(* task that reads and flushes, what SwFifo_getAvail and SwFifo_getCount      *)
(* answered holds until the caller acts on it, although the mutex is free     *)
(* between the two calls and SwFifo_read counts before it locks.              *)
THEOREM PromiseHeld == Guarded /\ SoleReader /\ SoleWriter => (Spec => PromisesKept)
<1> SUFFICES ASSUME Guarded, SoleReader, SoleWriter PROVE Spec => PromisesKept
  OBVIOUS
<1> DEFINE Inv == HeldInv /\ PromiseInv
<1>1. Init => Inv
  <2> SUFFICES ASSUME Init PROVE Inv
    OBVIOUS
  <2>1. HeldInv
    BY InitIInv DEF HeldInv, PlaceInv, AInv, Init, SpaceInv, PeekInv, RoleInv, Peeking, Acking, Task
  <2>2. RangeOK
    BY <2>1, CommittedRange
  <2>3. \A t \in Task : seen[t] = 0 /\ pc[t] = "idle"
    BY DEF Init
  <2> QED BY <2>1, <2>2, <2>3
          DEF PromiseInv, RangeOK, Writing, Peeking, Acking, Task, InFlush
<1>2. Inv /\ [Next]_vars => Inv'
  BY NextHeldInv, NextPromiseInv
<1>3. Inv /\ [Next]_vars =>
        [/\ \A t \in Writers : num[t] <= seen[t] => ~WriteRefuse(t)
         /\ \A t \in Readers : seen[t] > 0 => ~PeekNothing(t)
         /\ \A t \in Readers : AckWrap(t) => numToRead[t] >= Least(num[t], seen[t])]_vars
  BY NextHeldInv, PromiseStep
<1> HIDE DEF Inv
<1> QED BY <1>1, <1>2, <1>3, PTL DEF Spec, PromisesKept

-----------------------------------------------------------------------------
(* The steps of the fifo seen from BoundedFifo. *)

(* The queue by distances from the read index. *)
InCells == [i \in 1..Held |-> ItemAt(mem, Cell(CommittedRd, i - 1))]

(* Items and the parts of memory nobody has written yet. *)
Object == [0..(ItemSize - 1) -> Byte \cup {NoByte}]

QueueShape ==
  /\ InFlush => Queue = << >>
  /\ ~InFlush => Queue = InCells
  /\ InCells \in Seq(Object)
  /\ Len(InCells) = Held
  /\ \A i \in 1..Held : InCells[i] = ItemAt(mem, Cell(CommittedRd, i - 1))

LEMMA QueueIs ==
  ASSUME Guarded, Bytewise, FifoInv
  PROVE  QueueShape
<1>1. CommittedWr \in 0..Depth /\ CommittedRd \in 0..Depth /\ Held \in 0..Depth
  BY CommittedRange DEF RangeOK, FifoInv
<1>2. ASSUME NEW i \in 1..Held
      PROVE  /\ (CommittedRd + i - 1) % (Depth + 1) = Cell(CommittedRd, i - 1)
             /\ Cell(CommittedRd, i - 1) \in 0..Depth
  <2> DEFINE a == CommittedRd + (i - 1)
  <2>1. a \in 0..(2 * Depth + 1) /\ CommittedRd + i - 1 = a
    BY <1>1
  <2>2. a % (Depth + 1) = Reduced(a) /\ Reduced(a) \in 0..Depth
    <3> HIDE DEF a
    <3> QED BY <2>1, ReducedIsMod
  <2> QED BY <2>1, <2>2 DEF Cell
<1>3. ~InFlush => Queue = InCells
  BY <1>2 DEF Queue, InFlush, InCells, Held
<1>4. \A c \in 0..Depth : ItemAt(mem, c) \in Object
  BY DEF FifoInv, HeldInv, AInv, IInv, TypeOK, Buffer, ItemAt, Object, Bytewise
<1>5. InCells \in Seq(Object) /\ Len(InCells) = Held
  BY <1>1, <1>2, <1>4 DEF InCells
<1> QED BY <1>3, <1>5 DEF Queue, InFlush, InCells, QueueShape

LEMMA QueueIsNext == Guarded /\ Bytewise /\ FifoInv' => QueueShape'
<1> SUFFICES ASSUME Guarded, Bytewise PROVE FifoInv' => QueueShape'
  OBVIOUS
<1>1. FifoInv => QueueShape
  BY QueueIs
<1> QED BY <1>1, PTL

(* Where the committed indices, the memory and flushes stay, so does the queue. *)
LEMMA SameQueue ==
  ASSUME SameHeld, mem' = mem, InFlush' = InFlush
  PROVE  Queue' = Queue
  BY DEF Queue, InFlush, SameHeld

(* Before and after a step of a fifo of bytes. *)
ByteAround == Around /\ Bytewise /\ DataInv

AbstractStep == [Abstract!Next]_(Abstract!vars)

LEMMA ByteFacts ==
  ASSUME ByteAround
  PROVE  /\ Around /\ DataInv /\ Bytewise /\ QueueShape
         /\ PlaceInv' /\ DataInv' => QueueShape'
<1>1. QueueShape
  BY QueueIs DEF ByteAround, Around, FifoInv
<1>2. PlaceInv' /\ DataInv' => FifoInv'
  BY AroundFacts DEF ByteAround, FifoInv
<1>3. FifoInv' => QueueShape'
  BY QueueIsNext DEF ByteAround, Around
<1> QED BY <1>1, <1>2, <1>3 DEF ByteAround

LEMMA QuietKeeps ==
  ASSUME ByteAround, Quiet
  PROVE  DataInv' /\ Queue' = Queue
<1>1. SameHeld /\ InFlush' = InFlush /\ mem' = mem
  BY ByteFacts, StillHeld DEF Quiet
<1>2. SUFFICES ASSUME NEW t \in Task
      PROVE  /\ pc'[t] \in {"w_add", "w_wrap"} =>
                  \A k \in 0..(num'[t] - 1) : mem[Cell(CommittedRd, Held + k)] = data'[t][k]
             /\ pc'[t] \in Acking =>
                  \A k \in 0..(numToRead'[t] - 1) : mem[Cell(CommittedRd, k)] = data'[t][k]
  BY <1>1, SameQueue DEF DataInv, Cell, SameHeld
<1> QED BY ByteFacts DEF DataInv, Quiet

(* Steps that leave the queue and the results alone. *)
LEMMA QuietStep ==
  ASSUME ByteAround, Quiet, result' = result
  PROVE  DataInv' /\ AbstractStep
  BY QuietKeeps DEF AbstractStep, Abstract!vars

(* circWrite stores behind the queue: the queue and what a reader has peeked *)
(* stay as they are.                                                         *)
LEMMA WriteCopyStep ==
  ASSUME ByteAround, NEW t \in Task, WriteCopy(t)
  PROVE  DataInv' /\ AbstractStep
<1> USE DEF Goto
<1>0. Around /\ Bytewise /\ DataInv
  BY ByteFacts
<1>1. /\ pc[t] = "w_copy" /\ pc' = [pc EXCEPT ![t] = "w_add"]
      /\ num[t] \in 1..MaxRequest /\ data[t] \in [0..(num[t] * ItemSize - 1) -> Byte]
      /\ UNCHANGED <<wrIdx, rdIdx, num, data, numToRead, result>>
      /\ mem' = CircWrite(mem, wrIdx, data[t], num[t])
  BY <1>0, AroundFacts DEF WriteCopy, IInv, FrameInv, Writing
<1>2. \A s \in Task : pc[s] \in Critical => s = t
  BY <1>0, <1>1, Alone DEF Critical
<1>3. \A s \in Task : /\ pc[s] \notin {"w_add", "w_wrap", "a_wrap", "f_rd"}
                      /\ pc'[s] \notin {"w_wrap", "a_wrap", "f_rd"}
                      /\ pc'[s] = "w_add" => s = t
                      /\ s # t => pc'[s] = pc[s]
  BY <1>0, <1>1, <1>2, AroundFacts DEF Critical, TypeOK
<1>4. SameHeld /\ PlaceInv' /\ CommittedWr = wrIdx /\ CommittedRd = rdIdx
  <2>1. Still
    BY <1>1, <1>3 DEF Still
  <2> QED BY <1>0, <1>3, <2>1, StillHeld, AroundFacts DEF CommittedInv
<1>5. /\ CommittedRd' = rdIdx /\ Held' = Held /\ Held = Count /\ Held \in 0..Depth
      /\ wrIdx \in 0..Depth /\ rdIdx \in 0..Depth
  BY <1>0, <1>4, AroundFacts DEF Held, Count, RangeOK, SameHeld
<1>6. Held + num[t] <= Depth
  <2>1. Avail = Depth - Held
    BY <1>5, SmallMod DEF Avail
  <2> QED BY <1>1, <1>5, <2>1 DEF WriteCopy
<1>7. /\ \A k \in 0..(num[t] - 1) : mem'[Reduced(wrIdx + k)] = data[t][k]
      /\ \A c \in 0..Depth : (\A k \in 0..(num[t] - 1) : c # Reduced(wrIdx + k)) =>
           mem'[c] = mem[c]
  <2>1. Bytewise /\ mem \in Buffer(Depth + 1)
    BY <1>0, AroundFacts DEF TypeOK
  <2>2. mem' = CircWrite(mem, wrIdx, data[t], num[t]) /\ num[t] \in 1..MaxRequest /\ wrIdx \in 0..Depth
    BY <1>1, <1>5
  <2> QED BY ONLY <2>1, <2>2, CircWriteBytes
<1>8. \A k \in 0..(num[t] - 1) : Reduced(wrIdx + k) = Cell(rdIdx, Held + k)
  BY <1>1, <1>4, <1>5, <1>6, WriteCell DEF Held
<1>9. \A p \in 0..(Held - 1) : mem'[Cell(rdIdx, p)] = mem[Cell(rdIdx, p)]
  <2> SUFFICES ASSUME NEW p \in 0..(Held - 1) PROVE mem'[Cell(rdIdx, p)] = mem[Cell(rdIdx, p)]
    OBVIOUS
  <2>1. p \in 0..Depth
    BY <1>5
  <2>2. ASSUME NEW k \in 0..(num[t] - 1) PROVE Cell(rdIdx, p) # Reduced(wrIdx + k)
    <3>1. Held + k \in 0..Depth /\ Held + k # p
      BY <1>1, <1>5, <1>6
    <3> QED BY <1>5, <1>8, <2>1, <3>1, CellsDiffer
  <2>3. Cell(rdIdx, p) \in 0..Depth
    BY <1>5, <2>1, CellInRange
  <2> QED BY <1>7, <2>2, <2>3
<1>10. DataInv'
  <2> SUFFICES ASSUME NEW s \in Task
               PROVE  /\ pc'[s] = "w_add" =>
                           \A k \in 0..(num[s] - 1) : mem'[Cell(rdIdx, Held + k)] = data[s][k]
                      /\ pc'[s] \in Acking =>
                           \A k \in 0..(numToRead[s] - 1) : mem'[Cell(rdIdx, k)] = data[s][k]
    BY <1>1, <1>3, <1>4, <1>5 DEF DataInv, Cell
  <2>1. pc'[s] = "w_add" => \A k \in 0..(num[s] - 1) : mem'[Cell(rdIdx, Held + k)] = data[s][k]
    BY <1>3, <1>7, <1>8
  <2>2. ASSUME pc'[s] \in Acking, NEW k \in 0..(numToRead[s] - 1)
        PROVE  mem'[Cell(rdIdx, k)] = data[s][k]
    <3>1. s # t /\ pc[s] \in Acking
      BY <1>0, <1>1, <1>3, <2>2, AroundFacts DEF Acking, TypeOK
    <3>2. numToRead[s] <= Held /\ numToRead[s] \in Nat
      BY <1>0, <3>1, AroundFacts DEF AInv, RoleInv, PeekInv, Acking, Held, TypeOK
    <3>3. k \in 0..(Held - 1)
      BY <1>5, <3>2
    <3> QED BY <1>0, <1>4, <1>9, <3>1, <3>3 DEF DataInv
  <2> QED BY <2>1, <2>2
<1>11. Queue' = Queue
  <2>1. ~InFlush /\ ~InFlush'
    BY <1>3 DEF InFlush
  <2>2. Queue = InCells /\ Queue' = InCells'
    BY <1>4, <1>10, <2>1, ByteFacts DEF QueueShape
  <2>3. ASSUME NEW i \in 1..Held
        PROVE  ItemAt(mem, Cell(rdIdx, i - 1)) = ItemAt(mem', Cell(rdIdx, i - 1))
    <3> DEFINE p == i - 1
    <3>1. p \in 0..(Held - 1) /\ p \in 0..Depth
      BY <1>5
    <3> HIDE DEF p
    <3>2. mem'[Cell(rdIdx, p)] = mem[Cell(rdIdx, p)]
      BY <1>9, <3>1
    <3>3. Cell(rdIdx, p) \in Nat /\ Bytewise
      BY <1>0, <1>5, <3>1, CellInRange
    <3>4. ItemAt(mem, Cell(rdIdx, p)) = ItemAt(mem', Cell(rdIdx, p))
      BY <3>2, <3>3, ByteItem
    <3> QED BY <3>4 DEF p
  <2>4. InCells' = InCells
    BY <1>4, <1>5, <2>3 DEF InCells, Cell
  <2> QED BY <2>2, <2>4
<1> QED BY <1>1, <1>10, <1>11 DEF AbstractStep, Abstract!vars

LEMMA WriteAddStep ==
  ASSUME ByteAround, NEW t \in Task, WriteAdd(t)
  PROVE  DataInv' /\ AbstractStep
<1>1. /\ pc[t] = "w_add" /\ pc' = [pc EXCEPT ![t] = "w_wrap"]
      /\ UNCHANGED <<mem, num, data, numToRead, result>>
  BY DEF WriteAdd, Goto
<1>2. SameHeld /\ InFlush' = InFlush
  BY ByteFacts, WriteAddHeld
<1>3. DataInv'
  <2>1. \A s \in Task : /\ pc'[s] \in {"w_add", "w_wrap"} => pc[s] \in {"w_add", "w_wrap"}
                        /\ pc'[s] \in Acking => pc[s] \in Acking
    BY <1>1, ByteFacts, AroundFacts DEF TypeOK, Acking
  <2> QED BY <1>1, <1>2, <2>1, ByteFacts DEF DataInv, Cell, SameHeld
<1>4. Queue' = Queue
  BY <1>1, <1>2, SameQueue
<1> QED BY <1>1, <1>3, <1>4 DEF AbstractStep, Abstract!vars

(* The second store of a write puts all its items into the queue. *)
LEMMA WriteWrapStep ==
  ASSUME ByteAround, NEW t \in Task, WriteWrap(t)
  PROVE  DataInv' /\ AbstractStep
<1>1. /\ pc[t] = "w_wrap" /\ pc' = [pc EXCEPT ![t] = "idle"]
      /\ data[t] \in [0..(num[t] * ItemSize - 1) -> Byte]
      /\ mem' = mem
      /\ result' = [result EXCEPT ![t] = Abstract!Written(Items(data[t], num[t]))]
  BY ByteFacts, AroundFacts DEF WriteWrap, Goto, IInv, FrameInv, Writing, Abstract!Written
<1>2. \A s \in Task : pc[s] \in Critical => s = t
  BY <1>1, Alone, ByteFacts DEF Critical
<1>3. \A s \in Task : /\ pc'[s] \notin {"w_add", "w_wrap"}
                      /\ pc'[s] \in Acking =>
                           pc[s] \in Acking /\ numToRead'[s] = numToRead[s] /\ data'[s] = data[s]
  BY <1>1, <1>2, ByteFacts, AroundFacts DEF WriteWrap, Return, Critical, TypeOK, Acking
<1>4. /\ CommittedRd = rdIdx /\ CommittedRd' = rdIdx /\ rdIdx \in 0..Depth
      /\ num[t] \in 1..MaxRequest /\ Held \in 0..Depth
      /\ Held' = Held + num[t] /\ Held + num[t] <= Depth
      /\ PlaceInv' /\ ~InFlush /\ ~InFlush'
  BY WriteWrapHeld, ByteFacts, AroundFacts DEF RangeOK
<1>5. Held' = Held + num[t] /\ Held \in Nat /\ num[t] \in Nat
  BY <1>4
<1>6. DataInv
  BY ByteFacts
<1>7. DataInv'
  <2>1. \A s \in Task : pc'[s] \in Acking =>
          \A k \in 0..(numToRead'[s] - 1) : mem'[Cell(CommittedRd', k)] = data'[s][k]
    <3> SUFFICES ASSUME NEW s \in Task, pc'[s] \in Acking, NEW k \in 0..(numToRead'[s] - 1)
                 PROVE  mem'[Cell(CommittedRd', k)] = data'[s][k]
      OBVIOUS
    <3>1. pc[s] \in Acking /\ numToRead'[s] = numToRead[s] /\ data'[s] = data[s]
      BY <1>3
    <3>2. mem[Cell(CommittedRd, k)] = data[s][k]
      BY <1>6, <3>1 DEF DataInv
    <3>3. Cell(CommittedRd', k) = Cell(CommittedRd, k)
      BY <1>4
    <3> QED BY <1>1, <3>1, <3>2, <3>3
  <2> QED BY <1>3, <2>1 DEF DataInv
<1>8. Queue = InCells /\ Queue' = InCells'
  BY <1>4, <1>7, ByteFacts DEF QueueShape
<1>9. /\ Queue \in Seq(Object) /\ Len(Queue) = Held
      /\ Queue' \in Seq(Object) /\ Len(Queue') = Held + num[t]
  BY <1>4, <1>5, <1>7, <1>8, ByteFacts DEF QueueShape
<1> DEFINE items == Items(data[t], num[t])
<1>10. /\ items \in [1..num[t] -> [0..(ItemSize - 1) -> Byte]]
       /\ \A k \in 0..(num[t] - 1) : items[k + 1] = ItemAt(data[t], k)
  <2>1. \A k \in 0..(num[t] - 1) : data[t][k] \in Byte
    <3>1. num[t] * ItemSize - 1 = num[t] - 1
      BY <1>4, ByteFacts DEF Bytewise
    <3> QED BY <1>1, <3>1
  <2> QED BY <1>4, <2>1, ItemsOfBytes, ByteFacts
<1>11. items \in Seq(Object) /\ Len(items) = num[t]
  <2>1. items \in [1..num[t] -> Object]
    BY <1>10 DEF Object
  <2> HIDE DEF items
  <2> QED BY <1>5, <2>1
<1>12. \A i \in 1..Held : Queue'[i] = Queue[i]
  <2>1. \A i \in 1..(Held + num[t]) : Queue'[i] = ItemAt(mem, Cell(rdIdx, i - 1))
    BY <1>1, <1>4, <1>5, <1>7, <1>8, ByteFacts DEF QueueShape, Cell
  <2>2. \A i \in 1..Held : Queue[i] = ItemAt(mem, Cell(rdIdx, i - 1))
    BY <1>4, <1>8, ByteFacts DEF QueueShape
  <2> QED BY <1>5, <2>1, <2>2
<1>13. ASSUME NEW i \in 1..num[t] PROVE Queue'[Held + i] = items[i]
  <2> DEFINE k == i - 1
  <2>1. k \in 0..(num[t] - 1) /\ k \in Nat /\ Held + i = Held + k + 1 /\ i = k + 1
    BY <1>5
  <2>2. Held + k \in 0..Depth /\ Held + k + 1 \in 1..(Held + num[t])
    BY <1>4, <2>1
  <2>3. rdIdx \in 0..Depth
    BY <1>4
  <2> HIDE DEF k
  <2>4. Queue'[Held + k + 1] = ItemAt(mem, Cell(rdIdx, Held + k))
    <3> DEFINE j == Held + k + 1
    <3>1. j \in 1..Held' /\ j - 1 = Held + k
      BY <1>5, <2>1, <2>2
    <3> HIDE DEF j
    <3>2. Queue'[j] = ItemAt(mem, Cell(rdIdx, j - 1))
      BY <1>1, <1>4, <1>7, <1>8, <3>1, ByteFacts DEF QueueShape, Cell
    <3> QED BY <3>1, <3>2 DEF j
  <2>5. mem[Cell(rdIdx, Held + k)] = data[t][k]
    BY <1>1, <1>4, <1>6, <2>1 DEF DataInv
  <2>6. ItemAt(mem, Cell(rdIdx, Held + k)) = ItemAt(data[t], k)
    <3>1. Cell(rdIdx, Held + k) \in Nat
      <4> DEFINE p == Held + k
      <4>1. p \in 0..Depth
        BY <2>2
      <4> HIDE DEF p
      <4>2. Cell(rdIdx, p) \in Nat
        BY <2>3, <4>1, CellInRange
      <4> QED BY <4>2 DEF p
    <3> QED BY <2>1, <2>5, <3>1, ByteItem, ByteFacts
  <2>7. items[k + 1] = ItemAt(data[t], k)
    BY <1>10, <2>1
  <2> HIDE DEF items
  <2> QED BY <2>1, <2>4, <2>6, <2>7
<1>14. Queue' = Queue \o items
  <2> HIDE DEF items
  <2>1. /\ Queue \o items \in Seq(Object)
        /\ Len(Queue \o items) = Held + num[t]
        /\ \A i \in 1..(Held + num[t]) :
             (Queue \o items)[i] = IF i <= Held THEN Queue[i] ELSE items[i - Held]
    BY <1>9, <1>11, ConcatProperties
  <2>2. ASSUME NEW i \in 1..(Held + num[t]) PROVE Queue'[i] = (Queue \o items)[i]
    <3>1. CASE i <= Held
      BY <1>5, <1>12, <2>1, <3>1
    <3>2. CASE i > Held
      <4> DEFINE m == i - Held
      <4>1. m \in 1..num[t] /\ i = Held + m /\ ~(i <= Held)
        BY <1>5, <3>2
      <4>2. Queue'[Held + m] = items[m]
        BY <1>13, <4>1
      <4> QED BY <2>1, <4>1, <4>2
    <3>3. i <= Held \/ i > Held
      BY <1>5
    <3> QED BY <3>1, <3>2, <3>3
  <2> QED BY <1>9, <2>1, <2>2, SeqEqual
<1>15. Abstract!Put(t)
  <2>1. num[t] \in 1..(Depth - Len(Queue))
    BY <1>4, <1>9
  <2> HIDE DEF items
  <2> QED BY <1>1, <1>10, <1>14, <2>1 DEF Abstract!Put, items
<1> QED BY <1>7, <1>15 DEF AbstractStep, Abstract!Next

(* circRead finds in the buffer of the reader what is at the head of the queue. *)
LEMMA PeekCopyStep ==
  ASSUME ByteAround, NEW t \in Task, PeekCopy(t)
  PROVE  DataInv' /\ AbstractStep
<1> USE DEF Goto
<1>0. Around /\ Bytewise /\ DataInv
  BY ByteFacts
<1>1. /\ pc[t] = "p_copy" /\ pc' = [pc EXCEPT ![t] = "a_lock"]
      /\ num[t] \in 1..MaxRequest /\ data[t] \in Buffer(num[t])
      /\ numToRead[t] \in 1..num[t]
      /\ UNCHANGED <<wrIdx, rdIdx, mem, num, numToRead, result>>
      /\ data' = [data EXCEPT ![t] = CircRead(mem, rdIdx, data[t], numToRead[t])]
  BY <1>0, AroundFacts DEF PeekCopy, IInv, FrameInv, Peeking, TypeOK
<1>2. \A s \in Task : pc[s] \in Critical => s = t
  BY <1>0, <1>1, Alone DEF Critical
<1>3. \A s \in Task : /\ pc[s] \notin {"w_add", "w_wrap", "a_wrap", "f_rd"}
                      /\ pc'[s] \notin {"w_add", "w_wrap", "a_wrap", "f_rd"}
                      /\ s # t => pc'[s] = pc[s] /\ data'[s] = data[s]
  BY <1>0, <1>1, <1>2, AroundFacts DEF Critical, TypeOK
<1>4. SameHeld /\ InFlush' = InFlush /\ CommittedRd = rdIdx
  <2>1. Still
    BY <1>1, <1>3 DEF Still
  <2> QED BY <1>0, <1>3, <2>1, StillHeld, AroundFacts DEF CommittedInv
<1>5. \A k \in 0..(numToRead[t] - 1) : data'[t][k] = mem[Cell(rdIdx, k)]
  <2>1. rdIdx \in 0..Depth /\ Bytewise
    BY <1>0, <1>4, AroundFacts DEF RangeOK
  <2>2. \A k \in 0..(numToRead[t] - 1) :
          CircRead(mem, rdIdx, data[t], numToRead[t])[k] = mem[Cell(rdIdx, k)]
    BY <1>1, <2>1, CircReadBytes
  <2> QED BY <1>0, <1>1, <2>2, AroundFacts DEF TypeOK
<1>6. DataInv'
  <2> SUFFICES ASSUME NEW s \in Task, pc'[s] \in Acking, NEW k \in 0..(numToRead[s] - 1)
               PROVE  mem[Cell(rdIdx, k)] = data'[s][k]
    BY <1>1, <1>3, <1>4 DEF DataInv, Cell, SameHeld
  <2>1. CASE s = t
    BY <1>5, <2>1
  <2>2. CASE s # t
    BY <1>0, <1>3, <1>4, <2>2 DEF DataInv
  <2> QED BY <2>1, <2>2
<1>7. Queue' = Queue
  BY <1>1, <1>4, SameQueue
<1> QED BY <1>1, <1>6, <1>7 DEF AbstractStep, Abstract!vars

LEMMA AckAddStep ==
  ASSUME ByteAround, NEW t \in Task, AckAdd(t)
  PROVE  DataInv' /\ AbstractStep
<1>1. /\ pc[t] = "a_add" /\ pc' = [pc EXCEPT ![t] = "a_wrap"]
      /\ UNCHANGED <<mem, num, data, numToRead, result>>
  BY DEF AckAdd, Goto
<1>2. SameHeld /\ InFlush' = InFlush
  BY ByteFacts, AckAddHeld
<1>3. DataInv'
  <2>1. \A s \in Task : /\ pc'[s] \in {"w_add", "w_wrap"} => pc[s] \in {"w_add", "w_wrap"}
                        /\ pc'[s] \in Acking => pc[s] \in Acking
    BY <1>1, ByteFacts, AroundFacts DEF TypeOK, Acking
  <2> QED BY <1>1, <1>2, <2>1, ByteFacts DEF DataInv, Cell, SameHeld
<1>4. Queue' = Queue
  BY <1>1, <1>2, SameQueue
<1> QED BY <1>1, <1>3, <1>4 DEF AbstractStep, Abstract!vars

(* The second store takes what the reader has peeked off the queue. *)
LEMMA AckWrapStep ==
  ASSUME ByteAround, NEW t \in Task, AckWrap(t)
  PROVE  DataInv' /\ AbstractStep
<1> DEFINE n == numToRead[t]
           rd == CommittedRd
           items == Items(data[t], n)
<1>0. Around /\ Bytewise /\ DataInv
  BY ByteFacts
<1>1. /\ pc[t] = "a_wrap" /\ mem' = mem
      /\ result' = [result EXCEPT ![t] = Abstract!Returned(items)]
  BY DEF AckWrap, Goto, Abstract!Returned
<1>3. \A s \in Task : pc'[s] \notin {"w_add", "w_wrap"} /\ pc'[s] \notin Acking
  BY <1>0, AckWrapHeld
<1>4. DataInv'
  BY <1>3 DEF DataInv
<1>6. /\ PlaceInv' /\ ~InFlush /\ ~InFlush'
      /\ rd \in 0..Depth /\ n <= Held /\ Held \in 0..Depth
      /\ n \in 1..MaxRequest /\ n \in 0..Depth
  BY <1>0, AckWrapHeld
<1>7. CommittedRd' = Reduced(rd + n) /\ Held' = Held - n
  BY <1>0, AckWrapHeld
<1>8. Queue = InCells /\ Queue' = InCells'
  BY <1>4, <1>6, ByteFacts DEF QueueShape
<1>9. /\ Queue \in Seq(Object) /\ Len(Queue) = Held
      /\ Queue' \in Seq(Object) /\ Len(Queue') = Held - n
  BY <1>4, <1>6, <1>7, <1>8, ByteFacts DEF QueueShape
<1>10. \A p \in 0..(Held - 1) : Queue[p + 1] = ItemAt(mem, Cell(rd, p))
  <2> SUFFICES ASSUME NEW p \in 0..(Held - 1) PROVE Queue[p + 1] = ItemAt(mem, Cell(rd, p))
    OBVIOUS
  <2> DEFINE i == p + 1
  <2>1. i \in 1..Held /\ i - 1 = p
    BY <1>6
  <2> HIDE DEF i
  <2>2. Queue[i] = ItemAt(mem, Cell(CommittedRd, i - 1))
    BY <1>8, <2>1, ByteFacts DEF QueueShape
  <2> QED BY <2>1, <2>2 DEF i
<1>11. \A p \in 0..(Held - n - 1) : Queue'[p + 1] = ItemAt(mem, Cell(rd, n + p))
  <2> SUFFICES ASSUME NEW p \in 0..(Held - n - 1)
               PROVE  Queue'[p + 1] = ItemAt(mem, Cell(rd, n + p))
    OBVIOUS
  <2> DEFINE i == p + 1
  <2>1. i \in 1..(Held - n) /\ i - 1 = p /\ p \in Nat /\ n + p <= Depth
    BY <1>6
  <2> HIDE DEF i
  <2>2. Queue'[i] = ItemAt(mem', Cell(CommittedRd, i - 1)')
    BY <1>4, <1>6, <1>7, <1>8, <2>1, ByteFacts DEF QueueShape
  <2>3. Cell(CommittedRd, i - 1)' = Cell(CommittedRd', p)
    BY <2>1 DEF Cell
  <2>4. Cell(CommittedRd', p) = Cell(rd, n + p)
    <3> HIDE DEF rd, n
    <3>1. Cell(Reduced(rd + n), p) = Cell(rd, n + p)
      <4>1. rd \in 0..Depth /\ n \in 0..Depth /\ p \in Nat /\ n + p <= Depth
        BY <1>6, <2>1
      <4> QED BY ONLY <4>1, ReadCell
    <3> QED BY <1>7, <3>1
  <2> QED BY <1>1, <2>2, <2>3, <2>4 DEF i
<1>12. \A k \in 0..(n - 1) : items[k + 1] = Queue[k + 1]
  <2> SUFFICES ASSUME NEW k \in 0..(n - 1) PROVE items[k + 1] = Queue[k + 1]
    OBVIOUS
  <2>1. k \in 0..(Held - 1) /\ k \in 0..Depth
    BY <1>6
  <2>2. items[k + 1] = ItemAt(data[t], k)
    <3> DEFINE j == k + 1
    <3>1. j \in 1..n /\ j - 1 = k
      BY <1>6
    <3> HIDE DEF j
    <3> QED BY <3>1 DEF Items, j
  <2>3. mem[Cell(rd, k)] = data[t][k]
    BY <1>0, <1>1 DEF DataInv, Acking
  <2>4. Cell(rd, k) \in Nat
    <3>1. rd \in 0..Depth
      BY <1>6
    <3> HIDE DEF rd, n
    <3>2. Cell(rd, k) \in 0..Depth
      BY ONLY <2>1, <3>1, CellInRange
    <3> QED BY <3>2
  <2>5. ItemAt(mem, Cell(rd, k)) = ItemAt(data[t], k)
    <3> HIDE DEF rd
    <3> QED BY <2>3, <2>4, ByteItem, <1>0
  <2> QED BY <1>10, <2>1, <2>2, <2>5
<1>13. Queue' = SubSeq(Queue, n + 1, Len(Queue))
  <2> HIDE DEF n, rd
  <2>1. /\ SubSeq(Queue, n + 1, Held) \in Seq(Object)
        /\ Len(SubSeq(Queue, n + 1, Held)) = Held - n
        /\ \A i \in 1..(Held - n) : SubSeq(Queue, n + 1, Held)[i] = Queue[n + i]
    BY <1>6, <1>9, SubSeqProperties
  <2>2. ASSUME NEW i \in 1..(Held - n) PROVE Queue'[i] = SubSeq(Queue, n + 1, Held)[i]
    <3> DEFINE p == i - 1
    <3>1. p \in 0..(Held - n - 1) /\ p + 1 = i /\ n + p \in 0..(Held - 1) /\ n + p + 1 = n + i
      BY <1>6
    <3> HIDE DEF p
    <3>2. Queue'[i] = ItemAt(mem, Cell(rd, n + p)) /\ Queue[n + i] = ItemAt(mem, Cell(rd, n + p))
      BY <1>10, <1>11, <3>1
    <3> QED BY <2>1, <3>2
  <2> QED BY <1>9, <2>1, <2>2, SeqEqual
<1>14. items = SubSeq(Queue, 1, n)
  <2> DEFINE B == {data[t][k] : k \in 0..(n - 1)}
  <2>1. items \in [1..n -> [0..(ItemSize - 1) -> B]]
    <3>1. \A k \in 0..(n - 1) : data[t][k] \in B
      OBVIOUS
    <3> HIDE DEF B
    <3> QED BY <1>1, <3>1, ItemsOfBytes, <1>0, <1>6
  <2> HIDE DEF n, items, B
  <2>2. /\ SubSeq(Queue, 1, n) \in Seq(Object)
        /\ Len(SubSeq(Queue, 1, n)) = n
        /\ \A i \in 1..n : SubSeq(Queue, 1, n)[i] = Queue[i]
    BY <1>6, <1>9, SubSeqProperties
  <2>3. ASSUME NEW i \in 1..n PROVE items[i] = SubSeq(Queue, 1, n)[i]
    <3> DEFINE k == i - 1
    <3>1. k \in 0..(n - 1) /\ k + 1 = i
      BY <1>6
    <3> HIDE DEF k
    <3> QED BY <1>12, <2>2, <3>1
  <2>4. items \in Seq([0..(ItemSize - 1) -> B]) /\ Len(items) = n
    BY <1>6, <2>1
  <2> QED BY <2>2, <2>3, <2>4, SeqEqual
<1>15. Abstract!Take(t)
  <2>1. n \in 0..Len(Queue)
    BY <1>6, <1>9
  <2> HIDE DEF n, items
  <2> QED BY <1>1, <1>13, <1>14, <2>1 DEF Abstract!Take
<1> QED BY <1>4, <1>15 DEF AbstractStep, Abstract!Next

(* The first store of a flush empties the queue ... *)
LEMMA FlushWrStep ==
  ASSUME ByteAround, NEW t \in Task, FlushWr(t)
  PROVE  DataInv' /\ AbstractStep
<1>1. PlaceInv' /\ InFlush' /\ DataInv'
  BY ByteFacts, FlushWrHeld DEF DataInv
<1>2. Queue' = << >> /\ result' = result
  BY <1>1, ByteFacts DEF QueueShape, FlushWr
<1> QED BY <1>1, <1>2 DEF AbstractStep, Abstract!Next, Abstract!Clear

(* ... and the second one leaves it empty. *)
LEMMA FlushRdStep ==
  ASSUME ByteAround, NEW t \in Task, FlushRd(t)
  PROVE  DataInv' /\ AbstractStep
<1>1. PlaceInv' /\ InFlush /\ ~InFlush' /\ DataInv' /\ Held' = 0
  BY ByteFacts, FlushRdHeld DEF DataInv
<1>2. Len(InCells') = 0 /\ InCells' \in Seq(Object)
  BY <1>1, ByteFacts DEF QueueShape
<1>3. Queue = << >> /\ Queue' = << >> /\ result' = result
  BY <1>1, <1>2, ByteFacts DEF QueueShape, FlushRd
<1> QED BY <1>1, <1>3 DEF AbstractStep, Abstract!vars

(* A write that does not fit is refused by the queue too. *)
LEMMA WriteRefuseStep ==
  ASSUME ByteAround, NEW t \in Task, WriteRefuse(t)
  PROVE  DataInv' /\ AbstractStep
<1> USE DEF Goto
<1>0. Around
  BY ByteFacts
<1>1. /\ pc[t] = "w_copy" /\ pc' = [pc EXCEPT ![t] = "idle"] /\ Avail < num[t]
      /\ num[t] \in 1..MaxRequest
      /\ UNCHANGED <<wrIdx, rdIdx, mem>>
      /\ result' = [result EXCEPT ![t] = Abstract!Refused(num[t])]
  BY <1>0, AroundFacts DEF WriteRefuse, IInv, FrameInv, Writing, Abstract!Refused
<1>2. \A s \in Task : pc[s] \in Critical => s = t
  BY <1>0, <1>1, Alone DEF Critical
<1>3. Quiet
  BY <1>0, AroundFacts DEF WriteRefuse, Return, Quiet, Still, TypeOK, Acking
<1>4. DataInv' /\ Queue' = Queue
  BY <1>3, QuietKeeps
<1>5. \A s \in Task : pc[s] \notin {"w_wrap", "a_wrap", "f_rd"}
  BY <1>1, <1>2 DEF Critical
<1>6. Held = Count /\ Held \in 0..Depth
  BY <1>0, <1>5, AroundFacts DEF CommittedInv, Held, Count, RangeOK
<1>7. Avail = Depth - Held
  BY <1>6, SmallMod DEF Avail
<1>8. Len(Queue) = Held
  BY <1>5, ByteFacts DEF QueueShape, InFlush
<1>9. Abstract!Refuse(t)
  <2>1. num[t] \in 1..Depth /\ Len(Queue) + num[t] > Depth
    BY <1>1, <1>6, <1>7, <1>8
  <2> QED BY <1>1, <1>4, <2>1 DEF Abstract!Refuse
<1> QED BY <1>4, <1>9 DEF AbstractStep, Abstract!Next

(* A peek that finds nothing takes nothing. *)
LEMMA PeekNothingStep ==
  ASSUME ByteAround, NEW t \in Task, PeekNothing(t)
  PROVE  DataInv' /\ AbstractStep
<1> USE DEF Goto
<1>0. Around
  BY ByteFacts
<1>1. /\ pc[t] = "p_copy" /\ pc' = [pc EXCEPT ![t] = "idle"]
      /\ result' = [result EXCEPT ![t] = Abstract!Returned(<< >>)]
  BY DEF PeekNothing, Abstract!Returned
<1>2. Quiet
  BY <1>0, AroundFacts DEF PeekNothing, Return, Quiet, Still, TypeOK, Acking
<1>3. DataInv' /\ Queue' = Queue
  BY <1>2, QuietKeeps
<1>4. Queue \in Seq(Object)
  <2>1. << >> \in Seq(Object)
    OBVIOUS
  <2> QED BY <2>1, ByteFacts DEF QueueShape
<1>5. 0 \in 0..Len(Queue) /\ SubSeq(Queue, 0 + 1, Len(Queue)) = Queue /\ SubSeq(Queue, 1, 0) = << >>
  <2>1. 0 \in 0..Len(Queue) /\ 0 + 1 = 1
    BY <1>4, LenProperties
  <2>2. SubSeq(Queue, 1, Len(Queue)) = Queue
    BY <1>4, SubSeqFull
  <2>3. SubSeq(Queue, 1, 0) = << >>
    BY <1>4, SubSeqEmpty
  <2> QED BY <2>1, <2>2, <2>3
<1>6. Abstract!Take(t)
  BY <1>1, <1>3, <1>5 DEF Abstract!Take
<1> QED BY <1>3, <1>6 DEF AbstractStep, Abstract!Next

(* Every step of the fifo is a step of the bounded queue, or one that leaves *)
(* it alone.                                                                 *)
LEMMA NextAbstract ==
  ASSUME ByteAround, [Next]_vars
  PROVE  DataInv' /\ AbstractStep
<1> USE DEF Goto
<1>0. Around
  BY ByteFacts
<1>1. ASSUME NEW t \in Task, WriteCall(t) PROVE DataInv' /\ AbstractStep
  <2>1. Quiet
    BY <1>1, <1>0, AroundFacts DEF WriteCall, Quiet, Still, TypeOK, Acking
  <2>2. DataInv' /\ Queue' = Queue
    BY <2>1, QuietKeeps
  <2>3. Abstract!Call(t)
    BY <1>1, <2>2 DEF WriteCall, Abstract!Call
  <2> QED BY <2>2, <2>3 DEF AbstractStep, Abstract!Next
<1>2. ASSUME NEW t \in Task, WriteLock(t) PROVE DataInv' /\ AbstractStep
  <2>1. Quiet /\ result' = result
    BY <1>2, <1>0, AroundFacts DEF WriteLock, Quiet, Still, TypeOK, Acking, locals
  <2> QED BY <2>1, QuietStep
<1>7. ASSUME NEW t \in Task, ReadCall(t) PROVE DataInv' /\ AbstractStep
  <2>1. Quiet
    BY <1>7, <1>0, AroundFacts DEF ReadCall, Quiet, Still, TypeOK, Acking
  <2>2. DataInv' /\ Queue' = Queue
    BY <2>1, QuietKeeps
  <2>3. Abstract!Call(t)
    BY <1>7, <2>2 DEF ReadCall, Abstract!Call
  <2> QED BY <2>2, <2>3 DEF AbstractStep, Abstract!Next
<1>8. ASSUME NEW t \in Task, PeekLock(t) PROVE DataInv' /\ AbstractStep
  <2>1. Quiet /\ result' = result
    BY <1>8, <1>0, AroundFacts DEF PeekLock, Quiet, Still, TypeOK, Acking, locals
  <2> QED BY <2>1, QuietStep
<1>11. ASSUME NEW t \in Task, AckLock(t) PROVE DataInv' /\ AbstractStep
  <2>1. Quiet /\ result' = result
    BY <1>11, <1>0, AroundFacts DEF AckLock, Quiet, Still, TypeOK, Acking, locals
  <2> QED BY <2>1, QuietStep
<1>14. ASSUME NEW t \in Task, FlushLock(t) PROVE DataInv' /\ AbstractStep
  <2>1. Quiet /\ result' = result
    BY <1>14, <1>0, AroundFacts DEF FlushLock, Quiet, Still, TypeOK, Acking, locals
  <2> QED BY <2>1, QuietStep
<1>17. ASSUME NEW t \in Task, AskLock(t) PROVE DataInv' /\ AbstractStep
  <2>1. Quiet /\ result' = result
    BY <1>17, <1>0, AroundFacts DEF AskLock, Quiet, Still, TypeOK, Acking, locals
  <2> QED BY <2>1, QuietStep
<1>18. ASSUME NEW t \in Task, AskGet(t) PROVE DataInv' /\ AbstractStep
  <2>1. Quiet /\ result' = result
    BY <1>18, <1>0, AroundFacts DEF AskGet, Quiet, Still, TypeOK, Acking, locals
  <2> QED BY <2>1, QuietStep
<1>19. CASE UNCHANGED vars
  <2>1. Quiet /\ result' = result
    BY <1>19 DEF vars, Quiet, Still
  <2> QED BY <2>1, QuietStep
<1> QED
  BY <1>1, <1>2, <1>7, <1>8, <1>11, <1>14, <1>17, <1>18, <1>19,
     WriteRefuseStep, WriteCopyStep, WriteAddStep, WriteWrapStep, PeekNothingStep, PeekCopyStep, AckAddStep, AckWrapStep, FlushWrStep, FlushRdStep
  DEF Next, Call, Step, WriteStep, ReadStep, FlushStep

LEMMA InitFifoInv == Init => FifoInv /\ Abstract!Init
<1> SUFFICES ASSUME Init PROVE FifoInv /\ Abstract!Init
  OBVIOUS
<1>1. AInv
  BY InitIInv DEF AInv, Init, SpaceInv, PeekInv, RoleInv, Peeking, Acking, Task
<1>2. PlaceInv /\ DataInv
  BY DEF Init, PlaceInv, DataInv, Acking
<1>3. Queue = << >>
  <2>1. CommittedWr = 0 /\ CommittedRd = 0 /\ \A t \in Task : pc[t] # "f_rd"
    BY DEF Init, CommittedWr, CommittedRd
  <2>2. CountOf(0, 0) = 0
    BY DEF CountOf
  <2> QED BY <2>1, <2>2 DEF Queue
<1> QED BY <1>1, <1>2, <1>3 DEF FifoInv, HeldInv, Init, Abstract!Init

(* SwFifo.ImplementsFifo for every depth, any number of writers and one task *)
(* that reads and flushes, on items of a byte as Cobs_deframer_init asks for: *)
(* every run of SwFifo_write, SwFifo_read and SwFifo_flush, which read and    *)
(* write the indices and the memory in several steps, is a run of a bounded   *)
(* queue whose calls take effect at one instant.  No byte is lost, repeated,  *)
(* reordered or torn.                                                         *)
THEOREM FifoImplemented == Guarded /\ SoleReader /\ Bytewise => (Spec => ImplementsFifo)
<1> SUFFICES ASSUME Guarded, SoleReader, Bytewise PROVE Spec => ImplementsFifo
  OBVIOUS
<1>1. Init => FifoInv /\ Abstract!Init
  BY InitFifoInv
<1>2. FifoInv /\ [Next]_vars => FifoInv' /\ [Abstract!Next]_(Abstract!vars)
  <2> SUFFICES ASSUME FifoInv, [Next]_vars PROVE FifoInv' /\ AbstractStep
    BY DEF AbstractStep
  <2>1. Around /\ HeldInv'
    BY NextHeldInv DEF FifoInv
  <2> QED BY <2>1, NextAbstract DEF ByteAround, FifoInv
<1> QED BY <1>1, <1>2, PTL DEF Spec, ImplementsFifo, Abstract!Spec
=============================================================================
