------------------------------- MODULE SwFifo -------------------------------
(***************************************************************************)
(* The software fifo of SwFifo/src/SwFifo.c: a circular memory of Depth+1  *)
(* cells with a write and a read index, shared by tasks under a mutex.     *)
(*                                                                         *)
(* A step of a task is what it does between two points where another task  *)
(* can run: the mutex is taken in a step of its own; the code under it is  *)
(* split at every store that code running outside the mutex can see.  That *)
(* code exists: SwFifo_peek computes how much to read before it locks, and *)
(* SwFifo_read is a peek and an ack with the mutex released in between.    *)
(***************************************************************************)
EXTENDS Integers, Sequences

CONSTANTS
  Writers,     \* tasks that call SwFifo_write
  Readers,     \* tasks that call SwFifo_read
  Flushers,    \* tasks that call SwFifo_flush
  Askers,      \* tasks that call SwFifo_getAvail or SwFifo_getCount
  Depth,       \* the "depth" argument of SwFifo_init
  ItemSize,    \* the "itemSize" argument, in bytes
  Byte,        \* the byte values callers store
  MaxRequest,  \* bound: the largest "num" a caller passes
  Modulus,     \* 2^32: uint32_t arithmetic wraps at this value
  ThreadSafe,  \* the "threadsafe" argument of SwFifo_init
  NoTask,      \* the mutex is free
  NoByte,      \* a byte of memory nobody has written yet
  NoResult     \* a task that is inside a call, or has made none

Task == Writers \cup Readers \cup Flushers \cup Askers

ASSUME DepthAssumption ==
  /\ Depth \in Nat \ {0}
  /\ MaxRequest \in 1..Depth
  /\ Modulus \in Nat
  /\ 2 * Depth + 1 < Modulus

ASSUME ItemAssumption == ItemSize \in Nat \ {0} /\ NoByte \notin Byte

ASSUME TaskAssumption ==
  /\ NoTask \notin Task
  /\ ThreadSafe \in BOOLEAN

VARIABLES
  wrIdx, rdIdx,  \* SwFifo.wrIdx, SwFifo.rdIdx
  mem,           \* SwFifo.mem, by byte address
  lock,          \* the holder of SwFifo.lock
  pc,            \* pc[t]: where task t is in its call
  num,           \* num[t]: the argument num of the call
  data,          \* data[t]: the caller's buffer, by byte offset
  numToRead,     \* numToRead[t]: the local of SwFifo_peek
  seen,          \* seen[t]: what is left of the last count or space t asked for
  result         \* result[t]: what the last write or read returned, outside of calls

index  == <<wrIdx, rdIdx>>
locals == <<num, data, numToRead>>
vars   == <<wrIdx, rdIdx, mem, lock, pc, num, data, numToRead, seen, result>>

-----------------------------------------------------------------------------
(* The macros of the source, on given values of the indices. *)

CountOf(wr, rd) ==
  IF wr >= rd THEN (wr - rd) % Modulus ELSE ((Depth - rd) + wr + 1) % Modulus

Count   == CountOf(wrIdx, rdIdx)
IsEmpty == wrIdx = rdIdx

(* Mutant: the spare cell is offered to writers too. *)
Mut_Avail == (Depth + 1 - Count) % Modulus

Avail == (Depth - Count) % Modulus

(* Mutant: the index wraps one cell too late. *)
Mut_Reduced(idx) == IF idx > Depth + 1 THEN idx - (Depth + 1) ELSE idx

Reduced(idx) == IF idx > Depth THEN idx - (Depth + 1) ELSE idx

Least(a, b) == IF a < b THEN a ELSE b

(* memcpy of n bytes from src at offset soff to dst at offset doff. *)
Memcpy(dst, doff, src, soff, n) ==
  [b \in DOMAIN dst |-> IF b \in doff..(doff + n - 1) THEN src[b - doff + soff] ELSE dst[b]]

(* Mutant: the part after the wrap is copied from the start of the buffer. *)
Mut_CircWrite(m, wr, src, n) ==
  LET numToWrap == Depth - wr + 1
  IN IF wr + n > Depth
     THEN Memcpy(Memcpy(m, wr * ItemSize, src, 0, numToWrap * ItemSize),
                 0, src, 0, (n - numToWrap) * ItemSize)
     ELSE Memcpy(m, wr * ItemSize, src, 0, n * ItemSize)

(* The part of the caller's buffer after the wrap starts numToWrap bytes  *)
(* (not items) into it: the code adds numToWrap to a pointer to void.      *)
CircWrite(m, wr, src, n) ==
  LET numToWrap == Depth - wr + 1
  IN IF wr + n > Depth
     THEN Memcpy(Memcpy(m, wr * ItemSize, src, 0, numToWrap * ItemSize),
                 0, src, numToWrap, (n - numToWrap) * ItemSize)
     ELSE Memcpy(m, wr * ItemSize, src, 0, n * ItemSize)

CircRead(m, rd, dst, n) ==
  LET numToWrap == Depth - rd + 1
  IN IF rd + n > Depth
     THEN Memcpy(Memcpy(dst, 0, m, rd * ItemSize, numToWrap * ItemSize),
                 numToWrap, m, 0, (n - numToWrap) * ItemSize)
     ELSE Memcpy(dst, 0, m, rd * ItemSize, n * ItemSize)

Buffer(n) == [0..(n * ItemSize - 1) -> Byte \cup {NoByte}]
Blank(n)  == [b \in 0..(n * ItemSize - 1) |-> NoByte]

(* The objects in a buffer of bytes, as the caller understands it. *)
ItemAt(buf, i) == [b \in 0..(ItemSize - 1) |-> buf[i * ItemSize + b]]
Items(buf, n)  == [i \in 1..n |-> ItemAt(buf, i - 1)]

-----------------------------------------------------------------------------
(* SwFifo_init. *)
Init ==
  /\ wrIdx = 0
  /\ rdIdx = 0
  /\ mem = Blank(Depth + 1)
  /\ lock = NoTask
  /\ pc = [t \in Task |-> "idle"]
  /\ num = [t \in Task |-> 0]
  /\ data = [t \in Task |-> << >>]
  /\ numToRead = [t \in Task |-> 0]
  /\ seen = [t \in Task |-> 0]
  /\ result = [t \in Task |-> NoResult]

Goto(t, from, to) == pc[t] = from /\ pc' = [pc EXCEPT ![t] = to]

(* The macros lock and unlock: nothing happens unless threadsafe. *)
Lock(t)   == IF ThreadSafe THEN lock = NoTask /\ lock' = t ELSE UNCHANGED lock
Unlock(t) == lock' = IF ThreadSafe THEN NoTask ELSE lock

(* The call returns: its frame is gone. *)
Return(t) ==
  /\ num' = [num EXCEPT ![t] = 0]
  /\ data' = [data EXCEPT ![t] = << >>]
  /\ numToRead' = [numToRead EXCEPT ![t] = 0]

-----------------------------------------------------------------------------
(* SwFifo_write *)

WriteCall(t) ==
  /\ t \in Writers
  /\ Goto(t, "idle", "w_lock")
  /\ \E n \in 1..MaxRequest : \E src \in [0..(n * ItemSize - 1) -> Byte] :
       /\ num' = [num EXCEPT ![t] = n]
       /\ data' = [data EXCEPT ![t] = src]
  /\ result' = [result EXCEPT ![t] = NoResult]
  /\ UNCHANGED <<wrIdx, rdIdx, mem, lock, numToRead, seen>>

WriteLock(t) ==
  /\ Goto(t, "w_lock", "w_copy")
  /\ Lock(t)
  /\ UNCHANGED <<wrIdx, rdIdx, mem, num, data, numToRead, seen, result>>

(* Mutant: a write that would fill the fifo exactly is refused. *)
Mut_WriteRefuse_exact(t) ==
  /\ Goto(t, "w_copy", "idle")
  /\ Avail <= num[t]
  /\ Unlock(t)
  /\ Return(t)
  /\ result' = [result EXCEPT ![t] = [op |-> "refused", num |-> num[t]]]
  /\ seen' = [seen EXCEPT ![t] = 0]
  /\ UNCHANGED <<wrIdx, rdIdx, mem>>

(* Mutant: the early return keeps the mutex. *)
Mut_WriteRefuse_locked(t) ==
  /\ Goto(t, "w_copy", "idle")
  /\ Avail < num[t]
  /\ Return(t)
  /\ result' = [result EXCEPT ![t] = [op |-> "refused", num |-> num[t]]]
  /\ seen' = [seen EXCEPT ![t] = 0]
  /\ UNCHANGED <<wrIdx, rdIdx, mem, lock>>

WriteRefuse(t) ==
  /\ Goto(t, "w_copy", "idle")
  /\ Avail < num[t]
  /\ Unlock(t)
  /\ Return(t)
  /\ result' = [result EXCEPT ![t] = [op |-> "refused", num |-> num[t]]]
  /\ seen' = [seen EXCEPT ![t] = 0]
  /\ UNCHANGED <<wrIdx, rdIdx, mem>>

WriteCopy(t) ==
  /\ Goto(t, "w_copy", "w_add")
  /\ Avail >= num[t]
  /\ mem' = CircWrite(mem, wrIdx, data[t], num[t])
  /\ UNCHANGED <<wrIdx, rdIdx, lock, num, data, numToRead, seen, result>>

(* inc_wrIdx stores the sum first and the reduced sum next. *)
WriteAdd(t) ==
  /\ Goto(t, "w_add", "w_wrap")
  /\ wrIdx' = (wrIdx + num[t]) % Modulus
  /\ UNCHANGED <<rdIdx, mem, lock, num, data, numToRead, seen, result>>

WriteWrap(t) ==
  /\ Goto(t, "w_wrap", "idle")
  /\ wrIdx' = Reduced(wrIdx)
  /\ Unlock(t)
  /\ Return(t)
  /\ result' = [result EXCEPT ![t] = [op |-> "write", items |-> Items(data[t], num[t])]]
  /\ seen' = [seen EXCEPT ![t] = IF @ > num[t] THEN @ - num[t] ELSE 0]
  /\ UNCHANGED <<rdIdx, mem>>

-----------------------------------------------------------------------------
(* SwFifo_read: SwFifo_peek, then SwFifo_ack of what was peeked *)

(* numToRead = MIN(num, count(fifo)) is evaluated before the lock is taken,  *)
(* and each index is loaded once, as a build that optimises does.            *)
ReadCall(t) ==
  /\ t \in Readers
  /\ Goto(t, "idle", "p_lock")
  /\ \E n \in 1..MaxRequest :
       /\ num' = [num EXCEPT ![t] = n]
       /\ data' = [data EXCEPT ![t] = Blank(n)]
       /\ numToRead' = [numToRead EXCEPT ![t] = Least(n, Count)]
  /\ result' = [result EXCEPT ![t] = NoResult]
  /\ UNCHANGED <<wrIdx, rdIdx, mem, lock, seen>>

PeekLock(t) ==
  /\ Goto(t, "p_lock", "p_copy")
  /\ Lock(t)
  /\ UNCHANGED <<wrIdx, rdIdx, mem, num, data, numToRead, seen, result>>

(* The peek returns 0 (it found the fifo empty, or had counted 0 items before *)
(* it locked), and so does the read: there is nothing to acknowledge.         *)
PeekNothing(t) ==
  /\ Goto(t, "p_copy", "idle")
  /\ IsEmpty \/ numToRead[t] = 0
  /\ Unlock(t)
  /\ Return(t)
  /\ result' = [result EXCEPT ![t] = [op |-> "read", items |-> << >>]]
  /\ seen' = [seen EXCEPT ![t] = 0]
  /\ UNCHANGED <<wrIdx, rdIdx, mem>>

PeekCopy(t) ==
  /\ Goto(t, "p_copy", "a_lock")
  /\ ~IsEmpty
  /\ numToRead[t] > 0
  /\ data' = [data EXCEPT ![t] = CircRead(mem, rdIdx, @, numToRead[t])]
  /\ Unlock(t)
  /\ UNCHANGED <<wrIdx, rdIdx, mem, num, numToRead, seen, result>>

AckLock(t) ==
  /\ Goto(t, "a_lock", "a_add")
  /\ Lock(t)
  /\ UNCHANGED <<wrIdx, rdIdx, mem, num, data, numToRead, seen, result>>

AckAdd(t) ==
  /\ Goto(t, "a_add", "a_wrap")
  /\ rdIdx' = (rdIdx + numToRead[t]) % Modulus
  /\ UNCHANGED <<wrIdx, mem, lock, num, data, numToRead, seen, result>>

AckWrap(t) ==
  /\ Goto(t, "a_wrap", "idle")
  /\ rdIdx' = Reduced(rdIdx)
  /\ Unlock(t)
  /\ Return(t)
  /\ result' = [result EXCEPT
        ![t] = [op |-> "read", items |-> Items(data[t], numToRead[t])]]
  /\ seen' = [seen EXCEPT ![t] = IF @ > numToRead[t] THEN @ - numToRead[t] ELSE 0]
  /\ UNCHANGED <<wrIdx, mem>>

-----------------------------------------------------------------------------
(* SwFifo_flush *)

FlushLock(t) ==
  /\ t \in Flushers
  /\ Goto(t, "idle", "f_wr")
  /\ Lock(t)
  /\ UNCHANGED <<wrIdx, rdIdx, mem, locals, seen, result>>

FlushWr(t) ==
  /\ Goto(t, "f_wr", "f_rd")
  /\ wrIdx' = 0
  /\ UNCHANGED <<rdIdx, mem, lock, locals, seen, result>>

(* Mutant: a flush leaves the read index where it was. *)
Mut_FlushRd(t) ==
  /\ Goto(t, "f_rd", "idle")
  /\ Unlock(t)
  /\ seen' = [seen EXCEPT ![t] = 0]
  /\ UNCHANGED <<wrIdx, rdIdx, mem, locals, result>>

FlushRd(t) ==
  /\ Goto(t, "f_rd", "idle")
  /\ rdIdx' = 0
  /\ Unlock(t)
  /\ seen' = [seen EXCEPT ![t] = 0]
  /\ UNCHANGED <<wrIdx, mem, locals, result>>

-----------------------------------------------------------------------------
(* SwFifo_getAvail by a writer, SwFifo_getCount by a reader.  The caller *)
(* keeps the answer and subtracts what it then writes or reads, as the   *)
(* loops of Cobs_deframer do.                                            *)

AskLock(t) ==
  /\ t \in Askers
  /\ Goto(t, "idle", "q_get")
  /\ Lock(t)
  /\ UNCHANGED <<wrIdx, rdIdx, mem, locals, seen, result>>

AskGet(t) ==
  /\ Goto(t, "q_get", "idle")
  /\ seen' = [seen EXCEPT ![t] = IF t \in Writers THEN Avail ELSE Count]
  /\ Unlock(t)
  /\ UNCHANGED <<wrIdx, rdIdx, mem, locals, result>>

-----------------------------------------------------------------------------

WriteStep(t) == WriteLock(t) \/ WriteRefuse(t) \/ WriteCopy(t) \/ WriteAdd(t) \/ WriteWrap(t)
ReadStep(t)  == PeekLock(t) \/ PeekNothing(t) \/ PeekCopy(t)
                \/ AckLock(t) \/ AckAdd(t) \/ AckWrap(t)
FlushStep(t) == FlushWr(t) \/ FlushRd(t)

Call(t) == WriteCall(t) \/ ReadCall(t) \/ FlushLock(t) \/ AskLock(t)
Step(t) == WriteStep(t) \/ ReadStep(t) \/ FlushStep(t) \/ AskGet(t)

Next == \E t \in Task : Call(t) \/ Step(t)

Spec == Init /\ [][Next]_vars

(* A task that is inside a call keeps running, and the waiters of the mutex *)
(* are served in the order they came (tasks of equal priority), so one that *)
(* finds it free again and again gets it.                                   *)
Fairness == \A t \in Task : SF_vars(Step(t))

FairSpec == Spec /\ Fairness

-----------------------------------------------------------------------------
(* What the fifo holds. While a store to an index is half done (the sum is  *)
(* stored and not yet reduced) the call has not taken effect; a flush takes *)
(* effect when it resets the write index.                                   *)

CommittedWr == IF \E t \in Task : pc[t] = "w_wrap"
               THEN wrIdx - num[CHOOSE t \in Task : pc[t] = "w_wrap"]
               ELSE wrIdx

CommittedRd == IF \E t \in Task : pc[t] = "a_wrap"
               THEN rdIdx - numToRead[CHOOSE t \in Task : pc[t] = "a_wrap"]
               ELSE rdIdx

Queue ==
  IF \E t \in Task : pc[t] = "f_rd"
  THEN << >>
  ELSE [i \in 1..CountOf(CommittedWr, CommittedRd) |->
          ItemAt(mem, (CommittedRd + i - 1) % (Depth + 1))]

Abstract == INSTANCE BoundedFifo
              WITH Item <- [0..(ItemSize - 1) -> Byte], queue <- Queue

(* Every concurrent run of the fifo is a run of a bounded queue whose calls  *)
(* take effect at one instant: no item is lost, duplicated, reordered or     *)
(* torn (SwFifo_write, SwFifo_read, SwFifo_flush).                           *)
ImplementsFifo == Abstract!Spec

InCall == {"w_lock", "w_copy", "w_add", "w_wrap",
           "p_lock", "p_copy", "a_lock", "a_add", "a_wrap", "f_wr", "f_rd", "q_get"}

(* The fields of SwFifo and the locals of its functions have their types: an *)
(* index leaves 0..Depth only between the two stores of its increment and    *)
(* then stays below 2*Depth, so no address is ever out of the memory.        *)
TypeOK ==
  /\ wrIdx \in 0..(2 * Depth)
  /\ rdIdx \in 0..(2 * Depth)
  /\ mem \in Buffer(Depth + 1)
  /\ lock \in Task \cup {NoTask}
  /\ pc \in [Task -> InCall \cup {"idle"}]
  /\ num \in [Task -> 0..MaxRequest]
  /\ DOMAIN data = Task
  /\ \A t \in Task : pc[t] # "idle" /\ num[t] > 0 => data[t] \in Buffer(num[t])
  /\ numToRead \in [Task -> 0..MaxRequest]
  /\ seen \in [Task -> 0..Depth]

(* An ack never moves the read index past the write index: the items it      *)
(* removes were written (SwFifo_ack, which has no check of its own).         *)
AckWithinCount ==
  \A t \in Readers : pc[t] \in {"a_lock", "a_add", "a_wrap"} =>
    numToRead[t] <= CountOf(CommittedWr, CommittedRd)

(* What a sole writer or reader was told by SwFifo_getAvail or               *)
(* SwFifo_getCount stays true until it acts: SwFifo_write does not refuse    *)
(* what fits in the space, and SwFifo_read returns as many items as it asked *)
(* for, up to the count.  The loops of Cobs_deframer rely on it (they ignore *)
(* what SwFifo_read returns).                                                *)
PromisesKept ==
  [][/\ \A t \in Writers : num[t] <= seen[t] => ~WriteRefuse(t)
     /\ \A t \in Readers : seen[t] > 0 => ~PeekNothing(t)
     /\ \A t \in Readers : AckWrap(t) => numToRead[t] >= Least(num[t], seen[t])]_vars

(* Every call returns: no path of the fifo keeps the mutex.                  *)
CallsReturn == \A t \in Task : pc[t] # "idle" ~> pc[t] = "idle"
=============================================================================
