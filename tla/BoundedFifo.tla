---------------------------- MODULE BoundedFifo ----------------------------
(***************************************************************************)
(* What a software fifo promises to the tasks that share it: a bounded     *)
(* queue on which every call takes effect at one instant between its call  *)
(* and its return.  A write stores all its items or, when there is not     *)
(* enough space for them, none; a read removes items from the head of the  *)
(* queue and returns exactly those items; a flush empties the queue.       *)
(* Every item is therefore returned at most once and in order.             *)
(***************************************************************************)
EXTENDS Integers, Sequences

CONSTANTS
  Task,      \* the tasks that call the fifo
  Item,      \* the objects stored in it
  Depth,     \* how many objects fit
  NoResult   \* a task that is inside a call, or has made none

VARIABLES
  queue,     \* the objects stored, oldest first
  result     \* result[t]: what the write or read that t made last did

vars == <<queue, result>>

Written(items)  == [op |-> "write", items |-> items]
Refused(n)      == [op |-> "refused", num |-> n]
Returned(items) == [op |-> "read", items |-> items]

Init ==
  /\ queue = << >>
  /\ result = [t \in Task |-> NoResult]

(* A new call: the result of the last one has been taken. *)
Call(t) ==
  /\ result' = [result EXCEPT ![t] = NoResult]
  /\ UNCHANGED queue

(* All the items of a write enter the queue together, in order. *)
Put(t) ==
  \E n \in 1..(Depth - Len(queue)) : \E items \in [1..n -> Item] :
    /\ queue' = queue \o items
    /\ result' = [result EXCEPT ![t] = Written(items)]

(* A write is refused only when its items do not fit. *)
Refuse(t) ==
  \E n \in 1..Depth :
    /\ Len(queue) + n > Depth
    /\ result' = [result EXCEPT ![t] = Refused(n)]
    /\ UNCHANGED queue

(* A read returns the n oldest items (possibly none) and removes them. *)
Take(t) ==
  \E n \in 0..Len(queue) :
    /\ queue' = SubSeq(queue, n + 1, Len(queue))
    /\ result' = [result EXCEPT ![t] = Returned(SubSeq(queue, 1, n))]

Clear ==
  /\ queue' = << >>
  /\ UNCHANGED result

Next == Clear \/ \E t \in Task : Call(t) \/ Put(t) \/ Refuse(t) \/ Take(t)

Spec == Init /\ [][Next]_vars
=============================================================================
