---------------------------- MODULE DeviceProofs ----------------------------
(***************************************************************************)
(* Theorems about the components that stand by themselves: LuaThread, for  *)
(* every set of callers, every length of the queue and any number of       *)
(* scripts; WifiConnect, for every number of retries and any number of     *)
(* lost connections; LedEncoder, for a strip of any length and a driver    *)
(* that finds any room at each call; DirListing, for directories and pages *)
(* of any length; SwTimer, for every time and every width of its types;    *)
(* LedColour, for every gradient and every colour; and LfsBd, for every    *)
(* geometry and whatever its caches hold.  No two of them share anything.  *)
(***************************************************************************)
EXTENDS Integers, Sequences, FiniteSets, SequenceTheorems, WellFoundedInduction, TLAPS

(* LuaThread *)
CONSTANTS Caller, Depth, MaxScripts, NoScript
VARIABLES queue, caller, sentCount, accepted, refused, thread, open, buffers, taken,
          ran, passed

Lua == INSTANCE LuaThread

LuaTypeOK ==
  /\ sentCount \in Nat
  /\ queue \in Seq(Nat) /\ taken \in Seq(Nat) /\ accepted \in Seq(Nat)
  /\ ran \in Seq(Nat)
  /\ refused \in SUBSET Nat
  /\ caller \in [Caller -> Nat \cup {NoScript}]
  /\ thread \in [pc : {"recv", "open", "alloc", "read", "exec", "free", "close"},
                 item : Nat \cup {NoScript}]

\* A script that a call is still sending is in no history yet, and no other call
\* sends it.
PendingIsNew ==
  /\ \A c \in Caller : caller[c] # NoScript =>
       /\ caller[c] <= sentCount
       /\ caller[c] \notin refused
       /\ \A i \in 1..Len(accepted) : accepted[i] # caller[c]
  /\ \A c, d \in Caller : caller[c] # NoScript /\ caller[c] = caller[d] => c = d

\* The number of the next call is a new one.
CountIsFresh ==
  /\ \A i \in 1..Len(accepted) : accepted[i] <= sentCount
  /\ \A r \in refused : r <= sentCount

NoneRefused == \A i \in 1..Len(accepted) : accepted[i] \notin refused
NoneTwice   == \A i, j \in 1..Len(accepted) : accepted[i] = accepted[j] => i = j

\* What the thread holds at each place: a file, and a buffer for what it reads.
Holding ==
  /\ open = IF thread.pc \in {"recv", "open"} THEN 0 ELSE 1
  /\ buffers = IF thread.pc \in {"read", "exec", "free"} THEN 1 ELSE 0

\* The script in hand is the one received last; until it has been run or passed over,
\* what was is to be found before it among the received ones.
Awaiting == thread.pc \in {"open", "alloc", "read", "exec"}

InHand ==
  thread.pc # "recv" => Len(taken) > 0 /\ thread.item = taken[Len(taken)]

Done == {taken[k] : k \in {i \in 1..Len(taken) : Awaiting => i < Len(taken)}}

Settled ==
  /\ \A k \in 1..Len(taken) :
       \/ taken[k] \in passed
       \/ Awaiting /\ k = Len(taken)
       \/ \E r \in 1..Len(ran) : ran[r] = taken[k]
  /\ \A r \in 1..Len(ran) : ran[r] \notin passed /\ ran[r] \in Done
  /\ passed \subseteq Done

RanInOrder == Lua!InOrderOf(ran, taken)

LuaInv ==
  /\ LuaTypeOK /\ PendingIsNew /\ CountIsFresh
  /\ taken \o queue = accepted
  /\ NoneRefused /\ NoneTwice
  /\ Holding /\ InHand /\ Settled /\ RanInOrder

-----------------------------------------------------------------------------

\* A script moved from the queue to the history of the thread leaves the two
\* together as they were.
LEMMA TakeKeepsAll ==
  ASSUME NEW S, NEW s \in Seq(S), NEW t \in Seq(S), t # <<>>
  PROVE  Append(s, Head(t)) \o Tail(t) = s \o t
<1> DEFINE one == <<Head(t)>>
<1>1. Head(t) \in S /\ Tail(t) \in Seq(S) /\ Len(Tail(t)) = Len(t) - 1
      /\ \A i \in 1..Len(Tail(t)) : Tail(t)[i] = t[i + 1]
  BY HeadTailProperties
<1>2. one \in Seq(S) /\ Len(one) = 1 /\ one[1] = t[1]
  BY <1>1
<1>3. one \o Tail(t) = t
  BY <1>1, <1>2, SMT
<1>4. Append(s, Head(t)) = s \o one
  BY <1>1, AppendIsConcat
<1> QED BY <1>1, <1>2, <1>3, <1>4, ConcatAssociative

\* The same for a script appended to the queue.
LEMMA SendAppends ==
  ASSUME NEW S, NEW s \in Seq(S), NEW t \in Seq(S), NEW x \in S
  PROVE  s \o Append(t, x) = Append(s \o t, x)
<1>1. Append(t, x) = t \o <<x>> /\ <<x>> \in Seq(S)
  BY AppendIsConcat
<1>2. s \o t \in Seq(S)
  BY ConcatProperties
<1>3. Append(s \o t, x) = (s \o t) \o <<x>>
  BY <1>2, AppendIsConcat
<1> QED BY <1>1, <1>3, ConcatAssociative

-----------------------------------------------------------------------------

LEMMA InLonger ==
  ASSUME NEW m \in Nat, NEW n \in Nat, m <= n
  PROVE  \A i \in 1..m : i \in 1..n
OBVIOUS

LEMMA LastOrBefore ==
  ASSUME NEW n \in Nat
  PROVE  \A r, q \in 1..(n + 1) : r < q => r \in 1..n /\ (q \in 1..n \/ q = n + 1)
OBVIOUS

\* What is in the order of a sequence is in the order of a longer one; and so is it with
\* the last of it added, after what stands before.
LEMMA OrderOfLonger ==
  ASSUME NEW s \in Seq(Nat), NEW t \in Seq(Nat), NEW u \in Seq(Nat), Lua!InOrderOf(s, t),
         Len(t) <= Len(u), \A k \in 1..Len(t) : u[k] = t[k]
  PROVE  Lua!InOrderOf(s, u)
<1> SUFFICES ASSUME NEW r \in 1..Len(s), NEW q \in 1..Len(s), r < q
             PROVE  \E i, j \in 1..Len(u) : i < j /\ u[i] = s[r] /\ u[j] = s[q]
  BY DEF Lua!InOrderOf
<1>1. \E i, j \in 1..Len(t) : i < j /\ t[i] = s[r] /\ t[j] = s[q]
  BY DEF Lua!InOrderOf
<1>2. PICK i \in 1..Len(t), j \in 1..Len(t) : i < j /\ t[i] = s[r] /\ t[j] = s[q]
  BY <1>1
<1>3. u[i] = t[i] /\ u[j] = t[j]
  BY <1>2
<1>4. Len(t) \in Nat /\ Len(u) \in Nat
  BY LenProperties
<1>5. i \in 1..Len(u) /\ j \in 1..Len(u)
  BY <1>4, InLonger
<1>6. i < j /\ u[i] = s[r] /\ u[j] = s[q]
  BY <1>2, <1>3
<1> QED BY <1>5, <1>6

LEMMA OrderOfMore ==
  ASSUME NEW s \in Seq(Nat), NEW t \in Seq(Nat), Lua!InOrderOf(s, t), t # <<>>,
         \A r \in 1..Len(s) : \E i \in 1..Len(t) : i < Len(t) /\ t[i] = s[r]
  PROVE  Lua!InOrderOf(Append(s, t[Len(t)]), t)
<1> DEFINE n == Len(s)
           more == Append(s, t[Len(t)])
<1>1. Len(t) \in 1..Len(t) /\ t[Len(t)] \in Nat
  OBVIOUS
<1>2. /\ n \in Nat /\ Len(more) = n + 1 /\ more[n + 1] = t[Len(t)]
      /\ \A r \in 1..n : more[r] = s[r]
  BY <1>1, AppendProperties
<1> HIDE DEF more
<1> SUFFICES ASSUME NEW r \in 1..Len(more), NEW q \in 1..Len(more), r < q
             PROVE  \E i, j \in 1..Len(t) : i < j /\ t[i] = more[r] /\ t[j] = more[q]
  BY Zenon DEF Lua!InOrderOf, more
<1>3. r \in 1..n /\ (q \in 1..n \/ q = n + 1)
  <2> HIDE DEF n
  <2>1. r \in 1..(n + 1) /\ q \in 1..(n + 1)
    BY <1>2, Zenon
  <2> QED BY <1>2, <2>1, LastOrBefore, Zenon
<1>4. more[r] = s[r]
  BY <1>2, <1>3
<1>5. CASE q \in 1..n
  <2>1. more[q] = s[q]
    BY <1>2, <1>5
  <2>2. \E i, j \in 1..Len(t) : i < j /\ t[i] = s[r] /\ t[j] = s[q]
    BY <1>3, <1>5, Zenon DEF Lua!InOrderOf
  <2> QED BY <1>4, <2>1, <2>2, Zenon
<1>6. CASE q = n + 1
  <2>1. more[q] = t[Len(t)]
    BY <1>2, <1>6, Zenon
  <2>2. \E i \in 1..Len(t) : i < Len(t) /\ t[i] = s[r]
    BY <1>3, Zenon
  <2> QED BY <1>1, <1>4, <2>1, <2>2, Zenon
<1> QED BY <1>3, <1>5, <1>6, Zenon

-----------------------------------------------------------------------------

LEMMA LuaInitInv == Lua!Init => LuaInv
<1> SUFFICES ASSUME Lua!Init PROVE LuaInv
  OBVIOUS
<1> USE DEF Lua!Init, Lua!Waiting
<1>1. LuaTypeOK /\ PendingIsNew /\ CountIsFresh /\ NoneRefused /\ NoneTwice
  BY DEF LuaTypeOK, PendingIsNew, CountIsFresh, NoneRefused, NoneTwice
<1>2. taken \o queue = accepted
  OBVIOUS
<1>3. Holding /\ InHand /\ Settled /\ RanInOrder
  BY DEF Holding, InHand, Settled, RanInOrder, Lua!InOrderOf
<1> QED BY <1>1, <1>2, <1>3 DEF LuaInv

\* The calls of runScript leave the thread and what it did alone.
LEMMA CallsKeepWork ==
  ASSUME LuaInv, UNCHANGED <<thread, Lua!work>>
  PROVE  /\ Holding' /\ InHand' /\ Settled' /\ RanInOrder'
         /\ UNCHANGED <<thread, open, buffers, taken, ran, passed>>
<1>1. UNCHANGED <<thread, open, buffers, taken, ran, passed>>
  BY DEF Lua!work
<1>2. Holding' /\ InHand' /\ RanInOrder'
  BY <1>1 DEF LuaInv, Holding, InHand, RanInOrder
<1>3. Awaiting' = Awaiting /\ Done' = Done
  BY <1>1 DEF Awaiting, Done
<1>4. Settled'
  BY <1>1, <1>3 DEF LuaInv, Settled
<1> QED BY <1>1, <1>2, <1>4

\* A new call sends a number that nothing has had.
LEMMA LuaRunScriptInv ==
  ASSUME NoScript \notin Nat, LuaInv, NEW c \in Caller, Lua!RunScript(c)
  PROVE  LuaInv'
<1>0. /\ Holding' /\ InHand' /\ Settled' /\ RanInOrder'
      /\ UNCHANGED <<thread, open, buffers, taken, ran, passed>>
  BY CallsKeepWork DEF Lua!RunScript
<1> USE DEF LuaInv, Lua!RunScript
<1>1. LuaTypeOK'
  BY <1>0 DEF LuaTypeOK
<1>2. PendingIsNew'
  <2>1. \A d \in Caller : caller'[d] = IF d = c THEN sentCount + 1 ELSE caller[d]
    BY DEF LuaTypeOK
  <2>2. \A d \in Caller : caller[d] # NoScript =>
          /\ caller[d] \in Nat /\ caller[d] <= sentCount /\ caller[d] # sentCount + 1
    BY DEF LuaTypeOK, PendingIsNew
  <2>3. /\ sentCount + 1 \notin refused
        /\ \A i \in 1..Len(accepted) : accepted[i] # sentCount + 1
    BY DEF LuaTypeOK, CountIsFresh
  <2>4. \A d \in Caller : caller'[d] # NoScript =>
          /\ caller'[d] <= sentCount'
          /\ caller'[d] \notin refused'
          /\ \A i \in 1..Len(accepted') : accepted'[i] # caller'[d]
    BY <2>1, <2>2, <2>3 DEF LuaTypeOK, PendingIsNew
  <2>5. \A d, e \in Caller : caller'[d] # NoScript /\ caller'[d] = caller'[e] => d = e
    BY <2>1, <2>2 DEF LuaTypeOK, PendingIsNew
  <2> QED BY <2>4, <2>5 DEF PendingIsNew
<1>3. CountIsFresh'
  <2>1. /\ accepted' = accepted /\ refused' = refused /\ sentCount' = sentCount + 1
        /\ accepted \in Seq(Nat) /\ refused \in SUBSET Nat /\ sentCount \in Nat
    BY DEF LuaTypeOK
  <2>2. \A i \in 1..Len(accepted) : accepted[i] \in Nat /\ accepted[i] <= sentCount
    BY <2>1 DEF CountIsFresh
  <2>3. \A r \in refused : r \in Nat /\ r <= sentCount
    BY <2>1 DEF CountIsFresh
  <2> HIDE DEF LuaInv, Lua!RunScript
  <2> QED BY <2>1, <2>2, <2>3 DEF CountIsFresh
<1>4. NoneRefused' /\ NoneTwice' /\ (taken \o queue = accepted)'
  BY <1>0 DEF NoneRefused, NoneTwice
<1> QED BY <1>0, <1>1, <1>2, <1>3, <1>4

\* A call that finds room: its script joins the queue and the accepted ones alike.
LEMMA LuaSendInv ==
  ASSUME NoScript \notin Nat, LuaInv, NEW c \in Caller, Lua!Send(c)
  PROVE  LuaInv'
<1> DEFINE x == caller[c]
<1>1. x \in Nat /\ accepted \in Seq(Nat) /\ queue \in Seq(Nat) /\ taken \in Seq(Nat)
  BY DEF LuaInv, LuaTypeOK, Lua!Send
<1>2. /\ accepted' \in Seq(Nat) /\ Len(accepted') = Len(accepted) + 1
      /\ \A i \in 1..Len(accepted) : accepted'[i] = accepted[i]
      /\ accepted'[Len(accepted) + 1] = x
      /\ queue' \in Seq(Nat)
      /\ Len(accepted) \in Nat
  BY <1>1, AppendProperties DEF Lua!Send
<1>3. \A d \in Caller : caller'[d] = IF d = c THEN NoScript ELSE caller[d]
  BY DEF LuaInv, LuaTypeOK, Lua!Send
<1>4. /\ x <= sentCount /\ x \notin refused
      /\ \A i \in 1..Len(accepted) : accepted[i] # x
      /\ \A d \in Caller : d # c => caller[d] # x
  BY DEF LuaInv, PendingIsNew, Lua!Send
<1>5. \A i \in 1..Len(accepted') :
        \/ i \in 1..Len(accepted) /\ accepted'[i] = accepted[i]
        \/ i = Len(accepted) + 1 /\ accepted'[i] = x
  BY <1>2
<1>6. /\ UNCHANGED <<sentCount, refused, thread, open, buffers, taken, ran, passed>>
      /\ Holding' /\ InHand' /\ Settled' /\ RanInOrder'
  BY CallsKeepWork DEF Lua!Send
<1>7. LuaTypeOK'
  BY <1>1, <1>2, <1>6 DEF LuaInv, LuaTypeOK, Lua!Send
<1>8. PendingIsNew'
  <2>1. \A d \in Caller : caller'[d] # NoScript =>
          /\ caller'[d] <= sentCount'
          /\ caller'[d] \notin refused'
          /\ \A i \in 1..Len(accepted') : accepted'[i] # caller'[d]
    BY <1>3, <1>4, <1>5, <1>6 DEF LuaInv, PendingIsNew
  <2>2. \A d, e \in Caller : caller'[d] # NoScript /\ caller'[d] = caller'[e] => d = e
    BY <1>3 DEF LuaInv, PendingIsNew
  <2> QED BY <2>1, <2>2 DEF PendingIsNew
<1>9. CountIsFresh'
  BY <1>4, <1>5, <1>6 DEF LuaInv, CountIsFresh
<1>10. (taken \o queue = accepted)'
  <2>1. taken \o Append(queue, x) = Append(taken \o queue, x)
    BY <1>1, SendAppends
  <2>2. taken' = taken /\ queue' = Append(queue, x) /\ accepted' = Append(accepted, x)
    BY <1>6 DEF Lua!Send
  <2>3. taken \o queue = accepted
    BY DEF LuaInv
  <2> HIDE DEF x
  <2> QED BY <2>1, <2>2, <2>3
<1>11. NoneRefused'
  BY <1>4, <1>5, <1>6 DEF LuaInv, NoneRefused
<1>12. NoneTwice'
  <2>1. \A i, j \in 1..Len(accepted) : accepted[i] = accepted[j] => i = j
    BY DEF LuaInv, NoneTwice
  <2> HIDE DEF x
  <2> SUFFICES ASSUME NEW i \in 1..Len(accepted'), NEW j \in 1..Len(accepted'),
                      accepted'[i] = accepted'[j]
               PROVE  i = j
    BY Zenon DEF NoneTwice
  <2> QED BY <1>4, <1>5, <2>1, Zenon
<1> QED BY <1>6, <1>7, <1>8, <1>9, <1>10, <1>11, <1>12 DEF LuaInv

\* A call that finds none: its script is not among the accepted ones, and will not be.
LEMMA LuaSendTimeoutInv ==
  ASSUME NoScript \notin Nat, LuaInv, NEW c \in Caller, Lua!SendTimeout(c)
  PROVE  LuaInv'
<1>0. /\ Holding' /\ InHand' /\ Settled' /\ RanInOrder'
      /\ UNCHANGED <<thread, open, buffers, taken, ran, passed>>
  BY CallsKeepWork DEF Lua!SendTimeout
<1> USE DEF LuaInv, Lua!SendTimeout
<1>1. LuaTypeOK'
  BY <1>0 DEF LuaTypeOK
<1>2. \A d \in Caller : caller'[d] = IF d = c THEN NoScript ELSE caller[d]
  BY DEF LuaTypeOK
<1>3. PendingIsNew'
  BY <1>2 DEF PendingIsNew
<1>4. CountIsFresh' /\ NoneRefused'
  BY DEF CountIsFresh, NoneRefused, PendingIsNew
<1>5. NoneTwice' /\ (taken \o queue = accepted)'
  BY <1>0 DEF NoneTwice
<1> QED BY <1>0, <1>1, <1>3, <1>4, <1>5

LEMMA LuaRecvInv ==
  ASSUME LuaInv, Lua!Recv
  PROVE  LuaInv'
<1> DEFINE n == Len(taken)
<1>1. /\ thread.pc = "recv" /\ queue # <<>>
      /\ thread' = [pc |-> "open", item |-> Head(queue)]
      /\ taken' = Append(taken, Head(queue)) /\ queue' = Tail(queue)
      /\ UNCHANGED <<caller, sentCount, accepted, refused, open, buffers, ran, passed>>
  BY DEF Lua!Recv
<1>2. /\ Head(queue) \in Nat /\ Tail(queue) \in Seq(Nat)
      /\ taken' \in Seq(Nat) /\ Len(taken') = n + 1 /\ n \in Nat
      /\ \A k \in 1..n : taken'[k] = taken[k]
      /\ taken'[n + 1] = Head(queue)
  <2>1. taken \in Seq(Nat) /\ Head(queue) \in Nat /\ Tail(queue) \in Seq(Nat)
    BY <1>1, HeadTailProperties DEF LuaInv, LuaTypeOK
  <2> QED BY <1>1, <2>1, AppendProperties
<1> HIDE DEF n
<1>3. (taken \o queue = accepted)'
  BY <1>1, TakeKeepsAll DEF LuaInv, LuaTypeOK
<1>4. LuaTypeOK'
  BY <1>1, <1>2 DEF LuaInv, LuaTypeOK
<1>5. Holding' /\ InHand'
  BY <1>1, <1>2 DEF LuaInv, Holding, InHand
<1>6. Done \subseteq Done'
  <2> SUFFICES ASSUME NEW k \in 1..n PROVE taken[k] \in Done'
    BY DEF Done, n
  <2>1. k \in 1..Len(taken') /\ k < Len(taken') /\ taken'[k] = taken[k]
    BY <1>2
  <2> QED BY <2>1 DEF Done
<1>7. Settled'
  <2>1. ASSUME NEW k \in 1..(n + 1)
        PROVE  \/ taken'[k] \in passed'
               \/ Awaiting' /\ k = n + 1
               \/ \E r \in 1..Len(ran') : ran'[r] = taken'[k]
    <3>1. Awaiting' /\ ~Awaiting
      BY <1>1 DEF Awaiting
    <3>2. CASE k \in 1..n
      BY <1>1, <1>2, <3>1, <3>2 DEF LuaInv, Settled, n
    <3> QED BY <1>2, <3>1, <3>2
  <2>2. /\ \A r \in 1..Len(ran') : ran'[r] \notin passed' /\ ran'[r] \in Done'
        /\ passed' \subseteq Done'
    BY <1>1, <1>6 DEF LuaInv, Settled
  <2> QED BY <1>2, <2>1, <2>2 DEF Settled
<1>8. RanInOrder'
  <2>1. ran \in Seq(Nat) /\ taken \in Seq(Nat) /\ Lua!InOrderOf(ran, taken)
    BY DEF LuaInv, LuaTypeOK, RanInOrder
  <2>2. Len(taken) <= Len(taken') /\ \A k \in 1..Len(taken) : taken'[k] = taken[k]
    <3>1. n <= n + 1
      BY <1>2
    <3> QED BY <1>2, <3>1, Zenon DEF n
  <2>3. Lua!InOrderOf(ran, taken')
    BY <1>2, <2>1, <2>2, OrderOfLonger
  <2> QED BY <1>1, <2>3 DEF RanInOrder
<1>9. PendingIsNew' /\ CountIsFresh' /\ NoneRefused' /\ NoneTwice'
  BY <1>1 DEF LuaInv, PendingIsNew, CountIsFresh, NoneRefused, NoneTwice
<1> QED BY <1>3, <1>4, <1>5, <1>7, <1>8, <1>9 DEF LuaInv

\* What a step between two receptions leaves alone.
LEMMA WorkKeeps ==
  ASSUME LuaInv, Lua!Open \/ Lua!Alloc \/ Lua!Read \/ Lua!Exec \/ Lua!Free \/ Lua!Close
  PROVE  /\ UNCHANGED <<queue, caller, sentCount, accepted, refused, taken>>
         /\ PendingIsNew' /\ CountIsFresh' /\ NoneRefused' /\ NoneTwice'
         /\ (taken \o queue = accepted)'
<1>1. UNCHANGED <<queue, caller, sentCount, accepted, refused, taken>>
  BY DEF Lua!Open, Lua!Alloc, Lua!Read, Lua!Exec, Lua!Free, Lua!Close
<1> QED BY <1>1 DEF LuaInv, PendingIsNew, CountIsFresh, NoneRefused, NoneTwice

\* The scripts are told apart by their place among the received ones.
LEMMA TakenOnce ==
  ASSUME LuaInv
  PROVE  /\ Len(taken) \in Nat
         /\ \A k \in 1..Len(taken) : k \in 1..Len(accepted) /\ accepted[k] = taken[k]
         /\ \A k, l \in 1..Len(taken) : taken[k] = taken[l] => k = l
<1>1. taken \in Seq(Nat) /\ queue \in Seq(Nat) /\ taken \o queue = accepted
  BY DEF LuaInv, LuaTypeOK
<1>2. /\ Len(taken) \in Nat /\ Len(accepted) = Len(taken) + Len(queue) /\ Len(queue) \in Nat
      /\ \A k \in 1..Len(taken) : accepted[k] = taken[k]
  BY <1>1
<1> QED BY <1>2 DEF LuaInv, NoneTwice

\* The thread goes on with a script, or has done with it already.
LEMMA GoesOn ==
  ASSUME LuaInv, UNCHANGED <<taken, ran, passed>>,
         Awaiting' <=> Awaiting,
         thread'.pc # "recv" => thread.pc # "recv" /\ thread'.item = thread.item
  PROVE  InHand' /\ Settled' /\ RanInOrder'
<1>1. InHand'
  BY DEF LuaInv, InHand
<1>2. Settled' /\ RanInOrder'
  BY DEF LuaInv, Settled, RanInOrder, Done
<1> QED BY <1>1, <1>2

\* The script in hand is not among those done with.
LEMMA AwaitingIsLast ==
  ASSUME LuaInv, Awaiting
  PROVE  /\ Len(taken) \in Nat \ {0} /\ taken[Len(taken)] = thread.item
         /\ thread.item \notin Done
<1>1. Len(taken) > 0 /\ thread.item = taken[Len(taken)]
  BY DEF LuaInv, InHand, Awaiting
<1>2. ASSUME NEW k \in 1..Len(taken), k < Len(taken) PROVE taken[k] # thread.item
  BY <1>1, <1>2, TakenOnce
<1>3. thread.item \notin Done
  BY <1>2 DEF Done
<1> QED BY <1>1, <1>3, TakenOnce

\* It is passed over,
LEMMA PassesOver ==
  ASSUME LuaInv, UNCHANGED <<taken, ran>>, Awaiting, ~Awaiting',
         passed' = passed \cup {thread.item},
         thread'.pc # "recv" => thread'.item = thread.item
  PROVE  InHand' /\ Settled' /\ RanInOrder'
<1>1. /\ Len(taken) \in Nat \ {0} /\ taken[Len(taken)] = thread.item
      /\ thread.item \notin Done
  BY AwaitingIsLast
<1>2. InHand'
  BY <1>1 DEF LuaInv, InHand, Awaiting
<1>3. thread.item \in Done' /\ Done \subseteq Done'
  BY <1>1 DEF Done
<1>4. Settled'
  <2>1. \A k \in 1..Len(taken) : taken[k] \in passed' \/ \E r \in 1..Len(ran) : ran[r] = taken[k]
    BY <1>1 DEF LuaInv, Settled
  <2>2. \A r \in 1..Len(ran) : ran'[r] \notin passed' /\ ran'[r] \in Done'
    BY <1>1, <1>3 DEF LuaInv, Settled
  <2>3. passed' \subseteq Done'
    BY <1>3 DEF LuaInv, Settled
  <2> QED BY <2>1, <2>2, <2>3 DEF Settled
<1>5. RanInOrder'
  BY DEF LuaInv, RanInOrder
<1> QED BY <1>2, <1>4, <1>5

\* or run, after all those that were.
LEMMA Runs ==
  ASSUME LuaInv, UNCHANGED <<taken, passed>>, Awaiting, ~Awaiting',
         ran' = Append(ran, thread.item), thread.item \in Nat,
         thread'.pc # "recv" => thread'.item = thread.item
  PROVE  InHand' /\ Settled' /\ RanInOrder'
<1> DEFINE n == Len(ran)
<1>1. /\ Len(taken) \in Nat \ {0} /\ taken[Len(taken)] = thread.item
      /\ thread.item \notin Done
  BY AwaitingIsLast
<1>2. InHand'
  BY <1>1 DEF LuaInv, InHand, Awaiting
<1>3. thread.item \in Done' /\ Done \subseteq Done'
  BY <1>1 DEF Done
<1>4. /\ n \in Nat /\ Len(ran') = n + 1 /\ ran'[n + 1] = thread.item
      /\ \A r \in 1..n : ran'[r] = ran[r]
  BY AppendProperties DEF LuaInv, LuaTypeOK
<1> HIDE DEF n
<1>5. Settled'
  <2>1. \A k \in 1..Len(taken) : taken[k] \in passed \/ \E r \in 1..(n + 1) : ran'[r] = taken[k]
    <3> SUFFICES ASSUME NEW k \in 1..Len(taken), taken[k] \notin passed
                 PROVE  \E r \in 1..(n + 1) : ran'[r] = taken[k]
      OBVIOUS
    <3>1. k = Len(taken) \/ \E r \in 1..n : ran[r] = taken[k]
      BY DEF LuaInv, Settled, n
    <3> QED BY <1>1, <1>4, <3>1
  <2>2. ASSUME NEW r \in 1..(n + 1) PROVE ran'[r] \notin passed /\ ran'[r] \in Done'
    <3>1. CASE r \in 1..n
      BY <1>3, <1>4, <3>1 DEF LuaInv, Settled, n
    <3>2. CASE r = n + 1
      BY <1>1, <1>3, <1>4, <3>2 DEF LuaInv, Settled
    <3> QED BY <1>4, <3>1, <3>2
  <2>3. passed \subseteq Done'
    BY <1>3 DEF LuaInv, Settled
  <2> QED BY <1>4, <2>1, <2>2, <2>3 DEF Settled
<1>6. RanInOrder'
  <2>1. ran \in Seq(Nat) /\ taken \in Seq(Nat) /\ Lua!InOrderOf(ran, taken) /\ taken # <<>>
    BY <1>1 DEF LuaInv, LuaTypeOK, RanInOrder
  <2>2. \A r \in 1..Len(ran) : \E i \in 1..Len(taken) : i < Len(taken) /\ taken[i] = ran[r]
    BY DEF LuaInv, Settled, Done
  <2>3. Lua!InOrderOf(ran', taken)
    BY <1>1, <2>1, <2>2, OrderOfMore
  <2> QED BY <2>3 DEF RanInOrder
<1> QED BY <1>2, <1>5, <1>6

\* The file is opened, the buffer allocated and the script read, or it is passed over.
LEMMA LuaOpenInv ==
  ASSUME LuaInv, Lua!Open \/ Lua!Alloc \/ Lua!Read
  PROVE  LuaInv'
<1> USE DEF Lua!Goto, Lua!PassOver, Lua!Waiting
<1>1. ran' = ran /\ thread \in [pc : {"recv", "open", "alloc", "read", "exec", "free", "close"},
                                item : Nat \cup {NoScript}]
  BY DEF Lua!Open, Lua!Alloc, Lua!Read, LuaInv, LuaTypeOK
<1>2. LuaTypeOK'
  BY <1>1, WorkKeeps DEF LuaInv, LuaTypeOK, Lua!Open, Lua!Alloc, Lua!Read
<1>3. Holding'
  BY <1>1 DEF LuaInv, Holding, Lua!Open, Lua!Alloc, Lua!Read
<1>4. Awaiting /\ (thread'.pc # "recv" => thread.pc # "recv" /\ thread'.item = thread.item)
  BY <1>1 DEF Awaiting, Lua!Open, Lua!Alloc, Lua!Read
<1>5. \/ passed' = passed /\ Awaiting'
      \/ passed' = passed \cup {thread.item} /\ ~Awaiting'
  BY <1>1 DEF Awaiting, Lua!Open, Lua!Alloc, Lua!Read
<1>6. InHand' /\ Settled' /\ RanInOrder'
  BY <1>1, <1>4, <1>5, GoesOn, PassesOver, WorkKeeps
<1> QED BY <1>2, <1>3, <1>6, WorkKeeps DEF LuaInv

\* The script is run, and its buffer and its file are let go.
LEMMA LuaExecInv ==
  ASSUME LuaInv, Lua!Exec \/ Lua!Free \/ Lua!Close
  PROVE  LuaInv'
<1> USE DEF Lua!Goto, Lua!Waiting
<1>1. passed' = passed /\ thread \in [pc : {"recv", "open", "alloc", "read", "exec", "free", "close"},
                                      item : Nat \cup {NoScript}]
  BY DEF Lua!Exec, Lua!Free, Lua!Close, LuaInv, LuaTypeOK
<1>2. thread.item \in Nat
  BY TakenOnce DEF Lua!Exec, Lua!Free, Lua!Close, LuaInv, LuaTypeOK, InHand
<1>3. LuaTypeOK'
  <2>1. Append(ran, thread.item) \in Seq(Nat)
    BY <1>2, AppendProperties DEF LuaInv, LuaTypeOK
  <2>2. ran' \in Seq(Nat)
    BY <2>1 DEF LuaInv, LuaTypeOK, Lua!Exec, Lua!Free, Lua!Close
  <2>3. thread' \in [pc : {"recv", "open", "alloc", "read", "exec", "free", "close"},
                     item : Nat \cup {NoScript}]
    BY <1>1 DEF Lua!Exec, Lua!Free, Lua!Close
  <2> QED BY <1>1, <2>2, <2>3, WorkKeeps DEF LuaInv, LuaTypeOK
<1>4. Holding'
  BY <1>1 DEF LuaInv, Holding, Lua!Exec, Lua!Free, Lua!Close
<1>5. ~Awaiting' /\ (thread'.pc # "recv" => thread.pc # "recv" /\ thread'.item = thread.item)
  BY <1>1 DEF Awaiting, Lua!Exec, Lua!Free, Lua!Close
<1>6. \/ ran' = ran /\ ~Awaiting
      \/ ran' = Append(ran, thread.item) /\ Awaiting
  BY DEF Awaiting, Lua!Exec, Lua!Free, Lua!Close
<1>7. InHand' /\ Settled' /\ RanInOrder'
  BY <1>1, <1>2, <1>5, <1>6, GoesOn, Runs, WorkKeeps
<1> QED BY <1>3, <1>4, <1>7, WorkKeeps DEF LuaInv

LEMMA LuaNextInv ==
  ASSUME NoScript \notin Nat
  PROVE  LuaInv /\ [Lua!Next]_(Lua!vars) => LuaInv'
<1> SUFFICES ASSUME LuaInv, [Lua!Next]_(Lua!vars) PROVE LuaInv'
  OBVIOUS
<1>1. CASE \E c \in Caller : Lua!RunScript(c)
  BY <1>1, LuaRunScriptInv
<1>2. CASE \E c \in Caller : Lua!Send(c)
  BY <1>2, LuaSendInv
<1>3. CASE \E c \in Caller : Lua!SendTimeout(c)
  BY <1>3, LuaSendTimeoutInv
<1>4. CASE Lua!Recv
  BY <1>4, LuaRecvInv
<1>5. CASE Lua!Open \/ Lua!Alloc \/ Lua!Read
  BY <1>5, LuaOpenInv
<1>6. CASE Lua!Exec \/ Lua!Free \/ Lua!Close
  BY <1>6, LuaExecInv
<1>7. CASE UNCHANGED Lua!vars
  <2>1. UNCHANGED <<queue, caller, sentCount, accepted, refused, thread, Lua!work>>
    BY <1>7 DEF Lua!vars
  <2>2. /\ Holding' /\ InHand' /\ Settled' /\ RanInOrder'
        /\ UNCHANGED <<thread, open, buffers, taken, ran, passed>>
    BY <2>1, CallsKeepWork
  <2> QED BY <2>1, <2>2 DEF LuaInv, LuaTypeOK, PendingIsNew, CountIsFresh, NoneRefused, NoneTwice
<1> QED BY <1>1, <1>2, <1>3, <1>4, <1>5, <1>6, <1>7 DEF Lua!Next, Lua!Thread

\* lua_thread_main settles each script it receives: it runs it or passes it over, never
\* both nor twice, runs them in the order in which the calls of runScript were accepted,
\* runs none whose call returned -1, and waits for the next with no file open and no
\* buffer held, whichever of its exits it took with the last.
THEOREM ScriptsSettled ==
  ASSUME NoScript \notin Nat
  PROVE  Lua!Spec => []Lua!AcceptedRunInOrder
<1>1. LuaInv => Lua!AcceptedRunInOrder
  <2> SUFFICES ASSUME LuaInv PROVE Lua!AcceptedRunInOrder
    OBVIOUS
  <2>1. /\ DOMAIN accepted = 1..Len(accepted) /\ DOMAIN taken = 1..Len(taken)
        /\ DOMAIN ran = 1..Len(ran)
    BY DEF LuaInv, LuaTypeOK
  <2>2. taken \o queue = accepted
    BY DEF LuaInv
  <2>3. \A i \in DOMAIN taken :
          \/ taken[i] \in passed \/ taken[i] = thread.item
          \/ \E r \in DOMAIN ran : ran[r] = taken[i]
    BY <2>1 DEF LuaInv, Settled, InHand, Awaiting
  <2>4. \A r \in DOMAIN ran : ran[r] \notin passed \cup refused
    <3> SUFFICES ASSUME NEW r \in 1..Len(ran) PROVE ran[r] \notin passed \cup refused
      BY <2>1
    <3>1. PICK k \in 1..Len(taken) : taken[k] = ran[r]
      BY DEF LuaInv, Settled, Done
    <3>2. ran[r] \notin refused
      BY <3>1, TakenOnce DEF LuaInv, NoneRefused
    <3> QED BY <3>2 DEF LuaInv, Settled
  <2>5. Lua!InOrderOf(ran, accepted)
    <3>1. /\ ran \in Seq(Nat) /\ taken \in Seq(Nat) /\ accepted \in Seq(Nat)
          /\ Lua!InOrderOf(ran, taken)
      BY DEF LuaInv, LuaTypeOK, RanInOrder
    <3>2. Len(taken) <= Len(accepted) /\ \A k \in 1..Len(taken) : accepted[k] = taken[k]
      <4>1. queue \in Seq(Nat) /\ Len(accepted) = Len(taken) + Len(queue)
        BY <2>2, <3>1 DEF LuaInv, LuaTypeOK
      <4> QED BY <3>1, <4>1, TakenOnce
    <3> QED BY <3>1, <3>2, OrderOfLonger
  <2>6. \A i, j \in DOMAIN accepted : accepted[i] = accepted[j] => i = j
    BY <2>1 DEF LuaInv, NoneTwice
  <2>7. thread.pc = "recv" => open = 0 /\ buffers = 0
    BY DEF LuaInv, Holding
  <2> QED BY <2>2, <2>3, <2>4, <2>5, <2>6, <2>7 DEF Lua!AcceptedRunInOrder
<1> QED BY LuaInitInv, LuaNextInv, <1>1, PTL DEF Lua!Spec

-----------------------------------------------------------------------------

(* WifiConnect *)
CONSTANTS MAXIMUM_RETRY, MaxLosses
VARIABLES init, station, useDhcp, retry, flags, gotIp, attempts, losses

Wifi == INSTANCE WifiConnect

Stations == {"off", "starting", "connecting", "associated", "no address", "up", "down"}

WifiTypeOK ==
  /\ init \in {"start", "pend", "error", "failed", "connected"}
  /\ station \in Stations
  /\ retry \in Nat /\ retry <= MAXIMUM_RETRY /\ attempts \in Nat
  /\ flags \in SUBSET {"connected", "failed"}
  /\ gotIp \in BOOLEAN

\* retry_count is the number of attempts but the first, of which an address takes the
\* place.
RetryCounts ==
  /\ station \in {"off", "starting"} => ~gotIp /\ retry = 0 /\ attempts = 0
  /\ station \notin {"off", "starting"} => attempts = IF gotIp THEN retry ELSE retry + 1
  /\ station = "down" => retry = MAXIMUM_RETRY

\* What the flags tell as long as nobody has read them.
FlagsTell ==
  /\ "failed" \in flags => station = "down"
  /\ init \in {"start", "pend"} => (gotIp <=> "connected" \in flags)

\* Where WifiConnect_init is, and what it has reported.
ReportTells ==
  /\ init = "start" => station = "off"
  /\ init = "failed" => ~gotIp /\ station = "down"
  /\ init = "connected" => gotIp

WifiInv == WifiTypeOK /\ RetryCounts /\ FlagsTell /\ ReportTells

-----------------------------------------------------------------------------

LEMMA WifiInitInv ==
  ASSUME MAXIMUM_RETRY \in Nat
  PROVE  Wifi!Init => WifiInv
<1> SUFFICES ASSUME Wifi!Init PROVE WifiInv
  OBVIOUS
<1> USE DEF Wifi!Init
<1>1. retry \in Nat /\ retry <= MAXIMUM_RETRY /\ attempts \in Nat
  OBVIOUS
<1>2. gotIp \in BOOLEAN /\ ~gotIp
  BY Zenon
<1>3. init = "start" /\ station = "off" /\ flags = {} /\ retry = 0 /\ attempts = 0
  OBVIOUS
<1> HIDE DEF Wifi!Init
<1>4. WifiTypeOK
  BY <1>1, <1>2, <1>3 DEF WifiTypeOK, Stations
<1>5. RetryCounts
  BY <1>2, <1>3 DEF RetryCounts
<1>6. FlagsTell /\ ReportTells
  BY <1>2, <1>3 DEF FlagsTell, ReportTells
<1> QED BY <1>4, <1>5, <1>6 DEF WifiInv

\* The calls of WifiConnect_init before its task waits.
LEMMA WifiStartInv ==
  ASSUME WifiInv, Wifi!Start
  PROVE  WifiInv'
<1>1. WifiTypeOK'
  BY DEF WifiInv, WifiTypeOK, Stations, Wifi!Start
<1>2. RetryCounts'
  BY Zenon DEF WifiInv, RetryCounts, ReportTells, Wifi!Start
<1>3. FlagsTell'
  BY DEF WifiInv, FlagsTell, ReportTells, Wifi!Start
<1>4. ReportTells'
  BY DEF WifiInv, ReportTells, Wifi!Start
<1> QED BY <1>1, <1>2, <1>3, <1>4 DEF WifiInv

\* A report clears the flags, which told the truth.
LEMMA WifiReportInv ==
  ASSUME WifiInv, Wifi!Report
  PROVE  WifiInv'
<1>1. /\ UNCHANGED <<station, retry, gotIp, attempts>> /\ flags' = {}
      /\ init = "pend" /\ flags # {} /\ flags \in SUBSET {"connected", "failed"}
      /\ init' = IF "connected" \in flags THEN "connected" ELSE "failed"
  BY DEF WifiInv, WifiTypeOK, Wifi!Report
<1>2. WifiTypeOK' /\ RetryCounts'
  BY <1>1 DEF WifiInv, WifiTypeOK, RetryCounts
<1>3. FlagsTell'
  BY <1>1 DEF FlagsTell
<1>4. ReportTells'
  <2>1. CASE "connected" \in flags
    <3>1. gotIp
      BY <1>1, <2>1 DEF WifiInv, FlagsTell
    <3> QED BY <1>1, <2>1, <3>1 DEF ReportTells
  <2>2. CASE "connected" \notin flags
    <3>1. "failed" \in flags
      BY <1>1, <2>2
    <3>2. ~gotIp /\ station = "down"
      BY <1>1, <2>2, <3>1 DEF WifiInv, FlagsTell
    <3> QED BY <1>1, <2>2, <3>2 DEF ReportTells
  <2> QED BY <2>1, <2>2
<1> QED BY <1>2, <1>3, <1>4 DEF WifiInv

\* The steps of event_handler, in the task of the event loop.
LEMMA WifiStaStartInv ==
  ASSUME WifiInv, Wifi!StaStart
  PROVE  WifiInv'
<1>1. WifiTypeOK' /\ FlagsTell' /\ ReportTells'
  BY DEF WifiInv, WifiTypeOK, Stations, FlagsTell, ReportTells, Wifi!StaStart
<1>2. ~gotIp' /\ retry' = 0 /\ attempts' = 1 /\ station' = "connecting"
  BY DEF WifiInv, RetryCounts, Wifi!StaStart
<1> QED BY <1>1, <1>2 DEF WifiInv, RetryCounts

LEMMA WifiStaConnectedInv ==
  ASSUME WifiInv, Wifi!StaConnected
  PROVE  WifiInv'
<1>1. WifiTypeOK' /\ FlagsTell' /\ ReportTells'
  BY DEF WifiInv, WifiTypeOK, Stations, FlagsTell, ReportTells, Wifi!StaConnected
<1>2. RetryCounts'
  BY DEF WifiInv, RetryCounts, Wifi!StaConnected
<1> QED BY <1>1, <1>2 DEF WifiInv

\* Another attempt, or the last has failed.
LEMMA WifiStaDisconnectedInv ==
  ASSUME MAXIMUM_RETRY \in Nat, WifiInv, Wifi!StaDisconnected
  PROVE  WifiInv'
<1>1. /\ station \in {"connecting", "associated", "no address", "up"}
      /\ UNCHANGED <<init, gotIp>>
  BY DEF Wifi!StaDisconnected
<1>2. retry \in Nat /\ attempts \in Nat /\ retry <= MAXIMUM_RETRY
  BY DEF WifiInv, WifiTypeOK
<1>3. attempts = IF gotIp THEN retry ELSE retry + 1
  BY <1>1 DEF WifiInv, RetryCounts
<1>4. CASE retry < MAXIMUM_RETRY
  <2>1. /\ retry' = retry + 1 /\ station' = "connecting" /\ attempts' = attempts + 1
        /\ flags' = flags
    BY <1>4 DEF Wifi!StaDisconnected
  <2>2. WifiTypeOK'
    <3>1. retry' \in Nat /\ retry' <= MAXIMUM_RETRY /\ attempts' \in Nat
      BY <1>4, <1>2, <2>1
    <3> QED BY <1>1, <2>1, <3>1 DEF WifiInv, WifiTypeOK, Stations
  <2>3. attempts' = IF gotIp' THEN retry' ELSE retry' + 1
    <3>1. CASE gotIp
      <4>1. gotIp' /\ attempts' = retry'
        BY <1>1, <1>3, <2>1, <3>1
      <4> QED BY <4>1, Zenon
    <3>2. CASE ~gotIp
      <4>1. ~gotIp' /\ attempts' = retry' + 1
        BY <1>1, <1>2, <1>3, <2>1, <3>2
      <4> QED BY <4>1, Zenon
    <3> QED BY <3>1, <3>2
  <2>4. RetryCounts'
    BY <2>1, <2>3 DEF RetryCounts
  <2>5. FlagsTell' /\ ReportTells'
    BY <1>1, <2>1 DEF WifiInv, FlagsTell, ReportTells
  <2> QED BY <2>2, <2>4, <2>5 DEF WifiInv
<1>5. CASE ~(retry < MAXIMUM_RETRY)
  <2>1. /\ flags' = flags \cup {"failed"} /\ station' = "down"
        /\ retry' = retry /\ attempts' = attempts
    BY <1>5 DEF Wifi!StaDisconnected
  <2>2. retry' = MAXIMUM_RETRY
    BY <1>5, <1>2, <2>1
  <2>3. WifiTypeOK'
    BY <1>1, <2>1 DEF WifiInv, WifiTypeOK, Stations
  <2>4. RetryCounts'
    <3>1. attempts' = IF gotIp' THEN retry' ELSE retry' + 1
      BY <1>1, <1>3, <2>1, Zenon
    <3> QED BY <2>1, <2>2, <3>1 DEF RetryCounts
  <2>5. FlagsTell'
    BY <1>1, <2>1 DEF WifiInv, FlagsTell
  <2>6. ReportTells'
    BY <1>1, <2>1 DEF WifiInv, ReportTells
  <2> QED BY <2>3, <2>4, <2>5, <2>6 DEF WifiInv
<1> QED BY <1>4, <1>5

LEMMA WifiGotIpInv ==
  ASSUME MAXIMUM_RETRY \in Nat, WifiInv, Wifi!GotIp
  PROVE  WifiInv'
<1>1. /\ station = "associated" /\ station' = "up" /\ retry' = 0 /\ attempts' = 0
      /\ flags' = flags \cup {"connected"} /\ gotIp' = TRUE /\ init' = init
  BY DEF Wifi!GotIp
<1>2. WifiTypeOK'
  BY <1>1 DEF WifiInv, WifiTypeOK, Stations
<1>3. RetryCounts'
  BY <1>1 DEF RetryCounts
<1>4. FlagsTell'
  BY <1>1 DEF WifiInv, FlagsTell
<1>5. ReportTells'
  BY <1>1 DEF WifiInv, ReportTells
<1> QED BY <1>2, <1>3, <1>4, <1>5 DEF WifiInv

LEMMA WifiNextInv ==
  ASSUME MAXIMUM_RETRY \in Nat
  PROVE  WifiInv /\ [Wifi!Next]_(Wifi!vars) => WifiInv'
<1> SUFFICES ASSUME WifiInv, [Wifi!Next]_(Wifi!vars) PROVE WifiInv'
  OBVIOUS
<1>1. CASE UNCHANGED Wifi!vars
  BY <1>1 DEF Wifi!vars, WifiInv, WifiTypeOK, RetryCounts, FlagsTell, ReportTells
<1> QED
  BY <1>1, WifiStartInv, WifiReportInv, WifiStaStartInv, WifiStaConnectedInv,
     WifiStaDisconnectedInv, WifiGotIpInv DEF Wifi!Next

\* WifiConnect_init reports a failure only after MAXIMUM_RETRY retries none of which
\* brought an address, and a connection only if there was one, whatever event_handler
\* has done between the flags being set and the task reading them.
THEOREM ReportTrue ==
  ASSUME MAXIMUM_RETRY \in Nat
  PROVE  Wifi!Spec => []Wifi!ReportIsTrue
<1>1. WifiInv => Wifi!ReportIsTrue
  BY DEF WifiInv, WifiTypeOK, RetryCounts, ReportTells, Wifi!ReportIsTrue
<1> QED BY WifiInitInv, WifiNextInv, <1>1, PTL DEF Wifi!Spec

-----------------------------------------------------------------------------

(* LedEncoder *)
CONSTANTS DataSymbols, Block
VARIABLES parts, created, state, written, sent, complete

Encoder == INSTANCE LedEncoder

Symbol == {"data", "reset"}

\* The beginning of a transmission.
Prefix(s) ==
  /\ s \in Seq(Symbol)
  /\ \A i \in 1..Len(s) : s[i] = IF i <= DataSymbols THEN "data" ELSE "reset"

EncoderTypeOK == written \in Nat /\ state \in {0, 1} /\ sent \in Seq(Symbol)

\* How far the transmission is, in each state of the encoder.
InData  == Len(sent) = written /\ written <= DataSymbols
InReset == Len(sent) = DataSymbols /\ written = 0
AtEnd   == Len(sent) = DataSymbols + 1 /\ written = 0 /\ state = 0

Progress ==
  /\ complete => AtEnd
  /\ ~complete /\ state = 0 => InData
  /\ ~complete /\ state = 1 => InReset
  /\ complete \in BOOLEAN

\* Before an encoder is made, nothing has been sent.
Unmade == ~created => sent = <<>> /\ written = 0 /\ complete = FALSE

Allocated == parts = IF created THEN {"encoder", "bytes", "copy"} ELSE {}

EncoderInv ==
  /\ EncoderTypeOK /\ Prefix(sent) /\ Progress /\ Unmade /\ Allocated
  /\ created \in BOOLEAN

-----------------------------------------------------------------------------

\* What the bytes encoder writes.
LEMMA MoreData ==
  ASSUME DataSymbols \in Nat, NEW s, Prefix(s), NEW n \in Nat, Len(s) + n <= DataSymbols
  PROVE  /\ Prefix(s \o [i \in 1..n |-> "data"])
         /\ Len(s \o [i \in 1..n |-> "data"]) = Len(s) + n
<1> DEFINE more == [i \in 1..n |-> "data"]
           all == s \o more
<1>1. s \in Seq(Symbol) /\ more \in Seq(Symbol) /\ Len(more) = n /\ Len(s) \in Nat
  BY DEF Prefix, Symbol
<1>2. /\ all \in Seq(Symbol) /\ Len(all) = Len(s) + n
      /\ \A i \in 1..(Len(s) + n) : all[i] = IF i <= Len(s) THEN s[i] ELSE more[i - Len(s)]
  BY <1>1, ConcatProperties
<1>3. ASSUME NEW i \in 1..(Len(s) + n) PROVE all[i] = "data" /\ i <= DataSymbols
  <2>1. i <= DataSymbols
    BY <1>1
  <2>2. CASE i <= Len(s)
    BY <1>1, <1>2, <2>1, <2>2 DEF Prefix
  <2>3. CASE ~(i <= Len(s))
    <3>1. i - Len(s) \in 1..n
      BY <1>1, <2>3
    <3> QED BY <1>2, <2>1, <2>3, <3>1
  <2> QED BY <2>2, <2>3
<1> HIDE DEF all
<1> QED BY <1>2, <1>3 DEF Prefix, all

\* What the copy encoder writes.
LEMMA ResetCode ==
  ASSUME DataSymbols \in Nat, NEW s, Prefix(s), Len(s) = DataSymbols
  PROVE  Prefix(s \o <<"reset">>) /\ Len(s \o <<"reset">>) = DataSymbols + 1
<1> DEFINE all == s \o <<"reset">>
<1>1. s \in Seq(Symbol) /\ <<"reset">> \in Seq(Symbol)
  BY DEF Prefix, Symbol
<1>2. /\ all \in Seq(Symbol) /\ Len(all) = DataSymbols + 1
      /\ \A i \in 1..(DataSymbols + 1) :
           all[i] = IF i <= DataSymbols THEN s[i] ELSE <<"reset">>[i - DataSymbols]
  BY <1>1, ConcatProperties
<1>3. \A i \in 1..(DataSymbols + 1) :
        all[i] = IF i <= DataSymbols THEN "data" ELSE "reset"
  BY <1>2 DEF Prefix
<1> HIDE DEF all
<1> QED BY <1>2, <1>3 DEF Prefix, all

-----------------------------------------------------------------------------

\* Nothing of a transmission is the beginning of one.
LEMMA NothingSent ==
  ASSUME DataSymbols \in Nat
  PROVE  Prefix(<<>>) /\ Len(<<>>) = 0 /\ <<>> \in Seq(Symbol) /\ 0 <= DataSymbols
  BY DEF Prefix

\* A step that leaves the encoder in the data, at the reset code or at the end.
LEMMA ThenData ==
  ASSUME complete' = FALSE, state' = 0, InData'
  PROVE  Progress'
<1>1. state' # 1
  OBVIOUS
<1> QED BY <1>1, Zenon DEF Progress

LEMMA ThenReset ==
  ASSUME complete' = FALSE, state' = 1, InReset'
  PROVE  Progress'
<1>1. state' # 0
  OBVIOUS
<1> QED BY <1>1, Zenon DEF Progress

LEMMA ThenEnd ==
  ASSUME complete' = TRUE, AtEnd'
  PROVE  Progress'
  BY Zenon DEF Progress

LEMMA EncoderInitInv ==
  ASSUME DataSymbols \in Nat
  PROVE  Encoder!Init => EncoderInv
<1> SUFFICES ASSUME Encoder!Init PROVE EncoderInv
  OBVIOUS
<1>1. sent = <<>> /\ written = 0 /\ state = 0 /\ complete = FALSE /\ created = FALSE
      /\ parts = {}
  BY DEF Encoder!Init
<1>2. EncoderTypeOK /\ Prefix(sent)
  BY <1>1, NothingSent DEF EncoderTypeOK
<1>3. InData /\ state # 1
  BY <1>1, NothingSent DEF InData
<1>4. Progress
  BY <1>1, <1>3, Zenon DEF Progress
<1>5. Unmade /\ Allocated /\ created \in BOOLEAN
  BY <1>1, Zenon DEF Unmade, Allocated
<1> QED BY <1>2, <1>4, <1>5 DEF EncoderInv

\* encoder_new, encoder_del: no transmission is under way.
LEMMA EncoderNewInv ==
  ASSUME DataSymbols \in Nat, EncoderInv, NEW failing, Encoder!New(failing)
  PROVE  EncoderInv'
<1>1. /\ ~created
      /\ created' = (failing = "none") /\ state' = 0
      /\ UNCHANGED <<written, sent, complete>>
  BY DEF Encoder!New
<1>2. sent' = <<>> /\ written' = 0 /\ complete' = FALSE
  BY <1>1 DEF EncoderInv, Unmade
<1>3. EncoderTypeOK' /\ Prefix(sent)' /\ InData'
  BY <1>1, <1>2, NothingSent DEF EncoderTypeOK, InData
<1>4. Unmade' /\ created' \in BOOLEAN
  BY <1>1, <1>2, Zenon DEF Unmade
<1>5. Allocated'
  BY <1>1, Zenon DEF Encoder!New, Allocated
<1> QED BY <1>1, <1>2, <1>3, <1>4, <1>5, ThenData DEF EncoderInv

LEMMA EncoderDelInv ==
  ASSUME DataSymbols \in Nat, EncoderInv, Encoder!Del
  PROVE  EncoderInv'
<1>1. /\ created' = FALSE /\ parts' = {} /\ sent = <<>>
      /\ UNCHANGED <<state, written, sent, complete>>
  BY DEF Encoder!Del
<1>2. Len(sent) = 0
  BY <1>1
<1>3. complete = FALSE
  <2>1. ~AtEnd
    BY <1>2 DEF AtEnd
  <2> QED BY <2>1, Zenon DEF EncoderInv, Progress
<1>4. written = 0
  <2>1. CASE state = 0
    <3>1. InData
      BY <1>3, <2>1, Zenon DEF EncoderInv, Progress
    <3> QED BY <1>2, <3>1 DEF InData
  <2>2. CASE state = 1
    <3>1. InReset
      BY <1>3, <2>2, Zenon DEF EncoderInv, Progress
    <3> QED BY <3>1 DEF InReset
  <2> QED BY <2>1, <2>2 DEF EncoderInv, EncoderTypeOK
<1>5. EncoderTypeOK' /\ Prefix(sent)' /\ Progress'
  BY <1>1 DEF EncoderInv, EncoderTypeOK, Prefix, Progress, AtEnd, InData, InReset
<1>6. Unmade' /\ Allocated' /\ created' \in BOOLEAN
  BY <1>1, <1>3, <1>4, Zenon DEF Unmade, Allocated
<1> QED BY <1>5, <1>6 DEF EncoderInv

\* A transmission begins again, abandoned or complete.
LEMMA EncoderAgainInv ==
  ASSUME DataSymbols \in Nat, EncoderInv, Encoder!Reset \/ Encoder!Transmitted
  PROVE  EncoderInv'
<1>1. sent' = <<>> /\ complete' = FALSE /\ UNCHANGED <<parts, created>>
  BY DEF Encoder!Reset, Encoder!Transmitted
<1>2. state' = 0 /\ written' = 0
  <2>1. CASE Encoder!Reset
    BY <2>1 DEF Encoder!Reset
  <2>2. CASE Encoder!Transmitted
    <3>1. AtEnd
      BY <2>2, Zenon DEF EncoderInv, Progress, Encoder!Transmitted
    <3> QED BY <2>2, <3>1 DEF AtEnd, Encoder!Transmitted
  <2> QED BY <2>1, <2>2
<1>3. EncoderTypeOK' /\ Prefix(sent)' /\ InData'
  BY <1>1, <1>2, NothingSent DEF EncoderTypeOK, InData
<1>4. Unmade'
  BY <1>1, <1>2, Zenon DEF Unmade
<1>5. Allocated' /\ created' \in BOOLEAN
  BY <1>1 DEF EncoderInv, Allocated
<1> QED BY <1>1, <1>2, <1>3, <1>4, <1>5, ThenData DEF EncoderInv

\* A call of the driver: data, the reset code, or both.
LEMMA EncoderEncodeInv ==
  ASSUME DataSymbols \in Nat, EncoderInv, NEW room \in Nat, Encoder!Encode(room)
  PROVE  EncoderInv'
<1> DEFINE left == DataSymbols - written
           more(n) == [i \in 1..n |-> "data"]
           dataDone == state = 1 \/ Encoder!Complete(left, room)
           data == IF state = 0 THEN Encoder!Fits(left, room) ELSE 0
           reset == /\ ~(state = 0 /\ Encoder!MemFull(left, room))
                    /\ Encoder!Complete(1, room - data)
<1>0. /\ state' = IF reset THEN 0 ELSE IF dataDone THEN 1 ELSE 0
      /\ written' = IF dataDone THEN 0 ELSE written + data
      /\ sent' = (sent \o more(data)) \o (IF reset THEN <<"reset">> ELSE <<>>)
      /\ complete' = reset
  BY Zenon DEF Encoder!Encode
<1>1. /\ created /\ ~complete /\ UNCHANGED <<parts, created>>
      /\ written \in Nat /\ state \in {0, 1} /\ Prefix(sent)
  BY DEF EncoderInv, EncoderTypeOK, Encoder!Encode
<1>2. created' \in BOOLEAN /\ Allocated' /\ Unmade'
  BY <1>1, Zenon DEF EncoderInv, Allocated, Unmade
<1>3. state = 0 => Len(sent) = written /\ left \in Nat /\ written + left = DataSymbols
  <2> SUFFICES ASSUME state = 0 PROVE Len(sent) = written /\ written <= DataSymbols
    BY <1>1
  <2>1. InData
    BY <1>1, Zenon DEF EncoderInv, Progress
  <2> QED BY <2>1 DEF InData
<1>4. state = 1 => Len(sent) = DataSymbols /\ written = 0
  <2> SUFFICES ASSUME state = 1 PROVE InReset
    BY DEF InReset
  <2> QED BY <1>1, Zenon DEF EncoderInv, Progress
\* What is left to show of a call that writes n data symbols and no reset code, or
\* the last ones and the reset code.
<1>5. ASSUME NEW n \in Nat, Len(sent) + n <= DataSymbols, sent' = (sent \o more(n)) \o <<>>
      PROVE  Prefix(sent') /\ Len(sent') = Len(sent) + n /\ sent' \in Seq(Symbol)
  <2>1. Prefix(sent \o more(n)) /\ Len(sent \o more(n)) = Len(sent) + n
    BY <1>1, <1>5, MoreData
  <2>2. sent' = sent \o more(n)
    BY <1>5, <2>1, ConcatEmptySeq DEF Prefix
  <2> QED BY <2>1, <2>2 DEF Prefix
<1>6. ASSUME NEW n \in Nat, Len(sent) + n = DataSymbols,
             sent' = (sent \o more(n)) \o <<"reset">>
      PROVE  Prefix(sent') /\ Len(sent') = DataSymbols + 1 /\ sent' \in Seq(Symbol)
  <2>1. Prefix(sent \o more(n)) /\ Len(sent \o more(n)) = DataSymbols
    BY <1>1, <1>6, MoreData
  <2> QED BY <1>6, <2>1, ResetCode DEF Prefix
<1>7. CASE state = 1
  <2>1. Len(sent) + 0 = DataSymbols /\ Len(sent) + 0 <= DataSymbols
    BY <1>4, <1>7
  <2>2. CASE room = 0
    <3>1. /\ sent' = (sent \o more(0)) \o <<>>
          /\ state' = 1 /\ written' = 0 /\ complete' = FALSE
      <4>1. data = 0 /\ dataDone /\ reset = FALSE
        BY <1>7, <2>2 DEF Encoder!Fits, Encoder!Complete, Encoder!MemFull
      <4> HIDE DEF data, dataDone, reset
      <4> QED BY <1>0, <4>1, Zenon
    <3>2. Prefix(sent') /\ Len(sent') = DataSymbols /\ sent' \in Seq(Symbol)
      BY <1>5, <2>1, <3>1
    <3>3. EncoderTypeOK' /\ InReset'
      BY <3>1, <3>2 DEF EncoderTypeOK, InReset
    <3> QED BY <1>2, <3>1, <3>2, <3>3, ThenReset DEF EncoderInv
  <2>3. CASE room > 0
    <3>1. /\ sent' = (sent \o more(0)) \o <<"reset">>
          /\ state' = 0 /\ written' = 0 /\ complete' = TRUE
      <4>1. data = 0 /\ dataDone /\ reset
        BY <1>7, <2>3 DEF Encoder!Fits, Encoder!Complete, Encoder!MemFull
      <4> HIDE DEF data, dataDone, reset
      <4> QED BY <1>0, <4>1, Zenon
    <3>2. Prefix(sent') /\ Len(sent') = DataSymbols + 1 /\ sent' \in Seq(Symbol)
      BY <1>6, <2>1, <3>1
    <3>3. EncoderTypeOK' /\ AtEnd'
      BY <3>1, <3>2 DEF EncoderTypeOK, AtEnd
    <3> QED BY <1>2, <3>1, <3>2, <3>3, ThenEnd DEF EncoderInv
  <2> QED BY <2>2, <2>3
<1>8. CASE state = 0
  <2>1. Len(sent) = written /\ left \in Nat /\ written + left = DataSymbols
    BY <1>3, <1>8
  <2>2. CASE left > room
    <3>1. /\ sent' = (sent \o more(room)) \o <<>>
          /\ state' = 0 /\ written' = written + room /\ complete' = FALSE
      <4>1. data = room /\ ~dataDone /\ reset = FALSE
        BY <1>8, <2>1, <2>2 DEF Encoder!Fits, Encoder!Complete, Encoder!MemFull
      <4> HIDE DEF data, dataDone, reset
      <4> QED BY <1>0, <4>1, Zenon
    <3>2. written + room \in Nat /\ written + room <= DataSymbols
      BY <1>1, <2>1, <2>2
    <3>3. Prefix(sent') /\ Len(sent') = written + room /\ sent' \in Seq(Symbol)
      BY <1>5, <2>1, <3>1, <3>2
    <3>4. EncoderTypeOK' /\ InData'
      BY <3>1, <3>2, <3>3 DEF EncoderTypeOK, InData
    <3> QED BY <1>2, <3>1, <3>3, <3>4, ThenData DEF EncoderInv
  <2>3. CASE left = room
    <3>1. /\ sent' = (sent \o more(room)) \o <<>>
          /\ state' = 1 /\ written' = 0 /\ complete' = FALSE
      <4>1. data = room /\ dataDone /\ reset = FALSE
        BY <1>8, <2>1, <2>3 DEF Encoder!Fits, Encoder!Complete, Encoder!MemFull
      <4> HIDE DEF data, dataDone, reset
      <4> QED BY <1>0, <4>1, Zenon
    <3>2. Prefix(sent') /\ Len(sent') = DataSymbols /\ sent' \in Seq(Symbol)
      <4>1. Len(sent) + room = DataSymbols /\ Len(sent) + room <= DataSymbols
        BY <1>1, <2>1, <2>3
      <4> QED BY <1>5, <3>1, <4>1
    <3>3. EncoderTypeOK' /\ InReset'
      BY <3>1, <3>2 DEF EncoderTypeOK, InReset
    <3> QED BY <1>2, <3>1, <3>2, <3>3, ThenReset DEF EncoderInv
  <2>4. CASE left < room
    <3>1. /\ sent' = (sent \o more(left)) \o <<"reset">>
          /\ state' = 0 /\ written' = 0 /\ complete' = TRUE
      <4>1. data = left /\ dataDone /\ reset
        BY <1>8, <2>1, <2>4 DEF Encoder!Fits, Encoder!Complete, Encoder!MemFull
      <4> HIDE DEF data, dataDone, reset
      <4> QED BY <1>0, <4>1, Zenon
    <3>2. Prefix(sent') /\ Len(sent') = DataSymbols + 1 /\ sent' \in Seq(Symbol)
      <4> HIDE DEF left
      <4> QED BY <1>6, <2>1, <3>1
    <3>3. EncoderTypeOK' /\ AtEnd'
      BY <3>1, <3>2 DEF EncoderTypeOK, AtEnd
    <3> QED BY <1>2, <3>1, <3>2, <3>3, ThenEnd DEF EncoderInv
  <2> QED BY <2>1, <2>2, <2>3, <2>4
<1> QED BY <1>1, <1>7, <1>8

LEMMA EncoderNextInv ==
  ASSUME DataSymbols \in Nat, Block \in Nat
  PROVE  EncoderInv /\ [Encoder!Next]_(Encoder!vars) => EncoderInv'
<1> SUFFICES ASSUME EncoderInv, [Encoder!Next]_(Encoder!vars) PROVE EncoderInv'
  OBVIOUS
<1>1. CASE \E failing \in {"none", "calloc", "bytes", "copy"} : Encoder!New(failing)
  BY <1>1, EncoderNewInv
<1>2. CASE Encoder!Del
  BY <1>2, EncoderDelInv
<1>3. CASE Encoder!Reset \/ Encoder!Transmitted
  BY <1>3, EncoderAgainInv
<1>4. CASE \E room \in 0..Block : Encoder!Encode(room)
  BY <1>4, EncoderEncodeInv
<1>5. CASE UNCHANGED Encoder!vars
  BY <1>5 DEF Encoder!vars, EncoderInv, EncoderTypeOK, Prefix, Progress, AtEnd, InData,
              InReset, Unmade, Allocated
<1> QED BY <1>1, <1>2, <1>3, <1>4, <1>5 DEF Encoder!Next

\* Wherever the driver cuts a transmission into calls of rmt_encode_led_strip, it is
\* all the data and then one reset code, complete is reported with that code and not
\* before, and encoder_new leaves nothing allocated behind it when it fails.
THEOREM FrameComplete ==
  ASSUME DataSymbols \in Nat, Block \in Nat
  PROVE  Encoder!Spec => []Encoder!FrameThenReset
<1>1. EncoderInv => Encoder!FrameThenReset
  <2> SUFFICES ASSUME EncoderInv PROVE Encoder!FrameThenReset
    OBVIOUS
  <2>1. /\ AtEnd => Len(sent) = DataSymbols + 1
        /\ InData \/ InReset => Len(sent) <= DataSymbols
    BY DEF AtEnd, InData, InReset
  <2>2. state = 0 \/ state = 1
    BY DEF EncoderInv, EncoderTypeOK
  <2>3. /\ complete => Len(sent) = DataSymbols + 1
        /\ ~complete => Len(sent) <= DataSymbols
    BY <2>1, <2>2, Zenon DEF EncoderInv, Progress
  <2>4. Len(sent) \in Nat
    BY DEF EncoderInv, EncoderTypeOK
  <2>5. complete <=> Len(sent) = DataSymbols + 1
    BY <2>3, <2>4
  <2>6. Len(sent) <= DataSymbols + 1
    BY <2>3, <2>4
  <2> QED BY <2>5, <2>6, Zenon DEF EncoderInv, Prefix, Allocated, Encoder!FrameThenReset
<1> QED BY EncoderInitInv, EncoderNextInv, <1>1, PTL DEF Encoder!Spec

-----------------------------------------------------------------------------

(* DirListing *)
CONSTANTS MaxPage, Pages
VARIABLES dir, page, idx, entries, done

Listing == INSTANCE DirListing

ListingTypeOK ==
  /\ page \in Nat \ {0}
  /\ dir \in Seq(Nat) /\ \A i \in 1..Len(dir) : dir[i] = i
  /\ idx \in Nat /\ idx <= Len(dir)
  /\ entries \in Seq(Nat)
  /\ done \in BOOLEAN

Ordered == \A i, j \in 1..Len(entries) : i < j => entries[i] < entries[j]

\* ls_table never asks for an entry that it has.
AskedBeyond == ~done => \A i \in 1..Len(entries) : entries[i] <= idx

\* Up to two pages, it asks for the entry that follows what it has.
AskedNext ==
  Listing!TwoPages =>
    /\ \A i \in 1..Len(entries) : entries[i] = i
    /\ Len(entries) <= Len(dir)
    /\ ~done => idx = Len(entries) /\ (idx = 0 \/ idx >= page)

ListingInv == ListingTypeOK /\ Ordered /\ AskedBeyond /\ AskedNext

-----------------------------------------------------------------------------

LEMMA ListingInitInv ==
  ASSUME MaxPage \in Nat, Pages \in Nat
  PROVE  Listing!Init => ListingInv
<1> SUFFICES ASSUME Listing!Init PROVE ListingInv
  OBVIOUS
<1>1. page \in Nat \ {0} /\ idx = 0 /\ entries = << >>
  BY DEF Listing!Init
<1>2. done = FALSE
  BY DEF Listing!Init
<1>3. PICK n \in 0..(Pages * page) : dir = [i \in 1..n |-> i]
  BY DEF Listing!Init
<1>4. n \in Nat
  BY <1>1, <1>3
<1>5. dir \in Seq(Nat) /\ Len(dir) = n /\ \A i \in 1..n : dir[i] = i
  BY <1>3, <1>4
<1>6. idx <= Len(dir)
  BY <1>1, <1>4, <1>5
<1>7. ListingTypeOK
  <2>1. done \in BOOLEAN
    BY <1>2, Zenon
  <2> QED BY <1>1, <1>5, <1>6, <2>1 DEF ListingTypeOK
<1>8. Ordered /\ AskedBeyond /\ AskedNext
  BY <1>1, <1>6, <1>7 DEF Ordered, AskedBeyond, AskedNext, ListingTypeOK
<1> QED BY <1>7, <1>8 DEF ListingInv

\* The page that dirlist returns.
LEMMA PageIs ==
  ASSUME ListingTypeOK
  PROVE  LET info == Listing!dirlist(idx).info_array
             n == IF Len(dir) < idx + page THEN Len(dir) - idx ELSE page
         IN /\ info \in Seq(Nat) /\ Len(info) = n /\ n \in Nat
            /\ \A i \in 1..n : info[i] = idx + i
<1> DEFINE last == IF Len(dir) < idx + page THEN Len(dir) ELSE idx + page
           info == SubSeq(dir, idx + 1, last)
<1>1. /\ idx \in Nat /\ page \in Nat \ {0} /\ Len(dir) \in Nat /\ idx <= Len(dir)
      /\ dir \in Seq(Nat) /\ \A i \in 1..Len(dir) : dir[i] = i
  BY DEF ListingTypeOK
<1>2. last \in Nat /\ last <= Len(dir) /\ idx <= last
      /\ last - idx = IF Len(dir) < idx + page THEN Len(dir) - idx ELSE page
  BY <1>1
<1> HIDE DEF last
<1>3. \A i \in (idx + 1)..last : dir[i] \in Nat /\ i \in 1..Len(dir)
  BY <1>1, <1>2
<1>4. info = [i \in 1..(last - idx) |-> dir[idx + i]]
  BY <1>1, <1>2, <1>3
<1>5. \A i \in 1..(last - idx) : dir[idx + i] = idx + i
  BY <1>1, <1>2
<1>6. /\ info \in Seq(Nat) /\ Len(info) = last - idx
      /\ \A i \in 1..(last - idx) : info[i] = idx + i
  BY <1>1, <1>2, <1>4, <1>5
<1>7. Listing!dirlist(idx).info_array = info
  BY DEF Listing!dirlist, last
<1> HIDE DEF info
<1> QED BY <1>1, <1>2, <1>6, <1>7

\* One round of ls_table: what it gets is beyond what it has, and what it asks for
\* next is beyond both.
LEMMA ListingFetchInv ==
  ASSUME ListingInv, Listing!Fetch
  PROVE  ListingInv'
<1> DEFINE info == Listing!dirlist(idx).info_array
           n == IF Len(dir) < idx + page THEN Len(dir) - idx ELSE page
           more == Len(entries') < Listing!dirlist(idx).num_entries
<1>1. /\ idx \in Nat /\ page \in Nat \ {0} /\ Len(dir) \in Nat /\ idx <= Len(dir)
      /\ entries \in Seq(Nat) /\ Len(entries) \in Nat /\ done = FALSE
  BY DEF ListingInv, ListingTypeOK, Listing!Fetch
<1>2. /\ info \in Seq(Nat) /\ Len(info) = n /\ n \in Nat
      /\ \A i \in 1..n : info[i] = idx + i
  BY PageIs DEF ListingInv
<1>3. /\ entries' = entries \o info /\ dir' = dir /\ page' = page
      /\ IF more THEN idx' = Listing!Capped(idx + Len(entries')) /\ UNCHANGED done
         ELSE done' = TRUE /\ UNCHANGED idx
  BY DEF Listing!Fetch
<1>4. Listing!dirlist(idx).num_entries = Len(dir)
  BY DEF Listing!dirlist
<1>5. idx + n <= Len(dir) /\ (n < page => idx + n = Len(dir)) /\ n <= page
  BY <1>1
<1> HIDE DEF info, n
<1>6. /\ entries' \in Seq(Nat) /\ Len(entries') = Len(entries) + n
      /\ \A i \in 1..(Len(entries) + n) :
           entries'[i] = IF i <= Len(entries) THEN entries[i] ELSE info[i - Len(entries)]
  BY <1>1, <1>2, <1>3, ConcatProperties
<1>7. \A i \in 1..(Len(entries) + n) :
        \/ i \in 1..Len(entries) /\ entries'[i] = entries[i]
        \/ i > Len(entries) /\ entries'[i] = idx + (i - Len(entries))
  <2> SUFFICES ASSUME NEW i \in 1..(Len(entries) + n), i > Len(entries)
               PROVE  entries'[i] = idx + (i - Len(entries))
    BY <1>1, <1>6
  <2>1. i - Len(entries) \in 1..n
    BY <1>1, <1>2
  <2> QED BY <1>1, <1>2, <1>6, <2>1
<1>8. Ordered'
  <2> SUFFICES ASSUME NEW i \in 1..(Len(entries) + n), NEW j \in 1..(Len(entries) + n), i < j
               PROVE  entries'[i] < entries'[j]
    BY <1>6 DEF Ordered
  <2>1. CASE j <= Len(entries)
    <3>1. i \in 1..Len(entries) /\ j \in 1..Len(entries)
      BY <1>1, <1>2, <2>1
    <3>2. entries[i] < entries[j]
      BY <3>1 DEF ListingInv, Ordered
    <3>3. entries'[i] = entries[i] /\ entries'[j] = entries[j]
      BY <1>1, <1>7, <3>1
    <3> QED BY <3>2, <3>3
  <2>2. CASE i <= Len(entries) /\ j > Len(entries)
    <3>1. i \in 1..Len(entries)
      BY <1>1, <1>2, <2>2
    <3>2. entries'[i] = entries[i] /\ entries[i] <= idx /\ entries[i] \in Nat
      BY <1>1, <1>2, <1>7, <3>1 DEF ListingInv, AskedBeyond
    <3>3. entries'[j] = idx + (j - Len(entries))
      BY <1>1, <1>7, <2>2
    <3> QED BY <1>1, <1>2, <2>2, <3>2, <3>3
  <2>3. CASE i > Len(entries)
    <3>1. j > Len(entries)
      BY <1>1, <1>2, <2>3
    <3>2. entries'[i] = idx + (i - Len(entries)) /\ entries'[j] = idx + (j - Len(entries))
      BY <1>1, <1>7, <2>3, <3>1
    <3> QED BY <1>1, <1>2, <3>2
  <2> QED BY <1>1, <1>2, <2>1, <2>2, <2>3
<1>9. CASE more
  <2>1. /\ done' = FALSE /\ idx' = Listing!Capped(idx + Len(entries'))
        /\ Len(entries) + n < Len(dir)
    BY <1>1, <1>3, <1>4, <1>6, <1>9
  <2>2. /\ idx' \in Nat /\ idx' <= Len(dir) /\ idx' >= idx + n
        /\ idx + Len(entries) + n < Len(dir) => idx' = idx + Len(entries) + n
    BY <1>1, <1>2, <1>5, <1>6, <2>1 DEF Listing!Capped
  <2>3. ListingTypeOK'
    <3>1. done' \in BOOLEAN
      BY <2>1, Zenon
    <3> QED BY <1>3, <1>6, <2>2, <3>1 DEF ListingInv, ListingTypeOK
  <2>4. AskedBeyond'
    <3> SUFFICES ASSUME NEW i \in 1..(Len(entries) + n) PROVE entries'[i] <= idx'
      BY <1>6 DEF AskedBeyond
    <3>1. CASE i \in 1..Len(entries)
      <4>1. entries'[i] = entries[i] /\ entries[i] <= idx /\ entries[i] \in Nat
        BY <1>1, <1>2, <1>7, <3>1 DEF ListingInv, AskedBeyond
      <4> QED BY <1>1, <1>2, <2>2, <4>1
    <3>2. CASE i > Len(entries)
      <4>1. entries'[i] = idx + (i - Len(entries))
        BY <1>1, <1>7, <3>2
      <4> QED BY <1>1, <1>2, <2>2, <3>2, <4>1
    <3> QED BY <1>1, <1>2, <3>1, <3>2
  <2>5. AskedNext'
    <3> SUFFICES ASSUME Listing!TwoPages
                 PROVE  /\ \A i \in 1..(Len(entries) + n) : entries'[i] = i
                        /\ Len(entries) + n <= Len(dir)
                        /\ idx' = Len(entries) + n /\ idx' >= page
      BY <1>3, <1>6 DEF AskedNext, Listing!TwoPages
    <3>1. /\ \A i \in 1..Len(entries) : entries[i] = i
          /\ idx = Len(entries) /\ (idx = 0 \/ idx >= page)
      BY <1>1 DEF ListingInv, AskedNext
    <3>2. Len(dir) <= 2 * page
      BY DEF Listing!TwoPages
    <3>3. n = page
      BY <1>1, <1>2, <1>5, <2>1, <3>1
    <3>4. idx = 0
      BY <1>1, <2>1, <3>1, <3>2, <3>3
    <3>5. idx' = Len(entries) + n
      BY <1>1, <1>2, <2>1, <2>2, <3>1, <3>4
    <3>6. \A i \in 1..(Len(entries) + n) : entries'[i] = i
      BY <1>1, <1>2, <1>7, <3>1
    <3> QED BY <1>1, <2>1, <3>3, <3>5, <3>6
  <2> QED BY <1>8, <2>3, <2>4, <2>5 DEF ListingInv
<1>10. CASE ~more
  <2>1. done' = TRUE /\ idx' = idx
    BY <1>3, <1>10
  <2>2. ListingTypeOK'
    <3>1. done' \in BOOLEAN
      BY <2>1, Zenon
    <3> QED BY <1>3, <1>6, <2>1, <3>1 DEF ListingInv, ListingTypeOK
  <2>3. AskedBeyond'
    BY <2>1 DEF AskedBeyond
  <2>4. AskedNext'
    <3> SUFFICES ASSUME Listing!TwoPages
                 PROVE  /\ \A i \in 1..(Len(entries) + n) : entries'[i] = i
                        /\ Len(entries) + n <= Len(dir)
      BY <1>3, <1>6, <2>1 DEF AskedNext, Listing!TwoPages
    <3>1. /\ \A i \in 1..Len(entries) : entries[i] = i
          /\ idx = Len(entries)
      BY <1>1 DEF ListingInv, AskedNext
    <3>2. \A i \in 1..(Len(entries) + n) : entries'[i] = i
      BY <1>1, <1>2, <1>7, <3>1
    <3> QED BY <1>5, <3>1, <3>2
  <2> QED BY <1>8, <2>2, <2>3, <2>4 DEF ListingInv
<1> QED BY <1>9, <1>10

LEMMA ListingNextInv == ListingInv /\ [Listing!Next]_(Listing!vars) => ListingInv'
<1>1. ListingInv /\ UNCHANGED Listing!vars => ListingInv'
  BY DEF Listing!vars, ListingInv, ListingTypeOK, Ordered, AskedBeyond, AskedNext,
         Listing!TwoPages
<1> QED BY <1>1, ListingFetchInv DEF Listing!Next

\* ls_table shows no entry twice and none out of order, whatever the length of the
\* directory and of a page; and up to two pages it shows a beginning of the directory,
\* without a gap.  (Behind the second page it may skip entries, but only that.)
THEOREM NothingTwice ==
  ASSUME MaxPage \in Nat, Pages \in Nat
  PROVE  Listing!Spec => []Listing!NothingSkipped
<1>1. ListingInv => Listing!NothingSkipped
  <2> SUFFICES ASSUME ListingInv PROVE Listing!NothingSkipped
    OBVIOUS
  <2>1. DOMAIN entries = 1..Len(entries) /\ Len(entries) \in Nat
    BY DEF ListingInv, ListingTypeOK
  <2>2. \A i, j \in DOMAIN entries : i < j => entries[i] < entries[j]
    BY <2>1 DEF ListingInv, Ordered
  <2>3. ASSUME Listing!TwoPages PROVE Listing!IsPrefix(entries, dir)
    <3>1. /\ Len(entries) <= Len(dir) /\ Len(dir) \in Nat
          /\ \A i \in 1..Len(entries) : entries[i] = i /\ dir[i] = i
      <4>1. Len(entries) <= Len(dir) /\ \A i \in 1..Len(entries) : entries[i] = i
        BY <2>3 DEF ListingInv, AskedNext
      <4>2. Len(dir) \in Nat /\ \A i \in 1..Len(dir) : dir[i] = i
        BY DEF ListingInv, ListingTypeOK
      <4> QED BY <2>1, <4>1, <4>2
    <3>2. SubSeq(entries, 1, Len(entries)) = [i \in 1..Len(entries) |-> i]
      BY <2>1, <3>1 DEF ListingInv, ListingTypeOK
    <3>3. SubSeq(dir, 1, Len(entries)) = [i \in 1..Len(entries) |-> i]
      BY <2>1, <3>1 DEF ListingInv, ListingTypeOK
    <3> QED BY <3>1, <3>2, <3>3 DEF Listing!IsPrefix
  <2> QED BY <2>2, <2>3 DEF Listing!NothingSkipped
<1> QED BY ListingInitInv, ListingNextInv, <1>1, PTL DEF Listing!Spec

-----------------------------------------------------------------------------
(* SwTimer *)
CONSTANTS Half, Full, Thousand

Timer == INSTANCE SwTimer

\* Division has one result.
LEMMA Remainder ==
  ASSUME NEW n \in Nat, n >= 1, NEW q \in Int, NEW r \in 0..(n - 1)
  PROVE  (n * q + r) % n = r
<1> DEFINE x == n * q + r
           y == x \div n
           z == x % n
<1>1. x \in Int /\ y \in Int /\ z \in 0..(n - 1) /\ x = n * y + z
  OBVIOUS
<1>2. n * (q - y) = n * q - n * y /\ n * q \in Int /\ n * y \in Int
  BY <1>1
<1> DEFINE apart == q - y
           product == n * apart
<1>3. /\ product = z - r /\ apart \in Int
  <2> DEFINE a == n * q
             b == n * y
  <2>1. a \in Int /\ b \in Int /\ a + r = b + z /\ product = a - b
    BY <1>1, <1>2
  <2> HIDE DEF a, b, z, product
  <2>2. product = z - r
    BY <1>1, <2>1
  <2> QED BY <1>1, <2>2
<1> HIDE DEF x, y, z, apart
<1>4. CASE apart = 0
  <2>1. product = 0
    BY <1>4
  <2> HIDE DEF product
  <2> QED BY <1>1, <1>3, <2>1 DEF z, x
<1>5. CASE apart >= 1
  <2>1. PICK more \in Nat : apart = 1 + more
    <3>1. apart - 1 \in Nat /\ apart = 1 + (apart - 1)
      BY <1>3, <1>5
    <3> QED BY <3>1
  <2>2. product = n + n * more /\ n * more \in Nat
    BY <2>1
  <2> HIDE DEF product
  <2> QED BY <1>1, <1>3, <2>2
<1>6. CASE apart <= -1
  <2>1. PICK more \in Nat : apart = -1 - more
    <3>1. -1 - apart \in Nat /\ apart = -1 - (-1 - apart)
      BY <1>3, <1>6
    <3> QED BY <3>1
  <2>2. product = -n - n * more /\ n * more \in Nat
    BY <2>1
  <2> HIDE DEF product
  <2> QED BY <1>1, <1>3, <2>2
<1> QED BY <1>3, <1>4, <1>5, <1>6

\* A time in the range of a type is not changed by it.
LEMMA InRange ==
  ASSUME NEW n \in Nat, n >= 1, NEW x \in 0..(n - 1)
  PROVE  x % n = x
<1>1. n * 0 + x = x
  OBVIOUS
<1>2. (n * 0 + x) % n = x
  BY Remainder
<1> QED BY <1>1, <1>2

\* A script's tic and toc measure any time that fits 32 bits, at whatever time the
\* device has reached, and a timer that was set runs out when its delay has passed,
\* not before, and stays so: for every width of the two types and every time and
\* delay (SwTimer_tic, SwTimer_toc, SwTimer_test, and timer_toc of Lua).
THEOREM TimesExact ==
  ASSUME Half \in Nat \ {0}, Full \in Nat \ {0}, Thousand \in Nat \ {0},
         NEW start \in Nat, NEW elapsed \in Nat, NEW us \in Nat, start + elapsed < Full
  PROVE  Timer!ElapsedIsExact(start, elapsed) /\ Timer!RunsOutOnce(start, elapsed, us)
<1> DEFINE now == start + elapsed
           tic == start % Half
           turns == start \div Half
           base == Half * turns
<1>1. /\ tic \in 0..(Half - 1) /\ turns \in Nat /\ start = base + tic /\ base \in Nat
  OBVIOUS
<1> HIDE DEF tic, turns
<1>2. now - tic = base + elapsed /\ base + elapsed \in 0..(Full - 1)
  <2> HIDE DEF base
  <2> QED BY <1>1
<1>3. Timer!Toc(now, Timer!Tic(start)) = base + elapsed
  <2>1. (base + elapsed) % Full = base + elapsed
    <3> HIDE DEF base
    <3> QED BY <1>2, InRange
  <2>2. Timer!Toc(now, tic) = (now - tic) % Full
    BY DEF Timer!Toc, Timer!Delta
  <2>3. Timer!Tic(start) = tic
    BY DEF Timer!Tic, tic
  <2> QED BY <1>2, <2>1, <2>2, <2>3
<1>4. elapsed % Full = elapsed /\ now - start = elapsed
  <2>1. elapsed \in 0..(Full - 1) /\ now - start = elapsed
    OBVIOUS
  <2> QED BY <2>1, InRange
<1>5. ASSUME elapsed < Half PROVE (base + elapsed) % Half = elapsed
  BY <1>1, <1>5, Remainder
<1>6. ASSUME start < Half PROVE base = 0
  <2>1. start % Half = start
    BY <1>6, InRange
  <2> HIDE DEF base
  <2> QED BY <1>1, <2>1 DEF tic
<1>7. Timer!ElapsedIsExact(start, elapsed)
  <2>1. elapsed < Half => Timer!LuaToc(now, Timer!Tic(start)) = elapsed \div Thousand
    BY <1>3, <1>5 DEF Timer!LuaToc
  <2>2. start < Half => Timer!Toc(now, Timer!Tic(start)) = elapsed
    BY <1>3, <1>6
  <2> QED BY <2>1, <2>2 DEF Timer!ElapsedIsExact
<1>8. Timer!RunsOutOnce(start, elapsed, us)
  <2> DEFINE swt == Timer!SetUs(start, us)
  <2>1. swt.state = "running" /\ swt.capture = start /\ swt.delay = us
        /\ [swt EXCEPT !.state = "expired"].state = "expired"
    BY DEF Timer!SetUs
  <2>2. Timer!Delta(now, start) = elapsed
    BY <1>4 DEF Timer!Delta
  <2> HIDE DEF swt, now
  <2>3. Timer!Test(swt, now) = IF elapsed >= us THEN [swt EXCEPT !.state = "expired"] ELSE swt
    BY <2>1, <2>2 DEF Timer!Test
  <2>4. Timer!Expired(swt, now) <=> elapsed >= us
    BY <2>1, <2>3 DEF Timer!Expired
  <2>5. elapsed >= us => Timer!Expired(Timer!Test(swt, now), start)
    <3> SUFFICES ASSUME elapsed >= us PROVE Timer!Expired(Timer!Test(swt, now), start)
      OBVIOUS
    <3> DEFINE then == Timer!Test(swt, now)
    <3>1. then.state = "expired"
      BY <2>1, <2>3
    <3> HIDE DEF then
    <3>2. Timer!Test(then, start).state = "expired"
      BY <3>1 DEF Timer!Test
    <3> QED BY <3>2 DEF Timer!Expired, then
  <2> QED BY <2>4, <2>5 DEF Timer!RunsOutOnce, swt, now
<1> QED BY <1>7, <1>8

-----------------------------------------------------------------------------
(* LedColour *)
Colour == INSTANCE LedColour

Channel == 0..255
Hsv == [h : Channel, s : Channel, v : Channel]

\* The part of a distance that i of n steps have covered.
LEMMA StepsFall ==
  ASSUME NEW d \in Nat, NEW n \in Nat, n >= 1, NEW i \in 0..n
  PROVE  LET q == d \div n IN q \in 0..d /\ i * q \in 0..d
<1> DEFINE q == d \div n
           rest == d % n
           all == n * q
           covered == i * q
           left == (n - i) * q
<1>1. q \in Nat /\ rest \in Nat /\ d = all + rest
  OBVIOUS
<1>2. i \in Nat /\ n - i \in Nat /\ n - 1 \in Nat
  OBVIOUS
<1> HIDE DEF q, rest
<1>3. covered \in Nat /\ left \in Nat /\ all = covered + left
  BY <1>1, <1>2
<1>4. all = q + (n - 1) * q /\ (n - 1) * q \in Nat
  BY <1>1, <1>2
<1> DEFINE others == (n - 1) * q
<1> HIDE DEF all, covered, left, others
<1>5. q <= d /\ covered <= d
  BY <1>1, <1>3, <1>4 DEF others
<1> QED BY <1>1, <1>3, <1>5 DEF covered, q

\* Quotients are cut toward zero.
LEMMA QuotientOdd ==
  ASSUME NEW x \in Nat, NEW n \in Nat, n >= 1
  PROVE  Colour!Quotient(-x, n) = -(x \div n)
<1> DEFINE q == x \div n
<1>1. q \in 0..x
  <2>1. 0 \in 0..n
    OBVIOUS
  <2> QED BY <2>1, StepsFall
<1>2. -(-x) = x /\ (-x >= 0 => -x = x /\ x = 0)
  OBVIOUS
<1>3. CASE -x >= 0
  <2>1. (-x) \div n = q /\ q = 0
    BY <1>1, <1>2, <1>3
  <2> HIDE DEF q
  <2>2. -q = 0 - q
    BY <1>1
  <2>3. 0 - q = q
    BY <2>1
  <2> QED BY <1>3, <2>1, <2>2, <2>3, Zenon DEF Colour!Quotient, q
<1>4. CASE ~(-x >= 0)
  BY <1>2, <1>4 DEF Colour!Quotient
<1> QED BY <1>3, <1>4

\* What the accumulator of a channel that starts at a holds after i of n steps, for
\* a distance d up or down.
Increment(dist, n)  == Colour!Word(Colour!Quotient(dist, n) * 2)
Ahead(a, d, n, i)   == Colour!Word(a * 256 + i * Increment(d * 128, n))
Behind(a, d, n, i)  == Colour!Word(a * 256 + i * Increment(-(d * 128), n))

LEMMA ChannelUp ==
  ASSUME NEW a \in Channel, NEW d \in Channel, NEW n \in Nat, n >= 1, NEW i \in 0..n
  PROVE  \E p \in 0..(d * 256) : Ahead(a, d, n, i) = (a * 256 + p) % 65536
<1> DEFINE q == (d * 128) \div n
           p == i * q
<1>1. d * 128 \in Nat /\ d * 128 <= 32640
  BY DEF Channel
<1>2. q \in 0..(d * 128) /\ p \in 0..(d * 128)
  BY <1>1, StepsFall
<1>3. Colour!Quotient(d * 128, n) = q
  BY <1>1 DEF Colour!Quotient
<1> HIDE DEF q
<1>4. Colour!Word(q * 2) = q * 2
  BY <1>1, <1>2 DEF Colour!Word
<1>5. i * (q * 2) = 2 * p
  BY <1>2
<1> HIDE DEF p
<1>6. 2 * p \in 0..(d * 256)
  BY <1>2 DEF Channel
<1> QED BY <1>3, <1>4, <1>5, <1>6 DEF Colour!Word, Ahead, Increment

\* And for a distance d down: the increment is large, and the sum wraps.
LEMMA ChannelDown ==
  ASSUME NEW a \in Channel, NEW d \in Channel, NEW n \in Nat, n >= 1, NEW i \in 0..n
  PROVE  \E p \in 0..(d * 256) : Behind(a, d, n, i) = (a * 256 - p) % 65536
<1> DEFINE q == (d * 128) \div n
           p == i * q
<1>1. d * 128 \in Nat /\ d * 128 <= 32640
  BY DEF Channel
<1>2. q \in 0..(d * 128) /\ p \in 0..(d * 128)
  BY <1>1, StepsFall
<1>3. Colour!Quotient(-(d * 128), n) = -q
  <2> DEFINE x == d * 128
  <2>1. x \in Nat
    BY <1>1
  <2> HIDE DEF x
  <2>2. Colour!Quotient(-x, n) = -(x \div n)
    BY <2>1, QuotientOdd
  <2> QED BY <2>2 DEF x
<1> HIDE DEF q
<1> DEFINE inc == Increment(-(d * 128), n)
<1>4. inc = Colour!Word((-q) * 2)
  BY <1>3 DEF Increment
<1> HIDE DEF inc
<1>5. ASSUME q = 0 PROVE \E b \in 0..(d * 256) : a * 256 + i * inc = a * 256 - b
  <2>1. inc = 0
    BY <1>4, <1>5 DEF Colour!Word
  <2>2. i * inc = 0 /\ 0 \in 0..(d * 256)
    <3>1. i * 0 = 0 /\ 0 \in 0..(d * 256)
      BY DEF Channel
    <3> QED BY <2>1, <3>1, Zenon
  <2>3. a * 256 + i * inc = a * 256 - 0
    BY <2>2 DEF Channel
  <2> QED BY <2>2, <2>3
<1>6. ASSUME q # 0
      PROVE  \E b \in 0..(d * 256) : a * 256 + i * inc = a * 256 - b + 65536 * i
  <2>1. inc = 65536 - q * 2
    BY <1>1, <1>2, <1>4, <1>6 DEF Colour!Word
  <2>2. i * (65536 - q * 2) = 65536 * i - 2 * p
    BY <1>2
  <2> HIDE DEF p
  <2>3. 2 * p \in 0..(d * 256)
    BY <1>2 DEF Channel
  <2>4. a * 256 + i * inc = a * 256 - 2 * p + 65536 * i
    BY <1>2, <2>1, <2>2 DEF Channel
  <2> QED BY <2>3, <2>4
<1>7. PICK b \in 0..(d * 256) : \/ a * 256 + i * inc = a * 256 - b
                              \/ a * 256 + i * inc = a * 256 - b + 65536 * i
  BY <1>5, <1>6
<1> DEFINE sum == a * 256 + i * inc
           left == a * 256 - b
<1>8. left \in Int /\ i \in Int /\ (sum = left \/ sum = left + 65536 * i)
  BY <1>7 DEF Channel
<1> HIDE DEF sum, left
<1>9. sum % 65536 = left % 65536
  BY <1>8
<1> QED BY <1>7, <1>9 DEF Colour!Word, sum, left, inc, Behind

\* Sixteen bits keep a number that fits, and the pattern of a negative one is read back.
LEMMA ReadBack ==
  ASSUME NEW x \in Int, 0 <= x, x <= 32640
  PROVE  Colour!Signed16(x) = x
<1>1. x % 65536 = x /\ x < 32768
  OBVIOUS
<1> QED BY <1>1 DEF Colour!Signed16, Colour!Word

LEMMA ReadBackNegative ==
  ASSUME NEW x \in Int, 0 < x, x <= 32640
  PROVE  Colour!Signed16(-x) = -x
<1>1. (-x) % 65536 = 65536 - x
  OBVIOUS
<1>2. 65536 - x >= 32768
  OBVIOUS
<1>3. 65536 - x - 65536 = -x
  OBVIOUS
<1> QED BY <1>1, <1>2, <1>3 DEF Colour!Signed16, Colour!Word

\* A distance of a channel fits the 16 bits it is kept in.
LEMMA DistanceFits ==
  ASSUME NEW d \in Channel
  PROVE  Colour!Signed16(d * 128) = d * 128 /\ Colour!Signed16(-(d * 128)) = -(d * 128)
<1> DEFINE x == d * 128
<1>1. x \in Int /\ 0 <= x /\ x <= 32640
  BY DEF Channel
<1> HIDE DEF x
<1>2. Colour!Signed16(x) = x
  BY <1>1, ReadBack
<1>3. Colour!Signed16(-x) = -x
  <2>1. CASE x = 0
    <3>1. -x = 0 - x
      BY <1>1
    <3>2. 0 - x = x
      BY <2>1
    <3> QED BY <1>2, <3>1, <3>2, Zenon
  <2>2. CASE x # 0
    BY <1>1, <2>2, ReadBackNegative
  <2> QED BY <2>1, <2>2
<1> QED BY <1>2, <1>3 DEF x

\* Saturation and value.
LEMMA PlainChannel ==
  ASSUME NEW a \in Channel, NEW e \in Channel, NEW n \in Nat, n >= 1, NEW i \in 0..n
  PROVE  Colour!Between(
           Colour!Word(a * 256 + i * Increment(Colour!Signed16((e - a) * 128), n)) \div 256, a, e)
<1> DEFINE at == Colour!Word(a * 256 + i * Increment(Colour!Signed16((e - a) * 128), n))
<1>1. CASE e >= a
  <2>1. PICK d \in Channel : d <= 255 - a /\ e = a + d /\ e - a = d
    <3>1. e - a \in Channel /\ e - a <= 255 - a /\ e = a + (e - a)
      BY <1>1 DEF Channel
    <3> QED BY <3>1
  <2>2. at = Ahead(a, d, n, i)
    BY <2>1, DistanceFits DEF Ahead
  <2>3. PICK p \in 0..(d * 256) : Ahead(a, d, n, i) = (a * 256 + p) % 65536
    BY ChannelUp
  <2> HIDE DEF at
  <2>4. at \div 256 \in a..(a + d)
    BY <2>1, <2>2, <2>3 DEF Channel
  <2>5. a <= at \div 256 /\ at \div 256 <= e
    BY <2>1, <2>4 DEF Channel
  <2> QED BY <2>5 DEF Colour!Between, at
<1>2. CASE ~(e >= a)
  <2>1. PICK d \in Channel : d <= a /\ e = a - d /\ (e - a) * 128 = -(d * 128)
    <3>1. a - e \in Channel /\ a - e <= a /\ e = a - (a - e) /\ (e - a) * 128 = -((a - e) * 128)
      BY <1>2 DEF Channel
    <3> QED BY <3>1
  <2>2. at = Behind(a, d, n, i)
    BY <2>1, DistanceFits DEF Behind
  <2>3. PICK p \in 0..(d * 256) : Behind(a, d, n, i) = (a * 256 - p) % 65536
    BY ChannelDown
  <2> HIDE DEF at
  <2>4. at \div 256 \in (a - d)..a
    BY <2>1, <2>2, <2>3 DEF Channel
  <2>5. e <= at \div 256 /\ at \div 256 <= a
    BY <2>1, <2>4 DEF Channel
  <2> QED BY <2>5 DEF Colour!Between, at
<1> QED BY <1>1, <1>2 DEF Channel

\* The hue, which goes round.
LEMMA HueChannel ==
  ASSUME NEW a \in Channel, NEW d \in Channel, NEW n \in Nat, n >= 1, NEW i \in 0..n
  PROVE  /\ Colour!Byte(Ahead(a, d, n, i) \div 256 - a) <= d
         /\ Colour!Byte(a - Behind(a, d, n, i) \div 256) <= d
<1> DEFINE up == Ahead(a, d, n, i)
           down == Behind(a, d, n, i)
<1>1. \E p \in 0..(d * 256) : up = (a * 256 + p) % 65536
  BY ChannelUp
<1>2. \E p \in 0..(d * 256) : down = (a * 256 - p) % 65536
  BY ChannelDown
<1> HIDE DEF up, down
<1>3. (up \div 256 - a) % 256 <= d
  BY <1>1 DEF Channel
<1>4. (a - down \div 256) % 256 <= d
  BY <1>2 DEF Channel
<1> QED BY <1>3, <1>4 DEF Colour!Byte, up, down

\* Every colour of every gradient lies between its two ends, on the arc of hues that
\* the direction asks for, for any two colours, any direction and any number of steps:
\* the unsigned accumulators that the signed increments of get_gradient_iter are added
\* to never overshoot an end or wrap.
THEOREM GradientBetween ==
  ASSUME NEW start \in Hsv, NEW end \in Hsv, NEW way, NEW numSteps \in Nat, numSteps >= 1
  PROVE  Colour!GradientStaysBetween(start, end, way, numSteps)
<1> DEFINE delta == Colour!GradientDelta(start, end, way, numSteps)
           hueDelta == Colour!Byte(end.h - start.h)
           back == Colour!Byte(256 - hueDelta)
           fwd == Colour!Direction(way, hueDelta) = "fwd"
<1>1. /\ start.h \in Channel /\ start.s \in Channel /\ start.v \in Channel
      /\ end.h \in Channel /\ end.s \in Channel /\ end.v \in Channel
  BY DEF Hsv
<1>2. hueDelta \in Channel /\ back \in Channel
  <2>1. hueDelta \in Channel
    <3>1. \A x, y \in Channel : (x - y) % 256 \in Channel
      BY DEF Channel
    <3> QED BY <1>1, <3>1 DEF Colour!Byte
  <2> HIDE DEF hueDelta
  <2> QED BY <2>1 DEF Channel, Colour!Byte
<1>3. /\ delta.s = Increment(Colour!Signed16((end.s - start.s) * 128), numSteps)
      /\ delta.v = Increment(Colour!Signed16((end.v - start.v) * 128), numSteps)
      /\ delta.h = Increment(Colour!HueDistance(start, end, way), numSteps)
  BY DEF Colour!GradientDelta, Increment
<1>4. Colour!HueDistance(start, end, way) = IF fwd THEN hueDelta * 128 ELSE -(back * 128)
  <2>1. Colour!HueDistance(start, end, way)
          = IF fwd THEN Colour!Signed16(hueDelta * 128) ELSE Colour!Signed16(-(back * 128))
    BY DEF Colour!HueDistance
  <2> HIDE DEF hueDelta, back, fwd
  <2>2. /\ Colour!Signed16(hueDelta * 128) = hueDelta * 128
        /\ Colour!Signed16(-(back * 128)) = -(back * 128)
    BY <1>2, DistanceFits
  <2> QED BY <2>1, <2>2
<1> HIDE DEF delta, fwd
<1> SUFFICES ASSUME NEW i \in 0..numSteps
             PROVE  LET c == Colour!GradientAt(start, delta, i)
                    IN /\ Colour!Between(c.s, start.s, end.s)
                       /\ Colour!Between(c.v, start.v, end.v)
                       /\ IF fwd THEN Colour!Byte(c.h - start.h) <= hueDelta
                                 ELSE Colour!Byte(start.h - c.h) <= back
  BY DEF Colour!GradientStaysBetween, delta, fwd
<1> DEFINE c == Colour!GradientAt(start, delta, i)
<1>5. /\ c.h = Colour!Word(start.h * 256 + i * delta.h) \div 256
      /\ c.s = Colour!Word(start.s * 256 + i * delta.s) \div 256
      /\ c.v = Colour!Word(start.v * 256 + i * delta.v) \div 256
  BY DEF Colour!GradientAt
<1> HIDE DEF c, hueDelta, back
<1>6. Colour!Between(c.s, start.s, end.s)
  BY <1>1, <1>3, <1>5, PlainChannel
<1>7. Colour!Between(c.v, start.v, end.v)
  BY <1>1, <1>3, <1>5, PlainChannel
<1>8. CASE fwd
  <2>1. delta.h = Increment(hueDelta * 128, numSteps)
    BY <1>3, <1>4, <1>8
  <2>2. Colour!Byte(c.h - start.h) <= hueDelta
    BY <1>1, <1>2, <1>5, <2>1, HueChannel DEF Ahead
  <2> QED BY <1>6, <1>7, <1>8, <2>2 DEF c
<1>9. CASE ~fwd
  <2>1. delta.h = Increment(-(back * 128), numSteps)
    BY <1>3, <1>4, <1>9
  <2>2. Colour!Byte(start.h - c.h) <= back
    BY <1>1, <1>2, <1>5, <2>1, HueChannel DEF Behind
  <2> QED BY <1>6, <1>7, <1>9, <2>2 DEF c
<1> QED BY <1>8, <1>9

\* A channel darkened to the level that x of 255 leaves, and the part of a
\* saturation that a position on an arc of the colour circle takes.
Shade(v, x) == (v * (255 - x)) \div 256
Part(s, m)  == (s * m) \div 256
Fade(v, s, m) == Shade(v, Part(s, m))

\* The quotient by 256 of what grows by no more than k * 256.
LEMMA GrowsBy ==
  ASSUME NEW x \in Nat, NEW y \in Nat, NEW k \in Nat, x <= y, y <= x + 256 * k
  PROVE  /\ x \div 256 \in Nat /\ y \div 256 \in Nat
         /\ x \div 256 <= y \div 256 /\ y \div 256 <= x \div 256 + k
  OBVIOUS

\* x of something that is at most b, is at most x times b.
LEMMA AtMost ==
  ASSUME NEW a \in Nat, NEW b \in Nat, NEW x \in Nat, a <= b
  PROVE  a * x \in Nat /\ x * a = a * x /\ a * x <= b * x
<1>1. a * x \in Nat /\ x * a = a * x
  OBVIOUS
<1>2. b * x = a * x + (b - a) * x
  OBVIOUS
<1>3. (b - a) * x \in Nat
  <2> DEFINE c == b - a
  <2>1. c \in Nat
    OBVIOUS
  <2> HIDE DEF c
  <2>2. c * x \in Nat
    BY <2>1
  <2> QED BY <2>2 DEF c
<1> DEFINE ax == a * x
           bx == b * x
           cx == (b - a) * x
<1>4. ax \in Nat /\ cx \in Nat /\ bx = ax + cx
  BY <1>1, <1>2, <1>3
<1> HIDE DEF ax, bx, cx
<1>5. ax <= bx
  BY <1>4
<1> QED BY <1>1, <1>5 DEF ax, bx

LEMMA ShadeFalls ==
  ASSUME NEW v \in Channel, NEW x \in Int, NEW y \in Int, -1 <= x, x <= y, y <= 255,
         NEW k \in Nat, y - x <= k
  PROVE  /\ Shade(v, x) \in 0..v /\ Shade(v, y) \in 0..v
         /\ Shade(v, y) <= Shade(v, x) /\ Shade(v, x) <= Shade(v, y) + k
<1> DEFINE high == 255 - x
           low == 255 - y
           gap == y - x
           vh == v * high
           vl == v * low
           vg == v * gap
<1>1. high \in Nat /\ low \in Nat /\ gap \in Nat /\ high <= 256 /\ low <= 256 /\ gap <= k
      /\ high = low + gap /\ v \in Nat /\ v <= 256
  BY DEF Channel
<1> HIDE DEF high, low, gap
<1>2. vh = vl + vg
  BY <1>1
<1>3. vg \in Nat /\ vg <= 256 * k
  <2>1. v * gap <= 256 * gap /\ v * gap \in Nat
    BY <1>1, AtMost
  <2>2. gap * 256 <= k * 256
    BY <1>1
  <2> QED BY <1>1, <2>1, <2>2
<1>4. vl \in Nat /\ vl <= 256 * v /\ vh \in Nat /\ vh <= 256 * v
  <2>1. low * v <= 256 * v /\ v * low = low * v /\ low * v \in Nat
    BY <1>1, AtMost
  <2>2. high * v <= 256 * v /\ v * high = high * v /\ high * v \in Nat
    BY <1>1, AtMost
  <2> QED BY <2>1, <2>2
<1> HIDE DEF vh, vl, vg
<1>5. vl <= vh /\ vh <= vl + 256 * k
  BY <1>2, <1>3, <1>4
<1>6. /\ vl \div 256 \in Nat /\ vh \div 256 \in Nat
      /\ vl \div 256 <= vh \div 256 /\ vh \div 256 <= vl \div 256 + k
  BY <1>4, <1>5, GrowsBy
<1>7. vh \div 256 <= v
  <2>1. v \in Nat
    BY <1>1
  <2> QED BY <1>4, <2>1
<1>8. vh \div 256 \in 0..v /\ vl \div 256 \in 0..v
  BY <1>1, <1>6, <1>7
<1>9. Shade(v, x) = vh \div 256 /\ Shade(v, y) = vl \div 256
  BY DEF Shade, vh, vl, high, low
<1> QED BY <1>6, <1>8, <1>9

LEMMA PartRises ==
  ASSUME NEW s \in Channel, NEW m \in Int, NEW n \in Int, 0 <= m, m <= n, n <= 256,
         NEW k \in Nat, n - m <= k
  PROVE  /\ Part(s, m) \in 0..s /\ Part(s, n) \in 0..s
         /\ Part(s, m) <= Part(s, n) /\ Part(s, n) <= Part(s, m) + k
<1> DEFINE gap == n - m
           sm == s * m
           sn == s * n
           sg == s * gap
<1>1. /\ m \in Nat /\ n \in Nat /\ gap \in Nat /\ gap <= k /\ n = m + gap
      /\ s \in Nat /\ s <= 256 /\ m <= 256
  BY DEF Channel
<1> HIDE DEF gap
<1>2. sn = sm + sg
  BY <1>1
<1>3. sg \in Nat /\ sg <= 256 * k
  <2>1. s * gap <= 256 * gap /\ s * gap \in Nat
    BY <1>1, AtMost
  <2>2. gap * 256 <= k * 256
    BY <1>1
  <2> QED BY <1>1, <2>1, <2>2
<1>4. sm \in Nat /\ sm <= 256 * s /\ sn \in Nat /\ sn <= 256 * s
  <2>1. m * s <= 256 * s /\ s * m = m * s /\ m * s \in Nat
    BY <1>1, AtMost
  <2>2. n * s <= 256 * s /\ s * n = n * s /\ n * s \in Nat
    BY <1>1, AtMost
  <2> QED BY <2>1, <2>2
<1> HIDE DEF sm, sn, sg
<1>5. sm <= sn /\ sn <= sm + 256 * k
  BY <1>2, <1>3, <1>4
<1>6. /\ sm \div 256 \in Nat /\ sn \div 256 \in Nat
      /\ sm \div 256 <= sn \div 256 /\ sn \div 256 <= sm \div 256 + k
  BY <1>4, <1>5, GrowsBy
<1>7. sn \div 256 <= s
  BY <1>1, <1>4
<1>8. sm \div 256 \in 0..s /\ sn \div 256 \in 0..s
  BY <1>1, <1>6, <1>7
<1>9. Part(s, m) = sm \div 256 /\ Part(s, n) = sn \div 256
  BY DEF Part, sm, sn
<1> QED BY <1>6, <1>8, <1>9

\* Positions that differ by k make shades that differ by no more.
LEMMA FadeSlow ==
  ASSUME NEW v \in Channel, NEW s \in Channel,
         NEW m \in Int, NEW n \in Int, 0 <= m, m <= n, n <= 256,
         NEW k \in Nat, n - m <= k
  PROVE  /\ Fade(v, s, m) \in 0..v /\ Fade(v, s, n) \in 0..v
         /\ Fade(v, s, n) <= Fade(v, s, m) /\ Fade(v, s, m) <= Fade(v, s, n) + k
<1> DEFINE x == Part(s, m)
           y == Part(s, n)
<1>1. x \in 0..s /\ y \in 0..s /\ x <= y /\ y <= x + k
  BY PartRises
<1> HIDE DEF x, y
<1>2. x \in Int /\ y \in Int /\ -1 <= x /\ x <= y /\ y <= 255 /\ y - x <= k
  BY <1>1 DEF Channel
<1>3. /\ Shade(v, x) \in 0..v /\ Shade(v, y) \in 0..v
      /\ Shade(v, y) <= Shade(v, x) /\ Shade(v, x) <= Shade(v, y) + k
  BY <1>2, ShadeFalls
<1> QED BY <1>3 DEF Fade, x, y

\* The head of an arc is as bright as the value asked for, but for one.
LEMMA FadeStarts ==
  ASSUME NEW v \in Channel, NEW s \in Channel, NEW m \in 0..256
  PROVE  v <= Fade(v, s, m) + m + 1
<1> DEFINE x == Part(s, m)
<1>1. x \in 0..s /\ x <= m
  <2>1. /\ Part(s, 0) \in 0..s /\ Part(s, m) \in 0..s
        /\ Part(s, 0) <= Part(s, m) /\ Part(s, m) <= Part(s, 0) + m
    BY PartRises
  <2>2. Part(s, 0) = 0
    BY DEF Part, Channel
  <2> QED BY <2>1, <2>2
<1> HIDE DEF x
<1>2. x \in Int /\ -1 <= x /\ x <= 255 /\ x - (-1) <= m + 1 /\ m + 1 \in Nat
  BY <1>1 DEF Channel
<1>3. Shade(v, x) \in 0..v /\ Shade(v, -1) <= Shade(v, x) + (m + 1)
  BY <1>2, ShadeFalls
<1>4. Shade(v, -1) = v
  BY DEF Shade, Channel
<1>5. Shade(v, x) \in Int /\ v \in Int
  BY <1>3 DEF Channel
<1>6. v <= Shade(v, x) + m + 1
  BY <1>3, <1>4, <1>5
<1> QED BY <1>6 DEF Fade, x

\* The colour at a position m of the arc r of the colour circle.
RGB(r, g, b) == [r |-> r, g |-> g, b |-> b]

Wheel(v, s, r, m) ==
  LET p == Fade(v, s, 256)
      q == Fade(v, s, m)
      t == Fade(v, s, 255 - m)
  IN IF r = 0 THEN RGB(v, t, p)
     ELSE IF r = 1 THEN RGB(q, v, p)
     ELSE IF r = 2 THEN RGB(p, v, t)
     ELSE IF r = 3 THEN RGB(p, q, v)
     ELSE IF r = 4 THEN RGB(t, p, v)
     ELSE RGB(v, p, q)

LEMMA WheelIs ==
  ASSUME NEW hsv \in Hsv, hsv.s # 0, NEW r \in 0..5, NEW d \in 0..42, hsv.h = 43 * r + d
  PROVE  Colour!Hsv2Rgb(hsv) = Wheel(hsv.v, hsv.s, r, 6 * d)
<1> DEFINE h == hsv.h
           s == hsv.s
           v == hsv.v
           m == 6 * d
           region == h \div 43
           remainder == Colour!Byte((h - region * 43) * 6)
<1>1. h \in Channel /\ s \in Channel /\ v \in Channel /\ h = 43 * r + d
  BY DEF Hsv
<1> HIDE DEF h, s, v
<1>2. region = r
  BY <1>1
<1>3. remainder = m /\ m \in 0..252
  BY <1>1, <1>2 DEF Colour!Byte
<1> HIDE DEF region, remainder, m
<1>4. ASSUME NEW n \in 0..256
      PROVE  Colour!Byte((v * (255 - ((s * n) \div 256))) \div 256) = Fade(v, s, n)
  <2> DEFINE f == Fade(v, s, n)
  <2>1. f \in 0..v
    BY <1>1, FadeSlow
  <2>2. (v * (255 - ((s * n) \div 256))) \div 256 = f
    BY DEF Fade, Shade, Part
  <2> HIDE DEF f
  <2>3. f % 256 = f
    BY <1>1, <2>1 DEF Channel
  <2> QED BY <2>2, <2>3 DEF Colour!Byte, f
<1>5. Colour!Byte((v * (255 - s)) \div 256) = Fade(v, s, 256)
  <2>1. (s * 256) \div 256 = s
    BY <1>1 DEF Channel
  <2> QED BY <1>4, <2>1
<1>6. Colour!Byte((v * (255 - ((s * remainder) \div 256))) \div 256) = Fade(v, s, m)
  BY <1>3, <1>4
<1>7. Colour!Byte((v * (255 - ((s * (255 - remainder)) \div 256))) \div 256) = Fade(v, s, 255 - m)
  <2>1. 255 - m \in 0..256
    BY <1>3
  <2> QED BY <1>3, <1>4, <2>1
<1> DEFINE p == Colour!Byte((v * (255 - s)) \div 256)
           q == Colour!Byte((v * (255 - ((s * remainder) \div 256))) \div 256)
           t == Colour!Byte((v * (255 - ((s * (255 - remainder)) \div 256))) \div 256)
<1>8. Colour!Hsv2Rgb(hsv) =
        CASE region = 0 -> RGB(v, t, p)
          [] region = 1 -> RGB(q, v, p)
          [] region = 2 -> RGB(p, v, t)
          [] region = 3 -> RGB(p, q, v)
          [] region = 4 -> RGB(t, p, v)
          [] OTHER -> RGB(v, p, q)
  BY DEF Colour!Hsv2Rgb, RGB, h, s, v, region, remainder
<1>9. p = Fade(v, s, 256) /\ q = Fade(v, s, m) /\ t = Fade(v, s, 255 - m)
  BY <1>5, <1>6, <1>7
<1> HIDE DEF p, q, t
<1>10. Colour!Hsv2Rgb(hsv) = Wheel(v, s, r, m)
  BY <1>2, <1>8, <1>9 DEF Wheel
<1> QED BY <1>10 DEF v, s, m

Primary == {"r", "g", "b"}

\* No channel is far from the same of the other colour, nor above v; one is v.
Near(a, b, v, jump) ==
  /\ \A c \in Primary : Colour!Apart(a[c], b[c]) <= jump /\ a[c] <= v
  /\ \E c \in Primary : a[c] = v

\* A step along an arc.
LEMMA Along ==
  ASSUME NEW v \in Channel, NEW s \in Channel, NEW r \in 0..5, NEW d \in 0..41
  PROVE  Near(Wheel(v, s, r, 6 * d), Wheel(v, s, r, 6 * (d + 1)), v, 16)
<1> DEFINE m == 6 * d
           n == 6 * (d + 1)
           p == Fade(v, s, 256)
           q == Fade(v, s, m)
           t == Fade(v, s, 255 - m)
           q1 == Fade(v, s, n)
           t1 == Fade(v, s, 255 - n)
<1>1. m \in 0..246 /\ n = m + 6 /\ v \in Int
  BY DEF Channel
<1> HIDE DEF m, n
<1>2. q \in 0..v /\ q1 \in 0..v /\ q1 <= q /\ q <= q1 + 6
  <2>1. m \in Int /\ n \in Int /\ 0 <= m /\ m <= n /\ n <= 256 /\ n - m <= 6
    BY <1>1
  <2> QED BY <2>1, FadeSlow
<1>3. t \in 0..v /\ t1 \in 0..v /\ t <= t1 /\ t1 <= t + 6
  <2> DEFINE x == 255 - n
             y == 255 - m
  <2>1. x \in Int /\ y \in Int /\ 0 <= x /\ x <= y /\ y <= 256 /\ y - x <= 6
    BY <1>1
  <2> HIDE DEF x, y
  <2>2. /\ Fade(v, s, x) \in 0..v /\ Fade(v, s, y) \in 0..v
        /\ Fade(v, s, y) <= Fade(v, s, x) /\ Fade(v, s, x) <= Fade(v, s, y) + 6
    BY <2>1, FadeSlow
  <2> QED BY <2>2 DEF x, y
<1>4. p \in 0..v
  BY FadeSlow
<1>5. /\ Wheel(v, s, r, m) = IF r = 0 THEN RGB(v, t, p) ELSE IF r = 1 THEN RGB(q, v, p)
                             ELSE IF r = 2 THEN RGB(p, v, t) ELSE IF r = 3 THEN RGB(p, q, v)
                             ELSE IF r = 4 THEN RGB(t, p, v) ELSE RGB(v, p, q)
      /\ Wheel(v, s, r, n) = IF r = 0 THEN RGB(v, t1, p) ELSE IF r = 1 THEN RGB(q1, v, p)
                             ELSE IF r = 2 THEN RGB(p, v, t1) ELSE IF r = 3 THEN RGB(p, q1, v)
                             ELSE IF r = 4 THEN RGB(t1, p, v) ELSE RGB(v, p, q1)
  BY DEF Wheel
<1> HIDE DEF p, q, t, q1, t1
<1>6. Near(Wheel(v, s, r, m), Wheel(v, s, r, n), v, 16)
  BY <1>1, <1>2, <1>3, <1>4, <1>5 DEF Near, Primary, RGB, Colour!Apart
<1> QED BY <1>6 DEF m, n

\* From the end of an arc to the head of the next.
LEMMA Across ==
  ASSUME NEW v \in Channel, NEW s \in Channel, NEW r \in 0..5
  PROVE  IF r = 5 THEN Near(Wheel(v, s, 5, 240), Wheel(v, s, 0, 0), v, 16)
                  ELSE Near(Wheel(v, s, r, 252), Wheel(v, s, r + 1, 0), v, 16)
<1> DEFINE F(x) == Fade(v, s, x)
<1>1. /\ F(0) \in 0..v /\ F(3) \in 0..v /\ F(15) \in 0..v
      /\ F(240) \in 0..v /\ F(252) \in 0..v /\ F(255) \in 0..v /\ F(256) \in 0..v
  BY FadeSlow
<1>2. v <= F(0) + 1 /\ v <= F(3) + 4
  <2>1. v <= F(0) + 0 + 1 /\ v <= F(3) + 3 + 1
    BY FadeStarts
  <2> HIDE DEF F
  <2> QED BY <1>1, <2>1
<1>3. /\ F(256) <= F(255) /\ F(255) <= F(256) + 1
      /\ F(256) <= F(252) /\ F(252) <= F(256) + 4
      /\ F(256) <= F(240) /\ F(240) <= F(256) + 16
  BY FadeSlow
<1>4. ASSUME NEW k \in 0..5
      PROVE  /\ Wheel(v, s, k, 252) = IF k = 0 THEN RGB(v, F(3), F(256)) ELSE IF k = 1 THEN RGB(F(252), v, F(256))
                             ELSE IF k = 2 THEN RGB(F(256), v, F(3)) ELSE IF k = 3 THEN RGB(F(256), F(252), v)
                             ELSE IF k = 4 THEN RGB(F(3), F(256), v) ELSE RGB(v, F(256), F(252))
             /\ Wheel(v, s, k, 0) = IF k = 0 THEN RGB(v, F(255), F(256)) ELSE IF k = 1 THEN RGB(F(0), v, F(256))
                             ELSE IF k = 2 THEN RGB(F(256), v, F(255)) ELSE IF k = 3 THEN RGB(F(256), F(0), v)
                             ELSE IF k = 4 THEN RGB(F(255), F(256), v) ELSE RGB(v, F(256), F(0))
  <2>1. 255 - 252 = 3 /\ 255 - 0 = 255
    OBVIOUS
  <2> HIDE DEF F
  <2> QED BY <2>1 DEF Wheel, F
<1>5. Wheel(v, s, 5, 240) = RGB(v, F(256), F(240))
  BY DEF Wheel
<1>6. v \in Int
  BY DEF Channel
<1> HIDE DEF F
<1>7. CASE r = 5
  <2>1. Wheel(v, s, 0, 0) = RGB(v, F(255), F(256))
    BY <1>4
  <2>2. Near(RGB(v, F(256), F(240)), RGB(v, F(255), F(256)), v, 16)
    BY <1>1, <1>3, <1>6 DEF Near, Primary, RGB, Colour!Apart
  <2> QED BY <1>5, <1>7, <2>1, <2>2
<1>8. CASE r # 5
  <2>1. r + 1 \in 0..5
    BY <1>8
  <2>2. Near(Wheel(v, s, r, 252), Wheel(v, s, r + 1, 0), v, 16)
    BY <1>1, <1>2, <1>3, <1>4, <1>6, <1>8, <2>1 DEF Near, Primary, RGB, Colour!Apart
  <2> QED BY <1>8, <2>2
<1> QED BY <1>7, <1>8

LEMMA CircleNear ==
  ASSUME NEW hsv \in Hsv
  PROVE  Near(Colour!Hsv2Rgb(hsv),
              Colour!Hsv2Rgb([hsv EXCEPT !.h = Colour!Byte(hsv.h + 1)]), hsv.v, 16)
<1> DEFINE h == hsv.h
           s == hsv.s
           v == hsv.v
           next == [hsv EXCEPT !.h = Colour!Byte(hsv.h + 1)]
           r == h \div 43
           d == h - 43 * (h \div 43)
<1>1. h \in Channel /\ s \in Channel /\ v \in Channel
  BY DEF Hsv
<1>2. /\ next.h = Colour!Byte(h + 1) /\ next.s = s /\ next.v = v
      /\ next.h \in Channel /\ next.h = IF h = 255 THEN 0 ELSE h + 1
  BY <1>1 DEF Hsv, Colour!Byte, Channel
<1>3. next \in Hsv
  BY <1>1, <1>2 DEF Hsv
<1>4. r \in 0..5 /\ d \in 0..42 /\ h = 43 * r + d /\ (r = 5 => d <= 40)
  BY <1>1 DEF Channel
<1> HIDE DEF h, s, v, next, r, d
<1>5. CASE s = 0
  <2>1. Colour!Hsv2Rgb(hsv) = RGB(v, v, v) /\ Colour!Hsv2Rgb(next) = RGB(v, v, v)
    BY <1>2, <1>5 DEF Colour!Hsv2Rgb, RGB, s, v
  <2>2. v \in Int
    BY <1>1 DEF Channel
  <2>3. Near(Colour!Hsv2Rgb(hsv), Colour!Hsv2Rgb(next), v, 16)
    BY <2>1, <2>2 DEF Near, Primary, RGB, Colour!Apart
  <2> QED BY <2>3 DEF next, v
<1>6. CASE s # 0
  <2>1. Colour!Hsv2Rgb(hsv) = Wheel(v, s, r, 6 * d)
    BY <1>4, <1>6, WheelIs DEF h, s, v
  <2>2. ASSUME NEW k \in 0..5, NEW e \in 0..42, next.h = 43 * k + e
        PROVE  Colour!Hsv2Rgb(next) = Wheel(v, s, k, 6 * e)
    BY <1>2, <1>3, <1>6, <2>2, WheelIs
  <2>3. CASE h = 255
    <3>1. r = 5 /\ d = 40 /\ 6 * d = 240 /\ next.h = 43 * 0 + 0 /\ 6 * 0 = 0
      BY <1>2, <1>4, <2>3
    <3>2. Colour!Hsv2Rgb(next) = Wheel(v, s, 0, 0)
      BY <2>2, <3>1
    <3>3. Near(Wheel(v, s, 5, 240), Wheel(v, s, 0, 0), v, 16)
      BY <1>1, Across
    <3> QED BY <2>1, <3>1, <3>2, <3>3 DEF next, v
  <2>4. CASE h # 255 /\ d = 42
    <3>1. r \in 0..4 /\ r # 5 /\ r + 1 \in 0..5 /\ 6 * d = 252 /\ next.h = 43 * (r + 1) + 0 /\ 6 * 0 = 0
      BY <1>2, <1>4, <2>4
    <3>2. Colour!Hsv2Rgb(next) = Wheel(v, s, r + 1, 0)
      BY <2>2, <3>1
    <3>3. Near(Wheel(v, s, r, 252), Wheel(v, s, r + 1, 0), v, 16)
      BY <1>1, <1>4, <3>1, Across
    <3> QED BY <2>1, <3>1, <3>2, <3>3 DEF next, v
  <2>5. CASE h # 255 /\ d # 42
    <3>1. d \in 0..41 /\ d + 1 \in 0..42 /\ next.h = 43 * r + (d + 1)
      BY <1>2, <1>4, <2>5
    <3>2. Colour!Hsv2Rgb(next) = Wheel(v, s, r, 6 * (d + 1))
      BY <1>4, <2>2, <3>1
    <3>3. Near(Wheel(v, s, r, 6 * d), Wheel(v, s, r, 6 * (d + 1)), v, 16)
      BY <1>1, <1>4, <3>1, Along
    <3> QED BY <2>1, <3>2, <3>3 DEF next, v
  <2> QED BY <2>3, <2>4, <2>5
<1> QED BY <1>5, <1>6

\* How hot a cell is after scaling, and how bright that is.
Heat(x) == Colour!Scale8Nz(x, 191)

LEMMA HeatRises ==
  ASSUME NEW x \in 0..254
  PROVE  Heat(x) \in 0..191 /\ Heat(x + 1) \in 0..191 /\ Heat(x) <= Heat(x + 1)
<1>1. ASSUME NEW y \in 0..255
      PROVE  Heat(y) = (y * 191) \div 256 + (IF y # 0 THEN 1 ELSE 0)
  <2>1. (y * 191) \div 256 \in 0..190
    OBVIOUS
  <2> DEFINE z == (y * 191) \div 256
  <2> HIDE DEF z
  <2>2. z % 256 = z
    BY <2>1 DEF z
  <2> QED BY <2>2 DEF Heat, Colour!Scale8Nz, Colour!Scale8, Colour!Byte, z
<1>2. x \in 0..255 /\ x + 1 \in 0..255 /\ x + 1 # 0
  OBVIOUS
<1> QED BY <1>1, <1>2

LEMMA BrightnessIs ==
  ASSUME NEW x \in 0..255, Heat(x) \in 0..191
  PROVE  Colour!Brightness(Colour!HeatColor(x)) =
           IF Heat(x) >= 128 THEN 510 + 4 * (Heat(x) - 128)
           ELSE IF Heat(x) >= 64 THEN 255 + 4 * (Heat(x) - 64)
           ELSE 4 * Heat(x)
<1> DEFINE t == Heat(x)
           ramp == Colour!Byte((t % 64) * 4)
<1>1. t \in 0..191
  OBVIOUS
<1>2. Colour!HeatColor(x) = CASE t >= 128 -> RGB(255, 255, ramp)
                              [] t \in 64..127 -> RGB(255, ramp, 0)
                              [] OTHER -> RGB(ramp, 0, 0)
  BY DEF Colour!HeatColor, RGB, Heat
<1> HIDE DEF t
<1>3. /\ t >= 128 => ramp = 4 * (t - 128)
      /\ t \in 64..127 => ramp = 4 * (t - 64)
      /\ t < 64 => ramp = 4 * t
  BY <1>1 DEF Colour!Byte
<1>4. ramp \in Int
  BY <1>1, <1>3
<1> HIDE DEF ramp
<1>5. CASE t >= 128
  <2>1. Colour!HeatColor(x) = RGB(255, 255, ramp)
    BY <1>1, <1>2, <1>5
  <2> QED BY <1>1, <1>3, <1>4, <1>5, <2>1 DEF Colour!Brightness, RGB, t
<1>6. CASE t \in 64..127
  <2>1. Colour!HeatColor(x) = RGB(255, ramp, 0)
    BY <1>1, <1>2, <1>6
  <2> QED BY <1>1, <1>3, <1>4, <1>6, <2>1 DEF Colour!Brightness, RGB, t
<1>7. CASE t < 64
  <2>1. Colour!HeatColor(x) = RGB(ramp, 0, 0)
    BY <1>1, <1>2, <1>7
  <2> QED BY <1>1, <1>3, <1>4, <1>7, <2>1 DEF Colour!Brightness, RGB, t
<1> QED BY <1>1, <1>5, <1>6, <1>7

(* hsv2rgb and get_heatcolor, for every colour of 8-bit channels: hues that     *)
(* differ by one give channels that differ by 16 or less, with the value asked  *)
(* for as the largest, and a hotter cell is never darker.                       *)
THEOREM ColoursSmooth ==
  ASSUME NEW hsv \in Hsv
  PROVE  Colour!ColoursAreSmooth(hsv, 16)
<1> DEFINE rgb == Colour!Hsv2Rgb(hsv)
           next == Colour!Hsv2Rgb([hsv EXCEPT !.h = Colour!Byte(hsv.h + 1)])
<1>1. Near(rgb, next, hsv.v, 16)
  BY CircleNear
<1>2. hsv.h < 255 => Colour!Brightness(Colour!HeatColor(hsv.h)) <= Colour!Brightness(Colour!HeatColor(hsv.h + 1))
  <2> DEFINE x == hsv.h
  <2>1. SUFFICES ASSUME x < 255
                 PROVE Colour!Brightness(Colour!HeatColor(x)) <= Colour!Brightness(Colour!HeatColor(x + 1))
    OBVIOUS
  <2>2. x \in 0..254 /\ x \in 0..255 /\ x + 1 \in 0..255
    BY <2>1 DEF Hsv, Channel
  <2> HIDE DEF x
  <2>3. Heat(x) \in 0..191 /\ Heat(x + 1) \in 0..191 /\ Heat(x) <= Heat(x + 1)
    BY <2>2, HeatRises
  <2> DEFINE t == Heat(x)
             u == Heat(x + 1)
             a == Colour!Brightness(Colour!HeatColor(x))
             b == Colour!Brightness(Colour!HeatColor(x + 1))
  <2>4. /\ a = IF t >= 128 THEN 510 + 4 * (t - 128) ELSE IF t >= 64 THEN 255 + 4 * (t - 64) ELSE 4 * t
        /\ b = IF u >= 128 THEN 510 + 4 * (u - 128) ELSE IF u >= 64 THEN 255 + 4 * (u - 64) ELSE 4 * u
    BY <2>2, <2>3, BrightnessIs
  <2>5. t \in 0..191 /\ u \in 0..191 /\ t <= u
    BY <2>3
  <2> HIDE DEF t, u, a, b
  <2>6. a <= b
    BY <2>4, <2>5
  <2> QED BY <2>6 DEF a, b
<1> HIDE DEF rgb, next
<1>3. Colour!ColoursAreSmooth(hsv, 16) <=>
        /\ \A c \in {"r", "g", "b"} : Colour!Apart(rgb[c], next[c]) <= 16 /\ rgb[c] <= hsv.v
        /\ \E c \in {"r", "g", "b"} : rgb[c] = hsv.v
        /\ hsv.h < 255 => Colour!Brightness(Colour!HeatColor(hsv.h)) <= Colour!Brightness(Colour!HeatColor(hsv.h + 1))
  BY DEF Colour!ColoursAreSmooth, rgb, next
<1> QED BY <1>1, <1>2, <1>3 DEF Near, Primary

-----------------------------------------------------------------------------
(* LfsBd.  lfs_t is a record s, and Word holds the words of the partition. *)
CONSTANTS BlockCount, BlockSize, CacheSize, ReadSize, Word

Bd == INSTANCE LfsBd

(* A set of naturals that holds 0, and with each number the next, holds all. *)
LEMMA SetInduction ==
  ASSUME NEW S \in SUBSET Nat, 0 \in S, \A n \in S : n + 1 \in S
  PROVE  S = Nat
<1> DEFINE R == {ss \in Nat \X Nat : ss[1] < ss[2]}
           T == Nat \ S
<1> SUFFICES ASSUME T # {} PROVE FALSE
  OBVIOUS
<1>1. IsWellFoundedOn(R, Nat)
  BY NatLessThanWellFounded DEF OpToRel
<1>2. PICK x \in T : \A y \in T : ~(<<y, x>> \in R)
  <2> HIDE DEF R, T
  <2>1. T \subseteq Nat
    BY DEF T
  <2> QED BY <1>1, <2>1, WFMin
<1>3. x \in Nat /\ x # 0
  OBVIOUS
<1>4. x - 1 \in Nat /\ <<x - 1, x>> \in R
  BY <1>3
<1>5. x - 1 \in S
  BY <1>2, <1>4
<1> QED BY <1>2, <1>3, <1>5

Geometry == Bd!GeometryAssumption /\ {Bd!Erased, Bd!Garbage} \subseteq Word

LEMMA GeometryIs ==
  ASSUME Geometry
  PROVE  /\ BlockCount \in Nat /\ BlockCount > 0 /\ BlockSize \in Nat /\ BlockSize > 0
         /\ CacheSize \in Nat /\ CacheSize > 0 /\ ReadSize \in Nat /\ ReadSize > 0
         /\ Bd!Erased \in Word /\ Bd!Garbage \in Word
         /\ ReadSize <= CacheSize
<1>1. /\ BlockCount \in Nat /\ BlockCount > 0 /\ BlockSize \in Nat /\ BlockSize > 0
      /\ CacheSize \in Nat /\ CacheSize > 0 /\ ReadSize \in Nat /\ ReadSize > 0
      /\ Bd!Erased \in Word /\ Bd!Garbage \in Word /\ CacheSize % ReadSize = 0
  BY DEF Geometry, Bd!GeometryAssumption
<1>2. CacheSize < ReadSize => CacheSize % ReadSize = CacheSize
  BY <1>1
<1> QED BY <1>1, <1>2

(* What lfs_t holds; it may have fields more. *)
Fields == {"dev", "bad", "cache", "err", "data", "erased", "wrong"}
CacheType == [block : Int, off : Nat, buffer : Seq(Word)]

Lfs(s) ==
  /\ s = [f \in DOMAIN s |-> s[f]] /\ Fields \subseteq DOMAIN s
  /\ s.dev \in [Bd!Block -> [Bd!Offset -> Word]]
  /\ s.cache = [k \in DOMAIN s.cache |-> s.cache[k]]
  /\ \A k \in DOMAIN s.cache : s.cache[k] \in CacheType

(* t differs from s in no other field, and in no other cache. *)
Only(s, t, fields) ==
  DOMAIN t = DOMAIN s /\ \A f \in DOMAIN s \ fields : t[f] = s[f]

OnlyCache(s, t, slots) ==
  DOMAIN t.cache = DOMAIN s.cache /\ \A k \in DOMAIN s.cache \ slots : t.cache[k] = s.cache[k]

(* A read cache holds what the device does. *)
Faithful(s, r) ==
  LET c == s.cache[r]
  IN c.block \in Bd!Block =>
       /\ c.off + Len(c.buffer) <= BlockSize
       /\ \A i \in 1..Len(c.buffer) : c.buffer[i] = s.dev[c.block][c.off + i - 1]

(* What is to be read at a place: what the cache p holds to be programmed, and *)
(* else what the device does.                                                  *)
Seen(s, p, block, o) ==
  LET c == s.cache[p]
  IN IF Bd!Holds(c, block, o) THEN c.buffer[o - c.off + 1] ELSE s.dev[block][o]

LEMMA NewData ==
  ASSUME NEW s, Lfs(s), NEW x
  PROVE  LET t == [s EXCEPT !.data = x]
         IN Lfs(t) /\ Only(s, t, {"data"}) /\ t.data = x
<1> DEFINE t == [s EXCEPT !["data"] = x]
<1>1. /\ t = [g \in DOMAIN t |-> t[g]] /\ DOMAIN t = DOMAIN s
      /\ t["data"] = x /\ \A g \in DOMAIN s : g # "data" => t[g] = s[g]
  BY DEF Lfs, Fields
<1> HIDE DEF t
<1>2. t.dev = s.dev /\ t.cache = s.cache
  BY <1>1 DEF Lfs, Fields
<1>3. Lfs(t) /\ Only(s, t, {"data"}) /\ t.data = x
  BY <1>1, <1>2 DEF Lfs, Only
<1> QED BY <1>3 DEF t

LEMMA NewErr ==
  ASSUME NEW s, Lfs(s), NEW x
  PROVE  LET t == [s EXCEPT !.err = x]
         IN Lfs(t) /\ Only(s, t, {"err"}) /\ t.err = x
<1> DEFINE t == [s EXCEPT !["err"] = x]
<1>1. /\ t = [g \in DOMAIN t |-> t[g]] /\ DOMAIN t = DOMAIN s
      /\ t["err"] = x /\ \A g \in DOMAIN s : g # "err" => t[g] = s[g]
  BY DEF Lfs, Fields
<1> HIDE DEF t
<1>2. t.dev = s.dev /\ t.cache = s.cache
  BY <1>1 DEF Lfs, Fields
<1>3. Lfs(t) /\ Only(s, t, {"err"}) /\ t.err = x
  BY <1>1, <1>2 DEF Lfs, Only
<1> QED BY <1>3 DEF t

LEMMA NewCache ==
  ASSUME NEW s, Lfs(s), NEW k \in DOMAIN s.cache, NEW c \in CacheType
  PROVE  LET t == [s EXCEPT !.cache[k] = c]
         IN Lfs(t) /\ Only(s, t, {"cache"}) /\ OnlyCache(s, t, {k}) /\ t.cache[k] = c
<1> DEFINE caches == [s.cache EXCEPT ![k] = c]
           t == [s EXCEPT !["cache"] = caches]
<1>1. /\ t = [g \in DOMAIN t |-> t[g]] /\ DOMAIN t = DOMAIN s
      /\ t["cache"] = caches /\ \A g \in DOMAIN s : g # "cache" => t[g] = s[g]
  BY DEF Lfs, Fields
<1>2. /\ caches = [j \in DOMAIN caches |-> caches[j]] /\ DOMAIN caches = DOMAIN s.cache
      /\ caches[k] = c /\ \A j \in DOMAIN s.cache : j # k => caches[j] = s.cache[j]
  BY DEF Lfs
<1>3. [s EXCEPT !.cache[k] = c] = t
  BY DEF Lfs, Fields
<1> HIDE DEF t, caches
<1>4. t.dev = s.dev /\ t.cache = caches
  BY <1>1 DEF Lfs, Fields
<1>5. \A j \in DOMAIN caches : caches[j] \in CacheType
  BY <1>2 DEF Lfs
<1>6. Lfs(t) /\ Only(s, t, {"cache"}) /\ OnlyCache(s, t, {k}) /\ t.cache[k] = c
  BY <1>1, <1>2, <1>4, <1>5 DEF Lfs, Only, OnlyCache
<1> QED BY <1>3, <1>6


LEMMA CacheIs ==
  ASSUME NEW c \in CacheType
  PROVE  c.block \in Int /\ c.off \in Nat /\ c.buffer \in Seq(Word) /\ Len(c.buffer) \in Nat
  BY DEF CacheType

LEMMA AlignedIs ==
  ASSUME Geometry, NEW n \in Nat
  PROVE  Bd!Aligned(n) \in Nat /\ Bd!Aligned(n) <= n /\ n < Bd!Aligned(n) + ReadSize
<1>1. ReadSize \in Nat /\ ReadSize > 0
  BY GeometryIs
<1>2. n % ReadSize \in Nat /\ n % ReadSize < ReadSize /\ n % ReadSize <= n
  BY <1>1
<1> QED BY <1>1, <1>2 DEF Bd!Aligned

(* A cache that is filled holds the place that it was filled for, as the *)
(* device does.                                                          *)
LEMMA LoadedIs ==
  ASSUME Geometry, NEW s, Lfs(s), NEW r \in DOMAIN s.cache, NEW hint \in Nat \ {0},
         NEW block \in Bd!Block, NEW off \in Bd!Offset
  PROVE  LET t == Bd!Loaded(s, r, hint, block, off)
         IN /\ Lfs(t) /\ Only(s, t, {"cache"}) /\ OnlyCache(s, t, {r})
            /\ Faithful(t, r) /\ Bd!Holds(t.cache[r], block, off)
<1> DEFINE first == Bd!Aligned(off)
           ahead == Bd!Aligned(off + hint + ReadSize - 1)
           last == Bd!Least(ahead, BlockSize)
           n == Bd!Least(last - first, CacheSize)
           words == Bd!PartRead(s, block, first, n)
           c == Bd!Cache(block, first, words)
           t == Bd!Loaded(s, r, hint, block, off)
<1>1. /\ BlockSize \in Nat /\ CacheSize \in Nat /\ ReadSize \in Nat /\ ReadSize > 0
      /\ ReadSize <= CacheSize /\ BlockCount \in Nat
  BY GeometryIs
<1>2. off \in Nat /\ off < BlockSize
  BY <1>1 DEF Bd!Offset
<1>3. off + hint + ReadSize - 1 \in Nat
  BY <1>1, <1>2
<1>4. first \in Nat /\ first <= off /\ off < first + ReadSize
  BY <1>2, AlignedIs
<1>5. ahead \in Nat /\ off + hint + ReadSize - 1 < ahead + ReadSize
  BY <1>3, AlignedIs
<1> HIDE DEF first, ahead
<1>6. last \in Nat /\ off < last /\ last <= BlockSize
  BY <1>1, <1>2, <1>5 DEF Bd!Least
<1> HIDE DEF last
<1>7. n \in Nat /\ off < first + n /\ first + n <= BlockSize
  BY <1>1, <1>2, <1>4, <1>6 DEF Bd!Least
<1> HIDE DEF n
<1>8. \A i \in 1..n : first + i - 1 \in Bd!Offset
  BY <1>1, <1>4, <1>7 DEF Bd!Offset
<1>9. \A i \in 1..n : s.dev[block][first + i - 1] \in Word
  BY <1>8 DEF Lfs
<1>10. /\ words \in Seq(Word) /\ Len(words) = n
       /\ \A i \in 1..n : words[i] = s.dev[block][first + i - 1]
  BY <1>7, <1>9 DEF Bd!PartRead
<1> HIDE DEF words
<1>11. block \in Int /\ block \in Bd!Block
  BY <1>1 DEF Bd!Block
<1>12. c = [block |-> block, off |-> first, buffer |-> words]
  BY DEF Bd!Cache
<1>13. c \in CacheType
  BY <1>4, <1>10, <1>11, <1>12 DEF CacheType
<1>14. c.block = block /\ c.off = first /\ c.buffer = words
  BY <1>12
<1> HIDE DEF c
<1>15. t = [s EXCEPT !.cache[r] = c]
  BY DEF Bd!Loaded, t, c, words, n, last, ahead, first
<1> HIDE DEF t
<1>16. Lfs(t) /\ Only(s, t, {"cache"}) /\ OnlyCache(s, t, {r}) /\ t.cache[r] = c
  BY <1>13, <1>15, NewCache
<1>17. t.dev = s.dev
  BY <1>16 DEF Only, Lfs, Fields
<1>18. Faithful(t, r)
  BY <1>7, <1>10, <1>14, <1>16, <1>17 DEF Faithful
<1>19. Bd!Holds(t.cache[r], block, off)
  BY <1>2, <1>4, <1>7, <1>10, <1>14, <1>16 DEF Bd!Holds, Bd!Ahead
<1> QED BY <1>16, <1>18, <1>19 DEF t

(* A part of a sequence of words. *)
LEMMA PartOf ==
  ASSUME NEW words \in Seq(Word), NEW from \in Nat \ {0}, NEW to \in Nat,
         from <= to + 1, to <= Len(words)
  PROVE  /\ SubSeq(words, from, to) \in Seq(Word)
         /\ Len(SubSeq(words, from, to)) = to - from + 1
         /\ \A i \in 1..(to - from + 1) : SubSeq(words, from, to)[i] = words[from + i - 1]
  BY SubSeqProperties

(* What a cache that holds a place has from there on. *)
LEMMA HeldIs ==
  ASSUME NEW c \in CacheType, NEW block, NEW off \in Nat, Bd!Holds(c, block, off),
         NEW size \in Nat \ {0}
  PROVE  LET words == Bd!Held(c, off, size)
         IN /\ words \in Seq(Word) /\ Len(words) \in 1..size
            /\ off + Len(words) <= c.off + Len(c.buffer)
            /\ \A i \in 1..Len(words) : words[i] = c.buffer[off - c.off + i]
<1> DEFINE from == off - c.off + 1
           to == Bd!Least(off - c.off + size, Len(c.buffer))
           words == Bd!Held(c, off, size)
<1>1. c.off \in Nat /\ c.buffer \in Seq(Word) /\ Len(c.buffer) \in Nat
  BY CacheIs
<1>2. c.off <= off /\ off < c.off + Len(c.buffer)
  BY DEF Bd!Holds, Bd!Ahead
<1>3. from \in 1..(Len(c.buffer) + 1) /\ from \in Nat
  BY <1>1, <1>2
<1>4. /\ to \in Int /\ from <= to /\ to <= Len(c.buffer)
      /\ to - from + 1 <= size /\ to - from + 1 >= 1
  BY <1>1, <1>2 DEF Bd!Least
<1>5. words = SubSeq(c.buffer, from, to)
  BY DEF Bd!Held
<1>7. off - c.off + 1 = from /\ off - c.off = from - 1
  BY <1>1
<1> HIDE DEF from, to, words
<1>6. /\ SubSeq(c.buffer, from, to) \in Seq(Word)
      /\ Len(SubSeq(c.buffer, from, to)) = to - from + 1
      /\ \A i \in 1..(to - from + 1) : SubSeq(c.buffer, from, to)[i] = c.buffer[from + i - 1]
  <2>1. c.buffer \in Seq(Word) /\ from \in Nat \ {0} /\ to \in Nat /\ from <= to + 1 /\ to <= Len(c.buffer)
    BY <1>1, <1>3, <1>4
  <2> QED BY <2>1, PartOf
<1>8. words \in Seq(Word) /\ Len(words) \in 1..size /\ Len(words) = to - from + 1
  BY <1>3, <1>4, <1>5, <1>6
<1>9. off + Len(words) <= c.off + Len(c.buffer)
  BY <1>1, <1>3, <1>4, <1>7, <1>8
<1>10. ASSUME NEW i \in 1..Len(words) PROVE words[i] = c.buffer[off - c.off + i]
  <2>1. words[i] = c.buffer[from + i - 1]
    BY <1>5, <1>6, <1>8
  <2>2. from + i - 1 = off - c.off + i
    BY <1>1, <1>3, <1>7
  <2> QED BY <2>1, <2>2
<1> QED BY <1>8, <1>9, <1>10 DEF words

(* The words before those of a cache that does not hold the place. *)
LEMMA BeforeIs ==
  ASSUME NEW c \in CacheType, NEW block, NEW off \in Nat, NEW size \in Nat \ {0},
         ~Bd!Holds(c, block, off)
  PROVE  LET n == Bd!Before(c, block, off, size)
         IN n \in 1..size /\ \A o \in off..(off + n - 1) : ~Bd!Holds(c, block, o)
<1> DEFINE n == Bd!Before(c, block, off, size)
<1>1. c.off \in Nat /\ c.buffer \in Seq(Word) /\ Len(c.buffer) \in Nat
  BY CacheIs
<1>2. CASE Bd!Ahead(c, block, off)
  <2>1. n = Bd!Least(size, c.off - off) /\ off < c.off
    BY <1>1, <1>2 DEF Bd!Before, Bd!Holds
  <2>2. n \in 1..size /\ off + n <= c.off
    BY <1>1, <2>1 DEF Bd!Least
  <2>3. \A o \in off..(off + n - 1) : ~Bd!Holds(c, block, o)
    BY <1>1, <2>2 DEF Bd!Holds
  <2> QED BY <2>2, <2>3
<1>3. CASE ~Bd!Ahead(c, block, off)
  <2>1. n = size
    BY <1>3 DEF Bd!Before
  <2>2. \A o \in off..(off + n - 1) : ~Bd!Holds(c, block, o)
    BY <1>1, <1>3, <2>1 DEF Bd!Holds, Bd!Ahead
  <2> QED BY <2>1, <2>2
<1> QED BY <1>2, <1>3

LEMMA ReadyIs ==
  ASSUME Geometry, NEW s, Lfs(s), NEW p \in DOMAIN s.cache, NEW r \in DOMAIN s.cache,
         NEW hint \in Nat \ {0}, NEW block \in Bd!Block, NEW off \in Nat, NEW size \in Nat \ {0},
         off + size <= BlockSize, Faithful(s, r)
  PROVE  LET words == Bd!Ready(s, p, r, hint, block, off, size)
         IN /\ words \in Seq(Word) /\ Len(words) <= size
            /\ \A i \in 1..Len(words) : words[i] = Seen(s, p, block, off + i - 1)
            /\ Bd!Holds(s.cache[r], block, off) => words # << >>
<1> DEFINE pc == s.cache[p]
           rc == s.cache[r]
           first == Bd!Before(pc, block, off, size)
           words == Bd!Ready(s, p, r, hint, block, off, size)
           Is(w) == /\ w \in Seq(Word) /\ Len(w) <= size
                    /\ \A i \in 1..Len(w) : w[i] = Seen(s, p, block, off + i - 1)
           NonEmpty(w) == w # << >>
<1>0. pc \in CacheType /\ rc \in CacheType
  BY DEF Lfs
<1>1. /\ pc.off \in Nat /\ pc.buffer \in Seq(Word) /\ Len(pc.buffer) \in Nat
      /\ rc.off \in Nat /\ rc.buffer \in Seq(Word) /\ Len(rc.buffer) \in Nat
  BY <1>0, CacheIs
<1>2. BlockSize \in Nat /\ ReadSize \in Nat /\ ReadSize > 0
  BY GeometryIs
<1>3. \A o \in off..(off + size - 1) : o \in Bd!Offset /\ s.dev[block][o] \in Word
  <2>1. \A o \in off..(off + size - 1) : o \in Bd!Offset
    BY <1>2 DEF Bd!Offset
  <2> QED BY <2>1 DEF Lfs
<1>6. \A o : Bd!Holds(pc, block, o) => Seen(s, p, block, o) = pc.buffer[o - pc.off + 1]
  BY DEF Seen
<1>4. CASE Bd!Holds(pc, block, off)
  <2> DEFINE w == Bd!Held(pc, off, size)
  <2>1. words = w
    BY <1>4 DEF Bd!Ready
  <2>2. /\ w \in Seq(Word) /\ Len(w) \in 1..size /\ off + Len(w) <= pc.off + Len(pc.buffer)
        /\ \A i \in 1..Len(w) : w[i] = pc.buffer[off - pc.off + i]
    BY <1>0, <1>4, HeldIs
  <2> HIDE DEF w, pc, words
  <2>3. ASSUME NEW i \in 1..Len(w) PROVE w[i] = Seen(s, p, block, off + i - 1)
    <3>1. Bd!Holds(pc, block, off + i - 1)
      <4>1. pc.block = block /\ pc.off <= off
        BY <1>4 DEF Bd!Holds, Bd!Ahead
      <4>2. i \in Nat /\ i >= 1 /\ i <= Len(w) /\ Len(w) \in Nat
        BY <2>2
      <4>3. off + i - 1 < pc.off + Len(pc.buffer) /\ off + i - 1 >= pc.off
        BY <1>1, <2>2, <4>1, <4>2
      <4> QED BY <4>1, <4>3 DEF Bd!Holds, Bd!Ahead
    <3>2. Seen(s, p, block, off + i - 1) = pc.buffer[((off + i - 1) - pc.off) + 1]
      BY <1>6, <3>1
    <3>3. ((off + i - 1) - pc.off) + 1 = off - pc.off + i
      BY <1>1, <2>2
    <3> QED BY <2>2, <3>2, <3>3
  <2>4. Is(w) /\ NonEmpty(w)
    BY <2>2, <2>3
  <2> QED BY <2>1, <2>4 DEF words
<1>5. CASE ~Bd!Holds(pc, block, off)
  <2>1. first \in 1..size /\ \A o \in off..(off + first - 1) : ~Bd!Holds(pc, block, o)
    BY <1>0, <1>5, BeforeIs
  <2>2. first \in Nat \ {0} /\ first <= size
    BY <2>1
  <2>3. \A o \in off..(off + first - 1) : Seen(s, p, block, o) = s.dev[block][o]
    BY <2>1 DEF Seen
  <2>4. CASE Bd!Holds(rc, block, off)
    <3> DEFINE w == Bd!Held(rc, off, first)
    <3>1. words = w
      BY <1>5, <2>4 DEF Bd!Ready
    <3> HIDE DEF first
    <3>2. /\ w \in Seq(Word) /\ Len(w) \in 1..first /\ off + Len(w) <= rc.off + Len(rc.buffer)
          /\ \A i \in 1..Len(w) : w[i] = rc.buffer[off - rc.off + i]
      BY <1>0, <2>2, <2>4, HeldIs
    <3>3. rc.block = block /\ rc.off <= off
      BY <2>4 DEF Bd!Holds, Bd!Ahead
    <3>4. \A j \in 1..Len(rc.buffer) : rc.buffer[j] = s.dev[block][rc.off + j - 1]
      BY <3>3 DEF Faithful
    <3> HIDE DEF w, rc, words
    <3>5. ASSUME NEW i \in 1..Len(w) PROVE w[i] = Seen(s, p, block, off + i - 1)
      <4>1. off - rc.off + i \in 1..Len(rc.buffer)
        <5>1. rc.off \in Nat /\ rc.off <= off /\ Len(rc.buffer) \in Nat
          BY <1>1, <3>3
        <5>2. Len(w) \in Nat /\ off + Len(w) <= rc.off + Len(rc.buffer)
          BY <3>2
        <5> QED BY <5>1, <5>2
      <4>2. rc.off + (off - rc.off + i) - 1 = off + i - 1
        BY <1>1, <3>2
      <4>3. w[i] = s.dev[block][off + i - 1]
        BY <3>2, <3>4, <4>1, <4>2
      <4>4. off + i - 1 \in off..(off + first - 1)
        BY <2>2, <3>2
      <4> QED BY <2>3, <4>3, <4>4
    <3>6. Is(w) /\ NonEmpty(w)
      BY <2>2, <3>2, <3>5
    <3> QED BY <3>1, <3>6 DEF words
  <2>5. CASE ~Bd!Holds(rc, block, off)
    <3> DEFINE n == Bd!Aligned(Bd!Before(rc, block, off, first))
               w == Bd!PartRead(s, block, off, n)
    <3>1. words = w \/ words = << >>
      BY <1>5, <2>5 DEF Bd!Ready
    <3> HIDE DEF first
    <3>2. Bd!Before(rc, block, off, first) \in 1..first
      BY <1>0, <2>2, <2>5, BeforeIs
    <3>3. n \in Nat /\ n <= first
      BY <2>2, <3>2, AlignedIs
    <3> HIDE DEF n
    <3>4. w = [i \in 1..n |-> s.dev[block][off + i - 1]]
      BY DEF Bd!PartRead
    <3>5. \A i \in 1..n : off + i - 1 \in off..(off + first - 1) /\ off + i - 1 \in off..(off + size - 1)
      BY <2>2, <3>3
    <3>6. w \in Seq(Word) /\ Len(w) = n
      BY <1>3, <3>3, <3>4, <3>5
    <3>7. \A i \in 1..n : w[i] = Seen(s, p, block, off + i - 1)
      BY <2>3, <3>4, <3>5
    <3> HIDE DEF w
    <3>8. Is(w) /\ Is(<< >>)
      BY <2>2, <3>3, <3>6, <3>7
    <3> HIDE DEF words, Is
    <3>9. Is(words)
      BY <3>1, <3>8
    <3> QED BY <2>5, <3>9 DEF Is, words
  <2> QED BY <2>4, <2>5
<1> QED BY <1>4, <1>5

(* The loop of lfs_bd_read, turn by turn. *)
LEMMA ReadSteps ==
  ASSUME NEW s, NEW p, NEW r, NEW hint, NEW block, NEW off, NEW size \in Nat
  PROVE  LET loop == Bd!ReadLoop(s, p, r, hint, block, off, size) IN
         /\ loop[0] = s
         /\ \A k \in 0..(2 * size - 1) :
              loop[k + 1] = IF Len(loop[k].data) = size THEN loop[k]
                            ELSE Bd!ReadMore(loop[k], p, r, hint, block, off, size)
<1> DEFINE Turn(t) == IF Len(t.data) = size THEN t
                      ELSE Bd!ReadMore(t, p, r, hint, block, off, size)
           Body(g, n) == IF n = 0 THEN s ELSE Turn(g[n - 1])
           Solves(g, m) == g = [n \in 0..m |-> Body(g, n)]
           S == {m \in Nat : \E g : Solves(g, m)}
           loop == Bd!ReadLoop(s, p, r, hint, block, off, size)
<1>5. loop = CHOOSE g : Solves(g, 2 * size)
  BY DEF Bd!ReadLoop
<1> HIDE DEF Turn, loop
<1>1. 0 \in S
  <2> DEFINE g == [n \in 0..0 |-> s]
  <2>1. Solves(g, 0)
    OBVIOUS
  <2> QED BY <2>1
<1>2. ASSUME NEW m \in S PROVE m + 1 \in S
  <2>1. PICK g : Solves(g, m)
    BY <1>2
  <2> DEFINE h == [n \in 0..(m + 1) |-> IF n <= m THEN g[n] ELSE Turn(g[m])]
  <2>2. m \in Nat
    BY <1>2
  <2>3. ASSUME NEW n \in 0..(m + 1) PROVE h[n] = Body(h, n)
    <3>1. CASE n = 0
      <4>1. 0 \in 0..m /\ 0 <= m
        BY <2>2
      <4>2. g[0] = s
        BY <2>1, <4>1
      <4> QED BY <3>1, <4>1, <4>2
    <3>2. CASE n \in 1..m
      <4>1. n \in 0..m /\ n - 1 \in 0..m /\ n # 0 /\ n <= m /\ n - 1 <= m /\ n - 1 \in 0..(m + 1)
        BY <2>2, <3>2
      <4>2. g[n] = Turn(g[n - 1])
        BY <2>1, <4>1
      <4> QED BY <4>1, <4>2
    <3>3. CASE n = m + 1
      <4>1. ~(n <= m) /\ n - 1 = m /\ m <= m /\ m \in 0..(m + 1) /\ n # 0
        BY <2>2, <3>3
      <4> QED BY <3>3, <4>1
    <3> QED BY <2>2, <3>1, <3>2, <3>3
  <2>4. Solves(h, m + 1)
    <3> HIDE DEF Body
    <3> QED BY <2>3
  <2> HIDE DEF Solves, h
  <2> QED BY <2>2, <2>4
<1>3. S = Nat
  <2> HIDE DEF S
  <2>1. S \in SUBSET Nat
    BY DEF S
  <2> QED BY <1>1, <1>2, <2>1, SetInduction
<1>4. 2 * size \in Nat
  OBVIOUS
<1>6. Solves(loop, 2 * size)
  <2>1. \E g : Solves(g, 2 * size)
    BY <1>3, <1>4
  <2> HIDE DEF Solves
  <2> QED BY <1>5, <2>1
<1>7. loop[0] = s
  BY <1>4, <1>6
<1>8. ASSUME NEW k \in 0..(2 * size - 1) PROVE loop[k + 1] = Turn(loop[k])
  <2>1. k + 1 \in 0..(2 * size) /\ k + 1 # 0 /\ (k + 1) - 1 = k
    BY <1>4
  <2> QED BY <1>6, <2>1
<1> QED BY <1>7, <1>8 DEF loop, Turn

(* What has been read so far, from the state s: nothing but the cache r has *)
(* changed, and the words are the first of those that are to be read.       *)
ReadSoFar(s, t, p, r, block, off, size) ==
  /\ Lfs(t) /\ Only(s, t, {"cache", "data"}) /\ OnlyCache(s, t, {r}) /\ Faithful(t, r)
  /\ t.data \in Seq(Word) /\ Len(t.data) <= size
  /\ \A i \in 1..Len(t.data) : t.data[i] = Seen(s, p, block, off + i - 1)

(* A turn that reads no word readies the next one to read it. *)
ReadProgress(t, r, k, block, off, size) ==
  LET n == Len(t.data)
  IN n = size \/ 2 * n >= k \/ (2 * n + 1 >= k /\ Bd!Holds(t.cache[r], block, off + n))

LEMMA ReadTurn ==
  ASSUME Geometry, NEW s, Lfs(s), NEW p \in DOMAIN s.cache, NEW r \in DOMAIN s.cache, p # r,
         NEW hint \in Nat \ {0}, NEW block \in Bd!Block, NEW off \in Nat, NEW size \in Nat,
         off + size <= BlockSize, NEW k \in Nat,
         NEW t, ReadSoFar(s, t, p, r, block, off, size), ReadProgress(t, r, k, block, off, size),
         Len(t.data) # size
  PROVE  LET u == Bd!ReadMore(t, p, r, hint, block, off, size)
         IN /\ ReadSoFar(s, u, p, r, block, off, size)
            /\ ReadProgress(u, r, k + 1, block, off, size)
<1> DEFINE n == Len(t.data)
           at == off + n
           words == Bd!Ready(t, p, r, hint, block, at, size - n)
           u == Bd!ReadMore(t, p, r, hint, block, off, size)
<1>0. BlockSize \in Nat
  BY GeometryIs
<1>1. /\ Lfs(t) /\ Only(s, t, {"cache", "data"}) /\ OnlyCache(s, t, {r}) /\ Faithful(t, r)
      /\ t.data \in Seq(Word) /\ Len(t.data) <= size
      /\ \A i \in 1..Len(t.data) : t.data[i] = Seen(s, p, block, off + i - 1)
  BY DEF ReadSoFar
<1>2. n \in Nat /\ at \in Nat /\ size - n \in Nat \ {0} /\ at + (size - n) <= BlockSize
  <2>1. n \in Nat /\ n <= size /\ n # size
    BY <1>1
  <2> HIDE DEF n
  <2> QED BY <1>0, <2>1
<1>3. at \in Bd!Offset
  BY <1>0, <1>2 DEF Bd!Offset
<1>4. p \in DOMAIN t.cache /\ r \in DOMAIN t.cache
  BY <1>1 DEF OnlyCache
<1>5. \A o : Seen(t, p, block, o) = Seen(s, p, block, o)
  <2>1. t.dev = s.dev /\ t.cache[p] = s.cache[p]
    BY <1>1 DEF Only, OnlyCache, Lfs, Fields
  <2> QED BY <2>1 DEF Seen
<1>6. 2 * n >= k \/ (2 * n + 1 >= k /\ Bd!Holds(t.cache[r], block, at))
  BY DEF ReadProgress
<1>7. /\ words \in Seq(Word) /\ Len(words) <= size - n
      /\ \A i \in 1..Len(words) : words[i] = Seen(t, p, block, at + i - 1)
      /\ Bd!Holds(t.cache[r], block, at) => words # << >>
  <2> HIDE DEF n, at
  <2> QED BY <1>1, <1>2, <1>4, ReadyIs
<1>8. u = IF words = << >> THEN Bd!Loaded(t, r, hint, block, at)
          ELSE [t EXCEPT !.data = t.data \o words]
  BY DEF Bd!ReadMore
<1> HIDE DEF words, u
<1>9. CASE words = << >>
  <2>1. u = Bd!Loaded(t, r, hint, block, at)
    BY <1>8, <1>9
  <2>2. /\ Lfs(u) /\ Only(t, u, {"cache"}) /\ OnlyCache(t, u, {r})
        /\ Faithful(u, r) /\ Bd!Holds(u.cache[r], block, at)
    <3> HIDE DEF at
    <3> QED BY <1>1, <1>3, <1>4, <2>1, LoadedIs
  <2>3. u.data = t.data
    BY <1>1, <2>2 DEF Only, Lfs, Fields
  <2>4. Only(s, u, {"cache", "data"}) /\ OnlyCache(s, u, {r})
    BY <1>1, <2>2 DEF Only, OnlyCache
  <2>5. ReadSoFar(s, u, p, r, block, off, size)
    BY <1>1, <2>2, <2>3, <2>4 DEF ReadSoFar
  <2>6. 2 * n + 1 >= k + 1
    BY <1>2, <1>6, <1>7, <1>9
  <2>7. ReadProgress(u, r, k + 1, block, off, size)
    BY <2>2, <2>3, <2>6 DEF ReadProgress
  <2> QED BY <2>5, <2>7 DEF u
<1>10. CASE words # << >>
  <2> DEFINE d == t.data \o words
  <2>1. u = [t EXCEPT !.data = d]
    BY <1>8, <1>10
  <2>2. /\ d \in Seq(Word) /\ Len(d) = n + Len(words)
        /\ \A i \in 1..Len(d) : d[i] = IF i <= n THEN t.data[i] ELSE words[i - n]
    BY <1>1, <1>7, ConcatProperties
  <2>3. Len(words) \in Nat /\ Len(words) >= 1
    BY <1>7, <1>10
  <2> HIDE DEF d
  <2>4. Lfs(u) /\ Only(t, u, {"data"}) /\ u.data = d
    BY <1>1, <2>1, NewData
  <2>5. u.cache = t.cache /\ u.dev = t.dev
    BY <1>1, <2>4 DEF Only, Lfs, Fields
  <2>6. Only(s, u, {"cache", "data"}) /\ OnlyCache(s, u, {r}) /\ Faithful(u, r)
    BY <1>1, <2>4, <2>5 DEF Only, OnlyCache, Faithful
  <2>7. ASSUME NEW i \in 1..Len(d) PROVE d[i] = Seen(s, p, block, off + i - 1)
    <3>1. CASE i <= n
      <4>1. i \in 1..Len(t.data)
        BY <3>1
      <4> QED BY <1>1, <2>2, <3>1, <4>1
    <3>2. CASE ~(i <= n)
      <4>0. Len(d) = n + Len(words) /\ n \in Nat
        BY <1>2, <2>2
      <4>1. i - n \in 1..Len(words) /\ (at + (i - n)) - 1 = off + i - 1
        <5> HIDE DEF n
        <5> QED BY <2>3, <3>2, <4>0
      <4>2. d[i] = words[i - n]
        BY <2>2, <3>2
      <4>3. words[i - n] = Seen(t, p, block, (at + (i - n)) - 1)
        <5>1. \A j \in 1..Len(words) : words[j] = Seen(t, p, block, (at + j) - 1)
          BY <1>7
        <5> HIDE DEF at, n
        <5> QED BY <4>1, <5>1
      <4> QED BY <1>5, <4>1, <4>2, <4>3
    <3> QED BY <3>1, <3>2
  <2>8. Len(d) <= size
    <3>1. Len(d) = n + Len(words) /\ Len(words) <= size - n /\ n \in Nat
      BY <1>2, <1>7, <2>2
    <3> HIDE DEF n
    <3> QED BY <2>3, <3>1
  <2>9. ReadSoFar(s, u, p, r, block, off, size)
    BY <2>2, <2>4, <2>6, <2>7, <2>8 DEF ReadSoFar
  <2>10. 2 * Len(d) >= k + 1
    <3>1. Len(d) = n + Len(words) /\ n \in Nat /\ 2 * n + 1 >= k
      BY <1>2, <1>6, <2>2
    <3> HIDE DEF n
    <3> QED BY <2>3, <3>1
  <2>11. ReadProgress(u, r, k + 1, block, off, size)
    BY <2>4, <2>10 DEF ReadProgress
  <2> QED BY <2>9, <2>11 DEF u
<1> QED BY <1>9, <1>10

(* lfs_bd_read returns, for each place, what the cache p holds to be           *)
(* programmed there and what the device holds everywhere else, whatever the    *)
(* hint and whatever the two caches hold, as long as the read cache holds what *)
(* the device does; and then it still does.  It neither fails nor stops short, *)
(* and changes nothing but the read cache.                                     *)
THEOREM ReadThrough ==
  ASSUME Geometry, NEW s, Lfs(s), NEW p \in DOMAIN s.cache, NEW r \in DOMAIN s.cache, p # r,
         Faithful(s, r), NEW hint \in Nat \ {0}, NEW block \in Bd!Block, NEW off \in Nat,
         NEW size \in Nat, off + size <= BlockSize
  PROVE  LET t == Bd!BdRead(s, p, r, hint, block, off, size)
         IN /\ t.err = Bd!LFS_ERR_OK /\ t.data \in Seq(Word) /\ Len(t.data) = size
            /\ \A i \in 1..size : t.data[i] = Seen(s, p, block, off + i - 1)
            /\ Lfs(t) /\ Only(s, t, {"cache", "data", "err"}) /\ OnlyCache(s, t, {r})
            /\ Faithful(t, r)
<1> DEFINE u == [s EXCEPT !.data = << >>]
           v == [u EXCEPT !.err = Bd!LFS_ERR_OK]
           loop == Bd!ReadLoop(v, p, r, hint, block, off, size)
           S == {k \in Nat : k <= 2 * size => /\ ReadSoFar(v, loop[k], p, r, block, off, size)
                                              /\ ReadProgress(loop[k], r, k, block, off, size)}
           t == Bd!BdRead(s, p, r, hint, block, off, size)
<1>0. BlockSize \in Nat /\ 2 * size \in Nat
  BY GeometryIs
<1>1. Lfs(u) /\ Only(s, u, {"data"}) /\ u.data = << >>
  BY NewData
<1> HIDE DEF u
<1>2. Lfs(v) /\ Only(u, v, {"err"}) /\ v.err = Bd!LFS_ERR_OK
  BY <1>1, NewErr
<1>3. t = loop[2 * size]
  <2>1. ~(off + size > BlockSize)
    BY <1>0
  <2>2. v = [s EXCEPT !.data = << >>, !.err = Bd!LFS_ERR_OK]
    BY DEF Lfs, Fields, u
  <2> HIDE DEF v
  <2> QED BY <2>1, <2>2 DEF Bd!BdRead
<1> HIDE DEF v, t
<1>4. v.data = << >> /\ v.cache = s.cache /\ v.dev = s.dev /\ DOMAIN v = DOMAIN s
  BY <1>1, <1>2 DEF Only, Lfs, Fields
<1>5. p \in DOMAIN v.cache /\ r \in DOMAIN v.cache /\ Faithful(v, r)
  BY <1>4 DEF Faithful
<1>6. /\ loop[0] = v
      /\ \A k \in 0..(2 * size - 1) :
           loop[k + 1] = IF Len(loop[k].data) = size THEN loop[k]
                         ELSE Bd!ReadMore(loop[k], p, r, hint, block, off, size)
  BY ReadSteps
<1> HIDE DEF loop
<1>7. 0 \in S
  <2>1. << >> \in Seq(Word) /\ Len(<< >>) = 0
    OBVIOUS
  <2>2. Only(v, v, {"cache", "data"}) /\ OnlyCache(v, v, {r})
    BY DEF Only, OnlyCache
  <2>3. ReadSoFar(v, v, p, r, block, off, size)
    BY <1>2, <1>4, <1>5, <2>1, <2>2 DEF ReadSoFar
  <2>4. ReadProgress(v, r, 0, block, off, size)
    BY <1>4, <2>1 DEF ReadProgress
  <2> QED BY <1>6, <2>3, <2>4
<1>8. ASSUME NEW k \in S PROVE k + 1 \in S
  <2>1. SUFFICES ASSUME k + 1 <= 2 * size
                 PROVE  /\ ReadSoFar(v, loop[k + 1], p, r, block, off, size)
                        /\ ReadProgress(loop[k + 1], r, k + 1, block, off, size)
    OBVIOUS
  <2>2. k \in Nat /\ k <= 2 * size /\ k \in 0..(2 * size - 1)
    BY <1>0, <1>8, <2>1
  <2> DEFINE w == loop[k]
  <2>3. ReadSoFar(v, w, p, r, block, off, size) /\ ReadProgress(w, r, k, block, off, size)
    BY <1>8, <2>2
  <2>4. loop[k + 1] = IF Len(w.data) = size THEN w ELSE Bd!ReadMore(w, p, r, hint, block, off, size)
    BY <1>6, <2>2
  <2> HIDE DEF w
  <2>5. CASE Len(w.data) = size
    BY <2>3, <2>4, <2>5 DEF ReadProgress
  <2>6. CASE Len(w.data) # size
    <3> DEFINE x == Bd!ReadMore(w, p, r, hint, block, off, size)
    <3>1. /\ ReadSoFar(v, x, p, r, block, off, size)
          /\ ReadProgress(x, r, k + 1, block, off, size)
      BY <1>2, <1>5, <2>2, <2>3, <2>6, ReadTurn
    <3>2. loop[k + 1] = x
      BY <2>4, <2>6
    <3> HIDE DEF x
    <3> QED BY <3>1, <3>2
  <2> QED BY <2>5, <2>6
<1>9. S = Nat
  <2> HIDE DEF S
  <2>1. S \in SUBSET Nat
    BY DEF S
  <2> QED BY <1>7, <1>8, <2>1, SetInduction
<1>10. ReadSoFar(v, t, p, r, block, off, size) /\ ReadProgress(t, r, 2 * size, block, off, size)
  BY <1>0, <1>3, <1>9
<1>11. Len(t.data) = size
  <2>1. Len(t.data) \in Nat /\ Len(t.data) <= size
    BY <1>10 DEF ReadSoFar
  <2> QED BY <1>10, <2>1 DEF ReadProgress
<1>12. /\ Lfs(t) /\ Only(v, t, {"cache", "data"}) /\ OnlyCache(v, t, {r}) /\ Faithful(t, r)
       /\ t.data \in Seq(Word) /\ \A i \in 1..size : t.data[i] = Seen(v, p, block, off + i - 1)
  BY <1>10, <1>11 DEF ReadSoFar
<1>13. t.err = Bd!LFS_ERR_OK
  BY <1>2, <1>12 DEF Only, Lfs, Fields
<1>14. Only(s, t, {"cache", "data", "err"}) /\ OnlyCache(s, t, {r})
  BY <1>1, <1>2, <1>4, <1>12 DEF Only, OnlyCache
<1>15. \A o : Seen(v, p, block, o) = Seen(s, p, block, o)
  BY <1>4 DEF Seen
<1> QED BY <1>11, <1>12, <1>13, <1>14, <1>15 DEF t

(* A dropped cache holds nothing. *)
LEMMA DropIs ==
  ASSUME NEW s, Lfs(s), NEW k \in DOMAIN s.cache
  PROVE  LET t == Bd!Drop(s, k)
         IN /\ Lfs(t) /\ Only(s, t, {"cache"}) /\ OnlyCache(s, t, {k})
            /\ t.cache[k].block = Bd!LFS_BLOCK_NULL
<1> DEFINE c == [s.cache[k] EXCEPT !.block = Bd!LFS_BLOCK_NULL]
           t == Bd!Drop(s, k)
<1>1. s.cache[k] \in CacheType
  BY DEF Lfs
<1>2. c \in CacheType /\ c.block = Bd!LFS_BLOCK_NULL
  BY <1>1 DEF CacheType, Bd!LFS_BLOCK_NULL
<1>3. t = [s EXCEPT !.cache[k] = c]
  BY DEF Bd!Drop
<1> HIDE DEF c, t
<1>4. Lfs(t) /\ Only(s, t, {"cache"}) /\ OnlyCache(s, t, {k}) /\ t.cache[k] = c
  BY <1>2, <1>3, NewCache
<1> QED BY <1>2, <1>4 DEF t

(* The words that part_write is to program, and what becomes of each. *)
Within(off, words, o) == off <= o /\ o < off + Len(words)

Free(s, block, o) == s.dev[block][o] = Bd!Erased /\ <<block, o>> \notin s.bad

Written(s, t, block, off, words) ==
  \A b \in Bd!Block, o \in Bd!Offset :
    t.dev[b][o] = IF b # block \/ ~Within(off, words, o) THEN s.dev[b][o]
                  ELSE IF Free(s, block, o) THEN words[o - off + 1] ELSE Bd!Garbage

LEMMA WriteIs ==
  ASSUME Geometry, NEW s, Lfs(s), NEW block \in Bd!Block, NEW off \in Nat,
         NEW words \in Seq(Word), off + Len(words) <= BlockSize
  PROVE  LET t == Bd!PartWrite(s, block, off, words)
         IN /\ Lfs(t) /\ Only(s, t, {"dev", "wrong"}) /\ Written(s, t, block, off, words)
            /\ (\A o \in Bd!Offset : Within(off, words, o) => Free(s, block, o)) => t.wrong = s.wrong
<1> DEFINE old == s.dev[block]
           new == [o \in Bd!Offset |-> IF ~Within(off, words, o) THEN old[o]
                                       ELSE IF Free(s, block, o) THEN words[o - off + 1] ELSE Bd!Garbage]
           dev == [s.dev EXCEPT ![block] = new]
           over == /\ \E o \in Bd!Offset : Within(off, words, o) /\ old[o] # Bd!Erased
                   /\ \A word \in s.bad : word[1] # block
           wrong == IF over THEN s.wrong \cup {"overwrite"} ELSE s.wrong
           u == [s EXCEPT !["dev"] = dev]
           v == [u EXCEPT !["wrong"] = wrong]
           t == Bd!PartWrite(s, block, off, words)
<1>1. /\ s.dev \in [Bd!Block -> [Bd!Offset -> Word]] /\ Bd!Garbage \in Word /\ Len(words) \in Nat
      /\ \A o \in Bd!Offset : o \in Int
  BY GeometryIs DEF Lfs, Bd!Offset
<1>2. \A o \in Bd!Offset : Within(off, words, o) => words[o - off + 1] \in Word
  BY <1>1 DEF Within
<1>3. new \in [Bd!Offset -> Word]
  BY <1>1, <1>2
<1>4. dev \in [Bd!Block -> [Bd!Offset -> Word]]
  BY <1>1, <1>3
<1>5. /\ \A b \in Bd!Block : dev[b] = IF b = block THEN new ELSE s.dev[b]
  BY <1>1
<1>6. t = v
  <2>1. t = [s EXCEPT !.dev = dev, !.wrong = wrong]
    <3>1. new = [o \in Bd!Offset |->
                   IF ~(o >= off /\ o < off + Len(words)) THEN old[o]
                   ELSE IF <<block, o>> \in s.bad \/ old[o] # Bd!Erased
                   THEN Bd!Garbage ELSE words[o - off + 1]]
      BY <1>1 DEF Within, Free
    <3>2. over <=> /\ \E o \in Bd!Offset : (o >= off /\ o < off + Len(words)) /\ old[o] # Bd!Erased
                   /\ \A word \in s.bad : word[1] # block
      BY <1>1 DEF Within
    <3> HIDE DEF new, over
    <3> QED BY <3>1, <3>2 DEF Bd!PartWrite
  <2> HIDE DEF dev, wrong
  <2> QED BY <2>1 DEF Lfs, Fields
<1> HIDE DEF dev, wrong, new
<1>7. /\ u = [g \in DOMAIN u |-> u[g]] /\ DOMAIN u = DOMAIN s
      /\ u["dev"] = dev /\ \A g \in DOMAIN s : g # "dev" => u[g] = s[g]
  BY DEF Lfs, Fields
<1> HIDE DEF u
<1>8. u.dev = dev /\ u.cache = s.cache
  BY <1>7 DEF Lfs, Fields
<1>9. Lfs(u)
  BY <1>4, <1>7, <1>8 DEF Lfs
<1>10. /\ v = [g \in DOMAIN v |-> v[g]] /\ DOMAIN v = DOMAIN u
       /\ v["wrong"] = wrong /\ \A g \in DOMAIN u : g # "wrong" => v[g] = u[g]
  BY <1>9 DEF Lfs, Fields
<1> HIDE DEF v, t
<1>11. v.dev = dev /\ v.cache = s.cache /\ v.wrong = wrong
  BY <1>7, <1>8, <1>10 DEF Lfs, Fields
<1>12. Lfs(v)
  BY <1>4, <1>7, <1>10, <1>11 DEF Lfs
<1>13. Only(s, v, {"dev", "wrong"})
  BY <1>7, <1>10 DEF Only
<1>14. Written(s, v, block, off, words)
  <2> SUFFICES ASSUME NEW b \in Bd!Block, NEW o \in Bd!Offset
               PROVE  v.dev[b][o] = IF b # block \/ ~Within(off, words, o) THEN s.dev[b][o]
                                    ELSE IF Free(s, block, o) THEN words[o - off + 1] ELSE Bd!Garbage
    BY DEF Written
  <2>1. v.dev[b] = IF b = block THEN new ELSE s.dev[b]
    BY <1>5, <1>11
  <2>2. new[o] = IF ~Within(off, words, o) THEN s.dev[block][o]
                 ELSE IF Free(s, block, o) THEN words[o - off + 1] ELSE Bd!Garbage
    BY DEF new
  <2> QED BY <2>1, <2>2
<1>15. (\A o \in Bd!Offset : Within(off, words, o) => Free(s, block, o)) => v.wrong = s.wrong
  <2> SUFFICES ASSUME \A o \in Bd!Offset : Within(off, words, o) => Free(s, block, o)
               PROVE  v.wrong = s.wrong
    OBVIOUS
  <2>1. ~over
    BY DEF Free
  <2> QED BY <1>11, <2>1 DEF wrong
<1> QED BY <1>6, <1>12, <1>13, <1>14, <1>15 DEF t

(* The caches by which the functions of littlefs call lfs_bd_flush and      *)
(* lfs_bd_prog: p is programmed, and neither rcache nor the one that stands *)
(* for NULL, which holds nothing.                                           *)
Caches(s, p) ==
  /\ {p, "r", "none"} \subseteq DOMAIN s.cache /\ p \notin {"r", "none"}
  /\ s.cache["none"].block = Bd!LFS_BLOCK_NULL

(* p holds words to be programmed in a block of the device. *)
Pending(s, p) ==
  LET c == s.cache[p]
  IN c.block \in Bd!Block /\ c.buffer # << >> /\ c.off + Len(c.buffer) <= BlockSize

Programmed == {"dev", "cache", "err", "data", "wrong"}

(* What lfs_bd_flush does with a cache that holds words: they are programmed *)
(* where they belong and nowhere else, and LFS_ERR_OK says that the device   *)
(* holds each of them, LFS_ERR_CORRUPT that it does not.                     *)
Flushed(s, t, p) ==
  LET c == s.cache[p]
  IN /\ Lfs(t) /\ Only(s, t, Programmed) /\ OnlyCache(s, t, {"r", p}) /\ Faithful(t, "r")
     /\ Written(s, t, c.block, c.off, c.buffer)
     /\ (\A o \in Bd!Offset : Within(c.off, c.buffer, o) => Free(s, c.block, o)) => t.wrong = s.wrong
     /\ \/ /\ t.err = Bd!LFS_ERR_OK /\ t.cache[p].block = Bd!LFS_BLOCK_NULL
           /\ \A i \in 1..Len(c.buffer) : t.dev[c.block][c.off + i - 1] = c.buffer[i]
        \/ /\ t.err = Bd!LFS_ERR_CORRUPT /\ t.cache[p] = c
           /\ \E i \in 1..Len(c.buffer) : t.dev[c.block][c.off + i - 1] # c.buffer[i]

(* lfs_bd_flush reports what the device holds. *)
THEOREM FlushIsChecked ==
  ASSUME Geometry, NEW s, Lfs(s), NEW p, Caches(s, p), Pending(s, p)
  PROVE  Flushed(s, Bd!BdFlush(s, p), p)
<1> DEFINE c == s.cache[p]
           n == Len(c.buffer)
           w == Bd!PartWrite(s, c.block, c.off, c.buffer)
           d == Bd!Drop(w, "r")
           u == Bd!BdRead(d, "none", "r", n, c.block, c.off, n)
           t == Bd!BdFlush(s, p)
<1>0. /\ p \in DOMAIN s.cache /\ "r" \in DOMAIN s.cache /\ "none" \in DOMAIN s.cache
      /\ p # "r" /\ p # "none" /\ s.cache["none"].block = Bd!LFS_BLOCK_NULL
  BY DEF Caches
<1>1. /\ c \in CacheType /\ c.off \in Nat /\ c.buffer \in Seq(Word) /\ n \in Nat
      /\ c.block \in Bd!Block /\ c.off + n <= BlockSize /\ BlockSize \in Nat
  <2>1. c \in CacheType
    BY <1>0 DEF Lfs
  <2> QED BY <2>1, CacheIs, GeometryIs DEF Pending
<1>2. n \in Nat \ {0} /\ Bd!LFS_BLOCK_NULL \notin Bd!Block /\ Bd!LFS_BLOCK_INLINE \notin Bd!Block
  <2>1. n # 0
    BY <1>1 DEF Pending
  <2>2. \A b \in Bd!Block : b >= 0
    BY GeometryIs DEF Bd!Block
  <2> QED BY <1>1, <2>1, <2>2 DEF Bd!LFS_BLOCK_NULL, Bd!LFS_BLOCK_INLINE
<1>3. t = IF u.data # c.buffer THEN Bd!Fails(u, Bd!LFS_ERR_CORRUPT) ELSE Bd!Drop(u, p)
  <2>1. c.block \notin {Bd!LFS_BLOCK_NULL, Bd!LFS_BLOCK_INLINE}
    BY <1>1, <1>2
  <2> QED BY <2>1 DEF Bd!BdFlush
<1>4. /\ Lfs(w) /\ Only(s, w, {"dev", "wrong"}) /\ Written(s, w, c.block, c.off, c.buffer)
      /\ (\A o \in Bd!Offset : Within(c.off, c.buffer, o) => Free(s, c.block, o)) => w.wrong = s.wrong
  <2> HIDE DEF c
  <2> QED BY <1>1, WriteIs
<1> HIDE DEF w, t
<1>5. w.cache = s.cache
  BY <1>4 DEF Only, Lfs, Fields
<1>6. /\ Lfs(d) /\ Only(w, d, {"cache"}) /\ OnlyCache(w, d, {"r"})
      /\ d.cache["r"].block = Bd!LFS_BLOCK_NULL
  BY <1>0, <1>4, <1>5, DropIs
<1> HIDE DEF d
<1>7. d.dev = w.dev /\ d.wrong = w.wrong /\ d.cache[p] = c /\ d.cache["none"] = s.cache["none"]
  BY <1>0, <1>4, <1>5, <1>6 DEF Only, OnlyCache, Lfs, Fields
<1>8. "none" \in DOMAIN d.cache /\ "r" \in DOMAIN d.cache /\ "none" # "r"
  BY <1>0, <1>5, <1>6 DEF OnlyCache
<1>9. Faithful(d, "r")
  BY <1>2, <1>6 DEF Faithful
<1>10. \A o : Seen(d, "none", c.block, o) = w.dev[c.block][o]
  <2>1. \A o : ~Bd!Holds(d.cache["none"], c.block, o)
    BY <1>0, <1>1, <1>2, <1>7 DEF Bd!Holds, Bd!Ahead
  <2> QED BY <1>7, <2>1 DEF Seen
<1>11. /\ u.err = Bd!LFS_ERR_OK /\ u.data \in Seq(Word) /\ Len(u.data) = n
       /\ \A i \in 1..n : u.data[i] = w.dev[c.block][c.off + i - 1]
       /\ Lfs(u) /\ Only(d, u, {"cache", "data", "err"}) /\ OnlyCache(d, u, {"r"}) /\ Faithful(u, "r")
  <2> HIDE DEF c, n
  <2>1. /\ u.err = Bd!LFS_ERR_OK /\ u.data \in Seq(Word) /\ Len(u.data) = n
        /\ \A i \in 1..n : u.data[i] = Seen(d, "none", c.block, c.off + i - 1)
        /\ Lfs(u) /\ Only(d, u, {"cache", "data", "err"}) /\ OnlyCache(d, u, {"r"}) /\ Faithful(u, "r")
    <3>1. n \in Nat /\ c.off + n <= BlockSize
      BY <1>1
    <3> QED BY <1>1, <1>2, <1>6, <1>8, <1>9, <3>1, ReadThrough
  <2> QED BY <1>10, <2>1
<1> HIDE DEF u
<1>12. u.dev = w.dev /\ u.wrong = w.wrong /\ u.cache[p] = c /\ p \in DOMAIN u.cache
  BY <1>0, <1>5, <1>6, <1>7, <1>11 DEF Only, OnlyCache, Lfs, Fields
<1>13. u.data = c.buffer <=> \A i \in 1..n : w.dev[c.block][c.off + i - 1] = c.buffer[i]
  <2> HIDE DEF c
  <2>1. /\ u.data = [i \in 1..n |-> u.data[i]]
        /\ c.buffer = [i \in 1..n |-> c.buffer[i]]
    <3>1. u.data \in Seq(Word) /\ Len(u.data) = n
      BY <1>11
    <3>2. c.buffer \in Seq(Word) /\ Len(c.buffer) = n
      BY <1>1
    <3> HIDE DEF n
    <3> QED BY <3>1, <3>2
  <2>2. ASSUME u.data = c.buffer, NEW i \in 1..n PROVE w.dev[c.block][c.off + i - 1] = c.buffer[i]
    BY <1>11, <2>2
  <2>3. ASSUME \A i \in 1..n : w.dev[c.block][c.off + i - 1] = c.buffer[i] PROVE u.data = c.buffer
    <3>1. \A i \in 1..n : u.data[i] = c.buffer[i]
      BY <1>11, <2>3
    <3> HIDE DEF n
    <3> QED BY <2>1, <3>1
  <2> QED BY <2>2, <2>3
<1>14. /\ Only(s, u, Programmed) /\ OnlyCache(s, u, {"r", p})
  BY <1>4, <1>5, <1>6, <1>11 DEF Only, OnlyCache, Programmed
<1>15. CASE u.data # c.buffer
  <2>1. Lfs(t) /\ Only(u, t, {"err"}) /\ t.err = Bd!LFS_ERR_CORRUPT
    <3>1. t = [u EXCEPT !.err = Bd!LFS_ERR_CORRUPT]
      BY <1>3, <1>15 DEF Bd!Fails
    <3> QED BY <1>11, <3>1, NewErr
  <2>2. t.dev = w.dev /\ t.cache = u.cache /\ t.wrong = w.wrong /\ t.cache[p] = c
    BY <1>11, <1>12, <2>1 DEF Only, Lfs, Fields
  <2>3. Only(s, t, Programmed) /\ OnlyCache(s, t, {"r", p})
    BY <1>14, <2>1, <2>2 DEF Only, OnlyCache, Programmed
  <2>4. Faithful(t, "r")
    BY <1>11, <1>12, <2>2 DEF Faithful
  <2>5. Written(s, t, c.block, c.off, c.buffer)
    BY <1>4, <2>2 DEF Written
  <2>6. \E i \in 1..n : t.dev[c.block][c.off + i - 1] # c.buffer[i]
    BY <1>13, <1>15, <2>2
  <2>7. Flushed(s, t, p)
    BY <1>4, <2>1, <2>2, <2>3, <2>4, <2>5, <2>6 DEF Flushed
  <2> QED BY <2>7 DEF t
<1>16. CASE u.data = c.buffer
  <2>1. /\ Lfs(t) /\ Only(u, t, {"cache"}) /\ OnlyCache(u, t, {p})
        /\ t.cache[p].block = Bd!LFS_BLOCK_NULL
    <3>1. t = Bd!Drop(u, p)
      BY <1>3, <1>16
    <3> QED BY <1>11, <1>12, <3>1, DropIs
  <2>2. t.dev = w.dev /\ t.wrong = w.wrong /\ t.err = Bd!LFS_ERR_OK /\ t.cache["r"] = u.cache["r"]
    BY <1>0, <1>11, <1>12, <1>14, <2>1 DEF Only, OnlyCache, Lfs, Fields
  <2>3. Only(s, t, Programmed) /\ OnlyCache(s, t, {"r", p})
    BY <1>14, <2>1 DEF Only, OnlyCache, Programmed
  <2>4. Faithful(t, "r")
    BY <1>11, <1>12, <2>2 DEF Faithful
  <2>5. Written(s, t, c.block, c.off, c.buffer)
    BY <1>4, <2>2 DEF Written
  <2>6. \A i \in 1..n : t.dev[c.block][c.off + i - 1] = c.buffer[i]
    BY <1>13, <1>16, <2>2
  <2>7. Flushed(s, t, p)
    BY <1>4, <2>1, <2>2, <2>3, <2>4, <2>5, <2>6 DEF Flushed
  <2> QED BY <2>7 DEF t
<1> QED BY <1>15, <1>16

(* The place at which lfs_bd_prog goes on: where the words that p holds end, *)
(* and where they start.                                                     *)
At(s, p, block, off) ==
  LET c == s.cache[p]
  IN c.block = Bd!LFS_BLOCK_NULL \/ (c.block = block /\ off = c.off + Len(c.buffer))

Serves(s, p, block) == s.cache[p].block = block

HasRoom(s, p) ==
  LET c == s.cache[p]
  IN c.block = Bd!LFS_BLOCK_NULL \/ Len(c.buffer) < CacheSize

First(s, p, off) ==
  LET c == s.cache[p]
  IN IF c.block = Bd!LFS_BLOCK_NULL THEN off ELSE c.off

AllFree(s, block, from, to) ==
  \A o \in Bd!Offset : from <= o /\ o < to => Free(s, block, o)

Untouched(s, t, block, from, to) ==
  \A b \in Bd!Block, o \in Bd!Offset :
    b # block \/ o < from \/ to <= o => t.dev[b][o] = s.dev[b][o]

(* The first n of the words are to be read at off, and everything else is as *)
(* it was in s.                                                              *)
Put(s, t, n, p, block, off, words) ==
  \A b \in Bd!Block, o \in Bd!Offset :
    Seen(t, p, b, o) = IF b = block /\ off <= o /\ o < off + n THEN words[o - off + 1]
                       ELSE Seen(s, p, b, o)

ProgArgs(s, p, block, off, words) ==
  /\ Lfs(s) /\ Caches(s, p) /\ block \in Bd!Block /\ off \in Nat
  /\ words \in Seq(Word) /\ off + Len(words) <= BlockSize

(* What lfs_bd_prog has done when n words have been placed. *)
ProgSoFar(s, t, n, p, block, off, words) ==
  LET to == off + Len(words)
  IN /\ Lfs(t) /\ Only(s, t, Programmed) /\ OnlyCache(s, t, {"r", p}) /\ Faithful(t, "r")
     /\ n \in 0..Len(words) /\ t.err \in {Bd!LFS_ERR_OK, Bd!LFS_ERR_CORRUPT}
     /\ Untouched(s, t, block, First(s, p, off), off + n)
     /\ t.err = Bd!LFS_ERR_OK =>
          /\ At(t, p, block, off + n) /\ First(s, p, off) <= First(t, p, off + n)
          /\ Put(s, t, n, p, block, off, words)
     /\ AllFree(s, block, First(s, p, off), to) =>
          /\ t.err = Bd!LFS_ERR_OK /\ t.wrong = s.wrong
          /\ AllFree(t, block, First(t, p, off + n), to)

LEMMA ArgsAre ==
  ASSUME Geometry, NEW s, NEW p, NEW block, NEW off, NEW words, ProgArgs(s, p, block, off, words)
  PROVE  /\ Lfs(s) /\ block \in Bd!Block /\ block \in Int /\ block # Bd!LFS_BLOCK_NULL
         /\ off \in Nat /\ words \in Seq(Word) /\ Len(words) \in Nat
         /\ off + Len(words) <= BlockSize /\ BlockSize \in Nat
         /\ p \in DOMAIN s.cache /\ "r" \in DOMAIN s.cache /\ p # "r" /\ p # "none"
         /\ "none" \in DOMAIN s.cache /\ s.cache["none"].block = Bd!LFS_BLOCK_NULL
         /\ s.cache[p].off \in Nat /\ First(s, p, off) \in Nat
<1>1. /\ Lfs(s) /\ block \in Bd!Block /\ off \in Nat /\ words \in Seq(Word)
      /\ off + Len(words) <= BlockSize /\ Caches(s, p) /\ Len(words) \in Nat
  BY DEF ProgArgs
<1>2. /\ p \in DOMAIN s.cache /\ "r" \in DOMAIN s.cache /\ p # "r" /\ p # "none"
      /\ "none" \in DOMAIN s.cache /\ s.cache["none"].block = Bd!LFS_BLOCK_NULL
  BY <1>1 DEF Caches
<1>3. s.cache[p].off \in Nat
  BY <1>1, <1>2 DEF Lfs, CacheType
<1>4. BlockSize \in Nat /\ block \in Int /\ block # Bd!LFS_BLOCK_NULL
  <2>1. BlockCount \in Nat /\ BlockSize \in Nat
    BY GeometryIs
  <2> QED BY <1>1, <2>1 DEF Bd!Block, Bd!LFS_BLOCK_NULL
<1>5. First(s, p, off) \in Nat
  BY <1>1, <1>3 DEF First
<1> QED BY <1>1, <1>2, <1>3, <1>4, <1>5

(* A cache that serves no place takes the next one. *)
LEMMA NewPlaceIs ==
  ASSUME Geometry, NEW s, NEW p, NEW block, NEW off, NEW words, ProgArgs(s, p, block, off, words),
         NEW u, NEW n, ProgSoFar(s, u, n, p, block, off, words), u.err = Bd!LFS_ERR_OK,
         u.cache[p].block = Bd!LFS_BLOCK_NULL
  PROVE  LET t == [u EXCEPT !.cache[p] = Bd!Cache(block, off + n, << >>)]
         IN /\ ProgSoFar(s, t, n, p, block, off, words) /\ HasRoom(t, p)
            /\ t.cache[p].block = block
<1> DEFINE c == Bd!Cache(block, off + n, << >>)
           t == [u EXCEPT !.cache[p] = c]
           to == off + Len(words)
<1>0. /\ block \in Int /\ block # Bd!LFS_BLOCK_NULL /\ off \in Nat /\ Len(words) \in Nat
      /\ p \in DOMAIN s.cache /\ p # "r"
  BY ArgsAre
<1>1. /\ Lfs(u) /\ Only(s, u, Programmed) /\ OnlyCache(s, u, {"r", p}) /\ Faithful(u, "r")
      /\ n \in 0..Len(words) /\ Untouched(s, u, block, First(s, p, off), off + n)
      /\ At(u, p, block, off + n) /\ First(s, p, off) <= First(u, p, off + n)
      /\ Put(s, u, n, p, block, off, words)
      /\ AllFree(s, block, First(s, p, off), to) =>
           u.wrong = s.wrong /\ AllFree(u, block, First(u, p, off + n), to)
  BY DEF ProgSoFar
<1>2. c = [block |-> block, off |-> off + n, buffer |-> << >>]
  BY DEF Bd!Cache
<1>3. c \in CacheType /\ c.block = block /\ c.off = off + n /\ c.buffer = << >> /\ Len(c.buffer) = 0
  <2>1. << >> \in Seq(Word) /\ off + n \in Nat
    BY <1>0, <1>1
  <2> HIDE DEF c
  <2> QED BY <1>0, <1>2, <2>1 DEF CacheType
<1> HIDE DEF c
<1>4. p \in DOMAIN u.cache
  BY <1>0, <1>1 DEF OnlyCache
<1> HIDE DEF t
<1>5. Lfs(t) /\ Only(u, t, {"cache"}) /\ OnlyCache(u, t, {p}) /\ t.cache[p] = c
  <2>1. t = [u EXCEPT !.cache[p] = c] /\ Lfs(u) /\ c \in CacheType
    BY <1>1, <1>3 DEF t
  <2> QED BY <1>4, <2>1, NewCache
<1>6. t.dev = u.dev /\ t.bad = u.bad /\ t.err = u.err /\ t.wrong = u.wrong
  BY <1>1, <1>5 DEF Only, Lfs, Fields
<1>7. Only(s, t, Programmed) /\ OnlyCache(s, t, {"r", p})
  BY <1>1, <1>5 DEF Only, OnlyCache, Programmed
<1>8. Faithful(t, "r")
  <2>1. t.cache["r"] = u.cache["r"] \/ "r" \notin DOMAIN u.cache
    BY <1>0, <1>5 DEF OnlyCache
  <2>2. "r" \in DOMAIN u.cache
    BY <1>1, ArgsAre DEF OnlyCache
  <2> QED BY <1>1, <1>6, <2>1, <2>2 DEF Faithful
<1>9. At(t, p, block, off + n) /\ HasRoom(t, p)
  <2>1. CacheSize > 0
    BY GeometryIs
  <2> QED BY <1>0, <1>1, <1>3, <1>5, <2>1 DEF At, HasRoom
<1>10. First(t, p, off + n) = First(u, p, off + n)
  BY <1>0, <1>3, <1>5 DEF First
<1>11. Put(s, t, n, p, block, off, words)
  <2> SUFFICES ASSUME NEW b \in Bd!Block, NEW o \in Bd!Offset
               PROVE  Seen(t, p, b, o) = Seen(u, p, b, o)
    BY <1>1 DEF Put
  <2>1. o \in Int /\ b \in Int /\ b # Bd!LFS_BLOCK_NULL
    <3>1. BlockSize \in Nat /\ BlockCount \in Nat
      BY GeometryIs
    <3> QED BY <3>1 DEF Bd!Offset, Bd!Block, Bd!LFS_BLOCK_NULL
  <2>2. ~Bd!Holds(t.cache[p], b, o)
    BY <1>0, <1>1, <1>3, <1>5, <2>1 DEF Bd!Holds, Bd!Ahead
  <2>3. ~Bd!Holds(u.cache[p], b, o)
    BY <2>1 DEF Bd!Holds, Bd!Ahead
  <2> QED BY <1>6, <2>2, <2>3 DEF Seen
<1>12. Untouched(s, t, block, First(s, p, off), off + n)
  BY <1>1, <1>6 DEF Untouched
<1>13. AllFree(s, block, First(s, p, off), to) =>
         t.err = Bd!LFS_ERR_OK /\ t.wrong = s.wrong /\ AllFree(t, block, First(t, p, off + n), to)
  <2> HIDE DEF to
  <2>1. \A o : Free(t, block, o) <=> Free(u, block, o)
    BY <1>6 DEF Free
  <2> QED BY <1>1, <1>6, <1>10, <2>1 DEF AllFree
<1>14. ProgSoFar(s, t, n, p, block, off, words)
  BY <1>1, <1>5, <1>6, <1>7, <1>8, <1>9, <1>10, <1>11, <1>12, <1>13 DEF ProgSoFar
<1> QED BY <1>3, <1>5, <1>9, <1>14 DEF t, c

(* Words placed where those of a cache end are appended to it. *)
LEMMA PlacedIs ==
  ASSUME NEW c \in CacheType, NEW words \in Seq(Word)
  PROVE  LET d == Bd!Placed(c, c.off + Len(c.buffer), words)
         IN /\ d \in CacheType /\ d.block = c.block /\ d.off = c.off
            /\ Len(d.buffer) = Len(c.buffer) + Len(words)
            /\ \A i \in 1..Len(d.buffer) :
                 d.buffer[i] = IF i <= Len(c.buffer) THEN c.buffer[i] ELSE words[i - Len(c.buffer)]
<1> DEFINE n == Len(c.buffer)
           m == Len(words)
           buffer == [i \in 1..(n + m) |-> IF i <= n THEN c.buffer[i] ELSE words[i - n]]
           d == Bd!Placed(c, c.off + Len(c.buffer), words)
<1>1. c.off \in Nat /\ c.buffer \in Seq(Word) /\ n \in Nat /\ m \in Nat /\ c.block \in Int
  BY CacheIs
<1>2. d = [c EXCEPT !.buffer = buffer]
  <2> DEFINE Grown(k) == [i \in 1..Bd!Most(n, k + m) |->
                            IF i > k /\ i <= k + m THEN words[i - k] ELSE c.buffer[i]]
             at == c.off + n
  <2>1. d = [c EXCEPT !.buffer = Grown(at - c.off)]
    BY DEF Bd!Placed
  <2>2. at - c.off = n
    BY <1>1
  <2>3. Bd!Most(n, n + m) = n + m
    BY <1>1 DEF Bd!Most
  <2>4. Grown(n) = buffer
    <3>1. \A i \in 1..(n + m) : i <= n + m /\ (i > n <=> ~(i <= n))
      BY <1>1
    <3> HIDE DEF n, m
    <3> QED BY <2>3, <3>1
  <2> HIDE DEF Grown, buffer, at
  <2> QED BY <2>1, <2>2, <2>4
<1>3. buffer \in Seq(Word) /\ Len(buffer) = n + m
  <2>1. \A i \in 1..(n + m) : ~(i <= n) => i - n \in 1..m
    BY <1>1
  <2>2. \A i \in 1..(n + m) : (IF i <= n THEN c.buffer[i] ELSE words[i - n]) \in Word
    BY <1>1, <2>1
  <2> QED BY <1>1, <2>2
<1>4. \A i \in 1..(n + m) : buffer[i] = IF i <= n THEN c.buffer[i] ELSE words[i - n]
  OBVIOUS
<1> HIDE DEF buffer, d
<1>5. d \in CacheType /\ d.block = c.block /\ d.off = c.off /\ d.buffer = buffer
  BY <1>1, <1>2, <1>3 DEF CacheType
<1> QED BY <1>3, <1>4, <1>5 DEF d

(* d is the cache c with m of the words appended: those that follow the first n, *)
(* whose first belongs at off.                                                   *)
Extended(c, d, off, n, m, words) ==
  /\ d \in CacheType /\ d.block = c.block /\ d.off = c.off
  /\ Len(d.buffer) = Len(c.buffer) + m /\ off + (n + m) = d.off + Len(d.buffer)
  /\ \A b : \A o \in Int :
       /\ Bd!Holds(c, b, o) <=> b = c.block /\ c.off <= o /\ o < off + n
       /\ Bd!Holds(d, b, o) <=> b = c.block /\ c.off <= o /\ o < off + (n + m)
  /\ \A o \in Int : c.off <= o /\ o < off + (n + m) =>
       d.buffer[o - c.off + 1] = IF o < off + n THEN c.buffer[o - c.off + 1]
                                 ELSE words[o - off + 1]

LEMMA ExtendedIs ==
  ASSUME NEW c \in CacheType, NEW words \in Seq(Word), NEW off \in Nat, NEW n \in Nat, NEW m \in Nat,
         n + m <= Len(words), off + n = c.off + Len(c.buffer)
  PROVE  Extended(c, Bd!Placed(c, off + n, SubSeq(words, n + 1, n + m)), off, n, m, words)
<1> DEFINE sub == SubSeq(words, n + 1, n + m)
           d == Bd!Placed(c, off + n, sub)
           len == Len(c.buffer)
<1>1. c.off \in Nat /\ c.buffer \in Seq(Word) /\ len \in Nat
  BY CacheIs
<1>2. /\ sub \in Seq(Word) /\ Len(sub) = m
      /\ \A i \in 1..m : sub[i] = words[n + i]
  <2>1. /\ n + 1 \in 1..(Len(words) + 1) /\ n + m \in (n + 1 - 1)..Len(words)
        /\ n + m - (n + 1) + 1 = m
    OBVIOUS
  <2>2. /\ sub \in Seq(Word) /\ Len(sub) = m
    BY <2>1
  <2>3. ASSUME NEW i \in 1..m PROVE sub[i] = words[n + i]
    <3> DEFINE from == n + 1
               to == n + m
    <3>1. /\ from \in Nat \ {0} /\ to \in Nat /\ from <= to + 1 /\ to <= Len(words)
          /\ i \in 1..(to - from + 1) /\ from + i - 1 = n + i
      OBVIOUS
    <3>2. sub = SubSeq(words, from, to)
      OBVIOUS
    <3> HIDE DEF from, to, sub
    <3>3. SubSeq(words, from, to)[i] = words[from + i - 1]
      BY <3>1, PartOf
    <3> QED BY <3>1, <3>2, <3>3
  <2> QED BY <2>2, <2>3
<1> HIDE DEF sub
<1>3. /\ d \in CacheType /\ d.block = c.block /\ d.off = c.off
      /\ Len(d.buffer) = len + m
      /\ \A i \in 1..Len(d.buffer) : d.buffer[i] = IF i <= len THEN c.buffer[i] ELSE sub[i - len]
  <2>1. d = Bd!Placed(c, c.off + len, sub)
    OBVIOUS
  <2> HIDE DEF d
  <2> QED BY <1>2, <2>1, PlacedIs
<1> HIDE DEF d
<1>4. off + (n + m) = d.off + Len(d.buffer)
  <2>1. d.off = c.off /\ Len(d.buffer) = len + m
    BY <1>3
  <2>2. c.off \in Nat /\ len \in Nat /\ off + n = c.off + len
    BY <1>1
  <2>3. off + (n + m) = c.off + (len + m)
    <3> HIDE DEF len
    <3> QED BY <2>2
  <2> QED BY <2>1, <2>3
<1>5. ASSUME NEW b, NEW o \in Int
      PROVE  /\ Bd!Holds(c, b, o) <=> b = c.block /\ c.off <= o /\ o < off + n
             /\ Bd!Holds(d, b, o) <=> b = c.block /\ c.off <= o /\ o < off + (n + m)
  BY <1>1, <1>3, <1>4 DEF Bd!Holds, Bd!Ahead
<1>6. ASSUME NEW o \in Int, c.off <= o, o < off + (n + m)
      PROVE  d.buffer[o - c.off + 1] = IF o < off + n THEN c.buffer[o - c.off + 1]
                                       ELSE words[o - off + 1]
  <2> DEFINE i == o - c.off + 1
  <2>1. i \in 1..Len(d.buffer) /\ (i <= len <=> o < off + n)
    <3> DEFINE start == c.off
    <3>1. /\ start \in Nat /\ len \in Nat /\ off + n = start + len
          /\ Len(d.buffer) = len + m
      BY <1>1, <1>3
    <3>2. start <= o /\ o < off + (n + m) /\ i = o - start + 1
      BY <1>6
    <3> HIDE DEF len, start, i
    <3>3. off + (n + m) = start + (len + m)
      BY <3>1
    <3>4. i \in 1..(len + m)
      BY <3>1, <3>2, <3>3
    <3>5. i <= len <=> o < off + n
      BY <3>1, <3>2
    <3> QED BY <3>1, <3>4, <3>5
  <2>2. ~(o < off + n) => i - len \in 1..m /\ n + (i - len) = o - off + 1
    <3>1. c.off \in Nat /\ len \in Nat /\ off + n = c.off + len
      BY <1>1
    <3> HIDE DEF len
    <3>2. ASSUME ~(o < off + n) PROVE i - len \in 1..m /\ n + (i - len) = o - off + 1
      <4>1. i - len = (o - (c.off + len)) + 1
        BY <3>1
      <4>2. i - len = (o - (off + n)) + 1
        BY <3>1, <4>1
      <4> HIDE DEF i
      <4> QED BY <1>6, <3>1, <3>2, <4>2
    <3> QED BY <3>2
  <2> HIDE DEF i, len
  <2>3. d.buffer[i] = IF o < off + n THEN c.buffer[i] ELSE sub[i - len]
    BY <1>3, <2>1
  <2> QED BY <1>2, <2>2, <2>3 DEF i
<1>7. Extended(c, d, off, n, m, words)
  BY <1>3, <1>4, <1>5, <1>6 DEF Extended
<1> QED BY <1>7 DEF d, sub

(* The next words go to the cache. *)
Fit(n, m, words) == n + m <= Len(words)

PlacedSoFar(s, u, t, n, m, p, block, off, words) ==
  /\ ProgSoFar(s, t, n + m, p, block, off, words) /\ t.err = Bd!LFS_ERR_OK
  /\ Serves(t, p, block) /\ Len(t.cache[p].buffer) = Len(u.cache[p].buffer) + m

Places(u, t, p, off, n, m, words) ==
  t = [u EXCEPT !.cache[p] = Bd!Placed(u.cache[p], off + n, SubSeq(words, n + 1, n + m))]

LEMMA PlaceIs ==
  ASSUME Geometry, NEW s, NEW p, NEW block, NEW off \in Nat, NEW words \in Seq(Word),
         ProgArgs(s, p, block, off, words), NEW u, NEW n \in Nat,
         ProgSoFar(s, u, n, p, block, off, words), u.err = Bd!LFS_ERR_OK,
         Serves(u, p, block), NEW m \in Nat, Fit(n, m, words),
         NEW t, Places(u, t, p, off, n, m, words)
  PROVE  PlacedSoFar(s, u, t, n, m, p, block, off, words)
<1> DEFINE c == u.cache[p]
           d == Bd!Placed(c, off + n, SubSeq(words, n + 1, n + m))
           to == off + Len(words)
<1>0. /\ block \in Int /\ block # Bd!LFS_BLOCK_NULL /\ Len(words) \in Nat
      /\ p \in DOMAIN s.cache /\ p # "r" /\ "r" \in DOMAIN s.cache
  BY ArgsAre
<1>1. /\ Lfs(u) /\ Only(s, u, Programmed) /\ OnlyCache(s, u, {"r", p}) /\ Faithful(u, "r")
      /\ n \in 0..Len(words) /\ Untouched(s, u, block, First(s, p, off), off + n)
      /\ At(u, p, block, off + n) /\ First(s, p, off) <= First(u, p, off + n)
      /\ Put(s, u, n, p, block, off, words)
      /\ AllFree(s, block, First(s, p, off), to) =>
           u.wrong = s.wrong /\ AllFree(u, block, First(u, p, off + n), to)
  BY DEF ProgSoFar
<1>2. p \in DOMAIN u.cache /\ "r" \in DOMAIN u.cache /\ c \in CacheType
  BY <1>0, <1>1 DEF OnlyCache, Lfs
<1>3. c.block = block /\ c.off \in Nat /\ Len(c.buffer) \in Nat
  BY <1>2, CacheIs DEF Serves
<1>4. off + n = c.off + Len(c.buffer) /\ First(u, p, off + n) = c.off
  BY <1>0, <1>1, <1>3 DEF At, First
<1>5. \A b, o : Seen(u, p, b, o) = IF Bd!Holds(c, b, o) THEN c.buffer[o - c.off + 1] ELSE u.dev[b][o]
  BY DEF Seen
<1>6. t = [u EXCEPT !.cache[p] = d]
  BY DEF Places
<1>7. /\ d \in CacheType /\ d.block = c.block /\ d.off = c.off
      /\ Len(d.buffer) = Len(c.buffer) + m /\ off + (n + m) = d.off + Len(d.buffer)
      /\ \A b : \A o \in Int :
           /\ Bd!Holds(c, b, o) <=> b = c.block /\ c.off <= o /\ o < off + n
           /\ Bd!Holds(d, b, o) <=> b = c.block /\ c.off <= o /\ o < off + (n + m)
      /\ \A o \in Int : c.off <= o /\ o < off + (n + m) =>
           d.buffer[o - c.off + 1] = IF o < off + n THEN c.buffer[o - c.off + 1]
                                     ELSE words[o - off + 1]
  <2> HIDE DEF c
  <2>1. Extended(c, d, off, n, m, words)
    BY <1>2, <1>4, ExtendedIs DEF Fit
  <2> HIDE DEF d
  <2> QED BY <2>1 DEF Extended
<1> HIDE DEF d
<1>8. Lfs(t) /\ Only(u, t, {"cache"}) /\ OnlyCache(u, t, {p}) /\ t.cache[p] = d
  <2>1. Lfs(u) /\ p \in DOMAIN u.cache /\ d \in CacheType
    BY <1>1, <1>2, <1>7
  <2> QED BY <1>6, <2>1, NewCache
<1>9. \A b, o : Seen(t, p, b, o) = IF Bd!Holds(d, b, o) THEN d.buffer[o - c.off + 1] ELSE t.dev[b][o]
  BY <1>7, <1>8 DEF Seen
<1>10. t.dev = u.dev /\ t.bad = u.bad /\ t.err = u.err /\ t.wrong = u.wrong
  BY <1>1, <1>8 DEF Only, Lfs, Fields
<1>11. Only(s, t, Programmed) /\ OnlyCache(s, t, {"r", p})
  BY <1>1, <1>8 DEF Only, OnlyCache, Programmed
<1>12. Faithful(t, "r")
  <2>1. t.cache["r"] = u.cache["r"]
    BY <1>0, <1>2, <1>8 DEF OnlyCache
  <2> QED BY <1>1, <1>10, <2>1 DEF Faithful
<1>13. At(t, p, block, off + (n + m)) /\ First(t, p, off + (n + m)) = c.off
  BY <1>0, <1>3, <1>7, <1>8 DEF At, First
<1> HIDE DEF c
<1>14. Put(s, t, n + m, p, block, off, words)
  <2> SUFFICES ASSUME NEW b \in Bd!Block, NEW o \in Bd!Offset
               PROVE  Seen(t, p, b, o) = IF b = block /\ off <= o /\ o < off + (n + m) THEN words[o - off + 1]
                                         ELSE Seen(s, p, b, o)
    BY DEF Put
  <2>1. o \in Int
    <3>1. BlockSize \in Nat
      BY GeometryIs
    <3> QED BY <3>1 DEF Bd!Offset
  <2>2. Seen(u, p, b, o) = IF b = block /\ off <= o /\ o < off + n THEN words[o - off + 1]
                           ELSE Seen(s, p, b, o)
    BY <1>1 DEF Put
  <2>3. /\ Bd!Holds(c, b, o) <=> b = block /\ c.off <= o /\ o < off + n
        /\ Bd!Holds(d, b, o) <=> b = block /\ c.off <= o /\ o < off + (n + m)
    BY <1>3, <1>7, <2>1
  <2>4. /\ off + n <= off + (n + m) /\ c.off <= off + n
        /\ ~(o < off + n) => off <= o /\ c.off <= o
        /\ o < off + n => o < off + (n + m)
    BY <1>3, <1>4, <2>1
  <2>5. CASE b = block /\ off + n <= o /\ o < off + (n + m)
    <3>1. Bd!Holds(d, b, o) /\ ~(o < off + n) /\ c.off <= o /\ off <= o
      BY <2>1, <2>3, <2>4, <2>5
    <3>2. d.buffer[o - c.off + 1] = words[o - off + 1]
      BY <1>7, <2>1, <2>5, <3>1
    <3> QED BY <1>9, <2>5, <3>1, <3>2
  <2>6. CASE ~(b = block /\ off + n <= o /\ o < off + (n + m))
    <3>1. Bd!Holds(d, b, o) <=> Bd!Holds(c, b, o)
      BY <2>1, <2>3, <2>4, <2>6
    <3>2. Bd!Holds(c, b, o) => d.buffer[o - c.off + 1] = c.buffer[o - c.off + 1]
      BY <1>7, <2>1, <2>3, <2>4
    <3>3. Seen(t, p, b, o) = Seen(u, p, b, o)
      BY <1>5, <1>9, <1>10, <3>1, <3>2
    <3>4. (b = block /\ off <= o /\ o < off + n) <=> (b = block /\ off <= o /\ o < off + (n + m))
      BY <2>1, <2>4, <2>6
    <3> QED BY <2>2, <3>3, <3>4
  <2> QED BY <2>5, <2>6
<1>15. Untouched(s, t, block, First(s, p, off), off + (n + m))
  <2>1. ASSUME NEW o \in Bd!Offset, off + (n + m) <= o PROVE off + n <= o
    <3>1. BlockSize \in Nat
      BY GeometryIs
    <3>2. o \in Int
      BY <3>1 DEF Bd!Offset
    <3> QED BY <2>1, <3>2
  <2> QED BY <1>1, <1>10, <2>1 DEF Untouched
<1>16. AllFree(s, block, First(s, p, off), to) =>
         t.err = Bd!LFS_ERR_OK /\ t.wrong = s.wrong /\ AllFree(t, block, First(t, p, off + (n + m)), to)
  <2> HIDE DEF to
  <2>1. \A o : Free(t, block, o) <=> Free(u, block, o)
    BY <1>10 DEF Free
  <2> QED BY <1>1, <1>4, <1>10, <1>13, <2>1 DEF AllFree
<1>17. ProgSoFar(s, t, n + m, p, block, off, words)
  <2>1. First(s, p, off) <= First(t, p, off + (n + m))
    BY <1>1, <1>4, <1>13
  <2>2. n + m \in 0..Len(words)
    BY <1>0 DEF Fit
  <2> QED BY <1>8, <1>10, <1>11, <1>12, <1>13, <1>14, <1>15, <1>16, <2>1, <2>2 DEF ProgSoFar
<1>18. Serves(t, p, block)
  BY <1>3, <1>7, <1>8 DEF Serves
<1>19. Len(t.cache[p].buffer) = Len(c.buffer) + m
  BY <1>7, <1>8
<1> QED BY <1>10, <1>17, <1>18, <1>19 DEF c, PlacedSoFar

(* A cache that is full is flushed. *)
LEMMA FlushTurnIs ==
  ASSUME Geometry, NEW s, NEW p, NEW block, NEW off \in Nat, NEW words \in Seq(Word),
         ProgArgs(s, p, block, off, words), NEW u, NEW n \in Nat,
         ProgSoFar(s, u, n, p, block, off, words), u.err = Bd!LFS_ERR_OK,
         Serves(u, p, block), u.cache[p].buffer # << >>
  PROVE  LET t == Bd!BdFlush(u, p)
         IN /\ ProgSoFar(s, t, n, p, block, off, words)
            /\ t.err = Bd!LFS_ERR_OK => Serves(t, p, Bd!LFS_BLOCK_NULL)
<1> DEFINE c == u.cache[p]
           t == Bd!BdFlush(u, p)
           to == off + Len(words)
<1>0. /\ block \in Int /\ block # Bd!LFS_BLOCK_NULL /\ Len(words) \in Nat /\ block \in Bd!Block
      /\ p \in DOMAIN s.cache /\ p # "r" /\ p # "none" /\ "r" \in DOMAIN s.cache
      /\ "none" \in DOMAIN s.cache /\ s.cache["none"].block = Bd!LFS_BLOCK_NULL
      /\ off + Len(words) <= BlockSize /\ BlockSize \in Nat
  BY ArgsAre
<1>1. /\ Lfs(u) /\ Only(s, u, Programmed) /\ OnlyCache(s, u, {"r", p}) /\ Faithful(u, "r")
      /\ n \in 0..Len(words) /\ Untouched(s, u, block, First(s, p, off), off + n)
      /\ At(u, p, block, off + n) /\ First(s, p, off) <= First(u, p, off + n)
      /\ Put(s, u, n, p, block, off, words)
      /\ AllFree(s, block, First(s, p, off), to) =>
           u.wrong = s.wrong /\ AllFree(u, block, First(u, p, off + n), to)
  BY DEF ProgSoFar
<1>2. /\ p \in DOMAIN u.cache /\ "r" \in DOMAIN u.cache /\ "none" \in DOMAIN u.cache
      /\ u.cache["none"].block = Bd!LFS_BLOCK_NULL /\ c \in CacheType
  BY <1>0, <1>1 DEF OnlyCache, Lfs
<1>3. c.block = block /\ c.off \in Nat /\ Len(c.buffer) \in Nat
  BY <1>2, CacheIs DEF Serves
<1>4. off + n = c.off + Len(c.buffer) /\ First(u, p, off + n) = c.off
  BY <1>0, <1>1, <1>3 DEF At, First
<1>5. Caches(u, p)
  BY <1>0, <1>2 DEF Caches
<1>6. Pending(u, p)
  <2>1. c.off + Len(c.buffer) <= BlockSize
    BY <1>0, <1>1, <1>4
  <2> QED BY <1>0, <1>3, <2>1 DEF Pending
<1>7. Flushed(u, t, p)
  BY <1>1, <1>5, <1>6, FlushIsChecked
<1> HIDE DEF t
<1>8. /\ Lfs(t) /\ Only(u, t, Programmed) /\ OnlyCache(u, t, {"r", p}) /\ Faithful(t, "r")
      /\ Written(u, t, block, c.off, c.buffer)
      /\ (\A o \in Bd!Offset : Within(c.off, c.buffer, o) => Free(u, block, o)) => t.wrong = u.wrong
      /\ \/ /\ t.err = Bd!LFS_ERR_OK /\ t.cache[p].block = Bd!LFS_BLOCK_NULL
            /\ \A i \in 1..Len(c.buffer) : t.dev[block][c.off + i - 1] = c.buffer[i]
         \/ /\ t.err = Bd!LFS_ERR_CORRUPT
            /\ \E i \in 1..Len(c.buffer) : t.dev[block][c.off + i - 1] # c.buffer[i]
  BY <1>3, <1>7 DEF Flushed
<1>9. \A b, o : Seen(u, p, b, o) = IF Bd!Holds(c, b, o) THEN c.buffer[o - c.off + 1] ELSE u.dev[b][o]
  BY DEF Seen
<1>10. t.bad = u.bad
  BY <1>1, <1>8 DEF Only, Programmed, Lfs, Fields
<1>11. Bd!LFS_ERR_OK # Bd!LFS_ERR_CORRUPT
  BY DEF Bd!LFS_ERR_OK, Bd!LFS_ERR_CORRUPT
<1>12. \A o \in Bd!Offset : o \in Int
  BY <1>0 DEF Bd!Offset
<1>13. \A b \in Bd!Block : b # Bd!LFS_BLOCK_NULL
  <2>1. BlockCount \in Nat
    BY GeometryIs
  <2> QED BY <2>1 DEF Bd!Block, Bd!LFS_BLOCK_NULL
<1>14. \A b : \A o \in Int : Bd!Holds(c, b, o) <=> b = block /\ Within(c.off, c.buffer, o)
  BY <1>3 DEF Bd!Holds, Bd!Ahead, Within
<1>15. Only(s, t, Programmed) /\ OnlyCache(s, t, {"r", p})
  BY <1>1, <1>8 DEF Only, OnlyCache
<1>16. t.err = Bd!LFS_ERR_OK =>
         At(t, p, block, off + n) /\ First(t, p, off + n) = off + n /\ Serves(t, p, Bd!LFS_BLOCK_NULL)
  BY <1>8, <1>11 DEF At, First, Serves
<1> HIDE DEF c
<1>17. t.err = Bd!LFS_ERR_OK => Put(s, t, n, p, block, off, words)
  <2> SUFFICES ASSUME t.err = Bd!LFS_ERR_OK, NEW b \in Bd!Block, NEW o \in Bd!Offset
               PROVE  Seen(t, p, b, o) = Seen(u, p, b, o)
    BY <1>1 DEF Put
  <2>1. o \in Int /\ b # Bd!LFS_BLOCK_NULL
    BY <1>12, <1>13
  <2>2. /\ t.cache[p].block = Bd!LFS_BLOCK_NULL
        /\ \A i \in 1..Len(c.buffer) : t.dev[block][c.off + i - 1] = c.buffer[i]
    BY <1>8, <1>11
  <2>3. Seen(t, p, b, o) = t.dev[b][o]
    BY <2>1, <2>2 DEF Seen, Bd!Holds, Bd!Ahead
  <2>4. CASE b = block /\ Within(c.off, c.buffer, o)
    <3> DEFINE i == o - c.off + 1
    <3>1. i \in 1..Len(c.buffer) /\ c.off + i - 1 = o
      BY <1>3, <2>1, <2>4 DEF Within
    <3>2. t.dev[block][c.off + i - 1] = c.buffer[i]
      BY <2>2, <3>1
    <3>3. Seen(u, p, b, o) = c.buffer[i]
      BY <1>9, <1>14, <2>1, <2>4
    <3> HIDE DEF i
    <3> QED BY <2>3, <2>4, <3>1, <3>2, <3>3
  <2>5. CASE ~(b = block /\ Within(c.off, c.buffer, o))
    <3>1. Seen(u, p, b, o) = u.dev[b][o]
      BY <1>9, <1>14, <2>1, <2>5
    <3>2. t.dev[b][o] = u.dev[b][o]
      BY <1>8, <2>5 DEF Written
    <3> QED BY <2>3, <3>1, <3>2
  <2> QED BY <2>4, <2>5
<1>18. Untouched(s, t, block, First(s, p, off), off + n)
  <2> SUFFICES ASSUME NEW b \in Bd!Block, NEW o \in Bd!Offset,
                      b # block \/ o < First(s, p, off) \/ off + n <= o
               PROVE  t.dev[b][o] = s.dev[b][o]
    BY DEF Untouched
  <2>1. u.dev[b][o] = s.dev[b][o]
    BY <1>1 DEF Untouched
  <2>2. b # block \/ ~Within(c.off, c.buffer, o)
    <3>1. First(s, p, off) <= c.off /\ First(s, p, off) \in Nat
      BY <1>1, <1>4, ArgsAre
    <3>2. o \in Int
      BY <1>12
    <3> QED BY <1>3, <1>4, <3>1, <3>2 DEF Within
  <2>3. t.dev[b][o] = u.dev[b][o]
    BY <1>8, <2>2 DEF Written
  <2> QED BY <2>1, <2>3
<1>19. ASSUME AllFree(s, block, First(s, p, off), to)
       PROVE  /\ t.err = Bd!LFS_ERR_OK /\ t.wrong = s.wrong
              /\ AllFree(t, block, First(t, p, off + n), to)
  <2>1. u.wrong = s.wrong /\ AllFree(u, block, c.off, to)
    BY <1>1, <1>4, <1>19
  <2>2. off + n <= to /\ c.off <= off + n /\ to \in Nat /\ to <= BlockSize
    BY <1>0, <1>1, <1>3, <1>4
  <2> HIDE DEF to
  <2>3. ASSUME NEW o \in Bd!Offset, Within(c.off, c.buffer, o) PROVE Free(u, block, o)
    <3>1. c.off <= o /\ o < to
      BY <1>3, <1>4, <1>12, <2>2, <2>3 DEF Within
    <3> QED BY <2>1, <3>1 DEF AllFree
  <2>4. t.wrong = u.wrong
    BY <1>8, <2>3
  <2>5. ASSUME NEW i \in 1..Len(c.buffer) PROVE t.dev[block][c.off + i - 1] = c.buffer[i]
    <3> DEFINE o == c.off + i - 1
    <3>1. /\ o \in Bd!Offset /\ Within(c.off, c.buffer, o) /\ o - c.off + 1 = i
      <4>1. o \in Nat /\ c.off <= o /\ o < off + n /\ o - c.off + 1 = i /\ o < c.off + Len(c.buffer)
        BY <1>3, <1>4
      <4>2. o <= BlockSize - 1
        BY <1>0, <2>2, <4>1
      <4> HIDE DEF o
      <4> QED BY <1>0, <4>1, <4>2 DEF Within, Bd!Offset
    <3> HIDE DEF o
    <3>2. Free(u, block, o)
      BY <2>3, <3>1
    <3>3. t.dev[block][o] = c.buffer[o - c.off + 1]
      BY <1>0, <1>8, <3>1, <3>2 DEF Written
    <3> QED BY <3>1, <3>3 DEF o
  <2>6. t.err = Bd!LFS_ERR_OK
    BY <1>8, <2>5
  <2>7. AllFree(t, block, off + n, to)
    <3> SUFFICES ASSUME NEW o \in Bd!Offset, off + n <= o, o < to PROVE Free(t, block, o)
      BY DEF AllFree
    <3>1. c.off <= o /\ ~Within(c.off, c.buffer, o)
      BY <1>3, <1>4, <1>12, <2>2 DEF Within
    <3>2. Free(u, block, o)
      BY <2>1, <3>1 DEF AllFree
    <3>3. t.dev[block][o] = u.dev[block][o]
      BY <1>0, <1>8, <3>1 DEF Written
    <3> QED BY <1>10, <3>2, <3>3 DEF Free
  <2> QED BY <1>16, <2>1, <2>4, <2>6, <2>7
<1>20. t.err = Bd!LFS_ERR_OK => First(s, p, off) <= First(t, p, off + n)
  <2>1. First(s, p, off) <= c.off /\ First(s, p, off) \in Nat
    BY <1>1, <1>4, ArgsAre
  <2>2. c.off <= off + n
    BY <1>3, <1>4
  <2> QED BY <1>3, <1>16, <2>1, <2>2
<1>21. ProgSoFar(s, t, n, p, block, off, words)
  BY <1>1, <1>8, <1>15, <1>16, <1>17, <1>18, <1>19, <1>20 DEF ProgSoFar
<1> QED BY <1>16, <1>21 DEF t

ProgProgress(t, n, p, k, block, words) ==
  \/ n = Len(words) \/ t.err # Bd!LFS_ERR_OK \/ 2 * n >= k
  \/ 2 * n + 1 >= k /\ Serves(t, p, block)

(* The loop after k turns. *)
ProgLoopInv(s, x, k, p, block, off, words) ==
  /\ x.n \in Nat /\ ProgSoFar(s, x.s, x.n, p, block, off, words)
  /\ x.s.err = Bd!LFS_ERR_OK => HasRoom(x.s, p)
  /\ ProgProgress(x.s, x.n, p, k, block, words)

LEMMA ProgTurn ==
  ASSUME Geometry, NEW s, NEW p, NEW block, NEW off \in Nat, NEW words \in Seq(Word),
         ProgArgs(s, p, block, off, words), NEW k \in Nat, NEW x,
         ProgLoopInv(s, x, k, p, block, off, words), x.s.err = Bd!LFS_ERR_OK, x.n # Len(words)
  PROVE  ProgLoopInv(s, Bd!ProgMore(x, p, block, off, words), k + 1, p, block, off, words)
<1> DEFINE u == x.s
           n == x.n
           c == u.cache[p]
           at == off + n
           m == Bd!Least(Len(words) - n, CacheSize - (at - c.off))
           y == Bd!ProgMore(x, p, block, off, words)
<1>0. /\ n \in Nat /\ ProgSoFar(s, u, n, p, block, off, words) /\ HasRoom(u, p)
      /\ n # Len(words) /\ u.err = Bd!LFS_ERR_OK
      /\ 2 * n >= k \/ (2 * n + 1 >= k /\ Serves(u, p, block))
  BY DEF ProgLoopInv, ProgProgress
<1>1. /\ block \in Int /\ block # Bd!LFS_BLOCK_NULL /\ Len(words) \in Nat /\ p \in DOMAIN s.cache
  BY ArgsAre
<1>2. /\ Lfs(u) /\ OnlyCache(s, u, {"r", p}) /\ n \in 0..Len(words) /\ At(u, p, block, at)
  BY <1>0 DEF ProgSoFar
<1>3. c \in CacheType /\ c.off \in Nat /\ c.buffer \in Seq(Word) /\ Len(c.buffer) \in Nat
  <2>1. c \in CacheType
    BY <1>1, <1>2 DEF OnlyCache, Lfs
  <2> QED BY <2>1, CacheIs
<1>4. CacheSize \in Nat /\ CacheSize > 0
  BY GeometryIs
<1>5. y = IF block = c.block /\ at >= c.off /\ at < c.off + CacheSize
          THEN [s |-> Bd!Kept([u EXCEPT !.cache[p] = Bd!Placed(c, at, SubSeq(words, n + 1, n + m))], p),
                n |-> n + m]
          ELSE [s |-> [Bd!Asserts(u, c.block = Bd!LFS_BLOCK_NULL) EXCEPT !.cache[p] = Bd!Cache(block, at, << >>)],
                n |-> n]
  BY DEF Bd!ProgMore
<1> HIDE DEF y, u, n
<1>6. CASE c.block = Bd!LFS_BLOCK_NULL
  <2> DEFINE t == [u EXCEPT !.cache[p] = Bd!Cache(block, at, << >>)]
  <2>1. y = [s |-> t, n |-> n]
    <3>1. Bd!Asserts(u, c.block = Bd!LFS_BLOCK_NULL) = u
      BY <1>6 DEF Bd!Asserts
    <3>2. ~(block = c.block)
      BY <1>1, <1>6
    <3> HIDE DEF at, c
    <3> QED BY <1>5, <3>1, <3>2
  <2>2. /\ ProgSoFar(s, t, n, p, block, off, words) /\ HasRoom(t, p) /\ t.cache[p].block = block
    <3>1. /\ ProgSoFar(s, u, n, p, block, off, words) /\ u.err = Bd!LFS_ERR_OK
          /\ u.cache[p].block = Bd!LFS_BLOCK_NULL
      BY <1>0, <1>6
    <3> HIDE DEF c, m
    <3> QED BY <3>1, NewPlaceIs
  <2>3. Serves(t, p, block) /\ ~Serves(u, p, block)
    BY <1>1, <1>6, <2>2 DEF Serves
  <2> HIDE DEF t
  <2>4. y.s = t /\ y.n = n
    BY <2>1
  <2>5. 2 * n + 1 >= k + 1
    BY <1>0, <2>3
  <2>6. ProgLoopInv(s, y, k + 1, p, block, off, words)
    BY <1>0, <2>2, <2>3, <2>4, <2>5 DEF ProgLoopInv, ProgProgress
  <2> QED BY <2>6 DEF y
<1>7. CASE c.block # Bd!LFS_BLOCK_NULL
  <2> DEFINE d == Bd!Placed(c, at, SubSeq(words, n + 1, n + m))
             v == [u EXCEPT !.cache[p] = d]
             t == Bd!BdFlush(v, p)
  <2>1. c.block = block /\ at = c.off + Len(c.buffer) /\ Len(c.buffer) < CacheSize
    BY <1>0, <1>2, <1>7 DEF At, HasRoom
  <2>2. m = Bd!Least(Len(words) - n, CacheSize - Len(c.buffer))
    <3>1. at - c.off = Len(c.buffer)
      BY <1>3, <2>1
    <3> QED BY <3>1
  <2>3. /\ m \in Nat /\ m >= 1 /\ n + m <= Len(words) /\ Len(c.buffer) + m <= CacheSize
    <3> DEFINE a == Len(words) - n
               b == CacheSize - Len(c.buffer)
    <3>1. a \in Nat /\ a >= 1 /\ n + a = Len(words) /\ n \in Nat
      BY <1>0, <1>1, <1>2
    <3>2. b \in Nat /\ b >= 1 /\ Len(c.buffer) + b = CacheSize
      <4>1. Len(c.buffer) \in Nat /\ Len(c.buffer) < CacheSize
        BY <1>3, <2>1
      <4>2. \A len \in Nat : len < CacheSize =>
              CacheSize - len \in Nat /\ CacheSize - len >= 1 /\ len + (CacheSize - len) = CacheSize
        BY <1>4
      <4> QED BY <4>1, <4>2
    <3> HIDE DEF a, b
    <3>3. m \in Nat /\ m >= 1 /\ m <= a /\ m <= b
      <4>1. m = Bd!Least(a, b)
        BY <2>2 DEF a, b
      <4> HIDE DEF m
      <4> QED BY <3>1, <3>2, <4>1 DEF Bd!Least
    <3> HIDE DEF m
    <3>4. n + m <= n + a
      BY <3>1, <3>3
    <3>5. Len(c.buffer) + m <= Len(c.buffer) + b
      <4>1. Len(c.buffer) \in Nat
        BY <1>3
      <4> QED BY <3>2, <3>3, <4>1
    <3> QED BY <3>1, <3>2, <3>3, <3>4, <3>5
  <2>4. y = [s |-> Bd!Kept(v, p), n |-> n + m]
    <3>1. block = c.block /\ at >= c.off /\ at < c.off + CacheSize
      BY <1>3, <1>4, <2>1
    <3> HIDE DEF at, c, m
    <3> QED BY <1>5, <3>1
  <2> HIDE DEF m
  <2>5. Serves(u, p, block)
    BY <2>1 DEF Serves
  <2>6. /\ ProgSoFar(s, v, n + m, p, block, off, words) /\ v.err = Bd!LFS_ERR_OK
        /\ Serves(v, p, block) /\ Len(v.cache[p].buffer) = Len(c.buffer) + m
    <3>1. /\ n \in Nat /\ ProgSoFar(s, u, n, p, block, off, words) /\ u.err = Bd!LFS_ERR_OK
          /\ m \in Nat /\ n + m <= Len(words)
      BY <1>0, <2>3
    <3>2. Places(u, v, p, off, n, m, words) /\ Fit(n, m, words)
      BY <3>1 DEF Places, Fit
    <3> HIDE DEF v
    <3>3. PlacedSoFar(s, u, v, n, m, p, block, off, words)
      BY <2>5, <3>1, <3>2, PlaceIs
    <3> QED BY <3>3 DEF PlacedSoFar
  <2> HIDE DEF v
  <2>7. 2 * (n + m) >= k + 1 /\ n + m \in Nat
    BY <1>0, <2>3
  <2>8. CASE Len(v.cache[p].buffer) = CacheSize
    <3>1. y = [s |-> t, n |-> n + m]
      BY <2>4, <2>8 DEF Bd!Kept
    <3>2. v.cache[p].buffer # << >>
      BY <1>4, <2>8
    <3>3. /\ ProgSoFar(s, t, n + m, p, block, off, words)
          /\ t.err = Bd!LFS_ERR_OK => Serves(t, p, Bd!LFS_BLOCK_NULL)
      BY <2>6, <2>7, <3>2, FlushTurnIs
    <3> HIDE DEF t
    <3>4. y.s = t /\ y.n = n + m
      BY <3>1
    <3>5. t.err = Bd!LFS_ERR_OK => HasRoom(t, p)
      BY <3>3 DEF HasRoom, Serves
    <3>6. ProgLoopInv(s, y, k + 1, p, block, off, words)
      BY <2>7, <3>3, <3>4, <3>5 DEF ProgLoopInv, ProgProgress
    <3> QED BY <3>6 DEF y
  <2>9. CASE Len(v.cache[p].buffer) # CacheSize
    <3>1. y = [s |-> v, n |-> n + m]
      BY <2>4, <2>9 DEF Bd!Kept
    <3>2. y.s = v /\ y.n = n + m
      BY <3>1
    <3>3. HasRoom(v, p)
      <4>1. Len(c.buffer) + m \in Nat
        <5>1. \A i, j \in Nat : i + j \in Nat
          OBVIOUS
        <5>2. Len(c.buffer) \in Nat /\ m \in Nat
          BY <1>3, <2>3
        <5> QED BY <5>1, <5>2
      <4> QED BY <1>4, <2>3, <2>6, <2>9, <4>1 DEF HasRoom
    <3>4. ProgLoopInv(s, y, k + 1, p, block, off, words)
      BY <2>6, <2>7, <3>2, <3>3 DEF ProgLoopInv, ProgProgress
    <3> QED BY <3>4 DEF y
  <2> QED BY <2>8, <2>9
<1> QED BY <1>6, <1>7

(* The loop of lfs_bd_prog, turn by turn. *)
LEMMA ProgSteps ==
  ASSUME NEW s, NEW p, NEW block, NEW off, NEW words, NEW size \in Nat, size = Len(words)
  PROVE  LET loop == Bd!ProgLoop(s, p, block, off, words) IN
         /\ loop[0] = [s |-> Bd!Fails(s, Bd!LFS_ERR_OK), n |-> 0]
         /\ \A k \in 0..(2 * size - 1) :
              loop[k + 1] = IF loop[k].n = size \/ ~Bd!Ok(loop[k].s) THEN loop[k]
                            ELSE Bd!ProgMore(loop[k], p, block, off, words)
<1> DEFINE Start == [s |-> Bd!Fails(s, Bd!LFS_ERR_OK), n |-> 0]
           Turn(x) == IF x.n = size \/ ~Bd!Ok(x.s) THEN x ELSE Bd!ProgMore(x, p, block, off, words)
           Body(g, n) == IF n = 0 THEN Start ELSE Turn(g[n - 1])
           Solves(g, m) == g = [n \in 0..m |-> Body(g, n)]
           S == {m \in Nat : \E g : Solves(g, m)}
           loop == Bd!ProgLoop(s, p, block, off, words)
<1>5. loop = CHOOSE g : Solves(g, 2 * size)
  BY DEF Bd!ProgLoop
<1> HIDE DEF Turn, Start, loop
<1>1. 0 \in S
  <2> DEFINE g == [n \in 0..0 |-> Start]
  <2>1. Solves(g, 0)
    OBVIOUS
  <2> QED BY <2>1
<1>2. ASSUME NEW m \in S PROVE m + 1 \in S
  <2>1. PICK g : Solves(g, m)
    BY <1>2
  <2> DEFINE h == [n \in 0..(m + 1) |-> IF n <= m THEN g[n] ELSE Turn(g[m])]
  <2>2. m \in Nat
    BY <1>2
  <2>3. ASSUME NEW n \in 0..(m + 1) PROVE h[n] = Body(h, n)
    <3>1. CASE n = 0
      <4>1. 0 \in 0..m /\ 0 <= m
        BY <2>2
      <4>2. g[0] = Start
        BY <2>1, <4>1
      <4> QED BY <3>1, <4>1, <4>2
    <3>2. CASE n \in 1..m
      <4>1. n \in 0..m /\ n - 1 \in 0..m /\ n # 0 /\ n <= m /\ n - 1 <= m /\ n - 1 \in 0..(m + 1)
        BY <2>2, <3>2
      <4>2. g[n] = Turn(g[n - 1])
        BY <2>1, <4>1
      <4> QED BY <4>1, <4>2
    <3>3. CASE n = m + 1
      <4>1. ~(n <= m) /\ n - 1 = m /\ m <= m /\ m \in 0..(m + 1) /\ n # 0
        BY <2>2, <3>3
      <4> QED BY <3>3, <4>1
    <3> QED BY <2>2, <3>1, <3>2, <3>3
  <2>4. Solves(h, m + 1)
    <3> HIDE DEF Body
    <3> QED BY <2>3
  <2> HIDE DEF Solves, h
  <2> QED BY <2>2, <2>4
<1>3. S = Nat
  <2> HIDE DEF S
  <2>1. S \in SUBSET Nat
    BY DEF S
  <2> QED BY <1>1, <1>2, <2>1, SetInduction
<1>4. 2 * size \in Nat
  OBVIOUS
<1>6. Solves(loop, 2 * size)
  <2>1. \E g : Solves(g, 2 * size)
    BY <1>3, <1>4
  <2> HIDE DEF Solves
  <2> QED BY <1>5, <2>1
<1>7. loop[0] = Start
  BY <1>4, <1>6
<1>8. ASSUME NEW k \in 0..(2 * size - 1) PROVE loop[k + 1] = Turn(loop[k])
  <2>1. k + 1 \in 0..(2 * size) /\ k + 1 # 0 /\ (k + 1) - 1 = k
    BY <1>4
  <2> QED BY <1>6, <2>1
<1> QED BY <1>7, <1>8 DEF loop, Turn, Start

(* lfs_bd_prog, at the place where the cache p ends or with a p that serves no  *)
(* place: unless it returns LFS_ERR_CORRUPT, the words are what is to be read   *)
(* where they were put and nothing else is to be read differently, whether they *)
(* are still in p or on the device.  It programs nothing outside of the words   *)
(* and those p held, and if the block is erased there and no word is bad, it    *)
(* returns LFS_ERR_OK and programs nothing twice.                               *)
THEOREM ProgramIsSeen ==
  ASSUME Geometry, NEW s, NEW p, NEW block, NEW off \in Nat, NEW words \in Seq(Word),
         ProgArgs(s, p, block, off, words), Faithful(s, "r"), At(s, p, block, off), HasRoom(s, p)
  PROVE  LET t == Bd!BdProg(s, p, block, off, words)
             to == off + Len(words)
         IN /\ Lfs(t) /\ Only(s, t, Programmed) /\ OnlyCache(s, t, {"r", p}) /\ Faithful(t, "r")
            /\ t.err \in {Bd!LFS_ERR_OK, Bd!LFS_ERR_CORRUPT}
            /\ t.err = Bd!LFS_ERR_OK =>
                 /\ Put(s, t, Len(words), p, block, off, words)
                 /\ At(t, p, block, to) /\ HasRoom(t, p)
            /\ Untouched(s, t, block, First(s, p, off), to)
            /\ AllFree(s, block, First(s, p, off), to) => t.err = Bd!LFS_ERR_OK /\ t.wrong = s.wrong
<1> DEFINE size == Len(words)
           v == Bd!Fails(s, Bd!LFS_ERR_OK)
           loop == Bd!ProgLoop(s, p, block, off, words)
           S == {k \in Nat : k <= 2 * size => ProgLoopInv(s, loop[k], k, p, block, off, words)}
           x == loop[2 * size]
           t == Bd!BdProg(s, p, block, off, words)
           to == off + size
<1>0. /\ size \in Nat /\ 2 * size \in Nat /\ BlockSize \in Nat /\ Lfs(s)
      /\ block # Bd!LFS_BLOCK_NULL /\ p \in DOMAIN s.cache /\ "r" \in DOMAIN s.cache
  BY ArgsAre
<1>1. /\ loop[0] = [s |-> v, n |-> 0]
      /\ \A k \in 0..(2 * size - 1) :
           loop[k + 1] = IF loop[k].n = size \/ ~Bd!Ok(loop[k].s) THEN loop[k]
                         ELSE Bd!ProgMore(loop[k], p, block, off, words)
  <2> HIDE DEF size
  <2>1. size = Len(words)
    BY DEF size
  <2> QED BY <1>0, <2>1, ProgSteps
<1>2. t = x.s
  BY DEF Bd!BdProg
<1> HIDE DEF loop, t
<1>3. Lfs(v) /\ Only(s, v, {"err"}) /\ v.err = Bd!LFS_ERR_OK
  BY <1>0, NewErr DEF Bd!Fails
<1> HIDE DEF v
<1>4. v.cache = s.cache /\ v.dev = s.dev /\ v.bad = s.bad /\ v.wrong = s.wrong
  BY <1>0, <1>3 DEF Only, Lfs, Fields
<1>5. 0 \in S
  <2>1. Only(s, v, Programmed) /\ OnlyCache(s, v, {"r", p}) /\ Faithful(v, "r")
    BY <1>3, <1>4 DEF Only, OnlyCache, Programmed, Faithful
  <2>2. At(v, p, block, off) /\ HasRoom(v, p) /\ First(v, p, off) = First(s, p, off)
    BY <1>4 DEF At, HasRoom, First
  <2>3. \A b, o : Seen(v, p, b, o) = Seen(s, p, b, o)
    BY <1>4 DEF Seen
  <2>4. Put(s, v, 0, p, block, off, words)
    <3> SUFFICES ASSUME NEW b \in Bd!Block, NEW o \in Bd!Offset PROVE ~(off <= o /\ o < off + 0)
      BY <2>3 DEF Put
    <3>1. o \in Int
      BY <1>0 DEF Bd!Offset
    <3> QED BY <3>1
  <2>5. Untouched(s, v, block, First(s, p, off), off + 0)
    BY <1>4 DEF Untouched
  <2>6. AllFree(s, block, First(s, p, off), to) => AllFree(v, block, First(v, p, off), to)
    <3>1. \A o : Free(v, block, o) <=> Free(s, block, o)
      BY <1>4 DEF Free
    <3> HIDE DEF to
    <3> QED BY <2>2, <3>1 DEF AllFree
  <2>7. off + 0 = off /\ 0 \in 0..Len(words) /\ First(s, p, off) <= First(s, p, off)
    BY <1>0, ArgsAre
  <2>8. ProgSoFar(s, v, 0, p, block, off, words)
    BY <1>3, <1>4, <2>1, <2>2, <2>4, <2>5, <2>6, <2>7 DEF ProgSoFar
  <2>9. loop[0].n = 0 /\ loop[0].s = v
    BY <1>1
  <2>10. ProgLoopInv(s, loop[0], 0, p, block, off, words)
    BY <2>2, <2>8, <2>9 DEF ProgLoopInv, ProgProgress
  <2> QED BY <2>10
<1>6. ASSUME NEW k \in S PROVE k + 1 \in S
  <2>1. SUFFICES ASSUME k + 1 <= 2 * size
                 PROVE  ProgLoopInv(s, loop[k + 1], k + 1, p, block, off, words)
    OBVIOUS
  <2>2. k \in Nat /\ k <= 2 * size /\ k \in 0..(2 * size - 1)
    BY <1>0, <1>6, <2>1
  <2> DEFINE w == loop[k]
  <2>3. ProgLoopInv(s, w, k, p, block, off, words)
    BY <1>6, <2>2
  <2>4. loop[k + 1] = IF w.n = size \/ ~Bd!Ok(w.s) THEN w ELSE Bd!ProgMore(w, p, block, off, words)
    BY <1>1, <2>2
  <2> HIDE DEF w
  <2>5. CASE w.n = size \/ ~Bd!Ok(w.s)
    <3>1. ProgLoopInv(s, w, k + 1, p, block, off, words)
      BY <2>3, <2>5 DEF ProgLoopInv, ProgProgress, Bd!Ok
    <3>2. loop[k + 1] = w
      BY <2>4, <2>5
    <3> QED BY <3>1, <3>2
  <2>6. CASE ~(w.n = size \/ ~Bd!Ok(w.s))
    <3>1. w.s.err = Bd!LFS_ERR_OK /\ w.n # Len(words)
      BY <2>6 DEF Bd!Ok
    <3>2. ProgLoopInv(s, Bd!ProgMore(w, p, block, off, words), k + 1, p, block, off, words)
      BY <2>2, <2>3, <3>1, ProgTurn
    <3>3. loop[k + 1] = Bd!ProgMore(w, p, block, off, words)
      BY <2>4, <2>6
    <3> QED BY <3>2, <3>3
  <2> QED BY <2>5, <2>6
<1>7. S = Nat
  <2> HIDE DEF S
  <2>1. S \in SUBSET Nat
    BY DEF S
  <2> QED BY <1>5, <1>6, <2>1, SetInduction
<1>8. ProgLoopInv(s, x, 2 * size, p, block, off, words)
  BY <1>0, <1>7
<1> HIDE DEF x
<1>9. /\ Lfs(t) /\ Only(s, t, Programmed) /\ OnlyCache(s, t, {"r", p}) /\ Faithful(t, "r")
      /\ t.err \in {Bd!LFS_ERR_OK, Bd!LFS_ERR_CORRUPT} /\ x.n \in 0..size
      /\ Untouched(s, t, block, First(s, p, off), off + x.n)
      /\ t.err = Bd!LFS_ERR_OK =>
           Put(s, t, x.n, p, block, off, words) /\ At(t, p, block, off + x.n) /\ HasRoom(t, p)
      /\ AllFree(s, block, First(s, p, off), to) => t.err = Bd!LFS_ERR_OK /\ t.wrong = s.wrong
  BY <1>2, <1>8 DEF ProgLoopInv, ProgSoFar
<1>10. t.err = Bd!LFS_ERR_OK => x.n = size
  <2>1. x.n \in Nat /\ x.n <= size
    BY <1>0, <1>9
  <2> QED BY <1>0, <1>2, <1>8, <2>1 DEF ProgLoopInv, ProgProgress
<1>11. Untouched(s, t, block, First(s, p, off), to)
  <2>1. ASSUME NEW o \in Bd!Offset, to <= o PROVE off + x.n <= o
    <3>1. o \in Int
      BY <1>0 DEF Bd!Offset
    <3> QED BY <1>0, <1>9, <2>1, <3>1
  <2> HIDE DEF to
  <2> QED BY <1>9, <2>1 DEF Untouched
<1> QED BY <1>9, <1>10, <1>11 DEF t

(* What lfs_bd_prog has put somewhere without an error, lfs_bd_read returns from *)
(* there, whatever became of the words: still in the cache, on the device, or    *)
(* some of them here and some there.                                             *)
THEOREM ProgramThenRead ==
  ASSUME Geometry, NEW s, NEW p, NEW block, NEW off \in Nat, NEW words \in Seq(Word),
         ProgArgs(s, p, block, off, words), Faithful(s, "r"), At(s, p, block, off), HasRoom(s, p),
         NEW hint \in Nat \ {0}
  PROVE  LET t == Bd!BdProg(s, p, block, off, words)
             u == Bd!BdRead(t, p, "r", hint, block, off, Len(words))
         IN t.err = Bd!LFS_ERR_OK => u.err = Bd!LFS_ERR_OK /\ u.data = words
<1> DEFINE t == Bd!BdProg(s, p, block, off, words)
           u == Bd!BdRead(t, p, "r", hint, block, off, Len(words))
<1>1. /\ Lfs(t) /\ OnlyCache(s, t, {"r", p}) /\ Faithful(t, "r")
      /\ t.err = Bd!LFS_ERR_OK => Put(s, t, Len(words), p, block, off, words)
  BY ProgramIsSeen
<1>2. /\ block \in Bd!Block /\ p \in DOMAIN s.cache /\ "r" \in DOMAIN s.cache /\ p # "r"
      /\ Len(words) \in Nat /\ off + Len(words) <= BlockSize /\ BlockSize \in Nat
  BY ArgsAre
<1>3. p \in DOMAIN t.cache /\ "r" \in DOMAIN t.cache
  BY <1>1, <1>2 DEF OnlyCache
<1> HIDE DEF t
<1>4. /\ u.err = Bd!LFS_ERR_OK /\ u.data \in Seq(Word) /\ Len(u.data) = Len(words)
      /\ \A i \in 1..Len(words) : u.data[i] = Seen(t, p, block, off + i - 1)
  <2> DEFINE size == Len(words)
  <2>1. size \in Nat /\ off + size <= BlockSize
    BY <1>2
  <2> HIDE DEF size
  <2>2. LET w == Bd!BdRead(t, p, "r", hint, block, off, size)
        IN /\ w.err = Bd!LFS_ERR_OK /\ w.data \in Seq(Word) /\ Len(w.data) = size
           /\ \A i \in 1..size : w.data[i] = Seen(t, p, block, off + i - 1)
           /\ Lfs(w) /\ Only(t, w, {"cache", "data", "err"}) /\ OnlyCache(t, w, {"r"})
           /\ Faithful(w, "r")
    <3>1. /\ Lfs(t) /\ p \in DOMAIN t.cache /\ "r" \in DOMAIN t.cache /\ p # "r" /\ Faithful(t, "r")
          /\ block \in Bd!Block
      BY <1>1, <1>2, <1>3
    <3> QED BY <2>1, <3>1, ReadThrough
  <2> QED BY <2>2 DEF size
<1> HIDE DEF u
<1>5. ASSUME t.err = Bd!LFS_ERR_OK PROVE u.data = words
  <2>1. ASSUME NEW i \in 1..Len(words) PROVE u.data[i] = words[i]
    <3> DEFINE o == off + i - 1
    <3>1. o \in Bd!Offset /\ off <= o /\ o < off + Len(words) /\ o - off + 1 = i
      BY <1>2 DEF Bd!Offset
    <3>2. u.data[i] = Seen(t, p, block, o)
      BY <1>4
    <3> HIDE DEF o
    <3>3. Seen(t, p, block, o) = words[o - off + 1]
      BY <1>1, <1>2, <1>5, <3>1 DEF Put
    <3> QED BY <3>1, <3>2, <3>3
  <2>2. /\ u.data = [i \in 1..Len(words) |-> u.data[i]]
        /\ words = [i \in 1..Len(words) |-> words[i]]
    <3>1. u.data \in Seq(Word) /\ Len(u.data) = Len(words)
      BY <1>4
    <3> QED BY <3>1
  <2> QED BY <2>1, <2>2
<1> QED BY <1>4, <1>5 DEF t, u
====
