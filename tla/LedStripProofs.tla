--------------------------- MODULE LedStripProofs ---------------------------
(***************************************************************************)
(* Theorems about the list of segments of LedStrip, which led_main walks   *)
(* while the application appends to it, for any segments and any effects.  *)
(***************************************************************************)
EXTENDS LedStrip, SequenceTheorems, TLAPS

NodesDiffer == Anchor \notin Segment /\ Unset \notin Segment \cup {Anchor}

Link == Segment \cup {Anchor, Unset}

TypeOK ==
  /\ next \in [Segment \cup {Anchor} -> Link]
  /\ prev \in [Segment \cup {Anchor} -> Link]
  /\ main \in {"init", "ended", "transmit", "walk", "wild"}
  /\ added \in Seq(Segment)
  /\ app \in [pc : {"idle", "pend", "link", "create", "mode", "fill"},
              seg : Segment \cup {Anchor},
              call : Effects \cup {"none", "solid", "off"}, num : Lights \cup {0}]

\* The nodes of the ring: the anchor, and the segments after it.
Node(list, i) == IF i = 0 THEN Anchor ELSE list[i]

AddedOnce == \A i, j \in 1..Len(added) : added[i] = added[j] => i = j

IsAdded(s) == \E i \in 1..Len(added) : added[i] = s

\* The links once the strip is set up.  The first store of an append leads to the new
\* segment, whose own link is not stored yet.
Linked ==
  flag = TRUE =>
    /\ \A i \in 0..(Len(added) - 1) : next[Node(added, i)] = Node(added, i + 1)
    /\ next[Node(added, Len(added))] = IF app.pc = "link" THEN app.seg ELSE Anchor
    /\ \A i \in 1..Len(added) : prev[Node(added, i)] = Node(added, i - 1)
    /\ prev[Anchor] = Node(added, Len(added))

Unlinked ==
  /\ \A s \in Segment : ~IsAdded(s) => next[s] = Unset
  /\ app.pc \in {"pend", "link"} => app.seg \in Segment /\ ~IsAdded(app.seg)

SetUp ==
  /\ flag \in BOOLEAN
  /\ main = "init" => flag = FALSE
  /\ main \in {"transmit", "walk", "wild"} => flag = TRUE
  /\ flag = FALSE => added = <<>> /\ app.pc # "link"

\* led_main is at a segment of the list, or at the one that is being appended.
WalkInside ==
  /\ main = "walk" => IsAdded(iter) \/ (app.pc = "link" /\ iter = app.seg)
  /\ main = "wild" => app.pc = "link"

IInv == TypeOK /\ AddedOnce /\ Linked /\ Unlinked /\ SetUp /\ WalkInside

-----------------------------------------------------------------------------

LEMMA InitIInv ==
  ASSUME NodesDiffer
  PROVE  Init => IInv
<1> SUFFICES ASSUME Init PROVE IInv
  OBVIOUS
<1>1. /\ next = [n \in Segment \cup {Anchor} |-> Unset]
      /\ prev = [n \in Segment \cup {Anchor} |-> Unset]
      /\ main = "init" /\ added = <<>> /\ app = Idle /\ flag = FALSE
  BY DEF Init
<1>2. TypeOK
  BY <1>1 DEF TypeOK, Link, Idle
<1>3. AddedOnce /\ Unlinked /\ WalkInside
  BY <1>1 DEF AddedOnce, Unlinked, WalkInside, Idle
<1>4. SetUp
  <2>1. app.pc # "link" /\ main \notin {"transmit", "walk", "wild"}
    BY <1>1 DEF Idle
  <2> QED BY <1>1, <2>1, Zenon DEF SetUp
<1>5. Linked
  BY <1>1, Zenon DEF Linked
<1> QED BY <1>2, <1>3, <1>4, <1>5 DEF IInv

\* A step that leaves the list alone, and the application outside an append or as it
\* was.
LEMMA AsideIInv ==
  ASSUME IInv, UNCHANGED listVars, TypeOK',
         app' = app \/ (app.pc \notin {"pend", "link"} /\ app'.pc \notin {"pend", "link"})
  PROVE  IInv'
<1>1. UNCHANGED <<next, prev, main, iter, flag, added>>
  BY DEF listVars
<1>2. AddedOnce'
  BY <1>1 DEF IInv, AddedOnce
<1>3. app'.pc = "link" <=> app.pc = "link"
  OBVIOUS
<1>4. app.pc = "link" => app' = app
  OBVIOUS
<1>5. Linked'
  BY <1>1, <1>3, <1>4 DEF IInv, Linked, Node
<1>6. Unlinked'
  BY <1>1 DEF IInv, Unlinked, IsAdded
<1>7. SetUp'
  BY <1>1, <1>3 DEF IInv, SetUp
<1>8. WalkInside'
  BY <1>1, <1>3, <1>4 DEF IInv, WalkInside, IsAdded
<1> QED BY <1>2, <1>5, <1>6, <1>7, <1>8 DEF IInv

\* The tasks of the segments, and the methods of the application.
LEMMA EffectIInv ==
  ASSUME IInv, NEW s \in Segment, Effect(s)
  PROVE  IInv'
<1>1. UNCHANGED <<listVars, app>>
  BY DEF Effect, ReadMode, Wait, Draw, TwinkleDraw, SparkleDraw, FireDraw, MeteorDraw,
         DissolveDraw, BlendDraw, BlinkDraw, StoreCount, RestoreMode
<1>2. TypeOK'
  BY <1>1 DEF listVars, IInv, TypeOK
<1> QED BY <1>1, <1>2, AsideIInv

LEMMA MethodIInv ==
  ASSUME IInv,
         \/ \E s \in Segment : \/ \E call \in {"solid", "off"} : Fill(s, call)
                               \/ \E e \in Effects, n \in Lights : StartEffect(s, e, n)
         \/ CreateTask \/ FillForEffect \/ StoreMode \/ Show
  PROVE  IInv'
<1>1. UNCHANGED listVars
  BY DEF Fill, StartEffect, CreateTask, FillForEffect, StoreMode, Show
<1>2. \/ app' = app
      \/ /\ app.pc \notin {"pend", "link"} /\ app'.pc \notin {"pend", "link"}
         /\ app' \in [pc : {"idle", "mode", "fill"}, seg : Segment \cup {Anchor},
                      call : Effects \cup {"none", "solid", "off"}, num : Lights \cup {0}]
  <2>1. ASSUME NEW s \in Segment, NEW call \in {"solid", "off"}, Fill(s, call)
        PROVE  app.pc = "idle" /\ app' = [pc |-> "mode", seg |-> s, call |-> call, num |-> 0]
    BY <2>1 DEF Fill
  <2>2. ASSUME NEW s \in Segment, NEW e \in Effects, NEW n \in Lights, StartEffect(s, e, n)
        PROVE  /\ app.pc = "idle"
               /\ \E pc \in {"mode", "fill"} :
                    app' = [pc |-> pc, seg |-> s, call |-> e, num |-> n]
    BY <2>2 DEF StartEffect
  <2>3. CASE CreateTask
    BY <2>3 DEF CreateTask, Idle
  <2>4. CASE FillForEffect
    BY <2>4 DEF FillForEffect, IInv, TypeOK
  <2>5. CASE StoreMode
    BY <2>5 DEF StoreMode, Idle
  <2>6. CASE Show
    BY <2>6 DEF Show
  <2> QED BY <2>1, <2>2, <2>3, <2>4, <2>5, <2>6
<1>3. TypeOK'
  BY <1>1, <1>2 DEF listVars, IInv, TypeOK
<1> QED BY <1>1, <1>2, <1>3, AsideIInv

-----------------------------------------------------------------------------
(* led_main *)

\* The anchor is linked to itself before any segment is linked to it.
LEMMA InitStripIInv ==
  ASSUME IInv, NodesDiffer, InitStrip
  PROVE  IInv'
<1>1. /\ main = "init" /\ flag = FALSE /\ added = <<>> /\ app.pc # "link"
      /\ UNCHANGED <<iter, added, app>>
  BY DEF IInv, SetUp, InitStrip
<1>2. CASE main' = "ended" /\ UNCHANGED <<next, prev, flag>>
  <2>1. TypeOK' /\ AddedOnce' /\ Unlinked' /\ WalkInside'
    BY <1>1, <1>2 DEF IInv, TypeOK, AddedOnce, Unlinked, IsAdded, WalkInside
  <2>2. Linked' /\ SetUp'
    <3>1. flag' = FALSE /\ main' = "ended"
      BY <1>1, <1>2
    <3>2. main' \notin {"transmit", "walk", "wild"} /\ main' # "init"
      BY <3>1
    <3> QED BY <1>1, <3>1, <3>2, Zenon DEF Linked, SetUp
  <2> QED BY <2>1, <2>2 DEF IInv
<1>3. CASE /\ next' = [next EXCEPT ![Anchor] = Anchor]
           /\ prev' = [prev EXCEPT ![Anchor] = Anchor]
           /\ flag' = TRUE /\ main' \in {"transmit", "ended"}
  <2>1. TypeOK'
    BY <1>1, <1>3 DEF IInv, TypeOK, Link
  <2>2. /\ next'[Anchor] = Anchor /\ prev'[Anchor] = Anchor
        /\ \A s \in Segment : next'[s] = next[s]
    BY <1>3 DEF IInv, TypeOK, NodesDiffer
  <2>3. AddedOnce' /\ Unlinked' /\ WalkInside'
    BY <1>1, <1>3, <2>2 DEF IInv, AddedOnce, Unlinked, IsAdded, WalkInside
  <2>4. Linked'
    <3>1. added' = <<>> /\ Len(added') = 0 /\ app'.pc # "link"
      BY <1>1
    <3> QED BY <2>2, <3>1 DEF Linked, Node
  <2>5. SetUp'
    <3>1. main' # "init"
      BY <1>3
    <3> QED BY <1>3, <3>1, Zenon DEF SetUp
  <2> QED BY <2>1, <2>3, <2>4, <2>5 DEF IInv
<1> QED BY <1>2, <1>3 DEF InitStrip

\* Where the link of a node leads.
LEMMA NextOf ==
  ASSUME IInv, flag = TRUE, NEW i \in 0..Len(added)
  PROVE  \/ i < Len(added) /\ next[Node(added, i)] = added[i + 1] /\ added[i + 1] \in Segment
         \/ i = Len(added) /\ next[Node(added, i)] = IF app.pc = "link" THEN app.seg ELSE Anchor
<1>1. Len(added) \in Nat /\ \A j \in 1..Len(added) : added[j] \in Segment
  BY DEF IInv, TypeOK
<1>2. CASE i < Len(added)
  BY <1>1, <1>2 DEF IInv, Linked, Node
<1>3. CASE i = Len(added)
  BY <1>3 DEF IInv, Linked
<1> QED BY <1>1, <1>2, <1>3

\* A node that led_main comes to by a link of the ring.
LEMMA FollowedInside ==
  ASSUME IInv, NodesDiffer, flag = TRUE, NEW i \in 0..Len(added),
         NEW node, node = next[Node(added, i)]
  PROVE  /\ node # Unset
         /\ node # Anchor => IsAdded(node) \/ (app.pc = "link" /\ node = app.seg)
<1>1. CASE i < Len(added)
  <2>1. node = added[i + 1] /\ i + 1 \in 1..Len(added) /\ node \in Segment
    BY <1>1, NextOf DEF IInv, TypeOK
  <2> QED BY <2>1 DEF IsAdded, NodesDiffer
<1>2. CASE i = Len(added)
  <2>1. node = IF app.pc = "link" THEN app.seg ELSE Anchor
    BY <1>2, NextOf DEF IInv, TypeOK
  <2> QED BY <2>1 DEF IInv, Unlinked, NodesDiffer
<1> QED BY <1>1, <1>2 DEF IInv, TypeOK

LEMMA WalkIInv ==
  ASSUME IInv, NodesDiffer, Walk \/ Transmit
  PROVE  IInv'
<1>1. /\ flag = TRUE /\ UNCHANGED <<next, prev, flag, added, app>>
      /\ main \in {"walk", "transmit"}
  BY DEF IInv, SetUp, Walk, Transmit
<1>2. main' \in {"wild", "transmit", "walk"}
  BY DEF Walk, Transmit
<1>3. TypeOK' /\ AddedOnce' /\ Linked' /\ Unlinked'
  BY <1>1, <1>2 DEF IInv, TypeOK, AddedOnce, Linked, Unlinked, IsAdded
<1>4. SetUp'
  <2>1. main' # "init" /\ flag' = TRUE
    BY <1>1, <1>2
  <2> QED BY <2>1, Zenon DEF SetUp
<1>5. WalkInside'
  <2>1. CASE Transmit
    <3>1. 0 \in 0..Len(added) /\ Node(added, 0) = Anchor
      BY DEF IInv, TypeOK, Node
    <3>2. /\ iter' = next[Anchor]
          /\ main' = IF next[Anchor] = Anchor THEN "transmit" ELSE "walk"
      BY <2>1 DEF Transmit
    <3> QED BY <1>1, <3>1, <3>2, FollowedInside DEF WalkInside, IsAdded
  <2>2. CASE Walk
    <3>1. /\ iter' = next[iter] /\ main = "walk"
          /\ main' = CASE next[iter] = Unset -> "wild"
                       [] next[iter] = Anchor -> "transmit"
                       [] OTHER -> "walk"
      BY <2>2 DEF Walk
    <3>2. CASE IsAdded(iter)
      <4>1. PICK i \in 1..Len(added) : added[i] = iter
        BY <3>2 DEF IsAdded
      <4>2. i \in 0..Len(added) /\ Node(added, i) = iter
        BY <4>1 DEF Node, IInv, TypeOK
      <4>3. /\ next[iter] # Unset
            /\ next[iter] # Anchor =>
                 IsAdded(next[iter]) \/ (app.pc = "link" /\ next[iter] = app.seg)
        BY <1>1, <4>2, FollowedInside
      <4>4. main' = IF next[iter] = Anchor THEN "transmit" ELSE "walk"
        BY <3>1, <4>3
      <4> QED BY <1>1, <3>1, <4>3, <4>4 DEF WalkInside, IsAdded
    <3>3. CASE ~IsAdded(iter)
      <4>1. app.pc = "link" /\ next[iter] = Unset
        BY <3>1, <3>3 DEF IInv, WalkInside, Unlinked
      <4> QED BY <1>1, <3>1, <4>1 DEF WalkInside
    <3> QED BY <3>2, <3>3
  <2> QED BY <2>1, <2>2
<1> QED BY <1>3, <1>4, <1>5 DEF IInv

-----------------------------------------------------------------------------
(* WS2812Led_addSegment *)

LEMMA AddSegmentIInv ==
  ASSUME IInv, NodesDiffer, NEW s \in Segment, AddSegment(s)
  PROVE  IInv'
<1>1. /\ app.pc = "idle" /\ s \notin Range(added)
      /\ app' = [app EXCEPT !.pc = "pend", !.seg = s]
      /\ UNCHANGED <<next, prev, main, iter, flag, added>>
  BY DEF AddSegment, listVars
<1>2. ~IsAdded(s)
  BY <1>1 DEF IsAdded, Range, IInv, TypeOK
<1>3. app'.pc = "pend" /\ app'.seg = s
  BY <1>1 DEF IInv, TypeOK
<1>4. TypeOK'
  BY <1>1 DEF IInv, TypeOK
<1>5. AddedOnce' /\ Unlinked'
  BY <1>1, <1>2, <1>3 DEF IInv, AddedOnce, Unlinked, IsAdded
<1>6. Linked' /\ SetUp' /\ WalkInside'
  BY <1>1, <1>3 DEF IInv, Linked, SetUp, WalkInside, IsAdded
<1> QED BY <1>4, <1>5, <1>6 DEF IInv

\* The first store of the append, at the last node.
LEMMA LinkForwardIInv ==
  ASSUME IInv, NodesDiffer, LinkForward
  PROVE  IInv'
<1> DEFINE n == Len(added)
           x == app.seg
           last == Node(added, n)
<1>1. /\ app.pc = "pend" /\ flag /\ app' = [app EXCEPT !.pc = "link"]
      /\ next' = [next EXCEPT ![prev[Anchor]] = x]
      /\ UNCHANGED <<prev, main, iter, flag, added>>
  BY DEF LinkForward
<1>2. flag = TRUE
  BY <1>1 DEF IInv, SetUp
<1>3. x \in Segment /\ ~IsAdded(x)
  BY <1>1 DEF IInv, Unlinked
<1>4. n \in Nat /\ \A i \in 1..n : added[i] \in Segment
  BY DEF IInv, TypeOK
<1>5. last \in Segment \cup {Anchor} /\ prev[Anchor] = last
  BY <1>2, <1>4 DEF IInv, Linked, Node
<1>6. app'.pc = "link" /\ app'.seg = x
  BY <1>1 DEF IInv, TypeOK
<1>7. /\ next'[last] = x
      /\ \A m \in Segment \cup {Anchor} : m # last => next'[m] = next[m]
  BY <1>1, <1>5 DEF IInv, TypeOK
<1>8. TypeOK'
  BY <1>1, <1>3 DEF IInv, TypeOK, Link
<1>9. \A i \in 0..(n - 1) : Node(added, i) # last /\ Node(added, i) \in Segment \cup {Anchor}
  <2> SUFFICES ASSUME NEW i \in 0..(n - 1)
               PROVE  Node(added, i) # last /\ Node(added, i) \in Segment \cup {Anchor}
    OBVIOUS
  <2>1. n \in 1..n /\ last = added[n] /\ added[n] \in Segment
    BY <1>4 DEF Node
  <2>2. CASE i = 0
    BY <2>1, <2>2 DEF Node, NodesDiffer
  <2>3. CASE i # 0
    <3>1. i \in 1..n /\ i # n /\ Node(added, i) = added[i]
      BY <1>4, <2>3 DEF Node
    <3> QED BY <1>4, <2>1, <3>1 DEF IInv, AddedOnce
  <2> QED BY <2>2, <2>3
<1>10. Linked'
  <2>1. \A i \in 0..(n - 1) : next'[Node(added, i)] = Node(added, i + 1)
    BY <1>2, <1>7, <1>9 DEF IInv, Linked
  <2> QED BY <1>1, <1>2, <1>6, <1>7, <2>1 DEF IInv, Linked
<1>11. Unlinked'
  <2> SUFFICES ASSUME NEW s \in Segment, ~IsAdded(s) PROVE next'[s] = Unset
    BY <1>1, <1>3, <1>6 DEF Unlinked, IsAdded
  <2>1. s # last
    BY <1>4 DEF IsAdded, Node, NodesDiffer
  <2> QED BY <1>7, <2>1 DEF IInv, Unlinked
<1>12. AddedOnce' /\ SetUp' /\ WalkInside'
  <2>1. AddedOnce'
    BY <1>1 DEF IInv, AddedOnce
  <2>2. SetUp'
    BY <1>1, <1>2 DEF IInv, SetUp
  <2>3. WalkInside'
    BY <1>1, <1>6 DEF IInv, WalkInside, IsAdded
  <2> QED BY <2>1, <2>2, <2>3
<1> QED BY <1>8, <1>10, <1>11, <1>12 DEF IInv

\* The other stores: the new segment is the last node of the ring.
LEMMA LinkRestIInv ==
  ASSUME IInv, NodesDiffer, main # "wild", LinkRest
  PROVE  IInv'
<1> DEFINE n == Len(added)
           x == app.seg
<1>1. /\ app.pc = "link" /\ app' = [app EXCEPT !.pc = "create"]
      /\ next' = [next EXCEPT ![x] = Anchor]
      /\ prev' = [prev EXCEPT ![x] = prev[Anchor], ![Anchor] = x]
      /\ added' = Append(added, x)
      /\ UNCHANGED <<main, iter, flag>>
  BY DEF LinkRest
<1>2. x \in Segment /\ ~IsAdded(x) /\ flag = TRUE /\ x # Anchor
  BY <1>1 DEF IInv, Unlinked, SetUp, NodesDiffer
<1>3. n \in Nat /\ added \in Seq(Segment) /\ \A i \in 1..n : added[i] \in Segment
  BY DEF IInv, TypeOK
<1>4. /\ added' \in Seq(Segment) /\ Len(added') = n + 1 /\ added'[n + 1] = x
      /\ \A i \in 1..n : added'[i] = added[i]
  BY <1>1, <1>2, <1>3, AppendProperties
<1>5. app'.pc = "create" /\ app'.seg = x
  BY <1>1 DEF IInv, TypeOK
<1>6. prev[Anchor] \in Link
  BY DEF IInv, TypeOK
<1>7. TypeOK'
  BY <1>1, <1>2, <1>4, <1>6 DEF IInv, TypeOK, Link
<1>8. /\ \A i \in 0..n : Node(added', i) = Node(added, i) /\ Node(added, i) # x
                         /\ Node(added, i) \in Segment \cup {Anchor}
      /\ Node(added', n + 1) = x
  BY <1>2, <1>3, <1>4 DEF Node, IsAdded, NodesDiffer
<1>9. /\ next'[x] = Anchor /\ prev'[x] = prev[Anchor] /\ prev'[Anchor] = x
      /\ \A m \in Segment \cup {Anchor} : m # x => next'[m] = next[m]
      /\ \A m \in Segment : m # x => prev'[m] = prev[m]
  BY <1>1, <1>2 DEF IInv, TypeOK, NodesDiffer
<1>10. Linked'
  <2>1. \A i \in 0..n : next'[Node(added', i)] = Node(added', i + 1)
    <3> SUFFICES ASSUME NEW i \in 0..n PROVE next'[Node(added', i)] = Node(added', i + 1)
      OBVIOUS
    <3>1. next'[Node(added', i)] = next[Node(added, i)]
      BY <1>8, <1>9
    <3>2. CASE i = n
      BY <1>1, <1>2, <1>8, <3>1, <3>2 DEF IInv, Linked
    <3>3. CASE i # n
      <4>1. i \in 0..(n - 1) /\ i + 1 \in 0..n
        BY <1>3, <3>3
      <4> QED BY <1>2, <1>8, <3>1, <4>1 DEF IInv, Linked
    <3> QED BY <3>2, <3>3
  <2>2. \A i \in 1..(n + 1) : prev'[Node(added', i)] = Node(added', i - 1)
    <3> SUFFICES ASSUME NEW i \in 1..(n + 1) PROVE prev'[Node(added', i)] = Node(added', i - 1)
      OBVIOUS
    <3>0. i - 1 \in 0..n
      BY <1>3
    <3>1. CASE i = n + 1
      <4>1. prev'[Node(added', i)] = prev[Anchor]
        BY <1>8, <1>9, <3>1
      <4>2. prev[Anchor] = Node(added, n)
        BY <1>2 DEF IInv, Linked
      <4>3. i - 1 = n
        BY <1>3, <3>1
      <4> QED BY <1>8, <3>0, <4>1, <4>2, <4>3
    <3>2. CASE i # n + 1
      <4>1. i \in 1..n /\ i \in 0..n
        BY <1>3, <3>2
      <4>2. Node(added', i) = added[i] /\ added[i] \in Segment /\ added[i] # x
            /\ Node(added, i) = added[i]
        BY <1>3, <1>8, <4>1 DEF Node
      <4>3. prev'[Node(added', i)] = prev[Node(added, i)]
        BY <1>9, <4>2
      <4>4. prev[Node(added, i)] = Node(added, i - 1)
        BY <1>2, <4>1 DEF IInv, Linked
      <4> QED BY <1>8, <3>0, <4>3, <4>4
    <3> QED BY <3>1, <3>2
  <2>3. \A i \in 0..(Len(added') - 1) : next'[Node(added', i)] = Node(added', i + 1)
    BY <1>3, <1>4, <2>1
  <2>4. next'[Node(added', Len(added'))] = Anchor /\ prev'[Anchor] = Node(added', Len(added'))
    BY <1>4, <1>8, <1>9
  <2> QED BY <1>4, <1>5, <2>2, <2>3, <2>4 DEF Linked
<1>11. \A s : IsAdded(s)' <=> IsAdded(s) \/ s = x
  BY <1>3, <1>4 DEF IsAdded
<1>12. AddedOnce'
  <2> SUFFICES ASSUME NEW i \in 1..(n + 1), NEW j \in 1..(n + 1), added'[i] = added'[j]
               PROVE  i = j
    BY <1>4 DEF AddedOnce
  <2>1. \A k \in 1..n : added[k] # x
    BY <1>2 DEF IsAdded
  <2>2. (i \in 1..n \/ i = n + 1) /\ (j \in 1..n \/ j = n + 1)
    BY <1>3
  <2> QED BY <1>4, <2>1, <2>2 DEF IInv, AddedOnce
<1>13. Unlinked'
  BY <1>5, <1>9, <1>11 DEF IInv, Unlinked
<1>14. SetUp'
  <2>1. flag' = TRUE /\ main' = main
    BY <1>1, <1>2
  <2>2. main' # "init"
    <3>1. flag # FALSE
      BY <1>2
    <3> QED BY <2>1, <3>1, Zenon DEF IInv, SetUp
  <2> QED BY <2>1, <2>2, Zenon DEF SetUp
<1>15. WalkInside'
  <2>1. main' # "wild"
    BY <1>1
  <2> QED BY <1>1, <1>11, <2>1 DEF IInv, WalkInside
<1> QED BY <1>7, <1>10, <1>12, <1>13, <1>14, <1>15 DEF IInv

-----------------------------------------------------------------------------

LEMMA NextIInv ==
  ASSUME NodesDiffer
  PROVE  IInv /\ [Next]_vars => IInv'
<1> SUFFICES ASSUME IInv, [Next]_vars PROVE IInv'
  OBVIOUS
<1>1. CASE UNCHANGED vars
  <2>1. UNCHANGED <<listVars, app>>
    BY <1>1 DEF vars
  <2>2. TypeOK'
    BY <2>1 DEF listVars, IInv, TypeOK
  <2> QED BY <2>1, <2>2, AsideIInv
<1>2. CASE Next
  <2>1. main # "wild"
    BY <1>2 DEF Next
  <2>2. CASE Main
    BY <2>2, InitStripIInv, WalkIInv DEF Main
  <2>3. CASE Application
    BY <2>1, <2>3, AddSegmentIInv, LinkForwardIInv, LinkRestIInv, MethodIInv
       DEF Application, Add
  <2>4. CASE \E s \in Segment : Effect(s)
    BY <2>4, EffectIInv
  <2> QED BY <1>2, <2>2, <2>3, <2>4 DEF Next
<1> QED BY <1>1, <1>2

\* The links of the strip's list are the segments in the order they were added, in
\* both directions, however led_main walks it meanwhile and whatever the tasks of the
\* segments do; and led_main follows a link that was never stored only between the two
\* halves of an append.
THEOREM RingHolds ==
  ASSUME NodesDiffer
  PROVE  Spec => []RingIsList
<1>1. IInv => RingIsList
  <2> SUFFICES ASSUME IInv PROVE RingIsList
    OBVIOUS
  <2> DEFINE ring == <<Anchor>> \o added
             After(i) == ring[IF i = Len(ring) THEN 1 ELSE i + 1]
  <2>1. main = "wild" => app.pc = "link"
    BY DEF IInv, WalkInside
  <2>2. ASSUME flag, app.pc # "link", NEW i \in 1..Len(ring)
        PROVE  next[ring[i]] = After(i) /\ prev[After(i)] = ring[i]
    <3> DEFINE n == Len(added)
    <3>1. flag = TRUE
      BY <2>2 DEF IInv, SetUp
    <3>2. n \in Nat /\ added \in Seq(Segment \cup {Anchor}) /\ <<Anchor>> \in Seq(Segment \cup {Anchor})
      BY DEF IInv, TypeOK
    <3>3. Len(ring) = n + 1 /\ \A k \in 1..(n + 1) : ring[k] = Node(added, k - 1)
      <4>1. /\ Len(ring) = n + 1
            /\ \A k \in 1..(n + 1) : ring[k] = IF k <= 1 THEN <<Anchor>>[k] ELSE added[k - 1]
        BY <3>2, ConcatProperties
      <4> HIDE DEF ring
      <4> QED BY <3>2, <4>1 DEF Node
    <3>4. i \in 1..(n + 1) /\ i - 1 \in 0..n
      BY <2>2, <3>2, <3>3
    <3> HIDE DEF ring
    <3>5. CASE i = n + 1
      <4>1. After(i) = Anchor
        BY <3>2, <3>3, <3>5 DEF Node
      <4>2. ring[i] = Node(added, n)
        BY <3>2, <3>3, <3>5
      <4> QED BY <2>2, <3>1, <4>1, <4>2 DEF IInv, Linked
    <3>6. CASE i # n + 1
      <4>1. After(i) = Node(added, i) /\ ring[i] = Node(added, i - 1)
        BY <3>2, <3>3, <3>4, <3>6
      <4>2. i \in 1..n /\ i - 1 \in 0..(n - 1) /\ (i - 1) + 1 = i
        BY <3>2, <3>4, <3>6
      <4> QED BY <3>1, <4>1, <4>2 DEF IInv, Linked
    <3> QED BY <3>5, <3>6
  <2> QED BY <2>1, <2>2 DEF RingIsList
<1> QED BY InitIInv, NextIInv, <1>1, PTL DEF Spec

-----------------------------------------------------------------------------
(* The methods of a segment and its task *)

EffectNames == {"blink", "blend", "twinkle", "sparkle", "meteor", "dissolve", "fire"}

EffectsNamed == Effects \subseteq EffectNames

FieldsOK ==
  /\ seg \in [Segment -> [mode : Effects \cup {"static"}, useRgb : BOOLEAN, on : BOOLEAN,
                          blank : BOOLEAN, timer : {"idle", "running"}]]
  /\ task \in [Segment -> [pc : {"none", "asleep", "run", "count", "mode"},
                           effect : Effects \cup {"none"}, loaded : Nat]]
  /\ asked \in [Segment -> Effects \cup {"none", "solid", "off"}]
  /\ raced \in [Segment -> BOOLEAN]
  /\ count \in [Counting -> Nat]
  /\ \A s \in Segment : InEffect(s) => task[s].effect \in Effects
  /\ app.pc \in {"fill", "mode"} =>
       app.seg \in Segment /\ app.call \in Effects \cup {"solid", "off"}
  /\ app.pc = "fill" => app.call \in Effects

\* A method of s is between its first store and its last.
Calling(s) == app.pc \in {"fill", "mode"} /\ app.seg = s

\* A call and a turn of the task that know of no overlap do not overlap; the task then
\* runs the effect that was asked for.
Apart ==
  \A s \in Segment : ~raced[s] /\ InEffect(s) =>
    /\ ~Calling(s)
    /\ asked[s] # "none" => /\ task[s].effect = asked[s]
                            /\ task[s].pc = "run" => seg[s].mode = asked[s]

\* Nothing was asked yet of a segment that is being called or added.
NotAsked ==
  /\ \A s \in Segment : asked[s] # "none" \/ Calling(s) => IsAdded(s)
  /\ \A s \in Segment : Calling(s) => asked[s] = "none"
  /\ app.pc \in {"pend", "link", "create"} =>
       app.seg \in Segment /\ asked[app.seg] = "none"

\* off blanks the segment before it stores the mode.
Blanked ==
  \A s \in Segment : Calling(s) /\ ~raced[s] /\ app.call = "off" => seg[s].blank

CallInv == FieldsOK /\ Apart /\ NotAsked /\ Blanked /\ LastCallStands

LEMMA InitCallInv == Init => CallInv
<1> SUFFICES ASSUME Init PROVE CallInv
  OBVIOUS
<1>1. /\ app = Idle /\ added = <<>>
      /\ seg = [s \in Segment |-> [mode |-> "static", useRgb |-> FALSE, on |-> FALSE,
                                   blank |-> FALSE, timer |-> "idle"]]
      /\ task = [s \in Segment |-> Absent]
      /\ asked = [s \in Segment |-> "none"] /\ raced = [s \in Segment |-> FALSE]
      /\ count = [e \in Counting |-> 0]
  BY DEF Init
<1>2. app.pc = "idle" /\ \A s \in Segment : task[s] = Absent /\ ~InEffect(s) /\ asked[s] = "none"
  BY <1>1 DEF Idle, Absent, InEffect
<1>3. FieldsOK
  <2>1. seg \in [Segment -> [mode : Effects \cup {"static"}, useRgb : BOOLEAN, on : BOOLEAN,
                             blank : BOOLEAN, timer : {"idle", "running"}]]
    BY <1>1
  <2>2. task \in [Segment -> [pc : {"none", "asleep", "run", "count", "mode"},
                              effect : Effects \cup {"none"}, loaded : Nat]]
    BY <1>1 DEF Absent
  <2> QED BY <1>1, <1>2, <2>1, <2>2 DEF FieldsOK
<1>4. Apart /\ NotAsked /\ Blanked /\ LastCallStands
  BY <1>2 DEF Apart, NotAsked, Blanked, LastCallStands, Calling
<1> QED BY <1>3, <1>4 DEF CallInv

\* A turn of the task of s: it begins with the mode it reads, goes on, and ends with
\* that mode in the field.
Begins(s) ==
  /\ ~InEffect(s) /\ task'[s].pc = "run"
  /\ task'[s].effect = seg[s].mode /\ seg[s].mode # "static"
  /\ seg' = seg /\ raced' = [raced EXCEPT ![s] = @ \/ Calling(s)]
GoesOn(s) ==
  /\ InEffect(s) /\ task'[s].pc \in {"count", "mode"}
  /\ task'[s].effect = task[s].effect /\ raced' = raced
  /\ seg'[s].mode \in {seg[s].mode, "static"}
Ends(s) ==
  /\ InEffect(s) /\ task'[s].pc = "asleep" /\ raced' = raced
  /\ seg'[s].mode = IF task[s].pc = "run" THEN seg[s].mode ELSE task[s].effect

LEMMA NumberIn ==
  ASSUME NEW S, NEW f \in [S -> Nat], NEW k, NEW n \in Nat
  PROVE  [f EXCEPT ![k] = n] \in [S -> Nat]
  OBVIOUS

\* The effects differ in what they draw; for the calls they are the same.
LEMMA EffectTurns ==
  ASSUME FieldsOK, NEW s \in Segment, Effect(s)
  PROVE  /\ UNCHANGED <<listVars, app, num, asked, drawers>>
         /\ FieldsOK'
         /\ \A u \in Segment : u # s =>
              seg'[u] = seg[u] /\ task'[u] = task[u] /\ raced'[u] = raced[u]
         /\ Begins(s) \/ GoesOn(s) \/ Ends(s)
<1>1. UNCHANGED <<listVars, app, num, asked, drawers>>
  BY DEF Effect, ReadMode, Wait, Draw, TwinkleDraw, SparkleDraw, FireDraw, MeteorDraw,
         DissolveDraw, BlendDraw, BlinkDraw, StoreCount, RestoreMode, staticVars, historyVars
<1> DEFINE Fields == [mode : Effects \cup {"static"}, useRgb : BOOLEAN, on : BOOLEAN,
                      blank : BOOLEAN, timer : {"idle", "running"}]
           Tasks == [pc : {"none", "asleep", "run", "count", "mode"},
                     effect : Effects \cup {"none"}, loaded : Nat]
<1>2. seg[s] \in Fields /\ task[s] \in Tasks /\ raced[s] \in BOOLEAN
      /\ (InEffect(s) => task[s].effect \in Effects)
  BY DEF FieldsOK
<1>3. Absent \in Tasks /\ Asleep \in Tasks /\ Asleep.pc = "asleep"
  BY DEF Absent, Asleep
<1>4. ASSUME NEW x \in Fields, NEW b \in BOOLEAN PROVE Blink(x, b) \in Fields /\ Blink(x, b).mode = x.mode
  BY <1>4 DEF Blink
<1> DEFINE Turn(f, t) ==
      /\ f \in Fields /\ t \in Tasks
      /\ t.pc \in {"run", "count", "mode"} => t.effect \in Effects
      /\ seg' = [seg EXCEPT ![s] = f] /\ task' = [task EXCEPT ![s] = t]
<1>5. ASSUME NEW f, NEW t, Turn(f, t), raced' = raced \/ raced' = [raced EXCEPT ![s] = @ \/ Calling(s)]
      PROVE  /\ FieldsOK'
             /\ \A u \in Segment : u # s =>
                  seg'[u] = seg[u] /\ task'[u] = task[u] /\ raced'[u] = raced[u]
             /\ seg'[s] = f /\ task'[s] = t
  <2>1. /\ seg' \in [Segment -> Fields] /\ task' \in [Segment -> Tasks]
        /\ seg'[s] = f /\ task'[s] = t
        /\ \A u \in Segment : u # s => seg'[u] = seg[u] /\ task'[u] = task[u]
    <3> HIDE DEF Fields, Tasks
    <3>1. seg \in [Segment -> Fields] /\ task \in [Segment -> Tasks]
      BY DEF FieldsOK, Fields, Tasks
    <3> QED BY <1>5, <3>1
  <2>2. raced' \in [Segment -> BOOLEAN] /\ \A u \in Segment : u # s => raced'[u] = raced[u]
    <3>1. raced \in [Segment -> BOOLEAN] /\ Calling(s) \in BOOLEAN
      BY DEF FieldsOK, Calling
    <3>2. CASE raced' = raced
      BY <3>1, <3>2
    <3>3. CASE raced' = [raced EXCEPT ![s] = @ \/ Calling(s)]
      <4> HIDE DEF Calling
      <4> QED BY <3>1, <3>3
    <3> QED BY <1>5, <3>2, <3>3
  <2>3. \A u \in Segment : InEffect(u)' => task'[u].effect \in Effects
    BY <1>5, <2>1 DEF InEffect, FieldsOK
  <2>4. count' \in [Counting -> Nat]
    <3>1. count \in [Counting -> Nat]
      BY DEF FieldsOK
    <3>2. CASE StoreCount(s)
      <4>1. /\ count' = [count EXCEPT ![task[s].effect] = Count(s, task[s].effect, task[s].loaded)]
            /\ task[s].loaded \in Nat
        BY <1>2, <3>2 DEF StoreCount
      <4>2. Count(s, task[s].effect, task[s].loaded) \in Nat
        BY <4>1 DEF Count
      <4> QED BY <3>1, <4>1, <4>2, NumberIn
    <3>3. CASE ~StoreCount(s)
      <4>1. count' = count
        BY <3>3 DEF Effect, ReadMode, Wait, Draw, TwinkleDraw, SparkleDraw, FireDraw, MeteorDraw,
                    DissolveDraw, BlendDraw, BlinkDraw, RestoreMode, staticVars
      <4> QED BY <3>1, <4>1
    <3> QED BY <3>2, <3>3
  <2> QED BY <1>1, <2>1, <2>2, <2>3, <2>4 DEF FieldsOK
<1>6. CASE ReadMode(s)
  <2> DEFINE t == [task[s] EXCEPT !.pc = "run", !.effect = seg[s].mode]
  <2>1. /\ task[s].pc = "asleep" /\ seg[s].mode # "static" /\ seg' = seg
        /\ task' = [task EXCEPT ![s] = t]
        /\ raced' = [raced EXCEPT ![s] = @ \/ Calling(s)]
    BY <1>6 DEF ReadMode, Calling
  <2>2. t \in Tasks /\ t.pc = "run" /\ t.effect = seg[s].mode /\ t.effect \in Effects
    BY <1>2, <2>1
  <2>3. seg' = [seg EXCEPT ![s] = seg[s]]
    BY <2>1 DEF FieldsOK
  <2> HIDE DEF t
  <2>4. Turn(seg[s], t)
    BY <1>2, <2>1, <2>2, <2>3
  <2> HIDE DEF Turn
  <2>5. /\ FieldsOK' /\ task'[s] = t
        /\ \A u \in Segment : u # s =>
             seg'[u] = seg[u] /\ task'[u] = task[u] /\ raced'[u] = raced[u]
    BY <1>5, <2>1, <2>4
  <2>6. Begins(s)
    BY <2>1, <2>2, <2>5 DEF Begins, InEffect
  <2> QED BY <1>1, <2>5, <2>6
<1>7. CASE ~ReadMode(s)
  <2>1. /\ InEffect(s) /\ raced' = raced
    BY <1>7 DEF Effect, Wait, Draw, TwinkleDraw, SparkleDraw, FireDraw, MeteorDraw,
                DissolveDraw, BlendDraw, BlinkDraw, StoreCount, RestoreMode, InEffect, Due,
                historyVars
  <2> DEFINE On(f, t) == /\ t.pc \in {"count", "mode"} /\ t.effect = task[s].effect
                         /\ f.mode \in {seg[s].mode, "static"}
             Off(f, t) == /\ t.pc = "asleep"
                          /\ f.mode = IF task[s].pc = "run" THEN seg[s].mode ELSE task[s].effect
  <2>2. ASSUME NEW f, NEW t, Turn(f, t), On(f, t) \/ Off(f, t)
        PROVE  /\ FieldsOK'
               /\ \A u \in Segment : u # s =>
                    seg'[u] = seg[u] /\ task'[u] = task[u] /\ raced'[u] = raced[u]
               /\ GoesOn(s) \/ Ends(s)
    <3>1. seg'[s] = f /\ task'[s] = t
      BY <1>5, <2>1, <2>2
    <3>2. GoesOn(s) \/ Ends(s)
      BY <2>1, <2>2, <3>1 DEF GoesOn, Ends
    <3> QED BY <1>5, <2>1, <2>2, <3>2
  <2>3. \E f, t : Turn(f, t) /\ (On(f, t) \/ Off(f, t))
    <3> DEFINE f == seg[s]
               t == task[s]
               stays == seg' = [seg EXCEPT ![s] = f]
               lit == [f EXCEPT !.blank = FALSE]
               toMode == [t EXCEPT !.pc = "mode"]
    <3>1. /\ toMode \in Tasks /\ On(f, toMode) /\ toMode.effect \in Effects
          /\ lit \in Fields /\ lit.mode = f.mode
          /\ seg' = seg => stays
      <4>1. toMode \in Tasks /\ On(f, toMode) /\ toMode.effect \in Effects
        BY <1>2, <2>1
      <4>2. lit \in Fields /\ lit.mode = f.mode
        BY <1>2
      <4>3. seg = [seg EXCEPT ![s] = f]
        BY DEF FieldsOK
      <4> QED BY <4>1, <4>2, <4>3
    <3>2. CASE Wait(s)
      <4> DEFINE f2 == IF t.effect = "blink" THEN Blink(f, FALSE) ELSE f
                 t2 == IF t.effect = "blend" THEN Asleep ELSE toMode
      <4>1. /\ t.pc = "run" /\ seg' = [seg EXCEPT ![s] = f2] /\ task' = [task EXCEPT ![s] = t2]
        BY <3>2 DEF Wait
      <4>2. f2 \in Fields /\ f2.mode = f.mode
        BY <1>2, <1>4
      <4>3. t2 \in Tasks /\ (t2 = Asleep \/ t2 = toMode)
        BY <1>3, <3>1
      <4> HIDE DEF f2, t2, toMode
      <4>4. Turn(f2, t2) /\ (On(f2, t2) \/ Off(f2, t2))
        BY <1>3, <3>1, <4>1, <4>2, <4>3
      <4> QED BY <4>4
    <3>3. CASE TwinkleDraw(s)
      <4> DEFINE t2 == [t EXCEPT !.pc = "count", !.loaded = count["twinkle"]]
      <4>1. seg' = [seg EXCEPT ![s] = lit] /\ task' = [task EXCEPT ![s] = t2]
        BY <3>3 DEF TwinkleDraw
      <4>2. count["twinkle"] \in Nat
        BY DEF FieldsOK, Counting
      <4>3. t2 \in Tasks /\ On(lit, t2) /\ t2.effect \in Effects
        BY <1>2, <2>1, <4>2
      <4>4. Turn(lit, t2)
        BY <3>1, <4>1, <4>3
      <4> QED BY <4>3, <4>4
    <3>4. CASE MeteorDraw(s)
      <4> DEFINE t2 == [t EXCEPT !.pc = "count", !.loaded = count["meteor"]]
      <4>1. stays /\ task' = [task EXCEPT ![s] = t2]
        BY <3>1, <3>4 DEF MeteorDraw
      <4>2. count["meteor"] \in Nat
        BY DEF FieldsOK, Counting
      <4>3. t2 \in Tasks /\ On(f, t2) /\ t2.effect \in Effects
        BY <1>2, <2>1, <4>2
      <4>4. Turn(f, t2)
        BY <1>2, <4>1, <4>3
      <4> QED BY <4>3, <4>4
    <3>5. CASE SparkleDraw(s)
      <4>1. seg' = [seg EXCEPT ![s] = lit] /\ task' = [task EXCEPT ![s] = toMode]
        BY <3>5 DEF SparkleDraw
      <4>2. Turn(lit, toMode)
        BY <3>1, <4>1
      <4> QED BY <3>1, <4>2
    <3>6. CASE FireDraw(s) \/ DissolveDraw(s)
      <4>1. stays /\ task' = [task EXCEPT ![s] = toMode]
        BY <3>1, <3>6 DEF FireDraw, DissolveDraw
      <4>2. Turn(f, toMode)
        BY <1>2, <3>1, <4>1
      <4> QED BY <3>1, <4>2
    <3>7. CASE BlendDraw(s)
      <4>1. CASE /\ seg' = [seg EXCEPT ![s].blank = FALSE]
                 /\ task' = [task EXCEPT ![s] = Asleep]
        <5>1. Turn(lit, Asleep)
          BY <1>3, <3>1, <4>1
        <5>2. t.pc = "run"
          BY <3>7 DEF BlendDraw, Due
        <5> QED BY <1>3, <3>1, <5>1, <5>2
      <4>2. CASE /\ seg' = [seg EXCEPT ![s].blank = FALSE, ![s].mode = "static"]
                 /\ task' = [task EXCEPT ![s].pc = "mode"]
        <5> DEFINE f2 == [lit EXCEPT !.mode = "static"]
        <5>1. seg' = [seg EXCEPT ![s] = f2] /\ task' = [task EXCEPT ![s] = toMode]
          BY <4>2 DEF FieldsOK
        <5>2. f2 \in Fields /\ f2.mode = "static"
          BY <1>2
        <5> HIDE DEF f2, toMode
        <5>3. Turn(f2, toMode) /\ On(f2, toMode)
          BY <3>1, <5>1, <5>2
        <5> QED BY <5>3
      <4> QED BY <3>7, <4>1, <4>2 DEF BlendDraw
    <3>8. CASE BlinkDraw(s)
      <4>1. seg' = [seg EXCEPT ![s] = Blink(f, TRUE)] /\ task' = [task EXCEPT ![s] = toMode]
        BY <3>8 DEF BlinkDraw
      <4>2. Blink(f, TRUE) \in Fields /\ Blink(f, TRUE).mode = f.mode
        BY <1>2, <1>4
      <4>3. Turn(Blink(f, TRUE), toMode) /\ On(Blink(f, TRUE), toMode)
        BY <3>1, <4>1, <4>2
      <4> QED BY <4>3
    <3>9. CASE StoreCount(s)
      <4> DEFINE f2 == [f EXCEPT !.blank = @ \/ (t.effect = "twinkle" /\ t.loaded + 1 = num)]
                 t2 == [t EXCEPT !.pc = "mode", !.loaded = 0]
      <4>1. seg' = [seg EXCEPT ![s] = f2] /\ task' = [task EXCEPT ![s] = t2]
        BY <3>9 DEF StoreCount
      <4>2. f2 \in Fields
        BY <1>2
      <4>3. t2 \in Tasks /\ On(f2, t2) /\ t2.effect \in Effects
        BY <1>2, <2>1
      <4>4. Turn(f2, t2)
        BY <4>1, <4>2, <4>3
      <4> QED BY <4>3, <4>4
    <3>10. CASE RestoreMode(s)
      <4> DEFINE f2 == [f EXCEPT !.mode = t.effect]
      <4>1. t.pc = "mode" /\ seg' = [seg EXCEPT ![s] = f2] /\ task' = [task EXCEPT ![s] = Asleep]
        BY <3>10 DEF RestoreMode
      <4>2. f2 \in Fields /\ f2.mode = t.effect
        BY <1>2, <2>1
      <4>3. Turn(f2, Asleep) /\ Off(f2, Asleep)
        BY <1>3, <4>1, <4>2
      <4> QED BY <4>3
    <3> QED BY <1>7, <3>2, <3>3, <3>4, <3>5, <3>6, <3>7, <3>8, <3>9, <3>10 DEF Effect, Draw
  <2> QED BY <1>1, <2>2, <2>3
<1> QED BY <1>6, <1>7

\* A turn of a task keeps what the calls rely on: it begins with the mode of the last
\* call, or knows of one that is under way.
LEMMA EffectCallInv ==
  ASSUME EffectsNamed, CallInv, NEW s \in Segment, Effect(s)
  PROVE  CallInv'
<1>1. /\ UNCHANGED <<added, app, asked>> /\ FieldsOK /\ FieldsOK'
      /\ \A u \in Segment : u # s =>
           seg'[u] = seg[u] /\ task'[u] = task[u] /\ raced'[u] = raced[u]
      /\ Begins(s) \/ GoesOn(s) \/ Ends(s)
  BY EffectTurns DEF CallInv, listVars
<1>2. \A u \in Segment : Calling(u)' = Calling(u)
  BY <1>1 DEF Calling
<1>3. \A u \in Segment : u # s => InEffect(u)' = InEffect(u)
  BY <1>1 DEF InEffect
<1>4. raced[s] \in BOOLEAN /\ (raced[s] => raced'[s])
  BY <1>1 DEF FieldsOK, Begins, GoesOn, Ends
<1>5. Apart'
  <2> SUFFICES ASSUME ~raced'[s], InEffect(s)'
               PROVE  /\ ~Calling(s)
                      /\ asked[s] # "none" => /\ task'[s].effect = asked[s]
                                              /\ task'[s].pc = "run" => seg'[s].mode = asked[s]
    BY <1>1, <1>2, <1>3 DEF CallInv, Apart
  <2>1. CASE Begins(s)
    <3>1. ~Calling(s) /\ ~raced[s]
      BY <1>1, <1>4, <2>1 DEF Begins, FieldsOK
    <3>2. asked[s] # "none" => seg[s].mode = ModeOf(asked[s])
      BY <2>1, <3>1 DEF CallInv, LastCallStands, Begins
    <3> QED BY <2>1, <3>1, <3>2 DEF Begins, ModeOf
  <2>2. CASE GoesOn(s)
    BY <2>2 DEF GoesOn, CallInv, Apart
  <2>3. CASE Ends(s)
    BY <2>3 DEF Ends, InEffect
  <2> QED BY <1>1, <2>1, <2>2, <2>3
<1>6. NotAsked'
  BY <1>1, <1>2 DEF CallInv, NotAsked, IsAdded
<1>7. Blanked'
  <2> SUFFICES ASSUME Calling(s), ~raced'[s], app.call = "off" PROVE seg'[s].blank
    BY <1>1, <1>2 DEF CallInv, Blanked
  <2>1. ~InEffect(s)
    BY <1>4 DEF CallInv, Apart
  <2>2. seg' = seg
    BY <1>1, <2>1 DEF Begins, GoesOn, Ends
  <2> QED BY <1>4, <2>2 DEF CallInv, Blanked
<1>8. LastCallStands'
  <2> SUFFICES ASSUME ~raced'[s], asked[s] # "none", ~InEffect(s)'
               PROVE  /\ seg'[s].mode = ModeOf(asked[s])
                      /\ asked[s] = "off" => seg'[s].blank
    BY <1>1, <1>3 DEF CallInv, LastCallStands
  <2>1. Ends(s) /\ ~raced[s] /\ InEffect(s)
    BY <1>1, <1>4 DEF Begins, GoesOn, Ends, InEffect
  <2>2. task[s].effect = asked[s] /\ (task[s].pc = "run" => seg[s].mode = asked[s])
    BY <2>1 DEF CallInv, Apart
  <2>3. asked[s] \in Effects
    BY <1>1, <2>1, <2>2 DEF FieldsOK
  <2>4. asked[s] \notin {"solid", "off"}
    BY <2>3 DEF EffectsNamed, EffectNames
  <2> QED BY <2>1, <2>2, <2>4 DEF Ends, ModeOf
<1> QED BY <1>1, <1>5, <1>6, <1>7, <1>8 DEF CallInv

\* led_main and the appends, which know nothing of modes, and a task that is created.
LEMMA AsideCallInv ==
  ASSUME IInv, CallInv, Main \/ Add \/ UNCHANGED vars
  PROVE  CallInv'
<1>1. UNCHANGED <<seg, asked, raced, count>>
  BY DEF Main, InitStrip, Walk, Transmit, Add, LinkForward, LinkRest, CreateTask, vars,
         historyVars, staticVars
<1>2. \/ UNCHANGED <<app, task>>
      \/ app.pc = "pend" /\ app' = [app EXCEPT !.pc = "link"] /\ UNCHANGED task
      \/ app.pc = "link" /\ app' = [app EXCEPT !.pc = "create"] /\ UNCHANGED task
      \/ /\ app.pc = "create" /\ app' = Idle
         /\ task' = [task EXCEPT ![app.seg] = Asleep] \/ UNCHANGED task
  BY DEF Main, InitStrip, Walk, Transmit, Add, LinkForward, LinkRest, CreateTask, vars
<1>3. /\ app \in [pc : {"idle", "pend", "link", "create", "mode", "fill"},
                  seg : Segment \cup {Anchor},
                  call : Effects \cup {"none", "solid", "off"}, num : Lights \cup {0}]
      /\ added \in Seq(Segment)
  BY DEF IInv, TypeOK
<1>4. \A u \in Segment : Calling(u)' <=> Calling(u)
  BY <1>2, <1>3 DEF Calling, Idle
<1>5. \A u \in Segment : IsAdded(u) => IsAdded(u)'
  <2>1. CASE added' = added
    BY <2>1 DEF IsAdded
  <2>2. CASE LinkRest
    <3>1. added' = Append(added, app.seg) /\ app.pc = "link"
      BY <2>2 DEF LinkRest
    <3>2. app.seg \in Segment
      BY <3>1 DEF IInv, Unlinked
    <3>3. Len(added') = Len(added) + 1 /\ \A i \in 1..Len(added) : added'[i] = added[i]
      BY <1>3, <3>1, <3>2, AppendProperties
    <3> QED BY <1>3, <3>3 DEF IsAdded
  <2> QED BY <2>1, <2>2 DEF Main, InitStrip, Walk, Transmit, Add, LinkForward, CreateTask,
                            vars, listVars
<1>6. \A u \in Segment : /\ task'[u] = task[u] \/ (~InEffect(u)' /\ asked[u] = "none")
  <2>1. CASE UNCHANGED task
    BY <2>1
  <2>2. CASE app.pc = "create" /\ task' = [task EXCEPT ![app.seg] = Asleep]
    <3>1. app.seg \in Segment /\ asked[app.seg] = "none"
      BY <2>2 DEF CallInv, NotAsked
    <3>2. task'[app.seg].pc = "asleep" /\ \A u \in Segment : u # app.seg => task'[u] = task[u]
      BY <2>2, <3>1 DEF CallInv, FieldsOK, Asleep, Absent
    <3> QED BY <3>1, <3>2 DEF InEffect
  <2> QED BY <1>2, <2>1, <2>2
<1>7. FieldsOK'
  <2>1. task' \in [Segment -> [pc : {"none", "asleep", "run", "count", "mode"},
                               effect : Effects \cup {"none"}, loaded : Nat]]
    <3>1. Asleep \in [pc : {"none", "asleep", "run", "count", "mode"},
                      effect : Effects \cup {"none"}, loaded : Nat]
      BY DEF Asleep, Absent
    <3> QED BY <1>2, <3>1 DEF CallInv, FieldsOK
  <2>2. \A u \in Segment : InEffect(u)' => task'[u].effect \in Effects
    BY <1>6 DEF CallInv, FieldsOK, InEffect
  <2>3. app'.pc \in {"fill", "mode"} => app' = app
    BY <1>2, <1>3 DEF Idle
  <2> QED BY <1>1, <2>1, <2>2, <2>3 DEF CallInv, FieldsOK
<1>8. Apart' /\ LastCallStands'
  <2>1. \A u \in Segment : InEffect(u)' => task'[u] = task[u] /\ InEffect(u)
    BY <1>6 DEF InEffect
  <2>2. \A u \in Segment : asked[u] # "none" => (InEffect(u)' <=> InEffect(u))
    BY <1>6 DEF InEffect
  <2>3. Apart'
    BY <1>1, <1>4, <2>1 DEF CallInv, Apart
  <2>4. LastCallStands'
    BY <1>1, <2>2 DEF CallInv, LastCallStands
  <2> QED BY <2>3, <2>4
<1>9. NotAsked'
  <2>1. app'.pc \in {"pend", "link", "create"} =>
          app.pc \in {"pend", "link", "create"} /\ app'.seg = app.seg
    BY <1>2, <1>3 DEF Idle
  <2> QED BY <1>1, <1>4, <1>5, <2>1 DEF CallInv, NotAsked
<1>10. Blanked'
  <2>1. \A u \in Segment : Calling(u)' => app'.call = app.call
    BY <1>2, <1>3 DEF Calling, Idle
  <2> QED BY <1>1, <1>4, <2>1 DEF CallInv, Blanked
<1> QED BY <1>7, <1>8, <1>9, <1>10 DEF CallInv

\* A new segment has its defaults, and nothing was asked of it.
LEMMA AddSegmentCallInv ==
  ASSUME IInv, CallInv, NEW s \in Segment, AddSegment(s)
  PROVE  CallInv'
<1>1. /\ app.pc = "idle" /\ s \notin Range(added)
      /\ app' = [app EXCEPT !.pc = "pend", !.seg = s]
      /\ seg' = [seg EXCEPT ![s].mode = "static", ![s].useRgb = FALSE]
      /\ UNCHANGED <<added, task, asked, raced, count>>
      /\ task[s].pc = "none"
  BY DEF AddSegment, listVars, historyVars, staticVars
<1>2. ~IsAdded(s)
  BY <1>1 DEF IsAdded, Range, IInv, TypeOK
<1>3. asked[s] = "none"
  BY <1>2 DEF CallInv, NotAsked
<1>4. app'.pc = "pend" /\ app'.seg = s
  BY <1>1 DEF IInv, TypeOK
<1>5. \A u \in Segment : u # s => seg'[u] = seg[u]
  BY <1>1 DEF CallInv, FieldsOK
<1>6. \A u \in Segment : ~Calling(u)' /\ ~Calling(u) /\ (InEffect(u)' <=> InEffect(u))
  BY <1>1, <1>4 DEF Calling, InEffect
<1>7. FieldsOK'
  <2>1. seg' \in [Segment -> [mode : Effects \cup {"static"}, useRgb : BOOLEAN, on : BOOLEAN,
                              blank : BOOLEAN, timer : {"idle", "running"}]]
    <3> DEFINE f == [seg[s] EXCEPT !.mode = "static", !.useRgb = FALSE]
    <3>1. f \in [mode : Effects \cup {"static"}, useRgb : BOOLEAN, on : BOOLEAN,
                 blank : BOOLEAN, timer : {"idle", "running"}]
      <4>1. seg[s] \in [mode : Effects \cup {"static"}, useRgb : BOOLEAN, on : BOOLEAN,
                        blank : BOOLEAN, timer : {"idle", "running"}]
        BY DEF CallInv, FieldsOK
      <4> QED BY <4>1
    <3>2. seg' = [seg EXCEPT ![s] = f]
      BY <1>1 DEF CallInv, FieldsOK
    <3> HIDE DEF f
    <3> QED BY <3>1, <3>2 DEF CallInv, FieldsOK
  <2> QED BY <1>1, <1>4, <1>6, <2>1 DEF CallInv, FieldsOK
<1>8. Apart'
  BY <1>1, <1>3, <1>5, <1>6 DEF CallInv, Apart
<1>9. NotAsked' /\ Blanked'
  BY <1>1, <1>3, <1>4, <1>6 DEF CallInv, NotAsked, Blanked, IsAdded
<1>10. LastCallStands'
  BY <1>1, <1>3, <1>5, <1>6 DEF CallInv, LastCallStands
<1> QED BY <1>7, <1>8, <1>9, <1>10 DEF CallInv

\* WS2812Led_show switches segments on, and does nothing to their modes.
LEMMA ShowCallInv ==
  ASSUME CallInv, Show
  PROVE  CallInv'
<1>1. /\ seg' = [s \in Segment |-> [seg[s] EXCEPT !.on = @ \/ s \in Range(added)]]
      /\ UNCHANGED <<added, app, task, asked, raced, count>>
  BY DEF Show, listVars, historyVars, staticVars
<1>2. \A s \in Segment : seg'[s].mode = seg[s].mode /\ seg'[s].blank = seg[s].blank
  BY <1>1 DEF CallInv, FieldsOK
<1>3. FieldsOK'
  <2>1. seg' \in [Segment -> [mode : Effects \cup {"static"}, useRgb : BOOLEAN, on : BOOLEAN,
                              blank : BOOLEAN, timer : {"idle", "running"}]]
    <3> DEFINE Fields == [mode : Effects \cup {"static"}, useRgb : BOOLEAN, on : BOOLEAN,
                          blank : BOOLEAN, timer : {"idle", "running"}]
    <3>1. \A s \in Segment : seg[s] \in Fields
      BY DEF CallInv, FieldsOK
    <3>2. \A f \in Fields : \A b \in BOOLEAN : [f EXCEPT !.on = @ \/ b] \in Fields
      OBVIOUS
    <3>3. \A s \in Segment : (s \in Range(added)) \in BOOLEAN
      OBVIOUS
    <3>4. \A s \in Segment : [seg[s] EXCEPT !.on = @ \/ s \in Range(added)] \in Fields
      BY <3>1, <3>2, <3>3
    <3> QED BY <1>1, <3>4
  <2> QED BY <1>1, <2>1 DEF CallInv, FieldsOK, InEffect
<1>4. \A s \in Segment : (InEffect(s)' <=> InEffect(s)) /\ (Calling(s)' <=> Calling(s))
  BY <1>1 DEF Calling, InEffect
<1>5. Apart'
  BY <1>1, <1>2, <1>4 DEF CallInv, Apart
<1>6. LastCallStands'
  BY <1>1, <1>2, <1>4 DEF CallInv, LastCallStands
<1>7. NotAsked' /\ Blanked'
  BY <1>1, <1>2, <1>4 DEF CallInv, NotAsked, Blanked, IsAdded
<1> QED BY <1>3, <1>5, <1>6, <1>7 DEF CallInv

\* The first store of a method: whether the task was in an effect is remembered.
LEMMA MethodCallInv ==
  ASSUME EffectsNamed, IInv, CallInv, NEW s \in Segment,
         \/ \E call \in {"solid", "off"} : Fill(s, call)
         \/ \E e \in Effects, n \in Lights : StartEffect(s, e, n)
  PROVE  CallInv'
<1> DEFINE Fields == [mode : Effects \cup {"static"}, useRgb : BOOLEAN, on : BOOLEAN,
                      blank : BOOLEAN, timer : {"idle", "running"}]
<1>1. /\ app.pc = "idle" /\ s \in Range(added)
      /\ asked' = [asked EXCEPT ![s] = "none"]
      /\ raced' = [raced EXCEPT ![s] = InEffect(s)]
      /\ UNCHANGED <<added, task>>
  BY DEF Fill, StartEffect, listVars
<1>2. PICK call \in Effects \cup {"solid", "off"}, pc \in {"fill", "mode"} :
        /\ app'.pc = pc /\ app'.seg = s /\ app'.call = call
        /\ call = "off" => seg' = [seg EXCEPT ![s].blank = TRUE]
        /\ pc = "fill" => call \in Effects
  <2>1. ASSUME NEW c \in {"solid", "off"}, Fill(s, c)
        PROVE  /\ app'.pc = "mode" /\ app'.seg = s /\ app'.call = c
               /\ c = "off" => seg' = [seg EXCEPT ![s].blank = TRUE]
    <3>1. app' = [pc |-> "mode", seg |-> s, call |-> c, num |-> 0]
          /\ seg' = [seg EXCEPT ![s].blank = (c = "off")]
      BY <2>1 DEF Fill
    <3>2. CASE c = "off"
      <4>1. (c = "off") = TRUE
        BY <3>2
      <4> QED BY <3>1, <4>1
    <3> QED BY <3>1, <3>2
  <2>2. ASSUME NEW e \in Effects, NEW n \in Lights, StartEffect(s, e, n)
        PROVE  app'.pc \in {"fill", "mode"} /\ app'.seg = s /\ app'.call = e /\ e # "off"
    BY <2>2 DEF StartEffect, EffectsNamed, EffectNames
  <2>3. CASE \E c \in {"solid", "off"} : Fill(s, c)
    BY <2>1, <2>3
  <2>4. CASE \E e \in Effects, n \in Lights : StartEffect(s, e, n)
    BY <2>2, <2>4
  <2> QED BY <2>3, <2>4
<1>3. seg' \in [Segment -> Fields] /\ \A u \in Segment : u # s => seg'[u] = seg[u]
  <2>1. \E f \in Fields : seg' = [seg EXCEPT ![s] = f]
    <3>1. seg[s] \in Fields
      BY DEF CallInv, FieldsOK
    <3>2. ASSUME NEW c \in {"solid", "off"}, Fill(s, c)
          PROVE  \E f \in Fields : seg' = [seg EXCEPT ![s] = f]
      <4> DEFINE b == c = "off"
                 f == [seg[s] EXCEPT !.blank = b]
      <4>1. b \in BOOLEAN
        OBVIOUS
      <4>2. seg' = [seg EXCEPT ![s] = f]
        BY <3>2 DEF Fill
      <4> HIDE DEF b
      <4>3. f \in Fields
        BY <3>1, <4>1
      <4> QED BY <4>2, <4>3
    <3>3. ASSUME NEW e \in Effects, NEW n \in Lights, StartEffect(s, e, n)
          PROVE  \E f \in Fields : seg' = [seg EXCEPT ![s] = f]
      <4>1. CASE e = "blink"
        <5>1. PICK expired \in BOOLEAN : seg' = [seg EXCEPT ![s] = Blink(seg[s], expired)]
          BY <3>3, <4>1 DEF StartEffect
        <5>2. Blink(seg[s], expired) \in Fields
          BY <3>1 DEF Blink
        <5> QED BY <5>1, <5>2
      <4>2. CASE e # "blink"
        <5> DEFINE b == e \in RgbEffects
                   f == [seg[s] EXCEPT !.useRgb = b, !.timer = "running"]
        <5>1. b \in BOOLEAN
          OBVIOUS
        <5>2. seg' = [seg EXCEPT ![s] = f]
          <6>1. seg' = [seg EXCEPT ![s].useRgb = b, ![s].timer = "running"]
            BY <3>3, <4>2 DEF StartEffect
          <6> HIDE DEF b
          <6> QED BY <6>1 DEF CallInv, FieldsOK
        <5> HIDE DEF b
        <5>3. f \in Fields
          BY <3>1, <5>1
        <5> QED BY <5>2, <5>3
      <4> QED BY <4>1, <4>2
    <3> QED BY <3>2, <3>3
  <2>2. seg \in [Segment -> Fields]
    BY DEF CallInv, FieldsOK
  <2> HIDE DEF Fields
  <2> QED BY <2>1, <2>2
<1>4. /\ asked'[s] = "none" /\ \A u \in Segment : u # s => asked'[u] = asked[u]
      /\ raced'[s] = InEffect(s) /\ \A u \in Segment : u # s => raced'[u] = raced[u]
      /\ raced' \in [Segment -> BOOLEAN]
  <2>1. asked \in [Segment -> Effects \cup {"none", "solid", "off"}]
        /\ raced \in [Segment -> BOOLEAN] /\ InEffect(s) \in BOOLEAN
    BY DEF CallInv, FieldsOK, InEffect
  <2> HIDE DEF InEffect
  <2> QED BY <1>1, <2>1
<1>5. \A u \in Segment : (InEffect(u)' <=> InEffect(u)) /\ (Calling(u)' <=> u = s) /\ ~Calling(u)
  BY <1>1, <1>2 DEF InEffect, Calling
<1>6. FieldsOK'
  <2>1. count' \in [Counting -> Nat]
    <3>1. count \in [Counting -> Nat]
      BY DEF CallInv, FieldsOK
    <3>2. count' = count \/ \E e \in Effects : count' = [count EXCEPT ![e] = 0]
      BY DEF Fill, StartEffect, staticVars
    <3> QED BY <3>1, <3>2, NumberIn
  <2>2. asked' \in [Segment -> Effects \cup {"none", "solid", "off"}]
    BY <1>1 DEF CallInv, FieldsOK
  <2> QED BY <1>1, <1>2, <1>3, <1>4, <1>5, <2>1, <2>2 DEF CallInv, FieldsOK
<1>7. Apart'
  <2>1. \A u \in Segment : ~raced'[u] /\ InEffect(u)' => u # s
    BY <1>4, <1>5
  <2> QED BY <1>1, <1>3, <1>4, <1>5, <2>1 DEF CallInv, Apart
<1>8. NotAsked'
  <2>1. app'.pc \notin {"pend", "link", "create"}
    BY <1>2
  <2>2. IsAdded(s)
    BY <1>1 DEF IsAdded, Range, IInv, TypeOK
  <2>3. \A u \in Segment : IsAdded(u)' <=> IsAdded(u)
    BY <1>1 DEF IsAdded
  <2> QED BY <1>1, <1>4, <1>5, <2>1, <2>2, <2>3 DEF CallInv, NotAsked
<1>9. Blanked'
  <2>1. seg[s] \in Fields /\ seg \in [Segment -> Fields]
    BY DEF CallInv, FieldsOK
  <2>2. app'.call = "off" => seg'[s].blank
    BY <1>2, <2>1
  <2> QED BY <1>5, <2>2 DEF Blanked
<1>10. LastCallStands'
  BY <1>3, <1>4, <1>5 DEF CallInv, LastCallStands
<1> QED BY <1>6, <1>7, <1>8, <1>9, <1>10 DEF CallInv

\* The other stores of a method: the mode is set once more, by what blanks the strip,
\* and is stored last.
LEMMA StoresCallInv ==
  ASSUME EffectsNamed, IInv, CallInv, FillForEffect \/ StoreMode
  PROVE  CallInv'
<1> DEFINE s == app.seg
           Fields == [mode : Effects \cup {"static"}, useRgb : BOOLEAN, on : BOOLEAN,
                      blank : BOOLEAN, timer : {"idle", "running"}]
<1>1. /\ app.pc \in {"fill", "mode"} /\ s \in Segment
      /\ app.call \in Effects \cup {"solid", "off"} /\ Calling(s)
      /\ UNCHANGED <<added, task, raced, count>>
  BY DEF FillForEffect, StoreMode, CallInv, FieldsOK, Calling, listVars, historyVars, staticVars
<1>2. /\ asked \in [Segment -> Effects \cup {"none", "solid", "off"}]
      /\ seg \in [Segment -> Fields] /\ seg[s] \in Fields
  BY <1>1 DEF CallInv, FieldsOK
<1>3. app \in [pc : {"idle", "pend", "link", "create", "mode", "fill"},
               seg : Segment \cup {Anchor},
               call : Effects \cup {"none", "solid", "off"}, num : Lights \cup {0}]
  BY DEF IInv, TypeOK
<1>4. asked[s] = "none" /\ (InEffect(s) => raced[s])
  BY <1>1 DEF CallInv, NotAsked, Apart
<1>5. \A u \in Segment : u # s => ~Calling(u)
  BY DEF Calling
<1>6. \A u \in Segment : InEffect(u)' <=> InEffect(u)
  BY <1>1 DEF InEffect
<1>7. CASE FillForEffect
  <2> DEFINE f == [seg[s] EXCEPT !.mode = "static",
                                 !.blank = IF app.call \in RgbEffects THEN @
                                           ELSE app.call # "blend"]
  <2>1. /\ app' = [app EXCEPT !.pc = "mode"] /\ seg' = [seg EXCEPT ![s] = f] /\ asked' = asked
        /\ app.pc = "fill"
    <3>1. seg' = [seg EXCEPT ![s].mode = "static",
                             ![s].blank = IF app.call \in RgbEffects THEN @
                                          ELSE app.call # "blend"]
      BY <1>7 DEF FillForEffect
    <3>2. seg' = [seg EXCEPT ![s] = f]
      BY <1>1, <1>2, <3>1
    <3> QED BY <1>7, <3>2 DEF FillForEffect, historyVars
  <2>2. f \in Fields
    <3> DEFINE b == app.call # "blend"
    <3>1. b \in BOOLEAN
      OBVIOUS
    <3>2. f = [seg[s] EXCEPT !.mode = "static",
                             !.blank = IF app.call \in RgbEffects THEN seg[s].blank ELSE b]
      OBVIOUS
    <3> HIDE DEF b
    <3> QED BY <1>2, <3>1, <3>2
  <2> HIDE DEF f
  <2>3. seg' \in [Segment -> Fields] /\ \A u \in Segment : u # s => seg'[u] = seg[u]
    BY <1>2, <2>1, <2>2
  <2>4. /\ app'.pc = "mode" /\ app'.seg = s /\ app'.call = app.call /\ app.call \in Effects
        /\ app.call # "off"
    BY <1>3, <2>1 DEF CallInv, FieldsOK, EffectsNamed, EffectNames
  <2>5. \A u \in Segment : Calling(u)' <=> Calling(u)
    BY <1>1, <2>4 DEF Calling
  <2>6. FieldsOK'
    BY <1>1, <1>6, <2>1, <2>3, <2>4 DEF CallInv, FieldsOK
  <2>7. Apart' /\ NotAsked'
    BY <1>1, <1>4, <1>5, <1>6, <2>1, <2>3, <2>4, <2>5
       DEF CallInv, Apart, NotAsked, IsAdded
  <2>8. Blanked'
    BY <2>4 DEF Blanked
  <2>9. LastCallStands'
    BY <1>1, <1>4, <1>6, <2>1, <2>3 DEF CallInv, LastCallStands
  <2> QED BY <2>6, <2>7, <2>8, <2>9 DEF CallInv
<1>8. CASE StoreMode
  <2> DEFINE m == ModeOf(app.call)
             f == [seg[s] EXCEPT !.mode = m]
  <2>1. /\ app' = Idle /\ asked' = [asked EXCEPT ![s] = app.call] /\ app.pc = "mode"
        /\ seg' = [seg EXCEPT ![s] = f]
    BY <1>8 DEF StoreMode
  <2>2. m \in Effects \cup {"static"}
    BY <1>1 DEF ModeOf
  <2> HIDE DEF m
  <2>3. f \in Fields /\ f.mode = m /\ f.blank = seg[s].blank
    BY <1>2, <2>2
  <2> HIDE DEF f
  <2>4. /\ seg' \in [Segment -> Fields] /\ seg'[s] = f
        /\ \A u \in Segment : u # s => seg'[u] = seg[u]
    BY <1>1, <1>2, <2>1, <2>3
  <2>5. /\ asked'[s] = app.call /\ \A u \in Segment : u # s => asked'[u] = asked[u]
        /\ asked' \in [Segment -> Effects \cup {"none", "solid", "off"}]
    BY <1>1, <1>2, <2>1
  <2>6. app'.pc = "idle" /\ \A u \in Segment : ~Calling(u)'
    BY <2>1 DEF Idle, Calling
  <2>7. FieldsOK'
    BY <1>1, <1>6, <2>4, <2>5, <2>6 DEF CallInv, FieldsOK
  <2>8. Apart'
    BY <1>1, <1>4, <1>6, <2>4, <2>5, <2>6 DEF CallInv, Apart
  <2>9. IsAdded(s)
    BY <1>1 DEF CallInv, NotAsked
  <2>10. NotAsked'
    BY <1>1, <2>5, <2>6, <2>9 DEF CallInv, NotAsked, IsAdded
  <2>11. Blanked'
    BY <2>6 DEF Blanked
  <2>12. LastCallStands'
    <3> SUFFICES ASSUME NEW u \in Segment, ~raced'[u], asked'[u] # "none", ~InEffect(u)'
                 PROVE  /\ seg'[u].mode = ModeOf(asked'[u])
                        /\ asked'[u] = "off" => seg'[u].blank
      BY DEF LastCallStands
    <3>1. CASE u = s
      BY <1>1, <2>3, <2>4, <2>5, <3>1 DEF CallInv, Blanked, m
    <3>2. CASE u # s
      BY <1>1, <1>6, <2>4, <2>5, <3>2 DEF CallInv, LastCallStands
    <3> QED BY <3>1, <3>2
  <2> QED BY <2>7, <2>8, <2>10, <2>11, <2>12 DEF CallInv
<1> QED BY <1>7, <1>8

LEMMA NextCallInv ==
  ASSUME EffectsNamed
  PROVE  IInv /\ CallInv /\ [Next]_vars => CallInv'
<1> SUFFICES ASSUME IInv, CallInv, [Next]_vars PROVE CallInv'
  OBVIOUS
<1>1. CASE Main \/ Add \/ UNCHANGED vars
  BY <1>1, AsideCallInv
<1>2. CASE Application /\ ~Add
  BY <1>2, AddSegmentCallInv, MethodCallInv, StoresCallInv, ShowCallInv DEF Application
<1>3. CASE \E s \in Segment : Effect(s)
  BY <1>3, EffectCallInv
<1> QED BY <1>1, <1>2, <1>3 DEF Next

\* The method called last stands, for any segments, methods and effects and however the
\* tasks of the segments run meanwhile: unless a task was in the middle of an effect
\* during the call, the mode is the one asked for whenever the task is between two
\* turns, and after off the segment is blank (LastCallStands).
THEOREM LastCallHolds ==
  ASSUME NodesDiffer, EffectsNamed
  PROVE  Spec => []LastCallStands
<1>1. CallInv => LastCallStands
  BY DEF CallInv
<1> QED BY InitIInv, NextIInv, InitCallInv, NextCallInv, <1>1, PTL DEF Spec

-----------------------------------------------------------------------------
(* The counters that all segments share *)

Positive == NumPixels \in [Segment -> Nat \ {0}] /\ Lights \subseteq Nat \ {0}

\* Who runs a counting effect, or is being asked to, has been remembered.
Drawn ==
  \A e \in Counting, s \in Segment :
    \/ seg[s].mode = e
    \/ InEffect(s) /\ task[s].effect = e
    \/ Calling(s) /\ app.call = e
    => s \in drawers[e]

\* As long as one segment only runs the effect, what its task has loaded is current.
LoadedCurrent ==
  \A e \in Counting, s \in Segment :
    drawers[e] = {s} /\ ~raced[s] /\ task[s].pc = "count" /\ task[s].effect = e =>
      task[s].loaded = count[e]

BelowLimit ==
  \A e \in Counting, s \in Segment :
    drawers[e] = {s} /\ ~raced[s] /\ (asked[s] = e \/ (Calling(s) /\ app.call = e)) =>
      count[e] < Limit(s, e)

CountersOK ==
  /\ num \in Nat /\ drawers \in [Counting -> SUBSET Segment]
  /\ drawers["twinkle"] # {} => num > 0
  /\ \A s \in Segment : task[s].pc = "count" => task[s].effect \in Counting

CountInv == CountersOK /\ Drawn /\ LoadedCurrent /\ BelowLimit

LEMMA LimitPositive ==
  ASSUME Positive, CountersOK, NEW e \in Counting, NEW s \in Segment, s \in drawers[e]
  PROVE  Limit(s, e) \in Nat /\ Limit(s, e) > 0
<1>1. CASE e = "twinkle"
  BY <1>1 DEF Limit, CountersOK
<1>2. CASE e # "twinkle"
  <2>1. NumPixels[s] \in Nat /\ NumPixels[s] > 0
    BY DEF Positive
  <2>2. Limit(s, e) = 2 * NumPixels[s]
    BY <1>2 DEF Limit
  <2> QED BY <2>1, <2>2
<1> QED BY <1>1, <1>2

LEMMA InitCountInv ==
  ASSUME EffectsNamed
  PROVE  Init => CountInv
<1> SUFFICES ASSUME Init PROVE CountInv
  OBVIOUS
<1>1. /\ app = Idle /\ num = 0 /\ drawers = [e \in Counting |-> {}]
      /\ seg = [s \in Segment |-> [mode |-> "static", useRgb |-> FALSE, on |-> FALSE,
                                   blank |-> FALSE, timer |-> "idle"]]
      /\ task = [s \in Segment |-> Absent]
  BY DEF Init
<1>2. \A s \in Segment : ~InEffect(s) /\ ~Calling(s) /\ seg[s].mode = "static" /\ task[s].pc = "none"
  BY <1>1 DEF Idle, Absent, InEffect, Calling
<1>3. \A e \in Counting : drawers[e] = {} /\ e # "static"
  BY <1>1 DEF Counting
<1>4. CountersOK
  BY <1>1, <1>2 DEF CountersOK, Counting
<1> QED BY <1>2, <1>3, <1>4 DEF CountInv, Drawn, LoadedCurrent, BelowLimit

\* A task stores what it counted, on from what is there, or draws and loads it.
LEMMA EffectCountInv ==
  ASSUME EffectsNamed, Positive, CallInv, CountInv, NEW s \in Segment, Effect(s)
  PROVE  CountInv'
<1>1. /\ UNCHANGED <<app, num, asked, drawers>> /\ FieldsOK
      /\ \A u \in Segment : u # s =>
           seg'[u] = seg[u] /\ task'[u] = task[u] /\ raced'[u] = raced[u]
      /\ Begins(s) \/ GoesOn(s) \/ Ends(s)
  BY EffectTurns DEF CallInv
<1>2. \A u \in Segment : Calling(u)' = Calling(u)
  BY <1>1 DEF Calling
<1>3. /\ \A u \in Segment : u # s => InEffect(u)' = InEffect(u)
      /\ \A u \in Segment : raced[u] => raced'[u]
  BY <1>1 DEF InEffect, FieldsOK, Begins, GoesOn, Ends
<1>4. \/ task'[s].pc # "count" /\ count' = count
      \/ /\ task'[s].pc = "count" /\ count' = count /\ task'[s].effect \in Counting
         /\ task'[s].loaded = count[task'[s].effect]
      \/ StoreCount(s) /\ task'[s].pc = "mode"
  <2>1. task \in [Segment -> [pc : {"none", "asleep", "run", "count", "mode"},
                              effect : Effects \cup {"none"}, loaded : Nat]]
    BY <1>1 DEF FieldsOK
  <2>2. CASE StoreCount(s)
    BY <2>1, <2>2 DEF StoreCount
  <2>3. CASE TwinkleDraw(s) \/ MeteorDraw(s)
    BY <2>1, <2>3 DEF TwinkleDraw, MeteorDraw, Due, Counting, staticVars
  <2>4. CASE ~StoreCount(s) /\ ~TwinkleDraw(s) /\ ~MeteorDraw(s)
    <3>1. count' = count
      BY <2>4 DEF Effect, ReadMode, Wait, Draw, SparkleDraw, FireDraw, DissolveDraw, BlendDraw,
                  BlinkDraw, RestoreMode, staticVars
    <3>2. \/ task' = [task EXCEPT ![s].pc = "run", ![s].effect = seg[s].mode]
          \/ task' = [task EXCEPT ![s].pc = "mode"]
          \/ task' = [task EXCEPT ![s] = Asleep]
          \/ task' = [task EXCEPT ![s] = IF task[s].effect = "blend" THEN Asleep
                                         ELSE [@ EXCEPT !.pc = "mode"]]
      BY <2>4 DEF Effect, ReadMode, Wait, Draw, SparkleDraw, FireDraw, DissolveDraw, BlendDraw,
                  BlinkDraw, RestoreMode
    <3>3. task'[s].pc # "count"
      BY <2>1, <3>2 DEF Asleep, Absent
    <3> QED BY <3>1, <3>3
  <2> QED BY <2>2, <2>3, <2>4
<1>5. CountersOK'
  BY <1>1, <1>4 DEF CountInv, CountersOK
<1>6. Drawn'
  <2> SUFFICES ASSUME NEW e \in Counting,
                      \/ seg'[s].mode = e
                      \/ InEffect(s)' /\ task'[s].effect = e
               PROVE  s \in drawers[e]
    BY <1>1, <1>2, <1>3 DEF CountInv, Drawn
  <2>1. e # "static"
    BY DEF Counting
  <2>2. CASE Begins(s)
    BY <2>1, <2>2 DEF Begins, CountInv, Drawn
  <2>3. CASE GoesOn(s)
    BY <2>1, <2>3 DEF GoesOn, CountInv, Drawn
  <2>4. CASE Ends(s)
    <3>1. ~InEffect(s)'
      BY <2>4 DEF Ends, InEffect
    <3> QED BY <2>4, <3>1 DEF Ends, CountInv, Drawn
  <2> QED BY <1>1, <2>2, <2>3, <2>4
<1>7. ASSUME NEW e \in Counting, NEW u \in Segment, drawers[e] = {u}, u # s
      PROVE  count'[e] = count[e]
  <2>1. CASE StoreCount(s)
    <3>1. task[s].effect # e
      BY <1>7, <2>1 DEF CountInv, Drawn, StoreCount, InEffect
    <3> QED BY <1>1, <2>1, <3>1 DEF StoreCount, FieldsOK
  <2>2. CASE ~StoreCount(s)
    BY <1>4, <2>2
  <2> QED BY <2>1, <2>2
<1>8. LoadedCurrent'
  <2> SUFFICES ASSUME NEW e \in Counting, NEW u \in Segment, drawers[e] = {u}, ~raced'[u],
                      task'[u].pc = "count", task'[u].effect = e
               PROVE  task'[u].loaded = count'[e]
    BY <1>1 DEF LoadedCurrent
  <2>1. CASE u # s
    BY <1>1, <1>7, <2>1 DEF CountInv, LoadedCurrent
  <2>2. CASE u = s
    BY <1>4, <2>2
  <2> QED BY <2>1, <2>2
<1>9. BelowLimit'
  <2> SUFFICES ASSUME NEW e \in Counting, NEW u \in Segment, drawers[e] = {u}, ~raced'[u],
                      asked[u] = e \/ (Calling(u) /\ app.call = e)
               PROVE  count'[e] < Limit(u, e)'
    BY <1>1, <1>2 DEF BelowLimit
  <2>1. Limit(u, e)' = Limit(u, e) /\ ~raced[u]
    BY <1>1, <1>3 DEF Limit
  <2>2. count[e] < Limit(u, e)
    BY <2>1 DEF CountInv, BelowLimit
  <2>3. CASE u # s \/ ~StoreCount(s)
    BY <1>4, <1>7, <2>1, <2>2, <2>3
  <2>4. CASE u = s /\ StoreCount(s)
    <3> DEFINE f == task[s].effect
               n == task[s].loaded
    <3>1. /\ task[s].pc = "count" /\ InEffect(s)
          /\ count' = [count EXCEPT ![f] = Count(s, f, n)]
      BY <2>4 DEF StoreCount, InEffect
    <3>2. f = e
      <4>1. ~Calling(s) /\ (asked[s] # "none" => f = asked[s])
        BY <2>1, <2>4, <3>1 DEF CallInv, Apart
      <4> QED BY <2>4, <4>1 DEF Counting
    <3>3. n = count[e]
      BY <2>1, <2>4, <3>1, <3>2 DEF CountInv, LoadedCurrent
    <3>4. count[e] \in Nat /\ count'[e] = Count(s, e, count[e])
      BY <1>1, <3>1, <3>2, <3>3 DEF FieldsOK
    <3>5. Limit(s, e) \in Nat /\ Limit(s, e) > 0
      BY <2>4, LimitPositive DEF CountInv
    <3>6. Count(s, e, count[e]) < Limit(s, e)
      BY <2>2, <2>4, <3>4, <3>5 DEF Count
    <3> QED BY <2>1, <2>4, <3>4, <3>6
  <2> QED BY <2>3, <2>4
<1> QED BY <1>5, <1>6, <1>8, <1>9 DEF CountInv

\* What does not touch the counters, nor begin a call or a turn of a task.
LEMMA QuietCountInv ==
  ASSUME CountInv, UNCHANGED <<num, count, drawers>>,
         \A s \in Segment :
           /\ task'[s] = task[s] \/ task'[s].pc = "asleep"
           /\ seg'[s].mode \in {seg[s].mode, "static"}
           /\ raced[s] => raced'[s]
           /\ asked'[s] = asked[s]
           /\ Calling(s)' => Calling(s) /\ app'.call = app.call
  PROVE  CountInv'
<1>1. \A s \in Segment : (InEffect(s)' => InEffect(s) /\ task'[s] = task[s])
                         /\ (task'[s].pc = "count" => task'[s] = task[s])
  BY DEF InEffect
<1>2. CountersOK'
  BY <1>1 DEF CountInv, CountersOK
<1>3. Drawn'
  BY <1>1 DEF CountInv, Drawn, Counting
<1>4. LoadedCurrent'
  BY <1>1 DEF CountInv, LoadedCurrent
<1>5. BelowLimit'
  <2>1. \A e, s : Limit(s, e)' = Limit(s, e)
    BY DEF Limit
  <2> QED BY <2>1 DEF CountInv, BelowLimit
<1> QED BY <1>2, <1>3, <1>4, <1>5 DEF CountInv

LEMMA ListCountInv ==
  ASSUME IInv, CallInv, CountInv,
         Main \/ Add \/ Show \/ UNCHANGED vars \/ \E s \in Segment : AddSegment(s)
  PROVE  CountInv'
<1>1. UNCHANGED <<asked, raced, count, num, drawers>>
  BY DEF Main, InitStrip, Walk, Transmit, Add, LinkForward, LinkRest, CreateTask, vars,
         Show, AddSegment, historyVars, staticVars
<1>2. /\ app \in [pc : {"idle", "pend", "link", "create", "mode", "fill"},
                  seg : Segment \cup {Anchor},
                  call : Effects \cup {"none", "solid", "off"}, num : Lights \cup {0}]
      /\ FieldsOK
  BY DEF IInv, TypeOK, CallInv
<1>3. \A s \in Segment : Calling(s)' => Calling(s) /\ app'.call = app.call
  <2>1. CASE LinkForward \/ LinkRest
    <3>1. app'.pc \in {"link", "create"}
      BY <1>2, <2>1 DEF LinkForward, LinkRest
    <3> QED BY <3>1 DEF Calling
  <2>2. CASE CreateTask
    BY <2>2 DEF CreateTask, Idle, Calling
  <2>3. ASSUME NEW u \in Segment, AddSegment(u)
        PROVE  app'.pc = "pend"
    BY <1>2, <2>3 DEF AddSegment
  <2>4. CASE \E u \in Segment : AddSegment(u)
    BY <2>3, <2>4 DEF Calling
  <2>5. CASE UNCHANGED app
    BY <2>5 DEF Calling
  <2> QED BY <2>1, <2>2, <2>4, <2>5 DEF Main, InitStrip, Walk, Transmit, Add, Show, vars
<1>4. \A s \in Segment : seg'[s].mode \in {seg[s].mode, "static"}
  <2>1. CASE Show
    <3>1. seg' = [s \in Segment |-> [seg[s] EXCEPT !.on = @ \/ s \in Range(added)]]
      BY <2>1 DEF Show
    <3> QED BY <1>2, <3>1 DEF FieldsOK
  <2>2. ASSUME NEW u \in Segment, AddSegment(u)
        PROVE  \A s \in Segment : seg'[s].mode \in {seg[s].mode, "static"}
    <3>1. seg' = [seg EXCEPT ![u].mode = "static", ![u].useRgb = FALSE]
      BY <2>2 DEF AddSegment
    <3> QED BY <1>2, <3>1 DEF FieldsOK
  <2>3. CASE UNCHANGED seg
    BY <2>3
  <2> QED BY <2>1, <2>2, <2>3 DEF Main, InitStrip, Walk, Transmit, Add, LinkForward, LinkRest,
                                  CreateTask, vars
<1>5. \A s \in Segment : task'[s] = task[s] \/ task'[s].pc = "asleep"
  <2>1. UNCHANGED task \/ task' = [task EXCEPT ![app.seg] = Asleep]
    BY DEF Main, InitStrip, Walk, Transmit, Add, LinkForward, LinkRest, CreateTask, vars,
           Show, AddSegment
  <2> QED BY <1>2, <2>1 DEF FieldsOK, Asleep, Absent
<1> QED BY <1>1, <1>3, <1>4, <1>5, QuietCountInv

\* The other stores of a method: the mode becomes what the call named.
LEMMA StoresCountInv ==
  ASSUME IInv, CallInv, CountInv, FillForEffect \/ StoreMode
  PROVE  CountInv'
<1> DEFINE s == app.seg
<1>1. /\ UNCHANGED <<task, raced, count, num, drawers>>
      /\ s \in Segment /\ Calling(s)
  BY DEF FillForEffect, StoreMode, historyVars, staticVars, CallInv, FieldsOK, Calling
<1>2. /\ app \in [pc : {"idle", "pend", "link", "create", "mode", "fill"},
                  seg : Segment \cup {Anchor},
                  call : Effects \cup {"none", "solid", "off"}, num : Lights \cup {0}]
      /\ FieldsOK
  BY DEF IInv, TypeOK, CallInv
<1>3. \A u \in Segment : u # s => seg'[u] = seg[u] /\ asked'[u] = asked[u]
  BY <1>2 DEF FillForEffect, StoreMode, FieldsOK, historyVars
<1>4. CASE FillForEffect
  <2>1. app'.pc = "mode" /\ app'.seg = s /\ app'.call = app.call /\ asked' = asked
    BY <1>2, <1>4 DEF FillForEffect, historyVars
  <2>2. seg'[s].mode = "static"
    BY <1>1, <1>2, <1>4 DEF FillForEffect, FieldsOK
  <2>3. \A u \in Segment : Calling(u)' => Calling(u) /\ app'.call = app.call
    BY <1>1, <2>1 DEF Calling
  <2> QED BY <1>1, <1>3, <2>1, <2>2, <2>3, QuietCountInv
<1>5. CASE StoreMode
  <2>1. \A u \in Segment : ~Calling(u)'
    BY <1>5 DEF StoreMode, Idle, Calling
  <2>2. seg'[s].mode = ModeOf(app.call) /\ asked'[s] = app.call
    BY <1>1, <1>2, <1>5 DEF StoreMode, FieldsOK
  <2>3. \A u \in Segment : InEffect(u)' = InEffect(u)
    BY <1>1 DEF InEffect
  <2>4. CountersOK' /\ LoadedCurrent'
    BY <1>1 DEF CountInv, CountersOK, LoadedCurrent
  <2>5. Drawn'
    <3> SUFFICES ASSUME NEW e \in Counting, NEW u \in Segment,
                        seg'[u].mode = e \/ (InEffect(u) /\ task[u].effect = e)
                 PROVE  u \in drawers[e]
      BY <1>1, <2>1, <2>3 DEF Drawn
    <3>1. CASE u = s /\ seg'[u].mode = e
      <4>1. app.call = e
        BY <2>2, <3>1 DEF ModeOf, Counting
      <4> QED BY <1>1, <3>1, <4>1 DEF CountInv, Drawn
    <3>2. CASE ~(u = s /\ seg'[u].mode = e)
      BY <1>3, <3>2 DEF CountInv, Drawn
    <3> QED BY <3>1, <3>2
  <2>6. BelowLimit'
    <3> SUFFICES ASSUME NEW e \in Counting, NEW u \in Segment, drawers[e] = {u}, ~raced[u],
                        asked'[u] = e
                 PROVE  count[e] < Limit(u, e)'
      BY <1>1, <2>1 DEF BelowLimit
    <3>1. Limit(u, e)' = Limit(u, e)
      BY <1>1 DEF Limit
    <3> QED BY <1>1, <1>3, <2>2, <3>1 DEF CountInv, BelowLimit
  <2> QED BY <2>4, <2>5, <2>6 DEF CountInv
<1> QED BY <1>4, <1>5

\* A method that starts an effect starts its counter, for whoever runs it.
LEMMA MethodCountInv ==
  ASSUME EffectsNamed, Positive, IInv, CallInv, CountInv, NEW s \in Segment,
         \/ \E call \in {"solid", "off"} : Fill(s, call)
         \/ \E e \in Effects, n \in Lights : StartEffect(s, e, n)
  PROVE  CountInv'
<1>1. /\ app.pc = "idle" /\ UNCHANGED task
      /\ asked' = [asked EXCEPT ![s] = "none"]
      /\ raced' = [raced EXCEPT ![s] = InEffect(s)]
  BY DEF Fill, StartEffect
<1>2. FieldsOK
  BY DEF CallInv
<1>3. /\ asked'[s] = "none" /\ \A u \in Segment : u # s => asked'[u] = asked[u]
      /\ raced'[s] = InEffect(s) /\ \A u \in Segment : u # s => raced'[u] = raced[u]
  <2>1. asked \in [Segment -> Effects \cup {"none", "solid", "off"}]
        /\ raced \in [Segment -> BOOLEAN]
    BY <1>2 DEF FieldsOK
  <2> HIDE DEF InEffect
  <2> QED BY <1>1, <2>1
<1>4. \A u \in Segment : seg'[u].mode = seg[u].mode
  <2>1. \/ \E b : seg' = [seg EXCEPT ![s].blank = b]
        \/ \E b : seg' = [seg EXCEPT ![s] = Blink(seg[s], b)]
        \/ \E b : seg' = [seg EXCEPT ![s].useRgb = b, ![s].timer = "running"]
    BY DEF Fill, StartEffect
  <2>2. CASE \E b : seg' = [seg EXCEPT ![s].blank = b]
    BY <1>2, <2>2 DEF FieldsOK
  <2>3. CASE \E b : seg' = [seg EXCEPT ![s] = Blink(seg[s], b)]
    <3>1. PICK b : seg' = [seg EXCEPT ![s] = Blink(seg[s], b)]
      BY <2>3
    <3>2. Blink(seg[s], b).mode = seg[s].mode
      BY <1>2 DEF Blink, FieldsOK
    <3> QED BY <1>2, <3>1, <3>2 DEF FieldsOK
  <2>4. CASE \E b : seg' = [seg EXCEPT ![s].useRgb = b, ![s].timer = "running"]
    BY <1>2, <2>4 DEF FieldsOK
  <2> QED BY <2>1, <2>2, <2>3, <2>4
<1>5. PICK call \in Effects \cup {"solid", "off"} :
        /\ app'.call = call /\ app'.seg = s /\ app'.pc \in {"fill", "mode"}
        /\ \/ call \notin Counting /\ UNCHANGED <<num, count, drawers>>
           \/ /\ call \in Counting
              /\ count' = [count EXCEPT ![call] = 0]
              /\ drawers' = [drawers EXCEPT ![call] = @ \cup {s}]
              /\ call # "twinkle" => num' = num
              /\ call = "twinkle" => num' \in Lights
  <2>1. ASSUME NEW c \in {"solid", "off"}, Fill(s, c)
        PROVE  /\ app'.call = c /\ app'.seg = s /\ app'.pc = "mode"
               /\ c \notin Counting /\ UNCHANGED <<num, count, drawers>>
    BY <2>1 DEF Fill, Counting, staticVars
  <2>2. ASSUME NEW e \in Effects, NEW n \in Lights, StartEffect(s, e, n)
        PROVE  /\ app'.call = e /\ app'.seg = s /\ app'.pc \in {"fill", "mode"}
               /\ \/ e \notin Counting /\ UNCHANGED <<num, count, drawers>>
                  \/ /\ e \in Counting
                     /\ count' = [count EXCEPT ![e] = 0]
                     /\ drawers' = [drawers EXCEPT ![e] = @ \cup {s}]
                     /\ e # "twinkle" => num' = num
                     /\ e = "twinkle" => num' \in Lights
    BY <2>2 DEF StartEffect, Counting
  <2>3. CASE \E c \in {"solid", "off"} : Fill(s, c)
    BY <2>1, <2>3
  <2>4. CASE \E e \in Effects, n \in Lights : StartEffect(s, e, n)
    BY <2>2, <2>4
  <2> QED BY <2>3, <2>4
<1>6. \A u \in Segment : (InEffect(u)' <=> InEffect(u)) /\ (Calling(u)' <=> u = s)
  BY <1>1, <1>5 DEF InEffect, Calling
<1>7. /\ \A e \in Counting : e # call => count'[e] = count[e] /\ drawers'[e] = drawers[e]
      /\ call \in Counting => count'[call] = 0 /\ drawers'[call] = drawers[call] \cup {s}
  BY <1>2, <1>5 DEF FieldsOK, CountInv, CountersOK
<1>8. CountersOK'
  <2>1. num' \in Nat
    BY <1>5 DEF CountInv, CountersOK, Positive
  <2>2. drawers' \in [Counting -> SUBSET Segment]
    BY <1>5 DEF CountInv, CountersOK
  <2>3. drawers'["twinkle"] # {} => num' > 0
    BY <1>5, <1>7 DEF CountInv, CountersOK, Positive, Counting
  <2> QED BY <1>1, <2>1, <2>2, <2>3 DEF CountInv, CountersOK
<1>9. Drawn'
  BY <1>1, <1>4, <1>5, <1>6, <1>7 DEF CountInv, Drawn
<1>10. LoadedCurrent'
  <2> SUFFICES ASSUME NEW e \in Counting, NEW u \in Segment, drawers'[e] = {u}, ~raced'[u],
                      task[u].pc = "count", task[u].effect = e
               PROVE  task[u].loaded = count'[e]
    BY <1>1 DEF LoadedCurrent
  <2>1. u # s
    BY <1>3 DEF InEffect
  <2>2. e # call
    BY <1>7, <2>1
  <2> QED BY <1>3, <1>7, <2>1, <2>2 DEF CountInv, LoadedCurrent
<1>11. BelowLimit'
  <2> SUFFICES ASSUME NEW e \in Counting, NEW u \in Segment, drawers'[e] = {u}, ~raced'[u],
                      asked'[u] = e \/ (u = s /\ call = e)
               PROVE  count'[e] < Limit(u, e)'
    BY <1>5, <1>6 DEF BelowLimit
  <2>1. CASE e = call
    <3>1. Limit(u, e)' \in Nat /\ Limit(u, e)' > 0
      <4>1. u \in drawers'[e]
        OBVIOUS
      <4>2. CASE e = "twinkle"
        BY <1>8, <4>1, <4>2 DEF Limit, CountersOK
      <4>3. CASE e # "twinkle"
        <5>1. NumPixels[u] \in Nat /\ NumPixels[u] > 0
          BY DEF Positive
        <5>2. Limit(u, e)' = 2 * NumPixels[u]
          BY <4>3 DEF Limit
        <5> QED BY <5>1, <5>2
      <4> QED BY <4>2, <4>3
    <3> QED BY <1>7, <2>1, <3>1
  <2>2. CASE e # call
    <3>1. u # s /\ asked[u] = e /\ drawers[e] = {u} /\ ~raced[u] /\ count'[e] = count[e]
      BY <1>3, <1>7, <2>2 DEF Counting
    <3>2. Limit(u, e)' = Limit(u, e)
      BY <1>5, <2>2 DEF Limit
    <3> QED BY <3>1, <3>2 DEF CountInv, BelowLimit
  <2> QED BY <2>1, <2>2
<1> QED BY <1>8, <1>9, <1>10, <1>11 DEF CountInv

LEMMA NextCountInv ==
  ASSUME EffectsNamed, Positive
  PROVE  IInv /\ CallInv /\ CountInv /\ [Next]_vars => CountInv'
<1> SUFFICES ASSUME IInv, CallInv, CountInv, [Next]_vars PROVE CountInv'
  OBVIOUS
<1> QED BY ListCountInv, MethodCountInv, StoresCountInv, EffectCountInv DEF Next, Application

\* The counter of a counting effect stays below where the effect starts over, and so
\* comes back to its start, although it is compared for equality only and all segments
\* share it: as long as one segment only was ever asked for that effect, and was not
\* asked again in the middle of a turn (CounterReturns).
THEOREM CounterComesBack ==
  ASSUME NodesDiffer, EffectsNamed, Positive
  PROVE  Spec => []CounterReturns
<1>1. CountInv => CounterReturns
  BY DEF CountInv, BelowLimit, CounterReturns
<1> QED BY InitIInv, NextIInv, InitCallInv, NextCallInv, InitCountInv, NextCountInv, <1>1,
           PTL DEF Spec
=============================================================================
