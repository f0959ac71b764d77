------------------------------ MODULE LfsCommit ------------------------------
(***************************************************************************)
(* How littlefs/src/lfs.c writes metadata pairs (see LfsDir): commits that *)
(* append, compactions into the other block of a pair, splits, relocations *)
(* with what they change in parents and predecessors, and the repair of    *)
(* what a loss of power has left half done.  One step writes one block at  *)
(* most.  The functions that are under way are frames on a stack:          *)
(*   stack   the frames, the innermost first, each with the place `at'     *)
(*           which it goes on from when what it has called returns         *)
(*   ret     what the last function returned: an error, or one of "ok",    *)
(*           "relocated", "dropped", "orphaned"; and the mdirs it changed  *)
(*   mlist   of lfs_t, the open files and directories as lfs_file_t and    *)
(*           lfs_dir_t have them; "tmp" is a lfs_mlist on a C stack        *)
(*   said    what the last call returned                                   *)
(* The file of a handle is history: a number of its own for each file.     *)
(* An attribute is a tag; "from" stands for the structures of an entry.    *)
(***************************************************************************)
EXTENDS LfsDir

CONSTANTS Bad,   \* the blocks that do not program
          Slot   \* "tmp" and the names of the handles

VARIABLES mlist, stack, ret, said

Assertion == 1

NoEntry == [type |-> "free", m |-> NoDir, id |-> 0, pos |-> 0, head |-> Null, file |-> 0]

Result(err, state, dir, pdir) == [err |-> err, state |-> state, dir |-> dir, pdir |-> pdir]
Did(state, dir) == Result(LFS_ERR_OK, state, dir, NoDir)
Failed(err) == Result(err, "ok", NoDir, NoDir)
OK == ret.err = LFS_ERR_OK

At(place) == stack # << >> /\ Head(stack).at = place
Top == Head(stack)
Becomes(frame) == stack' = <<frame>> \o Tail(stack)
Calls(frames, back) == stack' = frames \o <<back>> \o Tail(stack)
Return(result) == stack' = Tail(stack) /\ ret' = result

(* What a call returns: of what kind it was, and what it was told of a path. *)
Said(of, err, type, path) == [of |-> of, err |-> err, type |-> type, path |-> path]
Quiet == Said("call", LFS_ERR_OK, "none", << >>)

\* The call ends; what it has put into mlist on the way is taken out of it,
\* and lfs_file_opencfg closes a file that it could not create.
Opening == stack[Len(stack)].at = "opened"

LeftOpen(err, list) ==
  IF Opening /\ err # LFS_ERR_OK THEN [list EXCEPT ![stack[Len(stack)].slot] = NoEntry] ELSE list

Ends(err, list) ==
  /\ stack' = << >> /\ ret' = Failed(LFS_ERR_OK)
  /\ said' = [Quiet EXCEPT !.err = IF Opening /\ err = LFS_ERR_NOSPC THEN LFS_ERR_NAMETOOLONG ELSE err]
  /\ mlist' = [LeftOpen(err, list) EXCEPT !["tmp"] = NoEntry]

\* An assertion that does not hold is an abort, and that a restart: what is
\* in RAM is gone, and a mount comes next.
Unmounted == [root |-> Null, gstate |-> NoState, gdisk |-> NoState, gdelta |-> {}, look |-> Dropped(0)]
NoHandles == [slot \in Slot |-> NoEntry]
Mounting == <<[at |-> "mount"]>>

Aborts ==
  /\ stack' = Mounting /\ ret' = Failed(Assertion)
  /\ lfs' = Unmounted /\ mlist' = NoHandles /\ UNCHANGED said

-----------------------------------------------------------------------------
(* lfs_dir_traverse.                                                         *)

From(id, dir, old) == Tag("from", id, [dir |-> dir, id |-> old])

(* lfs_dir_traverse_filter: a later tag makes one redundant, or moves it.    *)
Redundant(later, t) ==
  later.id = t.id /\ (Type1(later.type) = Type1(t.type) \/ later.type = "delete")

RECURSIVE Filtered(_, _, _)
Filtered(t, tags, n) ==
  IF n > Len(tags) \/ t.type = "none" THEN t
  ELSE IF tags[n].type = "from" THEN Filtered(t, tags, n + 1)
  ELSE IF Redundant(tags[n], t) THEN NoTag
  ELSE Filtered([t EXCEPT !.id = IF Splices(tags[n], @) THEN @ + Splice(tags[n]) ELSE @], tags, n + 1)

\* The tags of some types that no other has made redundant, of the ids from
\* begin to end, counted from to.
RECURSIVE Unique(_, _, _, _, _, _), Placed(_, _, _, _)
Unique(tags, n, types, begin, end, to) ==
  IF n > Len(tags) THEN << >>
  ELSE (IF Type1(tags[n].type) \in types THEN Placed(Filtered(tags[n], tags, n + 1), begin, end, to) ELSE << >>)
       \o Unique(tags, n + 1, types, begin, end, to)

Placed(t, begin, end, to) ==
  IF t.type = "none" \/ t.id \notin begin..(end - 1) THEN << >>
  ELSE IF t.type # "from" THEN <<[t EXCEPT !.id = @ - begin + to]>>
  ELSE Unique(LogOf(t.val.dir), 1, {"struct"}, t.val.id, t.val.id + 1, t.id - begin + to)

Compacted(dir, attrs, begin, end) == Unique(LogOf(dir) \o attrs, 1, {"name", "struct", "from"}, begin, end, 0)

\* Without a filter: the attributes as they are.
RECURSIVE Attributes(_)
Attributes(attrs) ==
  IF attrs = << >> THEN << >>
  ELSE (IF Head(attrs).type = "from" THEN Placed(Head(attrs), 0, NoId, 0) ELSE <<Head(attrs)>>)
       \o Attributes(Tail(attrs))

StateTag(delta) == IF delta = {} THEN << >> ELSE <<Tag("gstate", NoId, delta)>>

-----------------------------------------------------------------------------
(* The end of lfs_dir_relocatingcommit: what is open follows its entry, over *)
(* creations and deletions before it and into the pair a split has put it    *)
(* in; an entry that is deleted has no pair any more.  The mdir that was     *)
(* committed has been given its id by the caller.                            *)


\* Mutant: a directory that is being read keeps its place.
Mut_Moves(e, by) == IF e.type = "dir" THEN e ELSE [e EXCEPT !.id = @ + by]
Moves(e, by) == [e EXCEPT !.id = @ + by, !.pos = IF e.type = "dir" THEN @ + by ELSE @]

Adjust(e, t) ==
  CASE t.type = "delete" /\ e.id = t.id -> [e EXCEPT !.m.pair = Null]
    [] t.type = "delete" /\ e.id > t.id -> Moves(e, -1)
    [] t.type = "create" /\ e.id >= t.id -> Moves(e, 1)
    [] OTHER -> e

RECURSIVE Adjusted(_, _)
Adjusted(e, attrs) == IF attrs = << >> THEN e ELSE Adjusted(Adjust(e, Head(attrs)), Tail(attrs))

RECURSIVE Walked(_)
Walked(e) ==
  IF e.id >= e.m.count /\ e.m.split THEN Walked([e EXCEPT !.id = @ - e.m.count, !.m = Fetch(e.m.tail)]) ELSE e

\* Mutant: what is open keeps its id.
Mut_Follows(e, old, dir, isOwner, attrs) ==
  IF ~Shares(e.m.pair, old) THEN e ELSE Walked([e EXCEPT !.m = dir])

Follows(e, old, dir, isOwner, attrs) ==
  IF ~Shares(e.m.pair, old) THEN e
  ELSE Walked(IF isOwner THEN [e EXCEPT !.m = dir] ELSE Adjusted([e EXCEPT !.m = dir], attrs))

FixMlist(top, dir) ==
  mlist' = [slot \in Slot |-> Follows(mlist[slot], top.pair, dir, slot = top.owner, top.attrs)]

-----------------------------------------------------------------------------
(* lfs_dir_relocatingcommit: owner is the slot of dir in mlist, or "none",   *)
(* and drops tells that the caller can drop a pair that becomes empty.       *)

Counts(attrs, type) == Cardinality({n \in 1..Len(attrs) : attrs[n].type = type})
TailIn(attrs) == {n \in 1..Len(attrs) : Type1(attrs[n].type) = "tail"}

Changed(dir, attrs) ==
  LET counted == [dir EXCEPT !.count = @ + Counts(attrs, "create") - Counts(attrs, "delete")]
      t == attrs[First(TailIn(attrs))]
  IN IF TailIn(attrs) = {} THEN counted ELSE [counted EXCEPT !.tail = t.val, !.split = t.type = "hardtail"]

Write(dir, owner, attrs, drops) ==
  [at |-> "write", dir |-> Changed(dir, attrs), pair |-> dir.pair, owner |-> owner, attrs |-> attrs, drops |-> drops]

Empties(top) == Counts(top.attrs, "delete") > 0 /\ top.dir.count = 0
Drops(top) == \E pred \in {Pred(top.pair)} : pred.found /\ pred.dir.split

\* LFS_ASSERT(pdir).
NoPlaceForPred == At("write") /\ Empties(Top) /\ ~Top.drops /\ Aborts /\ UNCHANGED disk

Drop ==
  /\ At("write") /\ Empties(Top) /\ Top.drops
  /\ \E pred \in {Pred(Top.pair)} :
       /\ pred.found /\ pred.dir.split
       /\ Return(Result(LFS_ERR_OK, "dropped", Top.dir, pred.dir))
  /\ FixMlist(Top, Top.dir)
  /\ UNCHANGED <<disk, lfs, said>>

Delta == Xor(Xor(Written(lfs.gstate), Written(lfs.gdisk)), lfs.gdelta)

AppendState(dir) == IF Delta = {} THEN << >> ELSE <<Tag("gstate", NoId, Xor(Delta, StateIn(dir)))>>

Appended(dir, attrs) == Attributes(attrs) \o AppendState(dir) \o <<Crc>>

Fits(dir, tags) == dir.off + Len(tags) <= LogSize
Programs(b) == b \notin Bad /\ disk[b].clean

Appends(top) == At("write") /\ ~(Empties(top) /\ (~top.drops \/ Drops(top)))

AppendDir(dir, tags) == [dir EXCEPT !.off = @ + Len(tags)]

AppendCommit ==
  /\ Appends(Top) /\ Top.dir.erased /\ Programs(Top.pair[1])
  /\ \E tags \in {Appended(Top.dir, Top.attrs)} :
       /\ Fits(Top.dir, tags)
       /\ disk' = [disk EXCEPT ![Top.pair[1]].log = LogOf(Top.dir) \o tags]
       /\ Return(Did("ok", AppendDir(Top.dir, tags)))
       /\ FixMlist(Top, AppendDir(Top.dir, tags))
  /\ lfs' = [lfs EXCEPT !.gdisk = lfs.gstate, !.gdelta = {}]
  /\ UNCHANGED said

Splitting(top) ==
  [at |-> "split", dir |-> top.dir, pair |-> top.pair, owner |-> top.owner, attrs |-> top.attrs,
   end |-> top.dir.count, split |-> 0]

\* What does not fit may have been programmed up to there.
AppendFails ==
  /\ Appends(Top)
  /\ \/ ~Top.dir.erased /\ UNCHANGED disk
     \/ Top.dir.erased /\ ~Programs(Top.pair[1]) /\ disk' = [disk EXCEPT ![Top.pair[1]].clean = FALSE]
     \/ /\ Top.dir.erased /\ Programs(Top.pair[1]) /\ ~Fits(Top.dir, Appended(Top.dir, Top.attrs))
        /\ \E clean \in BOOLEAN : disk' = [disk EXCEPT ![Top.pair[1]].clean = clean]
  /\ Becomes(Splitting(Top))
  /\ UNCHANGED <<lfs, mlist, ret, said>>

-----------------------------------------------------------------------------
(* lfs_dir_needsrelocation and lfs_dir_compact: into the second block of the *)
(* pair, until one takes it.                                                 *)

NeedsRelocation(dir) == (dir.rev + 1) % Modulus = 0

Compacting(dir, source, attrs, begin, end) ==
  [at |-> "compact", dir |-> [dir EXCEPT !.rev = @ + 1], source |-> source, attrs |-> attrs,
   begin |-> begin, end |-> end, relocated |-> FALSE, tired |-> NeedsRelocation(dir)]

\* Mutant: what a split or a drop has to hand on is forgotten.
Mut_CompactDelta(dir, relocated) == IF relocated THEN {} ELSE Xor(Written(lfs.gdisk), Written(lfs.gstate))

CompactDelta(dir, relocated) ==
  Xor(Xor(IF relocated THEN {} ELSE Xor(Written(lfs.gdisk), Written(lfs.gstate)), lfs.gdelta), StateIn(dir))

CompactLog(top) ==
  Compacted(top.source, top.attrs, top.begin, top.end)
  \o (IF top.dir.tail = Null THEN << >> ELSE <<TailTag(top.dir.split, top.dir.tail)>>)
  \o StateTag(CompactDelta(top.dir, top.relocated)) \o <<Crc>>

TiresOut(top) == top.tired /\ ~Shares(top.dir.pair, Anchor)
Sticks(top) == ~TiresOut(top) /\ top.dir.pair[2] \notin Bad

CompactDir(top, log) ==
  [top.dir EXCEPT !.pair = Swapped(@), !.count = top.end - top.begin, !.off = Len(log)]

Compact ==
  /\ At("compact") /\ Sticks(Top)
  /\ \E log \in {CompactLog(Top)} :
       /\ Len(log) <= LogSize
       /\ disk' = [disk EXCEPT ![Top.dir.pair[2]] = [rev |-> Top.dir.rev, log |-> log, clean |-> TRUE]]
       /\ Return(Did(IF Top.relocated THEN "relocated" ELSE "ok", CompactDir(Top, log)))
  /\ lfs' = [lfs EXCEPT !.gdelta = {}, !.gdisk = IF Top.relocated THEN @ ELSE lfs.gstate]
  /\ UNCHANGED <<mlist, said>>

CompactFails ==
  /\ At("compact") /\ Sticks(Top) /\ Len(CompactLog(Top)) > LogSize
  /\ disk' = [disk EXCEPT ![Top.dir.pair[2]] = [rev |-> Top.dir.rev, log |-> << >>, clean |-> FALSE]]
  /\ Return(Failed(LFS_ERR_NOSPC))
  /\ UNCHANGED <<lfs, mlist, said>>

\* A block that is worn out, or bad, is replaced; one of the superblock is not.
Relocate ==
  /\ At("compact") /\ ~Sticks(Top)
  /\ disk' = IF TiresOut(Top) THEN disk ELSE [disk EXCEPT ![Top.dir.pair[2]] = Unwritten]
  /\ IF Shares(Top.dir.pair, Anchor) THEN Return(Failed(LFS_ERR_NOSPC)) /\ UNCHANGED lfs
     ELSE \E took \in {Alloc(lfs.look)} :
            /\ lfs' = [lfs EXCEPT !.look = took.look]
            /\ IF took.err = LFS_ERR_OK \/ Top.tired
               THEN /\ Becomes([Top EXCEPT !.relocated = TRUE, !.tired = FALSE,
                                           !.dir.pair[2] = IF took.err = LFS_ERR_OK THEN took.block ELSE @])
                    /\ UNCHANGED ret
               ELSE Return(Failed(took.err))
  /\ UNCHANGED <<mlist, said>>

-----------------------------------------------------------------------------
(* lfs_dir_alloc.                                                            *)

NewDir(pair) == [NoDir EXCEPT !.pair = pair, !.rev = AlignedUp(disk[pair[1]].rev)]

AllocDir ==
  /\ At("alloc")
  /\ \E one \in {Alloc(lfs.look)} : \E two \in {IF one.err = LFS_ERR_OK THEN Alloc(one.look) ELSE one} :
       /\ lfs' = [lfs EXCEPT !.look = two.look]
       /\ Return(IF two.err = LFS_ERR_OK THEN Did("ok", NewDir(<<two.block, one.block>>)) ELSE Failed(two.err))
  /\ UNCHANGED <<disk, mlist, said>>

(* lfs_dir_splittingcompact and lfs_dir_split: the ids from split on go to a *)
(* new pair behind dir; all of them do to expand the superblock.  Without    *)
(* the space for it the pair is compacted as it is.                          *)

HalfSize == Lesser(LogSize - 4, (LogSize + 1) \div 2)

RECURSIVE SplitAt(_, _, _, _)
SplitAt(dir, attrs, split, end) ==
  IF end - split <= 1 \/ Len(Compacted(dir, attrs, split, end)) <= HalfSize THEN split
  ELSE SplitAt(dir, attrs, split + (end - split) \div 2, end)

\* lfs_fs_size_: an expanded superblock is never taken back.
MayExpand == BlockCount - 2 * Len(Chain) > BlockCount \div 8

Expands(top) == NeedsRelocation(top.dir) /\ Shares(top.dir.pair, Anchor) /\ MayExpand

Splits(top) == At("split") /\ SplitAt(top.dir, top.attrs, 0, top.end) > 0
Widens(top) == (At("split") \/ At("expand")) /\ ~Splits(top) /\ Expands(top)

Split ==
  /\ Splits(Top)
  /\ Calls(<<[at |-> "alloc"]>>,
           [Top EXCEPT !.at = "splitting", !.split = SplitAt(Top.dir, Top.attrs, 0, Top.end)])
  /\ UNCHANGED <<disk, lfs, mlist, ret, said>>

Expand ==
  /\ Widens(Top)
  /\ Calls(<<[at |-> "alloc"]>>, [Top EXCEPT !.at = "splitting", !.split = 0])
  /\ UNCHANGED <<disk, lfs, mlist, ret, said>>

CompactLast ==
  /\ \/ At("last")
     \/ (At("split") \/ At("expand")) /\ ~Splits(Top) /\ ~Widens(Top)
  /\ Calls(<<Compacting(Top.dir, Top.dir, Top.attrs, 0, Top.end)>>, [Top EXCEPT !.at = "fixmlist"])
  /\ UNCHANGED <<disk, lfs, mlist, ret, said>>

\* What comes after a split that has, or has not, been made.
AfterSplit(top) == IF top.split > 0 THEN "split" ELSE "last"
WithoutSplit(top) == IF top.split > 0 THEN "expand" ELSE "last"

SplitOff ==
  /\ At("splitting")
  /\ IF OK
     THEN Calls(<<Compacting([ret.dir EXCEPT !.split = Top.dir.split, !.tail = Top.dir.tail],
                             Top.dir, Top.attrs, Top.split, Top.end)>>, [Top EXCEPT !.at = "halved"])
     ELSE Becomes([Top EXCEPT !.at = WithoutSplit(Top)])
  /\ UNCHANGED <<disk, lfs, mlist, ret, said>>

Halved ==
  /\ At("halved")
  /\ IF OK
     THEN /\ Becomes([Top EXCEPT !.at = AfterSplit(Top), !.end = Top.split,
                                 !.dir.tail = ret.dir.pair, !.dir.split = TRUE])
          /\ lfs' = [lfs EXCEPT !.root = IF Shares(Top.dir.pair, @) /\ Top.split = 0 THEN ret.dir.pair ELSE @]
     ELSE Becomes([Top EXCEPT !.at = WithoutSplit(Top)]) /\ UNCHANGED lfs
  /\ UNCHANGED <<disk, mlist, ret, said>>

CompactDone ==
  /\ At("fixmlist")
  /\ IF OK THEN Return(ret) /\ FixMlist(Top, ret.dir) /\ UNCHANGED said ELSE Ends(ret.err, mlist)
  /\ UNCHANGED <<disk, lfs>>

-----------------------------------------------------------------------------
(* lfs_dir_orphaningcommit.  A pair that was relocated has to be changed in  *)
(* its parent and in its predecessor, each of which may be relocated in      *)
(* turn: between the two the pair is a half-orphan.  A move that is pending  *)
(* from a pair that is committed to is finished with it.  deorphans is TRUE  *)
(* for lfs_dir_commit.                                                       *)

Committing(dir, owner, attrs, deorphans) ==
  <<Write(dir, owner, attrs, TRUE),
    [at |-> "committed", pair |-> dir.pair, owner |-> owner, mine |-> NoDir, ldir |-> NoDir, ppair |-> Null,
     hasparent |-> FALSE, orphans |-> FALSE, deorphans |-> deorphans]>>

Commit(dir, owner, attrs) == Committing(dir, owner, attrs, TRUE)

(* lfs_fs_preporphans and lfs_fs_prepmove.                                   *)
PrepOrphans(g, n) == [g EXCEPT !.orphans = @ + n]
PrepMove(g, id, pair) == [g EXCEPT !.move = IF id = NoId THEN NoMove ELSE [id |-> id, pair |-> pair]]

\* A commit of t to dir that also deletes what is being moved from there.
FixedTag(g, dir, t) ==
  IF MoveHere(g, dir.pair) /\ g.move.id < t.id /\ t.id # NoId THEN [t EXCEPT !.id = @ - 1] ELSE t
FixingMove(g, dir, t) ==
  IF MoveHere(g, dir.pair) THEN <<Delete(g.move.id), FixedTag(g, dir, t)>> ELSE <<t>>
MoveFixed(g, dir) == IF MoveHere(g, dir.pair) THEN PrepMove(g, NoId, Null) ELSE g

\* lfs_fs_deorphan, see below.
Deorphaning(powerloss) ==
  [at |-> "deorphan", pass |-> 0, more |-> FALSE, powerloss |-> powerloss,
   pdir |-> [NoDir EXCEPT !.split = TRUE, !.tail = Anchor]]

\* The caller's mdir after the first commit; that of an open file is in mlist.
Mine(top) == IF top.owner = "none" THEN ret.dir ELSE mlist[top.owner].m

Dropping ==
  /\ At("committed") /\ ret.state = "dropped"
  /\ lfs' = [lfs EXCEPT !.gdelta = Xor(@, StateIn(Mine(Top)))]
  /\ Calls(<<Write(ret.pdir, "none", <<TailTag(Mine(Top).split, Mine(Top).tail)>>, FALSE)>>,
           [Top EXCEPT !.at = "dropped", !.mine = Mine(Top), !.pair = ret.pdir.pair])
  /\ UNCHANGED <<disk, mlist, ret, said>>

Follow(pair, lpair, to) == IF Shares(lpair, pair) THEN to ELSE pair

Tracked(lpair, to) ==
  [slot \in Slot |->
     [mlist[slot] EXCEPT !.m.pair = Follow(@, lpair, to),
                         !.head = IF mlist[slot].type = "dir" THEN Follow(@, lpair, to) ELSE @]]

\* The pair that has been relocated: after the parent's, it is the parent's.
Relocated(top) == IF top.at = "told" THEN top.ppair ELSE top.pair

TellParent ==
  /\ \/ At("committed") \/ At("dropped") \/ At("told") \/ At("linked")
  /\ ret.state = "relocated"
  /\ mlist' = Tracked(Relocated(Top), ret.dir.pair)
  /\ LET on == [Top EXCEPT !.pair = Relocated(Top), !.ldir = ret.dir,
                           !.mine = IF At("committed") THEN Mine(Top) ELSE @, !.orphans = @ \/ At("told")]
         root == Follow(lfs.root, Relocated(Top), ret.dir.pair)
     IN \E parent \in {Parent(Relocated(Top))} :
          IF parent.found
          THEN /\ lfs' = [lfs EXCEPT !.root = root, !.gstate = MoveFixed(PrepOrphans(@, 1), parent.dir)]
               /\ Calls(<<Write(parent.dir, "none",
                                FixingMove(lfs.gstate, parent.dir, Tag("dirstruct", parent.id, ret.dir.pair)), FALSE)>>,
                        [on EXCEPT !.at = "told", !.ppair = parent.dir.pair, !.hasparent = TRUE])
          ELSE lfs' = [lfs EXCEPT !.root = root] /\ Becomes([on EXCEPT !.at = "orphan", !.hasparent = FALSE])
  /\ UNCHANGED <<disk, ret, said>>

CommitDone(top) ==
  /\ IF top.orphans /\ top.deorphans THEN Becomes(Deorphaning(FALSE)) /\ UNCHANGED ret
     ELSE Return(Did(IF top.orphans THEN "orphaned" ELSE "ok", top.mine))
  /\ UNCHANGED <<mlist, said>>

TellPred ==
  /\ At("orphan") \/ (At("told") /\ ret.state # "relocated")
  /\ \E pred \in {Pred(Top.pair)} :
       LET cleaned == IF HasOrphans(lfs.gstate) /\ Top.hasparent THEN PrepOrphans(lfs.gstate, -1) ELSE lfs.gstate
       IN IF pred.found
          THEN /\ lfs' = [lfs EXCEPT !.gstate = MoveFixed(cleaned, pred.dir)]
               /\ Calls(<<Write(pred.dir, "none",
                                FixingMove(lfs.gstate, pred.dir, TailTag(pred.dir.split, Top.ldir.pair)), FALSE)>>,
                        [Top EXCEPT !.at = "linked", !.pair = pred.dir.pair])
               /\ UNCHANGED <<mlist, ret, said>>
          ELSE IF Top.hasparent THEN Aborts ELSE CommitDone(Top) /\ UNCHANGED lfs
  /\ UNCHANGED disk

Committed ==
  /\ \/ At("committed") \/ At("dropped") \/ At("linked")
  /\ ret.state = "ok"
  /\ CommitDone([Top EXCEPT !.mine = IF At("committed") THEN Mine(Top) ELSE @])
  /\ UNCHANGED <<disk, lfs>>

-----------------------------------------------------------------------------
(* lfs_fs_deorphan: first the pairs whose parent knows of another pair than  *)
(* the list, then, after a loss of power, those that have no parent.         *)

Resumed(top) ==
  IF top.at = "deorphan" THEN top
  ELSE [top EXCEPT !.at = "deorphan", !.pdir = ret.dir, !.more = @ \/ ret.state = "orphaned"]

StructOf(parent) == Get(lfs.gdisk, parent.dir, {"dirstruct"}, parent.id).val
HalfOrphan(parent, pair) == parent.found /\ ~InSync(StructOf(parent), pair)

IsOrphan(top, pdir) ==
  /\ pdir.tail # Null /\ ~pdir.split
  /\ \E parent \in {Parent(pdir.tail)} :
       IF top.pass = 0 THEN HalfOrphan(parent, pdir.tail) ELSE top.powerloss /\ ~parent.found

\* The first that has an orphan behind it, from pdir on.
Preds(top) == <<top.pdir>> \o ChainFrom(top.pdir.tail, BlockCount)
WithOrphan(top, preds) == {n \in 1..Len(preds) : IsOrphan(top, preds[n])}

FixHalfOrphan(top, pdir) ==
  /\ lfs' = [lfs EXCEPT !.gstate = MoveFixed(@, pdir)]
  /\ Calls(Committing(pdir, "none", FixingMove(lfs.gstate, pdir, TailTag(FALSE, StructOf(Parent(pdir.tail)))), FALSE),
           [top EXCEPT !.at = "deorphaned"])

FixOrphan(top, pdir) ==
  \E dir \in {Fetch(pdir.tail)} :
    /\ lfs' = [lfs EXCEPT !.gdelta = Xor(@, StateIn(dir))]
    /\ Calls(Committing(pdir, "none", <<TailTag(dir.split, dir.tail)>>, FALSE), [top EXCEPT !.at = "deorphaned"])

NextPass(top) ==
  IF top.pass = 1 /\ ~top.more
  THEN /\ lfs' = [lfs EXCEPT !.gstate.orphans = 0]
       /\ Return(Did("ok", NoDir))
  ELSE /\ Becomes([Deorphaning(top.powerloss) EXCEPT !.pass = IF top.more THEN 0 ELSE 1])
       /\ UNCHANGED <<lfs, ret>>

Deorphan ==
  /\ At("deorphan") \/ At("deorphaned")
  /\ \E top \in {Resumed(Top)} : \E preds \in {Preds(top)} : \E at \in {WithOrphan(top, preds)} :
       IF ~HasOrphans(lfs.gstate) THEN Return(Did("ok", NoDir)) /\ UNCHANGED lfs
       ELSE IF at = {} THEN NextPass(top)
       ELSE /\ IF top.pass = 0 THEN FixHalfOrphan(top, preds[First(at)]) ELSE FixOrphan(top, preds[First(at)])
            /\ UNCHANGED ret
  /\ UNCHANGED <<disk, mlist, said>>

(* lfs_fs_demove.                                                            *)
Demove ==
  /\ At("demove")
  /\ lfs' = [lfs EXCEPT !.gstate = PrepMove(@, NoId, Null)]
  /\ stack' = Commit(Fetch(lfs.gdisk.move.pair), "none", <<Delete(lfs.gdisk.move.id)>>) \o Tail(stack)
  /\ UNCHANGED <<disk, mlist, ret, said>>

(* lfs_fs_forceconsistency comes before the frame of a call.                 *)
\* Mutant: what is left half done is not repaired.
Mut_Consistent == << >>

Consistent ==
  (IF HasMove(lfs.gdisk) THEN <<[at |-> "demove"]>> ELSE << >>)
  \o (IF HasMove(lfs.gdisk) \/ HasOrphans(lfs.gstate) THEN <<Deorphaning(TRUE)>> ELSE << >>)
=============================================================================
