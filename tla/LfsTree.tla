------------------------------- MODULE LfsTree -------------------------------
(***************************************************************************)
(* The tree of directories and files that littlefs/src/lfs.c keeps in its  *)
(* metadata pairs (see LfsDir and LfsCommit): the calls of lfs.h that      *)
(* change it or look into it, a loss of power between any two writes or    *)
(* during one, and the mount after it.  A call holds the lock of the       *)
(* partition from beginning to end: a new one begins on an empty stack.    *)
(*   tree      history: the entries that a mount would have found on the   *)
(*             disk before the last step, so that no call ends on a write    *)
(*   call      history: what the call under way has to make of the tree    *)
(*   listing   history: of an open directory, the entries that have been   *)
(*             there all the time and are still due, those that have been  *)
(*             read, whether one came twice, and whether the end came      *)
(*   moved     history: the files that were renamed or removed while open    *)
(*   script    the calls that are still to come, and losses of power       *)
(***************************************************************************)
EXTENDS LfsCommit

CONSTANTS FileSlot, DirSlot,  \* handles
          Scripts,            \* bound: sequences of the sets of calls that come one after the other
          StaleSyncs,         \* whether files are synchronized that were renamed or removed while open
          HarmsWhenFull,      \* whether what a full disk harms is followed further
          Starts,             \* bound: where the lookahead may start after a mount
          MaxLosses           \* bound: losses of power

VARIABLES tree, call, listing, moved, script, losses

vars == <<disk, lfs, mlist, stack, ret, said, tree, call, listing, moved, script, losses>>

Dot == -1
DotDot == -2

-----------------------------------------------------------------------------
(* lfs_dir_find: the entry a path leads to, or the place where one belongs.  *)
(* A name that a later .. takes back is never looked up.                     *)

Balance(path, k) ==
  Cardinality({j \in 1..k : path[j] # DotDot}) - Cardinality({j \in 1..k : path[j] = DotDot})
TakenBack(path) == {k \in 2..Len(path) : Balance(path, k) = 0}

Skipped(path) == SubSeq(path, (IF Head(path) \in {Dot, DotDot} THEN 1 ELSE First(TakenBack(path))) + 1, Len(path))

NotFound(err, place, dir) == [err |-> err, type |-> "none", id |-> NoId, place |-> place, dir |-> dir]

PairAt(at) == IF at.id = NoId THEN lfs.root ELSE Get(lfs.gdisk, at.dir, Structs, at.id).val

RECURSIVE FindIn(_, _), FoundIn(_, _)
FindIn(pair, name) == FoundIn(FetchMatch(lfs.gdisk, pair, Named(name)), name)
FoundIn(match, name) ==
  IF match.err # LFS_ERR_OK \/ match.found \/ ~match.dir.split THEN match ELSE FindIn(match.dir.tail, name)

RECURSIVE FindFrom(_, _), Found(_, _)
FindFrom(path, at) ==
  IF path = << >> THEN at
  ELSE IF Head(path) \in {Dot, DotDot} \/ TakenBack(path) # {} THEN FindFrom(Skipped(path), at)
  ELSE IF at.type # "dir" THEN NotFound(LFS_ERR_NOTDIR, NoId, NoDir)
  ELSE Found(FindIn(PairAt(at), Head(path)), path)

Found(match, path) ==
  LET place == IF Len(path) = 1 THEN match.id ELSE NoId
  IN IF match.err = LFS_ERR_CORRUPT THEN NotFound(LFS_ERR_CORRUPT, NoId, NoDir)
     ELSE IF ~match.found THEN NotFound(LFS_ERR_NOENT, place, match.dir)
     ELSE FindFrom(Tail(path), [err |-> LFS_ERR_OK, type |-> match.type, id |-> match.id,
                                place |-> place, dir |-> match.dir])

Find(path) == FindFrom(path, [err |-> LFS_ERR_OK, type |-> "dir", id |-> NoId, place |-> NoId, dir |-> NoDir])

Exists(found) == found.err = LFS_ERR_OK /\ found.id # NoId
Creatable(found) == found.err = LFS_ERR_NOENT /\ found.place # NoId
Name(path) == path[Len(path)]
IsEmpty(dir) == dir.count = 0 /\ ~dir.split

-----------------------------------------------------------------------------
(* What a mount finds on the disk: the state that all pairs add up to, the   *)
(* pair of the root, and the entries that can be reached from it.            *)

RECURSIVE StateFrom(_)
StateFrom(chain) == IF chain = << >> THEN {} ELSE Xor(StateIn(Head(chain)), StateFrom(Tail(chain)))

\* The last superblock is that of the root; without any there is no root.
Has(dir, type) == Search(LogOf(dir), dir.off, {type}, 0).type = type
Supers(chain) == {n \in 1..Len(chain) : chain[n].pair # Null /\ Has(chain[n], "super")}

RootIn(chain) ==
  LET at == Supers(chain)
  IN IF at = {} THEN Null ELSE chain[CHOOSE n \in at : \A k \in at : k <= n].pair

\* A superblock without its struct, a list that does not end, or a pair of it
\* that cannot be fetched makes a mount fail.
MountError(chain) ==
  LET last == chain[Len(chain)]
  IN IF \E n \in Supers(chain) : ~Has(chain[n], "inline") THEN LFS_ERR_NOENT
     ELSE IF last.pair = Null \/ last.tail # Null THEN LFS_ERR_CORRUPT
     ELSE LFS_ERR_OK

\* The pairs of one directory.
RECURSIVE PairsFrom(_), PairsAfter(_)
PairsFrom(pair) == PairsAfter(Fetch(pair))
PairsAfter(dir) == {dir} \cup (IF dir.split THEN PairsFrom(dir.tail) ELSE {})

Directory(path) == [path |-> path, type |-> "dir", file |-> 0, val |-> 0]
File(path, file, val) == [path |-> path, type |-> "reg", file |-> file, val |-> val]

\* An entry that is being moved away is not there.
Stays(g, dir) == {id \in 0..(dir.count - 1) : ~(MoveHere(g, dir.pair) /\ g.move.id = id)}

RECURSIVE TreeIn(_, _, _), EntryIn(_, _, _, _)
TreeIn(g, pair, path) ==
  UNION {UNION {EntryIn(g, path, Get(NoState, dir, Names, id), Get(NoState, dir, Structs, id)) : id \in Stays(g, dir)} :
           dir \in PairsFrom(pair)}
EntryIn(g, path, name, struct) ==
  LET at == path \o <<name.val>>
  IN CASE struct.type = "none" \/ name.type = "none" -> {}
       [] struct.type = "inline" -> {File(at, struct.val.file, struct.val.val)}
       [] struct.type = "dirstruct" -> {Directory(at)} \cup (IF Len(at) > 3 THEN {} ELSE TreeIn(g, struct.val, at))

ViewOf(chain) ==
  IF MountError(chain) # LFS_ERR_OK THEN {} ELSE TreeIn(StateOf(StateFrom(chain)), RootIn(chain), << >>)
View == ViewOf(Chain)

Tree == INSTANCE FileTree

-----------------------------------------------------------------------------
(* A call begins with lfs_fs_forceconsistency; history goes with every step. *)

Untracked(touched) ==
  [d \in DirSlot |-> [listing[d] EXCEPT !.due = @ \ touched, !.seen = @ \ touched]]

\* The open files that a path leads to.
OpenAt(path) == {f \in FileSlot : \E e \in tree : mlist[f].type = "reg" /\ e.file = mlist[f].file /\ e.path = path}

Begins(op, frames, paths) ==
  /\ stack = << >>
  /\ stack' = frames
  /\ call' = Tree!Asked(tree, op)
  /\ script' = Tail(script)
  /\ listing' = Untracked({Name(path) : path \in paths})
  /\ said' = Quiet
  /\ UNCHANGED <<disk, lfs, mlist, ret, tree, losses>>

Asks(kind) == {op \in Head(script) : op.name = kind}
Stay == UNCHANGED moved
Frame(place, path) == [at |-> place, path |-> path]

CallMkdir == \E op \in Asks("mkdir") : Begins(op, Consistent \o <<Frame("mkdir", op.path)>>, {op.path}) /\ Stay
CallRemove ==
  \E op \in Asks("remove") :
    /\ Begins(op, Consistent \o <<Frame("remove", op.path)>>, {op.path})
    /\ moved' = moved \cup OpenAt(op.path)
CallRename ==
  \E op \in Asks("rename") :
    /\ Begins(op, Consistent \o <<[at |-> "rename", path |-> op.path, to |-> op.to]>>, {op.path, op.to})
    /\ moved' = moved \cup OpenAt(op.path) \cup OpenAt(op.to)
CallRepair == \E op \in Asks("repair") : Begins(op, Consistent \o <<[at |-> "repair"]>>, {}) /\ Stay

-----------------------------------------------------------------------------
(* lfs_mkdir_: the new directory is put behind the last pair of its parent   *)
(* in the list, with a commit of its own if that is not the parent's first.  *)

RECURSIVE LastPair(_)
LastPair(dir) == IF dir.split THEN LastPair(Fetch(dir.tail)) ELSE dir

Hook(dir) == [NoEntry EXCEPT !.type = "hook", !.m = dir]

Mkdir ==
  /\ At("mkdir")
  /\ \E found \in {Find(Top.path)} :
       IF ~Creatable(found)
       THEN Ends(IF found.err = LFS_ERR_OK THEN LFS_ERR_EXIST ELSE found.err, mlist) /\ UNCHANGED lfs
       ELSE /\ lfs' = [lfs EXCEPT !.look = Checkpoint(@)]
            /\ Calls(<<[at |-> "alloc"]>>, [at |-> "mkdir allocated", name |-> Name(Top.path), id |-> found.place, cwd |-> found.dir])
            /\ UNCHANGED <<mlist, ret, said>>
  /\ UNCHANGED disk

MkdirAllocated ==
  /\ At("mkdir allocated")
  /\ IF OK
     THEN /\ \E pred \in {LastPair(Top.cwd)} :
               Calls(Commit(ret.dir, "none", <<TailTag(FALSE, pred.tail)>>),
                     [at |-> "mkdir written", name |-> Top.name, id |-> Top.id, cwd |-> Top.cwd, pred |-> pred])
          /\ UNCHANGED <<mlist, ret, said>>
     ELSE Ends(ret.err, mlist)
  /\ UNCHANGED <<disk, lfs>>

Insert(cwd, pair) ==
  stack' = Commit(cwd, "none", <<Create(Top.id), Tag("dir", Top.id, Top.name), Tag("dirstruct", Top.id, pair)>>
                               \o (IF cwd.split THEN << >> ELSE <<TailTag(FALSE, pair)>>))
           \o <<[at |-> "end"]>>

MkdirWritten ==
  /\ At("mkdir written")
  /\ IF Top.cwd.split
     THEN /\ lfs' = [lfs EXCEPT !.gstate = PrepOrphans(@, 1)]
          /\ mlist' = [mlist EXCEPT !["tmp"] = Hook(Top.cwd)]
          /\ Calls(Commit(Top.pred, "none", <<TailTag(FALSE, ret.dir.pair)>>),
                   [at |-> "mkdir linked", name |-> Top.name, id |-> Top.id, pair |-> ret.dir.pair])
     ELSE Insert(Top.cwd, ret.dir.pair) /\ UNCHANGED <<lfs, mlist>>
  /\ UNCHANGED <<disk, ret, said>>

\* LFS_ASSERT in lfs_fs_preporphans: what is taken back has been given.
Unprepared == ~HasOrphans(lfs.gstate) /\ Aborts

MkdirLinked ==
  /\ At("mkdir linked")
  /\ \/ Unprepared
     \/ /\ HasOrphans(lfs.gstate)
        /\ lfs' = [lfs EXCEPT !.gstate = PrepOrphans(@, -1)]
        /\ mlist' = [mlist EXCEPT !["tmp"] = NoEntry]
        /\ Insert(mlist["tmp"].m, Top.pair)
        /\ UNCHANGED <<ret, said>>
  /\ UNCHANGED disk

-----------------------------------------------------------------------------
(* lfs_remove_ and lfs_rename_.  A directory that has lost its entry is an   *)
(* orphan until it is taken out of the list.                                 *)

\* The directory that goes, or nothing for a file.
Victim(found) ==
  IF found.type = "dir" THEN <<Fetch(Get(lfs.gdisk, found.dir, Structs, found.id).val)>> ELSE << >>

\* Its mdir is hooked into mlist, and the orphan is announced.
Dooms(victim, g) ==
  IF victim = << >> THEN lfs' = [lfs EXCEPT !.gstate = g] /\ UNCHANGED mlist
  ELSE /\ lfs' = [lfs EXCEPT !.gstate = PrepOrphans(g, 1)]
       /\ mlist' = [mlist EXCEPT !["tmp"] = Hook(victim[1])]

Unlinks(victim) == [at |-> IF victim = << >> THEN "end" ELSE "unlinked"]

Remove ==
  /\ At("remove")
  /\ \E found \in {Find(Top.path)} :
       IF ~Exists(found) THEN Ends(IF found.err = LFS_ERR_OK THEN LFS_ERR_INVAL ELSE found.err, mlist) /\ UNCHANGED lfs
       ELSE \E victim \in {Victim(found)} :
              IF victim # << >> /\ ~IsEmpty(victim[1]) THEN Ends(LFS_ERR_NOTEMPTY, mlist) /\ UNCHANGED lfs
              ELSE /\ Dooms(victim, lfs.gstate)
                   /\ stack' = Commit(found.dir, "none", <<Delete(found.id)>>) \o <<Unlinks(victim)>>
                   /\ UNCHANGED <<ret, said>>
  /\ UNCHANGED disk

Unlinked ==
  /\ At("unlinked")
  /\ \/ Unprepared
     \/ /\ HasOrphans(lfs.gstate)
        /\ \E pred \in {Pred(mlist["tmp"].m.pair)} : \E tail \in {mlist["tmp"].m} :
             IF pred.found
             THEN /\ lfs' = [lfs EXCEPT !.gstate = PrepOrphans(@, -1), !.gdelta = Xor(@, StateIn(tail))]
                  /\ mlist' = [mlist EXCEPT !["tmp"] = NoEntry]
                  /\ stack' = Commit(pred.dir, "none", <<TailTag(tail.split, tail.tail)>>) \o <<[at |-> "end"]>>
                  /\ UNCHANGED <<ret, said>>
             ELSE Ends(LFS_ERR_NOENT, mlist) /\ lfs' = [lfs EXCEPT !.gstate = PrepOrphans(@, -1)]
  /\ UNCHANGED disk

\* What is wrong with a rename: from and to are what was found.
RenameError(from, to) ==
  IF ~Exists(from) THEN IF from.err = LFS_ERR_OK THEN LFS_ERR_INVAL ELSE from.err
  ELSE IF ~Exists(to) /\ ~Creatable(to) THEN IF to.err = LFS_ERR_OK THEN LFS_ERR_INVAL ELSE to.err
  ELSE IF Exists(to) /\ to.type # from.type THEN IF to.type = "dir" THEN LFS_ERR_ISDIR ELSE LFS_ERR_NOTDIR
  ELSE LFS_ERR_OK

SamePair(from, to) == Shares(from.dir.pair, to.dir.pair)
NewOldId(from, to) == from.id + IF ~Exists(to) /\ to.place <= from.id THEN 1 ELSE 0

Attrs(from, to, name) ==
  LET id == to.place
  IN (IF Exists(to) THEN <<Delete(id)>> ELSE << >>)
     \o <<Create(id), Tag(from.type, id, name), From(id, from.dir, from.id)>>
     \o (IF SamePair(from, to) THEN <<Delete(NewOldId(from, to))>> ELSE << >>)

Renames(from, to, victim) ==
  IF victim # << >> /\ ~IsEmpty(victim[1]) THEN Ends(LFS_ERR_NOTEMPTY, mlist) /\ UNCHANGED lfs
  ELSE /\ Dooms(victim, IF SamePair(from, to) THEN lfs.gstate ELSE PrepMove(lfs.gstate, from.id, from.dir.pair))
       /\ stack' = Commit(to.dir, "none", Attrs(from, to, Name(Top.to)))
                   \o <<[at |-> "renamed", from |-> from, same |-> SamePair(from, to)], Unlinks(victim)>>
       /\ UNCHANGED <<ret, said>>

Rename ==
  /\ At("rename")
  /\ \E from \in {Find(Top.path)} : \E to \in {Find(Top.to)} :
       IF RenameError(from, to) # LFS_ERR_OK THEN Ends(RenameError(from, to), mlist) /\ UNCHANGED lfs
       ELSE IF Exists(to) /\ SamePair(from, to) /\ to.id = from.id THEN Ends(LFS_ERR_OK, mlist) /\ UNCHANGED lfs
       ELSE \E victim \in {IF Exists(to) THEN Victim(to) ELSE << >>} : Renames(from, to, victim)
  /\ UNCHANGED disk

\* A commit to the old pair on the way has finished the move already.
Renamed ==
  /\ At("renamed")
  /\ IF ~Top.same /\ HasMove(lfs.gstate)
     THEN /\ lfs' = [lfs EXCEPT !.gstate = PrepMove(@, NoId, Null)]
          /\ stack' = Commit(Top.from.dir, "none", <<Delete(Top.from.id)>>) \o Tail(stack)
     ELSE stack' = Tail(stack) /\ UNCHANGED lfs
  /\ UNCHANGED <<disk, mlist, ret, said>>

(* lfs_fs_mkconsistent_.                                                     *)
Repair ==
  /\ At("repair")
  /\ stack' = (IF lfs.gdisk = lfs.gstate THEN << >> ELSE Commit(Fetch(lfs.root), "none", << >>)) \o <<[at |-> "end"]>>
  /\ UNCHANGED <<disk, lfs, mlist, ret, said>>

End == At("end") /\ Ends(LFS_ERR_OK, mlist) /\ UNCHANGED <<disk, lfs>>

-----------------------------------------------------------------------------
(* Files, all inline: a write is kept in the cache of the handle until       *)
(* lfs_file_sync_ commits it.  A file is numbered by what is left of the     *)
(* script when it is created, and so is what is written.  The call "sync"    *)
(* stands for an lfs_file_write of a new value, which touches that cache     *)
(* only, and the lfs_file_sync after it.  The write marks the handle         *)
(* LFS_F_WRITING and takes LFS_F_ERRED from it, so that what a sync before   *)
(* has failed with does not hold back this one.  A sync without a write is   *)
(* left out: there is nothing to store, or LFS_F_ERRED forbids it, and in    *)
(* both cases it returns 0 and does nothing.                                 *)

Number == Len(script)
Handle(type, m, id, file) == [NoEntry EXCEPT !.type = type, !.m = m, !.id = id, !.file = file]

FreeSlot == LET free == {f \in FileSlot : mlist[f].type = "free"} IN IF free = {} THEN {} ELSE {CHOOSE f \in free : TRUE}

CallOpen ==
  \E op \in Asks("open") : \E slot \in FreeSlot :
    /\ Begins(Tree!Open(op.path, Number),
              Consistent \o <<[at |-> "open", path |-> op.path, slot |-> slot, file |-> Number]>>, {op.path})
    /\ Stay

Opens(handle) == [mlist EXCEPT ![Top.slot] = handle]

Open ==
  /\ At("open")
  /\ \E found \in {Find(Top.path)} :
       \/ ~Exists(found) /\ ~Creatable(found) /\ Ends(IF found.err = LFS_ERR_OK THEN LFS_ERR_ISDIR ELSE found.err, mlist)
       \/ Exists(found) /\ found.type = "dir" /\ Ends(LFS_ERR_ISDIR, mlist)
       \/ /\ Exists(found) /\ found.type = "reg"
          /\ Ends(LFS_ERR_OK, Opens(Handle("reg", found.dir, found.id,
                                           Get(lfs.gdisk, found.dir, Structs, found.id).val.file)))
       \/ /\ Creatable(found)
          /\ mlist' = Opens(Handle("reg", found.dir, found.place, Top.file))
          /\ stack' = Commit(found.dir, Top.slot,
                             <<Create(found.place), Tag("reg", found.place, Name(Top.path)),
                               Tag("inline", found.place, [file |-> Top.file, val |-> 0])>>)
                      \o <<[at |-> "opened", slot |-> Top.slot]>>
          /\ UNCHANGED <<ret, said>>
  /\ UNCHANGED <<disk, lfs>>

Opened == At("opened") /\ Ends(LFS_ERR_OK, mlist) /\ UNCHANGED <<disk, lfs>>

CallSync ==
  \E op \in Asks("sync") : \E f \in {f \in FileSlot : mlist[f].type = "reg" /\ (StaleSyncs \/ f \notin moved)} :
    /\ Begins(Tree!Sync(mlist[f].file, Number), <<[at |-> "sync", slot |-> f, val |-> Number]>>, {})
    /\ Stay

Sync ==
  /\ At("sync")
  /\ IF mlist[Top.slot].m.pair = Null THEN Ends(LFS_ERR_OK, mlist)
     ELSE /\ \E e \in {mlist[Top.slot]} :
               stack' = Commit(e.m, Top.slot, <<Tag("inline", e.id, [file |-> e.file, val |-> Top.val])>>)
                        \o <<[at |-> "end"]>>
          /\ UNCHANGED <<mlist, ret, said>>
  /\ UNCHANGED <<disk, lfs>>

-----------------------------------------------------------------------------
(* Directories that are open, and lfs_stat_.  These calls write nothing.     *)

Looked == stack = << >> /\ UNCHANGED <<disk, lfs, stack, ret, tree, call, losses>>

Stat ==
  /\ Looked
  /\ \E op \in Asks("stat") : \E found \in {Find(op.path)} : said' = Said("look", found.err, found.type, op.path)
  /\ script' = Tail(script) /\ Stay /\ UNCHANGED <<mlist, listing>>

NoListing == [due |-> {}, seen |-> {}, twice |-> FALSE, ended |-> FALSE]
NamesIn(path) == {Name(e.path) : e \in {f \in tree : Tree!Front(f.path) = path}}

OpenDir ==
  /\ Looked
  /\ \E op \in Asks("opendir") : \E d \in {d \in DirSlot : mlist[d].type = "free"} : \E found \in {Find(op.path)} :
       IF found.err = LFS_ERR_OK /\ found.type = "dir"
       THEN \E m \in {Fetch(PairAt(found))} :
              /\ mlist' = [mlist EXCEPT ![d] = [Handle("dir", m, 0, 0) EXCEPT !.head = m.pair]]
              /\ listing' = [listing EXCEPT ![d] = [NoListing EXCEPT !.due = NamesIn(op.path)]]
              /\ said' = Said("read", LFS_ERR_OK, "dir", << >>)
       ELSE /\ said' = Said("read", IF found.err = LFS_ERR_OK THEN LFS_ERR_NOTDIR ELSE found.err, "none", << >>)
            /\ UNCHANGED <<mlist, listing>>
  /\ script' = Tail(script) /\ Stay

\* The handle at the next entry there is, or at the end.
RECURSIVE Onward(_), AtEntry(_)
Onward(e) ==
  IF e.id # e.m.count THEN AtEntry(e)
  ELSE IF e.m.split THEN AtEntry([e EXCEPT !.id = 0, !.m = Fetch(e.m.tail)]) ELSE e
AtEntry(e) ==
  IF e.m.pair # Null /\ e.m.count > e.id /\ Get(lfs.gdisk, e.m, Names, e.id).type = "none"
  THEN Onward([e EXCEPT !.id = @ + 1]) ELSE e

Reads(d, e, outcome, listed) ==
  /\ mlist' = [mlist EXCEPT ![d] = e]
  /\ said' = outcome
  /\ listing' = [listing EXCEPT ![d] = listed]
  /\ UNCHANGED <<moved, script>>

Listed(l, name) == [l EXCEPT !.due = @ \ {name}, !.seen = @ \cup (l.due \cap {name}), !.twice = @ \/ name \in l.seen]

DirRead(d) ==
  /\ Looked /\ mlist[d].type = "dir" /\ ~listing[d].ended
  /\ IF mlist[d].pos < 2
     THEN Reads(d, [mlist[d] EXCEPT !.pos = @ + 1], Said("read", LFS_ERR_OK, "dir", <<Dot - mlist[d].pos>>), listing[d])
     ELSE \E e \in {Onward(mlist[d])} :
            IF e.id = e.m.count
            THEN Reads(d, e, Said("read", LFS_ERR_OK, "end", << >>), [listing[d] EXCEPT !.ended = TRUE])
            ELSE IF e.m.pair = Null
            THEN Reads(d, e, Said("read", LFS_ERR_CORRUPT, "none", << >>), [NoListing EXCEPT !.ended = TRUE])
            ELSE \E name \in {Get(lfs.gdisk, e.m, Names, e.id)} :
                   Reads(d, [e EXCEPT !.id = @ + 1, !.pos = @ + 1], Said("read", LFS_ERR_OK, name.type, <<name.val>>),
                         Listed(listing[d], name.val))

\* lfs_dir_rewind_, and lfs_dir_seek_ to a position of lfs_dir_tell_.
Rewound(e) == [e EXCEPT !.m = Fetch(e.head), !.id = 0, !.pos = 0]

RECURSIVE Sought(_, _)
Sought(e, off) ==
  LET diff == Lesser(e.m.count - e.id, off)
  IN IF off = 0 THEN e
     ELSE IF e.id = e.m.count
     THEN IF e.m.split THEN Sought([e EXCEPT !.m = Fetch(e.m.tail), !.id = 0], off) ELSE [e EXCEPT !.type = "invalid"]
     ELSE Sought([e EXCEPT !.id = @ + diff, !.pos = @ + diff], off - diff)

Seek(e, off) ==
  Sought([Rewound(e) EXCEPT !.pos = Lesser(2, off), !.id = IF off > 2 /\ Shares(e.head, lfs.root) THEN 1 ELSE 0],
         off - Lesser(2, off))

DirRewind(d) ==
  /\ Looked /\ mlist[d].type = "dir" /\ Asks("rewind") # {}
  /\ mlist' = [mlist EXCEPT ![d] = Rewound(@)]
  /\ listing' = [listing EXCEPT ![d] = [NoListing EXCEPT !.due = listing[d].due \cup listing[d].seen]]
  /\ script' = Tail(script) /\ UNCHANGED <<moved, said>>

DirSeek(d) ==
  /\ Looked /\ mlist[d].type = "dir" /\ Asks("seek") # {}
  /\ mlist' = [mlist EXCEPT ![d] = Seek(@, mlist[d].pos)]
  /\ script' = Tail(script) /\ UNCHANGED <<listing, moved, said>>

\* lfs_dir_close_, and lfs_file_close_ of a file that has been synchronized or
\* whose sync has failed: its own sync does nothing then.
Close ==
  /\ Looked
  /\ \E op \in Asks("close") : \E slot \in {s \in FileSlot \cup DirSlot : mlist[s].type # "free"} :
       /\ mlist' = [mlist EXCEPT ![slot] = NoEntry]
       /\ listing' = [d \in DirSlot |-> IF d = slot THEN NoListing ELSE listing[d]]
       /\ moved' = moved \ {slot}
  /\ script' = Tail(script) /\ UNCHANGED said

-----------------------------------------------------------------------------
(* A loss of power, possibly in the middle of a program or of an erase, and  *)
(* lfs_mount_ after it.                                                      *)

Torn ==
  {disk}
  \cup (IF At("write") /\ Appends(Top) /\ Top.dir.erased THEN {[disk EXCEPT ![Top.pair[1]].clean = FALSE]} ELSE {})
  \cup (IF At("compact") /\ Sticks(Top)
        THEN {[disk EXCEPT ![Top.dir.pair[2]] = b] : b \in {Unwritten, [rev |-> Top.dir.rev, log |-> << >>, clean |-> FALSE]}}
        ELSE {})

PowerLoss ==
  /\ losses < MaxLosses /\ stack # Mounting
  /\ disk' \in Torn
  /\ lfs' = Unmounted /\ mlist' = NoHandles /\ stack' = Mounting /\ ret' = Failed(LFS_ERR_OK)
  /\ listing' = [d \in DirSlot |-> NoListing] /\ moved' = {}
  /\ losses' = losses + 1 /\ UNCHANGED <<said, script>>

Mounted(chain, start) ==
  [root |-> RootIn(chain), gstate |-> StateOf(StateFrom(chain)), gdisk |-> StateOf(StateFrom(chain)),
   gdelta |-> {}, look |-> Dropped(start)]

\* Where it fails, nothing is mounted, and no call can follow.
Mount ==
  /\ At("mount")
  /\ \E chain \in {Chain} :
       IF MountError(chain) = LFS_ERR_OK
       THEN /\ \E start \in Starts : lfs' = Mounted(chain, start)
            /\ stack' = << >> /\ said' = Said("mount", LFS_ERR_OK, "none", << >>)
       ELSE /\ said' = Said("mount", MountError(chain), "none", << >>)
            /\ UNCHANGED <<lfs, stack>>
  /\ ret' = Failed(LFS_ERR_OK) /\ UNCHANGED <<disk, mlist>>

(* lfs_format_.                                                              *)
Formatted ==
  LET log == <<Tag("super", 0, 0), Tag("inline", 0, [file |-> 0, val |-> 0]), Crc>>
  IN [b \in Block |-> IF b < 2 THEN [rev |-> b + 1, log |-> log, clean |-> TRUE] ELSE Unwritten]

-----------------------------------------------------------------------------
(* The specification.                                                        *)

Init ==
  /\ disk = Formatted /\ lfs = Unmounted /\ mlist = NoHandles /\ stack = Mounting
  /\ ret = Failed(LFS_ERR_OK) /\ said = Quiet
  /\ tree = {} /\ call = Tree!Idle /\ listing = [d \in DirSlot |-> NoListing] /\ moved = {}
  /\ script \in Scripts /\ losses = 0

Step ==
  \/ NoPlaceForPred \/ Drop \/ AppendCommit \/ AppendFails \/ Compact \/ CompactFails \/ Relocate
  \/ AllocDir \/ Split \/ Expand \/ CompactLast \/ SplitOff \/ Halved \/ CompactDone
  \/ Dropping \/ TellParent \/ TellPred \/ Committed \/ Deorphan \/ Demove
  \/ Mkdir \/ MkdirAllocated \/ MkdirWritten \/ MkdirLinked
  \/ Remove \/ Unlinked \/ Rename \/ Renamed \/ Repair \/ Open \/ Opened \/ Sync \/ End \/ Mount

\* Without space a pair that is worn out is written without the global state,
\* and a move that fails stays in RAM, to be written by the next commit.
WearsFull == At("compact") /\ TiresOut(Top) /\ Alloc(lfs.look).err # LFS_ERR_OK
MoveFails == stack' = << >> /\ said'.err # LFS_ERR_OK /\ HasMove(lfs'.gstate)

Goes ==
  /\ Step /\ tree' = View
  /\ HarmsWhenFull \/ ~(WearsFull \/ MoveFails)
  /\ call' = IF stack' = << >> THEN Tree!Idle ELSE call
  /\ listing' = IF stack' = Mounting THEN [d \in DirSlot |-> NoListing] ELSE listing
  /\ moved' = IF stack' = Mounting THEN {} ELSE moved
  /\ UNCHANGED <<script, losses>>

Fails == PowerLoss /\ tree' = View /\ UNCHANGED call

Begin == script # << >> /\ (CallMkdir \/ CallRemove \/ CallRename \/ CallRepair \/ CallOpen \/ CallSync \/ OpenDir \/ Close \/ Stat)

Next ==
  \/ Goes \/ Fails \/ Begin
  \/ \E d \in DirSlot : DirRead(d) \/ (script # << >> /\ (DirRewind(d) \/ DirSeek(d)))

Spec == Init /\ [][Next]_vars

-----------------------------------------------------------------------------
(* Properties.                                                               *)

\* Every call changes the tree at once or not at all, and returns what the
\* tree says, however many commits it takes, whichever pairs these relocate,
\* split or drop, and wherever power is lost (lfs_mkdir, lfs_remove, lfs_rename,
\* lfs_file_open, lfs_file_sync, lfs_stat, and lfs_fs_forceconsistency).
ImplementsFileTree == Tree!Spec

Idle == stack = << >>
Settled == Idle /\ ~HasOrphans(lfs.gstate) /\ ~HasMove(lfs.gstate)

RECURSIVE Reached(_), Grown(_, _)
Reached(pairs) == Grown(pairs, pairs \cup UNION {UNION {PairsIn(dir) : dir \in PairsFrom(p)} : p \in pairs})
Grown(pairs, more) == IF more = pairs THEN pairs ELSE Reached(more)

Blocks(pair) == {pair[1], pair[2]}

ListIsTree ==
  \E chain \in {Chain} :
    /\ {Blocks(chain[n].pair) : n \in 1..Len(chain)}
         = {Blocks(Anchor)} \cup UNION {{Blocks(dir.pair) : dir \in PairsFrom(p)} : p \in Reached({lfs.root})}
    /\ Cardinality(UNION {Blocks(chain[n].pair) : n \in 1..Len(chain)}) = 2 * Len(chain)

\* Nothing that was taken out of the tree is left in the list of all pairs,
\* nothing of the tree is missing there, and no two pairs share a block; and
\* the global state that is spread over the pairs adds up to the one in RAM
\* (lfs_fs_deorphan, lfs_dir_orphaningcommit and the gdelta of what is dropped).
ListAddsUp ==
  /\ Settled => ListIsTree
  /\ Idle => lfs.gdelta = {} /\ StateFrom(Chain) = Written(lfs.gdisk)

AtItsEntry(e) ==
  /\ [e.m EXCEPT !.erased = FALSE] = [Fetch(e.m.pair) EXCEPT !.erased = FALSE]
  /\ \E struct \in {Get(lfs.gdisk, e.m, {"inline"}, e.id)} : struct.type = "inline" /\ struct.val.file = e.file

\* An open file is at its entry, with an mdir that is up to date, wherever that
\* has been moved to by commits for others (the fixmlist of lfs_dir_commit), as
\* long as it is not itself renamed or removed.
HandlesFollow ==
  Idle => \A f \in FileSlot : mlist[f].type = "reg" /\ f \notin moved => AtItsEntry(mlist[f])

\* Whoever reads a directory to its end has read once all that was there all
\* the time, whatever was created and removed meanwhile (lfs_dir_read).
ListingComplete == \A d \in DirSlot : ~listing[d].twice /\ (listing[d].ended => listing[d].due = {})
=============================================================================
