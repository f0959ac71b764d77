------------------------------ MODULE LfsFiles ------------------------------
(***************************************************************************)
(* littlefs with open files and the calls on them, between losses of       *)
(* power.  Each call holds the lock of the partition (LFS_LOCK, and lock   *)
(* of Lfs_Part.c) from beginning to end, so it is one step; what a call    *)
(* that loses power half-way leaves behind is in NeverTouchesLive.  One    *)
(* handle at a time may write a path: nothing in littlefs says so, but two *)
(* that do lose each other's blocks.                                       *)
(***************************************************************************)
EXTENDS LfsFile

CONSTANTS
  NoContent, Closed, Stale, \* see FileStore
  Seeks, Lengths, Reads,   \* positions, sizes and lengths of reads that are asked for
  WriteSizes,              \* and of writes
  Openings,                \* sets of flags
  First,                   \* lengths of the file that is there at first
  BadWords,                \* sets of words that do not program
  Starts,                  \* where the lookahead window may start
  Excluding,               \* see Seek and WritingTree: what is left out of a run
  MaxCalls                 \* bound: the calls

VARIABLES
  lfs,     \* the record of LfsBd and LfsFile
  shown,   \* what of it can be seen: see Shown
  said,    \* what the last call returned
  stale,   \* history: the handles whose blocks may be given to others
  calls    \* history: their number

vars == <<lfs, shown, said, stale, calls>>

Formatted(bad) ==
  Mounted([dev |-> [b \in Block |-> [o \in Offset |-> Erased]], bad |-> bad, data |-> << >>,
           cache |-> [slot \in Handle \cup {"r", "p", "none", "orig"} |-> NoCache],
           file |-> [h \in Handle \cup {"orig"} |-> NoFile], look |-> 0,
           at |-> [block |-> LFS_BLOCK_NULL, off |-> 0], err |-> 0, seen |-> {}, again |-> FALSE,
           stored |-> [p \in Path |-> Absent], erased |-> {}, wrong |-> {}], 2)

Words(n) == [i \in 1..n |-> 10 * calls + i]

(* lfs_format and lfs_mount, and a file of n words if n is not 0.            *)
WithFile(s, h, path, n) ==
  IF n = 0 THEN s
  ELSE Close(Write(Open(s, h, path, {"WRONLY", "CREAT"}), h, [i \in 1..n |-> i]), h)

-----------------------------------------------------------------------------
(* What a list holds, by the definition of its form alone: block i begins    *)
(* with as many pointers as i has trailing zeros and one more, and the first *)
(* of them is to block i - 1.                                                *)

Heads(i) == IF i = 0 THEN 0 ELSE TrailingZeros(i) + 1
StartOf[i \in Nat] == IF i = 0 THEN 0 ELSE StartOf[i - 1] + BlockSize - Heads(i - 1)

WordAt(s, c, block, off) ==
  IF Holds(c, block, off) THEN c.buffer[off - c.off + 1] ELSE s.dev[block][off]

LastOf(size) == CHOOSE i \in 0..size : StartOf[i] < size /\ size <= StartOf[i + 1]

RECURSIVE ListFrom(_, _, _, _, _)
ListFrom(s, c, block, i, size) ==
  LET data == [n \in 1..(Least(size, StartOf[i + 1]) - StartOf[i]) |-> WordAt(s, c, block, Heads(i) + n - 1)]
  IN IF i = 0 THEN data ELSE ListFrom(s, c, WordAt(s, c, block, 0), i - 1, size) \o data

Listed(s, c, block, size) == IF size = 0 THEN << >> ELSE ListFrom(s, c, block, LastOf(size), size)

RECURSIVE BlocksFrom(_, _, _, _)
BlocksFrom(s, c, block, i) == {block} \cup (IF i = 0 THEN {} ELSE BlocksFrom(s, c, WordAt(s, c, block, 0), i - 1))

BlocksOf(s, c, block, size) == IF size = 0 \/ block = LFS_BLOCK_INLINE THEN {} ELSE BlocksFrom(s, c, block, LastOf(size))

ContentOf(s, struct) ==
  IF struct = Absent THEN NoContent
  ELSE IF struct.inline THEN struct.content ELSE Listed(s, NoCache, struct.head, struct.size)

(* What a handle would read.                                                 *)
HandleContent(s, h) ==
  LET f == s.file[h]
      old == Listed(s, NoCache, f.head, f.size)
      rest == IF f.pos < f.size THEN SubSeq(old, f.pos + 1, f.size) ELSE << >>
  IN IF Has(s, h, "INLINE") THEN SubSeq(s.cache[h].buffer, 1, Size(s, h))
     ELSE IF Has(s, h, "WRITING")
     THEN Listed(s, s.cache[h], f.block, f.pos) \o rest
     ELSE old

HandleOf(s, gone, h) ==
  LET f == s.file[h]
  IN IF s.file[h].path = "none" THEN Closed ELSE IF h \in gone THEN Stale
     ELSE [path |-> f.path, append |-> Has(s, h, "APPEND"), pos |-> f.pos,
           erred |-> Has(s, h, "ERRED"), content |-> HandleContent(s, h),
           dirty |-> Has(s, h, "DIRTY") \/ Has(s, h, "WRITING")]

(* What the store shows of itself: see FileStore.                            *)
Shown(s, gone) ==
  [stored |-> [p \in Path |-> ContentOf(s, s.stored[p])],
   handle |-> [h \in Handle |-> HandleOf(s, gone, h)]]

-----------------------------------------------------------------------------
Failed == [failed |-> TRUE]
Said(words) == [failed |-> FALSE, words |-> words]
Returned(s) == [s EXCEPT !.data = << >>, !.seen = {}, !.again = FALSE, !.at = [block |-> LFS_BLOCK_NULL, off |-> 0]]

Init ==
  /\ calls = 1 /\ stale = {} /\ said = Said(<< >>)
  /\ \E n \in First, bad \in BadWords, start \in Starts :
       /\ LET h == CHOOSE h \in Handle : TRUE
              path == CHOOSE path \in Path : TRUE
          IN lfs = [Returned(Mounted(WithFile(Formatted(bad), h, path, n), start)) EXCEPT !.erased = {}]
       /\ shown = Shown(lfs, {})

IsOpen(h) == lfs.file[h].path # "none"
MayWrite(h) == Has(lfs, h, "WRONLY")

\* The handles of a path that are left with blocks that nothing refers to.
Left(path, h) ==
  {k \in Handle \ {h} : lfs.file[k].path = path /\ ~Has(lfs, k, "INLINE") /\ ~Has(lfs, k, "DIRTY")}

(* One call: what it makes of lfs, and what it returns if it succeeds.       *)
Asked == [lfs EXCEPT !.erased = {}]

(* A relocation that fails for want of space leaves its handle half-way into *)
(* a block, and the block in its cache: another write may meet an assertion. *)
Broken(s) == {h \in Handle : Has(s, h, "WRITING") /\ ~Has(s, h, "INLINE") /\ Lags(s, h)}

Call(s, words, left) ==
  LET gone == left \cup Broken(s)
  IN
  /\ calls <= MaxCalls /\ calls' = calls + 1
  /\ s.wrong \cap Excluding = {}
  /\ lfs' = Returned(s) /\ stale' = gone /\ shown' = Shown(s, gone)
  /\ said' = IF Ok(s) THEN Said(words) ELSE Failed

OpenCall(h, path, flags) ==
  /\ ~IsOpen(h)
  /\ "WRONLY" \in flags => \A k \in Handle : MayWrite(k) => lfs.file[k].path # path
  /\ Call(Open(Asked, h, path, flags), << >>, stale)

ReadCall(h, size) ==
  /\ IsOpen(h) /\ Has(lfs, h, "RDONLY")
  /\ \E s \in {Read(Asked, h, size)} : Call(s, s.data, stale)

WriteCall(h, n) ==
  /\ IsOpen(h) /\ MayWrite(h) /\ h \notin stale
  /\ Call(Write(Asked, h, Words(n)), << >>, stale)

SeekCall(h, pos) == IsOpen(h) /\ Call(Seek(Asked, h, pos), << >>, stale)

TruncateCall(h, size) ==
  /\ IsOpen(h) /\ MayWrite(h) /\ h \notin stale
  /\ Call(Truncate(Asked, h, size), << >>, stale)

(* A path that is stored or removed leaves its blocks to others.             *)
SyncCall(h) ==
  /\ IsOpen(h) /\ h \notin stale
  /\ \E s \in {Sync(Asked, h)} :
       Call(s, << >>, stale \cup IF s.stored = lfs.stored THEN {} ELSE Left(lfs.file[h].path, h))

CloseCall(h) ==
  /\ IsOpen(h)
  /\ \E s \in {Close(Asked, h)} :
       Call(s, << >>, (stale \ {h}) \cup IF s.stored = lfs.stored THEN {} ELSE Left(lfs.file[h].path, h))

RemoveCall(path) ==
  /\ lfs.stored[path] # Absent
  /\ Call(Remove(Asked, path), << >>, stale \cup Left(path, "none"))

PowerLoss == \E start \in Starts : Call(Mounted(Asked, start), << >>, {})

Next ==
  \/ \E h \in Handle :
       \/ \E path \in Path, flags \in Openings : OpenCall(h, path, flags)
       \/ \E n \in Reads : ReadCall(h, n)
       \/ \E n \in WriteSizes : WriteCall(h, n)
       \/ \E n \in Seeks : SeekCall(h, n)
       \/ \E n \in Lengths : TruncateCall(h, n)
       \/ SyncCall(h) \/ CloseCall(h)
  \/ \E path \in Path : RemoveCall(path)
  \/ PowerLoss

(* The blocks that hold something stored, or something a handle has written. *)
(* What a handle has written before what it is writing is not counted: a     *)
(* call may write all of it anew and then take the blocks it had.            *)
DirtyBlocks(h) ==
  IF Has(lfs, h, "DIRTY") /\ ~Has(lfs, h, "INLINE")
  THEN BlocksOf(lfs, NoCache, lfs.file[h].head, lfs.file[h].size) ELSE {}

WritingBlocks(h) ==
  IF Has(lfs, h, "WRITING") /\ ~Has(lfs, h, "INLINE")
  THEN BlocksOf(lfs, lfs.cache[h], lfs.file[h].block, lfs.file[h].pos) ELSE {}

StoredBlocks(struct) == IF struct.inline THEN {} ELSE BlocksOf(lfs, NoCache, struct.head, struct.size)

LiveBlocks ==
  MetadataPair \cup UNION {StoredBlocks(lfs.stored[path]) : path \in Path}
               \cup UNION {IF Has(lfs, h, "WRITING") THEN WritingBlocks(h) ELSE DirtyBlocks(h) :
                             h \in Handle \ stale}

UsedBlocks == LiveBlocks \cup UNION {DirtyBlocks(h) \cup {lfs.file[h].block} : h \in Handle}
                         \cup {LFS_BLOCK_INLINE % BlockCount}
=============================================================================
