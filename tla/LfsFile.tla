------------------------------- MODULE LfsFile -------------------------------
(***************************************************************************)
(* The files of littlefs/src/lfs.c: the block allocator with its lookahead *)
(* window, the skip lists that hold the content of files (ctz), and the    *)
(* handles with their caches.  Each function of the code is an operator    *)
(* that takes and returns what lfs_t holds: to the fields named in LfsBd   *)
(* this module adds                                                        *)
(*   look, seen    the lookahead buffer; the blocks a traversal has visited *)
(*   at            a block and an offset, as lfs_ctz_find returns them      *)
(*   stored        what the metadata says of each path                     *)
(*   again         whether a block was left for another one                 *)
(*   file          file[h]: the handles, and "orig" of lfs_file_flush       *)
(***************************************************************************)
EXTENDS LfsBd, FiniteSetsExt

CONSTANTS Path, Handle,
          LookSize,   \* the blocks the lookahead buffer has a bit for
          InlineMax   \* inline_max

ASSUME LimitAssumption == LookSize \in Nat \ {0} /\ InlineMax \in 0..CacheSize

MetadataPair == {0, 1}

Inline(content) == [inline |-> TRUE, content |-> content]
Ctz(head, size) == [inline |-> FALSE, head |-> head, size |-> size]
Absent == [inline |-> TRUE]

Has(s, h, flag) == flag \in s.file[h].flags
Set(s, h, flags) == [s EXCEPT !.file[h].flags = @ \cup flags]
Clear(s, h, flags) == [s EXCEPT !.file[h].flags = @ \ flags]
Errs(s, h) == Set(s, h, {"ERRED"})

-----------------------------------------------------------------------------
(* lfs_ctz_index: the block of the list, and the offset in it, that hold the *)
(* byte at pos.  Block i begins with ctz(i) + 1 pointers, of one word each.  *)

PopCount[n \in Nat] == IF n = 0 THEN 0 ELSE (n % 2) + PopCount[n \div 2]
TrailingZeros(n) == CHOOSE z \in 0..n : n % 2^z = 0 /\ n % 2^(z + 1) # 0
Log2Up(n) == CHOOSE z \in 0..n : 2^z >= n /\ \A y \in 0..(z - 1) : 2^y < n

CtzPlace(pos, i) == [i |-> i, off |-> pos - (BlockSize - 2) * i - PopCount[i]]

CtzIndex(pos) ==
  LET b == BlockSize - 2
  IN IF pos < b THEN [i |-> 0, off |-> pos]
     ELSE CtzPlace(pos, (pos - (PopCount[pos \div b - 1] + 2)) \div b)

(* lfs_ctz_find: from the last block of the list back to that of pos, always *)
(* by the farthest pointer that does not pass it.                            *)
RECURSIVE CtzWalk(_, _, _, _, _)
CtzWalk(s, r, head, current, target) ==
  LET skip == Least(Log2Up(current - target + 1) - 1, TrailingZeros(current))
      Back(t) == IF Ok(t) THEN CtzWalk(t, r, t.data[1], current - 2^skip, target) ELSE t
  IN IF current <= target THEN [Fails(s, LFS_ERR_OK) EXCEPT !.at.block = head]
     ELSE Back(BdRead(s, "none", r, 1, head, skip, 1))

CtzFind(s, r, head, size, pos) ==
  IF size = 0 THEN [Fails(s, LFS_ERR_OK) EXCEPT !.at = [block |-> LFS_BLOCK_NULL, off |-> 0]]
  ELSE LET target == CtzIndex(pos)
       IN CtzWalk([s EXCEPT !.at.off = target.off], r, head, CtzIndex(size - 1).i, target.i)

(* lfs_ctz_traverse *)
RECURSIVE CtzBack(_, _, _, _)
CtzBack(s, p, head, index) ==
  LET here == [s EXCEPT !.seen = @ \cup {head}]
      count == 2 - (index % 2)
      Back(t) == IF Ok(t) THEN CtzBack([t EXCEPT !.seen = @ \cup {t.data[1]}],
                                       p, t.data[count], index - count)
                 ELSE t
  IN IF index = 0 THEN Fails(here, LFS_ERR_OK) ELSE Back(BdRead(here, p, "r", count, head, 0, count))

CtzTraverse(s, p, head, size) ==
  IF size = 0 THEN Fails(s, LFS_ERR_OK) ELSE CtzBack(s, p, head, CtzIndex(size - 1).i)

(* lfs_fs_traverse_: the blocks of the metadata, of what is stored, and of   *)
(* what open files hold that is not stored yet.                              *)
\* Mutant: only what is dirty counts, not what is being written.
Mut_WritingTree(s, h) == Fails(s, LFS_ERR_OK)

(* lfs_file_flushedwrite has the new block before pos reaches into it: a scan *)
(* in between takes it for the last block of a shorter list ("lagging").     *)
Lags(s, h) ==
  LET f == s.file[h] IN f.pos > 0 /\ f.off # CtzIndex(f.pos - 1).off + 1

Watched(s, h) == IF Lags(s, h) THEN [s EXCEPT !.wrong = @ \cup {"lagging"}] ELSE s

WritingTree(s, h) ==
  IF Has(s, h, "WRITING") /\ ~Has(s, h, "INLINE")
  THEN CtzTraverse(Watched(s, h), h, s.file[h].block, s.file[h].pos) ELSE s

DirtyTree(s, h) ==
  IF Has(s, h, "DIRTY") /\ ~Has(s, h, "INLINE")
  THEN CtzTraverse(s, h, s.file[h].head, s.file[h].size) ELSE s

StoredTree(s, path) ==
  IF s.stored[path].inline THEN s
  ELSE CtzTraverse(s, "none", s.stored[path].head, s.stored[path].size)

Traverse(s) ==
  LET tree(path, t) == IF Ok(t) THEN StoredTree(t, path) ELSE t
      dirty(h, t) == IF Ok(t) THEN DirtyTree(t, h) ELSE t
      writing(h, t) == IF Ok(t) THEN WritingTree(t, h) ELSE t
      all == [Fails(s, LFS_ERR_OK) EXCEPT !.seen = MetadataPair]
  IN FoldSet(writing, FoldSet(dirty, FoldSet(tree, all, Path), Handle), Handle)

-----------------------------------------------------------------------------
(* lfs_alloc_ckpoint, lfs_alloc_scan and lfs_alloc.                          *)

\* Mutant: the allocator does not start to count anew.
Mut_Checkpoint(s) == s

Checkpoint(s) == [s EXCEPT !.look.ckpoint = BlockCount]

(* lfs_alloc_lookahead reduces a block modulo the count: the head of a file   *)
(* that was inline, LFS_BLOCK_INLINE, marks a block that may be free.         *)
Marked(s) == {block % BlockCount : block \in s.seen}

Windowed(s, start) ==
  [s EXCEPT !.look = [start |-> start, next |-> 0, size |-> Least(LookSize, s.look.ckpoint),
                      ckpoint |-> s.look.ckpoint, used |-> Marked(s)]]

Scan(s) == Windowed(Traverse(s), (s.look.start + s.look.next) % BlockCount)

\* The first place of the window from n on that is free, or its end.
FreeFrom(look, n) ==
  Min({look.size} \cup {o \in n..(look.size - 1) : (look.start + o) % BlockCount \notin look.used})

Advance(s, n) == [s EXCEPT !.look.next = n, !.look.ckpoint = @ - (n - s.look.next)]

Searched(s) == IF s.look.ckpoint <= 0 THEN Fails(s, LFS_ERR_NOSPC) ELSE Scan(s)

RECURSIVE Alloc(_)
Alloc(s) ==
  LET next == FreeFrom(s.look, s.look.next)
      Again(t) == IF Ok(t) THEN Alloc(t)
                  ELSE IF t.err = LFS_ERR_NOSPC THEN t
                  ELSE [t EXCEPT !.look.size = 0, !.look.ckpoint = BlockCount]
  IN IF next < s.look.size
     THEN [Fails(Advance(s, FreeFrom(s.look, next + 1)), LFS_ERR_OK)
             EXCEPT !.at = [block |-> (s.look.start + next) % BlockCount, off |-> 0]]
     ELSE Again(Searched(Advance(s, s.look.size)))

-----------------------------------------------------------------------------
(* Copying the first n words of a block into a new one, word by word.        *)
NoBlock(s) == [s EXCEPT !.at.block = LFS_BLOCK_NULL]
Sound(s) == IF Ok(s) THEN s ELSE NoBlock(s)

CopyRead(s, pin, from, i, n) ==
  IF from = LFS_BLOCK_INLINE
  THEN [s EXCEPT !.data = <<s.cache[pin].buffer[i + 1]>>, !.err = LFS_ERR_OK]
  ELSE BdRead(s, pin, "r", n - i, from, i, 1)

CopyProg(s, p, to, i) == IF Ok(s) THEN BdProg(s, p, to, i, s.data) ELSE NoBlock(s)

RECURSIVE Copy(_, _, _, _, _, _, _)
Copy(s, pin, from, p, to, i, n) ==
  LET Next(t) == IF Ok(t) THEN Copy(t, pin, from, p, to, i + 1, n) ELSE t
  IN IF i = n THEN Fails(s, LFS_ERR_OK) ELSE Next(CopyProg(CopyRead(s, pin, from, i, n), p, to, i))

(* The pointers of a block that is appended.                                 *)
PointerOf(s, head, i, skips) ==
  IF ~Ok(s) \/ i = skips - 1 THEN s ELSE Sound(BdRead(s, "none", "r", 1, head, i, 1))

RECURSIVE Pointers(_, _, _, _, _, _)
Pointers(s, p, to, head, i, skips) ==
  LET Next(t) == IF Ok(t) /\ i < skips - 1 THEN Pointers(t, p, to, t.data[1], i + 1, skips) ELSE t
  IN Next(PointerOf(BdProg(s, p, to, i, <<head>>), head, i, skips))

(* A block in which nothing can be programmed is left for another one.       *)
BadBlock(s) == s.err = LFS_ERR_CORRUPT /\ s.at.block # LFS_BLOCK_NULL

(* lfs_ctz_extend: a new last block for a list of size words.                *)
Last(size) == CtzIndex(size - 1)
Skips(size) == TrailingZeros(Last(size).i + 1) + 1
IsFull(size) == Last(size).off + 1 = BlockSize

Begun(s, p, head, size) ==
  LET new == s.at.block
      blank == PartErase(s, new)
  IN IF ~Ok(s) THEN NoBlock(s)
     ELSE IF size = 0 THEN blank
     ELSE IF IsFull(size) THEN Pointers(blank, p, new, head, 0, Skips(size))
     ELSE Copy(blank, "none", head, p, new, 0, Last(size).off + 1)

RECURSIVE CtzExtend(_, _, _, _)
CtzExtend(s, p, head, size) ==
  LET off == IF size = 0 THEN 0 ELSE IF IsFull(size) THEN Skips(size) ELSE Last(size).off + 1
      Done(t) == IF Ok(t) THEN [t EXCEPT !.at.off = off]
                 ELSE IF BadBlock(t) THEN CtzExtend(Drop(t, p), p, head, size) ELSE t
  IN Done(Begun(Alloc(s), p, head, size))

(* lfs_file_relocate: what the last block of a file has so far, moved.       *)
MovedTo(s, h) ==
  LET new == s.at.block
      from == IF Has(s, h, "INLINE") THEN LFS_BLOCK_INLINE ELSE s.file[h].block
  IN IF Ok(s) THEN Copy(PartErase(s, new), h, from, "p", new, 0, s.file[h].off) ELSE NoBlock(s)

RECURSIVE Relocate(_, _)
Relocate(s, h) ==
  LET Done(t) ==
        IF Ok(t) THEN Set([Drop(t, "p") EXCEPT !.cache[h] = t.cache["p"], !.file[h].block = t.at.block],
                          h, {"WRITING"})
        ELSE IF BadBlock(t) THEN Relocate(Drop(t, "p"), h) ELSE t
  IN Done(MovedTo(Alloc(s), h))

(* lfs_file_outline *)
Outline(s, h) ==
  LET Out(t) == IF Ok(t) THEN Clear(t, h, {"INLINE"}) ELSE t
  IN Out(Relocate(Checkpoint([s EXCEPT !.file[h].off = s.file[h].pos]), h))

-----------------------------------------------------------------------------
(* lfs_file_flushedread: up to size words from pos on.                       *)

Place(s, h) == [s EXCEPT !.file[h].block = s.at.block, !.file[h].off = s.at.off]

NextBlock(s, h) ==
  LET f == s.file[h]
      Found(t) == IF Ok(t) THEN Set(Place(t, h), h, {"READING"}) ELSE t
  IN Found(IF Has(s, h, "INLINE")
           THEN [Fails(s, LFS_ERR_OK) EXCEPT !.at = [block |-> LFS_BLOCK_INLINE, off |-> f.pos]]
           ELSE CtzFind(s, h, f.head, f.size, f.pos))

Moved(s, h, n) == [s EXCEPT !.file[h].pos = @ + n, !.file[h].off = @ + n]

ReadPlace(s, h) ==
  IF ~Has(s, h, "READING") \/ s.file[h].off = BlockSize THEN NextBlock(s, h) ELSE Fails(s, LFS_ERR_OK)

ReadWords(s, h, size) ==
  LET f == s.file[h]
      n == Least(size, BlockSize - f.off)
  IN IF ~Ok(s) THEN s
     ELSE IF Has(s, h, "INLINE") THEN [s EXCEPT !.data = SubSeq(s.cache[h].buffer, f.off + 1, f.off + n)]
     ELSE BdRead(s, "none", h, BlockSize, f.block, f.off, n)

RECURSIVE ReadBlocks(_, _, _, _)
ReadBlocks(s, h, size, got) ==
  LET Next(t) == IF Ok(t) THEN ReadBlocks(Moved(t, h, Len(t.data)), h, size - Len(t.data), got \o t.data)
                 ELSE t
  IN IF size = 0 THEN [Fails(s, LFS_ERR_OK) EXCEPT !.data = got]
     ELSE Next(ReadWords(ReadPlace(s, h), h, size))

FlushedRead(s, h, size) ==
  ReadBlocks(s, h, Most(Least(size, s.file[h].size - s.file[h].pos), 0), << >>)

(* lfs_file_flushedwrite: the block that is extended is found through the   *)
(* cache of the file, which must not keep what was read.                     *)
\* Mutant: it does.
Mut_Extended(s, h) ==
  LET f == s.file[h]
      Found(t) == IF Ok(t) THEN [t EXCEPT !.file[h].block = t.at.block] ELSE t
  IN IF Has(s, h, "WRITING") \/ f.pos = 0 THEN Fails(s, LFS_ERR_OK)
     ELSE Found(CtzFind(s, h, f.head, f.size, f.pos - 1))

Extended(s, h) ==
  LET f == s.file[h]
      Found(t) == IF Ok(t) THEN Drop([t EXCEPT !.file[h].block = t.at.block], h) ELSE t
  IN IF Has(s, h, "WRITING") \/ f.pos = 0 THEN Fails(s, LFS_ERR_OK)
     ELSE Found(CtzFind(s, h, f.head, f.size, f.pos - 1))

Appended(s, h) ==
  IF Ok(s) THEN CtzExtend(Checkpoint(s), h, s.file[h].block, s.file[h].pos) ELSE s

StartBlock(s, h) ==
  LET Started(t) == IF Ok(t) THEN Set(Place(t, h), h, {"WRITING"}) ELSE t
  IN Started(IF Has(s, h, "INLINE")
             THEN [Fails(s, LFS_ERR_OK) EXCEPT !.at = [block |-> LFS_BLOCK_INLINE, off |-> s.file[h].pos]]
             ELSE Appended(Extended(s, h), h))

\* Programs words in the block, moving what is in it when it is bad.
Rescued(s, h) == IF s.err = LFS_ERR_CORRUPT THEN [Relocate(s, h) EXCEPT !.again = TRUE] ELSE s

RECURSIVE ProgBlock(_, _, _)
ProgBlock(s, h, words) ==
  LET Next(t) == IF t.again /\ Ok(t) THEN ProgBlock(t, h, words) ELSE t
  IN Next(Rescued(BdProg([s EXCEPT !.again = FALSE], h, s.file[h].block, s.file[h].off, words), h))

WritePlace(s, h) ==
  IF ~Has(s, h, "WRITING") \/ s.file[h].off = BlockSize THEN StartBlock(s, h) ELSE Fails(s, LFS_ERR_OK)

Room(s, h, words) == Least(Len(words), BlockSize - s.file[h].off)
PutWords(s, h, words) == IF Ok(s) THEN ProgBlock(s, h, SubSeq(words, 1, Room(s, h, words))) ELSE s

RECURSIVE WriteBlocks(_, _, _)
WriteBlocks(s, h, words) ==
  LET Next(t, n) == IF Ok(t) THEN WriteBlocks(Checkpoint(Moved(t, h, n)), h, SubSeq(words, n + 1, Len(words)))
                    ELSE Errs(t, h)
      Put(t) == Next(t, Room(t, h, words))
  IN IF words = << >> THEN Fails(s, LFS_ERR_OK) ELSE Put(PutWords(WritePlace(s, h), h, words))

WriteOn(s, h, words) == IF Ok(s) THEN WriteBlocks(s, h, words) ELSE Errs(s, h)

FlushedWrite(s, h, words) ==
  LET f == s.file[h]
      fits == ~Has(s, h, "INLINE") \/ Most(f.pos + Len(words), f.size) <= InlineMax
  IN WriteOn(IF fits THEN Fails(s, LFS_ERR_OK) ELSE Outline(s, h), h, words)

-----------------------------------------------------------------------------
(* lfs_file_flush: what follows pos in the old list is copied to the new     *)
(* one, and its last block programmed.                                       *)

WriteRead(s, h) == IF Ok(s) THEN FlushedWrite(s, h, s.data) ELSE s

RECURSIVE CopyRest(_, _)
CopyRest(s, h) ==
  LET Synced(t) == IF t.cache["r"].block = LFS_BLOCK_NULL THEN t ELSE Drop(Drop(t, "orig"), "r")
      Next(t) == IF Ok(t) THEN CopyRest(Synced(t), h) ELSE t
  IN IF s.file[h].pos >= s.file[h].size THEN Fails(s, LFS_ERR_OK)
     ELSE Next(WriteRead(FlushedRead(s, "orig", 1), h))

RECURSIVE WriteOut(_, _)
WriteOut(s, h) ==
  LET Next(t) == IF t.again /\ Ok(t) THEN WriteOut(t, h) ELSE t
  IN Next(Rescued(BdFlush([s EXCEPT !.again = FALSE], h), h))

WriteLast(s, h) == IF Ok(s) THEN WriteOut(s, h) ELSE s

Orig(f) == [f EXCEPT !.flags = {"RDONLY"}, !.block = 0, !.off = 0]

Flushing(s, h) ==
  LET orig == [s EXCEPT !.file["orig"] = Orig(s.file[h]), !.cache["orig"] = s.cache["r"]]
  IN IF Has(s, h, "INLINE")
     THEN [Fails(s, LFS_ERR_OK) EXCEPT !.file[h].pos = Most(@, s.file[h].size)]
     ELSE WriteLast(CopyRest(Drop(orig, "r"), h), h)

Flush(s, h) ==
  LET read == Clear(IF Has(s, h, "READING") /\ ~Has(s, h, "INLINE") THEN Drop(s, h) ELSE s, h, {"READING"})
      Taken(t, f) == [t EXCEPT !.file[h].head = f.block, !.file[h].size = f.pos, !.file[h].pos = s.file[h].pos,
                               !.file["orig"] = Orig(s.file["orig"]), !.cache["orig"] = NoCache]
      Done(t) == IF Ok(t) THEN Set(Clear(Taken(t, t.file[h]), h, {"WRITING"}), h, {"DIRTY"}) ELSE t
  IN IF Has(s, h, "WRITING") THEN Done(Flushing(read, h)) ELSE Fails(read, LFS_ERR_OK)

(* lfs_file_size_ *)
Size(s, h) == IF Has(s, h, "WRITING") THEN Most(s.file[h].pos, s.file[h].size) ELSE s.file[h].size

(* lfs_file_sync_.  A removed path is that of a file whose pair is null.     *)
Struct(s, h) ==
  IF Has(s, h, "INLINE") THEN Inline(SubSeq(s.cache[h].buffer, 1, s.file[h].size))
  ELSE Ctz(s.file[h].head, s.file[h].size)

Sync(s, h) ==
  LET Stored(t) == IF Ok(t) THEN Clear([t EXCEPT !.stored[s.file[h].path] = Struct(t, h)], h, {"DIRTY"}) ELSE t
      Flushed(t) == IF ~Ok(t) THEN Errs(t, h)
                    ELSE IF ~Has(t, h, "DIRTY") \/ s.file[h].path \notin Path THEN t
                    ELSE Stored(IF Has(t, h, "INLINE") THEN t ELSE BdSync(t, "p"))
  IN IF Has(s, h, "ERRED") THEN Fails(s, LFS_ERR_OK) ELSE Flushed(Flush(s, h))

-----------------------------------------------------------------------------
(* lfs_file_opencfg_ and lfs_file_close_; the flags are those of lfs.h.      *)

NoFile == [path |-> "none", flags |-> {}, pos |-> 0, off |-> 0, block |-> 0, head |-> 0, size |-> 0]
Padded(content) == [i \in 1..CacheSize |-> IF i <= Len(content) THEN content[i] ELSE 0]

Open(s, h, path, flags) ==
  LET old == s.stored[path]
      new == IF old = Absent \/ "TRUNC" \in flags THEN Inline(<< >>) ELSE old
      dirty == IF old # Absent /\ "TRUNC" \in flags THEN {"DIRTY"} ELSE {}
      plain == [NoFile EXCEPT !.path = path, !.flags = flags \cup dirty]
  IN IF old = Absent /\ "CREAT" \notin flags THEN Fails(s, LFS_ERR_NOENT)
     ELSE IF new.inline
     THEN [Fails(s, LFS_ERR_OK) EXCEPT !.stored[path] = IF old = Absent THEN new ELSE old,
             !.file[h] = [plain EXCEPT !.flags = @ \cup {"INLINE"},
                            !.head = LFS_BLOCK_INLINE, !.size = Len(new.content)],
             !.cache[h] = Cache(LFS_BLOCK_INLINE, 0, Padded(new.content))]
     ELSE [Fails(s, LFS_ERR_OK) EXCEPT
             !.file[h] = [plain EXCEPT !.head = new.head, !.size = new.size],
             !.cache[h] = NoCache]

Close(s, h) == [Sync(s, h) EXCEPT !.file[h] = NoFile, !.cache[h] = NoCache]

(* lfs_file_read_ *)
ReadIf(s, h, size) == IF Ok(s) THEN FlushedRead(s, h, size) ELSE s

Read(s, h, size) ==
  LET asked == Asserts(s, Has(s, h, "RDONLY"))
  IN ReadIf(IF Has(s, h, "WRITING") THEN Flush(asked, h) ELSE Fails(asked, LFS_ERR_OK), h, size)

(* lfs_file_write_ *)
RECURSIVE ZeroTo(_, _, _)
ZeroTo(s, h, pos) ==
  LET Next(t) == IF Ok(t) THEN ZeroTo(t, h, pos) ELSE t
  IN IF s.file[h].pos >= pos THEN Fails(s, LFS_ERR_OK) ELSE Next(FlushedWrite(s, h, <<0>>))

FilledUp(s, h) ==
  LET f == s.file[h]
      placed == IF Has(s, h, "APPEND") /\ f.pos < f.size THEN [s EXCEPT !.file[h].pos = f.size] ELSE s
  IN IF Ok(s) /\ ~Has(s, h, "WRITING") /\ f.pos > f.size
     THEN ZeroTo([s EXCEPT !.file[h].pos = f.size], h, f.pos)
     ELSE IF Ok(s) THEN placed ELSE s

WriteIf(s, h, words) == IF Ok(s) THEN FlushedWrite(s, h, words) ELSE s

NotReading(s, h) == IF Has(s, h, "READING") THEN Flush(s, h) ELSE Fails(s, LFS_ERR_OK)

Write(s, h, words) ==
  LET Done(t) == IF Ok(t) THEN Clear(t, h, {"ERRED"}) ELSE t
  IN Done(WriteIf(FilledUp(NotReading(Asserts(s, Has(s, h, "WRONLY")), h), h), h, words))

(* lfs_file_seek_ to an absolute position.  A move within the cache of what  *)
(* is being read needs no flush; the block is taken to be the one of pos,    *)
(* which it is not when the last read ended with its block ("stray").        *)
InCache(s, h, pos) ==
  LET there == CtzIndex(pos)
      c == s.cache[h]
  IN /\ ~Has(s, h, "WRITING")
     /\ CtzIndex(s.file[h].pos).i = there.i
     /\ there.off >= c.off /\ there.off < c.off + Len(c.buffer)

Seek(s, h, pos) ==
  LET Flushed(t) == IF Ok(t) THEN [t EXCEPT !.file[h].pos = pos] ELSE t
  IN IF s.file[h].pos = pos THEN Fails(s, LFS_ERR_OK)
     ELSE IF InCache(s, h, pos)
     THEN [Fails(s, LFS_ERR_OK) EXCEPT !.file[h].pos = pos, !.file[h].off = CtzIndex(pos).off,
             !.wrong = IF Has(s, h, "READING") /\ s.file[h].off = BlockSize THEN @ \cup {"stray"} ELSE @]
     ELSE Flushed(Flush(s, h))

(* lfs_file_truncate_ *)
ToInline(s, h, size) ==
  LET Shrunk(t) == Set([t EXCEPT !.file[h].head = LFS_BLOCK_INLINE, !.file[h].size = size,
                               !.cache[h] = Cache(LFS_BLOCK_INLINE, 0, Padded(t.data))],
                     h, {"DIRTY", "READING", "INLINE"})
      Done(t) == IF Ok(t) THEN Shrunk(t) ELSE t
  IN Done(ReadIf(Drop(Seek(s, h, 0), "r"), h, size))

Shorten(s, h, size) ==
  LET Cut(t) == Set([t EXCEPT !.file[h].block = t.at.block, !.file[h].pos = size,
                              !.file[h].head = t.at.block, !.file[h].size = size],
                    h, {"DIRTY", "READING"})
      Found(t) == IF Ok(t) THEN Cut(t) ELSE t
      Flushed(t) == IF Ok(t) THEN Found(CtzFind(t, h, t.file[h].head, t.file[h].size, size - 1)) ELSE t
  IN Flushed(Flush(s, h))

RECURSIVE ZeroesTo(_, _, _)
ZeroesTo(s, h, size) ==
  LET Next(t) == IF Ok(t) THEN ZeroesTo(t, h, size) ELSE t
  IN IF s.file[h].pos >= size THEN Fails(s, LFS_ERR_OK) ELSE Next(Write(s, h, <<0>>))

Lengthen(s, h, size) == IF Ok(s) THEN ZeroesTo(s, h, size) ELSE s
SeekBack(s, h, pos) == IF Ok(s) THEN Seek(s, h, pos) ELSE s

Truncate(s, h, size) ==
  LET old == Size(s, h)
  IN SeekBack(IF size > old THEN Lengthen(Seek(s, h, old), h, size)
              ELSE IF size = old THEN Fails(s, LFS_ERR_OK)
              ELSE IF size <= InlineMax THEN ToInline(s, h, size) ELSE Shorten(s, h, size),
              h, s.file[h].pos)

(* lfs_remove_ of a file: open handles keep it, without a path.              *)
Remove(s, path) ==
  [Fails(s, LFS_ERR_OK) EXCEPT
     !.stored[path] = Absent,
     !.file = [h \in DOMAIN @ |-> IF @[h].path = path THEN [@[h] EXCEPT !.path = "removed"] ELSE @[h]]]

(* A power loss and lfs_mount_: the handles and the caches are gone, and the *)
(* lookahead window starts anywhere.                                         *)
Mounted(s, start) ==
  [s EXCEPT !.file = [h \in DOMAIN @ |-> NoFile], !.cache = [slot \in DOMAIN @ |-> NoCache],
            !.look = [start |-> start, next |-> 0, size |-> 0, ckpoint |-> BlockCount, used |-> {}],
            !.err = LFS_ERR_OK]
=============================================================================
