------------------------------- MODULE LfsBd -------------------------------
(***************************************************************************)
(* The caching block device of littlefs/src/lfs.c (lfs_bd_read and its     *)
(* companions) over the flash partition of Lfs_Part/src/Lfs_Part.c.  What  *)
(* lfs_t holds is a record s, which every operator takes and returns:      *)
(*   dev, bad      the words of the partition; those that do not program   *)
(*   cache         cache["r"] is rcache, cache["p"] pcache, cache["none"]  *)
(*                 stands for NULL, and the others are those of files      *)
(*   err, data     what the last function returned                         *)
(*   erased, wrong history: the blocks erased by this call; what went      *)
(*                 wrong that an assertion or a flash chip would not allow *)
(* A block is BlockSize words, each a datum or the number of a block, and  *)
(* read, programmed and addressed singly.  The partition reports no error: *)
(* the LFS_ERR_IO that part_read, part_write and part_erase return when    *)
(* the flash driver fails is left out, with all that littlefs does then.   *)
(* A word that does not program shows only when it is read back.           *)
(***************************************************************************)
EXTENDS Integers, Sequences, FiniteSets

CONSTANTS BlockCount, BlockSize, CacheSize, ReadSize

ASSUME GeometryAssumption ==
  /\ {BlockCount, BlockSize, CacheSize, ReadSize} \subseteq Nat \ {0}
  /\ BlockSize % CacheSize = 0 /\ CacheSize % ReadSize = 0

Block == 0..(BlockCount - 1)
Offset == 0..(BlockSize - 1)
Erased == -1
Garbage == -2

LFS_BLOCK_NULL == -1
LFS_BLOCK_INLINE == -2
LFS_ERR_OK == 0
LFS_ERR_NOENT == -2
LFS_ERR_NOSPC == -28
LFS_ERR_CORRUPT == -84

Least(a, b) == IF a < b THEN a ELSE b
Most(a, b) == IF a > b THEN a ELSE b

Ok(s) == s.err = LFS_ERR_OK
Fails(s, err) == [s EXCEPT !.err = err]
Asserts(s, holds) == IF holds THEN s ELSE [s EXCEPT !.wrong = @ \cup {"assertion"}]

(* lfs_cache_t; its size is the length of buffer. *)
Cache(block, off, buffer) == [block |-> block, off |-> off, buffer |-> buffer]
NoCache == Cache(LFS_BLOCK_NULL, 0, << >>)
Drop(s, slot) == [s EXCEPT !.cache[slot].block = LFS_BLOCK_NULL]

(* part_read, part_erase, and part_write, as they succeed: a word that is    *)
(* bad, or is not erased, does not become what was written.                  *)
PartRead(s, block, off, size) == [i \in 1..size |-> s.dev[block][off + i - 1]]

PartErase(s, block) ==
  [s EXCEPT !.dev[block] = [o \in Offset |-> Erased], !.erased = @ \cup {block}, !.err = LFS_ERR_OK]

PartWrite(s, block, off, words) ==
  LET At(o) == o >= off /\ o < off + Len(words)
      old == s.dev[block]
  IN [s EXCEPT !.dev[block] = [o \in Offset |-> IF ~At(o) THEN old[o]
                                               ELSE IF <<block, o>> \in s.bad \/ old[o] # Erased
                                               THEN Garbage ELSE words[o - off + 1]],
               !.wrong = IF (\E o \in Offset : At(o) /\ old[o] # Erased) /\ \A word \in s.bad : word[1] # block
                         THEN @ \cup {"overwrite"} ELSE @]

-----------------------------------------------------------------------------
(* lfs_bd_read through the caches p, programmed, and r: what p holds, then    *)
(* what r holds, then the device, past r when as much is wanted as the hint   *)
(* says will be, and else by filling r anew.  A program cache of the code     *)
(* begins at a unit of reading, as Lfs_Part.h has one size for both units, so *)
(* of the words before it never less than a unit is read; here nothing is     *)
(* ready in that case and r is filled.                                        *)

Ahead(c, block, off) == block = c.block /\ off < c.off + Len(c.buffer)
Holds(c, block, off) == Ahead(c, block, off) /\ off >= c.off

\* The words of size that come before those of a cache.
Before(c, block, off, size) ==
  IF Ahead(c, block, off) THEN Least(size, c.off - off) ELSE size

Held(c, off, size) == SubSeq(c.buffer, off - c.off + 1, Least(off - c.off + size, Len(c.buffer)))

Aligned(n) == n - (n % ReadSize)

Loaded(s, r, hint, block, off) ==
  LET first == Aligned(off)
      last == Least(Aligned(off + hint + ReadSize - 1), BlockSize)
  IN [s EXCEPT !.cache[r] = Cache(block, first, PartRead(s, block, first, Least(last - first, CacheSize)))]

\* The words that come next without r being filled, or none.
Ready(s, p, r, hint, block, off, size) ==
  LET pc == s.cache[p]
      rc == s.cache[r]
      first == Before(pc, block, off, size)
  IN IF Holds(pc, block, off) THEN Held(pc, off, size)
     ELSE IF Holds(rc, block, off) THEN Held(rc, off, first)
     ELSE IF size >= hint /\ Aligned(off) = off /\ size >= ReadSize
     THEN PartRead(s, block, off, Aligned(Before(rc, block, off, first)))
     ELSE << >>

\* One turn of the loop: the words that are ready are copied, or r is filled.
ReadMore(s, p, r, hint, block, off, size) ==
  LET at == off + Len(s.data)
      words == Ready(s, p, r, hint, block, at, size - Len(s.data))
  IN IF words = << >> THEN Loaded(s, r, hint, block, at) ELSE [s EXCEPT !.data = @ \o words]

\* ReadLoop(...)[k]: the state after k turns, of which each second one copies.
ReadLoop(s, p, r, hint, block, off, size) ==
  LET Loop[k \in 0..(2 * size)] ==
        IF k = 0 THEN s
        ELSE LET t == Loop[k - 1]
             IN IF Len(t.data) = size THEN t ELSE ReadMore(t, p, r, hint, block, off, size)
  IN Loop

BdRead(s, p, r, hint, block, off, size) ==
  IF off + size > BlockSize \/ block \notin Block THEN Fails(s, LFS_ERR_CORRUPT)
  ELSE ReadLoop([s EXCEPT !.data = << >>, !.err = LFS_ERR_OK], p, r, hint, block, off, size)[2 * size]

-----------------------------------------------------------------------------
(* lfs_bd_flush programs the cache p and compares what the device then       *)
(* holds, by lfs_bd_cmp through r.                                           *)

\* Mutant: what was programmed is not compared.
Mut_BdFlush(s, p) ==
  LET c == s.cache[p]
  IN IF c.block \in {LFS_BLOCK_NULL, LFS_BLOCK_INLINE} THEN Fails(s, LFS_ERR_OK)
     ELSE Fails(Drop(Drop(PartWrite(s, c.block, c.off, c.buffer), "r"), p), LFS_ERR_OK)

BdFlush(s, p) ==
  LET c == s.cache[p]
      Compared(t) == IF t.data # c.buffer THEN Fails(t, LFS_ERR_CORRUPT) ELSE Drop(t, p)
  IN IF c.block \in {LFS_BLOCK_NULL, LFS_BLOCK_INLINE} THEN Fails(s, LFS_ERR_OK)
     ELSE Compared(BdRead(Drop(PartWrite(s, c.block, c.off, c.buffer), "r"), "none", "r",
                          Len(c.buffer), c.block, c.off, Len(c.buffer)))

BdSync(s, p) == BdFlush(Drop(s, "r"), p)

(* lfs_bd_prog: the words go to the cache p, which is flushed when it is     *)
(* full, and must have been flushed before it serves another place.          *)
Placed(c, off, words) ==
  [c EXCEPT !.buffer = [i \in 1..Most(Len(@), off - c.off + Len(words)) |->
                          IF i > off - c.off /\ i <= off - c.off + Len(words)
                          THEN words[i - (off - c.off)] ELSE @[i]]]

Kept(s, p) == IF Len(s.cache[p].buffer) = CacheSize THEN BdFlush(s, p) ELSE s

\* One turn of the loop, when x.n words have been placed: those that fit, or a
\* new place for the cache.
ProgMore(x, p, block, off, words) ==
  LET s == x.s
      c == s.cache[p]
      at == off + x.n
      n == Least(Len(words) - x.n, CacheSize - (at - c.off))
  IN IF block = c.block /\ at >= c.off /\ at < c.off + CacheSize
     THEN [s |-> Kept([s EXCEPT !.cache[p] = Placed(c, at, SubSeq(words, x.n + 1, x.n + n))], p),
           n |-> x.n + n]
     ELSE [s |-> [Asserts(s, c.block = LFS_BLOCK_NULL) EXCEPT !.cache[p] = Cache(block, at, << >>)],
           n |-> x.n]

ProgLoop(s, p, block, off, words) ==
  LET Loop[k \in 0..(2 * Len(words))] ==
        IF k = 0 THEN [s |-> Fails(s, LFS_ERR_OK), n |-> 0]
        ELSE LET x == Loop[k - 1]
             IN IF x.n = Len(words) \/ ~Ok(x.s) THEN x ELSE ProgMore(x, p, block, off, words)
  IN Loop

BdProg(s, p, block, off, words) == ProgLoop(s, p, block, off, words)[2 * Len(words)].s
=============================================================================
