------------------------------- MODULE LfsDir -------------------------------
(***************************************************************************)
(* The metadata pairs of littlefs/src/lfs.c as they are read: the log of a *)
(* block, what a fetch makes of it, the list of all pairs, and the global  *)
(* state that is spread over them.                                         *)
(*   disk   disk[b] is a block: its revision, its log, and whether what    *)
(*          follows the log is erased                                      *)
(*   lfs    lfs_t: root, gstate, gdisk, gdelta and look(ahead)             *)
(* A tag takes one place of a block, whatever its size, and so does the    *)
(* checksum that ends a commit; a log holds whole commits only, for tags   *)
(* without a checksum are never read.  Files are inline.                   *)
(***************************************************************************)
EXTENDS Integers, Sequences, FiniteSets

CONSTANTS BlockCount, LogSize,
          Modulus        \* (block_cycles + 1) | 1

ASSUME PairAssumption ==
  BlockCount \in Nat \ 0..3 /\ LogSize \in Nat \ 0..5 /\ Modulus \in Nat \ 0..2 /\ Modulus % 2 = 1

VARIABLES disk, lfs

Block == 0..(BlockCount - 1)
NoId == 1023
Null == <<-1, -1>>
Anchor == <<0, 1>>

LFS_ERR_OK == 0
LFS_ERR_NOENT == -2
LFS_ERR_EXIST == -17
LFS_ERR_NOTDIR == -20
LFS_ERR_ISDIR == -21
LFS_ERR_INVAL == -22
LFS_ERR_NOSPC == -28
LFS_ERR_NAMETOOLONG == -36
LFS_ERR_NOTEMPTY == -39
LFS_ERR_CORRUPT == -84

Lesser(a, b) == IF a < b THEN a ELSE b
Greater(a, b) == IF a > b THEN a ELSE b
First(at) == CHOOSE n \in at : \A k \in at : n <= k

(* lfs_pair_cmp is 0, and lfs_pair_issync.                                   *)
Shares(p, q) == {p[1], p[2]} \cap {q[1], q[2]} # {}
InSync(p, q) == p \in {q, <<q[2], q[1]>>}
Swapped(p) == <<p[2], p[1]>>

-----------------------------------------------------------------------------
(* Tags.                                                                     *)

Tag(type, id, val) == [type |-> type, id |-> id, val |-> val]
Create(id) == Tag("create", id, 0)
Delete(id) == Tag("delete", id, 0)
TailTag(split, pair) == Tag(IF split THEN "hardtail" ELSE "softtail", NoId, pair)
Crc == Tag("crc", NoId, 0)
NoTag == Tag("none", NoId, 0)

Names == {"reg", "dir"}
Structs == {"dirstruct", "inline"}

(* lfs_tag_type1 and lfs_tag_splice.                                         *)
Type1(type) ==
  CASE type \in {"super", "reg", "dir"} -> "name"
    [] type \in Structs -> "struct"
    [] type \in {"create", "delete"} -> "splice"
    [] type \in {"softtail", "hardtail"} -> "tail"
    [] OTHER -> type

Splice(t) == IF t.type = "create" THEN 1 ELSE -1
Splices(t, id) == Type1(t.type) = "splice" /\ t.id <= id

Unwritten == [rev |-> -1, log |-> << >>, clean |-> TRUE]

(* lfs_mdir_t.                                                               *)
NoDir == [pair |-> Null, rev |-> 0, off |-> 0, count |-> 0, tail |-> Null,
          split |-> FALSE, erased |-> FALSE]

LogOf(dir) == LET log == disk[dir.pair[1]].log IN SubSeq(log, 1, Lesser(dir.off, Len(log)))

-----------------------------------------------------------------------------
(* lfs_gstate_t: the count of orphans, of which the disk has one bit, and a  *)
(* move.  What is written is the exclusive or of what was and of what is,    *)
(* here of sets.                                                             *)

NoMove == [id |-> NoId, pair |-> <<0, 0>>]
NoState == [orphans |-> 0, move |-> NoMove]

HasOrphans(g) == g.orphans > 0
HasMove(g) == g.move.id # NoId
MoveHere(g, pair) == HasMove(g) /\ Shares(g.move.pair, pair)

Written(g) ==
  (IF HasOrphans(g) THEN {<<"orphans">>} ELSE {})
  \cup (IF HasMove(g) THEN {<<"move", g.move.id, g.move.pair>>} ELSE {})

Xor(a, b) == (a \ b) \cup (b \ a)

\* What lfs_mount_ makes of it: the bit of the orphans counts as one of them.
StateOf(set) ==
  [orphans |-> IF <<"orphans">> \in set THEN 1 ELSE 0,
   move |-> IF \E x \in set : x[1] = "move"
            THEN LET x == CHOOSE x \in set : x[1] = "move" IN [id |-> x[2], pair |-> x[3]]
            ELSE NoMove]

-----------------------------------------------------------------------------
(* lfs_dir_getslice under a global state g: from the end of the log back to  *)
(* a tag of the types wanted, with the id it had when it was written.  An    *)
(* entry that is being moved away is not there, those after it one lower.    *)

RECURSIVE Search(_, _, _, _)
Search(log, n, types, id) ==
  LET t == log[n]
      before == IF Splices(t, id) THEN id - Splice(t) ELSE id
  IN IF n = 0 \/ (t.type = "create" /\ t.id = id) THEN NoTag
     ELSE IF t.type \in types /\ t.id = before THEN t
     ELSE Search(log, n - 1, types, before)

\* The id that an entry has without the move; none for the entry that moves.
Unmoved(g, pair, id) == IF MoveHere(g, pair) /\ g.move.id < id THEN id + 1 ELSE id

Get(g, dir, types, id) ==
  LET log == LogOf(dir)
  IN IF MoveHere(g, dir.pair) /\ g.move.id = id THEN NoTag
     ELSE Search(log, Len(log), types, Unmoved(g, dir.pair, id))

(* lfs_dir_getgstate, without the exclusive or.                              *)
StateIn(dir) ==
  LET log == LogOf(dir)
      at == {n \in 1..Len(log) : log[n].type = "gstate"}
  IN IF at = {} THEN {} ELSE log[CHOOSE n \in at : \A k \in at : k <= n].val

-----------------------------------------------------------------------------
(* lfs_dir_fetchmatch: the block with the newer revision that has a commit,  *)
(* what its tags add up to, and the tag that matches a target: a name, a     *)
(* child of a directory, the superblock, or nothing.  If no name matches,    *)
(* the id is where it belongs.                                               *)

Nothing == [kind |-> "nothing"]
Named(name) == [kind |-> "name", name |-> name]
Child(pair) == [kind |-> "child", pair |-> pair]
Superblock == [kind |-> "super"]

(* lfs_dir_find_match and lfs_fs_parent_match.                               *)
Compared(target, t) ==
  CASE target.kind = "name" /\ t.type \in Names ->
         IF t.val = target.name THEN "equal" ELSE IF t.val > target.name THEN "greater" ELSE "less"
    [] target.kind = "child" /\ t.type = "dirstruct" ->
         IF Shares(t.val, target.pair) THEN "equal" ELSE "less"
    [] target.kind = "super" /\ t.type = "super" -> "equal"
    [] OTHER -> "none"

NoBest == [valid |-> FALSE, id |-> NoId, type |-> "none"]

Spliced(t, best) ==
  IF best.id = NoId \/ Type1(t.type) # "splice" THEN best
  ELSE IF t.type = "delete" /\ t.id = best.id THEN [best EXCEPT !.valid = FALSE]
  ELSE IF t.id <= best.id THEN [best EXCEPT !.id = @ + Splice(t)] ELSE best

Better(t, best, compared) ==
  CASE compared = "equal" -> [valid |-> TRUE, id |-> t.id, type |-> t.type]
    [] compared \in {"less", "greater"} /\ t.type = best.type /\ t.id = best.id -> NoBest
    [] compared = "greater" /\ t.id <= best.id -> [valid |-> FALSE, id |-> t.id, type |-> t.type]
    [] OTHER -> best

NoSum == [count |-> 0, tail |-> Null, split |-> FALSE, best |-> NoBest]

Plus(sum, t, target) ==
  [count |-> CASE Type1(t.type) = "name" -> Greater(sum.count, t.id + 1)
               [] Type1(t.type) = "splice" -> sum.count + Splice(t)
               [] OTHER -> sum.count,
   tail |-> IF Type1(t.type) = "tail" THEN t.val ELSE sum.tail,
   split |-> IF Type1(t.type) = "tail" THEN t.type = "hardtail" ELSE sum.split,
   best |-> Better(t, Spliced(t, sum.best), Compared(target, t))]

RECURSIVE Sum(_, _, _)
Sum(log, n, target) == IF n = 0 THEN NoSum ELSE Plus(Sum(log, n - 1, target), log[n], target)

Newest(pair) ==
  LET newer == IF disk[pair[2]].rev > disk[pair[1]].rev THEN Swapped(pair) ELSE pair
  IN IF disk[newer[1]].log = << >> THEN Swapped(newer) ELSE newer

\* The best tag as it is once a move that is pending has been made.
Moved(g, pair, best) ==
  IF ~MoveHere(g, pair) \/ best.id = NoId THEN best
  ELSE IF g.move.id = best.id THEN [best EXCEPT !.valid = FALSE]
  ELSE IF g.move.id < best.id THEN [best EXCEPT !.id = @ - 1] ELSE best

Matched(pair, sum, best) ==
  [err |-> IF ~best.valid /\ best.id < sum.count THEN LFS_ERR_NOENT ELSE LFS_ERR_OK,
   found |-> best.valid, id |-> Lesser(best.id, sum.count), type |-> best.type,
   dir |-> [pair |-> pair, rev |-> disk[pair[1]].rev, off |-> Len(disk[pair[1]].log),
            count |-> sum.count, tail |-> sum.tail, split |-> sum.split,
            erased |-> disk[pair[1]].clean /\ Len(disk[pair[1]].log) < LogSize]]

SumOf(pair, target) == LET log == disk[pair[1]].log IN Sum(log, Len(log), target)

FetchedFrom(g, pair, sum) == Matched(pair, sum, Moved(g, pair, sum.best))

Corrupt(pair) == ~({pair[1], pair[2]} \subseteq Block) \/ \A i \in {1, 2} : disk[pair[i]].log = << >>

FetchMatch(g, pair, target) ==
  IF Corrupt(pair)
  THEN [err |-> LFS_ERR_CORRUPT, found |-> FALSE, id |-> NoId, type |-> "none", dir |-> NoDir]
  ELSE FetchedFrom(g, Newest(pair), SumOf(Newest(pair), target))

(* lfs_dir_fetch.                                                            *)
Fetch(pair) == FetchMatch(NoState, pair, Nothing).dir

-----------------------------------------------------------------------------
(* The list of all pairs, along their tails; a cycle ends it.                *)

RECURSIVE ChainFrom(_, _), ChainAfter(_, _)
ChainFrom(pair, n) == IF pair = Null \/ n = 0 THEN << >> ELSE ChainAfter(Fetch(pair), n)
ChainAfter(dir, n) == <<dir>> \o ChainFrom(dir.tail, n - 1)

Chain == ChainFrom(Anchor, BlockCount)

(* lfs_fs_pred and lfs_fs_parent: found, and where.                          *)
PredIn(chain, pair) ==
  LET at == {n \in 1..Len(chain) : chain[n].tail # Null /\ Shares(chain[n].tail, pair)}
  IN [found |-> at # {}, dir |-> IF at = {} THEN NoDir ELSE chain[First(at)]]

Pred(pair) ==
  IF Shares(Anchor, pair) THEN [found |-> TRUE, dir |-> [NoDir EXCEPT !.tail = Anchor]]
  ELSE PredIn(Chain, pair)

NoMatch == [err |-> LFS_ERR_NOENT, found |-> FALSE, id |-> NoId, type |-> "none", dir |-> NoDir]

RECURSIVE ParentFrom(_, _, _), ParentAt(_, _, _)
ParentFrom(from, pair, n) ==
  IF from = Null \/ n = 0 THEN NoMatch
  ELSE ParentAt(FetchMatch(lfs.gdisk, from, Child(pair)), pair, n)
ParentAt(match, pair, n) == IF match.found THEN match ELSE ParentFrom(match.dir.tail, pair, n - 1)

Parent(pair) == ParentFrom(Anchor, pair, BlockCount)

(* lfs_fs_traverse_ with includeorphans: the blocks of the list, and those   *)
(* of directories that have lost their place in it, or have none yet.        *)
PairOf(t) == IF t.type = "dirstruct" THEN {t.val} ELSE {}
PairsIn(dir) == UNION {PairOf(Get(lfs.gdisk, dir, Structs, id)) : id \in 0..(dir.count - 1)}

UsedBy(chain) ==
  UNION {{p[1], p[2]} : p \in {Anchor} \cup UNION {{chain[n].tail} \cup PairsIn(chain[n]) : n \in 1..Len(chain)}}

Traverse == UsedBy(Chain)

-----------------------------------------------------------------------------
(* lfs_alloc, with a lookahead buffer for all blocks, so that one scan sees  *)
(* all that the checkpoint allows: see LfsFile.                              *)

\* lfs_alloc_drop.
Dropped(start) == [start |-> start, next |-> 0, size |-> 0, ckpoint |-> BlockCount, used |-> {}]

Checkpoint(look) == [look EXCEPT !.ckpoint = BlockCount]

Ahead(look, n) ==
  First({look.size} \cup {o \in n..(look.size - 1) : (look.start + o) % BlockCount \notin look.used})

Advance(look, n) == [look EXCEPT !.next = n, !.ckpoint = @ - (n - look.next)]

(* lfs_alloc_scan.                                                           *)
Scan(look) ==
  [start |-> (look.start + look.next) % BlockCount, next |-> 0, size |-> Lesser(BlockCount, look.ckpoint),
   ckpoint |-> look.ckpoint, used |-> Traverse]

Take(look) ==
  LET next == Ahead(look, look.next)
  IN IF next < look.size
     THEN [err |-> LFS_ERR_OK, block |-> (look.start + next) % BlockCount,
           look |-> Advance(look, Ahead(look, next + 1))]
     ELSE [err |-> LFS_ERR_NOSPC, block |-> -1, look |-> Advance(look, look.size)]

TakeOrScan(took) ==
  IF took.err = LFS_ERR_OK \/ took.look.ckpoint <= 0 THEN took ELSE Take(Scan(took.look))

Alloc(look) == TakeOrScan(Take(look))

AlignedUp(n) == n + Modulus - 1 - ((n + Modulus - 1) % Modulus)
=============================================================================
