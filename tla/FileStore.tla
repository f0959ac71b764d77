------------------------------ MODULE FileStore ------------------------------
(***************************************************************************)
(* What littlefs promises of its files.  A path has a content, which only  *)
(* a sync or a close changes, and then as a whole; a handle has a content  *)
(* of its own and a position; a power loss takes the handles and nothing   *)
(* that is stored.  A call may fail for want of space: then a write has    *)
(* written a part, the handle stores nothing until a write has succeeded,  *)
(* and its position is anywhere.  A handle may go stale when its path is   *)
(* stored by another, or removed, or when a call of its fails: then it may *)
(* read anything and stores nothing.                                       *)
(***************************************************************************)
EXTENDS Integers, Sequences

CONSTANTS Path, Handle, MaxSize,
          Written,                   \* the sequences of words that are written
          NoContent, Closed, Stale   \* of a path, of a handle

VARIABLES
  stored,   \* stored[p]: its content, or NoContent
  handle,   \* handle[h]: Closed, Stale, or what it holds
  said      \* what the last call returned: a failure, or the words it read

Failed == [failed |-> TRUE]
Said(words) == [failed |-> FALSE, words |-> words]

Opened(h) == handle[h] \notin {Closed, Stale}
Least2(a, b) == IF a < b THEN a ELSE b
Zeros(n) == [i \in 1..n |-> 0]

(* content with words put at pos, and zeros before them if it ends earlier.  *)
Put(content, pos, words) ==
  LET filled == content \o Zeros(pos - Len(content))
  IN SubSeq(filled, 1, pos) \o words \o SubSeq(filled, pos + Len(words) + 1, Len(filled))

(* content cut or filled up to size words.                                   *)
Cut(content, size) == SubSeq(content, 1, Least2(size, Len(content))) \o Zeros(size - Len(content))

(* A failed call leaves what it likes of the position and of the error flag, *)
(* or a handle that is of no more use.                                       *)
Fails(h, contents) ==
  /\ said' = Failed /\ UNCHANGED stored
  /\ \/ handle' = [handle EXCEPT ![h] = Stale]
     \/ \E content \in contents, pos \in 0..MaxSize, erred, dirty \in BOOLEAN :
          handle' = [handle EXCEPT ![h].content = content, ![h].pos = pos,
                                   ![h].erred = erred, ![h].dirty = dirty]

Init ==
  /\ stored \in [Path -> {NoContent} \cup Seq(Int)]
  /\ handle = [h \in Handle |-> Closed]
  /\ said = Said(<< >>)

Open(h, path, create, truncate, append) ==
  /\ handle[h] = Closed
  /\ IF stored[path] = NoContent /\ ~create
     THEN said' = Failed /\ UNCHANGED <<stored, handle>>
     ELSE LET new == stored[path] = NoContent
          IN /\ stored' = [stored EXCEPT ![path] = IF new THEN << >> ELSE @]
             /\ handle' = [handle EXCEPT ![h] =
                  [path |-> path, append |-> append, pos |-> 0, erred |-> FALSE,
                   content |-> IF new \/ truncate THEN << >> ELSE stored[path],
                   dirty |-> truncate /\ ~new]]
             /\ said' = Said(<< >>)

Read(h, size) ==
  /\ Opened(h)
  /\ LET f == handle[h]
         words == SubSeq(f.content, f.pos + 1, Least2(f.pos + size, Len(f.content)))
     IN \/ /\ said' = Said(words)
           /\ handle' = [handle EXCEPT ![h].pos = @ + Len(words)]
           /\ UNCHANGED stored
        \/ Fails(h, {f.content})

Write(h, words) ==
  /\ Opened(h)
  /\ LET f == handle[h]
         pos == IF f.append /\ f.pos < Len(f.content) THEN Len(f.content) ELSE f.pos
     IN \/ /\ handle' = [handle EXCEPT ![h].content = Put(@, pos, words), ![h].dirty = TRUE,
                                       ![h].erred = FALSE, ![h].pos = pos + Len(words)]
           /\ said' = Said(<< >>) /\ UNCHANGED stored
        \/ Fails(h, {f.content} \cup {Cut(f.content, n) : n \in Len(f.content)..pos}
                      \cup {Put(f.content, pos, SubSeq(words, 1, n)) : n \in 0..Len(words)})

Seek(h, pos) ==
  /\ Opened(h)
  /\ \/ /\ handle' = [handle EXCEPT ![h].pos = pos]
        /\ said' = Said(<< >>) /\ UNCHANGED stored
     \/ Fails(h, {handle[h].content})

Truncate(h, size) ==
  /\ Opened(h)
  /\ LET f == handle[h]
     IN \/ /\ handle' = [handle EXCEPT ![h].content = Cut(@, size),
                                       ![h].dirty = @ \/ size # Len(f.content),
                                       ![h].erred = @ /\ size <= Len(f.content)]
           /\ said' = Said(<< >>) /\ UNCHANGED stored
        \/ Fails(h, {Cut(f.content, n) : n \in {size} \cup Len(f.content)..size})

(* What is to be stored becomes the content of the path; other handles of    *)
(* the path may go stale.                                                    *)
MayGoStale(path, others) ==
  {[k \in Handle |-> IF k \in gone THEN Stale ELSE handle[k]] :
     gone \in SUBSET {k \in others : Opened(k) /\ handle[k].path = path}}

Stores(h) == handle[h].dirty /\ ~handle[h].erred /\ handle[h].path \in Path

StoredBy(h, after) ==
  /\ said' = Said(<< >>)
  /\ IF Stores(h)
     THEN /\ stored' = [stored EXCEPT ![handle[h].path] = handle[h].content]
          /\ \E then \in MayGoStale(handle[h].path, Handle \ {h}) : handle' = [then EXCEPT ![h] = after]
     ELSE stored' = stored /\ handle' = [handle EXCEPT ![h] = after]

Sync(h) ==
  /\ Opened(h)
  /\ \/ StoredBy(h, [handle[h] EXCEPT !.dirty = @ /\ ~Stores(h)])
     \/ Fails(h, {handle[h].content})

Close(h) ==
  \/ /\ Opened(h)
     /\ \/ StoredBy(h, Closed)
        \/ said' = Failed /\ UNCHANGED stored /\ handle' = [handle EXCEPT ![h] = Closed]
  \/ handle[h] = Stale /\ handle' = [handle EXCEPT ![h] = Closed] /\ UNCHANGED stored

(* A removed file lives on in the handles that do not go stale.              *)
Remove(path) ==
  /\ stored' = [stored EXCEPT ![path] = NoContent]
  /\ \E then \in MayGoStale(path, Handle) :
       handle' = [h \in Handle |->
                    IF then[h] \notin {Closed, Stale} /\ then[h].path = path
                    THEN [then[h] EXCEPT !.path = "removed"] ELSE then[h]]
  /\ said' = Said(<< >>)

StaleUse(h) == handle[h] = Stale /\ UNCHANGED <<stored, handle>>

PowerLoss ==
  /\ handle' = [h \in Handle |-> Closed]
  /\ said' = Said(<< >>) /\ UNCHANGED stored

Next ==
  \/ \E h \in Handle :
       \/ \E path \in Path, create, truncate, append \in BOOLEAN : Open(h, path, create, truncate, append)
       \/ \E n \in 0..MaxSize : Read(h, n) \/ Seek(h, n) \/ Truncate(h, n)
       \/ \E words \in Written : Write(h, words)
       \/ Sync(h) \/ Close(h) \/ StaleUse(h)
  \/ \E path \in Path : Remove(path)
  \/ PowerLoss

vars == <<stored, handle, said>>
Spec == Init /\ [][Next]_vars
=============================================================================
