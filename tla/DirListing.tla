----------------------------- MODULE DirListing -----------------------------
(***************************************************************************)
(* Listing a directory over RPC: the dirlist handler of                    *)
(* Lfs_Part/src/Lfs_PartRpc.c returns a page of the entries, and the loop  *)
(* of ls_table in Lfs_Part/python_api/lfs_part/__init__.py asks for page   *)
(* after page.                                                             *)
(***************************************************************************)
EXTENDS Integers, Sequences, SequencesExt

CONSTANTS
  MaxPage,  \* bound: the most entries a page may have room for
  Pages     \* bound: how many pages a directory may fill

VARIABLES
  dir,      \* the entries of the directory, in the order lfs reads them
  page,     \* the length of info_array in a reply
  idx,      \* ls_table's idx: the next start_idx
  entries,  \* the entries ls_table has got so far
  done      \* has ls_table left its loop?

vars == <<dir, page, idx, entries, done>>

Init ==
  /\ page \in 1..MaxPage
  /\ \E n \in 0..(Pages * page) : dir = [i \in 1..n |-> i]
  /\ idx = 0 /\ entries = << >> /\ done = FALSE

(* dirlist reads the whole directory, and returns the entries from start_idx *)
(* on that fit the reply, and how many entries there are.                    *)
dirlist(start) ==
  [num_entries |-> Len(dir),
   info_array  |-> SubSeq(dir, start + 1,
                          IF Len(dir) < start + page THEN Len(dir) ELSE start + page)]

(* Bound: behind the end of the directory every page is empty, and idx is    *)
(* not counted further.                                                      *)
Capped(i) == IF i < Len(dir) THEN i ELSE Len(dir)

(* Mutant: the loop goes on while there is no entry too many. *)
Mut_Fetch ==
  /\ ~done
  /\ LET results == dirlist(idx)
     IN /\ entries' = entries \o results.info_array
        /\ IF Len(entries') <= results.num_entries
           THEN idx' = Capped(idx + Len(entries')) /\ UNCHANGED done
           ELSE done' = TRUE /\ UNCHANGED idx
  /\ UNCHANGED <<dir, page>>

(* One round of ls_table's loop. *)
Fetch ==
  /\ ~done
  /\ LET results == dirlist(idx)
     IN /\ entries' = entries \o results.info_array
        /\ IF Len(entries') < results.num_entries
           THEN idx' = Capped(idx + Len(entries')) /\ UNCHANGED done
           ELSE done' = TRUE /\ UNCHANGED idx
  /\ UNCHANGED <<dir, page>>

Next == Fetch

Spec == Init /\ [][Next]_vars

(* The client asks on until it has what it wants. *)
FairSpec == Spec /\ WF_vars(Fetch)

-----------------------------------------------------------------------------
(* ls_table advances idx by all the entries it has instead of by those of    *)
(* the last reply, which is the same up to the second page.                  *)
TwoPages == Len(dir) <= 2 * page

(* What ls_table has collected is in the order of the directory without an   *)
(* entry twice, and up to two pages without a gap.                           *)
NothingSkipped ==
  /\ \A i, j \in DOMAIN entries : i < j => entries[i] < entries[j]
  /\ TwoPages => IsPrefix(entries, dir)

(* The listing of a directory of up to two pages ends, with every entry, and *)
(* it was in order on the way.                                               *)
ListingEnds == []NothingSkipped /\ (TwoPages => <>(done /\ entries = dir))

(* The same for every directory (__init__.py:115 "Adjust start_idx to fetch  *)
(* the next group of entries.").                                             *)
EveryListingEnds == <>(done /\ entries = dir)
=============================================================================
