---------------------------- MODULE MCDirListing ----------------------------
(***************************************************************************)
(* Every directory of up to Pages full pages, for every length of a page.  *)
(***************************************************************************)
EXTENDS DirListing
=============================================================================
