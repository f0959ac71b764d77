----------------------------- MODULE MCLfsTree -----------------------------
(***************************************************************************)
(* Scripts of calls on small trees.  Blocks hold eight tags and a pair is  *)
(* worn out after every third revision, so that two or three calls compact,*)
(* split or relocate pairs and expand the superblock.                      *)
(***************************************************************************)
EXTENDS LfsTree

\* The calls of a script.
op(name, path) == [name |-> name, path |-> path]
mk(p) == op("mkdir", p)
rm(p) == op("remove", p)
cr(p) == op("open", p)
mv(p, q) == [name |-> "rename", path |-> p, to |-> q]
sync == [name |-> "sync"]
repair == [name |-> "repair"]
stat(p) == op("stat", p)
ls(p) == op("opendir", p)
rewind == [name |-> "rewind"]
seek == [name |-> "seek"]
close == [name |-> "close"]

MCSlot == {"tmp", "f", "d"}
MCFileSlot == {"f"}
MCDirSlot == {"d"}
\* Small trees, of everything.
All ==
  {mk(<<1>>), mk(<<2>>), mk(<<1, 1>>), rm(<<1>>), rm(<<1, 1>>), mv(<<1>>, <<2>>), mv(<<2>>, <<1, 1>>),
   cr(<<1>>), cr(<<1, 1>>), sync}

\* A directory of two pairs.
Filled == <<{mk(<<1>>)}, {mk(<<1, 1>>)}, {cr(<<1, 2>>)}, {mk(<<1, 3>>)}>>
More ==
  {rm(<<1, 1>>), rm(<<1, 2>>), rm(<<1, 3>>), mv(<<1, 1>>, <<2>>), mk(<<1, 0>>), cr(<<1, 4>>)}
Once == {rm(<<1, 1>>), rm(<<1, 2>>), rm(<<2>>), mk(<<1, 0>>), stat(<<1, 2>>), stat(<<1, -2, 2>>)}

\* A directory that is read while it changes.
Listing == <<{mk(<<1>>)}, {cr(<<1, 1>>)}, {mk(<<1, 2>>)}, {ls(<<1>>)}>>
Changes == {rm(<<1, 1>>), rm(<<1, 2>>), mk(<<1, 3>>), mv(<<1, 1>>, <<1, 3>>), rewind, seek}
Again == {rm(<<1, 2>>), mk(<<1, 3>>), rewind, seek, close, sync, repair}

\* One that fails for lack of space, and another call after it.
MCFullScripts == {Filled \o <<{mv(<<1, 1>>, <<2>>)}, {rm(<<1, 2>>)}>>}

MCScripts == {<<All, All, All, All>>, Filled \o <<More, Once>>, Listing \o <<Changes, Again>>}
MCStarts == {2}
=============================================================================
