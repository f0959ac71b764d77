------------------------------- MODULE MCLfs -------------------------------
(***************************************************************************)
(* Files of littlefs on a small device: eight blocks of six words, caches  *)
(* of two, a lookahead of four, so that a file of fourteen words is a list *)
(* of blocks with pointers to more than one of them, and the second write  *)
(* fills the device.                                                       *)
(***************************************************************************)
EXTENDS LfsFiles

MCOpenings == {{"RDONLY"}, {"RDONLY", "WRONLY", "CREAT"}, {"WRONLY", "CREAT", "TRUNC"}, {"WRONLY", "APPEND"}}
MCBadWords == {{}, {<<3, 1>>}}

Spec == Init /\ [][Next]_vars

FS == INSTANCE FileStore WITH MaxSize <- 30, Written <- {[i \in 1..n |-> 10 * c + i] : n \in WriteSizes, c \in 1..MaxCalls},
        stored <- shown.stored, handle <- shown.handle

\* Whatever block, cache, seek, copy or bad word is on the way, a file reads as
\* what was written to it, a sync stores it, and after a loss of power it is
\* what the last sync has stored (lfs_file_read, _write, _seek, _truncate, _sync).
ImplementsFileStore == FS!Spec

\* No LFS_ASSERT of lfs.c fails, and no word is programmed twice without an
\* erase between (lfs_bd_read, lfs_bd_prog, lfs_bd_flush).
NoFault == lfs.wrong \cap {"assertion", "overwrite"} = {}

\* A block that holds stored content, or what an open file has written, is never
\* erased, but for one that turned out bad (lfs_alloc_scan and lfs_fs_traverse_).
NeverTouchesLive == [][lfs'.erased \cap LiveBlocks \subseteq {word[1] : word \in lfs.bad}]_vars

\* A call that runs out of space has tried every block that nothing uses
\* (lfs_alloc with its checkpoints, and the window of the lookahead).
NoSpaceIsReal ==
  [][lfs'.err = LFS_ERR_NOSPC => Cardinality(Block \ UsedBlocks) <= Cardinality(lfs'.erased)]_vars
=============================================================================
