# Verification of esp32_components

TLA+ models of the components in this repository, the TLC configurations that
check them, and theorems about them checked by TLAPS. The repository is a
collection of C components for the ESP32 (FreeRTOS, lwIP), littlefs with a
partition driver, and the Python clients that talk to them over RPC. Its core
is one chain:

    Python client -- TCP / UDP -- server task -- Cobs deframer (on a SwFifo)
                                     |
                                     +-- ProtoRpc dispatch -- handlers
                                            |        |           |
                                        Lfs_PartRpc  lua_thread  ...
                                            |
                                         littlefs -- Lfs_Part (flash)

A client serializes a call with protobuf, frames it with COBS and sends it; the
server task reads bytes, the deframer finds a message in them, ProtoRpc decodes
it, looks up a handler and runs it, and the reply goes back the same way. Beside
this chain stand the LED strip, the Wi-Fi connection and the timers.

## 1. Inventory

For each component: its state, its operations, what is hard about it, and what
makes it correct. `PROJECT.json` says which module models it, and how much of it.

| Component | State | Operations | Hard behaviour | Correct when |
|---|---|---|---|---|
| `SwFifo` | memory of `depth+1` cells, write and read index, mutex | init, write, peek, ack, read, flush, getCount, getAvail, fini | peek counts before it locks; read is a peek and an ack with the mutex free in between; an index is stored twice per increment | it is a bounded queue for any number of writers and one reader; what a caller was told of space or count stays true until it acts; every call returns |
| `Cobs` | none | encode, decode | blocks of maximal length, ends of buffers | decode inverts encode; only encodings decode; no framing byte inside |
| `Cobs_frame` | state, work buffer, fifo, count | framer, deframer, deframer_init | frames in pieces, overflow in the middle of one, several in one piece | what is delivered was sent, in order; nothing that fits is lost |
| `ProtoRpc`, `PbGeneric` | call frame, reply frame, resolver table | server; pack, unpack | the reply frame is never cleared; two server tasks may share it | a reply tells of the call it answers |
| `TcpServer`, `TcpSocket`, `TcpRpcServer` | one connection, deframer, buffers shared by all connections in turn | listen, accept, read, callback, close | the peer ends its side in every possible place; what a connection leaves for the next | all that was asked is answered before the close, to its sender; the server comes back to accept |
| `UdpServer`, `UdpRpcServer`, `UdpSocket` | receive and reply buffers | init, read, callback | lost, repeated and late datagrams | a handler runs once per datagram; a reply answers the datagram before it |
| `TcpEcho`, `UdpEcho` | a byte count | callback | — | what comes is sent back |
| `Lfs_PartRpc` | cache of open descriptors | 13 handlers | fds that outlive their file, closes that fail, an empty pool | an fd means the same object until it is closed; pool and cache agree; littlefs's assertions hold |
| littlefs helpers | descriptor pool | pool_init, get, put; read_full, write_full | early returns with a file open | no descriptor is lost or given out twice |
| Python client of `Lfs_Part` | entries so far, chunk offset | ls_table, get_file, put_file | paging over several calls | every entry, and an end |
| `Lfs_Part` | one mutex per partition | read, prog, erase, lock, unlock | — | a call of littlefs is not interleaved with another |
| littlefs: device, caches, allocator, files | caches, lookahead window, list of open files with position, block, cache and flags | open, read, write, seek, truncate, sync, close, remove | blocks shared between old and new versions of a file; a scan for free blocks in the middle of a write; bad blocks; a full device; power loss | a file reads as what was written; what is stored is what the last sync stored; blocks in use are never erased |
| littlefs: metadata | metadata pairs (two-block logs), a list of all pairs, global state spread over them, open handles | mkdir, remove, rename, open, sync, stat, directory read, seek, rewind, mount, format | one call is many commits, each of which may compact, split, relocate or drop pairs and change parents and predecessors; power loss anywhere | a call changes the tree at once or not at all |
| `CList` | intrusive ring of links | append, remove, iterate | a task that iterates while another appends | the ring is a list |
| `WS2812Led` | strip, list of segments, a mode per segment, static counters of effects | addSegment, fills, effects, off | three kinds of task without a lock | the last call stands; the list stays a list |
| encoder of `WS2812Led` | state, symbols written | new, encode, reset, del | called in pieces of any size | the pixels, then one reset code |
| `lua_thread` | queue of 2 scripts, a task | runScript, main loop | a full queue; failures between open and close of a file | an accepted script is run, or passed over, once and in order; nothing of it stays open |
| `WifiConnect` | event group, retry count | init, event handler | flags of an earlier outcome, retries | what init reports is what happened |
| `SwTimer`, timers of Lua | times | tic, toc, setUs, test | 32-bit captures of 64-bit times | differences are right |
| `Lfs_Api`, `TestRpc`, `RtosUtilsRpc`, `Random`, `LogPrint`, `CheckCond`, `RtosUtils`, generated code, command lines | none or one object | pass on | — | — |

Interactions. `Cobs_deframer` calls `SwFifo` from one task and relies on its
counts. `rpc_callback` calls the deframer and then `ProtoRpc_server`. The server
task calls the callback through a function pointer and decides from its result
and from the read whether to close. The handlers of `Lfs_PartRpc` run inside
`ProtoRpc_server`, share the cache, and call littlefs, which asserts about its
list of open files. A `ProtoRpc` may be given to a TCP and a UDP server at once.
A call of littlefs holds the mutex of its partition from beginning to end.
`runScript` waits in the task of an RPC server for room in the queue of
`lua_thread`. The strip's task and the segments' tasks read what the methods of a
segment write.

The hazards, each at its line and with the properties about it, are in
`PROJECT.json`.

## 2. Modules

| Module | Models | Uses |
|---|---|---|
| `BoundedFifo` | abstract: what a fifo promises | |
| `SwFifo` | `SwFifo.c`, split where another task can run | refines `BoundedFifo` |
| `Cobs` | `Cobs.c` as functions of their arguments | |
| `CobsFrame` | `Cobs_frame.c` as functions of the deframer's state | `Cobs` |
| `FramedStream` | a sender, a byte stream and a deframer | `CobsFrame` |
| `ProtoRpc` | `ProtoRpc.c`, `Pb_pack`, `Pb_unpack` as functions of the frames | |
| `TcpRpcServer` | `TcpServer.c`, `TcpRpcServer.c`, the sockets and the clients | `CobsFrame`, `ProtoRpc` |
| `UdpRpcServer` | `UdpServer.c`, `UdpRpcServer.c`, `UdpEcho.c`, a network, a second server | `ProtoRpc` |
| `LfsPartRpc` | the descriptor cache and pool, their handlers and clients | |
| `DirListing` | `dirlist` and `ls_table` | |
| `FileStore` | abstract: what littlefs promises of files | |
| `LfsBd` | `lfs_bd_*`, the caches, and the flash of `Lfs_Part.c` | |
| `LfsFile` | the allocator, the skip lists, `lfs_file_*` as functions of `lfs_t` | `LfsBd` |
| `LfsFiles` | calls of several handles, and power losses between them | `LfsFile`; refines `FileStore` |
| `FileTree` | abstract: what littlefs promises of its tree | |
| `LfsDir` | how metadata pairs are read: fetch, find, the list of pairs, the global state, the allocator | |
| `LfsCommit` | how they are written: commit, compact, split, relocate, drop, orphans and moves | `LfsDir` |
| `LfsTree` | the calls on the tree, power losses during them, and mount | `LfsCommit`; refines `FileTree` |
| `LedStrip` | `led_main`, segment tasks, methods and `CList` | |
| `LedEncoder`, `LedColour` | `encoder.c`; the arithmetic of colours | |
| `LuaThread` | `lua_thread.c`, `lua_thread_rpc.c` | |
| `WifiConnect` | `WifiConnect.c` with the driver's events | |
| `SwTimer` | `SwTimer.c`, `lext_timerlib.c` | |
| `SwFifoProofs`, `LfsPartRpcProofs`, `UdpRpcServerProofs`, `LedStripProofs` | theorems about the module they are named for | |
| `CobsProofs` | theorems about the codec, lemmas about a call of the deframer | `CobsFrame` |
| `FramedStreamProofs`, `TcpRpcServerProofs` | theorems about the two modules with a deframer | `CobsProofs` |
| `DeviceProofs` | theorems about the components that stand by themselves | `LuaThread`, `WifiConnect`, `LedEncoder`, `DirListing`, `SwTimer`, `LedColour`, `LfsBd` |
| `MC*` | small instances | |

The `map` of `PROJECT.json` gives the lines of each definition. Operators named
`Mut_...` are wrong variants of the definition below them, the bugs each
property is shown to notice; no specification uses them.

### SwFifo

A task's `pc` says where it is in a call; `num`, `data` and `numToRead` are the
locals of the call. One step is what a task does between two points where
another can run and see the difference: taking the mutex is a step, the copy is
one, and the two stores of `inc_wrIdx` (the sum, then the reduced sum) are two,
because `SwFifo_peek` evaluates `MIN(num, count(fifo))` before it takes the mutex
and may see the first. Each index is loaded once in that expression, as an
optimised build does. Copies are by byte, with the caller's buffer advanced by
`numToWrap` bytes as the code does on a `void` pointer. `ThreadSafe` is the
argument of `SwFifo_init`. `seen` is what a caller that asked for space or count
still believes, less what it has used since.

`Queue` is the refinement mapping: the items between the indices, with an index
whose increment is half done taken as not incremented, and empty once a flush
has reset the write index. `ImplementsFifo` says that each call takes effect at
one instant, writes exactly the caller's items or none, and returns exactly the
oldest ones.

### Cobs, CobsFrame, FramedStream

The bytes of a message are kept (the properties are about them), and the length
of a maximal block is a constant, 4 in the runs instead of 255, so that short
messages have several. The loop of `Encode` is a recursive function over
the bytes of the message (`EncodeLoop`), that of `Decode` one over the positions of
the blocks (`Blocks`), so that both can be proved about; `RefEncode` is the
definition of COBS to compare with. `Deframe` is one call of `Cobs_deframer`;
its byte-by-byte loops are written as what they move, up to the first framing
byte, the end of the fifo or the end of `work`. Its fifo is a sequence, which
`FifoAlone` shows of `SwFifo` in the hands of one task.

`FramedStream` cuts the stream anywhere. `awaited` and `whole` are history
variables: whether the sender has awaited each answer, and whether each chunk
was one frame; the stronger promises hold under these only.

### ProtoRpc, TcpRpcServer, UdpRpcServer

A call is a sequence number, a callset tag, whether the callset has the function,
whether a reply is wanted, and the status its handler will set. The reply frame
is what `ProtoRpc` holds between calls: header, callset tag and who wrote the
callset union last.

`TcpRpcServer` has the server task at the calls it blocks in, `rpc_callback` as
one step (no other task touches what it uses), and clients that connect, ask,
finish or vanish at any time. A vanishing client leaves any prefix of what it
sent; a read then fails or ends. `vanished` records that this happened: the
deframer is initialized once and not per connection, so the remains of a
vanished client's request are completed by the first framing byte of the next
client, and promises about replies are stated up to that.

In `UdpRpcServer` the server is split where a second transport on the same
`ProtoRpc` can come between: entering `ProtoRpc_server`, where `pb_decode` sets the
call frame to its defaults; the decoding, which fills it; the handler; and the
answer. A message that does not decode (a datagram cut at the buffer's size) has
filled the frame up to where it fails (`Partly`), which is a call that another task
has in hand. `met` and `raced` record that a second task entered during a call, or
ever, whether its message decodes or not. The network keeps a
set of datagrams, may repeat, drop or deliver each at any time, and drops what
does not fit the mailbox. A read that fails or times out leaves the last datagram
in the buffer.

### LfsPartRpc, DirListing

`state` is the pool, `cache` the list of `CacheItem`s, `opened` littlefs's own
list, `held` what each client knows to have open. A handler is one step: one
server task runs them. `fault` is an assertion of littlefs that failed (or a read
of a directory that is not open), after which nothing runs. `mishaps` records
what has gone wrong around the handlers: an fd that its caller does not have open
as that kind, a failing `lfs_file_close`, a reply that did not arrive. The
promises are conditional on it, each on as little as it needs.

`DirListing` is the loop of `ls_table` against `dirlist`, for every directory and
page length up to a bound.

### LfsBd, LfsFile, LfsFiles, FileStore

The content of files, with the metadata taken as one atomic store (`stored`): the
next group says what that rests on. Each function of the code is an operator from
a record of what `lfs_t` holds to such a record; calls are sequenced as the code
sequences them, and a failing one is passed on where the code passes it on. A
block is six words, each a datum or a block number; reads and programs go through
the read cache, the program cache and the caches of the files with their sizes
and alignment, and a word once programmed must be erased before it is programmed
again (`overwrite`). A bad word reads back as something else, which
`lfs_bd_flush` notices. These are the faults of the device: bad words, a full device
and losses of power. `LFS_ERR_IO`, which `part_read`, `part_write` and `part_erase`
return when the flash driver reports an error, is not among them (see section 5).

`LfsFiles` calls them, one step for a call, as the partition's mutex makes it, with
any handle and in any order; `PowerLoss` drops all RAM and mounts. `Shown` is the
refinement mapping to `FileStore`: what each path holds by the definition of the
skip list (not by the code's own search), and what a handle would read.
`stale` are the handles whose path was stored or removed through another, or whose
call has failed half-way: littlefs lets their blocks go to others, and
`FileStore` promises nothing of them.

### LfsDir, LfsCommit, LfsTree, FileTree

The metadata. A block is a revision, a log of tags and whether what follows is
erased; `FetchMatch` reads the newer block of a pair as `lfs_dir_fetchmatch` does,
with the commits before the last valid checksum, and finds a tag on the way; `Get`
searches a log backwards and corrects the id for creates and deletes, as
`lfs_dir_getslice` does. The log of a block holds eight tags, so two or three calls
fill it.

`LfsCommit` is a machine with a stack, for the code is recursive through the
device: a commit relocates a pair, which is a commit to the parent, which may
itself split, relocate, drop a pair or make an orphan. A frame is a function that
is under way, with its locals, `at` the place where it goes on, and `ret` what the
last one returned. One step writes one block at most, so that power may be lost
between any two writes; `Torn` adds a program or an erase that stopped half-way.
`mlist` is the list of open handles that `lfs_dir_commit` fixes at its end.

`LfsTree` has the calls; a call looks its path up (`Find`), prepares the global
state, pushes the commits and ends. `Mount` computes the global state by adding up
what all pairs hold, and fails for a pair that cannot be fetched, a list that does
not end or a superblock without its struct (`MountError`; the version and the sizes in
a superblock are those of the one program there is). `FileTree` has no mount that fails,
so the refinement says that none does, wherever power was lost. A "sync" is an
`lfs_file_write` of a new value and the `lfs_file_sync` after it; as the write takes
`LFS_F_ERRED` from a handle whose sync has failed, the flag decides nothing there. The refinement mapping to `FileTree` is what a mount would
find on the disk at this moment (`View`), kept in `tree` one step behind so that the
last write of a call is still within it: a call changes it at once or not at all,
whatever it takes.

History: `listing` records, for an open directory, which entries have been there
all the time and which were read; `moved` the files that were renamed or removed
while open. LFS_ASSERTs that can fail (`Aborts`) reset the device, as the ESP32
does.

### LedStrip, LedEncoder, LedColour

`next` and `prev` are the links of `CList`; the append is split after its first
store, which makes the new segment reachable before its own link is stored, and
`led_main` walks link by link. A link nobody has stored is `Unset`, and following
it is `wild`, which ends the behaviour. A segment's task loads its mode, waits for
its timer, draws, stores its counter and its mode; the methods run in between.
Pixels are kept as far as blank or not. `raced` says that a method was called while
the task was inside an effect.

`LedEncoder` is called with any room until it says complete. `LedColour` is exact
in its integers (8 and 16 bits, signed where C has it so) and checked over levels
at the borders.

### LuaThread, WifiConnect, SwTimer

One action per blocking point of the task and per event of the driver. After the
receipt of a script `lua_thread_main` has an action for each thing that may go wrong
(the file does not open, there is no memory, nothing is read) and for each thing it
gives back; `ran` and `passed` keep which scripts were given to `exec_script` and which
were passed over. The client is told 0 for both.
`SwTimer` has its moduli as constants (16 for 2^32, 256 for 2^64), so that times
wrap.


## 3. Runs

| Run | Instance | Properties |
|---|---|---|
| `spsc` | 1 writer, 1 reader that flushes, both ask; `Depth` 2, 2 byte values, requests up to 2 | `TypeOK`, `AckWithinCount`, `ImplementsFifo`, `PromisesKept`, `CallsReturn` |
| `wire` | five parts, one per behaviour: strings up to 7 bytes; 4 messages of 4 kinds, any cut, buffers of 6; the fifo with one task, `Depth` 3; pages of 1..6 entries, up to 3 pages; 2 TCP clients, 2 requests each | `CodecIsExact`, `WireTypeOK`, `DeliveredWasSent`, `NothingLost`, `FrameRecovers`, `FifoAlone`, `ListingEnds`, `ReplyToItsSender`, `AnsweredBeforeClose`, `RequestsAnswered`, `ServerReturns` |
| `framing` (violation) | every message up to 6 bytes | `NoFramingByte` |
| `files` | 2 clients, pool of 2, fds up to 4 with a byte of 4 values | `HandlesLive`, `NoFault`, `NoLeak`, `TypeOK` |
| `ioerror` (violation) | the same | `IoErrorNoFault` |
| `long` (violation) | up to 3 pages | `EveryListingEnds` |
| `device` | parts: 2 datagrams of 4 kinds, 2 copies each, 1 call by TCP, 1 failure; 2 segments, 2 methods called; pixels of 4 symbols, rooms up to 5; 2 callers, 5 scripts; 3 lost connections; colours, gradients, times | `ReplyTellsOfCall`, `PackedAsWritten`, `RunsPerDatagram`, `MailboxDrained`, `RingIsList`, `LastCallStands`, `CounterReturns`, `AddReturns`, `FrameThenReset`, `AcceptedRunInOrder`, `ReportIsTrue`, `ArithmeticHolds` |
| `lfs` | 8 blocks of 6 words, caches of 2, lookahead of 4; 2 handles, 4 calls after the first file | `NoFault`, `ImplementsFileStore`, `NeverTouchesLive`, `NoSpaceIsReal` |
| `seek`, `badblock` (violations) | the same, with one excluded case let in | `ImplementsFileStore`; `NeverTouchesLive` |
| `tree` | 12 blocks of 8 tags, one bad, pairs worn out every 3rd revision; scripts of 4 to 6 calls, 1 loss of power | `ImplementsFileTree`, `ListAddsUp`, `HandlesFollow`, `ListingComplete` |
| `full` (violation) | 11 blocks, one script | `ImplementsFileTree` |

`MCWire` and `MCDevice` put modules that share no state side by side: a variable
`part` picks one for a behaviour and the rest stays as it is, so that one run asks
the questions of several small modules.

**Bounds and why they are enough.** The fifo at depth 2 and 3 is full, empty and
wrapped with every split of a copy, and requests of 2 cross the wrap with either
half; the theorems remove the bound for the properties they state. `Modulus` of the
fifo is 256 instead of 2^32: indices stay below `2*Depth+1`, so any value beyond
that is the same. For COBS a block has at most 3 data bytes, and 7 bytes are two
maximal blocks and one more (`MaxLength`; behind the fifth byte only bytes up to
2). In the stream (`MaxSent` 4, `Window` 3) the buffers hold each frame but one
exactly, so both overflows (of `work` and of the fifo) happen in the middle of a
frame. Two TCP clients (`MaxRequests` 2, `MaxConnects` 1) are both orders of "one
leaves something to the next", and a request of two frames' length is cut at every
byte. In `files` two descriptors are the empty pool, reuse by the other client, and
removal at either end of the list.

In `device`: `MaxCalls`, `MaxCopies`, `MaxOthers` and `MaxFails` bound the UDP
part; where the other transport calls, no datagram comes twice (`Datagrams`).
`MaxCalls` 2 methods and `MaxCount` 5 bound the strip, and the second segment does
not run all effects (`Strip`): the ones left have each kind of counter and of pixel
array. `MaxScripts` is more than queue, task and two callers hold; `MaxLosses` of
Wi-Fi 3 with `MAXIMUM_RETRY` 4 (as in the code) has every order of loss and retry.

In `lfs`: a file of 14 words is a list of four blocks with pointers to more than
one of them, 8 blocks hold two versions of it and not three, and the lookahead
window is half the device. `Starts` are where the window may begin after a mount;
`First` and `BadWords` the initial file and a bad word; `Seeks`, `Lengths`,
`Reads` and `WriteSizes` are at and beside the ends of blocks. `MaxCalls` is 4.
`Excluding` names the two cases in which the code is wrong, each shown by a
violation: a call that would meet one is not followed.

In `tree`: `Scripts` are sequences of sets of calls, one of which is made in each
position: four out of ten on an empty tree, two after a directory of two pairs was
filled, and two while a directory is read. With logs of eight tags these compact,
split, relocate and drop pairs and expand the superblock, also in one call;
`MaxLosses` is 1, at any write, and the mount and repairs after it are whole.
`Starts` is one position of the lookahead. `StaleSyncs` FALSE leaves out a sync of a
file that was renamed or removed while open, and `HarmsWhenFull` FALSE what happens
after two errors for lack of space (see the observations).

`CHECK_DEADLOCK FALSE` is given where inputs are bounded and the instance just
runs out of them (strings, messages, connections, listings, `MaxCalls`, scripts),
and in `files` and `ioerror` for a failed assertion, after which the device is
halted. `spsc`, whose tasks may always call again, checks deadlock.

**Fairness.**
* `SwFifo!FairSpec`: strong fairness of a task inside a call. FreeRTOS serves the
  waiters of a mutex by priority, then in the order they came; for tasks of equal
  priority one that waits gets it. No fairness is assumed of making a call.
* `MCWire!MCSpec`: weak fairness of each step of the TCP server's task and
  `[]<>(place # "callback")`, which is the weak fairness of `Callback` in a form that
  TLC need not enumerate (it is always enabled there); of `Finish`, a client ends
  its connection at last (the code guarantees no more: a silent client holds the
  only server task, and the keepalive probes end it only if the peer is gone); and
  of the listing client, which goes on asking until its loop ends.
* `MCDevice!MCSpec`: weak fairness of the UDP server's task (not of the network,
  and not of reads that fail), of `led_main`, and of a call of addSegment once made.
* The other runs promise safety only.

**What the violations show.**
* `framing`: `Cobs_encode` stores the byte after a maximal block without looking at
  it (Cobs.c:63); when it is zero a framing byte lies inside the frame. The decoder
  still inverts it, but the deframer ends the frame there.
* `ioerror`: `fileclose` keeps the descriptor cached when `lfs_file_close` fails
  (Lfs_PartRpc.c:650), although littlefs has taken the file out of its list; a retry
  of the close, or a read, then trips `LFS_ASSERT`. `NoLeak` still holds.
* `long`: `ls_table` adds the number of all entries it has to `idx`
  (`__init__.py:116`); the third page is skipped and the loop goes on for ever.
* `seek`: a read that ends with its block leaves `file->block` behind; a seek within
  the cache (lfs.c:3707) trusts it, and the next read is from the wrong block.
* `badblock`: when the block just taken for a write is bad, the scan for another one
  walks the file by `file->pos`, which is a block short (lfs.c:4706-4708), and a block of
  the file is given out and erased.
* `full`: a rename from one pair to another that fails for lack of space leaves its
  move pending in RAM (lfs.c:4008, 4020); the next commit of any call writes it, and
  the source is gone.

### Observations outside the runs

Conditions in the passing properties that are there because the code needs them,
and what was seen while modelling.

Wire.
* One reader: `SwFifo_read` frees the mutex between peek and ack, so two readers get
  the same items, and a flush by a third task in between leaves the read index ahead
  of the write index. `circWrite` and `circRead` advance the caller's pointer by items,
  not bytes, so items of two bytes are copied from the wrong place after a wrap. In a
  build that loads the indices anew at each use, a writer between the two evaluations
  of `count` makes the peek copy more than was asked for.
* `Window` 1: `rpc_callback` serves one message per call and always says that it is
  finished; of two requests that arrive in one read the second waits in the deframer
  for more bytes. When the peer closes first, the first bytes of the next connection
  make the server run it and write the reply to that connection. With `Window` 2 TLC finds
  this as a violation of `ReplyToItsSender` within 17 states; nothing in the
  repository says that a client may send ahead, so it is no finding here.
* A failed lookup sets neither `has_header` nor the callset tag of the reply
  (ProtoRpc.c:96-111): before the first answered call the reply packs to no bytes.
* Two servers on one `ProtoRpc` spoil the calls that overlap: even a message that does
  not decode replaces number, tag and `no_reply` of the call in flight. The tag and the
  union of the reply frame may stay apart until the next answered call. Two `UdpRpcServer`s
  share their static buffers.
* Code bytes are stored without a check (Cobs.c:52, 80): in a buffer smaller than
  promised they may be stored past the end. A failed `accept` ends the server task.
* `dirclose` does not check that the fd is a directory; that of an open file goes back
  to the pool while littlefs keeps the file open. `get_file` and `put_file` leave their
  fd open when a call fails. `lfs_read_full` and `lfs_write_full` return on an error
  with their local file still in littlefs's list. `Lfs_Part_init` formats the partition
  when mounting it fails for whatever reason.

littlefs, files. `LFS_O_APPEND` behind the end leaves a hole of zeros. Outlining a
dirty inline file marks one block too many as used for a while. After a relocation
that fails for space the handle has its cache on a block and its position elsewhere,
and another write may trip an assertion (`Broken`). Two handles that write one path
lose each other's blocks, and a reader's handle goes stale when another stores the
path.

littlefs, metadata.
* An open file that is removed (or renamed away) as the last entry of a split pair is
  given the pair after it instead of none (lfs.c:2324-2365), and then stands at another
  file's entry; renaming an open file takes its handle's pair away, and its sync says
  OK without writing. `HandlesFollow` leaves out files in `moved`.
* `LFS_ASSERT` in `lfs_fs_preporphans` (4829) fails when two relocations within each
  other make `lfs_fs_deorphan` clear the count; `LFS_ASSERT(pdir)` (2229) when a pending
  move is fixed in the predecessor and takes its only entry. The device restarts.
* A pair that is worn out when there is no space stays where it is but its commit is
  written without the global state (`relocated` is already set): after a rename, a loss
  of power then brings an entry back or loses it. With the failed rename of `full`
  this is what `HarmsWhenFull` excludes.
* While a move is pending `lfs_dir_getslice` does not see the entry after the one that
  is moved. remove, rename and create of a file do not set an allocator checkpoint and
  may report no space too early.
* Removing the entry that an open directory would read next, when it is the only one,
  leaves the handle without a pair, and the read fails. A position of `lfs_dir_tell` is
  not that of `lfs_dir_seek` once entries come and go in an earlier pair.

LED strip. `CList_insertBefore` stores the link to the new segment before the
segment's own, so `led_main` on the other core may follow a link that was never
stored (`wild`). Effects keep counters in static locals, one for all segments; two
segments with the same effect disturb each other (`drawers`). An effect stores its
mode when it is done, over one set meanwhile (`raced`). A strip that fails to
initialize leaves addSegment waiting; a failed task creation leaves the segment in
the list.

Others. `SwTimer_toc` is wrong for C callers after 2^32 microseconds; Lua's binding
cuts the result and is right again. `WifiConnect_init` has no timeout, and after
`MAXIMUM_RETRY` nothing connects again. `runScript` blocks the RPC server for up to
100 ms on a full queue, and its 0 does not say that the script will run: one that does
not open, finds no memory or is empty is only logged.

## 4. Theorems

`SwFifoProofs`, for every depth, item size, request size and set of tasks:
* `TypeCorrect`: `Guarded => (Spec => []TypeOK)`, where `Guarded` is a mutex or a
  single task. `TypeOK` is not inductive: that an index is out of `0..Depth` only
  between its two stores needs that only one task increments it. The invariant
  `IInv` adds `MutexInv` (the holder of the mutex is the one task in a critical
  section), `IndexInv` (which index may be unreduced, when) and `FrameInv` (what a
  call's locals hold at each place).
* `AckSafe`: with one reader that also does the flushing, `Spec => []AckWithinCount`.
  The ack has no check of its own; the number it uses was computed before the mutex
  was taken. The invariant `AInv` adds that what a reader counted outside the mutex
  is at most what is committed (writers only add, also seen between the two stores),
  that a writer past its check fits, and that only the reader is in a place that
  moves the read index.
* `PromiseHeld`: `Guarded /\ SoleReader /\ SoleWriter => (Spec => PromisesKept)`, for
  items of any size. What a task was told of space or count it believes until it acts
  on it, with the mutex free in between. `PromiseInv` bounds that belief by what the
  committed indices give (`Held`), at every place between the two stores of an
  increment and in the middle of a flush, when the fifo looks emptier to one task than
  to the other. With two writers (or two readers) the property is false, for the other
  one uses what was promised.
* `FifoImplemented`: `Guarded /\ SoleReader /\ Bytewise => (Spec => ImplementsFifo)`,
  the refinement of `BoundedFifo`, with any number of writers. The queue of the
  abstract fifo is read from the memory between the committed indices. A write takes
  effect when its last store to the write index does, an ack likewise, a flush at its
  first; every other step is a stutter, which holds because what a writer has copied so
  far lies outside the queue, and what a reader has peeked is still at its head
  (`DataInv`), over every wrap of the memory. `PlaceInv` says where the indices are
  between two stores. `Bytewise` (items of one byte, as `Cobs_deframer_init` asks for)
  is needed: for larger ones the code's copy is wrong (see the observations).
  `SoleReader` too: two readers get the same items. The fifo of `FifoAlone`, in the hands
  of one task and without its mutex, is an instance of this theorem.

`CobsProofs`, for messages of any length and blocks of any length:
* `DecodeInverts`: `Cobs_decode` of what `Cobs_encode` wrote is the message when the
  caller's buffer holds it, and fails when it does not; also for the messages whose
  encoding has a framing byte in it.
* `PromiseSuffices`: with a buffer of the length that COBS promises the encoder
  succeeds, and no store is beyond the buffer, those of code bytes, which are not
  checked, included.
* `EncodesByDefinition`: unless a zero follows a maximal block, what the encoder writes
  is `RefEncode` of the message, the definition of COBS. The invariant of the loop is
  extended by what the definition says of the bytes that are still to come: the encoding
  is the closed blocks and then the definition's encoding from the open block's first
  byte on (`RefInv`).
* `AcceptsEncodings`: zero-free bytes that `Cobs_decode` accepts are `RefEncode` of what
  it returns, or that and one empty block more after a message that is not empty. It
  goes from the last block back (`BlocksExplained`): the definition of a message is that
  of its first block before that of the rest, wherever the rest stands (`BlocksShift`).

  All need induction over the message. The induction theorems of the library take
  an operator as their parameter, which the provers cannot instantiate; but the
  well-founded order of the naturals (`WFMin`) speaks of sets only, and `SetInduction`
  follows from it: a set that holds 0, and with every number the next, is `Nat`. Each
  induction defines the set of the numbers for which its claim holds. What
  the loop of the encoder has stored after n bytes is stated as what the decoder makes
  of it, whatever follows (`Decodes` in `LoopInv`).

  The module also holds what the next two need of a call of the deframer: that its
  buffers stay in bounds (`DeframeOK`), and what it makes of the bytes of a frame that it
  gets in pieces (`Starts`, `GoesOn`): more of the frame in `work`, or the message.

`FramedStreamProofs`, for every set of messages, every size of the buffers and every
way of cutting the stream:
* `TypeCorrect`: `Spec => []TypeOK`: neither buffer of the deframer overflows, and what
  each of its states stands for holds between two calls. Its loops over bytes are
  taken apart into what each moves.
* `NothingMadeUp`: `SafeMessages => (Spec => []DeliveredWasSent)`. The variables have
  forgotten the bytes that were dropped, and a deframer that looks for the end of a
  frame may have taken the end of one for the start. `StreamInv` brings the whole
  stream back: the frames of the messages sent one after the other (`Layout`), an
  offset behind which everything is still held by the deframer or on the wire
  (`Held`), and which frame each delivered message came from (`Traced`). A decoded
  string between two framing bytes is then the inside of one frame, or is empty, and
  `DecodeInverts` gives the message.
* `AwaitedArrive`: `SafeMessages /\ Deliverable => (Spec => []NothingLost)`: `LostInv`
  says that at most the last message has not arrived, and that its frame is on its way
  whole, part of it in the deframer perhaps (`OnItsWay`).
* `FrameByFrame`: `SafeMessages /\ Deliverable => (Spec => FrameRecovers)`, an action
  property: while every chunk was one frame, the deframer is in its first state and the
  wire begins with a frame (`WholeInv`).

  `SafeMessages` says that no message has a zero after a maximal block: for such a
  message the properties are false (the violation `framing`). `Deliverable` says that
  no message is empty (a length of 0 is how the deframer says "nothing") and none is
  longer than the receiver's buffer. The messages of the run satisfy both.

`TcpRpcServerProofs`, for every set of clients, every backlog and every size of the
buffers; `ServerAssumption` says what kind of values the constants are:
* `TypeCorrect`: `Spec => []TypeOK`. `TypeInv` adds that no client waits twice in the
  backlog and what the messages and replies consist of.
* `RepliesMatch`: `Paced => (Spec => []ReplyToItsSender)`. The deframer is the server's
  and outlives the connections, so a part of a request that one of them leaves in it
  would be taken for the start of the next one's. `ServeInv` follows the one
  unanswered request of the client that is served: all of it is in what the last read
  returned and what is still to be read, or its beginning is in the deframer (`Through`),
  or nothing of it is left anywhere and the deframer is in its first state (`InHand`). Of a
  client that waits nothing has been read (`Fresh`). At a close everything has been read,
  and a deframer that was in the middle of a frame would have to hold its last byte,
  the framing byte it never stores (`ClosedClear`): so the deframer is clean.
* `AnsweredFirst`: `Paced /\ AllAnswered => (Spec => AnsweredBeforeClose)`, from the same
  invariant.

  `Paced` is a client that waits for its answer (`Window = 1`), and requests that fit the
  buffers, are not empty and have no zero after a maximal block. The callsets of
  `python_api` return from a call with its reply, so their clients wait. For clients
  that send ahead both properties are false (see the observations on `Window`).
  `AllAnswered` says that every request calls a handler that exists and wants a reply; without it there is nothing to wait for. The instance of
  the run satisfies both, and the histories in which a client vanishes are excluded by the
  properties themselves.

`LfsPartRpcProofs`, for every pool, set of clients and set of fds:
* `TypeCorrect`: `Spec => []TypeOK`, with the agreement of pool and cache in it. Two
  lemmas about lists (`Appended`, `Removed`) say what `CList_append` and
  `CList_remove` do to the set of cached fds; `AfterAdd` and `AfterRemove` carry it
  to the pool.
* `HandlesStayLive`, `FaultFree`, `LeakFree`: the invariant `IInv` adds `HeldInv`
  (what is open is held, an fd is held once, held fds are those in use, unless fds
  were misused or replies lost) and `OpenInv` (what is held is open, unless anything
  went wrong). `LeakFree` needs only `HeldInv`, which is why it survives failing
  closes.

`DeviceProofs`, about `LuaThread`, for every set of callers and scripts and every
length of the queue:
* `ScriptsSettled`: with `NoScript \notin Nat`, `Spec => []AcceptedRunInOrder`: every
  script that was received is run, passed over or in hand, none is run twice or both,
  the scripts run in the order of their acceptance, and a refused one does not run;
  and the task waits for the next one with no file open and no buffer held. `LuaInv`
  adds that a caller's pending script is a new one (`PendingIsNew`, from the count of
  calls, `CountIsFresh`), that a refused one was not accepted (`NoneRefused`), that none
  was accepted twice (`NoneTwice`), at which place of the loop the file is open and the
  buffer held (`Holding`), that what is in hand is the last one received (`InHand`), that
  all before it are settled (`Settled`), and that what ran is in the order of what was
  received (`RanInOrder`).

`DeviceProofs`, about `WifiConnect`, for every `MAXIMUM_RETRY`:
* `ReportTrue`: `Spec => []ReportIsTrue`. The bits of the event group outlive their
  cause; `WifiInv` ties them to the count of retries and to what the driver has
  reported (`RetryCounts`, `FlagsTell`), and the result of init to the bits
  (`ReportTells`).

`DeviceProofs`, about `LedEncoder`, for every number of symbols and every block size:
* `FrameComplete`: `Spec => []FrameThenReset`. The encoder is left wherever the
  memory of the channel is full and called again; `EncoderInv` says what has gone out is a
  prefix of the frame (`Prefix`) and where in it each state may be (`Progress`), for
  both encoders that the state machine calls.

`UdpRpcServerProofs`, for all kinds of calls:
* `ReplyTells`: `Spec => []ReplyTellsOfCall`, although another transport may use the
  same frames between any two steps of the server, and decode into them a message that
  fails half-way. `IInv` says what the frames hold at each place of the server as long as
  nobody entered in between (`FramesHold`), and that `met` knows of everybody who did
  (`MetKnown`).
* `PackedTrue`: `Spec => []PackedAsWritten`: as long as no call was ever raced, the
  union of the reply frame is packed under the tag it was written with (`UnionHolds`,
  an invariant of more than one call, for the frame is never cleared).
* `OncePerDatagram`: `Spec => []RunsPerDatagram`: a call runs at most as often as its
  datagram was sent or copied. `RInv` says that calls have numbers of their own and the
  network one datagram of each (`Numbered`), and keeps the account of a call: its runs,
  its copies on the network and in the socket, and the tasks that have read it and not
  yet run it are together no more than its copies (`Accounted`). A read that times out
  or fails leaves the last call in the buffer and takes nothing from the account. The
  count of a call's datagrams in the socket is a sum over a sequence, stated by the
  partial sums that witness it (`Waiting`), so that it needs no recursion.

`LedStripProofs`, for every set of segments, also with tasks that fail to be created:
* `RingHolds`: `Spec => []RingIsList`. Between the two stores of an append the ring is
  not a ring; `IInv` says which links hold then (`Linked`, `Unlinked`), that a segment
  is added once (`AddedOnce`), that there is an anchor before there is a segment
  (`SetUp`), and that `led_main` walks within the list (`WalkInside`).
* `LastCallHolds`: `Spec => []LastCallStands`. The application stores the mode of a
  segment while its task may be about to store an older one; `CallInv` says that a call
  and a turn of the task that know of no overlap do not overlap, and that the task then
  runs the effect that was asked for (`Apart`), what is asked of a segment that is being
  added or called (`NotAsked`), and that `off` has blanked it before its last store
  (`Blanked`).
* `CounterComesBack`: `Spec => []CounterReturns`, for strips whose segments have a pixel
  and calls that ask for a light (`Positive`). The counter of an effect is one for all
  segments, loaded and stored in two steps and compared for equality only. `CountInv`
  says that whoever runs the effect is remembered (`Drawn`), that what the only one has
  loaded is current (`LoadedCurrent`), and that the counter is below its limit from the
  start of the call on, in the middle of a turn as well (`BelowLimit`).

`DeviceProofs`, about `DirListing`, for every page length and number of pages:
* `NothingTwice`: `Spec => []NothingSkipped`, the safety half of `ListingEnds`: up to
  two pages the entries got are the first ones of the directory, in order. `ListingInv`
  adds that `ls_table` never asks for an entry it has (`AskedBeyond`, which is why its
  wrong count skips entries and repeats none), and that up to two pages it asks for the
  one that follows (`AskedNext`).

`DeviceProofs`, about `SwTimer`, for every width of the two types, time and delay:
* `TimesExact`: `ElapsedIsExact` and `RunsOutOnce` of every start and elapsed time whose
  sum the long type holds. That the two cuts to the short type cancel is the uniqueness
  of quotient and remainder (`Remainder`), which the provers do not know of a modulus
  that is not a numeral.

`DeviceProofs`, about `LedColour`, for every two colours, direction and number of steps:
* `GradientBetween`: `GradientStaysBetween`, of which the run has samples. A quotient
  truncated toward zero never takes `i` of `n` steps beyond the distance (`StepsFall`);
  a distance fits the 16 signed bits (`DistanceFits`), and added with its sign as an
  unsigned number of 16 bits it leaves the accumulator where the exact sum would be
  (`ChannelUp`, `ChannelDown`), so saturation and value stay between the two ends
  (`PlainChannel`) and the hue on its arc, around zero too (`HueChannel`).
* `ColoursSmooth`: `ColoursAreSmooth` with 16 as the bound, for every colour of 8-bit
  channels; the run has the levels at the borders. A position on an arc darkens a
  channel no faster than it moves, through both truncated products (`FadeSlow`); one
  step is 6 of 256, and an arc ends 4 short of the next, the last one 16, because it
  has 41 hues and not 43 (`Along`, `Across`).

`MCDevice` checks these properties of its instances of the modules, by the same names.

`DeviceProofs`, about `LfsBd`, for every geometry, bad words and content of the device
and the caches; of the four theorems, which state what the caller of each function gets,
the model checker sees only what they lead to, the files of the run `lfs`:
* `ReadThrough`: `lfs_bd_read` returns all that was asked for: what the program cache
  holds where it holds something, what the device holds elsewhere. Its invariant over
  the turns of the loop (`ReadSoFar`) is that the words so far are right and the read
  cache says what the device says (`Faithful`); a turn that does not copy fills the read
  cache with the next word (`ReadProgress`), so the loop ends after twice as many turns
  as words, the length `ReadLoop` has.
* `FlushIsChecked`: `lfs_bd_flush` returns `LFS_ERR_OK` exactly when the device then
  holds every word of the cache, and programs nothing else. It rests on the read cache
  being dropped before the comparison, which is by `ReadThrough` one with the device.
* `ProgramIsSeen`: after `lfs_bd_prog` without an error the words are what
  `lfs_bd_read` finds where they were put, and all else reads as before, through the
  flushes in the middle (`ProgSoFar`); on erased flash without bad words it does not
  fail and programs nothing twice. `ProgramThenRead` combines it with `ReadThrough`.

The turns of a loop are a recursive function; that it has the values its definition says
is proved for these two (`ReadSteps`, `ProgSteps`) from well-foundedness of the naturals
(`SetInduction`), which needs no operator as a parameter. The premises are those of
the callers: a block of the device (not the marker of an inline file, whose words stay
in its cache), a hint that is not zero, a program cache that is free or ends where the
words begin, and a read cache that says what the device says. An evaluation of the
premises at every call in the states of the run `lfs` found one exception: a handle
whose flush failed (`ERRED`) still has the words that failed in its cache, and what it
reads or writes after that is not covered. Nor is a device that programs in smaller
units than it reads, which `Lfs_Part.h` does not have: there the code's loop could read
zero words for ever before a program cache that begins within a unit, and the model
fills the read cache.

The assumptions are the `ASSUME`s of the modules, each evaluated by TLC, and the
premises in the statements. The bounds of the instances (`MaxCalls` and the like) are
constants in the theorems too, so none of them depends on a value.

Model-checked only: liveness (`CallsReturn`, `RequestsAnswered`, `ServerReturns`,
`ListingEnds`, `MailboxDrained`, `AddReturns`), which rests on fairness and ENABLED;
and littlefs above its block device, with its two refinements and the properties of
`LfsTree` (`ListAddsUp`, `HandlesFollow`, `ListingComplete`) and `MCLfs` (`NoFault`):
`LfsFile`, `LfsTree` and what they use have `RECURSIVE` operators (skip lists, paths,
lists of pairs, logs), which take TLAPS its SMT backend.

## 5. Not modelled

* nanopb and the generated code: serializers. The models have what they tell their
  caller and what a `pb_decode` that fails leaves in its target (`Unpack`, `Enter` and
  `Partly` of `UdpRpcServer`); no property is about the bytes.
* `Lfs_Api`, `TestRpc`, `RtosUtilsRpc`, the macros of `RtosUtils`, `LogPrint`,
  `CheckCond`, `Random`, and the command lines: they pass on or print and keep no state
  (`Lfs_Api` keeps one file object for all fds, as its comments say).
* Of littlefs: custom attributes, `lfs_fs_grow`, `lfs_fs_gc`, `lfs_fs_size`, the
  migration from version 1, the CRC itself (a torn program is noticed), forward CRCs,
  and CTZ files in the metadata model, whose files are all inline; a handle whose
  content is larger than the cache is in `LfsFiles`.
* I/O errors of the flash driver (`LFS_ERR_IO`, Lfs_Part.c:47-54, 86-93, 116-123): every
  property of littlefs here holds for a driver that reports none. The paths that such an
  error takes are not checked, and reading them shows that some are worth it:
  `lfs_bd_read` notes block, offset and size in the read cache before it calls `read`
  (lfs.c:108-118), so after a read that failed the cache claims a block whose bytes it
  does not have; and a relocation that fails with another error than `LFS_ERR_CORRUPT`
  returns with the program cache in use (lfs.c:3256-3266).
* Of `WS2812Led`: which pixels an effect lights; of Lua: the interpreter, whose
  sources are a submodule that is absent.
* Sockets' options and addresses, and the registration of partitions at start.

What could come next: the I/O errors of the partition in `LfsBd`, as a read, program or
erase of any call that fails; and `LfsTree` with files that have blocks of their own, so that the
allocator's two users meet.
