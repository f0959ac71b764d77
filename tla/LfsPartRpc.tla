----------------------------- MODULE LfsPartRpc -----------------------------
(***************************************************************************)
(* The open files of the RPC file service: the handlers of                 *)
(* Lfs_Part/src/Lfs_PartRpc.c that open, use and close descriptors, the    *)
(* descriptor pool of littlefs/src/lfs_helpers.c and the cache of open     *)
(* descriptors, with the clients that call them.  A handler runs to its    *)
(* end before the next one starts, as one server task calls them.          *)
(*                                                                         *)
(* Of littlefs the model keeps the list of open files and directories,     *)
(* which its assertions are about.                                         *)
(***************************************************************************)
EXTENDS Integers, Sequences

CONSTANTS
  Clients,
  NumDescriptors,  \* MAX_OPEN_DESCRIPTORS
  FdByte,          \* 256: cache_find_fd takes the call's fd as a uint8_t
  CallFds          \* bound: the fds a client may name

ASSUME DescriptorAssumption ==
  /\ NumDescriptors \in Nat \ {0} /\ FdByte \in Nat /\ NumDescriptors <= FdByte
  /\ CallFds \subseteq Nat

Fd   == 0..(NumDescriptors - 1)
Kind == {"file", "dir"}

(* What may go wrong around the handlers: a client names an fd that it does   *)
(* not have open as what it takes it for, lfs_file_close fails to write a     *)
(* file back, the reply to an open or a close does not reach the client.      *)
Mishap == {"misuse", "ioerror", "lost"}

(* An lfs file or directory: the descriptor that holds it, and what it is. *)
Object == [fd : Fd, kind : Kind]

VARIABLES
  state,   \* state[fd]: the state of the descriptor in the pool
  cache,   \* the fds of the CacheItems, in list order
  opened,  \* lfs's list of open files and directories
  held,    \* held[c]: what client c knows to have open
  fault,   \* has lfs been asked to open what is open or to use what is not?
  mishaps  \* history: what has gone wrong so far

vars == <<state, cache, opened, held, fault, mishaps>>

Init ==
  /\ state = [fd \in Fd |-> "AVAIL"]
  /\ cache = << >>
  /\ opened = {}
  /\ held = [c \in Clients |-> {}]
  /\ fault = FALSE
  /\ mishaps = {}

-----------------------------------------------------------------------------
(* The pool and the cache *)

Available == {fd \in Fd : state[fd] = "AVAIL"}

(* lfs_pool_get_descriptor takes the first available one. *)
Lowest(fd) == fd \in Available /\ \A other \in Available : fd <= other

(* cache_find_fd *)
Cached(fd) == \E i \in DOMAIN cache : cache[i] = fd

(* CList_remove of the item at position i *)
Without(list, i) ==
  [j \in 1..(Len(list) - 1) |-> IF j < i THEN list[j] ELSE list[j + 1]]

(* Mutant: the item is freed without its descriptor going back to the pool. *)
Mut_CacheRemove(fd) ==
  /\ \E i \in DOMAIN cache : cache[i] = fd /\ cache' = Without(cache, i)
  /\ state' = state

(* Mutant: the item at the head of the list is removed instead of the one found. *)
Mut_CacheRemove_head(fd) ==
  /\ \E i \in DOMAIN cache : cache[i] = fd /\ cache' = Without(cache, 1)
  /\ state' = [state EXCEPT ![fd] = "AVAIL"]

(* cache_rm_fd of an fd that was found *)
CacheRemove(fd) ==
  /\ \E i \in DOMAIN cache :
       /\ cache[i] = fd
       /\ \A j \in 1..(i - 1) : cache[j] # fd
       /\ cache' = Without(cache, i)
  /\ state' = [state EXCEPT ![fd] = "AVAIL"]

(* cache_add_fd *)
CacheAdd(fd) ==
  /\ cache' = Append(cache, fd)
  /\ state' = [state EXCEPT ![fd] = "INUSE"]

-----------------------------------------------------------------------------
(* The handlers *)

IsOpen(fd, kind) == [fd |-> fd, kind |-> kind] \in opened

(* The client learns of it, unless the reply is lost. *)
Learn(c, known, sofar) ==
  \/ held' = [held EXCEPT ![c] = known] /\ mishaps' = sofar
  \/ UNCHANGED held /\ mishaps' = sofar \cup {"lost"}

(* fileopen and diropen: lfs asserts that the object is not open already.    *)
Open(c, kind) ==
  \E fd \in Fd :
    /\ ~fault
    /\ Lowest(fd)
    /\ CacheAdd(fd)
    /\ IF IsOpen(fd, kind)
       THEN fault' = TRUE /\ UNCHANGED <<opened, held, mishaps>>
       ELSE LET o == [fd |-> fd, kind |-> kind]
            IN /\ opened' = opened \cup {o}
               /\ Learn(c, held[c] \cup {o}, mishaps)
               /\ UNCHANGED fault

(* Mutant: a descriptor that could not be opened stays in the cache. *)
Mut_OpenFails ==
  \E fd \in Fd :
    /\ ~fault
    /\ Lowest(fd)
    /\ CacheAdd(fd)
    /\ UNCHANGED <<opened, held, fault, mishaps>>

(* They reply fd = -1 when the pool is empty, when there is no memory for an *)
(* item, and when lfs cannot open the path: what was taken is put back.      *)
OpenFails ==
  /\ ~fault
  /\ UNCHANGED vars

(* The mishaps so far, with a call of client c about fd as a kind.           *)
After(c, kind, fd) ==
  mishaps \cup (IF [fd |-> fd, kind |-> kind] \in held[c] THEN {} ELSE {"misuse"})

(* What client c has open once it takes fd for closed. *)
Closed(c, kind, fd) == held[c] \ {[fd |-> fd, kind |-> kind]}

(* The handler narrows the fd of the call to a byte and finds it in the cache. *)
Found(fd) == ~fault /\ Cached(fd % FdByte)

(* Mutant: the descriptor goes back to the pool without lfs closing it. *)
Mut_Close(c, kind, fd) ==
  /\ CacheRemove(fd % FdByte)
  /\ Learn(c, Closed(c, kind, fd), After(c, kind, fd))
  /\ UNCHANGED <<opened, fault>>

Close(c, kind, fd) ==
  /\ opened' = opened \ {[fd |-> fd % FdByte, kind |-> kind]}
  /\ CacheRemove(fd % FdByte)
  /\ Learn(c, Closed(c, kind, fd), After(c, kind, fd))
  /\ UNCHANGED fault

(* fileclose: lfs asserts that the file is open, and takes it out of its     *)
(* list whether or not it can write it back.                                 *)
FileClose(c, fd) == Found(fd) /\ IsOpen(fd % FdByte, "file") /\ Close(c, "file", fd)

(* When it cannot, the handler replies with an error and leaves the          *)
(* descriptor where it is.                                                   *)
FileCloseError(c, fd) ==
  /\ Found(fd) /\ IsOpen(fd % FdByte, "file")
  /\ opened' = opened \ {[fd |-> fd % FdByte, kind |-> "file"]}
  /\ mishaps' = After(c, "file", fd) \cup {"ioerror"}
  /\ UNCHANGED <<state, cache, held, fault>>

(* dirclose: lfs_dir_close asserts nothing and never fails. *)
DirClose(c, fd) == Found(fd) /\ Close(c, "dir", fd)

(* fileclose, fileread and filewrite of a descriptor that is in the cache    *)
(* but whose file lfs does not have open, and dirread, which asserts         *)
(* nothing, of a directory lfs does not have open.                           *)
UseFault(c, kind, fd) ==
  /\ Found(fd) /\ ~IsOpen(fd % FdByte, kind)
  /\ fault' = TRUE
  /\ mishaps' = After(c, kind, fd)
  /\ UNCHANGED <<state, cache, opened, held>>

(* fileread, filewrite and dirread of what is open, and every call about an  *)
(* fd that is not in the cache, which is answered with an error.             *)
Use(c, kind, fd) ==
  /\ ~fault
  /\ Cached(fd % FdByte) => IsOpen(fd % FdByte, kind)
  /\ mishaps' = After(c, kind, fd)
  /\ UNCHANGED <<state, cache, opened, held, fault>>

Call(c) ==
  \/ \E kind \in Kind : Open(c, kind)
  \/ OpenFails
  \/ \E fd \in CallFds : FileClose(c, fd) \/ FileCloseError(c, fd) \/ DirClose(c, fd)
  \/ \E fd \in CallFds, kind \in Kind : UseFault(c, kind, fd) \/ Use(c, kind, fd)

Next == \E c \in Clients : Call(c)

Spec == Init /\ [][Next]_vars

-----------------------------------------------------------------------------
(* Every descriptor of the pool that is in use is in the cache, once, and    *)
(* the cache holds no other: whatever the clients call and whatever fails, a *)
(* descriptor in use can be found and given back, and none is given out      *)
(* twice.                                                                    *)
PoolMatchesCache ==
  /\ \A fd \in Fd : state[fd] = "INUSE" <=> Cached(fd)
  /\ \A i, j \in DOMAIN cache : cache[i] = cache[j] => i = j

TypeOK ==
  /\ state \in [Fd -> {"AVAIL", "INUSE"}]
  /\ cache \in Seq(Fd)
  /\ opened \subseteq Object
  /\ held \in [Clients -> SUBSET Object]
  /\ fault \in BOOLEAN
  /\ mishaps \subseteq Mishap
  /\ PoolMatchesCache

(* What a client holds is what it opened: the fd it was given stands for the *)
(* same file or directory until the client closes it, and no other client    *)
(* has been given that fd, as long as nothing has gone wrong around it.      *)
HandlesLive ==
  mishaps = {} =>
    \A c \in Clients : \A o \in held[c] :
      /\ o \in opened
      /\ Cached(o.fd)
      /\ \A d \in Clients \ {c} : \A q \in held[d] : q.fd # o.fd

(* No descriptor is lost: one that is in use is held by a client that can    *)
(* close it, also after closes that failed.                                  *)
NoLeak ==
  mishaps \subseteq {"ioerror"} =>
    \A fd \in Fd : state[fd] = "INUSE" => \E c \in Clients : \E o \in held[c] : o.fd = fd

(* lfs is only asked to open what is closed and to use what is open, as its  *)
(* assertions demand, when clients use what they have open as what it is.    *)
NoFault == mishaps = {} => ~fault

(* The same after closes that failed: LFS_ASSERT(!lfs_mlist_isopen(...)) at  *)
(* lfs.c:6056 and LFS_ASSERT(lfs_mlist_isopen(...)) at lfs.c:6092.           *)
IoErrorNoFault == mishaps \subseteq {"ioerror"} => ~fault
=============================================================================
