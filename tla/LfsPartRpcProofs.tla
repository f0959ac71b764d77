-------------------------- MODULE LfsPartRpcProofs --------------------------
(***************************************************************************)
(* Theorems about LfsPartRpc for every pool size, every set of clients and *)
(* every fd they may name.                                                 *)
(***************************************************************************)
EXTENDS LfsPartRpc, TLAPS

USE DescriptorAssumption

(* The cache holds fd. *)
Holds(list, fd) == \E i \in DOMAIN list : list[i] = fd
Once(list)      == \A i, j \in DOMAIN list : list[i] = list[j] => i = j

-----------------------------------------------------------------------------
(* The list of the cache *)

(* CList_append of an item that is not in the list. *)
LEMMA Appended ==
  ASSUME NEW list \in Seq(Fd), NEW fd \in Fd, Once(list), ~Holds(list, fd)
  PROVE  /\ Append(list, fd) \in Seq(Fd)
         /\ Once(Append(list, fd))
         /\ \A g : Holds(Append(list, fd), g) <=> Holds(list, g) \/ g = fd
<1> DEFINE long == Append(list, fd)
<1>1. /\ long \in Seq(Fd)
      /\ DOMAIN list = 1..Len(list)
      /\ DOMAIN long = 1..(Len(list) + 1)
      /\ Len(list) \in Nat
      /\ long[Len(list) + 1] = fd
      /\ \A i \in 1..Len(list) : long[i] = list[i]
  OBVIOUS
<1> HIDE DEF long
<1>2. Once(long)
  BY <1>1 DEF Once, Holds
<1>3. ASSUME NEW g PROVE Holds(long, g) <=> Holds(list, g) \/ g = fd
  <2>1. Holds(long, g) => Holds(list, g) \/ g = fd
    BY <1>1 DEF Holds
  <2>2. Holds(list, g) => Holds(long, g)
    BY <1>1 DEF Holds
  <2>3. g = fd => Holds(long, g)
    BY <1>1 DEF Holds
  <2> QED BY <2>1, <2>2, <2>3
<1> QED BY <1>1, <1>2, <1>3 DEF long

(* CList_remove of an item from a list that holds it once. *)
LEMMA Removed ==
  ASSUME NEW list \in Seq(Fd), Once(list), NEW i \in DOMAIN list
  PROVE  /\ Without(list, i) \in Seq(Fd)
         /\ Once(Without(list, i))
         /\ \A g : Holds(Without(list, i), g) <=> Holds(list, g) /\ g # list[i]
<1> DEFINE short == Without(list, i)
<1>1. /\ Len(list) \in Nat /\ DOMAIN list = 1..Len(list)
      /\ \A j \in 1..Len(list) : list[j] \in Fd
  OBVIOUS
<1>2. /\ Len(list) - 1 \in Nat
      /\ DOMAIN short = 1..(Len(list) - 1)
      /\ \A j \in 1..(Len(list) - 1) : short[j] = IF j < i THEN list[j] ELSE list[j + 1]
  BY <1>1 DEF Without
<1>3. \A j \in 1..(Len(list) - 1) : short[j] \in Fd
  BY <1>1, <1>2
<1>4. short \in Seq(Fd)
  <2>1. short \in [1..(Len(list) - 1) -> Fd]
    BY <1>1 DEF Without
  <2> QED BY <2>1, <1>2
<1> HIDE DEF short
<1>5. Once(short)
  <2> SUFFICES ASSUME NEW j \in 1..(Len(list) - 1), NEW k \in 1..(Len(list) - 1),
                      short[j] = short[k]
               PROVE  j = k
    BY <1>2 DEF Once
  <2> DEFINE at(m) == IF m < i THEN m ELSE m + 1
  <2>1. at(j) \in DOMAIN list /\ at(k) \in DOMAIN list /\ list[at(j)] = list[at(k)]
    BY <1>1, <1>2
  <2>2. at(j) = at(k)
    BY <2>1 DEF Once
  <2> QED BY <2>2, <1>1
<1>6. ASSUME NEW g PROVE Holds(short, g) <=> Holds(list, g) /\ g # list[i]
  <2>1. ASSUME Holds(short, g) PROVE Holds(list, g) /\ g # list[i]
    <3>1. PICK j \in 1..(Len(list) - 1) : short[j] = g
      BY <2>1, <1>2 DEF Holds
    <3> DEFINE at == IF j < i THEN j ELSE j + 1
    <3>2. at \in DOMAIN list /\ list[at] = g /\ at # i
      BY <3>1, <1>1, <1>2
    <3> QED BY <3>2 DEF Holds, Once
  <2>2. ASSUME Holds(list, g), g # list[i] PROVE Holds(short, g)
    <3>1. PICK j \in 1..Len(list) : list[j] = g
      BY <2>2, <1>1 DEF Holds
    <3> DEFINE at == IF j < i THEN j ELSE j - 1
    <3>2. at \in 1..(Len(list) - 1) /\ short[at] = g
      BY <3>1, <2>2, <1>1, <1>2
    <3> QED BY <3>2, <1>2 DEF Holds
  <2> QED BY <2>1, <2>2
<1> QED BY <1>4, <1>5, <1>6 DEF short
-----------------------------------------------------------------------------
(* The cache and the pool after the two helpers *)

LEMMA AfterAdd ==
  ASSUME TypeOK, NEW fd \in Fd, Lowest(fd), CacheAdd(fd)
  PROVE  /\ cache' \in Seq(Fd)
         /\ state' \in [Fd -> {"AVAIL", "INUSE"}]
         /\ PoolMatchesCache'
         /\ state[fd] = "AVAIL"
         /\ state' = [state EXCEPT ![fd] = "INUSE"]
<1>1. /\ cache \in Seq(Fd) /\ Once(cache) /\ ~Holds(cache, fd) /\ state[fd] = "AVAIL"
      /\ \A g \in Fd : state[g] = "INUSE" <=> Holds(cache, g)
  BY DEF TypeOK, PoolMatchesCache, Cached, Once, Holds, Lowest, Available
<1>2. /\ cache' \in Seq(Fd) /\ Once(cache')
      /\ \A g : Holds(cache', g) <=> Holds(cache, g) \/ g = fd
  BY <1>1, Appended DEF CacheAdd
<1>3. state' = [state EXCEPT ![fd] = "INUSE"] /\ state \in [Fd -> {"AVAIL", "INUSE"}]
  BY DEF CacheAdd, TypeOK
<1>4. \A g \in Fd : state'[g] = "INUSE" <=> Holds(cache', g)
  BY <1>1, <1>2, <1>3
<1>5. PoolMatchesCache'
  BY <1>2, <1>4 DEF PoolMatchesCache, Cached, Once, Holds
<1> QED BY <1>1, <1>2, <1>3, <1>5

LEMMA AfterRemove ==
  ASSUME TypeOK, NEW fd, CacheRemove(fd)
  PROVE  /\ fd \in Fd
         /\ cache' \in Seq(Fd)
         /\ state' \in [Fd -> {"AVAIL", "INUSE"}]
         /\ PoolMatchesCache'
         /\ state' = [state EXCEPT ![fd] = "AVAIL"]
<1>1. /\ cache \in Seq(Fd) /\ Once(cache)
      /\ \A g \in Fd : state[g] = "INUSE" <=> Holds(cache, g)
  BY DEF TypeOK, PoolMatchesCache, Cached, Once, Holds
<1>2. PICK i \in DOMAIN cache : cache[i] = fd /\ cache' = Without(cache, i)
  BY DEF CacheRemove
<1>3. fd \in Fd
  BY <1>1, <1>2
<1>4. /\ cache' \in Seq(Fd) /\ Once(cache')
      /\ \A g : Holds(cache', g) <=> Holds(cache, g) /\ g # fd
  BY <1>1, <1>2, Removed
<1>5. state' = [state EXCEPT ![fd] = "AVAIL"] /\ state \in [Fd -> {"AVAIL", "INUSE"}]
  BY DEF CacheRemove, TypeOK
<1>6. \A g \in Fd : state'[g] = "INUSE" <=> Holds(cache', g)
  BY <1>1, <1>3, <1>4, <1>5
<1>7. PoolMatchesCache'
  BY <1>4, <1>6 DEF PoolMatchesCache, Cached, Once, Holds
<1> QED BY <1>3, <1>4, <1>5, <1>7

(* An fd a client holds is narrowed to itself. *)
LEMMA Narrowed ==
  ASSUME NEW fd \in Fd
  PROVE  fd % FdByte = fd
  BY DEF Fd

-----------------------------------------------------------------------------
(* What the history of mishaps allows to say *)

(* As long as no client misused an fd and no reply was lost, an open object   *)
(* is held by a client, an fd is held by one client as one kind, and the fds  *)
(* that are held are those in use.                                            *)
HeldInv ==
  mishaps \subseteq {"ioerror"} =>
    /\ \A c \in Clients : \A o \in held[c] : state[o.fd] = "INUSE"
    /\ \A c, d \in Clients : \A o \in held[c] : \A q \in held[d] :
         o.fd = q.fd => c = d /\ o = q
    /\ \A o \in opened : \E c \in Clients : o \in held[c]
    /\ \A fd \in Fd : state[fd] = "INUSE" => \E c \in Clients : \E o \in held[c] : o.fd = fd

(* As long as nothing at all went wrong, what is held is open. *)
OpenInv ==
  mishaps = {} => ~fault /\ \A c \in Clients : held[c] \subseteq opened

IInv == TypeOK /\ HeldInv /\ OpenInv

LEMMA Initially == Init => IInv
<1> SUFFICES ASSUME Init PROVE IInv
  OBVIOUS
<1>1. cache \in Seq(Fd)
  BY DEF Init
<1>2. PoolMatchesCache
  BY DEF Init, PoolMatchesCache, Cached
<1>3. TypeOK
  BY <1>1, <1>2 DEF Init, TypeOK, Mishap
<1>4. HeldInv /\ OpenInv
  BY DEF Init, HeldInv, OpenInv
<1> QED BY <1>3, <1>4 DEF IInv
-----------------------------------------------------------------------------
(* One lemma per action that changes something *)

LEMMA OpenKeeps ==
  ASSUME IInv, NEW c \in Clients, NEW kind \in Kind, Open(c, kind)
  PROVE  IInv'
<1> USE DEF IInv
<1>1. PICK fd \in Fd : /\ ~fault /\ Lowest(fd) /\ CacheAdd(fd)
                       /\ IF IsOpen(fd, kind)
                          THEN fault' = TRUE /\ UNCHANGED <<opened, held, mishaps>>
                          ELSE LET o == [fd |-> fd, kind |-> kind]
                               IN /\ opened' = opened \cup {o}
                                  /\ Learn(c, held[c] \cup {o}, mishaps)
                                  /\ UNCHANGED fault
  BY DEF Open
<1> DEFINE o == [fd |-> fd, kind |-> kind]
<1>2. /\ cache' \in Seq(Fd) /\ state' \in [Fd -> {"AVAIL", "INUSE"}] /\ PoolMatchesCache'
      /\ state[fd] = "AVAIL" /\ state' = [state EXCEPT ![fd] = "INUSE"]
      /\ state \in [Fd -> {"AVAIL", "INUSE"}]
  BY <1>1, AfterAdd DEF TypeOK
<1>3. o \in Object
  BY DEF Object
<1>4. /\ held \in [Clients -> SUBSET Object] /\ opened \subseteq Object
      /\ mishaps \subseteq Mishap /\ fault \in BOOLEAN
  BY DEF TypeOK
<1>5. CASE IsOpen(fd, kind)
  <2>1. fault' = TRUE /\ opened' = opened /\ held' = held /\ mishaps' = mishaps
    BY <1>1, <1>5
  <2>2. TypeOK'
    BY <2>1, <1>2, <1>4 DEF TypeOK
  <2>3. ~(mishaps \subseteq {"ioerror"})
    <3> SUFFICES ASSUME mishaps \subseteq {"ioerror"} PROVE FALSE
      OBVIOUS
    <3>1. o \in opened
      BY <1>5 DEF IsOpen
    <3>2. PICK d \in Clients : o \in held[d]
      BY <3>1 DEF HeldInv
    <3>3. state[o.fd] = "INUSE"
      BY <3>2 DEF HeldInv
    <3> QED BY <3>3, <1>2
  <2>4. HeldInv' /\ OpenInv'
    BY <2>1, <2>3 DEF HeldInv, OpenInv
  <2> QED BY <2>2, <2>4
<1>6. CASE ~IsOpen(fd, kind)
  <2>1. opened' = opened \cup {o} /\ fault' = fault
    BY <1>1, <1>6
  <2>2. \/ held' = [held EXCEPT ![c] = held[c] \cup {o}] /\ mishaps' = mishaps
        \/ held' = held /\ mishaps' = mishaps \cup {"lost"}
    BY <1>1, <1>6 DEF Learn
  <2>3. TypeOK'
    <3>1. held' \in [Clients -> SUBSET Object] /\ mishaps' \subseteq Mishap
      BY <2>2, <1>3, <1>4 DEF Mishap
    <3> QED BY <3>1, <2>1, <1>2, <1>3, <1>4 DEF TypeOK
  <2>4. CASE held' = held /\ mishaps' = mishaps \cup {"lost"}
    BY <2>3, <2>4 DEF HeldInv, OpenInv
  <2>5. CASE held' = [held EXCEPT ![c] = held[c] \cup {o}] /\ mishaps' = mishaps
    <3>1. \A d \in Clients : held'[d] = IF d = c THEN held[c] \cup {o} ELSE held[d]
      BY <2>5, <1>4
    <3>2. HeldInv'
      <4> SUFFICES ASSUME mishaps \subseteq {"ioerror"}
                   PROVE  /\ \A d \in Clients : \A q \in held'[d] : state'[q.fd] = "INUSE"
                          /\ \A d, e \in Clients : \A q \in held'[d] : \A r \in held'[e] :
                               q.fd = r.fd => d = e /\ q = r
                          /\ \A q \in opened' : \E d \in Clients : q \in held'[d]
                          /\ \A g \in Fd : state'[g] = "INUSE" =>
                               \E d \in Clients : \E q \in held'[d] : q.fd = g
        BY <2>5 DEF HeldInv
      <4>1. \A d \in Clients : \A q \in held[d] : q.fd \in Fd /\ q.fd # fd
        BY <1>2, <1>4 DEF HeldInv, Object
      <4>2. \A d \in Clients : \A q \in held'[d] : state'[q.fd] = "INUSE"
        BY <4>1, <3>1, <1>2 DEF HeldInv
      <4>3. \A d, e \in Clients : \A q \in held'[d] : \A r \in held'[e] :
              q.fd = r.fd => d = e /\ q = r
        BY <4>1, <3>1 DEF HeldInv
      <4>4. \A q \in opened' : \E d \in Clients : q \in held'[d]
        BY <2>1, <3>1 DEF HeldInv
      <4>5. \A g \in Fd : state'[g] = "INUSE" =>
              \E d \in Clients : \E q \in held'[d] : q.fd = g
        <5> SUFFICES ASSUME NEW g \in Fd, state'[g] = "INUSE"
                     PROVE  \E d \in Clients : \E q \in held'[d] : q.fd = g
          OBVIOUS
        <5>1. CASE g = fd
          <6>1. o \in held'[c] /\ o.fd = g
            BY <3>1, <5>1
          <6> QED BY <6>1
        <5>2. CASE g # fd
          <6>1. state[g] = "INUSE"
            BY <5>2, <1>2
          <6>2. PICK d \in Clients : \E q \in held[d] : q.fd = g
            BY <6>1 DEF HeldInv
          <6> QED BY <6>2, <3>1
        <5> QED BY <5>1, <5>2
      <4> QED BY <4>2, <4>3, <4>4, <4>5
    <3>3. OpenInv'
      BY <2>1, <2>5, <3>1 DEF OpenInv
    <3> QED BY <2>3, <3>2, <3>3
  <2> QED BY <2>2, <2>4, <2>5
<1> QED BY <1>5, <1>6

LEMMA CloseKeeps ==
  ASSUME IInv, NEW c \in Clients, NEW kind \in Kind, NEW fd \in CallFds, Close(c, kind, fd)
  PROVE  IInv'
<1> USE DEF IInv
<1> DEFINE o == [fd |-> fd, kind |-> kind]
           n == fd % FdByte
<1>1. /\ opened' = opened \ {[fd |-> n, kind |-> kind]} /\ fault' = fault
      /\ CacheRemove(n)
  BY DEF Close
<1>2. /\ n \in Fd
      /\ cache' \in Seq(Fd) /\ state' \in [Fd -> {"AVAIL", "INUSE"}] /\ PoolMatchesCache'
      /\ state' = [state EXCEPT ![n] = "AVAIL"] /\ state \in [Fd -> {"AVAIL", "INUSE"}]
  BY <1>1, AfterRemove DEF TypeOK
<1>3. /\ held \in [Clients -> SUBSET Object] /\ opened \subseteq Object
      /\ mishaps \subseteq Mishap /\ fault \in BOOLEAN
  BY DEF TypeOK
<1>4. \/ held' = [held EXCEPT ![c] = held[c] \ {o}] /\ mishaps' = After(c, kind, fd)
      \/ held' = held /\ mishaps' = After(c, kind, fd) \cup {"lost"}
  BY DEF Close, Learn, Closed
<1>5. TypeOK'
  <2>1. held' \in [Clients -> SUBSET Object] /\ mishaps' \subseteq Mishap
    BY <1>3, <1>4 DEF After, Mishap
  <2> QED BY <2>1, <1>1, <1>2, <1>3 DEF TypeOK
<1>6. CASE ~(mishaps' \subseteq {"ioerror"})
  BY <1>5, <1>6 DEF HeldInv, OpenInv
<1>7. CASE mishaps' \subseteq {"ioerror"}
  <2>1. /\ o \in held[c] /\ mishaps' = mishaps
        /\ held' = [held EXCEPT ![c] = held[c] \ {o}]
    BY <1>4, <1>7 DEF After
  <2>2. fd \in Fd /\ n = fd
    <3>1. fd \in Fd
      BY <2>1, <1>3 DEF Object
    <3> QED BY <3>1, Narrowed
  <2>3. \A d \in Clients : held'[d] = IF d = c THEN held[c] \ {o} ELSE held[d]
    BY <2>1, <1>3
  <2>4. opened' = opened \ {o}
    BY <1>1, <2>2
  <2>5. \A d \in Clients : \A q \in held'[d] : q \in held[d] /\ q.fd \in Fd /\ q.fd # fd
    <3> SUFFICES ASSUME NEW d \in Clients, NEW q, q \in held'[d]
                 PROVE  q \in held[d] /\ q.fd \in Fd /\ q.fd # fd
      OBVIOUS
    <3>1. q \in held[d] /\ q.fd \in Fd /\ (d = c => q # o)
      BY <2>3, <1>3 DEF Object
    <3>2. q.fd = fd => d = c /\ q = o
      BY <3>1, <2>1, <1>7 DEF HeldInv
    <3> QED BY <3>1, <3>2
  <2>6. \A d \in Clients : \A q \in held[d] : q # o => q \in held'[d]
    BY <2>3
  <2>7. HeldInv'
    <3>1. \A d \in Clients : \A q \in held'[d] : state'[q.fd] = "INUSE"
      BY <2>1, <2>2, <2>5, <1>2, <1>7 DEF HeldInv
    <3>2. \A d, e \in Clients : \A q \in held'[d] : \A r \in held'[e] :
            q.fd = r.fd => d = e /\ q = r
      BY <2>1, <2>5, <1>7 DEF HeldInv
    <3>3. \A q \in opened' : \E d \in Clients : q \in held'[d]
      BY <2>1, <2>4, <2>6, <1>7 DEF HeldInv
    <3>4. \A g \in Fd : state'[g] = "INUSE" =>
            \E d \in Clients : \E q \in held'[d] : q.fd = g
      <4> SUFFICES ASSUME NEW g \in Fd, state'[g] = "INUSE"
                   PROVE  \E d \in Clients : \E q \in held'[d] : q.fd = g
        OBVIOUS
      <4>1. g # fd /\ state[g] = "INUSE"
        BY <1>2, <2>2
      <4>2. PICK d \in Clients : \E q \in held[d] : q.fd = g
        BY <4>1, <2>1, <1>7 DEF HeldInv
      <4>3. PICK q \in held[d] : q.fd = g
        BY <4>2
      <4> QED BY <4>1, <4>3, <2>6
    <3> QED BY <3>1, <3>2, <3>3, <3>4 DEF HeldInv
  <2>8. OpenInv'
    <3> SUFFICES ASSUME mishaps = {}
                 PROVE  ~fault /\ \A d \in Clients : held'[d] \subseteq opened'
      BY <2>1, <1>1 DEF OpenInv
    <3>1. ~fault /\ \A d \in Clients : held[d] \subseteq opened
      BY DEF OpenInv
    <3>2. \A d \in Clients : \A q \in held'[d] : q \in opened'
      BY <3>1, <2>4, <2>5
    <3> QED BY <3>1, <3>2
  <2> QED BY <1>5, <2>7, <2>8
<1> QED BY <1>6, <1>7
(* A close that fails leaves descriptors and handles as they were. *)
LEMMA FileCloseErrorKeeps ==
  ASSUME IInv, NEW c \in Clients, NEW fd \in CallFds, FileCloseError(c, fd)
  PROVE  IInv'
<1>1. /\ state' = state /\ cache' = cache /\ held' = held /\ fault' = fault
      /\ opened' \subseteq opened
      /\ mishaps \subseteq mishaps' /\ "ioerror" \in mishaps' /\ mishaps' \subseteq Mishap
  BY DEF FileCloseError, After, IInv, TypeOK, Mishap
<1>2. PoolMatchesCache'
  BY <1>1 DEF IInv, TypeOK, PoolMatchesCache, Cached
<1>3. TypeOK'
  BY <1>1, <1>2 DEF IInv, TypeOK
<1>4. HeldInv'
  BY <1>1 DEF IInv, HeldInv
<1>5. OpenInv'
  BY <1>1 DEF OpenInv
<1> QED BY <1>3, <1>4, <1>5 DEF IInv

LEMMA UseFaultKeeps ==
  ASSUME IInv, NEW c \in Clients, NEW kind \in Kind, NEW fd \in CallFds, UseFault(c, kind, fd)
  PROVE  IInv'
<1>1. /\ state' = state /\ cache' = cache /\ held' = held /\ opened' = opened
      /\ fault' = TRUE /\ mishaps' = After(c, kind, fd)
      /\ mishaps \subseteq mishaps' /\ mishaps' \subseteq Mishap
      /\ ~IsOpen(fd % FdByte, kind)
  BY DEF UseFault, After, IInv, TypeOK, Mishap
<1>2. PoolMatchesCache'
  BY <1>1 DEF IInv, TypeOK, PoolMatchesCache, Cached
<1>3. TypeOK'
  BY <1>1, <1>2 DEF IInv, TypeOK
<1>4. HeldInv'
  BY <1>1 DEF IInv, HeldInv
<1>5. mishaps' # {}
  <2> SUFFICES ASSUME mishaps' = {} PROVE FALSE
    OBVIOUS
  <2>1. [fd |-> fd, kind |-> kind] \in held[c]
    BY <1>1 DEF After
  <2>2. [fd |-> fd, kind |-> kind] \in opened
    BY <2>1, <1>1 DEF IInv, OpenInv
  <2>3. fd \in Fd
    <3>1. [fd |-> fd, kind |-> kind] \in Object
      BY <2>2 DEF IInv, TypeOK
    <3> QED BY <3>1 DEF Object
  <2> QED BY <2>2, <2>3, <1>1, Narrowed DEF IsOpen
<1>6. OpenInv'
  BY <1>5 DEF OpenInv
<1> QED BY <1>3, <1>4, <1>6 DEF IInv

LEMMA UseKeeps ==
  ASSUME IInv, NEW c \in Clients, NEW kind \in Kind, NEW fd \in CallFds, Use(c, kind, fd)
  PROVE  IInv'
<1>1. /\ state' = state /\ cache' = cache /\ held' = held /\ opened' = opened
      /\ fault' = fault /\ mishaps \subseteq mishaps' /\ mishaps' \subseteq Mishap
  BY DEF Use, After, IInv, TypeOK, Mishap
<1>2. PoolMatchesCache'
  BY <1>1 DEF IInv, TypeOK, PoolMatchesCache, Cached
<1>3. TypeOK'
  BY <1>1, <1>2 DEF IInv, TypeOK
<1>4. HeldInv' /\ OpenInv'
  BY <1>1 DEF IInv, HeldInv, OpenInv
<1> QED BY <1>3, <1>4 DEF IInv

LEMMA StutterKeeps ==
  ASSUME IInv, UNCHANGED vars
  PROVE  IInv'
<1>1. PoolMatchesCache'
  BY DEF IInv, TypeOK, PoolMatchesCache, Cached, vars
<1>2. TypeOK'
  BY <1>1 DEF IInv, TypeOK, vars
<1>3. HeldInv' /\ OpenInv'
  BY DEF IInv, HeldInv, OpenInv, vars
<1> QED BY <1>2, <1>3 DEF IInv

LEMMA StepKeeps == IInv /\ [Next]_vars => IInv'
<1> SUFFICES ASSUME IInv, [Next]_vars PROVE IInv'
  OBVIOUS
<1>1. CASE UNCHANGED vars
  BY <1>1, StutterKeeps
<1>2. ASSUME NEW c \in Clients, Call(c) PROVE IInv'
  <2>1. ASSUME NEW kind \in Kind, Open(c, kind) PROVE IInv'
    BY <2>1, OpenKeeps
  <2>2. ASSUME OpenFails PROVE IInv'
    BY <2>2, StutterKeeps DEF OpenFails
  <2>3. ASSUME NEW fd \in CallFds, FileClose(c, fd) PROVE IInv'
    BY <2>3, CloseKeeps DEF FileClose, Kind
  <2>4. ASSUME NEW fd \in CallFds, FileCloseError(c, fd) PROVE IInv'
    BY <2>4, FileCloseErrorKeeps
  <2>5. ASSUME NEW fd \in CallFds, DirClose(c, fd) PROVE IInv'
    BY <2>5, CloseKeeps DEF DirClose, Kind
  <2>6. ASSUME NEW fd \in CallFds, NEW kind \in Kind, UseFault(c, kind, fd) PROVE IInv'
    BY <2>6, UseFaultKeeps
  <2>7. ASSUME NEW fd \in CallFds, NEW kind \in Kind, Use(c, kind, fd) PROVE IInv'
    BY <2>7, UseKeeps
  <2> QED BY <1>2, <2>1, <2>2, <2>3, <2>4, <2>5, <2>6, <2>7 DEF Call
<1> QED BY <1>1, <1>2 DEF Next

LEMMA Invariance == Spec => []IInv
  BY Initially, StepKeeps, PTL DEF Spec

-----------------------------------------------------------------------------
(* The theorems *)

(* Whatever the clients call, whatever fails and whatever reply is lost: the  *)
(* descriptors in use are those in the cache, each once.                      *)
THEOREM TypeCorrect == Spec => []TypeOK
<1>1. IInv => TypeOK
  BY DEF IInv
<1> QED BY <1>1, Invariance, PTL

(* What a client holds stays open and its own, for every pool and any number  *)
(* of clients, as long as nothing has gone wrong around the handlers.         *)
THEOREM HandlesStayLive == Spec => []HandlesLive
<1>1. IInv => HandlesLive
  <2> SUFFICES ASSUME IInv, mishaps = {}, NEW c \in Clients, NEW o, o \in held[c]
               PROVE  /\ o \in opened
                      /\ Cached(o.fd)
                      /\ \A d \in Clients \ {c} : \A q \in held[d] : q.fd # o.fd
    BY DEF HandlesLive
  <2>1. o \in opened /\ o \in Object
    BY DEF IInv, OpenInv, TypeOK
  <2>2. Cached(o.fd)
    <3>1. state[o.fd] = "INUSE" /\ o.fd \in Fd
      BY <2>1 DEF IInv, HeldInv, Object
    <3> QED BY <3>1 DEF IInv, TypeOK, PoolMatchesCache
  <2>3. \A d \in Clients \ {c} : \A q \in held[d] : q.fd # o.fd
    BY DEF IInv, HeldInv
  <2> QED BY <2>1, <2>2, <2>3
<1> QED BY <1>1, Invariance, PTL

(* The assertions of littlefs never fail under the same condition.            *)
THEOREM FaultFree == Spec => []NoFault
<1>1. IInv => NoFault
  BY DEF IInv, OpenInv, NoFault
<1> QED BY <1>1, Invariance, PTL

(* No descriptor is lost, also when closes fail.                              *)
THEOREM LeakFree == Spec => []NoLeak
<1>1. IInv => NoLeak
  BY DEF IInv, HeldInv, NoLeak
<1> QED BY <1>1, Invariance, PTL
=============================================================================
