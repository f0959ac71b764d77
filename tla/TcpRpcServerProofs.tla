------------------------- MODULE TcpRpcServerProofs -------------------------
(***************************************************************************)
(* Theorems about TcpRpcServer, for any number of clients and connections, *)
(* all calls with the fields of a header, every size of the buffers and    *)
(* every way of cutting the stream of a connection into reads.             *)
(*                                                                         *)
(* The deframer outlives the connections.  The invariant says how much of  *)
(* a request each place that a part of it may be in holds: the deframer,   *)
(* the bytes the last read returned, and those still on the connection.    *)
(***************************************************************************)
EXTENDS TcpRpcServer, CobsProofs

Message == UNION {Requests[c] : c \in Clients}

CallRecord == [unpacks : BOOLEAN, seqn : Nat, tag : Nat, known : BOOLEAN,
               no_reply : BOOLEAN, status : StatusEnum]

ReplyRecord == [has_header : BOOLEAN, seqn : Nat, status : StatusEnum,
                which_callset : Nat, payload : [seqn : Nat, callset : Nat]]

(* What the constants are. *)
ServerAssumption ==
  /\ NoClient \notin Clients
  /\ RxSize \in Nat
  /\ Message \subseteq Seq(Octet)
  /\ \A m \in DOMAIN CallOf : CallOf[m] \in CallRecord

(* Clients that wait for the answer to a request before they make the next,  *)
(* and requests that fit the buffers and that the codec can carry.           *)
Paced ==
  /\ Window = 1
  /\ \A m \in Message :
       /\ m # << >> /\ ~FullBlockThenZero(m)
       /\ Len(m) <= MaxOut /\ Len(Encoded(m)) + 2 <= Depth

(* Every request calls a handler that there is, and wants a reply.           *)
AllAnswered ==
  \A m \in Message :
    /\ m \in DOMAIN CallOf /\ CallOf[m].unpacks /\ ~CallOf[m].no_reply
    /\ Lookup(CallOf[m], CallOf[m].tag % FrameByte) = RPC_SUCCESS

-----------------------------------------------------------------------------
Distinct(s) == \A i, j \in 1..Len(s) : s[i] = s[j] => i = j

TypeInv ==
  /\ TypeOK /\ DeframerOK(deframer)
  /\ backlog \in Seq(Clients) /\ Distinct(backlog)
  /\ up \in [Clients -> Seq(Octet)] /\ data \in Seq(Octet)
  /\ asked \in [Clients -> Seq(Message)]
  /\ replies \in [Clients -> Seq(ReplyRecord)] /\ frame \in ReplyRecord
  /\ readDone \in BOOLEAN

(* What the server has not passed to the deframer yet.                       *)
Left == IF pc = "callback" THEN data \o up[cur] ELSE up[cur]

(* A part of m is in the deframer, perhaps none, and the others are left.    *)
Through(m) ==
  \/ deframer = Flushed /\ Left = Frame(Encoded(m))
  \/ /\ deframer.state = "FIND_EOF" /\ deframer.fifo = << >> /\ ZeroFreeSeq(deframer.work)
     /\ deframer.work \o Left = Closed(Encoded(m))

InHand ==
  \/ deframer = Flushed /\ Left = << >> /\ (AllAnswered => Unanswered(cur) = 0)
  \/ Unanswered(cur) = 1 /\ Through(asked[cur][Len(asked[cur])])

(* Nothing of what came in on a waiting connection was read.                 *)
Fresh(c) ==
  /\ replies[c] = << >>
  /\ \/ asked[c] = << >> /\ up[c] = << >>
     \/ \E m \in Message : asked[c] = <<m>> /\ up[c] = Frame(Encoded(m))

(* The replies on a connection are those to the first requests on it.        *)
Matched(c) ==
  /\ Len(replies[c]) <= Len(asked[c]) /\ Len(asked[c]) <= Len(replies[c]) + 1
  /\ \A i \in 1..Len(replies[c]) : replies[c][i].seqn = CallOf[asked[c][i]].seqn

Peer(c) ==
  /\ conn[c] # "reset"
  /\ conn[c] = "none" => up[c] = << >>
  /\ conn[c] # "none" => Matched(c)

Waiting == \A i \in 1..Len(backlog) : Fresh(backlog[i])

Serving ==
  /\ cur = NoClient => deframer = Flushed
  /\ cur # NoClient => InHand
  /\ cur # NoClient /\ (readDone \/ pc = "close") => conn[cur] = "finished" /\ up[cur] = << >>

ServeInv == ~vanished => (\A c \in Clients : Peer(c)) /\ Waiting /\ Serving

-----------------------------------------------------------------------------
(* What the steps do to the data. *)

(* A waiting connection more, and the first one taken off. *)
LEMMA OneMoreWaits ==
  ASSUME NEW s \in Seq(Clients), Distinct(s), NEW c \in Clients, c \notin ToSet(s)
  PROVE  /\ Append(s, c) \in Seq(Clients) /\ Distinct(Append(s, c))
         /\ ToSet(Append(s, c)) = ToSet(s) \cup {c}
         /\ Len(Append(s, c)) = Len(s) + 1
         /\ \A i \in 1..(Len(s) + 1) : Append(s, c)[i] = IF i <= Len(s) THEN s[i] ELSE c
<1> DEFINE longer == Append(s, c)
           n == Len(s)
<1>1. /\ longer \in Seq(Clients) /\ Len(longer) = n + 1 /\ n \in Nat
      /\ DOMAIN longer = 1..(n + 1) /\ DOMAIN s = 1..n
      /\ longer[n + 1] = c
      /\ \A i \in 1..n : longer[i] = s[i]
  OBVIOUS
<1>2. \A i \in 1..n : s[i] # c
  BY <1>1 DEF ToSet
<1>3. \A i, j \in 1..n : s[i] = s[j] => i = j
  BY DEF Distinct
<1> HIDE DEF longer, n
<1>4. \A i \in 1..(n + 1) : i \in 1..n \/ i = n + 1
  BY <1>1
<1>5. \A i \in 1..n : i \in 1..(n + 1) /\ i <= n /\ i # n + 1
  BY <1>1
<1>6. \A i \in 1..(n + 1) : longer[i] = IF i <= n THEN s[i] ELSE c
  <2>1. ~(n + 1 <= n)
    BY <1>1
  <2> QED BY <1>1, <1>4, <1>5, <2>1
<1>7. Distinct(longer)
  BY <1>1, <1>2, <1>3, <1>4 DEF Distinct
<1>8. ToSet(longer) = ToSet(s) \cup {c}
  <2>1. \A x \in ToSet(s) : x \in ToSet(longer)
    BY <1>1, <1>5 DEF ToSet
  <2>2. c \in ToSet(longer)
    BY <1>1 DEF ToSet
  <2>3. \A x \in ToSet(longer) : x \in ToSet(s) \cup {c}
    BY <1>1, <1>4 DEF ToSet
  <2> QED BY <2>1, <2>2, <2>3
<1> QED BY <1>1, <1>6, <1>7, <1>8 DEF longer, n

LEMMA FirstTakenOff ==
  ASSUME NEW s \in Seq(Clients), Distinct(s), s # << >>
  PROVE  /\ Tail(s) \in Seq(Clients) /\ Distinct(Tail(s)) /\ Head(s) \in Clients
         /\ Head(s) = s[1] /\ 1 \in 1..Len(s)
         /\ Head(s) \notin ToSet(Tail(s)) /\ ToSet(s) = ToSet(Tail(s)) \cup {Head(s)}
         /\ \A i \in 1..Len(Tail(s)) : i + 1 \in 1..Len(s) /\ Tail(s)[i] = s[i + 1]
<1> DEFINE shorter == Tail(s)
           n == Len(s)
<1>1. /\ shorter \in Seq(Clients) /\ Len(shorter) = n - 1 /\ n \in Nat /\ n > 0
      /\ DOMAIN shorter = 1..(n - 1) /\ DOMAIN s = 1..n
      /\ Head(s) = s[1] /\ Head(s) \in Clients
      /\ \A i \in 1..(n - 1) : shorter[i] = s[i + 1]
  BY EmptySeq, HeadTailProperties
<1>2. \A i, j \in 1..n : s[i] = s[j] => i = j
  BY DEF Distinct
<1> HIDE DEF shorter, n
<1>3. /\ 1 \in 1..n /\ \A i \in 1..(n - 1) : i \in Int /\ i + 1 \in 1..n /\ i + 1 # 1
      /\ \A i \in 1..n : i = 1 \/ (i - 1 \in 1..(n - 1) /\ (i - 1) + 1 = i)
  BY <1>1
<1>4. Distinct(shorter)
  <2> SUFFICES ASSUME NEW i \in 1..(n - 1), NEW j \in 1..(n - 1), shorter[i] = shorter[j]
               PROVE  i = j
    BY <1>1 DEF Distinct
  <2>1. i + 1 = j + 1
    BY <1>1, <1>2, <1>3
  <2> QED BY <1>3, <2>1
<1>5. Head(s) \notin ToSet(shorter)
  BY <1>1, <1>2, <1>3 DEF ToSet
<1>6. ToSet(s) = ToSet(shorter) \cup {Head(s)}
  <2>1. \A x \in ToSet(shorter) : x \in ToSet(s)
    BY <1>1, <1>3 DEF ToSet
  <2>2. Head(s) \in ToSet(s)
    BY <1>1, <1>3 DEF ToSet
  <2>3. \A x \in ToSet(s) : x \in ToSet(shorter) \cup {Head(s)}
    <3> SUFFICES ASSUME NEW i \in 1..n PROVE s[i] \in ToSet(shorter) \cup {Head(s)}
      BY <1>1 DEF ToSet
    <3>1. CASE i = 1
      BY <1>1, <3>1
    <3>2. CASE i # 1
      <4>1. i - 1 \in 1..(n - 1) /\ (i - 1) + 1 = i
        BY <1>3, <3>2
      <4>2. shorter[i - 1] = s[i]
        BY <1>1, <4>1
      <4> QED BY <1>1, <4>1, <4>2 DEF ToSet
    <3> QED BY <3>1, <3>2
  <2> QED BY <2>1, <2>2, <2>3
<1> QED BY <1>1, <1>3, <1>4, <1>5, <1>6 DEF shorter, n

(* The reply to a call tells of it; one that a handler is found for and that *)
(* wants a reply gets it. *)
LEMMA ServerReplies ==
  ASSUME NEW f \in ReplyRecord, NEW call \in CallRecord
  PROVE  LET served == ProtoRpc_server(f, call) IN
         /\ served.frame \in ReplyRecord
         /\ served.reply.packed =>
              served.reply.frame \in ReplyRecord /\ served.reply.frame.seqn = call.seqn
         /\ call.unpacks /\ ~call.no_reply /\ Lookup(call, call.tag % FrameByte) = RPC_SUCCESS
              => served.reply.packed
<1> DEFINE which == call.tag % FrameByte
           found == Lookup(call, which)
           served == ProtoRpc_server(f, call)
<1>1. which \in Nat
  BY CallsetAssumption DEF CallRecord
<1> HIDE DEF which
<1>2. found \in StatusEnum
  BY DEF Lookup, StatusEnum, RPC_SUCCESS, RPC_BAD_RESOLVER_LOOKUP, RPC_BAD_HANDLER_LOOKUP,
         RPC_HANDLER_ERROR
<1> HIDE DEF found
<1>3. ASSUME NEW answer \in ReplyRecord
      PROVE  /\ Pack(answer).packed => Pack(answer).frame = answer
             /\ answer.has_header => Pack(answer).packed
  BY DEF Pack, NoReply
<1>4. CASE ~call.unpacks
  BY <1>4 DEF ProtoRpc_server, Served, NoReply
<1>5. CASE call.unpacks /\ found # RPC_SUCCESS
  <2> DEFINE answer == [f EXCEPT !.seqn = call.seqn, !.status = found]
  <2>1. answer \in ReplyRecord /\ answer.seqn = call.seqn
    BY <1>2 DEF ReplyRecord, CallRecord
  <2>2. served = Served(answer, Pack(answer), FALSE)
    BY <1>5 DEF ProtoRpc_server, BadLookup, which, found
  <2> HIDE DEF answer, served
  <2>3. served.frame = answer /\ served.reply = Pack(answer)
    BY <2>2 DEF Served
  <2>4. ~(Lookup(call, call.tag % FrameByte) = RPC_SUCCESS)
    BY <1>5 DEF found, which
  <2>5. Pack(answer).packed => Pack(answer).frame = answer
    BY <1>3, <2>1
  <2> QED BY <2>1, <2>3, <2>4, <2>5 DEF served
<1>6. CASE call.unpacks /\ found = RPC_SUCCESS
  <2> DEFINE handled == Handled(f, call, which)
             answer == [handled EXCEPT !.seqn = call.seqn, !.has_header = TRUE,
                                       !.which_callset = which]
  <2>1. handled \in ReplyRecord
    BY <1>1 DEF Handled, ReplyRecord, CallRecord
  <2>2. served = IF call.no_reply THEN Served(handled, NoReply, TRUE)
                 ELSE Served(answer, Pack(answer), TRUE)
    BY <1>6 DEF ProtoRpc_server, Answered, which, found
  <2> HIDE DEF handled
  <2>3. answer \in ReplyRecord /\ answer.seqn = call.seqn /\ answer.has_header
    BY <1>1, <2>1 DEF ReplyRecord, CallRecord
  <2> HIDE DEF answer, served
  <2>4. CASE call.no_reply
    <3>1. served.frame = handled /\ ~served.reply.packed
      BY <2>2, <2>4 DEF Served, NoReply
    <3> QED BY <2>1, <2>4, <3>1 DEF served
  <2>5. CASE ~call.no_reply
    <3>1. served.frame = answer /\ served.reply = Pack(answer)
      BY <2>2, <2>5 DEF Served
    <3>2. Pack(answer).packed /\ Pack(answer).frame = answer
      BY <1>3, <2>3
    <3> QED BY <2>3, <3>1, <3>2 DEF served
  <2> QED BY <2>4, <2>5
<1> QED BY <1>4, <1>5, <1>6

(* What the callback hands to ProtoRpc, also if it is no call. *)
LEMMA UnpackedReplies ==
  ASSUME ServerAssumption, NEW f \in ReplyRecord, NEW m
  PROVE  LET served == ProtoRpc_server(f, Unpack(m)) IN
         /\ served.frame \in ReplyRecord
         /\ served.reply.packed =>
              /\ served.reply.frame \in ReplyRecord
              /\ m \in DOMAIN CallOf /\ served.reply.frame.seqn = CallOf[m].seqn
         /\ AllAnswered /\ m \in Message => served.reply.packed
<1>1. CASE m \in DOMAIN CallOf
  <2>1. Unpack(m) = CallOf[m] /\ CallOf[m] \in CallRecord
    BY <1>1 DEF Unpack, ServerAssumption
  <2> QED BY <1>1, <2>1, ServerReplies DEF AllAnswered
<1>2. CASE m \notin DOMAIN CallOf
  <2>1. ProtoRpc_server(f, Unpack(m)) = Served(f, NoReply, FALSE)
    BY <1>2 DEF Unpack, NotACall, ProtoRpc_server
  <2> QED BY <1>2, <2>1 DEF Served, NoReply, AllAnswered
<1> QED BY <1>1, <1>2

-----------------------------------------------------------------------------
(* Types *)

LEMMA FlushedIsOK == DeframerOK(Flushed) /\ Flushed \in Deframer
  BY FlushedOK DEF DeframerOK

LEMMA InitTypeInv ==
  ASSUME ServerAssumption, Init
  PROVE  TypeInv
<1>1. DeframerOK(deframer) /\ deframer \in Deframer
  BY FlushedIsOK DEF Init
<1>2. frame \in ReplyRecord
  BY DEF Init, ZeroFrame, Nobody, ReplyRecord, StatusEnum, RPC_SUCCESS
<1>3. /\ backlog = << >> /\ backlog \in Seq(Clients) /\ ToSet(backlog) = {} /\ Distinct(backlog)
  BY EmptySeq DEF Init, ToSet, Distinct
<1>4. /\ up \in [Clients -> Seq(Octet)] /\ data \in Seq(Octet)
      /\ asked \in [Clients -> Seq(Message)] /\ replies \in [Clients -> Seq(ReplyRecord)]
  <2>1. << >> \in Seq(Octet) /\ << >> \in Seq(Message) /\ << >> \in Seq(ReplyRecord)
    OBVIOUS
  <2> QED BY <2>1 DEF Init
<1>5. TypeOK
  BY <1>1, <1>3 DEF Init, TypeOK, ConnState, ServerAssumption
<1> QED BY <1>1, <1>2, <1>3, <1>4, <1>5 DEF TypeInv, Init

(* What a client sends. *)
LEMMA FrameSent ==
  ASSUME ServerAssumption, NEW m \in Message
  PROVE  m \in Seq(Octet) /\ Encoded(m) \in Seq(Octet) /\ Frame(Encoded(m)) \in Seq(Octet)
<1>1. m \in Seq(Octet)
  BY DEF ServerAssumption
<1>2. Encoded(m) \in Seq(Octet)
  BY <1>1, EncodedBytes
<1> QED BY <1>1, <1>2, FrameBytes

LEMMA ConnectType ==
  ASSUME ServerAssumption, TypeInv, NEW c \in Clients, Connect(c)
  PROVE  TypeInv'
<1>1. /\ conn[c] = "none" /\ pc \notin {"listen", "exited"}
      /\ conn' = [conn EXCEPT ![c] = "open"]
      /\ backlog' = Append(backlog, c)
      /\ asked' = [asked EXCEPT ![c] = << >>] /\ replies' = [replies EXCEPT ![c] = << >>]
      /\ UNCHANGED <<pc, cur, data, readDone, deframer, frame, up>>
  BY DEF Connect
<1>2. /\ conn \in [Clients -> ConnState]
      /\ \A d \in Clients : conn[d] # "none" <=> d = cur \/ d \in ToSet(backlog)
      /\ backlog \in Seq(Clients) /\ Distinct(backlog)
      /\ asked \in [Clients -> Seq(Message)] /\ replies \in [Clients -> Seq(ReplyRecord)]
  BY DEF TypeInv, TypeOK
<1>3. c # cur /\ c \notin ToSet(backlog)
  BY <1>1, <1>2
<1>4. backlog' \in Seq(Clients) /\ Distinct(backlog') /\ ToSet(backlog') = ToSet(backlog) \cup {c}
  BY <1>1, <1>2, <1>3, OneMoreWaits
<1>5. asked' \in [Clients -> Seq(Message)] /\ replies' \in [Clients -> Seq(ReplyRecord)]
  <2>1. << >> \in Seq(Message) /\ << >> \in Seq(ReplyRecord)
    OBVIOUS
  <2> QED BY <1>1, <1>2, <2>1
<1>6. conn' \in [Clients -> ConnState]
      /\ \A d \in Clients : conn'[d] # "none" <=> d = cur' \/ d \in ToSet(backlog')
  BY <1>1, <1>2, <1>4 DEF ConnState
<1>7. TypeOK'
  BY <1>1, <1>3, <1>4, <1>6 DEF TypeInv, TypeOK
<1> QED BY <1>1, <1>4, <1>5, <1>7 DEF TypeInv

(* The steps that leave the connections of the server as they are. *)
LEMMA ClientType ==
  ASSUME ServerAssumption, TypeInv, NEW c \in Clients, Ask(c) \/ Finish(c) \/ Abort(c)
  PROVE  TypeInv'
<1>1. UNCHANGED serverVars /\ UNCHANGED replies
  BY DEF Ask, Finish, Abort
<1>2. conn' \in [Clients -> ConnState]
      /\ \A d \in Clients : conn'[d] # "none" <=> conn[d] # "none"
  <2>1. conn \in [Clients -> ConnState]
    BY DEF TypeInv, TypeOK
  <2>2. \/ UNCHANGED conn
        \/ conn[c] = "open" /\ \E end \in {"finished", "reset"} : conn' = [conn EXCEPT ![c] = end]
    BY DEF Ask, Finish, Abort
  <2> QED BY <2>1, <2>2 DEF ConnState
<1>3. asked' \in [Clients -> Seq(Message)]
  <2>1. asked \in [Clients -> Seq(Message)]
    BY DEF TypeInv
  <2>2. CASE Ask(c)
    <3>1. PICK m \in Requests[c] : asked' = [asked EXCEPT ![c] = Append(@, m)]
      BY <2>2 DEF Ask
    <3>2. m \in Message
      BY DEF Message
    <3>3. Append(asked[c], m) \in Seq(Message)
      BY <2>1, <3>2, AppendProperties
    <3> QED BY <2>1, <3>1, <3>3
  <2>3. CASE Finish(c) \/ Abort(c)
    BY <2>1, <2>3 DEF Finish, Abort, clientVars
  <2> QED BY <2>2, <2>3
<1>4. up' \in [Clients -> Seq(Octet)]
  <2>1. up \in [Clients -> Seq(Octet)]
    BY DEF TypeInv
  <2>2. CASE Ask(c)
    <3>1. PICK m \in Requests[c] : up' = [up EXCEPT ![c] = @ \o Frame(Encoded(m))]
      BY <2>2 DEF Ask
    <3>2. Frame(Encoded(m)) \in Seq(Octet)
      <4>1. m \in Message
        BY DEF Message
      <4> QED BY <4>1, FrameSent
    <3>3. up[c] \o Frame(Encoded(m)) \in Seq(Octet)
      BY <2>1, <3>2, ConcatProperties
    <3> QED BY <2>1, <3>1, <3>3
  <2>3. CASE Finish(c)
    BY <2>1, <2>3 DEF Finish, clientVars
  <2>4. CASE Abort(c)
    <3>1. PICK n \in 0..Len(up[c]) : up' = [up EXCEPT ![c] = SubSeq(@, 1, n)]
      BY <2>4 DEF Abort
    <3>2. SubSeq(up[c], 1, n) \in Seq(Octet)
      BY <2>1, Cut
    <3> QED BY <2>1, <3>1, <3>2
  <2> QED BY <2>2, <2>3, <2>4
<1>5. TypeOK'
  BY <1>1, <1>2 DEF TypeInv, TypeOK, serverVars
<1> QED BY <1>1, <1>3, <1>4, <1>5 DEF TypeInv, serverVars

LEMMA AcceptType ==
  ASSUME ServerAssumption, TypeInv, Listen \/ Accept \/ AcceptError
  PROVE  TypeInv'
<1>1. CASE Listen
  <2>1. TypeOK'
    BY <1>1 DEF Listen, TypeInv, TypeOK, clientVars
  <2> QED BY <1>1, <2>1 DEF Listen, TypeInv, clientVars
<1>2. CASE Accept
  <2>1. /\ pc = "accept" /\ backlog # << >> /\ pc' = "read"
        /\ cur' = Head(backlog) /\ backlog' = Tail(backlog) /\ readDone' = FALSE
        /\ UNCHANGED <<data, deframer, frame, conn, up, asked, replies>>
    BY <1>2 DEF Accept, clientVars
  <2>2. /\ backlog \in Seq(Clients) /\ Distinct(backlog)
        /\ \A d \in Clients : conn[d] # "none" <=> d = cur \/ d \in ToSet(backlog)
        /\ cur = NoClient
    BY <2>1 DEF TypeInv, TypeOK
  <2>3. /\ backlog' \in Seq(Clients) /\ Distinct(backlog') /\ cur' \in Clients
        /\ cur' \notin ToSet(backlog') /\ ToSet(backlog) = ToSet(backlog') \cup {cur'}
    BY <2>1, <2>2, FirstTakenOff
  <2>4. cur' # NoClient /\ \A d \in Clients : d # NoClient
    BY <2>3 DEF ServerAssumption
  <2>5. TypeOK'
    BY <2>1, <2>2, <2>3, <2>4 DEF TypeInv, TypeOK
  <2> QED BY <2>1, <2>3, <2>5 DEF TypeInv
<1>3. CASE AcceptError
  <2>1. /\ pc = "accept" /\ pc' = "exited" /\ backlog' = << >>
        /\ conn' = [c \in Clients |-> IF c \in ToSet(backlog) THEN "none" ELSE conn[c]]
        /\ up' = [c \in Clients |-> IF c \in ToSet(backlog) THEN << >> ELSE up[c]]
        /\ UNCHANGED <<cur, data, readDone, deframer, frame, asked, replies>>
    BY <1>3 DEF AcceptError
  <2>2. /\ cur = NoClient /\ conn \in [Clients -> ConnState]
        /\ \A d \in Clients : conn[d] # "none" <=> d = cur \/ d \in ToSet(backlog)
    BY <2>1 DEF TypeInv, TypeOK
  <2>3. backlog' \in Seq(Clients) /\ Distinct(backlog') /\ ToSet(backlog') = {}
    BY <2>1, EmptySeq DEF Distinct, ToSet
  <2>4. up' \in [Clients -> Seq(Octet)]
    <3>1. << >> \in Seq(Octet)
      OBVIOUS
    <3> QED BY <2>1, <3>1 DEF TypeInv
  <2>5. conn' \in [Clients -> ConnState] /\ \A d \in Clients : conn'[d] = "none" /\ d # NoClient
    BY <2>1, <2>2 DEF ConnState, ServerAssumption
  <2>6. TypeOK'
    BY <2>1, <2>2, <2>3, <2>5 DEF TypeInv, TypeOK
  <2> QED BY <2>1, <2>3, <2>4, <2>6 DEF TypeInv
<1> QED BY <1>1, <1>2, <1>3

(* The connection that is served. *)
LEMMA ServedClient ==
  ASSUME ServerAssumption, TypeInv, pc \in {"read", "callback", "close"}
  PROVE  cur \in Clients /\ cur # NoClient /\ conn[cur] # "none" /\ up[cur] \in Seq(Octet)
  BY DEF TypeInv, TypeOK

LEMMA ReadType ==
  ASSUME ServerAssumption, TypeInv, Read \/ ReadEnd \/ ReadError \/ Close
  PROVE  TypeInv'
<1>0. cur \in Clients /\ cur # NoClient /\ conn[cur] # "none" /\ up[cur] \in Seq(Octet)
  BY ServedClient DEF Read, ReadEnd, ReadError, Close
<1>1. << >> \in Seq(Octet)
  OBVIOUS
<1>2. CASE Read
  <2>1. PICK n \in 1..(IF Len(up[cur]) < RxSize THEN Len(up[cur]) ELSE RxSize) :
          /\ data' = SubSeq(up[cur], 1, n)
          /\ up' = [up EXCEPT ![cur] = SubSeq(@, n + 1, Len(@))]
    BY <1>2 DEF Read
  <2>2. n \in 0..Len(up[cur])
    <3> DEFINE len == Len(up[cur])
    <3>1. len \in Nat /\ RxSize \in Nat /\ n \in 1..(IF len < RxSize THEN len ELSE RxSize)
      BY <1>0, <2>1 DEF ServerAssumption
    <3> HIDE DEF len
    <3>2. n \in 0..len
      BY <3>1
    <3> QED BY <3>2 DEF len
  <2>3. data' \in Seq(Octet) /\ SubSeq(up[cur], n + 1, Len(up[cur])) \in Seq(Octet)
    BY <1>0, <2>1, <2>2, Cut
  <2>4. up' \in [Clients -> Seq(Octet)]
    BY <2>1, <2>3 DEF TypeInv
  <2>5. /\ pc = "read" /\ pc' = "callback" /\ ~readDone
        /\ UNCHANGED <<cur, readDone, deframer, frame, backlog, conn, asked, replies>>
    BY <1>2 DEF Read
  <2>6. TypeOK'
    BY <2>5 DEF TypeInv, TypeOK
  <2> QED BY <2>3, <2>4, <2>5, <2>6 DEF TypeInv
<1>3. CASE ReadEnd
  <2>1. TypeOK'
    BY <1>3 DEF ReadEnd, TypeInv, TypeOK
  <2> QED BY <1>1, <1>3, <2>1 DEF ReadEnd, TypeInv, clientVars
<1>4. CASE ReadError
  <2>1. TypeOK'
    BY <1>4 DEF ReadError, TypeInv, TypeOK
  <2> QED BY <1>4, <2>1 DEF ReadError, TypeInv, clientVars
<1>5. CASE Close
  <2>1. /\ pc = "close" /\ pc' = "accept" /\ cur' = NoClient
        /\ conn' = [conn EXCEPT ![cur] = "none"] /\ up' = [up EXCEPT ![cur] = << >>]
        /\ UNCHANGED <<data, readDone, deframer, frame, backlog, asked, replies>>
    BY <1>5 DEF Close
  <2>2. up' \in [Clients -> Seq(Octet)]
    BY <1>1, <2>1 DEF TypeInv
  <2>3. /\ conn \in [Clients -> ConnState] /\ cur \notin ToSet(backlog)
        /\ \A d \in Clients : conn[d] # "none" <=> d = cur \/ d \in ToSet(backlog)
        /\ backlog \in Seq(Clients)
    BY DEF TypeInv, TypeOK
  <2>4. NoClient \notin ToSet(backlog)
    <3>1. \A x \in ToSet(backlog) : x \in Clients
      BY <2>3 DEF ToSet
    <3> QED BY <3>1 DEF ServerAssumption
  <2>5. conn' \in [Clients -> ConnState]
    BY <2>1, <2>3 DEF ConnState
  <2>6. \A d \in Clients : conn'[d] # "none" <=> d = cur' \/ d \in ToSet(backlog')
    BY <1>0, <2>1, <2>3 DEF ServerAssumption
  <2>7. TypeOK'
    BY <2>1, <2>3, <2>4, <2>5, <2>6 DEF TypeInv, TypeOK
  <2> QED BY <2>1, <2>2, <2>7 DEF TypeInv
<1> QED BY <1>2, <1>3, <1>4, <1>5

LEMMA CallbackType ==
  ASSUME ServerAssumption, TypeInv, Callback
  PROVE  TypeInv'
<1> DEFINE ret == Deframe(deframer, data)
           served == ProtoRpc_server(frame, Unpack(ret.msg))
<1>0. cur \in Clients /\ cur # NoClient /\ conn[cur] # "none"
  BY ServedClient DEF Callback
<1>1. DeframerOK(ret.deframer)
  BY DeframeOK DEF TypeInv
<1>2. /\ served.frame \in ReplyRecord
      /\ served.reply.packed => served.reply.frame \in ReplyRecord
  BY UnpackedReplies DEF TypeInv
<1>3. /\ pc = "callback" /\ pc' = (IF readDone THEN "close" ELSE "read")
      /\ deframer' = deframer \/ deframer' = ret.deframer
      /\ frame' = frame \/ frame' = served.frame
      /\ \/ replies' = replies
         \/ /\ served.reply.packed
            /\ replies' = [replies EXCEPT ![cur] = Append(@, served.reply.frame)]
      /\ UNCHANGED <<cur, data, readDone, backlog, conn, up, asked>>
  BY DEF Callback, clientVars
<1> HIDE DEF ret, served
<1>4. DeframerOK(deframer') /\ deframer' \in Deframer
  BY <1>1, <1>3 DEF TypeInv, DeframerOK
<1>5. frame' \in ReplyRecord
  BY <1>2, <1>3 DEF TypeInv
<1>6. replies' \in [Clients -> Seq(ReplyRecord)]
  <2>1. replies \in [Clients -> Seq(ReplyRecord)]
    BY DEF TypeInv
  <2>2. CASE served.reply.packed
             /\ replies' = [replies EXCEPT ![cur] = Append(@, served.reply.frame)]
    <3>1. Append(replies[cur], served.reply.frame) \in Seq(ReplyRecord)
      BY <1>0, <1>2, <2>1, <2>2, AppendProperties
    <3> QED BY <1>0, <2>1, <2>2, <3>1
  <2> QED BY <1>3, <2>1, <2>2
<1>7. TypeOK'
  BY <1>3, <1>4 DEF TypeInv, TypeOK
<1> QED BY <1>3, <1>4, <1>5, <1>6, <1>7 DEF TypeInv

LEMMA NextTypeInv ==
  ASSUME ServerAssumption, TypeInv, [Next]_vars
  PROVE  TypeInv'
<1>1. CASE UNCHANGED vars
  <2>1. TypeOK'
    BY <1>1 DEF TypeInv, TypeOK, vars, serverVars
  <2> QED BY <1>1, <2>1 DEF TypeInv, vars, serverVars, clientVars
<1>2. CASE Next
  BY <1>2, ConnectType, ClientType, AcceptType, ReadType, CallbackType DEF Next, Server
<1> QED BY <1>1, <1>2

(* One connection is served at a time, and one that is not open is neither   *)
(* served nor waiting; the deframer is in a state it can be in between two   *)
(* calls.                                                                    *)
THEOREM TypeCorrect == ASSUME ServerAssumption PROVE Spec => []TypeOK
<1>1. Init => TypeInv
  BY InitTypeInv
<1>2. TypeInv /\ [Next]_vars => TypeInv'
  BY NextTypeInv
<1>3. TypeInv => TypeOK
  BY DEF TypeInv
<1> QED BY <1>1, <1>2, <1>3, PTL DEF Spec

-----------------------------------------------------------------------------
(* Replies *)

LEMMA InitServe ==
  ASSUME ServerAssumption, Init
  PROVE  ServeInv
<1>1. \A c \in Clients : Peer(c)
  BY DEF Init, Peer
<1>2. Waiting
  <2>1. backlog = << >> /\ Len(backlog) = 0
    BY DEF Init
  <2> QED BY <2>1 DEF Waiting
<1>3. Serving
  BY DEF Init, Serving
<1> QED BY <1>1, <1>2, <1>3 DEF ServeInv

(* A client that waits is not the one that is served, and no other waits     *)
(* twice. *)
LEMMA Waits ==
  ASSUME ServerAssumption, TypeInv
  PROVE  \A i \in 1..Len(backlog) :
           backlog[i] \in Clients /\ backlog[i] # cur /\ conn[backlog[i]] # "none"
<1>1. /\ backlog \in Seq(Clients) /\ cur \notin ToSet(backlog)
      /\ \A c \in Clients : conn[c] # "none" <=> c = cur \/ c \in ToSet(backlog)
  BY DEF TypeInv, TypeOK
<1> SUFFICES ASSUME NEW i \in 1..Len(backlog)
             PROVE  backlog[i] \in Clients /\ backlog[i] # cur /\ conn[backlog[i]] # "none"
  OBVIOUS
<1>2. backlog[i] \in Clients /\ backlog[i] \in ToSet(backlog)
  BY <1>1 DEF ToSet
<1> QED BY <1>1, <1>2

LEMMA ConnectServe ==
  ASSUME ServerAssumption, TypeInv, ServeInv, NEW c \in Clients, Connect(c)
  PROVE  ServeInv'
<1> SUFFICES ASSUME ~vanished' PROVE (\A d \in Clients : Peer(d))' /\ Waiting' /\ Serving'
  BY DEF ServeInv
<1>1. /\ conn[c] = "none" /\ conn' = [conn EXCEPT ![c] = "open"]
      /\ backlog' = Append(backlog, c)
      /\ asked' = [asked EXCEPT ![c] = << >>] /\ replies' = [replies EXCEPT ![c] = << >>]
      /\ UNCHANGED <<pc, cur, data, readDone, deframer, up, vanished>>
  BY DEF Connect
<1>2. (\A d \in Clients : Peer(d)) /\ Waiting /\ Serving
  BY <1>1 DEF ServeInv
<1>3. /\ conn \in [Clients -> ConnState] /\ backlog \in Seq(Clients) /\ Distinct(backlog)
      /\ asked \in [Clients -> Seq(Message)] /\ replies \in [Clients -> Seq(ReplyRecord)]
      /\ \A d \in Clients : conn[d] # "none" <=> d = cur \/ d \in ToSet(backlog)
      /\ cur \in Clients \cup {NoClient}
  BY DEF TypeInv, TypeOK
<1>4. c # cur /\ c \notin ToSet(backlog)
  BY <1>1, <1>3
<1>5. \A d \in Clients : d # c => asked'[d] = asked[d] /\ replies'[d] = replies[d]
                                  /\ conn'[d] = conn[d] /\ up'[d] = up[d]
  BY <1>1, <1>3
<1>6. /\ conn'[c] = "open" /\ asked'[c] = << >> /\ replies'[c] = << >>
      /\ up'[c] = << >>
  BY <1>1, <1>2, <1>3 DEF Peer
<1>7. ASSUME NEW d \in Clients PROVE Peer(d)'
  <2>1. CASE d = c
    BY <1>6, <2>1, EmptySeq DEF Peer, Matched
  <2>2. CASE d # c
    <3>1. Peer(d)
      BY <1>2
    <3> QED BY <1>5, <2>2, <3>1 DEF Peer, Matched
  <2> QED BY <2>1, <2>2
<1>8. Waiting'
  <2> SUFFICES ASSUME NEW i \in 1..Len(backlog') PROVE Fresh(backlog[i])'
    BY DEF Waiting
  <2>1. /\ Len(backlog') = Len(backlog) + 1
        /\ \A j \in 1..(Len(backlog) + 1) :
             backlog'[j] = IF j <= Len(backlog) THEN backlog[j] ELSE c
    BY <1>1, <1>3, <1>4, OneMoreWaits
  <2>2. CASE i <= Len(backlog)
    <3>1. i \in 1..Len(backlog) /\ backlog'[i] = backlog[i]
      BY <2>1, <2>2
    <3>2. backlog[i] \in Clients /\ backlog[i] # c /\ Fresh(backlog[i])
      <4>1. backlog[i] \in ToSet(backlog)
        BY <1>3, <3>1 DEF ToSet
      <4> QED BY <1>2, <1>3, <1>4, <3>1, <4>1 DEF Waiting
    <3> QED BY <1>5, <3>1, <3>2 DEF Fresh
  <2>3. CASE ~(i <= Len(backlog))
    BY <1>6, <2>1, <2>3 DEF Fresh
  <2> QED BY <2>2, <2>3
<1>9. Serving'
  <2>1. CASE cur = NoClient
    BY <1>1, <1>2, <2>1 DEF Serving
  <2>2. CASE cur # NoClient
    <3>1. cur \in Clients /\ asked'[cur] = asked[cur] /\ replies'[cur] = replies[cur]
          /\ conn'[cur] = conn[cur]
      BY <1>3, <1>4, <1>5, <2>2
    <3>2. InHand
      BY <1>2, <2>2 DEF Serving
    <3>3. InHand'
      BY <1>1, <3>1, <3>2 DEF InHand, Through, Left, Unanswered
    <3> QED BY <1>1, <1>2, <2>2, <3>1, <3>3 DEF Serving
  <2> QED BY <2>1, <2>2
<1> QED BY <1>7, <1>8, <1>9

LEMMA ListenServe ==
  ASSUME ServerAssumption, TypeInv, ServeInv, Listen
  PROVE  ServeInv'
<1> SUFFICES ASSUME ~vanished' PROVE (\A d \in Clients : Peer(d))' /\ Waiting' /\ Serving'
  BY DEF ServeInv
<1>1. /\ pc = "listen" /\ pc' \in {"accept", "exited"} /\ cur = NoClient
      /\ UNCHANGED <<cur, data, readDone, deframer, backlog, conn, up, asked, replies, vanished>>
  BY DEF Listen, TypeInv, TypeOK, clientVars
<1>2. (\A d \in Clients : Peer(d)) /\ Waiting /\ Serving
  BY <1>1 DEF ServeInv
<1>3. (\A d \in Clients : Peer(d))'
  BY <1>1, <1>2 DEF Peer, Matched
<1>4. Waiting'
  BY <1>1, <1>2 DEF Waiting, Fresh
<1>5. Serving'
  BY <1>1, <1>2 DEF Serving
<1> QED BY <1>3, <1>4, <1>5

LEMMA FinishServe ==
  ASSUME ServerAssumption, TypeInv, ServeInv, NEW c \in Clients, Finish(c)
  PROVE  ServeInv'
<1> SUFFICES ASSUME ~vanished' PROVE (\A d \in Clients : Peer(d))' /\ Waiting' /\ Serving'
  BY DEF ServeInv
<1>1. /\ conn[c] = "open" /\ conn' = [conn EXCEPT ![c] = "finished"]
      /\ UNCHANGED <<pc, cur, data, readDone, deframer, backlog, up, asked, replies, vanished>>
  BY DEF Finish, clientVars, serverVars
<1>2. (\A d \in Clients : Peer(d)) /\ Waiting /\ Serving
  BY <1>1 DEF ServeInv
<1>3. conn \in [Clients -> ConnState] /\ cur \in Clients \cup {NoClient}
  BY DEF TypeInv, TypeOK
<1>4. (\A d \in Clients : Peer(d))'
  BY <1>1, <1>2, <1>3 DEF Peer, Matched
<1>5. Waiting'
  BY <1>1, <1>2 DEF Waiting, Fresh
<1>6. Serving'
  <2>1. cur # NoClient => InHand'
    BY <1>1, <1>2 DEF Serving, InHand, Through, Left, Unanswered
  <2> QED BY <1>1, <1>2, <1>3, <2>1 DEF Serving
<1> QED BY <1>4, <1>5, <1>6

LEMMA AcceptServe ==
  ASSUME ServerAssumption, TypeInv, ServeInv, Accept
  PROVE  ServeInv'
<1> SUFFICES ASSUME ~vanished' PROVE (\A d \in Clients : Peer(d))' /\ Waiting' /\ Serving'
  BY DEF ServeInv
<1>1. /\ pc = "accept" /\ backlog # << >> /\ pc' = "read" /\ readDone' = FALSE
      /\ cur' = Head(backlog) /\ backlog' = Tail(backlog)
      /\ UNCHANGED <<data, deframer, conn, up, asked, replies, vanished>>
  BY DEF Accept, clientVars
<1>2. (\A d \in Clients : Peer(d)) /\ Waiting /\ Serving
  BY <1>1 DEF ServeInv
<1>3. backlog \in Seq(Clients) /\ Distinct(backlog) /\ cur = NoClient /\ deframer = Flushed
  BY <1>1, <1>2 DEF TypeInv, TypeOK, Serving
<1>4. /\ cur' = backlog[1] /\ 1 \in 1..Len(backlog) /\ cur' \in Clients
      /\ \A i \in 1..Len(backlog') : i + 1 \in 1..Len(backlog) /\ backlog'[i] = backlog[i + 1]
  BY <1>1, <1>3, FirstTakenOff
<1>5. (\A d \in Clients : Peer(d))'
  BY <1>1, <1>2 DEF Peer, Matched
<1>6. Waiting'
  <2> SUFFICES ASSUME NEW i \in 1..Len(backlog') PROVE Fresh(backlog[i])'
    BY DEF Waiting
  <2>1. backlog'[i] = backlog[i + 1] /\ Fresh(backlog[i + 1])
    BY <1>2, <1>4 DEF Waiting
  <2> QED BY <1>1, <2>1 DEF Fresh
<1>7. Fresh(cur')
  BY <1>2, <1>4 DEF Waiting
<1>8. InHand'
  <2>1. Left' = up[cur'] /\ deframer' = Flushed
    BY <1>1, <1>3 DEF Left
  <2>2. CASE asked[cur'] = << >> /\ up[cur'] = << >>
    BY <1>1, <1>7, <2>1, <2>2, EmptySeq DEF InHand, Unanswered, Fresh
  <2>3. CASE \E m \in Message : asked[cur'] = <<m>> /\ up[cur'] = Frame(Encoded(m))
    <3>1. PICK m \in Message : asked[cur'] = <<m>> /\ up[cur'] = Frame(Encoded(m))
      BY <2>3
    <3>2. Len(asked[cur']) = 1 /\ asked[cur'][1] = m /\ replies[cur'] = << >>
      BY <1>7, <3>1 DEF Fresh
    <3>3. Unanswered(cur)' = 1
      BY <1>1, <3>2, EmptySeq DEF Unanswered
    <3>4. asked'[cur'][Len(asked'[cur'])] = m
      BY <1>1, <3>2
    <3> QED BY <2>1, <3>1, <3>3, <3>4 DEF InHand, Through
  <2> QED BY <1>7, <2>2, <2>3 DEF Fresh
<1>9. Serving'
  BY <1>1, <1>4, <1>8 DEF Serving, ServerAssumption
<1> QED BY <1>5, <1>6, <1>9

LEMMA AcceptErrorServe ==
  ASSUME ServerAssumption, TypeInv, ServeInv, AcceptError
  PROVE  ServeInv'
<1> SUFFICES ASSUME ~vanished' PROVE (\A d \in Clients : Peer(d))' /\ Waiting' /\ Serving'
  BY DEF ServeInv
<1>1. /\ pc = "accept" /\ backlog' = << >>
      /\ conn' = [c \in Clients |-> IF c \in ToSet(backlog) THEN "none" ELSE conn[c]]
      /\ up' = [c \in Clients |-> IF c \in ToSet(backlog) THEN << >> ELSE up[c]]
      /\ UNCHANGED <<cur, deframer, asked, replies, vanished>>
  BY DEF AcceptError
<1>2. (\A d \in Clients : Peer(d)) /\ Waiting /\ Serving
  BY <1>1 DEF ServeInv
<1>3. cur = NoClient
  BY <1>1 DEF TypeInv, TypeOK
<1>4. ASSUME NEW d \in Clients PROVE Peer(d)'
  <2>1. Peer(d)
    BY <1>2
  <2> QED BY <1>1, <2>1 DEF Peer, Matched
<1>5. Waiting'
  <2>1. Len(backlog') = 0
    BY <1>1
  <2> QED BY <2>1 DEF Waiting
<1>6. Serving'
  BY <1>1, <1>2, <1>3 DEF Serving
<1> QED BY <1>4, <1>5, <1>6

(* A client asks when it has its answer: the server holds nothing of it then. *)
LEMMA AskServe ==
  ASSUME ServerAssumption, Paced, TypeInv, ServeInv, NEW c \in Clients, Ask(c)
  PROVE  ServeInv'
<1> SUFFICES ASSUME ~vanished' PROVE (\A d \in Clients : Peer(d))' /\ Waiting' /\ Serving'
  BY DEF ServeInv
<1>1. PICK m \in Requests[c] : /\ asked' = [asked EXCEPT ![c] = Append(@, m)]
                               /\ up' = [up EXCEPT ![c] = @ \o Frame(Encoded(m))]
  BY DEF Ask
<1> DEFINE f == Frame(Encoded(m))
<1>2. /\ conn[c] = "open" /\ Unanswered(c) < 1
      /\ UNCHANGED <<pc, cur, data, readDone, deframer, backlog, conn, replies, vanished>>
  BY DEF Ask, Paced, serverVars
<1>3. (\A d \in Clients : Peer(d)) /\ Waiting /\ Serving
  BY <1>2 DEF ServeInv
<1>4. m \in Message /\ f \in Seq(Octet)
  <2>1. m \in Message
    BY DEF Message
  <2> QED BY <2>1, FrameSent
<1> HIDE DEF f
<1>5. /\ asked \in [Clients -> Seq(Message)] /\ replies \in [Clients -> Seq(ReplyRecord)]
      /\ up \in [Clients -> Seq(Octet)] /\ data \in Seq(Octet) /\ cur \in Clients \cup {NoClient}
  BY DEF TypeInv, TypeOK
<1>6. /\ asked'[c] = Append(asked[c], m) /\ up'[c] = up[c] \o f /\ up'[c] \in Seq(Octet)
      /\ \A d \in Clients : d # c => asked'[d] = asked[d] /\ up'[d] = up[d]
  BY <1>1, <1>4, <1>5 DEF f
<1>7. Len(asked[c]) = Len(replies[c]) /\ Len(asked[c]) \in Nat /\ Unanswered(c) = 0
  <2>1. Len(replies[c]) <= Len(asked[c])
    BY <1>2, <1>3 DEF Peer, Matched
  <2>2. Len(asked[c]) \in Nat /\ Len(replies[c]) \in Nat
    BY <1>5
  <2> DEFINE a == Len(asked[c])
             r == Len(replies[c])
  <2>3. a \in Nat /\ r \in Nat /\ r <= a /\ Unanswered(c) = a - r /\ a - r < 1
    BY <1>2, <2>1, <2>2 DEF Unanswered
  <2> HIDE DEF a, r
  <2>4. a = r /\ Unanswered(c) = 0
    BY <2>3
  <2> QED BY <2>2, <2>4 DEF a, r
<1>8. /\ Len(asked'[c]) = Len(asked[c]) + 1 /\ asked'[c][Len(asked[c]) + 1] = m
      /\ \A i \in 1..Len(asked[c]) : asked'[c][i] = asked[c][i]
  BY <1>4, <1>5, <1>6, AppendProperties
<1>9. ASSUME NEW d \in Clients PROVE Peer(d)'
  <2>1. Peer(d)
    BY <1>3
  <2>2. CASE d = c
    <3>1. Matched(c)
      BY <1>2, <2>1, <2>2 DEF Peer
    <3>2. Matched(c)'
      BY <1>2, <1>7, <1>8, <3>1 DEF Matched
    <3> QED BY <1>2, <2>2, <3>2 DEF Peer
  <2>3. CASE d # c
    BY <1>2, <1>6, <2>1, <2>3 DEF Peer, Matched
  <2> QED BY <2>2, <2>3
<1>10. Waiting'
  <2> SUFFICES ASSUME NEW i \in 1..Len(backlog) PROVE Fresh(backlog[i])'
    BY <1>2 DEF Waiting
  <2>1. Fresh(backlog[i]) /\ backlog[i] \in Clients
    BY <1>3, Waits DEF Waiting
  <2>2. CASE backlog[i] = c
    <3>1. replies[c] = << >> /\ asked[c] = << >> /\ up[c] = << >>
      <4>1. replies[c] = << >> /\ Len(asked[c]) = 0
        BY <1>7, <2>1, <2>2, EmptySeq DEF Fresh
      <4>2. ASSUME NEW x \in Message, asked[c] = <<x>> PROVE FALSE
        BY <4>1, <4>2
      <4> QED BY <2>1, <2>2, <4>1, <4>2 DEF Fresh
    <3>2. asked'[c] = <<m>> /\ up'[c] = f
      BY <1>4, <1>6, <3>1, ConcatEmptySeq
    <3> QED BY <1>2, <1>4, <2>2, <3>1, <3>2 DEF Fresh, f
  <2>3. CASE backlog[i] # c
    BY <1>2, <1>6, <2>1, <2>3 DEF Fresh
  <2> QED BY <2>2, <2>3
<1>11. Serving'
  <2>1. CASE cur = c
    <3>1. cur # NoClient /\ ~readDone /\ pc # "close"
      BY <1>2, <1>3, <2>1 DEF Serving, ServerAssumption
    <3>2. deframer = Flushed /\ Left = << >>
      BY <1>3, <1>7, <2>1, <3>1 DEF Serving, InHand
    <3>3. Left' = f
      <4>1. CASE pc = "callback"
        <5>1. data \o up[c] = << >>
          BY <2>1, <3>2, <4>1 DEF Left
        <5>2. Left' = data \o (up[c] \o f)
          BY <1>2, <1>6, <2>1, <4>1 DEF Left
        <5>3. data \o (up[c] \o f) = (data \o up[c]) \o f
          <6> DEFINE rest == up[c]
          <6>1. rest \in Seq(Octet) /\ data \in Seq(Octet)
            BY <1>5
          <6> HIDE DEF rest
          <6>2. (data \o rest) \o f = data \o (rest \o f)
            BY <1>4, <6>1, Associates
          <6> QED BY <6>2 DEF rest
        <5> QED BY <1>4, <5>1, <5>2, <5>3, ConcatEmptySeq
      <4>2. CASE pc # "callback"
        <5>1. up[c] = << >> /\ Left' = up[c] \o f
          BY <1>2, <1>6, <2>1, <3>2, <4>2 DEF Left
        <5> QED BY <1>4, <5>1, ConcatEmptySeq
      <4> QED BY <4>1, <4>2
    <3>4. Unanswered(cur)' = 1
      BY <1>2, <1>7, <1>8, <2>1 DEF Unanswered
    <3>5. Through(asked[cur][Len(asked[cur])])'
      BY <1>2, <1>8, <2>1, <3>2, <3>3 DEF Through, f
    <3> QED BY <1>2, <3>1, <3>4, <3>5 DEF Serving, InHand
  <2>2. CASE cur # c
    <3>1. CASE cur = NoClient
      BY <1>2, <1>3, <3>1 DEF Serving
    <3>2. CASE cur # NoClient
      <4>1. cur \in Clients /\ asked'[cur] = asked[cur] /\ up'[cur] = up[cur]
        BY <1>5, <1>6, <2>2, <3>2
      <4>2. InHand'
        BY <1>2, <1>3, <3>2, <4>1 DEF Serving, InHand, Through, Left, Unanswered
      <4> QED BY <1>2, <1>3, <3>2, <4>1, <4>2 DEF Serving
    <3> QED BY <3>1, <3>2
  <2> QED BY <2>1, <2>2
<1> QED BY <1>9, <1>10, <1>11

(* Reading moves bytes from the connection to the task. *)
LEMMA ReadServe ==
  ASSUME ServerAssumption, TypeInv, ServeInv, Read
  PROVE  ServeInv'
<1> SUFFICES ASSUME ~vanished' PROVE (\A d \in Clients : Peer(d))' /\ Waiting' /\ Serving'
  BY DEF ServeInv
<1>1. /\ pc = "read" /\ ~readDone /\ pc' = "callback"
      /\ UNCHANGED <<cur, readDone, deframer, backlog, conn, asked, replies, vanished>>
  BY DEF Read
<1>2. (\A d \in Clients : Peer(d)) /\ Waiting /\ Serving
  BY <1>1 DEF ServeInv
<1>3. cur \in Clients /\ cur # NoClient /\ conn[cur] # "none" /\ up[cur] \in Seq(Octet)
  BY <1>1, ServedClient
<1>4. PICK n \in 1..(IF Len(up[cur]) < RxSize THEN Len(up[cur]) ELSE RxSize) :
        /\ data' = SubSeq(up[cur], 1, n)
        /\ up' = [up EXCEPT ![cur] = SubSeq(@, n + 1, Len(@))]
  BY DEF Read
<1>5. n \in 0..Len(up[cur])
  <2> DEFINE len == Len(up[cur])
  <2>1. len \in Nat /\ RxSize \in Nat /\ n \in 1..(IF len < RxSize THEN len ELSE RxSize)
    BY <1>3, <1>4 DEF ServerAssumption
  <2> HIDE DEF len
  <2>2. n \in 0..len
    BY <2>1
  <2> QED BY <2>2 DEF len
<1>6. up \in [Clients -> Seq(Octet)]
  BY DEF TypeInv
<1>7. Left' = Left
  <2>1. data' \o up'[cur] = up[cur]
    BY <1>3, <1>4, <1>5, <1>6, Cut
  <2> QED BY <1>1, <2>1 DEF Left
<1>8. \A d \in Clients : d # cur => up'[d] = up[d]
  BY <1>4, <1>6
<1>9. ASSUME NEW d \in Clients PROVE Peer(d)'
  BY <1>1, <1>2, <1>3, <1>8 DEF Peer, Matched
<1>10. Waiting'
  <2> SUFFICES ASSUME NEW i \in 1..Len(backlog) PROVE Fresh(backlog[i])'
    BY <1>1 DEF Waiting
  <2>1. Fresh(backlog[i]) /\ backlog[i] \in Clients /\ backlog[i] # cur
    BY <1>2, Waits DEF Waiting
  <2> QED BY <1>1, <1>8, <2>1 DEF Fresh
<1>11. InHand'
  BY <1>1, <1>2, <1>3, <1>7 DEF Serving, InHand, Through, Unanswered
<1> QED BY <1>1, <1>3, <1>9, <1>10, <1>11 DEF Serving

LEMMA ReadEndServe ==
  ASSUME ServerAssumption, TypeInv, ServeInv, ReadEnd \/ ReadError
  PROVE  ServeInv'
<1> SUFFICES ASSUME ~vanished' PROVE (\A d \in Clients : Peer(d))' /\ Waiting' /\ Serving'
  BY DEF ServeInv
<1>0. ~vanished
  BY DEF ReadEnd, ReadError, clientVars
<1>1. (\A d \in Clients : Peer(d)) /\ Waiting /\ Serving
  BY <1>0 DEF ServeInv
<1>2. cur \in Clients /\ cur # NoClient /\ conn[cur] # "none" /\ up[cur] \in Seq(Octet)
  BY ServedClient DEF ReadEnd, ReadError
<1>3. ReadEnd
  BY <1>1, <1>2 DEF ReadError, Peer
<1>4. /\ pc = "read" /\ conn[cur] = "finished" /\ up[cur] = << >>
      /\ data' = << >> /\ pc' = "callback"
      /\ UNCHANGED <<cur, deframer, backlog, conn, up, asked, replies>>
  BY <1>3 DEF ReadEnd, clientVars
<1>5. Left' = Left
  <2>1. data' \o up[cur] = up[cur]
    BY <1>2, <1>4, ConcatEmptySeq
  <2> QED BY <1>4, <2>1 DEF Left
<1>6. (\A d \in Clients : Peer(d))'
  BY <1>1, <1>4 DEF Peer, Matched
<1>7. Waiting'
  BY <1>1, <1>4 DEF Waiting, Fresh
<1>8. InHand'
  BY <1>1, <1>2, <1>4, <1>5 DEF Serving, InHand, Through, Unanswered
<1> QED BY <1>2, <1>4, <1>6, <1>7, <1>8 DEF Serving

(* A connection is closed when nothing of a request is in the deframer: the  *)
(* end of every request was read, and the deframer has let go of it.         *)
LEMMA ClosedClear ==
  ASSUME ServerAssumption, Paced, TypeInv, ServeInv, ~vanished, pc = "close"
  PROVE  /\ cur \in Clients /\ cur # NoClient
         /\ deframer = Flushed /\ (AllAnswered => Unanswered(cur) = 0)
<1>1. cur \in Clients /\ cur # NoClient /\ Serving
  BY ServedClient DEF ServeInv
<1>2. Left = << >> /\ InHand
  BY <1>1 DEF Serving, Left
<1>3. ASSUME Unanswered(cur) = 1, Through(asked[cur][Len(asked[cur])]) PROVE FALSE
  <2> DEFINE m == asked[cur][Len(asked[cur])]
             enc == Encoded(m)
  <2>1. asked[cur] \in Seq(Message) /\ Len(asked[cur]) \in Nat /\ Len(replies[cur]) \in Nat
    BY <1>1 DEF TypeInv
  <2>2. Len(asked[cur]) \in 1..Len(asked[cur])
    BY <1>3, <2>1 DEF Unanswered
  <2>3. m \in Message
    BY <2>1, <2>2
  <2>4. enc \in Seq(Octet)
    BY <2>3, FrameSent
  <2> HIDE DEF enc, m
  <2>5. CASE Left = Frame(enc)
    <3>1. Len(Frame(enc)) = Len(enc) + 2 /\ Len(enc) \in Nat
      BY <2>4, FrameBytes
    <3>2. Len(Left) = 0
      BY <1>2
    <3> QED BY <2>5, <3>1, <3>2
  <2>6. CASE ZeroFreeSeq(deframer.work) /\ deframer.work \o Left = Closed(enc)
    <3>1. deframer.work \in Seq(Octet)
      BY DEF TypeInv, DeframerOK, Deframer
    <3>2. deframer.work = Closed(enc)
      BY <1>2, <2>6, <3>1, ConcatEmptySeq
    <3>3. Len(Closed(enc)) = Len(enc) + 1 /\ Len(enc) \in Nat /\ Closed(enc)[Len(enc) + 1] = 0
      BY <2>4, ClosedBytes
    <3>4. Len(enc) + 1 \in 1..Len(Closed(enc))
      BY <3>3
    <3> QED BY <2>6, <3>2, <3>3, <3>4 DEF ZeroFreeSeq
  <2> QED BY <1>3, <2>5, <2>6 DEF Through, m, enc
<1> QED BY <1>1, <1>2, <1>3 DEF InHand

LEMMA CloseServe ==
  ASSUME ServerAssumption, Paced, TypeInv, ServeInv, Close
  PROVE  ServeInv'
<1> SUFFICES ASSUME ~vanished' PROVE (\A d \in Clients : Peer(d))' /\ Waiting' /\ Serving'
  BY DEF ServeInv
<1>1. /\ pc = "close" /\ conn' = [conn EXCEPT ![cur] = "none"]
      /\ up' = [up EXCEPT ![cur] = << >>] /\ cur' = NoClient
      /\ UNCHANGED <<deframer, backlog, asked, replies, vanished>>
  BY DEF Close
<1>2. (\A d \in Clients : Peer(d)) /\ Waiting /\ Serving
  BY <1>1 DEF ServeInv
<1>3. cur \in Clients /\ deframer = Flushed
  BY <1>1, ClosedClear
<1>4. conn \in [Clients -> ConnState] /\ up \in [Clients -> Seq(Octet)]
  BY DEF TypeInv, TypeOK
<1>5. ASSUME NEW d \in Clients PROVE Peer(d)'
  BY <1>1, <1>2, <1>4 DEF Peer, Matched
<1>6. Waiting'
  <2> SUFFICES ASSUME NEW i \in 1..Len(backlog) PROVE Fresh(backlog[i])'
    BY <1>1 DEF Waiting
  <2>1. Fresh(backlog[i]) /\ backlog[i] \in Clients /\ backlog[i] # cur
    BY <1>2, Waits DEF Waiting
  <2> QED BY <1>1, <1>4, <2>1 DEF Fresh
<1>7. Serving'
  BY <1>1, <1>3 DEF Serving
<1> QED BY <1>5, <1>6, <1>7

(* What the deframer makes of the bytes of a request, in whatever pieces     *)
(* they come. *)
LEMMA RequestProgress ==
  ASSUME ServerAssumption, Paced, TypeInv, pc = "callback", data # << >>,
         NEW m \in Message, Through(m)
  PROVE  /\ Progress(Encoded(m), Deframe(deframer, data), up[cur])
         /\ Decode(Encoded(m), MaxOut) = [len |-> Len(m), msg |-> m]
         /\ Len(m) # 0
<1> DEFINE enc == Encoded(m)
           rest == up[cur]
<1>1. /\ m \in Seq(Octet) /\ enc \in Seq(Octet)
      /\ m # << >> /\ ~FullBlockThenZero(m) /\ Len(m) <= MaxOut /\ Len(enc) + 2 <= Depth
  BY FrameSent DEF Paced
<1>2. ZeroFreeSeq(enc)
  BY <1>1, EncodedBytes DEF ZeroFreeSeq
<1>3. Decode(enc, MaxOut) = [len |-> Len(m), msg |-> m]
  BY <1>1, DecodeInverts, BufferAssumption
<1>4. Len(m) # 0 /\ Len(m) \in Nat
  BY <1>1, EmptySeq
<1>5. data \in Seq(Octet) /\ rest \in Seq(Octet) /\ deframer \in Deframer
  BY ServedClient DEF TypeInv, DeframerOK
<1>6. Left = data \o rest
  BY DEF Left
<1> HIDE DEF enc, rest
<1>7. Decode(enc, MaxOut).len > 0
  BY <1>3, <1>4
<1>8. ASSUME deframer = Flushed, Left = Frame(enc)
      PROVE  Progress(enc, Deframe(deframer, data), rest)
  BY <1>1, <1>2, <1>5, <1>6, <1>7, <1>8, Starts
<1>9. ASSUME deframer.state = "FIND_EOF", deframer.fifo = << >>, ZeroFreeSeq(deframer.work),
             deframer.work \o Left = Closed(enc)
      PROVE  Progress(enc, Deframe(deframer, data), rest)
  <2> DEFINE work == deframer.work
  <2>1. deframer = [state |-> "FIND_EOF", work |-> work, fifo |-> << >>] /\ work \in Seq(Octet)
    BY <1>5, <1>9 DEF Deframer
  <2>2. ZeroFreeSeq(work) /\ work \o (data \o rest) = Closed(enc)
    BY <1>6, <1>9
  <2> HIDE DEF work
  <2> QED BY <1>1, <1>2, <1>5, <1>7, <2>1, <2>2, GoesOn
<1>10. Progress(enc, Deframe(deframer, data), rest)
  BY <1>8, <1>9 DEF Through, enc
<1> QED BY <1>3, <1>4, <1>10 DEF enc, rest

(* The server's next step with a request: it takes more of it in, or it has  *)
(* all of it and answers, unless the call wants no answer or is none.        *)
LEMMA RequestServed ==
  ASSUME ServerAssumption, Paced, TypeInv, Callback, data # << >>, conn[cur] # "reset",
         NEW m \in Message, Through(m)
  PROVE  \/ replies' = replies /\ Through(m)'
         \/ /\ deframer' = Flushed /\ up[cur] = << >>
            /\ \/ replies' = replies /\ ~AllAnswered
               \/ \E r \in ReplyRecord :
                    /\ r.seqn = CallOf[m].seqn
                    /\ replies' = [replies EXCEPT ![cur] = Append(@, r)]
<1> DEFINE ret == Deframe(deframer, data)
           served == ProtoRpc_server(frame, Unpack(ret.msg))
<1>1. /\ pc = "callback" /\ pc' # "callback" /\ Len(data) > 0
      /\ UNCHANGED <<cur, up>>
  BY EmptySeq DEF Callback, TypeInv, clientVars
<1>2. /\ deframer' = ret.deframer
      /\ replies' = IF ret.len # 0 /\ served.reply.packed
                    THEN [replies EXCEPT ![cur] = Append(@, served.reply.frame)]
                    ELSE replies
  BY <1>1 DEF Callback
<1>3. /\ Progress(Encoded(m), ret, up[cur])
      /\ Decode(Encoded(m), MaxOut) = [len |-> Len(m), msg |-> m] /\ Len(m) # 0
  BY <1>1, RequestProgress
<1>4. Left' = up[cur]
  BY <1>1 DEF Left
<1>5. /\ served.reply.packed =>
           served.reply.frame \in ReplyRecord /\ served.reply.frame.seqn = CallOf[ret.msg].seqn
      /\ AllAnswered /\ ret.msg \in Message => served.reply.packed
  BY UnpackedReplies DEF TypeInv
<1> HIDE DEF ret, served
<1>6. CASE up[cur] = << >> /\ ret = Deliver(Flushed, Decode(Encoded(m), MaxOut))
  <2>1. ret.deframer = Flushed /\ ret.len # 0 /\ ret.msg = m
    BY <1>3, <1>6 DEF Deliver
  <2> QED BY <1>2, <1>5, <1>6, <2>1
<1>7. CASE \E work \in Seq(Octet) :
             /\ ret = Return([state |-> "FIND_EOF", work |-> work, fifo |-> << >>])
             /\ ZeroFreeSeq(work) /\ work \o up[cur] = Closed(Encoded(m))
  <2>1. PICK work \in Seq(Octet) :
          /\ ret = Return([state |-> "FIND_EOF", work |-> work, fifo |-> << >>])
          /\ ZeroFreeSeq(work) /\ work \o up[cur] = Closed(Encoded(m))
    BY <1>7
  <2>2. ret.len = 0 /\ ret.deframer = [state |-> "FIND_EOF", work |-> work, fifo |-> << >>]
    BY <2>1 DEF Return
  <2>3. replies' = replies
    BY <1>2, <2>2
  <2>4. deframer'.state = "FIND_EOF" /\ deframer'.fifo = << >> /\ deframer'.work = work
    BY <1>2, <2>2
  <2>5. deframer'.work \o Left' = Closed(Encoded(m)) /\ ZeroFreeSeq(deframer'.work)
    BY <1>4, <2>1, <2>4
  <2>6. Through(m)'
    BY <2>4, <2>5 DEF Through, ZeroFreeSeq
  <2> QED BY <2>3, <2>6
<1> QED BY <1>3, <1>6, <1>7 DEF Progress

LEMMA CallbackServe ==
  ASSUME ServerAssumption, Paced, TypeInv, ServeInv, Callback
  PROVE  ServeInv'
<1> SUFFICES ASSUME ~vanished' PROVE (\A d \in Clients : Peer(d))' /\ Waiting' /\ Serving'
  BY DEF ServeInv
<1>1. /\ pc = "callback" /\ pc' = (IF readDone THEN "close" ELSE "read")
      /\ UNCHANGED <<cur, data, readDone, backlog, conn, up, asked, vanished>>
  BY DEF Callback, clientVars
<1>2. (\A d \in Clients : Peer(d)) /\ Waiting /\ Serving
  BY <1>1 DEF ServeInv
<1>3. cur \in Clients /\ cur # NoClient /\ conn[cur] # "none" /\ up[cur] \in Seq(Octet)
  BY <1>1, ServedClient
<1>4. Left' = up[cur] /\ Left = data \o up[cur]
  BY <1>1 DEF Left
<1>5. /\ asked \in [Clients -> Seq(Message)] /\ replies \in [Clients -> Seq(ReplyRecord)]
      /\ data \in Seq(Octet)
  BY DEF TypeInv
<1>6. CASE data = << >>
  <2>1. deframer' = deframer /\ replies' = replies
    BY <1>6 DEF Callback
  <2>2. Left' = Left
    BY <1>3, <1>4, <1>6, ConcatEmptySeq
  <2>3. (\A d \in Clients : Peer(d))' /\ Waiting'
    BY <1>1, <1>2, <2>1 DEF Peer, Matched, Waiting, Fresh
  <2>4. InHand'
    BY <1>1, <1>2, <1>3, <2>1, <2>2 DEF Serving, InHand, Through, Unanswered
  <2> QED BY <1>1, <1>2, <1>3, <2>3, <2>4 DEF Serving
<1>7. CASE data # << >>
  <2> DEFINE last == asked[cur][Len(asked[cur])]
             a == Len(asked[cur])
             r == Len(replies[cur])
  <2>1. a \in Nat /\ r \in Nat /\ Unanswered(cur) = a - r /\ last = asked[cur][a]
    BY <1>3, <1>5 DEF Unanswered
  <2>2. Left # << >>
    <3>1. Len(Left) = Len(data) + Len(up[cur]) /\ Len(data) \in Nat /\ Len(up[cur]) \in Nat
      BY <1>3, <1>4, <1>5, ConcatProperties
    <3>2. Len(data) # 0
      BY <1>5, <1>7, EmptySeq
    <3> QED BY <3>1, <3>2
  <2>3. Unanswered(cur) = 1 /\ Through(last)
    BY <1>2, <1>3, <2>2 DEF Serving, InHand
  <2> HIDE DEF last, a, r
  <2>4. a = r + 1 /\ a \in 1..a
    BY <2>1, <2>3
  <2>5. PICK m \in Message : m = last
    BY <1>3, <1>5, <2>1, <2>4 DEF a
  <2>6. Peer(cur) /\ conn[cur] # "reset" /\ Matched(cur)
    BY <1>2, <1>3 DEF Peer
  <2>7. \/ replies' = replies /\ Through(m)'
        \/ /\ deframer' = Flushed /\ up[cur] = << >>
           /\ \/ replies' = replies /\ ~AllAnswered
              \/ \E reply \in ReplyRecord :
                   /\ reply.seqn = CallOf[m].seqn
                   /\ replies' = [replies EXCEPT ![cur] = Append(@, reply)]
    BY <1>7, <2>3, <2>5, <2>6, RequestServed
  <2>8. CASE replies' = replies
    <3>1. (\A d \in Clients : Peer(d))' /\ Waiting'
      BY <1>1, <1>2, <2>8 DEF Peer, Matched, Waiting, Fresh
    <3>2. InHand'
      <4>1. CASE Through(m)'
        BY <1>1, <2>3, <2>5, <2>8, <4>1 DEF InHand, Unanswered, last
      <4>2. CASE deframer' = Flushed /\ up[cur] = << >> /\ ~AllAnswered
        BY <1>4, <4>2 DEF InHand
      <4>3. ASSUME NEW reply \in ReplyRecord,
                   replies' = [replies EXCEPT ![cur] = Append(@, reply)]
            PROVE  InHand'
        <5>1. replies'[cur] = Append(replies[cur], reply)
          BY <1>3, <1>5, <4>3
        <5>2. Len(Append(replies[cur], reply)) = Len(replies[cur]) + 1 /\ Len(replies[cur]) \in Nat
          BY <1>3, <1>5, <4>3, AppendProperties
        <5> QED BY <2>8, <5>1, <5>2
      <4> QED BY <2>7, <4>1, <4>2, <4>3
    <3> QED BY <1>1, <1>2, <1>3, <3>1, <3>2 DEF Serving
  <2>9. CASE replies' # replies
    <3>1. PICK reply \in ReplyRecord :
            /\ deframer' = Flushed /\ up[cur] = << >>
            /\ reply.seqn = CallOf[m].seqn
            /\ replies' = [replies EXCEPT ![cur] = Append(@, reply)]
      BY <2>7, <2>9
    <3>2. /\ replies'[cur] = Append(replies[cur], reply)
          /\ \A d \in Clients : d # cur => replies'[d] = replies[d]
      BY <1>3, <1>5, <3>1
    <3>3. /\ Len(replies'[cur]) = r + 1 /\ replies'[cur][r + 1] = reply
          /\ \A i \in 1..r : replies'[cur][i] = replies[cur][i]
      BY <1>3, <1>5, <3>1, <3>2, AppendProperties DEF r
    <3>4. Matched(cur)'
      <4>1. Len(replies'[cur]) = a /\ Len(asked'[cur]) = a
        BY <1>1, <2>4, <3>3 DEF a
      <4>2. ASSUME NEW i \in 1..a PROVE replies'[cur][i].seqn = CallOf[asked[cur][i]].seqn
        <5>1. CASE i = a
          BY <2>1, <2>4, <2>5, <3>1, <3>3, <5>1
        <5>2. CASE i # a
          <6>1. i \in 1..r
            BY <2>1, <2>4, <5>2
          <6> QED BY <2>6, <3>3, <6>1 DEF Matched, r
        <5> QED BY <5>1, <5>2
      <4>3. a <= a /\ a <= a + 1
        BY <2>1
      <4> QED BY <1>1, <4>1, <4>2, <4>3 DEF Matched
    <3>5. ASSUME NEW d \in Clients PROVE Peer(d)'
      <4>1. CASE d = cur
        BY <1>1, <2>6, <3>4, <4>1 DEF Peer
      <4>2. CASE d # cur
        BY <1>1, <1>2, <3>2, <4>2 DEF Peer, Matched
      <4> QED BY <4>1, <4>2
    <3>6. Waiting'
      <4> SUFFICES ASSUME NEW i \in 1..Len(backlog) PROVE Fresh(backlog[i])'
        BY <1>1 DEF Waiting
      <4>1. Fresh(backlog[i]) /\ backlog[i] \in Clients /\ backlog[i] # cur
        BY <1>2, Waits DEF Waiting
      <4> QED BY <1>1, <3>2, <4>1 DEF Fresh
    <3>7. InHand'
      <4>1. Unanswered(cur)' = a - (r + 1) /\ a - (r + 1) = 0
        BY <1>1, <2>1, <2>4, <3>3 DEF Unanswered, a
      <4> QED BY <1>4, <3>1, <4>1 DEF InHand
    <3> QED BY <1>1, <1>2, <1>3, <3>5, <3>6, <3>7 DEF Serving
  <2> QED BY <2>8, <2>9
<1> QED BY <1>6, <1>7

LEMMA NextServe ==
  ASSUME ServerAssumption, Paced, TypeInv, ServeInv, [Next]_vars
  PROVE  ServeInv'
<1>1. CASE UNCHANGED vars
  <2>1. UNCHANGED <<pc, cur, data, readDone, deframer, backlog, conn, up, asked, replies, vanished>>
    BY <1>1 DEF vars, serverVars, clientVars
  <2>2. (\A d \in Clients : Peer(d)) /\ Waiting => (\A d \in Clients : Peer(d))' /\ Waiting'
    BY <2>1 DEF Peer, Matched, Waiting, Fresh
  <2>3. Serving => Serving'
    BY <2>1 DEF Serving, InHand, Through, Left, Unanswered
  <2> QED BY <2>1, <2>2, <2>3 DEF ServeInv
<1>2. ASSUME NEW c \in Clients, Abort(c) PROVE ServeInv'
  BY <1>2 DEF Abort, ServeInv
<1>3. CASE Next
  BY <1>2, <1>3, ConnectServe, AskServe, FinishServe, ListenServe, AcceptServe, AcceptErrorServe,
     ReadServe, ReadEndServe, CallbackServe, CloseServe DEF Next, Server
<1> QED BY <1>1, <1>3

(* Until a client vanishes in the middle of what it sends, every reply       *)
(* written to a connection answers a request that came in on it, in the      *)
(* order they came, however the requests are cut into reads, whoever was     *)
(* served before on the same deframer and reply frame: for clients that wait *)
(* for an answer before they ask again.                                      *)
THEOREM RepliesMatch == ASSUME ServerAssumption, Paced PROVE Spec => []ReplyToItsSender
<1>1. Init => TypeInv /\ ServeInv
  BY InitTypeInv, InitServe
<1>2. TypeInv /\ ServeInv /\ [Next]_vars => TypeInv' /\ ServeInv'
  BY NextTypeInv, NextServe
<1>3. TypeInv /\ ServeInv => ReplyToItsSender
  <2>1. ASSUME TypeInv, NEW c \in Clients PROVE DOMAIN replies[c] = 1..Len(replies[c])
    BY <2>1 DEF TypeInv
  <2> QED BY <2>1 DEF ServeInv, Peer, Matched, ReplyToItsSender
<1> QED BY <1>1, <1>2, <1>3, PTL DEF Spec

(* A connection whose client has finished is closed only when every request  *)
(* on it has been answered, if every request calls a handler that replies.   *)
THEOREM AnsweredFirst ==
  ASSUME ServerAssumption, Paced, AllAnswered PROVE Spec => AnsweredBeforeClose
<1>1. Init => TypeInv /\ ServeInv
  BY InitTypeInv, InitServe
<1>2. TypeInv /\ ServeInv /\ [Next]_vars => TypeInv' /\ ServeInv'
  BY NextTypeInv, NextServe
<1>3. TypeInv /\ ServeInv /\ [Next]_vars =>
        [\A c \in Clients :
           c = cur /\ conn[c] = "finished" /\ conn'[c] = "none" /\ ~vanished
             => Unanswered(c) = 0]_vars
  <2> SUFFICES ASSUME TypeInv, ServeInv, Next, NEW c \in Clients,
                      c = cur, conn[c] = "finished", conn'[c] = "none", ~vanished
               PROVE  Unanswered(c) = 0
    OBVIOUS
  <2>1. conn \in [Clients -> ConnState] /\ cur # NoClient /\ pc \in {"read", "callback", "close"}
    BY DEF TypeInv, TypeOK, ServerAssumption
  <2>2. CASE Close
    BY <2>2, ClosedClear DEF Close
  <2>3. CASE \E d \in Clients : Connect(d) \/ Ask(d) \/ Finish(d) \/ Abort(d)
    BY <2>1, <2>3 DEF Connect, Ask, Finish, Abort
  <2>4. CASE Listen \/ Accept \/ AcceptError \/ Read \/ ReadEnd \/ ReadError \/ Callback
    BY <2>1, <2>4 DEF Listen, Accept, AcceptError, Read, ReadEnd, ReadError, Callback
  <2> QED BY <2>2, <2>3, <2>4 DEF Next, Server
<1> QED BY <1>1, <1>2, <1>3, PTL DEF Spec, AnsweredBeforeClose
=============================================================================
