------------------------- MODULE UdpRpcServerProofs -------------------------
(***************************************************************************)
(* Theorems about UdpRpcServer, alone or with a TCP server on its ProtoRpc,*)
(* for every table of callsets, all calls with the fields of a header and  *)
(* any number of clients, datagrams, repetitions and failures.             *)
(***************************************************************************)
EXTENDS UdpRpcServer, TLAPS

CallRecord == [unpacks : BOOLEAN, seqn : Nat, tag : Nat, known : BOOLEAN,
               no_reply : BOOLEAN, status : StatusEnum, long : BOOLEAN]

CallsAreRecords == Kinds \subseteq CallRecord /\ OtherKinds \subseteq CallRecord

Received == [from : Clients \cup {"tcp", "nobody"}, call : CallRecord]

ReplyRecord == [has_header : BOOLEAN, seqn : Nat, status : StatusEnum,
                which_callset : Nat, payload : [seqn : Nat, callset : Nat]]

TypeOK ==
  /\ calls \in Nat
  /\ net \in SUBSET Received /\ mbox \in Seq(Received)
  /\ at \in [Task -> {"read", "sleep", "rpc", "echo", "unpack", "lookup", "answer"}]
  /\ callback \in {"rpc", "echo"}
  /\ message \in [Task -> Received]
  /\ which \in [Task -> Nat]
  /\ met \in [Task -> BOOLEAN]
  /\ raced \in BOOLEAN /\ silent \in BOOLEAN
  /\ reply_frame \in ReplyRecord
  /\ call_frame \in CallRecord

\* Two tasks that are in ProtoRpc_server both know that they met.
MetKnown ==
  \A t, u \in Task : t # u /\ Inside(t) /\ Inside(u) => met[t] /\ met[u] /\ raced

\* A task that has met no other finds in the frames what it left there, once its
\* message is unpacked.
Unpacked(t) == at[t] \in {"lookup", "answer"}

FramesHold ==
  \A t \in Task :
    /\ Unpacked(t) => message[t].call.unpacks
    /\ Unpacked(t) /\ ~met[t] => call_frame = message[t].call
    /\ at[t] = "answer" /\ ~met[t] => reply_frame.status = call_frame.status

IInv == TypeOK /\ MetKnown /\ FramesHold /\ ReplyTellsOfCall

-----------------------------------------------------------------------------
\* What the steps do to the data.

LEMMA ZeroCallRecord == ZeroCall \in CallRecord /\ NoCall \in Received
<1>1. ZeroCall \in CallRecord /\ [ZeroCall EXCEPT !.unpacks = FALSE] \in CallRecord
  BY DEF ZeroCall, CallRecord, StatusEnum, RPC_SUCCESS
<1> QED BY <1>1 DEF NoCall, Received

\* A call that fails to unpack leaves a frame behind all the same.
LEMMA PartlyRecord ==
  ASSUME NEW frame \in CallRecord, NEW call \in CallRecord
  PROVE  Partly(frame, call) \subseteq CallRecord
  BY DEF Partly, CallRecord

LEMMA AsReadReceived ==
  ASSUME NEW d \in Received
  PROVE  AsRead(d) \in Received
<1>1. CASE d.call.long
  <2>1. [d.call EXCEPT !.unpacks = FALSE] \in CallRecord
    BY DEF Received, CallRecord
  <2>2. [d EXCEPT !.call.unpacks = FALSE] = [d EXCEPT !.call = [d.call EXCEPT !.unpacks = FALSE]]
    BY DEF Received
  <2> QED BY <1>1, <2>1, <2>2 DEF AsRead, Received
<1>2. CASE ~d.call.long
  BY <1>2 DEF AsRead
<1> QED BY <1>1, <1>2

LEMMA DatagramReceived ==
  ASSUME NEW c \in Clients \cup {"tcp"}, NEW n \in Nat, NEW kind \in CallRecord
  PROVE  Datagram(c, n, kind) \in Received
  BY DEF Datagram, Received, CallRecord

LEMMA LookupResult ==
  ASSUME NEW call, NEW w
  PROVE  Lookup(call, w) \in StatusEnum
         /\ (Lookup(call, w) # RPC_SUCCESS =>
               Lookup(call, w) \in {RPC_BAD_RESOLVER_LOOKUP, RPC_BAD_HANDLER_LOOKUP})
  BY DEF Lookup, StatusEnum, RPC_SUCCESS, RPC_BAD_RESOLVER_LOOKUP, RPC_BAD_HANDLER_LOOKUP,
         RPC_HANDLER_ERROR

\* The frame a failed lookup, a handler and a finished call leave.
LEMMA BadLookupFrame ==
  ASSUME NEW f \in ReplyRecord, NEW call \in CallRecord, NEW status \in StatusEnum
  PROVE  LET served == BadLookup(f, call, status) IN
         /\ served.frame \in ReplyRecord
         /\ served.frame.seqn = call.seqn /\ served.frame.status = status
         /\ served.frame.payload = f.payload
         /\ served.frame.which_callset = f.which_callset
         /\ ~served.ran
         /\ served.reply.packed => served.reply.frame = served.frame
<1> DEFINE answer == [f EXCEPT !.seqn = call.seqn, !.status = status]
<1>1. /\ answer \in ReplyRecord /\ answer.seqn = call.seqn /\ answer.status = status
      /\ answer.payload = f.payload /\ answer.which_callset = f.which_callset
  BY DEF ReplyRecord, CallRecord
<1> HIDE DEF answer
<1>2. Pack(answer).packed => Pack(answer).frame = answer
  BY DEF Pack, NoReply
<1> QED BY <1>1, <1>2 DEF BadLookup, Served, answer

LEMMA HandledFrame ==
  ASSUME NEW f \in ReplyRecord, NEW call \in CallRecord, NEW w \in Nat
  PROVE  /\ Handled(f, call, w) \in ReplyRecord
         /\ Handled(f, call, w).status = call.status
         /\ Handled(f, call, w).payload.callset = w
  BY DEF Handled, ReplyRecord, CallRecord

LEMMA AnsweredFrame ==
  ASSUME NEW f \in ReplyRecord, NEW call \in CallRecord, NEW w \in Nat
  PROVE  LET served == Answered(f, call, w) IN
         /\ served.frame \in ReplyRecord
         /\ served.ran
         /\ call.no_reply => served.frame = f /\ ~served.reply.packed
         /\ ~call.no_reply => /\ served.frame.which_callset = w
                              /\ served.frame.payload = f.payload
         /\ served.reply.packed =>
              /\ ~call.no_reply
              /\ served.reply.frame = served.frame
              /\ served.frame.seqn = call.seqn
              /\ served.frame.status = f.status
<1> DEFINE answer == [f EXCEPT !.seqn = call.seqn, !.has_header = TRUE, !.which_callset = w]
<1>1. /\ answer \in ReplyRecord /\ answer.seqn = call.seqn /\ answer.status = f.status
      /\ answer.payload = f.payload /\ answer.which_callset = w
  BY DEF ReplyRecord, CallRecord
<1> HIDE DEF answer
<1>2. Pack(answer).packed => Pack(answer).frame = answer
  BY DEF Pack, NoReply
<1>3. CASE call.no_reply
  BY <1>3 DEF Answered, Served, NoReply
<1>4. CASE ~call.no_reply
  BY <1>1, <1>2, <1>4 DEF Answered, Served, answer
<1> QED BY <1>3, <1>4

-----------------------------------------------------------------------------

LEMMA InitIInv == Init => IInv
<1> SUFFICES ASSUME Init PROVE IInv
  OBVIOUS
<1>1. \A t \in Task : ~Inside(t) /\ ~Unpacked(t)
  BY DEF Init, Inside, Unpacked
<1>2. ZeroFrame \in ReplyRecord
  BY DEF ZeroFrame, ReplyRecord, StatusEnum, RPC_SUCCESS, Nobody
<1>3. TypeOK
  <2>1. /\ calls \in Nat /\ net \in SUBSET Received /\ mbox \in Seq(Received)
        /\ callback \in {"rpc", "echo"} /\ reply_frame \in ReplyRecord
        /\ call_frame \in CallRecord
    BY <1>2, ZeroCallRecord DEF Init
  <2>2. /\ at \in [Task -> {"read", "sleep", "rpc", "echo", "unpack", "lookup", "answer"}]
        /\ message \in [Task -> Received] /\ which \in [Task -> Nat]
    BY ZeroCallRecord DEF Init
  <2>3. met \in [Task -> BOOLEAN]
    BY DEF Init
  <2>4. raced \in BOOLEAN /\ silent \in BOOLEAN
    BY Zenon DEF Init
  <2> QED BY <2>1, <2>2, <2>3, <2>4 DEF TypeOK
<1>4. MetKnown /\ FramesHold
  BY <1>1 DEF Init, MetKnown, FramesHold
<1>5. ReplyTellsOfCall
  BY DEF Init, ReplyTellsOfCall, NothingSent, NoReply
<1> QED BY <1>3, <1>4, <1>5 DEF IInv

\* A step that moves at most one task, neither from nor to a place inside
\* ProtoRpc_server, and leaves the ProtoRpc alone.
LEMMA OutsideKeeps ==
  ASSUME IInv, UNCHANGED rpcVars,
         NEW t \in Task, ~Inside(t), ~Inside(t)',
         \A u \in Task \ {t} : at'[u] = at[u] /\ message'[u] = message[u]
  PROVE  MetKnown' /\ FramesHold'
<1>1. \A u \in Task : Inside(u)' => u # t /\ Inside(u) /\ at'[u] = at[u] /\ message'[u] = message[u]
  BY DEF Inside
<1>2. UNCHANGED <<which, call_frame, reply_frame, silent, met, raced>>
  BY DEF rpcVars
<1>3. MetKnown'
  BY <1>1, <1>2 DEF IInv, MetKnown
<1>4. FramesHold'
  <2> SUFFICES ASSUME NEW u \in Task
               PROVE  /\ Unpacked(u)' => message'[u].call.unpacks
                      /\ Unpacked(u)' /\ ~met'[u] => call_frame' = message'[u].call
                      /\ at'[u] = "answer" /\ ~met'[u] =>
                           reply_frame'.status = call_frame'.status
    BY DEF FramesHold
  <2>1. at'[u] = "answer" \/ Unpacked(u)' => Inside(u)'
    BY DEF Inside, Unpacked
  <2> QED BY <1>1, <1>2, <2>1 DEF IInv, FramesHold, Unpacked
<1> QED BY <1>3, <1>4

\* The clients and the network.
LEMMA OutsideIInv ==
  ASSUME IInv, CallsAreRecords,
         \/ \E c \in Clients : Send(c)
         \/ Network \/ UNCHANGED vars
  PROVE  IInv'
<1>1. UNCHANGED <<callback, at, message, rpcVars, sent>>
  BY DEF Send, Network, Repeat, Deliver, Lose, vars
<1>2. UNCHANGED <<which, call_frame, reply_frame, silent, met, raced>>
  BY <1>1 DEF rpcVars
<1>3. calls' \in Nat /\ net' \in SUBSET Received /\ mbox' \in Seq(Received)
  <2>1. ASSUME NEW c \in Clients, Send(c)
        PROVE  calls' \in Nat /\ net' \in SUBSET Received /\ mbox' \in Seq(Received)
    <3>1. PICK kind \in Kinds : Transmit(Datagram(c, calls', kind))
      BY <2>1 DEF Send
    <3>2. calls' \in Nat /\ mbox' = mbox
      BY <2>1 DEF Send, IInv, TypeOK
    <3>3. Datagram(c, calls', kind) \in Received
      BY <3>2, DatagramReceived DEF CallsAreRecords
    <3> QED BY <3>1, <3>2, <3>3 DEF Transmit, IInv, TypeOK
  <2>2. ASSUME NEW d \in net, Repeat(d) \/ Deliver(d) \/ Lose(d)
        PROVE  calls' \in Nat /\ net' \in SUBSET Received /\ mbox' \in Seq(Received)
    <3>1. d \in Received /\ calls' = calls
      BY <2>2 DEF Repeat, Deliver, Lose, IInv, TypeOK
    <3>2. net' \in SUBSET Received
      BY <2>2, <3>1 DEF Repeat, Deliver, Lose, Transmit, IInv, TypeOK
    <3>3. mbox' = mbox \/ mbox' = Append(mbox, d)
      BY <2>2 DEF Repeat, Deliver, Lose
    <3>4. mbox \in Seq(Received) /\ calls \in Nat
      BY DEF IInv, TypeOK
    <3>5. Append(mbox, d) \in Seq(Received)
      BY <3>1, <3>4
    <3> QED BY <3>1, <3>2, <3>3, <3>4, <3>5
  <2>3. CASE UNCHANGED vars
    BY <2>3 DEF vars, netVars, IInv, TypeOK
  <2> QED BY <2>1, <2>2, <2>3 DEF Network
<1>4. TypeOK'
  BY <1>1, <1>2, <1>3 DEF IInv, TypeOK, Inside
<1>5. MetKnown' /\ FramesHold' /\ ReplyTellsOfCall'
  BY <1>1, <1>2 DEF IInv, MetKnown, FramesHold, ReplyTellsOfCall, Inside, Unpacked
<1> QED BY <1>4, <1>5 DEF IInv

\* udp_server_task and the echo, and the TCP server up to its call of ProtoRpc_server.
LEMMA ReadIInv ==
  ASSUME IInv, Read
  PROVE  IInv'
<1>1. /\ at["udp"] = "read" /\ at' = [at EXCEPT !["udp"] = callback]
      /\ message' = [message EXCEPT !["udp"] = AsRead(Head(mbox))]
      /\ mbox' = Tail(mbox) /\ mbox # << >> /\ sent' = NothingSent
      /\ UNCHANGED <<callback, net, calls, rpcVars>>
  BY DEF Read, Goto
<1>2. Head(mbox) \in Received /\ mbox' \in Seq(Received)
  BY <1>1 DEF IInv, TypeOK
<1>3. AsRead(Head(mbox)) \in Received
  BY <1>2, AsReadReceived
<1>4. /\ "udp" \in Task /\ ~Inside("udp") /\ ~Inside("udp")'
      /\ \A u \in Task \ {"udp"} : at'[u] = at[u] /\ message'[u] = message[u]
  BY <1>1 DEF Task, Inside, IInv, TypeOK
<1>5. MetKnown' /\ FramesHold'
  BY <1>1, <1>4, OutsideKeeps
<1>6. TypeOK'
  BY <1>1, <1>2, <1>3, <1>5 DEF IInv, TypeOK, rpcVars
<1>7. ReplyTellsOfCall'
  BY <1>1 DEF ReplyTellsOfCall, NothingSent, NoReply
<1> QED BY <1>5, <1>6, <1>7 DEF IInv

LEMMA TaskIInv ==
  ASSUME IInv, ReadError \/ Wake \/ Echo
  PROVE  IInv'
<1>1. /\ at["udp"] \in {"read", "sleep", "echo"}
      /\ \E place \in {"read", "sleep"} : at' = [at EXCEPT !["udp"] = place]
      /\ UNCHANGED <<callback, message, rpcVars, net, mbox, calls>>
  BY DEF ReadError, Wake, Echo, Goto, netVars
<1>2. /\ "udp" \in Task /\ ~Inside("udp") /\ ~Inside("udp")'
      /\ \A u \in Task \ {"udp"} : at'[u] = at[u] /\ message'[u] = message[u]
  BY <1>1 DEF Task, Inside, IInv, TypeOK
<1>3. MetKnown' /\ FramesHold'
  BY <1>1, <1>2, OutsideKeeps
<1>4. TypeOK'
  BY <1>1, <1>3 DEF IInv, TypeOK, rpcVars
<1>5. sent' = sent \/ ~sent'.reply.packed
  BY DEF ReadError, Wake, Echo, NoReply, echoVars
<1>6. ReplyTellsOfCall'
  BY <1>5 DEF IInv, ReplyTellsOfCall
<1> QED BY <1>3, <1>4, <1>6 DEF IInv

LEMMA OtherCallIInv ==
  ASSUME IInv, CallsAreRecords, OtherCall
  PROVE  IInv'
<1>1. /\ at["tcp"] = "read" /\ at' = [at EXCEPT !["tcp"] = "rpc"]
      /\ calls' = calls + 1 /\ sent' = NothingSent
      /\ UNCHANGED <<callback, net, mbox, rpcVars>>
  BY DEF OtherCall, Goto
<1>2. PICK kind \in OtherKinds :
        message' = [message EXCEPT !["tcp"] = AsRead(Datagram("tcp", calls', kind))]
  BY DEF OtherCall
<1>3. calls' \in Nat
  BY <1>1 DEF IInv, TypeOK
<1>4. AsRead(Datagram("tcp", calls', kind)) \in Received
  BY <1>3, DatagramReceived, AsReadReceived DEF CallsAreRecords
<1>5. /\ "tcp" \in Task /\ ~Inside("tcp") /\ ~Inside("tcp")'
      /\ \A u \in Task \ {"tcp"} : at'[u] = at[u] /\ message'[u] = message[u]
  BY <1>1, <1>2 DEF Task, Inside, IInv, TypeOK
<1>6. MetKnown' /\ FramesHold'
  BY <1>1, <1>5, OutsideKeeps
<1>7. TypeOK'
  BY <1>1, <1>2, <1>3, <1>4, <1>6 DEF IInv, TypeOK, rpcVars
<1>8. ReplyTellsOfCall'
  BY <1>1 DEF ReplyTellsOfCall, NothingSent, NoReply
<1> QED BY <1>6, <1>7, <1>8 DEF IInv

-----------------------------------------------------------------------------
(* ProtoRpc_server *)

\* The other task, if there is one, is told of the meeting before the call frame is
\* overwritten under it.
LEMMA EnterIInv ==
  ASSUME IInv, NEW t \in Task, Enter(t)
  PROVE  IInv'
<1> DEFINE inside == {u \in Task \ {t} : Inside(u)}
<1>1. /\ at[t] = "rpc" /\ ~Inside(t)
      /\ call_frame' = [call_frame EXCEPT !.seqn = 0, !.tag = 0, !.no_reply = FALSE]
      /\ met' = [u \in Task |-> IF u = t THEN inside # {} ELSE met[u] \/ u \in inside]
      /\ raced' = (raced \/ inside # {})
      /\ at' = [at EXCEPT ![t] = "unpack"]
      /\ UNCHANGED <<callback, net, mbox, calls, message, which, reply_frame, silent, sent>>
  BY DEF Enter, Goto, Inside, netVars
<1>2. \A u \in Task : u # t /\ Inside(u) => u \in inside
  OBVIOUS
<1> HIDE DEF inside
<1>3. call_frame' \in CallRecord
  BY <1>1 DEF IInv, TypeOK, CallRecord
<1>4. \A u \in Task : u # t => at'[u] = at[u] /\ (Inside(u)' <=> Inside(u))
  BY <1>1 DEF IInv, TypeOK, Inside
<1>5. Inside(t)' /\ at'[t] = "unpack"
  BY <1>1 DEF IInv, TypeOK, Inside
<1>6. met' \in [Task -> BOOLEAN] /\ raced' \in BOOLEAN
  BY <1>1, Zenon DEF IInv, TypeOK
<1>7. TypeOK'
  BY <1>1, <1>3, <1>6 DEF IInv, TypeOK
<1>8. \A u \in Task : u # t /\ Inside(u) => met'[u] /\ met'[t] /\ raced'
  BY <1>1, <1>2
<1>9. MetKnown'
  <2> SUFFICES ASSUME NEW u \in Task, NEW v \in Task, u # v, Inside(u)', Inside(v)'
               PROVE  met'[u] /\ met'[v] /\ raced'
    BY DEF MetKnown
  <2>1. CASE u = t
    BY <1>4, <1>8, <2>1
  <2>2. CASE v = t
    BY <1>4, <1>8, <2>2
  <2>3. CASE u # t /\ v # t
    <3>1. met[u] /\ met[v] /\ raced
      BY <1>4, <2>3 DEF IInv, MetKnown
    <3> QED BY <1>1, <2>3, <3>1, Zenon
  <2> QED BY <2>1, <2>2, <2>3
<1>10. FramesHold'
  <2> SUFFICES ASSUME NEW u \in Task
               PROVE  /\ Unpacked(u)' => message'[u].call.unpacks
                      /\ Unpacked(u)' /\ ~met'[u] => call_frame' = message'[u].call
                      /\ at'[u] = "answer" /\ ~met'[u] =>
                           reply_frame'.status = call_frame'.status
    BY DEF FramesHold
  <2>1. at'[u] = "answer" => Unpacked(u)'
    BY DEF Unpacked
  <2>2. CASE u = t
    BY <1>5, <2>2 DEF Unpacked
  <2>3. CASE u # t
    <3>1. Unpacked(u)' => Unpacked(u) /\ Inside(u)
      BY <1>4, <2>3 DEF Unpacked, Inside
    <3>2. Unpacked(u)' => met'[u] /\ message'[u].call.unpacks
      BY <1>1, <1>8, <2>3, <3>1 DEF IInv, FramesHold
    <3> QED BY <2>1, <3>2
  <2> QED BY <2>2, <2>3
<1>11. ReplyTellsOfCall'
  BY <1>1 DEF IInv, ReplyTellsOfCall
<1> QED BY <1>7, <1>9, <1>10, <1>11 DEF IInv

\* Whatever the decoder then leaves in the call frame, it spoils no call that has not
\* met this one.
LEMMA UnpackIInv ==
  ASSUME IInv, FrameByte \in Nat \ {0}, NEW t \in Task, Unpack(t)
  PROVE  IInv'
<1> DEFINE call == message[t].call
<1>1. /\ at[t] = "unpack" /\ Inside(t)
      /\ UNCHANGED <<callback, net, mbox, calls, message, reply_frame, silent, sent, met, raced>>
  BY DEF Unpack, Inside, netVars
<1>2. call \in CallRecord /\ call_frame \in CallRecord
  BY DEF IInv, TypeOK, Received
<1>3. PICK place \in {"lookup", "read"} :
        /\ at' = [at EXCEPT ![t] = place]
        /\ place = "lookup" => call.unpacks /\ call_frame' = call
  BY DEF Unpack, Goto
<1>4. call_frame' \in CallRecord /\ which' \in [Task -> Nat]
  <2>1. CASE call.unpacks
    <3>1. call_frame' = call /\ which' = [which EXCEPT ![t] = call.tag % FrameByte]
      BY <2>1 DEF Unpack
    <3>2. call.tag % FrameByte \in Nat
      BY <1>2 DEF CallRecord
    <3> HIDE DEF call
    <3> QED BY <1>2, <3>1, <3>2 DEF IInv, TypeOK
  <2>2. CASE ~call.unpacks
    <3>1. call_frame' \in Partly(call_frame, call) /\ which' = which
      BY <2>2 DEF Unpack
    <3> HIDE DEF call
    <3> QED BY <1>2, <3>1, PartlyRecord DEF IInv, TypeOK
  <2> QED BY <2>1, <2>2
<1>5. \A u \in Task : u # t => at'[u] = at[u] /\ (Inside(u)' <=> Inside(u))
  BY <1>3 DEF IInv, TypeOK, Inside
<1>6. at'[t] = place
  BY <1>3 DEF IInv, TypeOK
<1>7. TypeOK'
  BY <1>1, <1>3, <1>4 DEF IInv, TypeOK
<1>8. \A u \in Task : u # t /\ Inside(u) => met[u] /\ met[t]
  BY <1>1 DEF IInv, MetKnown
<1>9. MetKnown'
  BY <1>1, <1>5 DEF IInv, MetKnown
<1>10. FramesHold'
  <2> SUFFICES ASSUME NEW u \in Task
               PROVE  /\ Unpacked(u)' => message'[u].call.unpacks
                      /\ Unpacked(u)' /\ ~met'[u] => call_frame' = message'[u].call
                      /\ at'[u] = "answer" /\ ~met'[u] =>
                           reply_frame'.status = call_frame'.status
    BY DEF FramesHold
  <2>1. CASE u = t
    <3>1. at'[u] # "answer" /\ (Unpacked(u)' => place = "lookup")
      BY <1>6, <2>1 DEF Unpacked
    <3> QED BY <1>1, <1>3, <2>1, <3>1
  <2>2. CASE u # t
    <3>1. (at'[u] = "answer" => Unpacked(u)') /\ (Unpacked(u)' => Unpacked(u) /\ Inside(u))
      BY <1>5, <2>2 DEF Unpacked, Inside
    <3>2. Unpacked(u)' => met'[u] /\ message'[u].call.unpacks
      BY <1>1, <1>8, <2>2, <3>1 DEF IInv, FramesHold
    <3> QED BY <3>1, <3>2
  <2> QED BY <2>1, <2>2
<1>11. ReplyTellsOfCall'
  BY <1>1 DEF IInv, ReplyTellsOfCall
<1> QED BY <1>7, <1>9, <1>10, <1>11 DEF IInv

\* A task inside moves.  One that has met none is the only one there; and where it has
\* met the other, the other knows.
LEMMA InsideKeeps ==
  ASSUME IInv, NEW t \in Task, Unpacked(t), NEW place, at' = [at EXCEPT ![t] = place],
         UNCHANGED <<message, which, call_frame, met, raced>>,
         Inside(t)' => place = "answer" /\ reply_frame'.status = call_frame.status
  PROVE  MetKnown' /\ FramesHold'
<1> Inside(t)
  BY DEF Unpacked, Inside
<1>1. \A u \in Task : u # t => at'[u] = at[u] /\ (Inside(u)' <=> Inside(u))
  BY DEF IInv, TypeOK, Inside
<1>2. \A u \in Task : u # t /\ Inside(u) => met[u] /\ met[t]
  BY DEF IInv, MetKnown
<1>3. MetKnown'
  BY <1>1 DEF IInv, MetKnown
<1>4. FramesHold'
  <2> SUFFICES ASSUME NEW u \in Task
               PROVE  /\ Unpacked(u)' => message'[u].call.unpacks
                      /\ Unpacked(u)' /\ ~met'[u] => call_frame' = message'[u].call
                      /\ at'[u] = "answer" /\ ~met'[u] =>
                           reply_frame'.status = call_frame'.status
    BY DEF FramesHold
  <2>1. at'[u] = "answer" \/ Unpacked(u)' => Inside(u)'
    BY DEF Inside, Unpacked
  <2>2. CASE u = t
    BY <2>1, <2>2 DEF IInv, FramesHold
  <2>3. CASE u # t
    BY <1>1, <1>2, <2>1, <2>3 DEF IInv, FramesHold, Unpacked
  <2> QED BY <2>2, <2>3
<1> QED BY <1>3, <1>4

\* A handler that runs, and a lookup that fails and is answered.
LEMMA HandleIInv ==
  ASSUME IInv, NEW t \in Task, Handle(t)
  PROVE  IInv'
<1> DEFINE found == Lookup(call_frame, which[t])
           bad == BadLookup(reply_frame, call_frame, found)
<1>1. /\ at[t] = "lookup" /\ Unpacked(t)
      /\ UNCHANGED <<callback, net, mbox, calls, message, which, call_frame, met, raced>>
  BY DEF Handle, Unpacked, netVars
<1>2. /\ call_frame \in CallRecord /\ reply_frame \in ReplyRecord /\ which[t] \in Nat
      /\ message[t].call.unpacks
      /\ ~met[t] => call_frame = message[t].call
  BY <1>1 DEF IInv, TypeOK, FramesHold
<1>3. CASE found = RPC_SUCCESS
  <2>1. /\ reply_frame' = Handled(reply_frame, call_frame, which[t])
        /\ silent' = call_frame.no_reply /\ at' = [at EXCEPT ![t] = "answer"]
        /\ UNCHANGED sent
    BY <1>3 DEF Handle, Goto
  <2>2. reply_frame' \in ReplyRecord /\ reply_frame'.status = call_frame.status
    BY <1>2, <2>1, HandledFrame
  <2>3. Inside(t)' => "answer" = "answer" /\ reply_frame'.status = call_frame.status
    BY <2>2
  <2>4. MetKnown' /\ FramesHold'
    BY <1>1, <2>1, <2>3, InsideKeeps
  <2>5. silent' \in BOOLEAN
    BY <1>2, <2>1 DEF CallRecord
  <2>6. TypeOK'
    BY <1>1, <2>1, <2>2, <2>4, <2>5 DEF IInv, TypeOK
  <2>7. ReplyTellsOfCall'
    BY <2>1 DEF IInv, ReplyTellsOfCall
  <2> QED BY <2>4, <2>6, <2>7 DEF IInv
<1>4. CASE found # RPC_SUCCESS
  <2>1. /\ Write(t, bad) /\ at' = [at EXCEPT ![t] = "read"] /\ UNCHANGED silent
    BY <1>4 DEF Handle, Goto
  <2>2. found \in {RPC_BAD_RESOLVER_LOOKUP, RPC_BAD_HANDLER_LOOKUP} /\ found \in StatusEnum
    BY <1>4, LookupResult
  <2> HIDE DEF found
  <2>3. /\ bad.frame \in ReplyRecord
        /\ bad.frame.seqn = call_frame.seqn /\ bad.frame.status = found /\ ~bad.ran
        /\ bad.reply.packed => bad.reply.frame = bad.frame
    BY <1>2, <2>2, BadLookupFrame
  <2> HIDE DEF bad
  <2>4. ~Inside(t)'
    BY <2>1 DEF IInv, TypeOK, Inside
  <2>5. MetKnown' /\ FramesHold'
    BY <1>1, <2>1, <2>4, InsideKeeps
  <2>6. TypeOK'
    BY <1>1, <2>1, <2>3, <2>5 DEF IInv, TypeOK, Write
  <2>7. ReplyTellsOfCall'
    <3>1. CASE bad.reply.packed
      <4>1. sent' = [to |-> message[t].from, reply |-> bad.reply, of |-> message[t],
                     ran |-> bad.ran, silent |-> silent, met |-> met[t]]
        BY <2>1, <3>1 DEF Write
      <4>2. /\ sent'.to = sent'.of.from /\ sent'.of = message[t] /\ sent'.ran = bad.ran
            /\ sent'.met = met[t] /\ sent'.reply.frame = bad.frame
        BY <2>3, <3>1, <4>1
      <4> QED BY <1>2, <2>2, <2>3, <4>2 DEF ReplyTellsOfCall
    <3>2. CASE ~bad.reply.packed
      BY <2>1, <3>2 DEF IInv, Write, ReplyTellsOfCall
    <3> QED BY <3>1, <3>2
  <2> QED BY <2>5, <2>6, <2>7 DEF IInv
<1> QED BY <1>3, <1>4

\* The reply of a handler.
LEMMA AnswerIInv ==
  ASSUME IInv, NEW t \in Task, Answer(t)
  PROVE  IInv'
<1> DEFINE done == Answered(reply_frame, call_frame, which[t])
<1>1. /\ at[t] = "answer" /\ Unpacked(t)
      /\ Write(t, done) /\ at' = [at EXCEPT ![t] = "read"]
      /\ UNCHANGED <<callback, net, mbox, calls, message, which, call_frame, met, raced,
                     silent>>
  BY DEF Answer, Goto, Unpacked, netVars
<1>2. /\ call_frame \in CallRecord /\ reply_frame \in ReplyRecord /\ which[t] \in Nat
      /\ message[t].call.unpacks
      /\ ~met[t] => call_frame = message[t].call /\ reply_frame.status = call_frame.status
  BY <1>1 DEF IInv, TypeOK, FramesHold
<1>3. /\ done.frame \in ReplyRecord /\ done.ran
      /\ done.reply.packed => /\ done.reply.frame = done.frame
                              /\ done.frame.seqn = call_frame.seqn
                              /\ done.frame.status = reply_frame.status
  <2>1. done.frame \in ReplyRecord
    <3>1. CASE call_frame.no_reply
      BY <1>2, <3>1, AnsweredFrame
    <3>2. CASE ~call_frame.no_reply
      BY <1>2, <3>2, AnsweredFrame
    <3> QED BY <3>1, <3>2
  <2> QED BY <1>2, <2>1, AnsweredFrame
<1> HIDE DEF done
<1>4. ~Inside(t)'
  BY <1>1 DEF IInv, TypeOK, Inside
<1>5. MetKnown' /\ FramesHold'
  BY <1>1, <1>4, InsideKeeps
<1>6. TypeOK'
  BY <1>1, <1>3, <1>5 DEF IInv, TypeOK, Write
<1>7. ReplyTellsOfCall'
  <2>1. CASE done.reply.packed
    <3>1. sent' = [to |-> message[t].from, reply |-> done.reply, of |-> message[t],
                   ran |-> done.ran, silent |-> silent, met |-> met[t]]
      BY <1>1, <2>1 DEF Write
    <3>2. /\ sent'.to = sent'.of.from /\ sent'.of = message[t] /\ sent'.ran = done.ran
          /\ sent'.met = met[t] /\ sent'.reply.frame = done.frame
      BY <1>3, <2>1, <3>1
    <3> QED BY <1>2, <1>3, <2>1, <3>2 DEF ReplyTellsOfCall
  <2>2. CASE ~done.reply.packed
    BY <1>1, <2>2 DEF IInv, Write, ReplyTellsOfCall
  <2> QED BY <2>1, <2>2
<1> QED BY <1>5, <1>6, <1>7 DEF IInv

LEMMA NextIInv ==
  ASSUME CallsAreRecords
  PROVE  IInv /\ [Next]_vars => IInv'
<1> SUFFICES ASSUME IInv, [Next]_vars PROVE IInv'
  OBVIOUS
<1> USE CallsetAssumption
<1>1. CASE \/ \E c \in Clients : Send(c)
           \/ Network \/ ReadTimeout \/ UNCHANGED vars
  BY <1>1, OutsideIInv DEF ReadTimeout
<1>2. CASE Read \/ ReadError \/ Wake \/ Echo \/ OtherCall
  BY <1>2, ReadIInv, TaskIInv, OtherCallIInv
<1>3. CASE Rpc("udp") \/ Rpc("tcp")
  BY <1>3, EnterIInv, UnpackIInv, HandleIInv, AnswerIInv DEF Rpc, Task
<1> QED BY <1>1, <1>2, <1>3 DEF Next, Server

\* A reply that ProtoRpc_server writes tells of the call it answers and goes to its
\* sender, for every table of callsets and any calls; and two servers on one ProtoRpc
\* spoil no call but those during which they meet.
THEOREM ReplyTells ==
  ASSUME CallsAreRecords
  PROVE  Spec => []ReplyTellsOfCall
<1>1. IInv => ReplyTellsOfCall
  BY DEF IInv
<1> QED BY InitIInv, NextIInv, <1>1, PTL DEF Spec

-----------------------------------------------------------------------------
(* The union of the reply frame *)

\* Without a race, the union holds what which_callset says, but between a handler and
\* the header, and after a handler whose call wanted no reply.
UnionHolds ==
  ~raced =>
    /\ \A t \in Task : at[t] = "answer" =>
         /\ reply_frame.payload.callset = which[t]
         /\ silent = call_frame.no_reply
    /\ (\A t \in Task : at[t] # "answer") /\ ~silent =>
         reply_frame.payload.callset = reply_frame.which_callset

UInv == UnionHolds /\ PackedAsWritten

LEMMA InitUInv == Init => UInv
<1> SUFFICES ASSUME Init PROVE UInv
  OBVIOUS
<1>1. \A t \in Task : at[t] # "answer"
  BY DEF Init
<1>2. reply_frame.payload.callset = reply_frame.which_callset
  BY DEF Init, ZeroFrame, Nobody
<1>3. ~sent.reply.packed
  BY DEF Init, NothingSent, NoReply
<1> QED BY <1>1, <1>2, <1>3 DEF UInv, UnionHolds, PackedAsWritten

\* What a step does to a reply that is not written in it.
LEMMA ElsewhereUInv ==
  ASSUME IInv, UInv, UNCHANGED rpcVars,
         sent' = sent \/ ~sent'.reply.packed,
         \A t \in Task : at'[t] = "answer" <=> at[t] = "answer"
  PROVE  UInv'
<1>1. UNCHANGED <<which, call_frame, reply_frame, silent, met, raced>>
  BY DEF rpcVars
<1>2. UnionHolds'
  BY <1>1 DEF UInv, UnionHolds
<1>3. PackedAsWritten'
  BY <1>1 DEF UInv, PackedAsWritten
<1> QED BY <1>2, <1>3 DEF UInv

LEMMA OutsideUInv ==
  ASSUME IInv, UInv,
         \/ \E c \in Clients : Send(c)
         \/ Network \/ UNCHANGED vars
         \/ Read \/ ReadError \/ Wake \/ Echo \/ OtherCall
  PROVE  UInv'
<1>1. UNCHANGED rpcVars
  BY DEF Send, Network, Repeat, Deliver, Lose, vars, Read, ReadError, Wake, Echo, OtherCall
<1>2. sent' = sent \/ ~sent'.reply.packed
  BY DEF Send, Network, Repeat, Deliver, Lose, vars, Read, ReadError, Wake, Echo, OtherCall,
         NothingSent, NoReply, echoVars
<1>3. \/ at' = at
      \/ \E t \in Task, place \in {"rpc", "echo", "read", "sleep"} :
           at[t] # "answer" /\ at' = [at EXCEPT ![t] = place]
  BY DEF Send, Network, Repeat, Deliver, Lose, vars, Read, ReadError, Wake, Echo, OtherCall,
         Goto, Task, IInv, TypeOK
<1>4. \A t \in Task : at'[t] = "answer" <=> at[t] = "answer"
  BY <1>3 DEF IInv, TypeOK
<1> QED BY <1>1, <1>2, <1>4, ElsewhereUInv

\* The call frame changes while no other task reads it, or there is a race.
LEMMA EnterUInv ==
  ASSUME IInv, UInv, NEW t \in Task, Enter(t)
  PROVE  UInv'
<1>1. /\ at[t] = "rpc" /\ UNCHANGED <<reply_frame, which, silent, sent>>
      /\ at' = [at EXCEPT ![t] = "unpack"]
  BY DEF Enter, Goto
<1>2. \A u \in Task : at'[u] = "answer" <=> at[u] = "answer"
  BY <1>1 DEF IInv, TypeOK
<1>3. raced => raced'
  BY DEF Enter
<1>4. ~raced' => \A u \in Task : at[u] # "answer"
  <2> SUFFICES ASSUME NEW u \in Task, at[u] = "answer" PROVE raced'
    OBVIOUS
  <2>1. u \in {v \in Task \ {t} : Inside(v)}
    BY <1>1 DEF Inside
  <2> QED BY <2>1 DEF Enter
<1>5. UnionHolds'
  BY <1>1, <1>2, <1>3, <1>4 DEF UInv, UnionHolds
<1> QED BY <1>1, <1>3, <1>5 DEF UInv, PackedAsWritten

\* A task inside, and no race: it is the only one.
LEMMA Alone ==
  ASSUME IInv, ~raced, NEW t \in Task, Inside(t)
  PROVE  \A u \in Task \ {t} : at[u] # "answer"
  BY DEF IInv, MetKnown, Inside

LEMMA UnpackUInv ==
  ASSUME IInv, UInv, NEW t \in Task, Unpack(t)
  PROVE  UInv'
<1>1. /\ at[t] = "unpack" /\ Inside(t) /\ UNCHANGED <<reply_frame, silent, sent, raced>>
      /\ \E place \in {"lookup", "read"} : at' = [at EXCEPT ![t] = place]
  BY DEF Unpack, Goto, Inside
<1>2. \A u \in Task : at'[u] = "answer" <=> at[u] = "answer"
  BY <1>1 DEF IInv, TypeOK
<1>3. ~raced => \A u \in Task : at[u] # "answer"
  BY <1>1, Alone
<1>4. UnionHolds'
  BY <1>1, <1>2, <1>3 DEF UInv, UnionHolds
<1> QED BY <1>1, <1>4 DEF UInv, PackedAsWritten

LEMMA HandleUInv ==
  ASSUME IInv, UInv, NEW t \in Task, Handle(t)
  PROVE  UInv'
<1> DEFINE found == Lookup(call_frame, which[t])
           bad == BadLookup(reply_frame, call_frame, found)
<1>1. /\ at[t] = "lookup" /\ Inside(t)
      /\ UNCHANGED <<which, call_frame, raced>>
  BY DEF Handle, Inside
<1>2. call_frame \in CallRecord /\ reply_frame \in ReplyRecord /\ which[t] \in Nat
  BY <1>1 DEF IInv, TypeOK
<1>3. CASE found = RPC_SUCCESS
  <2>1. /\ reply_frame' = Handled(reply_frame, call_frame, which[t])
        /\ silent' = call_frame.no_reply /\ at' = [at EXCEPT ![t] = "answer"]
        /\ UNCHANGED sent
    BY <1>3 DEF Handle, Goto
  <2>2. reply_frame'.payload.callset = which[t]
    BY <1>2, <2>1, HandledFrame
  <2>3. at'[t] = "answer" /\ \A u \in Task \ {t} : at'[u] = at[u]
    BY <2>1 DEF IInv, TypeOK
  <2>4. UnionHolds'
    BY <1>1, <2>1, <2>2, <2>3, Alone DEF UnionHolds
  <2> QED BY <1>1, <2>1, <2>4 DEF UInv, PackedAsWritten
<1>4. CASE found # RPC_SUCCESS
  <2>1. /\ Write(t, bad) /\ at' = [at EXCEPT ![t] = "read"] /\ UNCHANGED silent
    BY <1>4 DEF Handle, Goto
  <2>2. /\ bad.frame.payload = reply_frame.payload
        /\ bad.frame.which_callset = reply_frame.which_callset
        /\ bad.reply.packed => bad.reply.frame = bad.frame
    BY <1>2, LookupResult, BadLookupFrame
  <2> HIDE DEF bad
  <2>3. at'[t] = "read" /\ \A u \in Task \ {t} : at'[u] = at[u]
    BY <2>1 DEF IInv, TypeOK
  <2>4. ~raced /\ ~silent => reply_frame.payload.callset = reply_frame.which_callset
    BY <1>1, Alone DEF UInv, UnionHolds
  <2>5. /\ reply_frame'.payload = reply_frame.payload
        /\ reply_frame'.which_callset = reply_frame.which_callset
    BY <2>1, <2>2 DEF Write
  <2>6. UnionHolds'
    BY <1>1, <2>1, <2>3, <2>4, <2>5, Alone DEF UnionHolds
  <2>7. PackedAsWritten'
    <3>1. CASE bad.reply.packed
      <4>1. sent'.reply.frame = bad.frame /\ sent'.silent = silent
        BY <2>1, <2>2, <3>1 DEF Write
      <4> QED BY <1>1, <2>2, <2>4, <4>1 DEF PackedAsWritten
    <3>2. CASE ~bad.reply.packed
      BY <1>1, <2>1, <3>2 DEF UInv, Write, PackedAsWritten
    <3> QED BY <3>1, <3>2
  <2> QED BY <2>6, <2>7 DEF UInv
<1> QED BY <1>3, <1>4

LEMMA AnswerUInv ==
  ASSUME IInv, UInv, NEW t \in Task, Answer(t)
  PROVE  UInv'
<1> DEFINE done == Answered(reply_frame, call_frame, which[t])
<1>1. /\ at[t] = "answer" /\ Inside(t)
      /\ Write(t, done) /\ at' = [at EXCEPT ![t] = "read"]
      /\ UNCHANGED <<which, call_frame, raced, silent>>
  BY DEF Answer, Goto, Inside
<1>2. call_frame \in CallRecord /\ reply_frame \in ReplyRecord /\ which[t] \in Nat
  BY <1>1 DEF IInv, TypeOK
<1>3. /\ call_frame.no_reply => done.frame = reply_frame /\ ~done.reply.packed
      /\ ~call_frame.no_reply => /\ done.frame.which_callset = which[t]
                                 /\ done.frame.payload = reply_frame.payload
      /\ done.reply.packed => ~call_frame.no_reply /\ done.reply.frame = done.frame
  BY <1>2, AnsweredFrame
<1> HIDE DEF done
<1>4. ~raced => /\ reply_frame.payload.callset = which[t]
                /\ silent = call_frame.no_reply
  BY <1>1 DEF UInv, UnionHolds
<1>5. at'[t] = "read" /\ \A u \in Task \ {t} : at'[u] = at[u]
  BY <1>1 DEF IInv, TypeOK
<1>6. UnionHolds'
  BY <1>1, <1>3, <1>4, <1>5, Alone DEF UnionHolds, Write
<1>7. PackedAsWritten'
  <2>1. CASE done.reply.packed
    <3>1. sent'.reply.frame = done.frame
      BY <1>1, <1>3, <2>1 DEF Write
    <3> QED BY <1>1, <1>3, <1>4, <2>1, <3>1 DEF PackedAsWritten
  <2>2. CASE ~done.reply.packed
    BY <1>1, <2>2 DEF UInv, Write, PackedAsWritten
  <2> QED BY <2>1, <2>2
<1> QED BY <1>6, <1>7 DEF UInv

LEMMA NextUInv ==
  IInv /\ UInv /\ [Next]_vars => UInv'
<1> SUFFICES ASSUME IInv, UInv, [Next]_vars PROVE UInv'
  OBVIOUS
<1>1. CASE Rpc("udp") \/ Rpc("tcp")
  BY <1>1, EnterUInv, UnpackUInv, HandleUInv, AnswerUInv DEF Rpc, Task
<1> QED BY <1>1, OutsideUInv DEF Next, Server, ReadTimeout

\* The reply frame is never packed with a union that another callset wrote, unless the
\* last handler's call wanted no reply or two servers met: clearing the frame between
\* calls, which ProtoRpc_server does not do, is not needed for it.
THEOREM PackedTrue ==
  ASSUME CallsAreRecords
  PROVE  Spec => []PackedAsWritten
<1>1. UInv => PackedAsWritten
  BY DEF UInv
<1> QED BY InitIInv, NextIInv, InitUInv, NextUInv, <1>1, PTL DEF Spec

-----------------------------------------------------------------------------
(* How often a handler runs *)

\* Datagrams of call n: d itself, on their way, with a task that has still to run the
\* handler, and in the socket, where w[i] counts those from the i-th on.
Of(d, n) == IF d.call.seqn = n THEN 1 ELSE 0
OnNet(n) == IF \E d \in net : d.call.seqn = n THEN 1 ELSE 0
Pending(t) == at[t] \in {"rpc", "unpack", "lookup"}
Busy(t, n) == IF Pending(t) /\ message[t].call.seqn = n THEN 1 ELSE 0
Waiting(w, s, n) ==
  /\ w \in [1..(Len(s) + 1) -> Nat] /\ w[Len(s) + 1] = 0
  /\ \A i \in 1..Len(s) : w[i] = w[i + 1] + Of(s[i], n)

\* Calls have numbers of their own, and the network one datagram of each.
Numbered ==
  /\ copies \in [1..(MaxCalls + MaxOthers) -> Nat]
  /\ ran \in [1..(MaxCalls + MaxOthers) -> Nat]
  /\ others \in Nat /\ others <= MaxOthers /\ calls <= MaxCalls + others
  /\ \A d \in net : d.call.seqn \in 1..calls
  /\ \A d, e \in net : d.call.seqn = e.call.seqn => d = e
  /\ \A i \in 1..Len(mbox) : mbox[i].call.seqn \in 1..calls
  /\ \A t \in Task : Pending(t) => message[t].call.seqn \in 1..calls
  /\ \A t \in Task : met[t] => raced

\* Each time the handler of a call ran, and each time that it still may, is a datagram.
Accounted ==
  ~raced =>
    \A n \in 1..(MaxCalls + MaxOthers) : \E w :
      /\ Waiting(w, mbox, n)
      /\ ran[n] + OnNet(n) + w[1] + Busy("udp", n) + Busy("tcp", n) <= copies[n]

RInv == Numbered /\ Accounted

LEMMA WaitingMore ==
  ASSUME NEW s \in Seq(Received), NEW d \in Received, NEW n \in Nat,
         NEW w, Waiting(w, s, n)
  PROVE  \E v : Waiting(v, Append(s, d), n) /\ v[1] = w[1] + Of(d, n)
<1> DEFINE more == Append(s, d)
           v == [i \in 1..(Len(s) + 2) |-> IF i <= Len(s) + 1 THEN w[i] + Of(d, n) ELSE 0]
<1>1. /\ Len(more) = Len(s) + 1 /\ Len(s) \in Nat /\ more[Len(s) + 1] = d
      /\ \A i \in 1..Len(s) : more[i] = s[i]
  OBVIOUS
<1>2. /\ w \in [1..(Len(s) + 1) -> Nat] /\ w[Len(s) + 1] = 0
      /\ \A i \in 1..Len(s) : w[i] = w[i + 1] + Of(s[i], n)
  BY DEF Waiting
<1>3. \A x : Of(x, n) \in Nat
  BY DEF Of
<1> HIDE DEF more
<1>4. v \in [1..(Len(more) + 1) -> Nat] /\ v[Len(more) + 1] = 0 /\ v[1] = w[1] + Of(d, n)
  BY <1>1, <1>2, <1>3
<1>5. ASSUME NEW i \in 1..Len(more) PROVE v[i] = v[i + 1] + Of(more[i], n)
  <2>1. CASE i <= Len(s)
    <3>1. /\ i \in 1..Len(s) /\ i + 1 <= Len(s) + 1
          /\ v[i] = w[i] + Of(d, n) /\ v[i + 1] = w[i + 1] + Of(d, n)
      BY <1>1, <2>1
    <3>2. w[i] \in Nat /\ w[i + 1] \in Nat
      BY <1>1, <1>2, <2>1
    <3> HIDE DEF v
    <3> QED BY <1>1, <1>2, <1>3, <3>1, <3>2
  <2>2. CASE i = Len(s) + 1
    <3>1. v[i] = w[Len(s) + 1] + Of(d, n) /\ v[i + 1] = 0
      BY <1>1, <2>2
    <3> HIDE DEF v
    <3> QED BY <1>1, <1>2, <1>3, <2>2, <3>1
  <2> QED BY <1>1, <2>1, <2>2
<1> HIDE DEF v
<1>6. Waiting(v, more, n)
  BY <1>4, <1>5 DEF Waiting
<1> QED BY <1>4, <1>6 DEF more

LEMMA WaitingLess ==
  ASSUME NEW s \in Seq(Received), s # << >>, NEW n \in Nat,
         NEW w, Waiting(w, s, n)
  PROVE  \E v : Waiting(v, Tail(s), n) /\ w[1] = v[1] + Of(Head(s), n) /\ v[1] \in Nat
<1> DEFINE rest == Tail(s)
           v == [i \in 1..Len(s) |-> w[i + 1]]
<1>1. /\ Len(rest) = Len(s) - 1 /\ Len(s) \in Nat /\ Len(s) >= 1 /\ Head(s) = s[1]
      /\ \A i \in 1..(Len(s) - 1) : rest[i] = s[i + 1]
  OBVIOUS
<1>2. /\ w \in [1..(Len(s) + 1) -> Nat] /\ w[Len(s) + 1] = 0
      /\ \A i \in 1..Len(s) : w[i] = w[i + 1] + Of(s[i], n)
  BY DEF Waiting
<1> HIDE DEF rest
<1>3. v \in [1..(Len(rest) + 1) -> Nat] /\ v[Len(rest) + 1] = 0
  BY <1>1, <1>2
<1>4. ASSUME NEW i \in 1..Len(rest) PROVE v[i] = v[i + 1] + Of(rest[i], n)
  <2>1. i \in 1..Len(s) /\ i + 1 \in 1..Len(s)
    BY <1>1
  <2>2. v[i] = w[i + 1] /\ v[i + 1] = w[i + 1 + 1] /\ rest[i] = s[i + 1]
    BY <1>1, <2>1
  <2>3. w[i + 1] = w[i + 1 + 1] + Of(s[i + 1], n)
    BY <1>2, <2>1
  <2> QED BY <2>2, <2>3
<1>5. v[1] = w[2] /\ w[1] = w[2] + Of(s[1], n) /\ w[2] \in Nat
  BY <1>1, <1>2
<1> HIDE DEF v
<1>6. Waiting(v, rest, n)
  BY <1>3, <1>4 DEF Waiting
<1> QED BY <1>1, <1>5, <1>6 DEF rest

LEMMA Counted ==
  ASSUME IInv, RInv, NEW n \in 1..(MaxCalls + MaxOthers), NEW w, Waiting(w, mbox, n)
  PROVE  n \in Nat /\ w[1] \in Nat /\ ran[n] \in Nat /\ copies[n] \in Nat
<1>1. Len(mbox) \in Nat
  BY DEF IInv, TypeOK
<1>2. w \in [1..(Len(mbox) + 1) -> Nat]
  BY DEF Waiting
<1>3. w[1] \in Nat
  BY <1>1, <1>2
<1>4. MaxCalls \in Nat /\ MaxOthers \in Nat
  BY DatagramAssumption
<1> QED BY <1>3, <1>4 DEF RInv, Numbered

\* The numbers that Accounted adds up.
LEMMA Numbers ==
  ASSUME NEW n
  PROVE  /\ OnNet(n) \in {0, 1} /\ Busy("udp", n) \in {0, 1} /\ Busy("tcp", n) \in {0, 1}
         /\ \A d : Of(d, n) \in {0, 1}
  BY DEF OnNet, Busy, Of

LEMMA InitRInv == Init => RInv
<1> SUFFICES ASSUME Init PROVE RInv
  OBVIOUS
<1>1. MaxCalls \in Nat /\ MaxOthers \in Nat
  BY DatagramAssumption
<1>2. /\ net = {} /\ mbox = << >> /\ calls = 0 /\ others = 0 /\ raced = FALSE
      /\ at = [t \in Task |-> "read"] /\ met = [t \in Task |-> FALSE]
      /\ copies = [n \in 1..(MaxCalls + MaxOthers) |-> 0] /\ ran = copies
  BY DEF Init
<1>3. Numbered
  BY <1>1, <1>2 DEF Numbered, Pending
<1>4. ASSUME NEW n \in 1..(MaxCalls + MaxOthers)
      PROVE  \E w : /\ Waiting(w, mbox, n)
                    /\ ran[n] + OnNet(n) + w[1] + Busy("udp", n) + Busy("tcp", n) <= copies[n]
  <2> DEFINE w == [i \in 1..1 |-> 0]
  <2>1. Waiting(w, mbox, n) /\ w[1] = 0
    BY <1>2 DEF Waiting
  <2>2. OnNet(n) = 0 /\ Busy("udp", n) = 0 /\ Busy("tcp", n) = 0
    BY <1>2 DEF OnNet, Busy, Pending, Task
  <2>3. ran[n] = 0 /\ copies[n] = 0
    BY <1>2
  <2> HIDE DEF w
  <2> QED BY <2>1, <2>2, <2>3
<1> QED BY <1>3, <1>4 DEF RInv, Accounted

\* A new call, by UDP.
LEMMA SendRInv ==
  ASSUME IInv, RInv, CallsAreRecords, NEW c \in Clients, Send(c)
  PROVE  RInv'
<1>1. PICK kind \in Kinds : Transmit(Datagram(c, calls', kind))
  BY DEF Send
<1> DEFINE d == Datagram(c, calls', kind)
           N == MaxCalls + MaxOthers
<1>2. /\ calls' = calls + 1 /\ calls - others < MaxCalls /\ calls \in Nat
      /\ UNCHANGED <<mbox, at, message, met, raced, ran, others>>
  BY DEF Send, rpcVars, IInv, TypeOK
<1>3. d.call.seqn = calls + 1
  BY <1>2 DEF Datagram, CallsAreRecords, CallRecord
<1> HIDE DEF d
<1>4. /\ net' = net \cup {d}
      /\ copies' = [copies EXCEPT ![calls + 1] = @ + 1]
  BY <1>1, <1>3 DEF Transmit, d
<1>5. N \in Nat /\ calls + 1 \in 1..N
  BY <1>2, DatagramAssumption DEF RInv, Numbered
<1>6. Numbered'
  <2>1. copies' \in [1..N -> Nat] /\ ran' \in [1..N -> Nat]
    <3>1. copies \in [1..N -> Nat] /\ ran \in [1..N -> Nat]
      BY DEF RInv, Numbered
    <3>2. copies[calls + 1] + 1 \in Nat
      BY <1>5, <3>1
    <3> HIDE DEF N
    <3> QED BY <1>2, <1>4, <3>1, <3>2
  <2>2. others' \in Nat /\ others' <= MaxOthers /\ calls' <= MaxCalls + others'
    BY <1>2, DatagramAssumption DEF RInv, Numbered
  <2>3. /\ \A e \in net' : e.call.seqn \in 1..calls'
        /\ \A e, f \in net' : e.call.seqn = f.call.seqn => e = f
    BY <1>2, <1>3, <1>4 DEF RInv, Numbered
  <2>4. /\ \A i \in 1..Len(mbox') : mbox'[i].call.seqn \in 1..calls'
        /\ \A t \in Task : Pending(t)' => message'[t].call.seqn \in 1..calls'
        /\ \A t \in Task : met'[t] => raced'
    BY <1>2 DEF RInv, Numbered, Pending
  <2> QED BY <2>1, <2>2, <2>3, <2>4 DEF Numbered
<1>7. ASSUME ~raced', NEW n \in 1..N
      PROVE  \E w : /\ Waiting(w, mbox', n)
                    /\ ran'[n] + OnNet(n)' + w[1] + Busy("udp", n)' + Busy("tcp", n)' <= copies'[n]
  <2>1. PICK w : /\ Waiting(w, mbox, n)
                 /\ ran[n] + OnNet(n) + w[1] + Busy("udp", n) + Busy("tcp", n) <= copies[n]
    BY <1>2, <1>7 DEF RInv, Accounted
  <2>2. Busy("udp", n)' = Busy("udp", n) /\ Busy("tcp", n)' = Busy("tcp", n)
    BY <1>2 DEF Busy, Pending
  <2>3. w[1] \in Nat /\ ran[n] \in Nat /\ copies[n] \in Nat
    BY <2>1, Counted
  <2>4. CASE n = calls + 1
    <3>1. OnNet(n)' = 1 /\ OnNet(n) = 0
      BY <1>2, <1>3, <1>4, <2>4 DEF OnNet, RInv, Numbered
    <3>2. copies'[n] = copies[n] + 1
      BY <1>4, <1>5, <2>4 DEF RInv, Numbered
    <3> QED BY <1>2, <2>1, <2>2, <2>3, <3>1, <3>2, Numbers
  <2>5. CASE n # calls + 1
    <3>1. OnNet(n)' = OnNet(n)
      BY <1>3, <1>4, <2>5 DEF OnNet
    <3>2. copies'[n] = copies[n]
      BY <1>4, <1>5, <2>5 DEF RInv, Numbered
    <3> QED BY <1>2, <2>1, <2>2, <2>3, <3>1, <3>2
  <2> QED BY <2>4, <2>5
<1> QED BY <1>6, <1>7 DEF RInv, Accounted

\* One datagram more in the socket: another copy, or the one that was on its way, which
\* the network may also lose.
LEMMA NetworkRInv ==
  ASSUME IInv, RInv, NEW d \in net, Repeat(d) \/ Deliver(d) \/ Lose(d)
  PROVE  RInv'
<1> DEFINE N == MaxCalls + MaxOthers
<1>1. UNCHANGED <<calls, at, message, met, raced, ran, others>>
  BY DEF Repeat, Deliver, Lose, rpcVars
<1>2. /\ d \in Received /\ mbox \in Seq(Received) /\ calls \in Nat
      /\ d.call.seqn \in 1..calls
  BY DEF IInv, TypeOK, RInv, Numbered
<1>3. d.call.seqn \in 1..N /\ N \in Nat
  BY <1>2, DatagramAssumption DEF RInv, Numbered
<1>4. net' \subseteq net /\ (mbox' = mbox \/ mbox' = Append(mbox, d))
  BY DEF Repeat, Deliver, Lose, Transmit
<1>5. copies' = copies \/ copies' = [copies EXCEPT ![d.call.seqn] = @ + 1]
  BY DEF Repeat, Deliver, Lose, Transmit
<1>6. Numbered'
  <2>1. copies' \in [1..N -> Nat] /\ ran' \in [1..N -> Nat]
    BY <1>1, <1>3, <1>5 DEF RInv, Numbered
  <2>2. others' \in Nat /\ others' <= MaxOthers /\ calls' <= MaxCalls + others'
    BY <1>1 DEF RInv, Numbered
  <2>3. /\ \A e \in net' : e.call.seqn \in 1..calls'
        /\ \A e, f \in net' : e.call.seqn = f.call.seqn => e = f
    BY <1>1, <1>4 DEF RInv, Numbered
  <2>4. \A i \in 1..Len(mbox') : mbox'[i].call.seqn \in 1..calls'
    <3>1. \A i \in 1..Len(mbox) : mbox[i].call.seqn \in 1..calls
      BY DEF RInv, Numbered
    <3>2. CASE mbox' = mbox
      BY <1>1, <3>1, <3>2
    <3>3. CASE mbox' = Append(mbox, d)
      <4>1. /\ Len(mbox') = Len(mbox) + 1 /\ mbox'[Len(mbox) + 1] = d
            /\ \A i \in 1..Len(mbox) : mbox'[i] = mbox[i]
        BY <1>2, <3>3
      <4>2. \A i \in 1..Len(mbox') : i \in 1..Len(mbox) \/ i = Len(mbox) + 1
        BY <1>2, <4>1
      <4> QED BY <1>1, <1>2, <3>1, <4>1, <4>2
    <3> QED BY <1>4, <3>2, <3>3
  <2>5. /\ \A t \in Task : Pending(t)' => message'[t].call.seqn \in 1..calls'
        /\ \A t \in Task : met'[t] => raced'
    BY <1>1 DEF RInv, Numbered, Pending
  <2> QED BY <2>1, <2>2, <2>3, <2>4, <2>5 DEF Numbered
<1>7. ASSUME ~raced', NEW n \in 1..N
      PROVE  \E w : /\ Waiting(w, mbox', n)
                    /\ ran'[n] + OnNet(n)' + w[1] + Busy("udp", n)' + Busy("tcp", n)' <= copies'[n]
  <2>1. PICK w : /\ Waiting(w, mbox, n)
                 /\ ran[n] + OnNet(n) + w[1] + Busy("udp", n) + Busy("tcp", n) <= copies[n]
    BY <1>1, <1>7 DEF RInv, Accounted
  <2>2. Busy("udp", n)' = Busy("udp", n) /\ Busy("tcp", n)' = Busy("tcp", n)
    BY <1>1 DEF Busy, Pending
  <2>3. w[1] \in Nat /\ ran[n] \in Nat /\ copies[n] \in Nat /\ n \in Nat
    BY <2>1, Counted
  <2>4. PICK v : Waiting(v, Append(mbox, d), n) /\ v[1] = w[1] + Of(d, n)
    BY <1>2, <2>1, <2>3, WaitingMore
  <2>5. CASE Repeat(d)
    <3>1. /\ net' = net /\ mbox' = Append(mbox, d)
          /\ copies' = [copies EXCEPT ![d.call.seqn] = @ + 1]
      BY <2>5 DEF Repeat, Transmit
    <3>2. OnNet(n)' = OnNet(n)
      BY <3>1 DEF OnNet
    <3>3. copies'[n] = copies[n] + Of(d, n)
      BY <1>3, <2>3, <3>1 DEF Of, RInv, Numbered
    <3>4. ran'[n] + OnNet(n)' + v[1] + Busy("udp", n)' + Busy("tcp", n)' <= copies'[n]
      BY <1>1, <2>1, <2>2, <2>3, <2>4, <3>2, <3>3, Numbers
    <3> QED BY <2>4, <3>1, <3>4
  <2>6. CASE Deliver(d) \/ Lose(d)
    <3>1. net' = net \ {d} /\ copies' = copies
      BY <2>6 DEF Deliver, Lose
    <3>2. OnNet(n)' + Of(d, n) = OnNet(n)
      <4>1. CASE d.call.seqn = n
        <5>1. ~ \E e \in net' : e.call.seqn = n
          BY <3>1, <4>1 DEF RInv, Numbered
        <5>2. OnNet(n)' = 0 /\ OnNet(n) = 1 /\ Of(d, n) = 1
          BY <4>1, <5>1 DEF OnNet, Of
        <5> QED BY <5>2
      <4>2. CASE d.call.seqn # n
        <5>1. OnNet(n)' = OnNet(n) /\ Of(d, n) = 0
          BY <3>1, <4>2 DEF OnNet, Of
        <5> QED BY <5>1, Numbers
      <4> QED BY <4>1, <4>2
    <3>3. OnNet(n)' \in Nat
      BY DEF OnNet
    <3>4. CASE mbox' = mbox
      <4>1. ran'[n] + OnNet(n)' + w[1] + Busy("udp", n)' + Busy("tcp", n)' <= copies'[n]
        BY <1>1, <2>1, <2>2, <2>3, <3>1, <3>2, <3>3, Numbers
      <4> QED BY <2>1, <3>4, <4>1
    <3>5. CASE mbox' = Append(mbox, d)
      <4>1. ran'[n] + OnNet(n)' + v[1] + Busy("udp", n)' + Busy("tcp", n)' <= copies'[n]
        BY <1>1, <2>1, <2>2, <2>3, <2>4, <3>1, <3>2, <3>3, Numbers
      <4> QED BY <2>4, <3>5, <4>1
    <3> QED BY <1>4, <3>4, <3>5
  <2> QED BY <2>5, <2>6
<1> QED BY <1>6, <1>7 DEF RInv, Accounted

\* The task takes a datagram from the socket, for the echo or for ProtoRpc_server.
LEMMA ReadRInv ==
  ASSUME IInv, RInv, Read
  PROVE  RInv'
<1> DEFINE N == MaxCalls + MaxOthers
           d == AsRead(Head(mbox))
<1>1. /\ at["udp"] = "read" /\ at' = [at EXCEPT !["udp"] = callback]
      /\ message' = [message EXCEPT !["udp"] = d]
      /\ mbox' = Tail(mbox) /\ mbox # << >>
      /\ UNCHANGED <<net, calls, copies, others, ran, met, raced>>
  BY DEF Read, Goto, rpcVars
<1>2. mbox \in Seq(Received) /\ Head(mbox) = mbox[1] /\ mbox[1] \in Received
      /\ Len(mbox) \in Nat /\ Len(mbox) >= 1
  BY <1>1 DEF IInv, TypeOK
<1>3. d.call.seqn = Head(mbox).call.seqn
  BY <1>2 DEF AsRead, Received, CallRecord
<1>4. \A i \in 1..Len(mbox) : mbox[i].call.seqn \in 1..calls
  BY DEF RInv, Numbered
<1> HIDE DEF d
<1>5. /\ at'["udp"] = callback /\ message'["udp"] = d
      /\ at'["tcp"] = at["tcp"] /\ message'["tcp"] = message["tcp"]
  BY <1>1 DEF Task, IInv, TypeOK
<1>6. Numbered'
  <2>1. \A i \in 1..Len(mbox') : mbox'[i].call.seqn \in 1..calls'
    <3>1. /\ Len(mbox') = Len(mbox) - 1
          /\ \A i \in 1..(Len(mbox) - 1) : mbox'[i] = mbox[i + 1]
      BY <1>1, <1>2
    <3> QED BY <1>1, <1>2, <1>4, <3>1
  <2>2. \A t \in Task : Pending(t)' => message'[t].call.seqn \in 1..calls'
    <3>1. message'["udp"].call.seqn \in 1..calls'
      BY <1>1, <1>2, <1>3, <1>4, <1>5
    <3>2. Pending("tcp")' => message'["tcp"].call.seqn \in 1..calls'
      BY <1>1, <1>5 DEF RInv, Numbered, Pending, Task
    <3> QED BY <3>1, <3>2 DEF Task
  <2> QED BY <1>1, <2>1, <2>2 DEF RInv, Numbered
<1>7. ASSUME ~raced', NEW n \in 1..N
      PROVE  \E w : /\ Waiting(w, mbox', n)
                    /\ ran'[n] + OnNet(n)' + w[1] + Busy("udp", n)' + Busy("tcp", n)' <= copies'[n]
  <2>1. PICK w : /\ Waiting(w, mbox, n)
                 /\ ran[n] + OnNet(n) + w[1] + Busy("udp", n) + Busy("tcp", n) <= copies[n]
    BY <1>1, <1>7 DEF RInv, Accounted
  <2>2. n \in Nat /\ ran[n] \in Nat /\ copies[n] \in Nat
    BY DatagramAssumption DEF RInv, Numbered
  <2>3. PICK v : /\ Waiting(v, Tail(mbox), n)
                 /\ w[1] = v[1] + Of(Head(mbox), n) /\ v[1] \in Nat
    BY <1>1, <1>2, <2>1, <2>2, WaitingLess
  <2>4. Busy("tcp", n)' = Busy("tcp", n) /\ Busy("udp", n) = 0
    BY <1>1, <1>5 DEF Busy, Pending
  <2>5. Busy("udp", n)' <= Of(Head(mbox), n)
    BY <1>3, <1>5 DEF Busy, Of
  <2>6. OnNet(n)' = OnNet(n) /\ Busy("udp", n)' \in {0, 1}
    BY <1>1 DEF OnNet, Busy
  <2>7. ran'[n] = ran[n] /\ copies'[n] = copies[n]
    BY <1>1
  <2>8. Of(Head(mbox), n) \in {0, 1} /\ OnNet(n) \in {0, 1} /\ Busy("tcp", n) \in {0, 1}
    BY Numbers
  <2> HIDE DEF d
  <2>9. ran'[n] + OnNet(n)' + v[1] + Busy("udp", n)' + Busy("tcp", n)' <= copies'[n]
    BY <2>1, <2>2, <2>3, <2>4, <2>5, <2>6, <2>7, <2>8
  <2> QED BY <1>1, <2>3, <2>9
<1> QED BY <1>6, <1>7 DEF RInv, Accounted

\* A call by TCP.
LEMMA OtherCallRInv ==
  ASSUME IInv, RInv, CallsAreRecords, OtherCall
  PROVE  RInv'
<1> DEFINE N == MaxCalls + MaxOthers
<1>1. /\ at["tcp"] = "read" /\ at' = [at EXCEPT !["tcp"] = "rpc"]
      /\ others < MaxOthers /\ others' = others + 1 /\ calls' = calls + 1
      /\ copies' = [copies EXCEPT ![calls + 1] = @ + 1]
      /\ UNCHANGED <<net, mbox, ran, met, raced>>
  BY DEF OtherCall, Goto, rpcVars
<1>2. PICK kind \in OtherKinds :
        message' = [message EXCEPT !["tcp"] = AsRead(Datagram("tcp", calls', kind))]
  BY DEF OtherCall
<1> DEFINE d == AsRead(Datagram("tcp", calls', kind))
<1>3. calls \in Nat /\ d.call.seqn = calls + 1
  <2>1. calls \in Nat
    BY DEF IInv, TypeOK
  <2>2. Datagram("tcp", calls', kind).call.seqn = calls + 1
    BY <1>1 DEF Datagram, CallsAreRecords, CallRecord
  <2>3. Datagram("tcp", calls', kind) \in Received
    BY <1>1, <2>1, DatagramReceived DEF CallsAreRecords
  <2> QED BY <2>1, <2>2, <2>3 DEF AsRead, Received, CallRecord
<1>4. /\ at'["tcp"] = "rpc" /\ message'["tcp"] = d
      /\ at'["udp"] = at["udp"] /\ message'["udp"] = message["udp"]
  BY <1>1, <1>2 DEF Task, IInv, TypeOK
<1> HIDE DEF d
<1>5. N \in Nat /\ calls + 1 \in 1..N
  BY <1>1, <1>3, DatagramAssumption DEF RInv, Numbered
<1>6. Numbered'
  <2>1. copies' \in [1..N -> Nat] /\ ran' \in [1..N -> Nat]
    BY <1>1, <1>5 DEF RInv, Numbered
  <2>2. others' \in Nat /\ others' <= MaxOthers /\ calls' <= MaxCalls + others'
    BY <1>1, <1>3, DatagramAssumption DEF RInv, Numbered
  <2>3. /\ \A e \in net' : e.call.seqn \in 1..calls'
        /\ \A e, f \in net' : e.call.seqn = f.call.seqn => e = f
        /\ \A i \in 1..Len(mbox') : mbox'[i].call.seqn \in 1..calls'
        /\ \A t \in Task : met'[t] => raced'
    BY <1>1, <1>3 DEF RInv, Numbered
  <2>4. \A t \in Task : Pending(t)' => message'[t].call.seqn \in 1..calls'
    <3>1. message'["tcp"].call.seqn \in 1..calls'
      BY <1>1, <1>3, <1>4
    <3>2. Pending("udp") => message["udp"].call.seqn \in 1..calls
      BY DEF RInv, Numbered, Task
    <3>3. Pending("udp")' => message'["udp"].call.seqn \in 1..calls'
      BY <1>1, <1>3, <1>4, <3>2 DEF Pending
    <3> QED BY <3>1, <3>3 DEF Task
  <2> QED BY <2>1, <2>2, <2>3, <2>4 DEF Numbered
<1>7. ASSUME ~raced', NEW n \in 1..N
      PROVE  \E w : /\ Waiting(w, mbox', n)
                    /\ ran'[n] + OnNet(n)' + w[1] + Busy("udp", n)' + Busy("tcp", n)' <= copies'[n]
  <2>1. PICK w : /\ Waiting(w, mbox, n)
                 /\ ran[n] + OnNet(n) + w[1] + Busy("udp", n) + Busy("tcp", n) <= copies[n]
    BY <1>1, <1>7 DEF RInv, Accounted
  <2>2. w[1] \in Nat /\ ran[n] \in Nat /\ copies[n] \in Nat /\ n \in Nat
    BY <2>1, Counted
  <2>3. /\ Busy("udp", n)' = Busy("udp", n) /\ Busy("tcp", n) = 0
        /\ Busy("tcp", n)' = IF n = calls + 1 THEN 1 ELSE 0
    BY <1>1, <1>3, <1>4 DEF Busy, Pending
  <2>4. copies'[n] = IF n = calls + 1 THEN copies[n] + 1 ELSE copies[n]
    BY <1>1, <1>5 DEF RInv, Numbered
  <2>5. OnNet(n)' = OnNet(n) /\ mbox' = mbox /\ ran' = ran
    BY <1>1 DEF OnNet
  <2>6. ran'[n] + OnNet(n)' + w[1] + Busy("udp", n)' + Busy("tcp", n)' <= copies'[n]
    BY <2>1, <2>2, <2>3, <2>4, <2>5, Numbers
  <2> QED BY <2>1, <2>5, <2>6
<1> QED BY <1>6, <1>7 DEF RInv, Accounted

\* A step that takes up no message, runs no handler and leaves the datagrams where they
\* are.
LEMMA QuietRInv ==
  ASSUME IInv, RInv, UNCHANGED <<net, mbox, calls, copies, ran, others, message>>,
         raced => raced',
         \A t \in Task : Pending(t)' => Pending(t),
         \A t \in Task : met'[t] => raced'
  PROVE  RInv'
<1> DEFINE N == MaxCalls + MaxOthers
<1>1. Numbered'
  BY DEF RInv, Numbered
<1>2. ASSUME ~raced', NEW n \in 1..N
      PROVE  \E w : /\ Waiting(w, mbox', n)
                    /\ ran'[n] + OnNet(n)' + w[1] + Busy("udp", n)' + Busy("tcp", n)' <= copies'[n]
  <2>1. PICK w : /\ Waiting(w, mbox, n)
                 /\ ran[n] + OnNet(n) + w[1] + Busy("udp", n) + Busy("tcp", n) <= copies[n]
    BY <1>2 DEF RInv, Accounted
  <2>2. Busy("udp", n) \in Nat /\ Busy("tcp", n) \in Nat /\ OnNet(n) \in Nat
    BY DEF Busy, OnNet
  <2>3. w[1] \in Nat /\ ran[n] \in Nat /\ copies[n] \in Nat
    BY <2>1, Counted
  <2>4. OnNet(n)' = OnNet(n)
    BY DEF OnNet
  <2>5. /\ Busy("udp", n)' <= Busy("udp", n) /\ Busy("udp", n)' \in {0, 1}
        /\ Busy("tcp", n)' <= Busy("tcp", n) /\ Busy("tcp", n)' \in {0, 1}
    BY DEF Busy, Task
  <2>6. ran'[n] + OnNet(n)' + w[1] + Busy("udp", n)' + Busy("tcp", n)' <= copies'[n]
    BY <2>1, <2>2, <2>3, <2>4, <2>5
  <2> QED BY <2>1, <2>6
<1> QED BY <1>1, <1>2 DEF RInv, Accounted

LEMMA OneMore ==
  ASSUME NEW S, NEW f \in [S -> Nat], NEW k
  PROVE  [n \in DOMAIN f |-> IF n = k THEN f[n] + 1 ELSE f[n]] \in [S -> Nat]
  OBVIOUS

\* The handler runs: the call was pending, and is counted now.
LEMMA RunRInv ==
  ASSUME IInv, RInv, NEW t \in Task, at[t] = "lookup", at' = [at EXCEPT ![t] = "answer"],
         ran' = [n \in DOMAIN ran |-> IF n = call_frame.seqn THEN ran[n] + 1 ELSE ran[n]],
         UNCHANGED <<net, mbox, calls, copies, others, message, met, raced>>
  PROVE  RInv'
<1> DEFINE N == MaxCalls + MaxOthers
<1>1. /\ ~Pending(t)' /\ Pending(t)
      /\ \A u \in Task : u # t => at'[u] = at[u] /\ (Pending(u)' <=> Pending(u))
  BY DEF Pending, IInv, TypeOK
<1>2. Numbered'
  <2>1. ran' \in [1..N -> Nat]
    <3>1. ran \in [1..N -> Nat]
      BY DEF RInv, Numbered
    <3> QED BY <3>1, OneMore
  <2>2. \A u \in Task : Pending(u)' => message'[u].call.seqn \in 1..calls'
    BY <1>1 DEF RInv, Numbered
  <2> QED BY <2>1, <2>2 DEF RInv, Numbered
<1>3. ASSUME ~raced', NEW n \in 1..N
      PROVE  \E w : /\ Waiting(w, mbox', n)
                    /\ ran'[n] + OnNet(n)' + w[1] + Busy("udp", n)' + Busy("tcp", n)' <= copies'[n]
  <2>1. PICK w : /\ Waiting(w, mbox, n)
                 /\ ran[n] + OnNet(n) + w[1] + Busy("udp", n) + Busy("tcp", n) <= copies[n]
    BY <1>3 DEF RInv, Accounted
  <2>2. ran[n] \in Nat /\ copies[n] \in Nat /\ w[1] \in Nat
    BY <2>1, Counted
  <2>3. ~met[t]
    BY <1>3 DEF RInv, Numbered
  <2>4. call_frame.seqn = message[t].call.seqn
    BY <2>3 DEF IInv, FramesHold, Unpacked
  <2>5. /\ Busy(t, n) = IF call_frame.seqn = n THEN 1 ELSE 0
        /\ Busy(t, n)' = 0
    BY <1>1, <2>4 DEF Busy
  <2>6. ran'[n] + Busy(t, n)' = ran[n] + Busy(t, n)
    BY <2>2, <2>5 DEF RInv, Numbered
  <2>7. \A u \in Task : u # t => Busy(u, n)' = Busy(u, n)
    BY <1>1 DEF Busy
  <2>8. OnNet(n)' = OnNet(n)
    BY DEF OnNet
  <2>9. ran'[n] + Busy("udp", n)' + Busy("tcp", n)' = ran[n] + Busy("udp", n) + Busy("tcp", n)
    <3>1. ran'[n] \in Nat /\ Busy("udp", n)' \in Nat /\ Busy("tcp", n)' \in Nat
      BY <1>2 DEF Numbered, Busy
    <3>2. CASE t = "udp"
      BY <2>2, <2>6, <2>7, <3>1, <3>2, Numbers DEF Task
    <3>3. CASE t = "tcp"
      BY <2>2, <2>6, <2>7, <3>1, <3>3, Numbers DEF Task
    <3> QED BY <3>2, <3>3 DEF Task
  <2>10. ran'[n] \in Nat /\ Busy("udp", n)' \in Nat /\ Busy("tcp", n)' \in Nat
    BY <1>2 DEF Numbered, Busy
  <2>11. ran'[n] + OnNet(n)' + w[1] + Busy("udp", n)' + Busy("tcp", n)' <= copies'[n]
    BY <2>1, <2>2, <2>8, <2>9, <2>10, Numbers
  <2> QED BY <2>1, <2>11
<1> QED BY <1>2, <1>3 DEF RInv, Accounted

LEMMA RpcRInv ==
  ASSUME IInv, RInv, NEW t \in Task, Rpc(t)
  PROVE  RInv'
<1>1. ASSUME Enter(t) PROVE RInv'
  <2> DEFINE inside == {u \in Task \ {t} : Inside(u)}
  <2>1. /\ at[t] = "rpc" /\ at' = [at EXCEPT ![t] = "unpack"]
        /\ met' = [u \in Task |-> IF u = t THEN inside # {} ELSE met[u] \/ u \in inside]
        /\ raced' = (raced \/ inside # {})
        /\ UNCHANGED <<net, mbox, calls, copies, ran, others, message>>
    BY <1>1 DEF Enter, Goto, netVars
  <2> HIDE DEF inside
  <2>2. \A u \in Task : met[u] => raced
    BY DEF RInv, Numbered
  <2>3. ASSUME NEW u \in Task, met'[u] PROVE raced'
    <3>1. inside # {} \/ met[u]
      BY <2>1, <2>3, Zenon
    <3> QED BY <2>1, <2>2, <3>1
  <2>4. \A u \in Task : Pending(u)' => Pending(u)
    BY <2>1 DEF Pending, IInv, TypeOK
  <2> QED BY <2>1, <2>3, <2>4, QuietRInv
<1>4. ASSUME Unpack(t) PROVE RInv'
  <2>1. /\ at[t] = "unpack" /\ \E place \in {"lookup", "read"} : at' = [at EXCEPT ![t] = place]
        /\ UNCHANGED <<net, mbox, calls, copies, ran, others, message, met, raced>>
    BY <1>4 DEF Unpack, Goto, netVars
  <2>2. \A u \in Task : Pending(u)' => Pending(u)
    BY <2>1 DEF Pending, IInv, TypeOK
  <2> QED BY <2>1, <2>2, QuietRInv DEF RInv, Numbered
<1>2. ASSUME Handle(t) PROVE RInv'
  <2>1. CASE Lookup(call_frame, which[t]) = RPC_SUCCESS
    BY <1>2, <2>1, RunRInv DEF Handle, Goto, netVars
  <2>2. CASE Lookup(call_frame, which[t]) # RPC_SUCCESS
    <3>1. /\ at[t] = "lookup" /\ at' = [at EXCEPT ![t] = "read"]
          /\ UNCHANGED <<net, mbox, calls, copies, ran, others, message, met, raced>>
      BY <1>2, <2>2 DEF Handle, Goto, netVars
    <3>2. \A u \in Task : Pending(u)' => Pending(u)
      BY <3>1 DEF Pending, IInv, TypeOK
    <3> QED BY <3>1, <3>2, QuietRInv DEF RInv, Numbered
  <2> QED BY <2>1, <2>2
<1>3. ASSUME Answer(t) PROVE RInv'
  <2>1. /\ at[t] = "answer" /\ at' = [at EXCEPT ![t] = "read"]
        /\ UNCHANGED <<net, mbox, calls, copies, ran, others, message, met, raced>>
    BY <1>3 DEF Answer, Goto, netVars
  <2>2. \A u \in Task : Pending(u)' => Pending(u)
    BY <2>1 DEF Pending, IInv, TypeOK
  <2> QED BY <2>1, <2>2, QuietRInv DEF RInv, Numbered
<1> QED BY <1>1, <1>2, <1>3, <1>4 DEF Rpc

LEMMA NextRInv ==
  ASSUME CallsAreRecords
  PROVE  IInv /\ RInv /\ [Next]_vars => RInv'
<1> SUFFICES ASSUME IInv, RInv, [Next]_vars PROVE RInv'
  OBVIOUS
<1>1. ASSUME ReadError \/ Wake \/ Echo PROVE RInv'
  <2>1. /\ \E place \in {"read", "sleep"} : at' = [at EXCEPT !["udp"] = place]
        /\ UNCHANGED <<net, mbox, calls, copies, ran, others, message, met, raced>>
    BY <1>1 DEF ReadError, Wake, Echo, Goto, netVars, rpcVars
  <2>2. \A u \in Task : Pending(u)' => Pending(u)
    BY <2>1 DEF Pending, IInv, TypeOK
  <2> QED BY <2>1, <2>2, QuietRInv DEF RInv, Numbered
<1>2. ASSUME ReadTimeout \/ UNCHANGED vars PROVE RInv'
  <2>1. UNCHANGED <<net, mbox, calls, copies, ran, others, message, at, met, raced>>
    BY <1>2 DEF ReadTimeout, vars, netVars, rpcVars
  <2>2. \A u \in Task : Pending(u)' => Pending(u)
    BY <2>1 DEF Pending
  <2> QED BY <2>1, <2>2, QuietRInv DEF RInv, Numbered
<1>3. "udp" \in Task /\ "tcp" \in Task
  BY DEF Task
<1> QED BY <1>1, <1>2, <1>3, SendRInv, NetworkRInv, ReadRInv, OtherCallRInv, RpcRInv
        DEF Next, Server, Network

\* For every number of clients, datagrams, repetitions and failures, the handler of a call
\* runs at most once for each datagram of it as long as no two tasks have been in
\* ProtoRpc_server together: what a read leaves in the buffer when it times out or fails
\* is not served again (RunsPerDatagram; UdpServer.c:40-55).
THEOREM OncePerDatagram ==
  ASSUME CallsAreRecords
  PROVE  Spec => []RunsPerDatagram
<1>1. IInv /\ RInv => RunsPerDatagram
  <2> SUFFICES ASSUME IInv, RInv, ~raced, NEW n \in 1..(MaxCalls + MaxOthers)
               PROVE  ran[n] <= copies[n]
    BY DEF RunsPerDatagram, RInv, Numbered
  <2>1. PICK w : /\ Waiting(w, mbox, n)
                 /\ ran[n] + OnNet(n) + w[1] + Busy("udp", n) + Busy("tcp", n) <= copies[n]
    BY DEF RInv, Accounted
  <2>2. w[1] \in Nat /\ ran[n] \in Nat /\ copies[n] \in Nat
    BY <2>1, Counted
  <2> QED BY <2>1, <2>2, Numbers
<1> QED BY InitIInv, NextIInv, InitRInv, NextRInv, <1>1, PTL DEF Spec
=============================================================================
