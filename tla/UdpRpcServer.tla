---------------------------- MODULE UdpRpcServer ----------------------------
(***************************************************************************)
(* A UDP server: the task of UdpServer/src/UdpServer.c, the callback of    *)
(* UdpRpcServer.c or of UdpEcho.c that it was given, and a network that    *)
(* loses, repeats, delays and reorders datagrams.  The RPC server of TCP   *)
(* may have been given the same ProtoRpc: then two tasks are in            *)
(* ProtoRpc_server, which has no lock, and its steps interleave.           *)
(***************************************************************************)
EXTENDS ProtoRpc, Sequences, TLC

CONSTANTS
  Clients,    \* the senders of datagrams
  Kinds,      \* the calls they make, but for the seqn: see AsCall
  OtherKinds, \* the calls that come by TCP
  Mailbox,    \* datagrams the socket holds until they are read (lwIP)
  Shared,     \* was the ProtoRpc given to a TCP server as well?
  MaxCalls,   \* bound: the calls that come by UDP
  MaxCopies,  \* bound: the times a datagram is sent, by its client or the network
  MaxOthers,  \* bound: the calls that come by TCP
  MaxFails    \* bound: reads and writes that fail

ASSUME DatagramAssumption ==
  /\ Mailbox \in Nat \ {0} /\ Shared \in BOOLEAN
  /\ {MaxCalls, MaxCopies, MaxOthers, MaxFails} \subseteq Nat

Task == {"udp", "tcp"}

VARIABLES
  callback,   \* the callback of the UdpServer: "rpc" or "echo"
  net,        \* the datagrams on their way
  mbox,       \* the datagrams in the socket
  calls,      \* the calls made so far; they are numbered by seqn
  at,         \* at[t]: where the task is
  message,    \* message[t]: what it read last; that of "udp" stays in the buffer
  which,      \* which[t]: its which_callset
  call_frame, reply_frame,   \* of the one ProtoRpc
  byte_count, \* of the UdpEcho
  sent,       \* history: the reply to the last message, to whom, and what it answers
  met,        \* history: met[t]: was another task in ProtoRpc_server during this call of t?
  raced,      \* history: has that ever happened?
  copies,     \* history: copies[n]: the datagrams of call n
  ran,        \* history: ran[n]: the times the handler of call n ran
  silent,     \* history: was the last handler's call one without reply?
  echoed, others, fails  \* history: datagrams echoed; calls by TCP; failures

netVars == <<net, mbox, calls, copies>>
rpcVars == <<which, call_frame, reply_frame, ran, silent, met, raced>>
echoVars == <<byte_count, echoed>>
vars == <<callback, netVars, at, message, rpcVars, echoVars, sent, others, fails>>

(* A datagram: its sender and the call in it.  A call longer than the buffer *)
(* of the server is cut off by recvfrom, and what is left does not unpack.   *)
Datagram(c, n, kind) == [from |-> c, call |-> [kind EXCEPT !.seqn = n]]
AsRead(d) == IF d.call.long THEN [d EXCEPT !.call.unpacks = FALSE] ELSE d

(* The call frame at first, all zeros, and a buffer that nothing was read into. *)
ZeroCall == [unpacks |-> TRUE, seqn |-> 0, tag |-> 0, known |-> FALSE, no_reply |-> FALSE,
             status |-> RPC_SUCCESS, long |-> FALSE]
NoCall == [from |-> "nobody", call |-> [ZeroCall EXCEPT !.unpacks = FALSE]]
NothingSent == [to |-> "nobody", reply |-> NoReply, of |-> NoCall, ran |-> FALSE, silent |-> FALSE, met |-> FALSE]

(* UdpServer_init and UdpSocket_init, with the socket bound. *)
Init ==
  /\ callback \in {"rpc", "echo"}
  /\ net = {} /\ mbox = << >> /\ calls = 0
  /\ at = [t \in Task |-> "read"] /\ message = [t \in Task |-> NoCall]
  /\ which = [t \in Task |-> 0]
  /\ call_frame = ZeroCall /\ reply_frame = ZeroFrame
  /\ byte_count = 0 /\ sent = NothingSent
  /\ met = [t \in Task |-> FALSE] /\ raced = FALSE
  /\ copies = [n \in 1..(MaxCalls + MaxOthers) |-> 0]
  /\ ran = copies
  /\ silent = FALSE /\ echoed = 0 /\ others = 0 /\ fails = 0

-----------------------------------------------------------------------------
(* The clients and the network. *)

Transmit(d) ==
  /\ net' = net \cup {d}
  /\ copies' = [copies EXCEPT ![d.call.seqn] = @ + 1]

Send(c) ==
  /\ calls - others < MaxCalls
  /\ calls' = calls + 1
  /\ \E kind \in Kinds : Transmit(Datagram(c, calls', kind))
  /\ UNCHANGED <<callback, mbox, at, message, rpcVars, echoVars, sent, others, fails>>

(* A client that waited too long sends its call once more, or the network    *)
(* delivers the datagram and keeps a copy.                                   *)
Repeat(d) ==
  /\ copies[d.call.seqn] < MaxCopies
  /\ Len(mbox) < Mailbox
  /\ mbox' = Append(mbox, d)
  /\ Transmit(d)
  /\ UNCHANGED <<callback, calls, at, message, rpcVars, echoVars, sent, others, fails>>

(* A datagram that meets a full mailbox is lost. *)
Deliver(d) ==
  /\ net' = net \ {d}
  /\ mbox' = IF Len(mbox) < Mailbox THEN Append(mbox, d) ELSE mbox
  /\ UNCHANGED <<callback, calls, copies, at, message, rpcVars, echoVars, sent, others, fails>>

Lose(d) ==
  /\ net' = net \ {d}
  /\ UNCHANGED <<callback, mbox, calls, copies, at, message, rpcVars, echoVars, sent, others, fails>>

Network == \E d \in net : Repeat(d) \/ Deliver(d) \/ Lose(d)

-----------------------------------------------------------------------------
(* udp_server_task *)

Goto(t, place) == at' = [at EXCEPT ![t] = place]

(* UdpSocket_read fills the buffer and source_addr. *)
Read ==
  /\ at["udp"] = "read" /\ mbox # << >>
  /\ message' = [message EXCEPT !["udp"] = AsRead(Head(mbox))]
  /\ mbox' = Tail(mbox)
  /\ Goto("udp", callback)
  /\ sent' = NothingSent
  /\ UNCHANGED <<callback, net, calls, copies, rpcVars, echoVars, others, fails>>

(* Mutant: a read that timed out is taken for one that read what is still in *)
(* the buffer.                                                               *)
Mut_ReadTimeout ==
  /\ at["udp"] = "read" /\ mbox = << >>
  /\ message["udp"] # NoCall
  /\ Goto("udp", callback)
  /\ UNCHANGED <<callback, netVars, message, rpcVars, echoVars, sent, others, fails>>

(* The read times out and the loop goes on. *)
ReadTimeout ==
  /\ at["udp"] = "read" /\ mbox = << >>
  /\ UNCHANGED vars

(* Mutant: the task returns, as that of the TCP server does when accept fails. *)
Mut_ReadError ==
  /\ at["udp"] = "read" /\ fails < MaxFails
  /\ fails' = fails + 1
  /\ Goto("udp", "exited")
  /\ UNCHANGED <<callback, netVars, message, rpcVars, echoVars, sent, others>>

(* The read fails: the task sleeps for a second and tries again. *)
ReadError ==
  /\ at["udp"] = "read" /\ fails < MaxFails
  /\ fails' = fails + 1
  /\ Goto("udp", "sleep")
  /\ UNCHANGED <<callback, netVars, message, rpcVars, echoVars, sent, others>>

Wake ==
  /\ at["udp"] = "sleep"
  /\ Goto("udp", "read")
  /\ UNCHANGED <<callback, netVars, message, rpcVars, echoVars, sent, others, fails>>

-----------------------------------------------------------------------------
(* echo_callback of UdpEcho.c: the datagram goes back where it came from,    *)
(* whole or not at all.                                                      *)

Echo ==
  /\ at["udp"] = "echo"
  /\ \/ /\ byte_count' = byte_count + 1 /\ echoed' = echoed + 1
        /\ sent' = [to |-> message["udp"].from, reply |-> NoReply, of |-> message["udp"], ran |-> FALSE, silent |-> FALSE, met |-> FALSE]
        /\ UNCHANGED fails
     \/ /\ fails < MaxFails /\ fails' = fails + 1
        /\ UNCHANGED <<echoVars, sent>>
  /\ Goto("udp", "read")
  /\ UNCHANGED <<callback, netVars, message, rpcVars, others>>

-----------------------------------------------------------------------------
(* ProtoRpc_server, called by rpc_callback of either transport.              *)

Inside(t) == at[t] \in {"unpack", "lookup", "answer"}

(* The TCP server has received a message; see TcpRpcServer. *)
OtherCall ==
  /\ Shared /\ others < MaxOthers /\ callback = "rpc" /\ at["tcp"] = "read"
  /\ others' = others + 1 /\ calls' = calls + 1
  /\ \E kind \in OtherKinds :
       message' = [message EXCEPT !["tcp"] = AsRead(Datagram("tcp", calls', kind))]
  /\ copies' = [copies EXCEPT ![calls'] = @ + 1]
  /\ Goto("tcp", "rpc") /\ sent' = NothingSent
  /\ UNCHANGED <<callback, net, mbox, rpcVars, echoVars, fails>>

(* Pb_unpack decodes into the one call frame.  pb_decode first sets it to its *)
(* defaults, which leaves the union of the callsets as it was;               *)
Enter(t) ==
  /\ at[t] = "rpc"
  /\ call_frame' = [call_frame EXCEPT !.seqn = 0, !.tag = 0, !.no_reply = FALSE]
  /\ LET inside == {u \in Task \ {t} : Inside(u)}
     IN /\ met' = [u \in Task |-> IF u = t THEN inside # {} ELSE met[u] \/ u \in inside]
        /\ raced' = (raced \/ inside # {})
  /\ Goto(t, "unpack")
  /\ UNCHANGED <<callback, netVars, message, which, reply_frame, ran, silent, echoVars, sent, others, fails>>

(* and then fills in one field after the other, up to the one that fails: the *)
(* number, the rest of the header, the tag with a union of zeros, the union. *)
Partly(frame, call) ==
  LET started == [frame EXCEPT !.seqn = call.seqn]
      header  == [started EXCEPT !.no_reply = call.no_reply]
      tagged  == [header EXCEPT !.tag = call.tag, !.known = FALSE]
      chosen  == [tagged EXCEPT !.known = call.known]
  IN {frame, started, header, tagged, chosen}

(* What does not unpack is not answered, and stays in the frame.             *)
Unpack(t) ==
  /\ at[t] = "unpack"
  /\ LET call == message[t].call
     IN \/ /\ call.unpacks
           /\ call_frame' = call
           /\ which' = [which EXCEPT ![t] = call.tag % FrameByte]
           /\ Goto(t, "lookup")
        \/ /\ ~call.unpacks
           /\ call_frame' \in Partly(call_frame, call)
           /\ Goto(t, "read") /\ UNCHANGED which
  /\ UNCHANGED <<callback, netVars, message, reply_frame, ran, silent, met, raced, echoVars, sent, others, fails>>

(* UdpSocket_write to source_addr, or TcpSocket_write; nothing if the reply  *)
(* has no bytes.                                                             *)
Write(t, served) ==
  /\ reply_frame' = served.frame
  /\ sent' = IF served.reply.packed
             THEN [to |-> message[t].from, reply |-> served.reply, of |-> message[t],
                   ran |-> served.ran, silent |-> silent, met |-> met[t]]
             ELSE sent

(* The handler is looked up, and runs. *)
Handle(t) ==
  /\ at[t] = "lookup"
  /\ LET found == Lookup(call_frame, which[t])
     IN IF found = RPC_SUCCESS
        THEN /\ reply_frame' = Handled(reply_frame, call_frame, which[t])
             /\ ran' = [n \in DOMAIN ran |-> IF n = call_frame.seqn THEN ran[n] + 1 ELSE ran[n]]
             /\ silent' = call_frame.no_reply
             /\ Goto(t, "answer") /\ UNCHANGED sent
        ELSE /\ Write(t, BadLookup(reply_frame, call_frame, found))
             /\ Goto(t, "read") /\ UNCHANGED <<ran, silent>>
  /\ UNCHANGED <<callback, netVars, message, which, call_frame, met, raced, echoVars, others, fails>>

(* The header of the reply, read from the call frame again, and the reply.   *)
Answer(t) ==
  /\ at[t] = "answer"
  /\ Write(t, Answered(reply_frame, call_frame, which[t]))
  /\ Goto(t, "read")
  /\ UNCHANGED <<callback, netVars, message, which, call_frame, ran, silent, met, raced, echoVars, others, fails>>

Rpc(t) == Enter(t) \/ Unpack(t) \/ Handle(t) \/ Answer(t)

Server == Read \/ Wake \/ Echo \/ Rpc("udp")

Next ==
  \/ \E c \in Clients : Send(c)
  \/ Network
  \/ Server \/ ReadTimeout \/ ReadError
  \/ OtherCall \/ Rpc("tcp")

Spec == Init /\ [][Next]_vars

(* The task is scheduled; reads fail a bounded number of times. *)
FairSpec == Spec /\ WF_vars(Server)

-----------------------------------------------------------------------------
(* A reply with a header tells of the call it answers and of no earlier one: *)
(* its sequence number, and the status of the lookup or of the handler,      *)
(* although the reply frame is never cleared between calls (ProtoRpc.c:93);  *)
(* and it goes to the sender of that call.  Two servers that share the       *)
(* ProtoRpc spoil the calls in which they meet, and none that come later.    *)
ReplyTellsOfCall ==
  ~sent.met /\ sent.reply.packed /\ sent.reply.frame.has_header =>
    /\ sent.to = sent.of.from
    /\ sent.of.call.unpacks
    /\ sent.reply.frame.seqn = sent.of.call.seqn
    /\ sent.ran => sent.reply.frame.status = sent.of.call.status
    /\ ~sent.ran => sent.reply.frame.status \in
                      {RPC_BAD_RESOLVER_LOOKUP, RPC_BAD_HANDLER_LOOKUP}

(* The union of the reply frame is packed as the callset whose handler wrote *)
(* it last, also by a failed lookup that answers with what is left there,    *)
(* unless that handler's call wanted no reply, or a race left them apart.    *)
PackedAsWritten ==
  ~raced /\ sent.reply.packed /\ ~sent.silent =>
    sent.reply.frame.payload.callset = sent.reply.frame.which_callset

(* The handler of a call runs at most once for each datagram of it: reads    *)
(* that time out or fail leave the last call in the buffer, and do not run   *)
(* it again (UdpServer.c:40-55).                                             *)
RunsPerDatagram ==
  ~raced => \A n \in DOMAIN ran : ran[n] <= copies[n]

(* What has reached the socket is read at last: no failing read, message     *)
(* that does not unpack, or callback ends the task or stalls it.             *)
MailboxDrained == mbox # << >> ~> mbox = << >>
=============================================================================
