---------------------------- MODULE TcpRpcServer ----------------------------
(***************************************************************************)
(* The RPC server over TCP: the task of TcpServer/src/TcpServer.c, the     *)
(* callback of TcpRpcServer/src/TcpRpcServer.c with the deframer and the   *)
(* ProtoRpc server it calls, and the clients on the other side of the      *)
(* sockets.  One connection is served at a time; the deframer and the      *)
(* reply frame are the server's and outlive the connections.               *)
(***************************************************************************)
EXTENDS CobsFrame, ProtoRpc

CONSTANTS
  Clients,      \* each with at most one connection at a time
  NoClient,     \* model value: no connection
  Requests,     \* Requests[c]: the messages client c may send
  CallOf,       \* CallOf[m]: the call that message m unpacks to
  Backlog,      \* 2: connections that wait to be accepted (TcpServer.c:33)
  RxSize,       \* TCP_BUFFER_SIZE: the most bytes one recv returns
  Window,       \* how many requests a client has unanswered at a time
  MaxRequests,  \* bound: the requests of one connection
  MaxConnects   \* bound: the connections of one client

VARIABLES
  pc,        \* where the server task is
  cur,       \* the client whose connection is accepted
  data,      \* the bytes the last recv returned
  readDone, callbackDone,  \* read_done and callback_done
  deframer,  \* the server's Cobs_Deframer
  frame,     \* the ProtoRpc reply frame
  backlog,   \* the connections waiting in the listening socket
  conn,      \* conn[c]: the state of the connection of client c
  up,        \* up[c]: the bytes from c the server has not read
  asked,     \* asked[c]: the requests sent on the connection
  replies,   \* replies[c]: the reply frames written to the connection
  connects,  \* connects[c]: how many connections c has made
  vanished   \* history: has a client vanished in the middle of what it sent?

serverVars == <<pc, cur, data, readDone, callbackDone, deframer, frame, backlog>>
clientVars == <<up, asked, connects, vanished>>
vars == <<serverVars, conn, clientVars, replies>>

(* A connection is open, finished (FIN on its way) or reset.                 *)
ConnState == {"none", "open", "finished", "reset"}

Init ==
  /\ pc = "listen" /\ cur = NoClient /\ data = << >>
  /\ readDone = FALSE /\ callbackDone = FALSE
  /\ deframer = Flushed /\ frame = ZeroFrame
  /\ backlog = << >>
  /\ conn = [c \in Clients |-> "none"]
  /\ up = [c \in Clients |-> << >>]
  /\ asked = [c \in Clients |-> << >>]
  /\ replies = [c \in Clients |-> << >>]
  /\ connects = [c \in Clients |-> 0]
  /\ vanished = FALSE

-----------------------------------------------------------------------------
(* The clients *)

Unanswered(c) == Len(asked[c]) - Len(replies[c])

(* The listening socket takes the connection into its backlog. *)
Connect(c) ==
  /\ conn[c] = "none" /\ pc \notin {"listen", "exited"}
  /\ connects[c] < MaxConnects /\ Len(backlog) < Backlog
  /\ conn' = [conn EXCEPT ![c] = "open"]
  /\ backlog' = Append(backlog, c)
  /\ connects' = [connects EXCEPT ![c] = @ + 1]
  /\ asked' = [asked EXCEPT ![c] = << >>]
  /\ replies' = [replies EXCEPT ![c] = << >>]
  /\ UNCHANGED <<pc, cur, data, readDone, callbackDone, deframer, frame, up, vanished>>

(* A client sends a whole frame; the server may read it in any pieces. *)
Ask(c) ==
  /\ conn[c] = "open"
  /\ Unanswered(c) < Window /\ Len(asked[c]) < MaxRequests
  /\ \E m \in Requests[c] :
       /\ asked' = [asked EXCEPT ![c] = Append(@, m)]
       /\ up' = [up EXCEPT ![c] = @ \o Frame(Encoded(m))]
  /\ UNCHANGED <<serverVars, conn, connects, replies, vanished>>

(* A client closes its side, answered or not; what it sent is still to be read. *)
Finish(c) ==
  /\ conn[c] = "open"
  /\ conn' = [conn EXCEPT ![c] = "finished"]
  /\ UNCHANGED <<serverVars, clientVars, replies>>

(* A client vanishes: part of what it sent arrives, and then a FIN, a RST or *)
(* the end of the keepalive probes.                                          *)
Abort(c) ==
  /\ conn[c] = "open"
  /\ \E n \in 0..Len(up[c]), end \in {"finished", "reset"} :
       /\ up' = [up EXCEPT ![c] = SubSeq(@, 1, n)]
       /\ conn' = [conn EXCEPT ![c] = end]
  /\ vanished' = TRUE
  /\ UNCHANGED <<serverVars, asked, connects, replies>>

-----------------------------------------------------------------------------
(* tcp_server_task *)

Listen ==
  /\ pc = "listen"
  /\ pc' \in {"accept", "exited"}
  /\ UNCHANGED <<cur, data, readDone, callbackDone, deframer, frame, backlog,
                 conn, clientVars, replies>>

Accept ==
  /\ pc = "accept" /\ backlog # << >>
  /\ cur' = Head(backlog) /\ backlog' = Tail(backlog)
  /\ readDone' = FALSE /\ callbackDone' = FALSE
  /\ pc' = "read"
  /\ UNCHANGED <<data, deframer, frame, conn, clientVars, replies>>

(* An accept that fails ends the task, and the listening socket with it. *)
AcceptError ==
  /\ pc = "accept"
  /\ pc' = "exited"
  /\ backlog' = << >>
  /\ conn' = [c \in Clients |-> IF c \in ToSet(backlog) THEN "none" ELSE conn[c]]
  /\ up' = [c \in Clients |-> IF c \in ToSet(backlog) THEN << >> ELSE up[c]]
  /\ UNCHANGED <<cur, data, readDone, callbackDone, deframer, frame, asked, connects, vanished,
                 replies>>

(* TcpSocket_read returns some of the bytes that have arrived. *)
Read ==
  /\ pc = "read" /\ ~readDone
  /\ \E n \in 1..(IF Len(up[cur]) < RxSize THEN Len(up[cur]) ELSE RxSize) :
       /\ data' = SubSeq(up[cur], 1, n)
       /\ up' = [up EXCEPT ![cur] = SubSeq(@, n + 1, Len(@))]
  /\ pc' = "callback"
  /\ UNCHANGED <<cur, readDone, callbackDone, deframer, frame, backlog, conn, asked, connects,
                 vanished, replies>>

(* Mutant: the end of the stream is seen while bytes are still to be read. *)
Mut_ReadEnd ==
  /\ pc = "read" /\ ~readDone
  /\ conn[cur] = "finished"
  /\ data' = << >> /\ readDone' = TRUE
  /\ pc' = "callback"
  /\ UNCHANGED <<cur, callbackDone, deframer, frame, backlog, conn, clientVars, replies>>

(* It returns 0: the peer has closed its side and everything was read. *)
ReadEnd ==
  /\ pc = "read" /\ ~readDone
  /\ conn[cur] = "finished" /\ up[cur] = << >>
  /\ data' = << >> /\ readDone' = TRUE
  /\ pc' = "callback"
  /\ UNCHANGED <<cur, callbackDone, deframer, frame, backlog, conn, clientVars, replies>>

(* Mutant: a read error is taken for a read that timed out. *)
Mut_ReadError ==
  /\ pc = "read" /\ ~readDone
  /\ conn[cur] = "reset"
  /\ pc' = "read"
  /\ UNCHANGED <<cur, data, readDone, callbackDone, deframer, frame, backlog, conn,
                 clientVars, replies>>

(* It returns -1. *)
ReadError ==
  /\ pc = "read" /\ ~readDone
  /\ conn[cur] = "reset"
  /\ pc' = "close"
  /\ UNCHANGED <<cur, data, readDone, callbackDone, deframer, frame, backlog, conn,
                 clientVars, replies>>

(* The calls a client may make are those it framed; any other message is not *)
(* an RpcFrame as far as the model is concerned.                             *)
Unpack(m) == IF m \in DOMAIN CallOf THEN CallOf[m] ELSE NotACall

(* rpc_callback, which always reports that it is finished, and the test that *)
(* follows it.  A reply to a reset connection is lost.                       *)
Callback ==
  /\ pc = "callback"
  /\ callbackDone' = TRUE
  /\ LET ret    == Deframe(deframer, data)
         served == ProtoRpc_server(frame, Unpack(ret.msg))
     IN IF Len(data) > 0
        THEN /\ deframer' = ret.deframer
             /\ frame' = IF ret.len # 0 THEN served.frame ELSE frame
             /\ replies' = IF ret.len # 0 /\ served.reply.packed /\ conn[cur] # "reset"
                           THEN [replies EXCEPT ![cur] = Append(@, served.reply.frame)]
                           ELSE replies
        ELSE UNCHANGED <<deframer, frame, replies>>
  /\ pc' = IF readDone THEN "close" ELSE "read"
  /\ UNCHANGED <<cur, data, readDone, backlog, conn, clientVars>>

(* TcpSocket_shutdown and TcpSocket_close: unread bytes are dropped. *)
Close ==
  /\ pc = "close"
  /\ conn' = [conn EXCEPT ![cur] = "none"]
  /\ up' = [up EXCEPT ![cur] = << >>]
  /\ cur' = NoClient
  /\ pc' = "accept"
  /\ UNCHANGED <<data, readDone, callbackDone, deframer, frame, backlog, asked, connects, vanished,
                 replies>>

Server == Listen \/ Accept \/ AcceptError \/ Read \/ ReadEnd \/ ReadError \/ Callback \/ Close

Next == Server \/ \E c \in Clients : Connect(c) \/ Ask(c) \/ Finish(c) \/ Abort(c)

Spec == Init /\ [][Next]_vars

(* The server task is scheduled, bytes that were sent arrive, and a client   *)
(* ends its connection at last: nothing else makes the server give it up.    *)
(* Callback is always enabled at its place, so that its weak fairness is     *)
(* that the task leaves that place.                                          *)
FairSpec ==
  /\ Spec
  /\ WF_vars(Listen) /\ WF_vars(Accept) /\ WF_vars(Read \/ ReadEnd \/ ReadError)
  /\ []<>(pc # "callback") /\ WF_vars(Close)
  /\ \A c \in Clients : WF_vars(Finish(c))

-----------------------------------------------------------------------------
TypeOK ==
  /\ pc \in {"listen", "accept", "read", "callback", "close", "exited"}
  /\ cur \in Clients \cup {NoClient}
  /\ deframer \in Deframer
  /\ conn \in [Clients -> ConnState]
  /\ cur = NoClient <=> pc \in {"listen", "accept", "exited"}
  /\ cur \notin ToSet(backlog)
  /\ \A c \in Clients : conn[c] # "none" <=> c = cur \/ c \in ToSet(backlog)
  /\ readDone /\ pc = "callback" => data = << >>

(* Until a client vanishes in the middle of a request, every reply written   *)
(* to a connection answers a request that came in on it, in the order they   *)
(* came: the deframer and the reply frame, which outlive the connections,    *)
(* carry nothing from one over to another.                                   *)
ReplyToItsSender ==
  ~vanished =>
    \A c \in Clients : conn[c] # "none" =>
      /\ Len(replies[c]) <= Len(asked[c])
      /\ \A i \in DOMAIN replies[c] : replies[c][i].seqn = CallOf[asked[c][i]].seqn

(* And a connection whose client has finished sending is closed only when    *)
(* every request on it has been answered (TcpServer.c:75 "let the callback   *)
(* continue to send data until it's finished").                              *)
AnsweredBeforeClose ==
  [][\A c \in Clients :
        c = cur /\ conn[c] = "finished" /\ conn'[c] = "none" /\ ~vanished
          => Unanswered(c) = 0]_vars

(* Every request is answered, unless the task ended or a client vanished:    *)
(* the server comes round to every connection in its backlog, and no way of  *)
(* cutting the stream stalls it.                                             *)
RequestsAnswered ==
  \A c \in Clients :
    Unanswered(c) > 0 ~> Unanswered(c) = 0 \/ pc = "exited" \/ vanished

(* However its clients end their connections, the server comes back to       *)
(* accept the next one.                                                      *)
ServerReturns == pc = "read" ~> pc = "accept"
=============================================================================
