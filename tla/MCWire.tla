------------------------------- MODULE MCWire -------------------------------
(***************************************************************************)
(* What the bytes of a message pass through, each part on its own: they    *)
(* share no state, so a behaviour runs one of them, the one that `part'    *)
(* names, and the others stay as they are.                                 *)
(*   stream   frames cut anywhere, through Cobs_deframer                   *)
(*   codec    every string up to a length, through Cobs                    *)
(*   fifo     SwFifo as Cobs_deframer uses it: one task and no mutex       *)
(*   pages    a directory listed page after page                           *)
(*   server   the RPC server over TCP, and its clients                     *)
(***************************************************************************)
EXTENDS FramedStream, TLC

CONSTANTS Alphabet, MaxLength, NoTask, NoByte, NoResult, a, b, NoClient

VARIABLES bytes
VARIABLES wrIdx, rdIdx, mem, lock, pc, num, data, numToRead, seen, result
VARIABLES dir, page, idx, entries, done
VARIABLES place, cur, chunk, readDone, callbackDone, received, frame, backlog,
          conn, up, asked, replies, connects, vanished
VARIABLE part

Codec == INSTANCE MCCobs
Fifo == INSTANCE SwFifo WITH
  Writers <- {"task"}, Readers <- {"task"}, Flushers <- {"task"}, Askers <- {"task"},
  Depth <- 3, ItemSize <- 1, Byte <- {0, 1}, MaxRequest <- 2, Modulus <- 256,
  ThreadSafe <- FALSE
Pages == INSTANCE DirListing WITH MaxPage <- 6, Pages <- 3
Rpc == INSTANCE ProtoRpc WITH Callsets <- {1, 2}, FrameByte <- 256

(* The calls that a handler answers, one message with a zero inside it; the  *)
(* sequence number tells the messages apart.                                 *)
CallOf ==
  (<<1>>       :> Rpc!Call(1, 1, TRUE, FALSE, Rpc!RPC_SUCCESS)) @@
  (<<1, 0, 2>> :> Rpc!Call(2, 2, TRUE, FALSE, Rpc!RPC_HANDLER_ERROR)) @@
  (<<3>>       :> Rpc!Call(3, 2, TRUE, FALSE, Rpc!RPC_SUCCESS))

Tcp == INSTANCE TcpRpcServer WITH
  Clients <- {a, b}, Requests <- (a :> {<<3>>} @@ b :> {<<1, 0, 2>>, <<1>>}),
  Callsets <- {1, 2}, FrameByte <- 256, MaxOut <- 6, RxSize <- 6, Backlog <- 2, Window <- 1,
  MaxRequests <- 2, MaxConnects <- 1,
  pc <- place, data <- chunk, deframer <- received

(* A message with a zero inside it, one that starts with a zero, one with a  *)
(* maximal block (MaxCode is 4), and one whose frame exceeds the deframer's  *)
(* buffers (Depth is 6).                                                     *)
MCMessages == {<<2, 0, 1>>, <<0, 1>>, <<1, 1, 1>>, <<2, 1, 0, 2, 1, 2>>}

fifoVars == <<wrIdx, rdIdx, mem, lock, pc, num, data, numToRead, seen, result>>
pageVars == <<dir, page, idx, entries, done>>
tcpVars == <<place, cur, chunk, readDone, callbackDone, received, frame, backlog,
             conn, up, asked, replies, connects, vanished>>
otherVars == <<vars, bytes, fifoVars, pageVars>>
wireVars == <<otherVars, tcpVars, part>>

MCInit ==
  /\ Init /\ Codec!Init /\ Fifo!Init /\ Tcp!Init
  /\ \/ part \in {"stream", "codec", "fifo", "server"} /\ Pages!Init /\ page = 1 /\ dir = << >>
     \/ part = "pages" /\ Pages!Init

MCNext ==
  /\ \/ part = "stream" /\ Next /\ UNCHANGED <<bytes, fifoVars, pageVars, tcpVars>>
     \/ part = "codec" /\ Codec!Next /\ UNCHANGED <<vars, fifoVars, pageVars, tcpVars>>
     \/ part = "fifo" /\ Fifo!Next /\ UNCHANGED <<vars, bytes, pageVars, tcpVars>>
     \/ part = "pages" /\ Pages!Next /\ UNCHANGED <<vars, bytes, fifoVars, tcpVars>>
     \/ part = "server" /\ Tcp!Next /\ UNCHANGED otherVars
  /\ UNCHANGED part

\* The fairness of the client that lists, and of the server; the other parts
\* promise safety only.
Serving(A) == part = "server" /\ A /\ UNCHANGED <<otherVars, part>>

MCSpec ==
  /\ MCInit /\ [][MCNext]_wireVars
  /\ WF_wireVars(part = "pages" /\ Pages!Fetch /\ UNCHANGED <<vars, bytes, fifoVars, tcpVars, part>>)
  /\ WF_wireVars(Serving(Tcp!Listen)) /\ WF_wireVars(Serving(Tcp!Accept))
  /\ WF_wireVars(Serving(Tcp!Read \/ Tcp!ReadEnd \/ Tcp!ReadError))
  /\ []<>(place # "callback") /\ WF_wireVars(Serving(Tcp!Close))
  /\ \A c \in {a, b} : WF_wireVars(Serving(Tcp!Finish(c)))

-----------------------------------------------------------------------------
(* What Cobs_decode makes of what Cobs_encode made of a message is the       *)
(* message, whatever blocks the message falls into; a buffer of the length   *)
(* COBS promises is enough for it; the blocks are those of the definition of *)
(* COBS, unless a zero follows a maximal one; and Cobs_decode accepts        *)
(* nothing but encodings (and one empty block more).                         *)
CodecIsExact ==
  part = "codec" =>
    /\ Codec!RoundTrip /\ Codec!PromisedLengthSuffices
    /\ Codec!EncodesByReference /\ Codec!AcceptsOnlyEncodings

(* The deframer and the server are in states that fit together: no buffer    *)
(* holds more than it can, and a connection is open when the server has it.  *)
WireTypeOK == TypeOK /\ Tcp!TypeOK

(* SwFifo used by one task without its mutex is a bounded queue (SwFifo_read *)
(* and SwFifo_write as Cobs_deframer calls them).                            *)
FifoAlone == Fifo!ImplementsFifo

(* The listing of a directory of up to two pages ends, with every entry in   *)
(* its place (ls_table over the dirlist handler).                            *)
ListingEnds == part = "pages" => Pages!ListingEnds

(* TcpRpcServer: until a client vanishes in the middle of a request, every   *)
(* reply on a connection answers a request on it, in their order.            *)
ReplyToItsSender == Tcp!ReplyToItsSender

(* TcpRpcServer: a connection that its client has finished is closed when    *)
(* every request on it has been answered.                                    *)
AnsweredBeforeClose == Tcp!AnsweredBeforeClose

(* TcpRpcServer: every request is answered.                                  *)
RequestsAnswered == Tcp!RequestsAnswered

(* TcpRpcServer: the server comes back to accept the next connection.        *)
ServerReturns == Tcp!ServerReturns
=============================================================================
