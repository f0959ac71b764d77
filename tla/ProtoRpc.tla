------------------------------ MODULE ProtoRpc ------------------------------
(***************************************************************************)
(* ProtoRpc_server of ProtoRpc/src/ProtoRpc.c, as a function of the reply  *)
(* frame, which outlives the call, and of the call it is given.            *)
(***************************************************************************)
EXTENDS Integers

CONSTANTS Callsets,   \* the tags the resolver table holds
          FrameByte   \* 256: which_callset is read and written as one byte

ASSUME CallsetAssumption ==
  /\ FrameByte \in Nat \ {0}
  /\ Callsets \subseteq 1..(FrameByte - 1)

(* StatusEnum of ProtoRpc.proto *)
RPC_SUCCESS             == 0
RPC_BAD_RESOLVER_LOOKUP == 1
RPC_BAD_HANDLER_LOOKUP  == 2
RPC_HANDLER_ERROR       == 3

StatusEnum == {RPC_SUCCESS, RPC_BAD_RESOLVER_LOOKUP, RPC_BAD_HANDLER_LOOKUP, RPC_HANDLER_ERROR}

(* A received message after Pb_unpack: bytes that are no RpcFrame do not     *)
(* unpack; a frame names a callset by its tag, and within it a function that *)
(* the callset may lack.  status is what the handler will report: every      *)
(* handler of the repository sets it.                                        *)
NotACall == [unpacks |-> FALSE]
Call(seqn, tag, known, noReply, status) ==
  [unpacks |-> TRUE, seqn |-> seqn, tag |-> tag, known |-> known,
   no_reply |-> noReply, status |-> status]

-----------------------------------------------------------------------------
(* The reply frame, all zeros at first.  payload is who wrote the callset    *)
(* union last: the seqn and the callset of a call, or nobody.                *)
Nobody == [seqn |-> 0, callset |-> 0]

ZeroFrame == [has_header |-> FALSE, seqn |-> 0, status |-> RPC_SUCCESS,
              which_callset |-> 0, payload |-> Nobody]

(* Pb_pack: proto3 packs a frame without a header and a callset to no bytes. *)
NoReply == [packed |-> FALSE]
Pack(f) ==
  IF f.has_header \/ f.which_callset # 0
  THEN [packed |-> TRUE, frame |-> f]
  ELSE NoReply

(* What a call leaves in the frame, returns to be sent, and whether it ran   *)
(* a handler.                                                                *)
Served(f, reply, ran) == [frame |-> f, reply |-> reply, ran |-> ran]

(* A failed lookup answers with the reply frame as it stands.                *)
BadLookup(f, call, status) ==
  LET answer == [f EXCEPT !.seqn = call.seqn, !.status = status]
  IN Served(answer, Pack(answer), FALSE)

(* The handler fills in its part of the reply, and the status.               *)
Handled(f, call, which) ==
  [f EXCEPT !.status = call.status, !.payload = [seqn |-> call.seqn, callset |-> which]]

(* Mutant: the reply names the callset of the last reply. *)
Mut_Answered(f, call, which) ==
  LET answer == [f EXCEPT !.seqn = call.seqn, !.has_header = TRUE,
                          !.which_callset = IF @ = 0 THEN which ELSE @]
  IN IF call.no_reply THEN Served(f, NoReply, TRUE)
     ELSE Served(answer, Pack(answer), TRUE)

(* Mutant: the header is filled in for the first reply only. *)
Mut_Answered_header(f, call, which) ==
  LET answer == [f EXCEPT !.seqn = IF f.has_header THEN @ ELSE call.seqn,
                          !.has_header = TRUE, !.which_callset = which]
  IN IF call.no_reply THEN Served(f, NoReply, TRUE)
     ELSE Served(answer, Pack(answer), TRUE)

(* And the header follows, unless no reply is wanted.                        *)
Answered(f, call, which) ==
  LET answer == [f EXCEPT !.seqn = call.seqn, !.has_header = TRUE,
                          !.which_callset = which]
  IN IF call.no_reply THEN Served(f, NoReply, TRUE)
     ELSE Served(answer, Pack(answer), TRUE)

(* callset_lookup, and the resolver it finds: the status of a lookup that    *)
(* finds no handler.                                                         *)
Lookup(call, which) ==
  IF which \notin Callsets THEN RPC_BAD_RESOLVER_LOOKUP
  ELSE IF ~call.known THEN RPC_BAD_HANDLER_LOOKUP
  ELSE RPC_SUCCESS

(* ProtoRpc_server, when nothing else uses the ProtoRpc meanwhile. *)
ProtoRpc_server(f, call) ==
  IF ~call.unpacks THEN Served(f, NoReply, FALSE)
  ELSE LET which == call.tag % FrameByte
           found == Lookup(call, which)
       IN IF found # RPC_SUCCESS THEN BadLookup(f, call, found)
          ELSE Answered(Handled(f, call, which), call, which)
=============================================================================
