----------------------------- MODULE LuaThread ------------------------------
(***************************************************************************)
(* lua_thread.c and lua_thread_rpc.c: a task that runs Lua scripts one     *)
(* after the other from a queue of two, and the handler runScript, which   *)
(* puts a script into the queue from the task of an RPC server and waits   *)
(* at most 100 ms for room.                                                *)
(***************************************************************************)
EXTENDS Naturals, Sequences, FiniteSets

CONSTANTS
  Caller,       \* the server tasks whose clients run scripts
  Depth,        \* the length of the queue
  MaxScripts,   \* bound: calls of runScript in one behaviour
  NoScript      \* what the thread holds while it waits

VARIABLES      \* a script is the number of the call that sent it
  queue,        \* squeue
  caller,       \* where each caller is, and the script it sends
  sentCount,    \* the number of calls made
  accepted,     \* history: the scripts whose call returned 0, in the order queued
  refused,      \* history: those whose call returned -1
  thread,       \* where lua_thread_main is, and the item it received
  open,         \* the number of files it has open
  buffers,      \* the number of buffers it has allocated for a script
  taken,        \* history: the scripts it received, in order
  ran,          \* history: those it gave to exec_script, in order
  passed        \* history: those it did not get so far with

work == <<open, buffers, taken, ran, passed>>
vars == <<queue, caller, sentCount, accepted, refused, thread, work>>

Waiting == [pc |-> "recv", item |-> NoScript]

Init ==
  /\ queue = <<>> /\ sentCount = 0 /\ accepted = <<>> /\ refused = {}
  /\ caller = [c \in Caller |-> NoScript]
  /\ thread = Waiting
  /\ open = 0 /\ buffers = 0
  /\ taken = <<>> /\ ran = <<>> /\ passed = {}

-----------------------------------------------------------------------------

\* runScript is called, and with it Lua_Thread_send.
RunScript(c) ==
  /\ caller[c] = NoScript /\ sentCount < MaxScripts
  /\ sentCount' = sentCount + 1
  /\ caller' = [caller EXCEPT ![c] = sentCount + 1]
  /\ UNCHANGED <<queue, accepted, refused, thread, work>>

\* RTOS_QUEUE_SEND_WAIT finds room, now or within its 100 ms.
Send(c) ==
  /\ caller[c] # NoScript /\ Len(queue) < Depth
  /\ queue' = Append(queue, caller[c])
  /\ accepted' = Append(accepted, caller[c])
  /\ caller' = [caller EXCEPT ![c] = NoScript]
  /\ UNCHANGED <<sentCount, refused, thread, work>>

\* It does not: the reply's status is -1.
SendTimeout(c) ==
  /\ caller[c] # NoScript /\ Len(queue) = Depth
  /\ refused' = refused \cup {caller[c]}
  /\ caller' = [caller EXCEPT ![c] = NoScript]
  /\ UNCHANGED <<queue, sentCount, accepted, thread, work>>

-----------------------------------------------------------------------------

\* RTOS_QUEUE_RECV
Recv ==
  /\ thread.pc = "recv" /\ queue # <<>>
  /\ thread' = [pc |-> "open", item |-> Head(queue)]
  /\ taken' = Append(taken, Head(queue))
  /\ queue' = Tail(queue)
  /\ UNCHANGED <<caller, sentCount, accepted, refused, open, buffers, ran, passed>>

\* The thread goes on with its script, or passes it over.
Goto(pc) == thread' = [thread EXCEPT !.pc = pc] /\ UNCHANGED passed
PassOver(next) == thread' = next /\ passed' = passed \cup {thread.item}

\* A file that does not open is passed over.
Open ==
  /\ thread.pc = "open"
  /\ \/ PassOver(Waiting) /\ UNCHANGED open
     \/ Goto("alloc") /\ open' = open + 1
  /\ UNCHANGED <<queue, caller, sentCount, accepted, refused, buffers, taken, ran>>

\* Mutant: no memory for the script: the file is not closed.
Mut_Alloc ==
  /\ thread.pc = "alloc"
  /\ \/ PassOver(Waiting) /\ UNCHANGED buffers
     \/ Goto("read") /\ buffers' = buffers + 1
  /\ UNCHANGED <<queue, caller, sentCount, accepted, refused, open, taken, ran>>

\* A buffer of the size of the file; without memory only the file is to be closed.
Alloc ==
  /\ thread.pc = "alloc"
  /\ \/ PassOver([thread EXCEPT !.pc = "close"]) /\ UNCHANGED buffers
     \/ Goto("read") /\ buffers' = buffers + 1
  /\ UNCHANGED <<queue, caller, sentCount, accepted, refused, open, taken, ran>>

\* The script is read; where nothing is read, it is passed over.
Read ==
  /\ thread.pc = "read"
  /\ PassOver([thread EXCEPT !.pc = "free"]) \/ Goto("exec")
  /\ UNCHANGED <<queue, caller, sentCount, accepted, refused, open, buffers, taken, ran>>

\* exec_script: a new interpreter, the chunk loaded and called, and the interpreter
\* closed, whether the script loads, runs or fails.
Exec ==
  /\ thread.pc = "exec"
  /\ ran' = Append(ran, thread.item)
  /\ Goto("free")
  /\ UNCHANGED <<queue, caller, sentCount, accepted, refused, open, buffers, taken>>

\* cleanup_1 and cleanup_2
Free ==
  /\ thread.pc = "free"
  /\ buffers' = buffers - 1
  /\ Goto("close")
  /\ UNCHANGED <<queue, caller, sentCount, accepted, refused, open, taken, ran>>

Close ==
  /\ thread.pc = "close"
  /\ open' = open - 1
  /\ thread' = Waiting
  /\ UNCHANGED <<queue, caller, sentCount, accepted, refused, buffers, taken, ran, passed>>

Thread == Recv \/ Open \/ Alloc \/ Read \/ Exec \/ Free \/ Close

Next ==
  \/ \E c \in Caller : RunScript(c) \/ Send(c) \/ SendTimeout(c)
  \/ Thread

Spec == Init /\ [][Next]_vars

-----------------------------------------------------------------------------

\* What s lists stands in t in the same order.
InOrderOf(s, t) ==
  \A r, q \in 1..Len(s) : r < q =>
    \E i, j \in 1..Len(t) : i < j /\ t[i] = s[r] /\ t[j] = s[q]

\* A script whose call returned 0 is waiting, in hand, or done with, and then it was
\* either run or passed over, as one is whose file does not open, finds no memory or is
\* empty: the 0 does not promise a run.  No script is run twice, the scripts run in the
\* order in which their calls were accepted, and one whose call returned -1 is not run.
\* However far the thread got with a script, it waits for the next with no file open and
\* no buffer held (lua_thread.c:161-192).
AcceptedRunInOrder ==
  /\ taken \o queue = accepted
  /\ \A i \in DOMAIN taken :
       \/ taken[i] \in passed \/ taken[i] = thread.item
       \/ \E r \in DOMAIN ran : ran[r] = taken[i]
  /\ \A r \in DOMAIN ran : ran[r] \notin passed \cup refused
  /\ InOrderOf(ran, accepted)
  /\ \A i, j \in DOMAIN accepted : accepted[i] = accepted[j] => i = j
  /\ thread.pc = "recv" => open = 0 /\ buffers = 0
=============================================================================
