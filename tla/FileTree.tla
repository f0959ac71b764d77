------------------------------- MODULE FileTree -------------------------------
(***************************************************************************)
(* What a tree of directories and files promises, whatever keeps it: a     *)
(* call changes the tree at once, or not at all, also when power is lost   *)
(* on the way; it returns what the tree says it must, unless there is no   *)
(* space.  Littlefs is to implement it.                                    *)
(*   tree   the entries, each with its path; of a file also which one it   *)
(*          is, by a number, and what it holds                             *)
(*   call   what the call under way is to make of the tree, and to return  *)
(*   said   what the last call returned                                    *)
(***************************************************************************)
EXTENDS Integers, Sequences, FiniteSets

VARIABLES tree, call, said

OK == 0
NOENT == -2
EXIST == -17
NOTDIR == -20
ISDIR == -21
INVAL == -22
NOTEMPTY == -39
NoSpace == {-28, -36}

Idle == [idle |-> TRUE]

-----------------------------------------------------------------------------
(* Paths: "." is -1, and ".." takes back the name before it.                 *)

RECURSIVE Plain(_)
Plain(path) ==
  LET front == Plain(SubSeq(path, 1, Len(path) - 1))
      last == path[Len(path)]
  IN IF path = << >> THEN << >>
     ELSE IF last = -1 THEN front
     ELSE IF last = -2 THEN SubSeq(front, 1, Len(front) - 1)
     ELSE Append(front, last)

Front(path) == SubSeq(path, 1, Len(path) - 1)
Under(path, q) == Len(path) >= Len(q) /\ SubSeq(path, 1, Len(q)) = q

TypeOf(t, path) ==
  IF path = << >> THEN "dir"
  ELSE IF \E e \in t : e.path = path THEN (CHOOSE e \in t : e.path = path).type ELSE "none"

\* What is wrong with a path up to its last name.
RECURSIVE FrontError(_, _)
FrontError(t, path) ==
  IF path = << >> THEN OK
  ELSE IF FrontError(t, Front(path)) # OK THEN FrontError(t, Front(path))
  ELSE CASE TypeOf(t, Front(path)) = "reg" -> NOTDIR
         [] TypeOf(t, Front(path)) = "none" -> NOENT
         [] OTHER -> OK

LookError(t, path) ==
  IF FrontError(t, path) # OK THEN FrontError(t, path)
  ELSE IF TypeOf(t, path) = "none" THEN NOENT ELSE OK

HasEntries(t, path) == \E e \in t : e.path # path /\ Under(e.path, path)

-----------------------------------------------------------------------------
(* The calls: op is its name and its arguments.                              *)

Mkdir(path) == [name |-> "mkdir", path |-> path]
Open(path, file) == [name |-> "open", path |-> path, file |-> file]
Sync(file, val) == [name |-> "sync", file |-> file, val |-> val]
Remove(path) == [name |-> "remove", path |-> path]
Rename(path, to) == [name |-> "rename", path |-> path, to |-> to]
Repair == [name |-> "repair"]

ErrorOf(t, op) ==
  CASE op.name = "mkdir" ->
         IF FrontError(t, op.path) # OK THEN FrontError(t, op.path)
         ELSE IF TypeOf(t, op.path) # "none" THEN EXIST ELSE OK
    [] op.name = "open" ->
         IF FrontError(t, op.path) # OK THEN FrontError(t, op.path)
         ELSE IF TypeOf(t, op.path) = "dir" THEN ISDIR ELSE OK
    [] op.name = "remove" ->
         IF LookError(t, op.path) # OK THEN LookError(t, op.path)
         ELSE IF op.path = << >> THEN INVAL
         ELSE IF HasEntries(t, op.path) THEN NOTEMPTY ELSE OK
    [] op.name = "rename" ->
         IF LookError(t, op.path) # OK THEN LookError(t, op.path)
         ELSE IF op.path = << >> THEN INVAL
         ELSE IF FrontError(t, op.to) # OK THEN FrontError(t, op.to)
         ELSE IF op.to = << >> THEN INVAL
         ELSE IF TypeOf(t, op.to) = "none" \/ op.to = op.path THEN OK
         ELSE IF TypeOf(t, op.to) # TypeOf(t, op.path)
         THEN IF TypeOf(t, op.to) = "dir" THEN ISDIR ELSE NOTDIR
         ELSE IF HasEntries(t, op.to) THEN NOTEMPTY ELSE OK
    [] OTHER -> OK

Moved(path, from, to) == to \o SubSeq(path, Len(from) + 1, Len(path))

Effect(t, op) ==
  CASE op.name = "mkdir" -> t \cup {[path |-> op.path, type |-> "dir", file |-> 0, val |-> 0]}
    [] op.name = "open" ->
         IF TypeOf(t, op.path) = "reg" THEN t
         ELSE t \cup {[path |-> op.path, type |-> "reg", file |-> op.file, val |-> 0]}
    [] op.name = "sync" -> {IF e.type = "reg" /\ e.file = op.file THEN [e EXCEPT !.val = op.val] ELSE e : e \in t}
    [] op.name = "remove" -> {e \in t : e.path # op.path}
    [] op.name = "rename" ->
         IF op.path = op.to THEN t
         ELSE {IF Under(e.path, op.path) THEN [e EXCEPT !.path = Moved(@, op.path, op.to)] ELSE e :
                 e \in {f \in t : f.path # op.to}}
    [] OTHER -> t

Asked(t, op) ==
  [idle |-> FALSE, op |-> op, err |-> ErrorOf(t, op), after |-> IF ErrorOf(t, op) = OK THEN Effect(t, op) ELSE t]

-----------------------------------------------------------------------------
(* The specification.                                                        *)

Init == tree = {} /\ call = Idle /\ said.err = OK

Ask == call.idle /\ ~call'.idle /\ call' = Asked(tree, call'.op) /\ UNCHANGED tree

Take == ~call.idle /\ tree' = call.after /\ UNCHANGED <<call, said>>

Answer ==
  /\ ~call.idle /\ call' = Idle /\ said'.of = "call"
  /\ tree' \in {tree, call.after}
  /\ \/ said'.err = call.err /\ tree' = call.after
     \/ said'.err \in NoSpace /\ call.err = OK

\* A call that looks at a path, or one on a directory that is open.
Look ==
  /\ call.idle /\ UNCHANGED <<tree, call>>
  /\ said'.of = "look"
  /\ said'.err = LookError(tree, Plain(said'.path))
  /\ said'.type = IF said'.err = OK THEN TypeOf(tree, Plain(said'.path)) ELSE "none"

Read == call.idle /\ UNCHANGED <<tree, call>> /\ said'.of = "read"

\* What follows a loss of power is a mount, and it succeeds.
LosePower ==
  /\ call' = Idle
  /\ tree' \in {tree, IF call.idle THEN tree ELSE call.after}
  /\ said'.of = "mount" /\ said'.err = OK

Next == Ask \/ Take \/ Answer \/ Look \/ Read \/ LosePower

Spec == Init /\ [][Next]_<<tree, call, said>>
=============================================================================
