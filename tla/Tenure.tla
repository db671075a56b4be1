------------------------------- MODULE Tenure -------------------------------
(***************************************************************************)
(* What the life cycle promises, without its locks, goroutines, contexts   *)
(* and channels: the cluster has at most one manager at a time, the state  *)
(* is written by the manager alone and keeps the first state time it was   *)
(* given until an execution forgets it, and an execution that managed the  *)
(* cluster forgets the state, then reports that it is done, then steps     *)
(* down, and never comes back.  Lifecycle implements this.                 *)
(***************************************************************************)
CONSTANTS
  Execs,     \* executions
  Callers,   \* callers of Start, each of which may make the first state
  None

VARIABLES
  manager,   \* who may change the state or the cluster, or None
  memory,    \* the execution whose first state time the state holds, or None
  ended      \* the executions that have reported that they are done

vars == <<manager, memory, ended>>

Init == manager = None /\ memory = None /\ ended = {}

TakeOver(p) ==
  /\ manager = None
  /\ p \notin ended
  /\ manager' = p
  /\ UNCHANGED <<memory, ended>>

\* An execution remembers its own beginning; a caller of Start that of the
\* execution it is about to launch.
Remember(p) ==
  /\ manager = p
  /\ memory = None
  /\ memory' \in Execs \ ended
  /\ p \in Execs => memory' = p
  /\ UNCHANGED <<manager, ended>>

Forget(e) ==
  /\ manager = e
  /\ e \notin ended
  /\ memory' = None
  /\ UNCHANGED <<manager, ended>>

\* A manager reports only what it has forgotten; others never managed.
Report(e) ==
  /\ e \notin ended
  /\ manager = e => memory = None
  /\ ended' = ended \cup {e}
  /\ UNCHANGED <<manager, memory>>

StepDown(p) ==
  /\ manager = p
  /\ p \in Execs => p \in ended
  /\ manager' = None
  /\ UNCHANGED <<memory, ended>>

Next ==
  \/ \E p \in Callers \cup Execs : TakeOver(p) \/ Remember(p) \/ StepDown(p)
  \/ \E e \in Execs : Forget(e) \/ Report(e)

Spec == Init /\ [][Next]_vars
=============================================================================
