---------------------------- MODULE MCLifecycle ----------------------------
(* Lifecycle on small sets of executions and callers.                      *)
EXTENDS Lifecycle, TLC

Symmetry == Permutations(Execs) \cup Permutations(Callers)

\* With numbered executions: the names are given out in order.  Executions
\* are interchangeable, so this drops renamings only, and unlike Symmetry
\* it may be used in a liveness check.
InOrder ==
  LET Used(e) == mpc'[e] # "none" \/ \E c \in Callers : cexec'[c] = e
  IN \A d, e \in Execs : d < e /\ Used(e) => Used(d)

\* Only Start, Stop and RemoveDeadServers are called, the trigger is used up
\* before a third Start, and only Stop ends an execution: what makes three
\* executions small enough for a liveness check.
FewCalls ==
  /\ removeDead' => mpc'[3] = "none"
  /\ \A c \in Callers : cpc'[c] # "compute"
  /\ ctxDone' # ctxDone => status' # status
=============================================================================
