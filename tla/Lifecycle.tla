------------------------------ MODULE Lifecycle ------------------------------
(***************************************************************************)
(* The life cycle of an Autopilot instance: Start, Stop, the goroutines    *)
(* of an execution (beginExecution and its child runStateUpdater), the     *)
(* three locks they share (execLock, leaderLock, stateLock) and the        *)
(* removeDeadCh trigger.  run.go, mutex.go, autopilot.go and, for the      *)
(* order of reads and writes of a.state, state.go.                         *)
(*                                                                         *)
(* An execution is named by an element of Execs: the execInfo, the context *)
(* of one Start call, its two goroutines and the "first state time" its    *)
(* first update records all carry that name.  The State structure is       *)
(* abstracted to the execution whose firstStateTime it holds, None being   *)
(* the zero State: this is what decides whether one leadership session     *)
(* sees what another one left behind.                                      *)
(*                                                                         *)
(* A critical section that never blocks and calls nobody is one step.      *)
(* Start keeps execLock while it waits for leaderLock and runs              *)
(* updateState, updateState keeps stateLock while it calls the delegate,   *)
(* and the cleanup of beginExecution keeps stateLock while it waits for    *)
(* execLock: those locks are variables and those sections several steps.   *)
(***************************************************************************)
EXTENDS Naturals, FiniteSets

CONSTANTS
  Execs,     \* executions, bounding the number of Start calls that launch one
  Callers,   \* application goroutines that call the public methods
  None       \* nil pointer, zero State, unlocked mutex

ASSUME NamesDistinct == Execs \cap Callers = {} /\ None \notin Execs \cup Callers

Actors == Callers \cup Execs

VARIABLES
  execution,   \* a.execution
  status,      \* exec.status, "none" before the execInfo exists
  ctxDone,     \* whether the context of an execution is cancelled
  execLock,    \* holder of a.execLock, when held over several steps
  leaderLock,  \* holder of a.leaderLock
  stateLock,   \* holder of the write side of a.stateLock
  state,       \* a.state, see above
  removeDead,  \* whether removeDeadCh (capacity 1) holds a token
  cpc,         \* where each caller is
  cexec,       \* the execution a caller's Start is about, None outside Start
  mpc,         \* where the goroutine running beginExecution is
  upc,         \* where the goroutine running runStateUpdater is
  upd,         \* where an actor is within updateState
  snap,        \* CurrentState as read by gatherNextStateInputs
  first        \* FirstStateTime as computed by gatherNextStateInputs

lockVars  == <<execLock, leaderLock, stateLock>>
updVars   == <<upd, snap, first>>
execVars  == <<execution, status>>
callVars  == <<cpc, cexec>>
vars == <<execution, status, ctxDone, execLock, leaderLock, stateLock, state,
          removeDead, cpc, cexec, mpc, upc, upd, snap, first>>

CallerPC == {"idle", "called", "trylock", "update", "spawn", "compute"}
MainPC   == {"none", "new", "trylock", "abort", "aborted", "loop", "reconcile",
             "prune", "join", "wipe", "finish", "release", "unlock", "dead"}
UpdaterPC == {"none", "run", "done"}
UpdatePC  == {"off", "read", "gather", "publish", "notify"}

\* The session an update of the state is made for.
Session(p) == IF p \in Callers THEN cexec[p] ELSE p

Init ==
  /\ execution = None
  /\ status = [e \in Execs |-> "none"]
  /\ ctxDone = [e \in Execs |-> FALSE]
  /\ execLock = None /\ leaderLock = None /\ stateLock = None
  /\ state = None
  /\ removeDead = FALSE
  /\ cpc = [c \in Callers |-> "idle"]
  /\ cexec = [c \in Callers |-> None]
  /\ mpc = [e \in Execs |-> "none"]
  /\ upc = [e \in Execs |-> "none"]
  /\ upd = [p \in Actors |-> "off"]
  /\ snap = [p \in Actors |-> None]
  /\ first = [p \in Actors |-> None]

-----------------------------------------------------------------------------
(* updateState, run by Start (actor c) or by runStateUpdater (actor e).    *)

BeginUpdate(p) == upd' = [upd EXCEPT ![p] = "read"]

EndUpdate(p) ==
  /\ upd' = [upd EXCEPT ![p] = "off"]
  /\ snap' = [snap EXCEPT ![p] = None]
  /\ first' = [first EXCEPT ![p] = None]

\* currentState := a.GetState(), under the read lock.
ReadState(p) ==
  /\ upd[p] = "read"
  /\ stateLock = None
  /\ snap' = [snap EXCEPT ![p] = state]
  /\ upd' = [upd EXCEPT ![p] = "gather"]
  /\ UNCHANGED <<execVars, ctxDone, lockVars, state, removeDead, callVars, mpc, upc, first>>

\* Mutant: the first state is stamped by whoever makes it, not by its session.
FirstStateOfActor(p) == IF state = None THEN p ELSE state

\* Mutant: every update stamps the state anew.
FirstStateFresh(p) == Session(p)

\* FirstStateTime: what the state times its first state with.
FirstStateOf(p) == IF state = None THEN Session(p) ELSE state

\* firstStateTime = a.state.firstStateTime, read without the lock, and the
\* rest of the inputs.
GatherInputs(p) ==
  /\ upd[p] = "gather"
  /\ first' = [first EXCEPT ![p] = FirstStateOf(p)]
  /\ upd' = [upd EXCEPT ![p] = "publish"]
  /\ UNCHANGED <<execVars, ctxDone, lockVars, state, removeDead, callVars, mpc, upc, snap>>

\* An input is missing or the context ended: updateState logs and returns.
GatherFails(p) ==
  /\ upd[p] \in {"gather", "publish"}
  /\ EndUpdate(p)
  /\ UNCHANGED <<execVars, ctxDone, lockVars, state, removeDead, callVars, mpc, upc>>

\* a.state = newState under the write lock, held while the delegate is told.
SetState(p) ==
  /\ upd[p] = "publish"
  /\ stateLock = None
  /\ stateLock' = p
  /\ state' = first[p]
  /\ upd' = [upd EXCEPT ![p] = "notify"]
  /\ UNCHANGED <<execVars, ctxDone, execLock, leaderLock, removeDead, callVars, mpc, upc, snap, first>>

\* NotifyState returns and the write lock is released.
Notified(p) ==
  /\ upd[p] = "notify"
  /\ stateLock' = None
  /\ EndUpdate(p)
  /\ UNCHANGED <<execVars, ctxDone, execLock, leaderLock, state, removeDead, callVars, mpc, upc>>

UpdateStep(p) ==
  \/ ReadState(p)
  \/ GatherInputs(p)
  \/ GatherFails(p)
  \/ SetState(p)
  \/ Notified(p)

-----------------------------------------------------------------------------
(* Start.                                                                  *)

\* The caller has a context (not necessarily live) and calls Start with it.
CallStart(c, e) ==
  /\ cpc[c] = "idle"
  /\ mpc[e] = "none"
  /\ \A d \in Callers : cexec[d] # e
  /\ cpc' = [cpc EXCEPT ![c] = "called"]
  /\ cexec' = [cexec EXCEPT ![c] = e]
  /\ UNCHANGED <<execVars, ctxDone, lockVars, state, removeDead, mpc, upc, updVars>>

IsLive(s) == s = "running"

\* "already running so there is nothing to do"
StartIgnored(c) ==
  /\ cpc[c] = "called"
  /\ execLock = None
  /\ execution # None /\ IsLive(status[execution])
  /\ cpc' = [cpc EXCEPT ![c] = "idle"]
  /\ cexec' = [cexec EXCEPT ![c] = None]
  /\ UNCHANGED <<execVars, ctxDone, lockVars, state, removeDead, mpc, upc, updVars>>

\* A new execInfo; with nothing running Start first makes a state itself.
StartExec(c) ==
  LET e == cexec[c]
      stopped == execution = None \/ status[execution] = "not-running"
  IN
  /\ cpc[c] = "called"
  /\ execLock = None
  /\ ~(execution # None /\ IsLive(status[execution]))
  /\ execLock' = c
  /\ status' = [status EXCEPT ![e] = "running"]
  /\ mpc' = [mpc EXCEPT ![e] = "new"]
  /\ cpc' = [cpc EXCEPT ![c] = IF stopped THEN "trylock" ELSE "spawn"]
  /\ UNCHANGED <<execution, ctxDone, leaderLock, stateLock, state, removeDead, cexec, upc, updVars>>

StartTryLock(c) ==
  /\ cpc[c] = "trylock"
  /\ leaderLock = None
  /\ leaderLock' = c
  /\ cpc' = [cpc EXCEPT ![c] = "update"]
  /\ BeginUpdate(c)
  /\ UNCHANGED <<execVars, ctxDone, execLock, stateLock, state, removeDead, cexec, mpc, upc, snap, first>>

\* Mutant: Lock in place of TryLock.
StartNeverTimesOut(c) == FALSE /\ c \in Callers /\ UNCHANGED vars

\* The one second of TryLock passes with the lock taken: the state is not
\* updated.
StartTimeout(c) ==
  /\ cpc[c] = "trylock"
  /\ leaderLock # None
  /\ cpc' = [cpc EXCEPT ![c] = "spawn"]
  /\ UNCHANGED <<execVars, ctxDone, lockVars, state, removeDead, cexec, mpc, upc, updVars>>

\* updateState has returned: leaderLock.Unlock().
StartUpdated(c) ==
  /\ cpc[c] = "update"
  /\ upd[c] = "off"
  /\ leaderLock' = None
  /\ cpc' = [cpc EXCEPT ![c] = "spawn"]
  /\ UNCHANGED <<execVars, ctxDone, execLock, stateLock, state, removeDead, cexec, mpc, upc, updVars>>

\* go a.beginExecution(ctx, exec); a.execution = exec; Start returns.
StartSpawn(c) ==
  /\ cpc[c] = "spawn"
  /\ mpc' = [mpc EXCEPT ![cexec[c]] = "trylock"]
  /\ execution' = cexec[c]
  /\ execLock' = None
  /\ cpc' = [cpc EXCEPT ![c] = "idle"]
  /\ cexec' = [cexec EXCEPT ![c] = None]
  /\ UNCHANGED <<status, ctxDone, leaderLock, stateLock, state, removeDead, upc, updVars>>

-----------------------------------------------------------------------------
(* Stop, context cancellation, RemoveDeadServers and ComputeState.         *)

\* What IsRunning returns.
IsRunning ==
  IF execution = None \/ status[execution] = "not-running"
  THEN "not-running" ELSE status[execution]

\* With nothing to stop, Stop returns a closed channel and changes nothing.
Stop(c) ==
  /\ cpc[c] = "idle"
  /\ execLock = None
  /\ IsRunning # "not-running"
  /\ ctxDone' = [ctxDone EXCEPT ![execution] = TRUE]
  /\ status' = [status EXCEPT ![execution] = "shutting-down"]
  /\ UNCHANGED <<execution, lockVars, state, removeDead, callVars, mpc, upc, updVars>>

\* The application cancels the context it gave (or is giving) to Start.
CancelContext(e) ==
  /\ mpc[e] # "none" \/ \E c \in Callers : cexec[c] = e
  /\ mpc[e] \notin {"aborted", "dead"}
  /\ ~ctxDone[e]
  /\ ctxDone' = [ctxDone EXCEPT ![e] = TRUE]
  /\ UNCHANGED <<execVars, lockVars, state, removeDead, callVars, mpc, upc, updVars>>

\* A send that is dropped when the channel already holds a token.
RemoveDeadServers(c) ==
  /\ cpc[c] = "idle"
  /\ removeDead' = TRUE
  /\ UNCHANGED <<execVars, ctxDone, lockVars, state, callVars, mpc, upc, updVars>>

\* ComputeState gathers the same inputs in the caller's goroutine, without
\* the leader lock, and retains nothing: GetState, then the second read of
\* a.state.
ComputeState(c) ==
  /\ cpc[c] = "idle"
  /\ stateLock = None
  /\ cpc' = [cpc EXCEPT ![c] = "compute"]
  /\ UNCHANGED <<execVars, ctxDone, lockVars, state, removeDead, cexec, mpc, upc, updVars>>

ComputeGather(c) ==
  /\ cpc[c] = "compute"
  /\ cpc' = [cpc EXCEPT ![c] = "idle"]
  /\ UNCHANGED <<execVars, ctxDone, lockVars, state, removeDead, cexec, mpc, upc, updVars>>

-----------------------------------------------------------------------------
(* beginExecution.                                                         *)

\* finishExecution: under execLock, status and the done channel.
FinishExecution(e) ==
  /\ execLock = None
  /\ status' = [status EXCEPT ![e] = "not-running"]

\* Mutant: the leader lock is taken from whoever has it.
TryLockBarging(e) ==
  /\ mpc[e] = "trylock"
  /\ leaderLock' = e
  /\ mpc' = [mpc EXCEPT ![e] = "loop"]
  /\ upc' = [upc EXCEPT ![e] = "run"]
  /\ UNCHANGED <<execVars, ctxDone, execLock, stateLock, state, removeDead, callVars, updVars>>

\* The semaphore is free.  A context that is already done may or may not
\* keep Acquire from succeeding.
TryLock(e) ==
  /\ mpc[e] = "trylock"
  /\ leaderLock = None
  /\ leaderLock' = e
  /\ mpc' = [mpc EXCEPT ![e] = "loop"]
  /\ upc' = [upc EXCEPT ![e] = "run"]
  /\ UNCHANGED <<execVars, ctxDone, execLock, stateLock, state, removeDead, callVars, updVars>>

TryLockFails(e) ==
  /\ mpc[e] = "trylock"
  /\ ctxDone[e]
  /\ mpc' = [mpc EXCEPT ![e] = "abort"]
  /\ UNCHANGED <<execVars, ctxDone, lockVars, state, removeDead, callVars, upc, updVars>>

Abort(e) ==
  /\ mpc[e] = "abort"
  /\ FinishExecution(e)
  /\ mpc' = [mpc EXCEPT ![e] = "aborted"]
  /\ UNCHANGED <<execution, ctxDone, lockVars, state, removeDead, callVars, upc, updVars>>

\* The three cases of the select.
ReconcileTick(e) ==
  /\ mpc[e] = "loop"
  /\ mpc' = [mpc EXCEPT ![e] = "reconcile"]
  /\ UNCHANGED <<execVars, ctxDone, lockVars, state, removeDead, callVars, upc, updVars>>

\* Mutant: the trigger is looked at and not received.
RemoveDeadPeek(e) ==
  /\ mpc[e] = "loop"
  /\ removeDead
  /\ mpc' = [mpc EXCEPT ![e] = "prune"]
  /\ UNCHANGED <<execVars, ctxDone, lockVars, state, removeDead, callVars, upc, updVars>>

RemoveDeadTrigger(e) ==
  /\ mpc[e] = "loop"
  /\ removeDead
  /\ removeDead' = FALSE
  /\ mpc' = [mpc EXCEPT ![e] = "prune"]
  /\ UNCHANGED <<execVars, ctxDone, lockVars, state, callVars, upc, updVars>>

\* Mutant: the loop leaves without waiting for its child.
ContextDoneNoJoin(e) ==
  /\ mpc[e] = "loop"
  /\ ctxDone[e]
  /\ mpc' = [mpc EXCEPT ![e] = "wipe"]
  /\ UNCHANGED <<execVars, ctxDone, lockVars, state, removeDead, callVars, upc, updVars>>

ContextDone(e) ==
  /\ mpc[e] = "loop"
  /\ ctxDone[e]
  /\ mpc' = [mpc EXCEPT ![e] = "join"]
  /\ UNCHANGED <<execVars, ctxDone, lockVars, state, removeDead, callVars, upc, updVars>>

\* reconcile returns, whatever its error, and pruneDeadServers follows.
Reconciled(e) ==
  /\ mpc[e] = "reconcile"
  /\ mpc' = [mpc EXCEPT ![e] = "prune"]
  /\ UNCHANGED <<execVars, ctxDone, lockVars, state, removeDead, callVars, upc, updVars>>

Pruned(e) ==
  /\ mpc[e] = "prune"
  /\ mpc' = [mpc EXCEPT ![e] = "loop"]
  /\ UNCHANGED <<execVars, ctxDone, lockVars, state, removeDead, callVars, upc, updVars>>

\* Mutant: any report of the child will do, an exit is not waited for.
JoinAtOnce(e) ==
  /\ mpc[e] = "join"
  /\ mpc' = [mpc EXCEPT ![e] = "wipe"]
  /\ UNCHANGED <<execVars, ctxDone, lockVars, state, removeDead, callVars, upc, updVars>>

\* The deferred cleanup: wait for the child, forget the state, tell the
\* world, let the next execution in.
Join(e) ==
  /\ mpc[e] = "join"
  /\ upc[e] = "done"
  /\ mpc' = [mpc EXCEPT ![e] = "wipe"]
  /\ UNCHANGED <<execVars, ctxDone, lockVars, state, removeDead, callVars, upc, updVars>>

\* Mutant: the state survives the execution.
ForgetStateNot(e) ==
  /\ mpc[e] = "wipe"
  /\ stateLock = None
  /\ stateLock' = e
  /\ mpc' = [mpc EXCEPT ![e] = "finish"]
  /\ UNCHANGED <<execVars, ctxDone, execLock, leaderLock, state, removeDead, callVars, upc, updVars>>

\* Mutant: leaderLock is released before the execution is finished.
ForgetStateReleaseEarly(e) ==
  /\ mpc[e] = "wipe"
  /\ stateLock = None
  /\ stateLock' = e
  /\ state' = None
  /\ leaderLock' = None
  /\ mpc' = [mpc EXCEPT ![e] = "finish"]
  /\ UNCHANGED <<execVars, ctxDone, execLock, removeDead, callVars, upc, updVars>>

ForgetState(e) ==
  /\ mpc[e] = "wipe"
  /\ stateLock = None
  /\ stateLock' = e
  /\ state' = None
  /\ mpc' = [mpc EXCEPT ![e] = "finish"]
  /\ UNCHANGED <<execVars, ctxDone, execLock, leaderLock, removeDead, callVars, upc, updVars>>

Finish(e) ==
  /\ mpc[e] = "finish"
  /\ FinishExecution(e)
  /\ mpc' = [mpc EXCEPT ![e] = "release"]
  /\ UNCHANGED <<execution, ctxDone, lockVars, state, removeDead, callVars, upc, updVars>>

\* Mutant: the leader lock is not released.
ReleaseLeaderNot(e) ==
  /\ mpc[e] = "release"
  /\ mpc' = [mpc EXCEPT ![e] = "unlock"]
  /\ UNCHANGED <<execVars, ctxDone, lockVars, state, removeDead, callVars, upc, updVars>>

ReleaseLeader(e) ==
  /\ mpc[e] = "release"
  /\ leaderLock' = None
  /\ mpc' = [mpc EXCEPT ![e] = "unlock"]
  /\ UNCHANGED <<execVars, ctxDone, execLock, stateLock, state, removeDead, callVars, upc, updVars>>

\* The deferred stateLock.Unlock(), after everything else.
UnlockState(e) ==
  /\ mpc[e] = "unlock"
  /\ stateLock' = None
  /\ mpc' = [mpc EXCEPT ![e] = "dead"]
  /\ UNCHANGED <<execVars, ctxDone, execLock, leaderLock, state, removeDead, callVars, upc, updVars>>

(* runStateUpdater.                                                        *)

UpdateTick(e) ==
  /\ upc[e] = "run"
  /\ upd[e] = "off"
  /\ BeginUpdate(e)
  /\ UNCHANGED <<execVars, ctxDone, lockVars, state, removeDead, callVars, mpc, upc, snap, first>>

\* Mutant: the done channel of the child is not closed.
UpdaterExitSilently(e) ==
  /\ upc[e] = "run"
  /\ upd[e] = "off"
  /\ ctxDone[e]
  /\ upc' = [upc EXCEPT ![e] = "none"]
  /\ UNCHANGED <<execVars, ctxDone, lockVars, state, removeDead, callVars, mpc, updVars>>

UpdaterExit(e) ==
  /\ upc[e] = "run"
  /\ upd[e] = "off"
  /\ ctxDone[e]
  /\ upc' = [upc EXCEPT ![e] = "done"]
  /\ UNCHANGED <<execVars, ctxDone, lockVars, state, removeDead, callVars, mpc, updVars>>

-----------------------------------------------------------------------------

StartStep(c) ==
  \/ StartIgnored(c)
  \/ StartExec(c)
  \/ StartTryLock(c)
  \/ StartTimeout(c)
  \/ StartUpdated(c)
  \/ StartSpawn(c)

MainStep(e) ==
  \/ TryLock(e)
  \/ TryLockFails(e)
  \/ Abort(e)
  \/ ReconcileTick(e)
  \/ RemoveDeadTrigger(e)
  \/ ContextDone(e)
  \/ Reconciled(e)
  \/ Pruned(e)
  \/ Join(e)
  \/ ForgetState(e)
  \/ Finish(e)
  \/ ReleaseLeader(e)
  \/ UnlockState(e)

UpdaterStep(e) == UpdateTick(e) \/ UpdaterExit(e)

Next ==
  \/ \E c \in Callers, e \in Execs : CallStart(c, e)
  \/ \E c \in Callers :
       \/ StartStep(c)
       \/ Stop(c)
       \/ RemoveDeadServers(c)
       \/ ComputeState(c)
       \/ ComputeGather(c)
  \/ \E e \in Execs : CancelContext(e) \/ MainStep(e) \/ UpdaterStep(e)
  \/ \E p \in Actors : UpdateStep(p)

Spec == Init /\ [][Next]_vars

(***************************************************************************)
(* Fairness.  A goroutine that can keep running does: the calls it makes   *)
(* to Raft and to the delegate return, and a lock that stays free is       *)
(* taken.  A select picks at random among its ready cases, so a case that  *)
(* is ready again and again is chosen in the end, although the tickers     *)
(* may be ready every time: strong fairness.  The application's own calls  *)
(* and the tickers are not fair.                                           *)
(***************************************************************************)
MainProgress(e) ==
  \/ TryLock(e)
  \/ TryLockFails(e)
  \/ Abort(e)
  \/ Reconciled(e)
  \/ Pruned(e)
  \/ Join(e)
  \/ ForgetState(e)
  \/ Finish(e)
  \/ ReleaseLeader(e)
  \/ UnlockState(e)

Fairness ==
  /\ \A c \in Callers : WF_vars(StartStep(c))
  /\ \A p \in Actors : WF_vars(UpdateStep(p))
  /\ \A e \in Execs :
       /\ WF_vars(MainProgress(e))
       /\ SF_vars(ContextDone(e))
       /\ SF_vars(RemoveDeadTrigger(e))
       /\ SF_vars(UpdaterExit(e))

FairSpec == Spec /\ Fairness

-----------------------------------------------------------------------------
(* Safety.                                                                 *)

\* Every variable has the type of the Go field or program counter it models.
TypeOK ==
  /\ execution \in Execs \cup {None}
  /\ status \in [Execs -> {"none", "running", "shutting-down", "not-running"}]
  /\ ctxDone \in [Execs -> BOOLEAN]
  /\ execLock \in Callers \cup {None}
  /\ leaderLock \in Actors \cup {None}
  /\ stateLock \in Actors \cup {None}
  /\ state \in Execs \cup {None}
  /\ removeDead \in BOOLEAN
  /\ cpc \in [Callers -> CallerPC]
  /\ cexec \in [Callers -> Execs \cup {None}]
  /\ mpc \in [Execs -> MainPC]
  /\ upc \in [Execs -> UpdaterPC]
  /\ upd \in [Actors -> UpdatePC]
  /\ snap \in [Actors -> Execs \cup {None}]
  /\ first \in [Actors -> Execs \cup {None}]

\* beginExecution between its TryLock and its Unlock of leaderLock.
Leading == {"loop", "reconcile", "prune", "join", "wipe", "finish", "release"}

\* Actor p may be changing a.state or the Raft configuration: it is an
\* execution with either goroutine at work, or a Start making its state.
Acting(p) ==
  \/ upd[p] # "off"
  \/ p \in Execs /\ (mpc[p] \in Leading \/ upc[p] = "run")

\* However Start, Stop and cancellation interleave, at most one goroutine
\* family manages the cluster: no second execution, and no Start updating
\* the state, while any goroutine of an execution is still at work
\* (leaderLock, run.go: TryLock, the wait on stateUpdaterDone, Unlock).
OneLeader == \A p, q \in Actors : Acting(p) /\ Acting(q) => p = q

\* The state an update was computed from is still the current one when the
\* update is published, although no lock is held while the inputs are
\* gathered, and no writer is active at the second, unlocked read of
\* a.state in gatherNextStateInputs.
UpdateSeesOneState ==
  \A p \in Actors :
    /\ upd[p] \in {"gather", "publish"} => state = snap[p]
    /\ upd[p] = "gather" => stateLock = None

\* The done channel of an execution, closed with its status set to
\* NotRunning, tells the truth about that execution: neither of its
\* goroutines touches the state or Raft afterwards.
DoneMeansQuiet ==
  \A e \in Execs : status[e] = "not-running" =>
    /\ mpc[e] \in {"release", "unlock", "dead", "aborted"}
    /\ upc[e] # "run" /\ upd[e] = "off"

\* An execution that led and has ended is forgotten for good: its first
\* state time is neither in a.state nor on its way into it.
LeaderStateForgotten ==
  \A e \in Execs : mpc[e] \in {"finish", "release", "unlock", "dead"} =>
    /\ state # e
    /\ \A p \in Actors : upd[p] \in {"publish", "notify"} => first[p] # e

\* Actor p cannot go on before q lets go of a lock.  A Start that waits for
\* leaderLock is not counted: it gives up after a second.
Awaits(p, q) ==
  \/ p \in Callers /\ cpc[p] = "called" /\ execLock = q
  \/ p \in Execs /\ \/ mpc[p] \in {"abort", "finish"} /\ execLock = q
                    \/ mpc[p] = "trylock" /\ leaderLock = q
                    \/ mpc[p] = "wipe" /\ stateLock = q
  \/ upd[p] \in {"read", "publish"} /\ stateLock = q

\* A lock is held by a goroutine in the section that ends with releasing it.
Owned ==
  /\ execLock # None => cpc[execLock] \in {"trylock", "update", "spawn"}
  /\ leaderLock \in Callers => cpc[leaderLock] = "update"
  /\ leaderLock \in Execs => mpc[leaderLock] \in Leading
  /\ stateLock # None => \/ upd[stateLock] = "notify"
                         \/ /\ stateLock \in Execs
                            /\ mpc[stateLock] \in {"finish", "release", "unlock"}

\* Although the locks are taken in different orders, by Start (execLock,
\* leaderLock, stateLock) and by the cleanup of beginExecution (leaderLock,
\* stateLock, execLock), nobody waits in a circle: of three who wait for each
\* other the last can go on.  And nobody waits for one who is gone.
WaitingEnds ==
  /\ \A p, q \in Actors : Awaits(p, q) =>
       \A r \in Actors : Awaits(q, r) => \A s \in Actors : ~Awaits(r, s)
  /\ Owned

\* The locks, goroutines and channels implement Tenure: whoever acts is the
\* manager, a.state is what it remembers, a closed done channel its report.
Manager == IF \E p \in Actors : Acting(p) THEN CHOOSE p \in Actors : Acting(p) ELSE None
Done == {e \in Execs : status[e] = "not-running"}

T == INSTANCE Tenure WITH manager <- Manager, memory <- state, ended <- Done

\* Every behaviour of the life cycle is one of Tenure: management passes
\* from hand to hand with a gap between, the first state time of a state
\* never changes but by being forgotten, and an execution is forgotten
\* before its done channel is closed, before its successor may begin
\* (run.go: the deferred cleanup of beginExecution; state.go: 86-95).
ImplementsTenure == T!Spec

-----------------------------------------------------------------------------
(* What the comments promise and the code does not keep.                   *)

\* "IsRunning returns the current execution status of the autopilot go
\* routines": when it says not running, no goroutine manages the cluster.
NotRunningMeansQuiet ==
  IsRunning = "not-running" =>
    \A e \in Execs : mpc[e] \notin {"loop", "reconcile", "prune", "join", "wipe"}

\* "This prevents us from accidentally tracking stale state in the event
\* that we used to be the leader": a leading execution only ever sees the
\* zero State or one of its own.
RestartForgets ==
  \A e \in Execs : mpc[e] \in Leading => state \in {None, e}

-----------------------------------------------------------------------------
(* Liveness, under Fairness.                                               *)

\* Start returns, although it waits for leaderLock with execLock held and
\* the holder of leaderLock needs execLock before it lets go.
StartReturns == \A c \in Callers : cpc[c] = "called" ~> cpc[c] = "idle"

\* A cancelled or stopped execution ends, its locks released.
ShutdownCompletes ==
  \A e \in Execs :
    (mpc[e] \in MainPC \ {"none", "new"} /\ ctxDone[e]) ~> mpc[e] \in {"aborted", "dead"}

\* A launched execution gets to lead unless it is cancelled first.
NewExecutionTakesOver ==
  \A e \in Execs : mpc[e] = "trylock" ~> (mpc[e] = "loop" \/ ctxDone[e])

\* A RemoveDeadServers call, merged with a pending one or not, is served by
\* a leading execution that keeps running.
TriggerServed ==
  \A e \in Execs :
    (removeDead /\ mpc[e] \in {"loop", "reconcile", "prune"}) ~> (~removeDead \/ ctxDone[e])
=============================================================================
