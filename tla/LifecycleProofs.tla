-------------------------- MODULE LifecycleProofs --------------------------
(***************************************************************************)
(* Proofs, for any number of executions and callers, of the safety         *)
(* properties of Lifecycle.  The argument is ownership: whoever acts on    *)
(* the state holds leaderLock.  Reserved ties a Start in progress to the   *)
(* execution it creates, Leadership ties every acting goroutine to the     *)
(* lock, and the four properties are inductive on top of these two.  The   *)
(* last part shows that Lifecycle implements Tenure.                       *)
(***************************************************************************)
EXTENDS Lifecycle, TLAPS

\* A Start in progress owns the name of its execution, and past its first
\* test it owns execLock and its execution has not been spawned.
Reserved ==
  /\ \A c \in Callers :
       /\ cpc[c] \in {"called", "trylock", "update", "spawn"} => cexec[c] \in Execs
       /\ cpc[c] = "called" => mpc[cexec[c]] = "none"
       /\ cpc[c] \in {"trylock", "update", "spawn"} =>
            mpc[cexec[c]] = "new" /\ execLock = c
  /\ \A c, d \in Callers : cexec[c] # None /\ cexec[c] = cexec[d] => c = d

\* A goroutine that acts for the leader holds leaderLock, itself or through
\* the parent that will wait for it.
Leadership ==
  /\ \A e \in Execs :
       /\ mpc[e] \in Leading => leaderLock = e
       /\ upc[e] = "run" => mpc[e] \in {"loop", "reconcile", "prune", "join"}
       /\ upd[e] # "off" => upc[e] = "run"
  /\ \A c \in Callers :
       /\ cpc[c] = "update" => leaderLock = c
       /\ upd[c] # "off" => cpc[c] = "update"

IInv ==
  /\ TypeOK
  /\ Reserved
  /\ Leadership
  /\ UpdateSeesOneState
  /\ DoneMeansQuiet
  /\ LeaderStateForgotten

-----------------------------------------------------------------------------
(* Init.                                                                   *)

\* Every initial state satisfies the inductive invariant.
LEMMA InitIInv == Init => IInv
<1> SUFFICES ASSUME Init PROVE IInv
  OBVIOUS
<1>1. TypeOK
  BY DEF Init, TypeOK, Actors, CallerPC, MainPC, UpdaterPC, UpdatePC
<1>2. Reserved
  BY DEF Init, Reserved
<1>3. Leadership
  BY DEF Init, Leadership, Leading, Actors
<1>4. UpdateSeesOneState
  BY DEF Init, UpdateSeesOneState
<1>5. DoneMeansQuiet
  BY DEF Init, DoneMeansQuiet
<1>6. LeaderStateForgotten
  BY DEF Init, LeaderStateForgotten
<1> QED
  BY <1>1, <1>2, <1>3, <1>4, <1>5, <1>6 DEF IInv

\* Whoever acts on the state holds leaderLock, so there is at most one.
LEMMA ActingHoldsLock ==
  ASSUME TypeOK, Leadership, NEW p \in Actors, Acting(p)
  PROVE  leaderLock = p
  BY NamesDistinct DEF TypeOK, Leadership, Acting, Actors, Leading

\* Ownership of leaderLock gives the mutual exclusion of OneLeader.
LEMMA LeadershipOneLeader == TypeOK /\ Leadership => OneLeader
  BY ActingHoldsLock DEF OneLeader

-----------------------------------------------------------------------------
(* Every step.                                                             *)

\* Every step keeps the inductive invariant.  A name is reserved once, and
\* only the Start that holds execLock turns it into an execution; leaderLock
\* is given up only when the child has exited and Start's own update has
\* returned; only the holder of leaderLock writes a.state or takes its write
\* lock.
LEMMA StepIInv ==
  ASSUME IInv, [Next]_vars
  PROVE  IInv'
<1> USE NamesDistinct DEF IInv, TypeOK, Reserved, Leadership, Leading, UpdateSeesOneState,
        DoneMeansQuiet, LeaderStateForgotten, Actors, CallerPC, MainPC, UpdaterPC,
        UpdatePC, vars, execVars, lockVars, callVars, updVars
<1>1. ASSUME NEW c \in Callers, NEW e \in Execs, CallStart(c, e) PROVE IInv'
  BY <1>1 DEF CallStart
<1>2. ASSUME NEW c \in Callers, StartIgnored(c) PROVE IInv'
  BY <1>2 DEF StartIgnored
<1>3. ASSUME NEW c \in Callers, StartExec(c) PROVE IInv'
  BY <1>3 DEF StartExec
<1>4. ASSUME NEW c \in Callers, StartTryLock(c) PROVE IInv'
  BY <1>4 DEF StartTryLock, BeginUpdate
<1>5. ASSUME NEW c \in Callers, StartTimeout(c) PROVE IInv'
  BY <1>5 DEF StartTimeout
<1>6. ASSUME NEW c \in Callers, StartUpdated(c) PROVE IInv'
  BY <1>6 DEF StartUpdated
<1>7. ASSUME NEW c \in Callers, StartSpawn(c) PROVE IInv'
  BY <1>7 DEF StartSpawn
<1>8. ASSUME NEW c \in Callers, Stop(c) PROVE IInv'
  BY <1>8 DEF Stop, IsRunning
<1>9. ASSUME NEW c \in Callers, RemoveDeadServers(c) PROVE IInv'
  BY <1>9 DEF RemoveDeadServers
<1>10. ASSUME NEW c \in Callers, ComputeState(c) PROVE IInv'
  BY <1>10 DEF ComputeState
<1>11. ASSUME NEW c \in Callers, ComputeGather(c) PROVE IInv'
  BY <1>11 DEF ComputeGather
<1>12. ASSUME NEW e \in Execs, CancelContext(e) PROVE IInv'
  BY <1>12 DEF CancelContext
<1>13. ASSUME NEW e \in Execs, TryLock(e) PROVE IInv'
  BY <1>13 DEF TryLock
<1>14. ASSUME NEW e \in Execs, TryLockFails(e) PROVE IInv'
  BY <1>14 DEF TryLockFails
<1>15. ASSUME NEW e \in Execs, Abort(e) PROVE IInv'
  BY <1>15 DEF Abort, FinishExecution
<1>16. ASSUME NEW e \in Execs, ReconcileTick(e) PROVE IInv'
  BY <1>16 DEF ReconcileTick
<1>17. ASSUME NEW e \in Execs, RemoveDeadTrigger(e) PROVE IInv'
  <2>1. TypeOK'
    <3>1. removeDead' \in BOOLEAN
      BY <1>17 DEF RemoveDeadTrigger
    <3>2. mpc' \in [Execs -> MainPC]
      BY <1>17 DEF RemoveDeadTrigger
    <3> QED
      BY <1>17, <3>1, <3>2 DEF RemoveDeadTrigger
  <2>2. Reserved'
    BY <1>17 DEF RemoveDeadTrigger
  <2>3. Leadership'
    BY <1>17 DEF RemoveDeadTrigger
  <2>4. UpdateSeesOneState' /\ DoneMeansQuiet' /\ LeaderStateForgotten'
    BY <1>17 DEF RemoveDeadTrigger
  <2> QED
    BY <2>1, <2>2, <2>3, <2>4
<1>18. ASSUME NEW e \in Execs, ContextDone(e) PROVE IInv'
  BY <1>18 DEF ContextDone
<1>19. ASSUME NEW e \in Execs, Reconciled(e) PROVE IInv'
  BY <1>19 DEF Reconciled
<1>20. ASSUME NEW e \in Execs, Pruned(e) PROVE IInv'
  BY <1>20 DEF Pruned
<1>21. ASSUME NEW e \in Execs, Join(e) PROVE IInv'
  BY <1>21 DEF Join
<1>22. ASSUME NEW e \in Execs, ForgetState(e) PROVE IInv'
  BY <1>22 DEF ForgetState
<1>23. ASSUME NEW e \in Execs, Finish(e) PROVE IInv'
  BY <1>23 DEF Finish, FinishExecution
<1>24. ASSUME NEW e \in Execs, ReleaseLeader(e) PROVE IInv'
  BY <1>24 DEF ReleaseLeader
<1>25. ASSUME NEW e \in Execs, UnlockState(e) PROVE IInv'
  BY <1>25 DEF UnlockState
<1>26. ASSUME NEW e \in Execs, UpdateTick(e) PROVE IInv'
  BY <1>26 DEF UpdateTick, BeginUpdate
<1>27. ASSUME NEW e \in Execs, UpdaterExit(e) PROVE IInv'
  BY <1>27 DEF UpdaterExit
<1>28. ASSUME NEW p \in Actors, ReadState(p) PROVE IInv'
  BY <1>28 DEF ReadState
<1>29. ASSUME NEW p \in Actors, GatherInputs(p) PROVE IInv'
  BY <1>29 DEF GatherInputs, FirstStateOf, Session
<1>30. ASSUME NEW p \in Actors, GatherFails(p) PROVE IInv'
  BY <1>30 DEF GatherFails, EndUpdate
<1>31. ASSUME NEW p \in Actors, SetState(p) PROVE IInv'
  BY <1>31 DEF SetState
<1>32. ASSUME NEW p \in Actors, Notified(p) PROVE IInv'
  BY <1>32 DEF Notified, EndUpdate
<1>33. ASSUME UNCHANGED vars PROVE IInv'
  BY <1>33
<1> QED
  BY <1>1, <1>2, <1>3, <1>4, <1>5, <1>6, <1>7, <1>8, <1>9, <1>10, <1>11, <1>12,
     <1>13, <1>14, <1>15, <1>16, <1>17, <1>18, <1>19, <1>20, <1>21, <1>22, <1>23,
     <1>24, <1>25, <1>26, <1>27, <1>28, <1>29, <1>30, <1>31, <1>32, <1>33
     DEF Next, StartStep, MainStep, UpdaterStep, UpdateStep

-----------------------------------------------------------------------------
(* The properties.                                                         *)

\* The inductive invariant holds in every reachable state.
THEOREM Invariance == Spec => []IInv
  BY InitIInv, StepIInv, PTL DEF Spec

\* Every variable keeps its type.
THEOREM TypeCorrectness == Spec => []TypeOK
<1>1. IInv => TypeOK
  BY DEF IInv
<1> QED
  BY <1>1, Invariance, PTL

\* At most one goroutine family manages the cluster: leaderLock excludes a
\* second execution and a second state update until the child has exited.
THEOREM AtMostOneLeader == Spec => []OneLeader
<1>1. IInv => OneLeader
  BY LeadershipOneLeader DEF IInv
<1> QED
  BY <1>1, Invariance, PTL

\* A published update was computed from the state it replaces, and the
\* unlocked read of gatherNextStateInputs meets no writer.
THEOREM UpdatesAreAtomic == Spec => []UpdateSeesOneState
<1>1. IInv => UpdateSeesOneState
  BY DEF IInv
<1> QED
  BY <1>1, Invariance, PTL

\* An execution whose done channel is closed does nothing any more.
THEOREM DoneIsFinal == Spec => []DoneMeansQuiet
<1>1. IInv => DoneMeansQuiet
  BY DEF IInv
<1> QED
  BY <1>1, Invariance, PTL

\* Nothing of an execution that led survives its cleanup.
THEOREM StateIsForgotten == Spec => []LeaderStateForgotten
<1>1. IInv => LeaderStateForgotten
  BY DEF IInv
<1> QED
  BY <1>1, Invariance, PTL

-----------------------------------------------------------------------------
(* Waiting.                                                                *)

\* Every lock stays in the hands of a goroutine that is to release it.
LEMMA StepOwned == IInv /\ Owned /\ [Next]_vars => Owned'
<1> SUFFICES ASSUME IInv, Owned, [Next]_vars PROVE Owned'
  OBVIOUS
<1> USE NamesDistinct DEF IInv, TypeOK, Reserved, Leadership, Leading, Owned, Actors
<1>1. ASSUME NEW c \in Callers, NEW e \in Execs, CallStart(c, e) PROVE Owned'
  BY <1>1 DEF CallStart, lockVars, updVars
<1>2. ASSUME NEW c \in Callers,
             StartIgnored(c) \/ StartExec(c) \/ StartTimeout(c) \/ StartUpdated(c)
      PROVE  Owned'
  BY <1>2 DEF StartIgnored, StartExec, StartTimeout, StartUpdated, lockVars, updVars
<1>3. ASSUME NEW c \in Callers, StartTryLock(c) PROVE Owned'
  BY <1>3 DEF StartTryLock, BeginUpdate
<1>4. ASSUME NEW c \in Callers, StartSpawn(c) PROVE Owned'
  BY <1>4 DEF StartSpawn, updVars
<1>5. ASSUME NEW c \in Callers,
             Stop(c) \/ RemoveDeadServers(c) \/ ComputeState(c) \/ ComputeGather(c)
      PROVE  Owned'
  BY <1>5 DEF Stop, RemoveDeadServers, ComputeState, ComputeGather, lockVars, updVars, callVars
<1>6. ASSUME NEW e \in Execs, CancelContext(e) \/ UpdaterExit(e) PROVE Owned'
  BY <1>6 DEF CancelContext, UpdaterExit, lockVars, updVars, callVars
<1>7. ASSUME NEW e \in Execs, TryLock(e) PROVE Owned'
  BY <1>7 DEF TryLock, updVars, callVars
<1>8. ASSUME NEW e \in Execs,
             \/ TryLockFails(e) \/ Abort(e) \/ ReconcileTick(e) \/ RemoveDeadTrigger(e)
             \/ ContextDone(e) \/ Reconciled(e) \/ Pruned(e) \/ Join(e) \/ Finish(e)
      PROVE  Owned'
  BY <1>8 DEF TryLockFails, Abort, ReconcileTick, RemoveDeadTrigger, ContextDone, Reconciled,
              Pruned, Join, Finish, lockVars, updVars, callVars
<1>9. ASSUME NEW e \in Execs, ForgetState(e) PROVE Owned'
  BY <1>9 DEF ForgetState, updVars, callVars
<1>10. ASSUME NEW e \in Execs, ReleaseLeader(e) \/ UnlockState(e) PROVE Owned'
  BY <1>10 DEF ReleaseLeader, UnlockState, updVars, callVars
<1>11. ASSUME NEW e \in Execs, UpdateTick(e) PROVE Owned'
  BY <1>11 DEF UpdateTick, BeginUpdate, lockVars, callVars
<1>12. ASSUME NEW p \in Actors, ReadState(p) \/ GatherInputs(p) \/ SetState(p) PROVE Owned'
  BY <1>12 DEF ReadState, GatherInputs, SetState, lockVars, callVars
<1>13. ASSUME NEW p \in Actors, GatherFails(p) \/ Notified(p) PROVE Owned'
  BY <1>13 DEF GatherFails, Notified, EndUpdate, lockVars, callVars
<1>14. ASSUME UNCHANGED vars PROVE Owned'
  BY <1>14 DEF vars
<1> QED
  BY <1>1, <1>2, <1>3, <1>4, <1>5, <1>6, <1>7, <1>8, <1>9, <1>10, <1>11, <1>12, <1>13, <1>14
     DEF Next, StartStep, MainStep, UpdaterStep, UpdateStep

\* Whoever holds execLock waits for stateLock at most, and has leaderLock then.
LEMMA StarterAwaits ==
  ASSUME IInv, Owned, NEW q \in Actors, execLock = q, NEW r, Awaits(q, r)
  PROVE  leaderLock = q /\ q \in Callers /\ stateLock = r /\ upd[q] \in {"read", "publish"}
BY NamesDistinct DEF IInv, TypeOK, Leadership, Owned, Awaits, Actors

\* Whoever waits for stateLock has leaderLock, and what it waits for is the
\* end of an execution that has released leaderLock already.
LEMMA StateHolderLeaves ==
  ASSUME IInv, Owned, NEW q \in Actors, leaderLock = q, NEW r \in Actors, stateLock = r,
         Awaits(q, r), upd[q] # "notify", q \in Execs => mpc[q] # "finish"
  PROVE  \A s \in Actors : ~Awaits(r, s)
<1>1. r \in Execs /\ mpc[r] = "unlock"
  BY NamesDistinct DEF IInv, TypeOK, Leadership, Leading, Owned, Awaits, Actors
<1>2. upd[r] = "off"
  BY <1>1 DEF IInv, Leadership
<1> QED
  BY <1>1, <1>2, NamesDistinct DEF Awaits, IInv, TypeOK, Actors

\* A cleanup that waits for execLock waits for a Start that waits for nobody:
\* Start would need leaderLock for more, which the cleanup has.
LEMMA CleanupAwaits ==
  ASSUME IInv, Owned, NEW q \in Execs, mpc[q] = "finish", NEW r \in Actors, execLock = r
  PROVE  \A s \in Actors : ~Awaits(r, s)
<1>1. leaderLock = q
  BY DEF IInv, Leadership, Leading
<1> QED
  BY <1>1, StarterAwaits, NamesDistinct

\* Any number of executions and callers, started, stopped and cancelled in any
\* order: waiting for the three locks ends.
THEOREM WaitingAlwaysEnds == Spec => []WaitingEnds
<1>1. Init => Owned
  BY NamesDistinct DEF Init, Owned
<1>2. ASSUME IInv, Owned PROVE WaitingEnds
  <2>1. ASSUME NEW p \in Actors, NEW q \in Actors, NEW r \in Actors, Awaits(p, q), Awaits(q, r)
        PROVE  \A s \in Actors : ~Awaits(r, s)
    <3>1. CASE execLock = q
      <4>1. leaderLock = q /\ q \in Callers /\ stateLock = r /\ upd[q] \in {"read", "publish"}
        BY <1>2, <2>1, <3>1, StarterAwaits
      <4> QED
        BY <1>2, <2>1, <4>1, StateHolderLeaves, NamesDistinct
    <3>2. CASE leaderLock = q
      <4>1. CASE q \in Execs /\ mpc[q] = "finish"
        <5>1. execLock = r
          BY <1>2, <2>1, <4>1, NamesDistinct DEF Awaits, IInv, Leadership
        <5> QED
          BY <1>2, <2>1, <4>1, <5>1, CleanupAwaits
      <4>2. CASE ~(q \in Execs /\ mpc[q] = "finish")
        <5>1. stateLock = r /\ upd[q] # "notify"
          BY <1>2, <2>1, <3>2, <4>2, NamesDistinct
             DEF Awaits, IInv, TypeOK, Leadership, Leading, Owned, Actors
        <5> QED
          BY <1>2, <2>1, <3>2, <4>2, <5>1, StateHolderLeaves
      <4> QED
        BY <4>1, <4>2
    <3>3. CASE stateLock = q
      <4>1. q \in Execs /\ mpc[q] = "finish" /\ execLock = r
        BY <1>2, <2>1, <3>3, NamesDistinct DEF Awaits, IInv, TypeOK, Leadership, Owned, Actors
      <4> QED
        BY <1>2, <2>1, <4>1, CleanupAwaits
    <3> QED
      BY <2>1, <3>1, <3>2, <3>3 DEF Awaits
  <2> QED
    BY <1>2, <2>1 DEF WaitingEnds, Owned
<1> QED
  BY <1>1, <1>2, StepOwned, Invariance, PTL DEF Spec

-----------------------------------------------------------------------------
(* Refinement of Tenure.  Two facts are added to the invariant: what an    *)
(* update is about to publish keeps the first state time, and the cleanup  *)
(* forgets, reports and steps down in this order.                          *)

FirstKept == \A p \in Actors : upd[p] = "publish" => first[p] = FirstStateOf(p)

CleanupOrder ==
  \A e \in Execs :
    /\ mpc[e] = "finish" => state = None
    /\ mpc[e] = "release" => status[e] = "not-running"

RInv == IInv /\ FirstKept /\ CleanupOrder

\* The two facts hold at first.
LEMMA InitRInv == Init => RInv
<1> SUFFICES ASSUME Init PROVE FirstKept /\ CleanupOrder
  BY InitIInv DEF RInv
<1> QED
  BY DEF Init, FirstKept, CleanupOrder

\* Every step keeps them: only the holder of leaderLock writes the state, and
\* only its own cleanup goes on to "finish".
LEMMA StepRInv ==
  ASSUME RInv, [Next]_vars
  PROVE  RInv'
<1> USE NamesDistinct DEF RInv, IInv, TypeOK, Reserved, Leadership, Leading, UpdateSeesOneState,
        DoneMeansQuiet, FirstKept, CleanupOrder, FirstStateOf, Session,
        Actors, vars, execVars, lockVars, callVars, updVars
<1>0. IInv'
  BY StepIInv DEF RInv
<1>1. ASSUME NEW c \in Callers, NEW e \in Execs, CallStart(c, e) PROVE FirstKept' /\ CleanupOrder'
  BY <1>1 DEF CallStart
<1>2. ASSUME NEW c \in Callers, StartIgnored(c) PROVE FirstKept' /\ CleanupOrder'
  BY <1>2 DEF StartIgnored
<1>3. ASSUME NEW c \in Callers, StartExec(c) PROVE FirstKept' /\ CleanupOrder'
  BY <1>3 DEF StartExec
<1>4. ASSUME NEW c \in Callers, StartTryLock(c) PROVE FirstKept' /\ CleanupOrder'
  BY <1>4 DEF StartTryLock, BeginUpdate
<1>5. ASSUME NEW c \in Callers, StartTimeout(c) PROVE FirstKept' /\ CleanupOrder'
  BY <1>5 DEF StartTimeout
<1>6. ASSUME NEW c \in Callers, StartUpdated(c) PROVE FirstKept' /\ CleanupOrder'
  BY <1>6 DEF StartUpdated
<1>7. ASSUME NEW c \in Callers, StartSpawn(c) PROVE FirstKept' /\ CleanupOrder'
  BY <1>7 DEF StartSpawn
<1>8. ASSUME NEW c \in Callers, Stop(c) PROVE FirstKept' /\ CleanupOrder'
  BY <1>8 DEF Stop, IsRunning
<1>9. ASSUME NEW c \in Callers, RemoveDeadServers(c) PROVE FirstKept' /\ CleanupOrder'
  BY <1>9 DEF RemoveDeadServers
<1>10. ASSUME NEW c \in Callers, ComputeState(c) PROVE FirstKept' /\ CleanupOrder'
  BY <1>10 DEF ComputeState
<1>11. ASSUME NEW c \in Callers, ComputeGather(c) PROVE FirstKept' /\ CleanupOrder'
  BY <1>11 DEF ComputeGather
<1>12. ASSUME NEW e \in Execs, CancelContext(e) PROVE FirstKept' /\ CleanupOrder'
  BY <1>12 DEF CancelContext
<1>13. ASSUME NEW e \in Execs, TryLock(e) PROVE FirstKept' /\ CleanupOrder'
  BY <1>13 DEF TryLock
<1>14. ASSUME NEW e \in Execs, TryLockFails(e) PROVE FirstKept' /\ CleanupOrder'
  BY <1>14 DEF TryLockFails
<1>15. ASSUME NEW e \in Execs, Abort(e) PROVE FirstKept' /\ CleanupOrder'
  BY <1>15 DEF Abort, FinishExecution
<1>16. ASSUME NEW e \in Execs, ReconcileTick(e) PROVE FirstKept' /\ CleanupOrder'
  BY <1>16 DEF ReconcileTick
<1>17. ASSUME NEW e \in Execs, RemoveDeadTrigger(e) PROVE FirstKept' /\ CleanupOrder'
  BY <1>17 DEF RemoveDeadTrigger
<1>18. ASSUME NEW e \in Execs, ContextDone(e) PROVE FirstKept' /\ CleanupOrder'
  BY <1>18 DEF ContextDone
<1>19. ASSUME NEW e \in Execs, Reconciled(e) PROVE FirstKept' /\ CleanupOrder'
  BY <1>19 DEF Reconciled
<1>20. ASSUME NEW e \in Execs, Pruned(e) PROVE FirstKept' /\ CleanupOrder'
  BY <1>20 DEF Pruned
<1>21. ASSUME NEW e \in Execs, Join(e) PROVE FirstKept' /\ CleanupOrder'
  BY <1>21 DEF Join
<1>22. ASSUME NEW e \in Execs, ForgetState(e) PROVE FirstKept' /\ CleanupOrder'
  BY <1>22 DEF ForgetState
<1>23. ASSUME NEW e \in Execs, Finish(e) PROVE FirstKept' /\ CleanupOrder'
  BY <1>23 DEF Finish, FinishExecution
<1>24. ASSUME NEW e \in Execs, ReleaseLeader(e) PROVE FirstKept' /\ CleanupOrder'
  BY <1>24 DEF ReleaseLeader
<1>25. ASSUME NEW e \in Execs, UnlockState(e) PROVE FirstKept' /\ CleanupOrder'
  BY <1>25 DEF UnlockState
<1>26. ASSUME NEW e \in Execs, UpdateTick(e) PROVE FirstKept' /\ CleanupOrder'
  BY <1>26 DEF UpdateTick, BeginUpdate
<1>27. ASSUME NEW e \in Execs, UpdaterExit(e) PROVE FirstKept' /\ CleanupOrder'
  BY <1>27 DEF UpdaterExit
<1>28. ASSUME NEW p \in Actors, ReadState(p) PROVE FirstKept' /\ CleanupOrder'
  BY <1>28 DEF ReadState
<1>29. ASSUME NEW p \in Actors, GatherInputs(p) PROVE FirstKept' /\ CleanupOrder'
  BY <1>29 DEF GatherInputs
<1>30. ASSUME NEW p \in Actors, GatherFails(p) PROVE FirstKept' /\ CleanupOrder'
  BY <1>30 DEF GatherFails, EndUpdate
<1>31. ASSUME NEW p \in Actors, SetState(p) PROVE FirstKept' /\ CleanupOrder'
  BY <1>31 DEF SetState
<1>32. ASSUME NEW p \in Actors, Notified(p) PROVE FirstKept' /\ CleanupOrder'
  BY <1>32 DEF Notified, EndUpdate
<1>33. ASSUME UNCHANGED vars PROVE FirstKept' /\ CleanupOrder'
  BY <1>33
<1> QED
  BY <1>0, <1>1, <1>2, <1>3, <1>4, <1>5, <1>6, <1>7, <1>8, <1>9, <1>10, <1>11, <1>12,
     <1>13, <1>14, <1>15, <1>16, <1>17, <1>18, <1>19, <1>20, <1>21, <1>22, <1>23, <1>24,
     <1>25, <1>26, <1>27, <1>28, <1>29, <1>30, <1>31, <1>32, <1>33
     DEF Next, StartStep, MainStep, UpdaterStep, UpdateStep

\* Whoever acts is the manager.
ManagerActs ==
  /\ \A p \in Actors : Acting(p) => Manager = p
  /\ (\A p \in Actors : ~Acting(p)) => Manager = None

\* There is one actor at most, so Manager chooses it.
LEMMA ActorManages == IInv => ManagerActs
<1> SUFFICES ASSUME IInv PROVE ManagerActs
  OBVIOUS
<1>1. \A p, q \in Actors : Acting(p) /\ Acting(q) => q = p
  BY LeadershipOneLeader DEF OneLeader, IInv
<1>2. ASSUME NEW p \in Actors, Acting(p) PROVE Manager = p
  <2>1. \A q \in Actors : Acting(q) => q = p
    BY <1>1, <1>2
  <2> QED
    BY <1>2, <2>1 DEF Manager
<1>3. (\A p \in Actors : ~Acting(p)) => Manager = None
  BY DEF Manager
<1> QED
  BY <1>2, <1>3 DEF ManagerActs

\* The same after a step.
LEMMA ActorManagesNext == (IInv => ManagerActs)'
  BY ActorManages, PTL

\* A step that changes nobody's part in managing the cluster changes the
\* manager neither.
LEMMA SameManager ==
  ASSUME IInv, IInv', \A p \in Actors : Acting(p)' <=> Acting(p)
  PROVE  Manager' = Manager
<1>1. ManagerActs /\ ManagerActs'
  BY ActorManages, ActorManagesNext
<1> QED
  BY <1>1 DEF ManagerActs

\* While leaderLock is free nobody manages the cluster.
LEMMA FreeLock ==
  ASSUME IInv, leaderLock = None
  PROVE  Manager = None
<1>1. \A p \in Actors : ~Acting(p)
  BY ActingHoldsLock, NamesDistinct DEF IInv, Actors
<1> QED
  BY <1>1, ActorManages DEF ManagerActs

\* The steps Tenure does not see: they change neither who acts, nor the
\* state, nor who is done.
Unseen ==
  /\ \A p \in Actors : Acting(p)' <=> Acting(p)
  /\ state' = state
  /\ Done' = Done

SilentStep ==
  \/ \E c \in Callers, e \in Execs : CallStart(c, e)
  \/ \E c \in Callers :
       \/ StartIgnored(c) \/ StartExec(c) \/ StartTimeout(c) \/ StartUpdated(c) \/ StartSpawn(c)
       \/ Stop(c) \/ RemoveDeadServers(c) \/ ComputeState(c) \/ ComputeGather(c)
  \/ \E e \in Execs :
       \/ CancelContext(e) \/ TryLockFails(e) \/ ReconcileTick(e) \/ RemoveDeadTrigger(e)
       \/ ContextDone(e) \/ Reconciled(e) \/ Pruned(e) \/ Join(e) \/ UnlockState(e)
       \/ UpdateTick(e) \/ UpdaterExit(e)
  \/ \E p \in Actors : ReadState(p) \/ GatherInputs(p)
  \/ UNCHANGED vars

\* A silent step moves a goroutine within one role, acting or not.
LEMMA SilentUnseen ==
  ASSUME IInv, SilentStep
  PROVE  Unseen
<1> USE NamesDistinct DEF IInv, TypeOK, Leadership, Acting, Leading, Done, Actors, Unseen,
        execVars, lockVars, callVars, updVars
<1>1. ASSUME NEW c \in Callers, NEW e \in Execs, CallStart(c, e) PROVE Unseen
  BY <1>1 DEF CallStart
<1>2. ASSUME NEW c \in Callers, StartIgnored(c) PROVE Unseen
  BY <1>2 DEF StartIgnored
<1>3. ASSUME NEW c \in Callers, StartExec(c) PROVE Unseen
  BY <1>3 DEF StartExec, DoneMeansQuiet, Reserved
<1>4. ASSUME NEW c \in Callers, StartTimeout(c) PROVE Unseen
  BY <1>4 DEF StartTimeout
<1>5. ASSUME NEW c \in Callers, StartUpdated(c) PROVE Unseen
  BY <1>5 DEF StartUpdated
<1>6. ASSUME NEW c \in Callers, StartSpawn(c) PROVE Unseen
  BY <1>6 DEF StartSpawn, Reserved
<1>7. ASSUME NEW c \in Callers, Stop(c) PROVE Unseen
  BY <1>7 DEF Stop, IsRunning
<1>8. ASSUME NEW c \in Callers, RemoveDeadServers(c) PROVE Unseen
  BY <1>8 DEF RemoveDeadServers
<1>9. ASSUME NEW c \in Callers, ComputeState(c) PROVE Unseen
  BY <1>9 DEF ComputeState
<1>10. ASSUME NEW c \in Callers, ComputeGather(c) PROVE Unseen
  BY <1>10 DEF ComputeGather
<1>11. ASSUME NEW e \in Execs, CancelContext(e) PROVE Unseen
  BY <1>11 DEF CancelContext
<1>12. ASSUME NEW e \in Execs, TryLockFails(e) PROVE Unseen
  BY <1>12 DEF TryLockFails
<1>13. ASSUME NEW e \in Execs, ReconcileTick(e) PROVE Unseen
  BY <1>13 DEF ReconcileTick
<1>14. ASSUME NEW e \in Execs, RemoveDeadTrigger(e) PROVE Unseen
  BY <1>14 DEF RemoveDeadTrigger
<1>15. ASSUME NEW e \in Execs, ContextDone(e) PROVE Unseen
  BY <1>15 DEF ContextDone
<1>16. ASSUME NEW e \in Execs, Reconciled(e) PROVE Unseen
  BY <1>16 DEF Reconciled
<1>17. ASSUME NEW e \in Execs, Pruned(e) PROVE Unseen
  BY <1>17 DEF Pruned
<1>18. ASSUME NEW e \in Execs, Join(e) PROVE Unseen
  BY <1>18 DEF Join
<1>19. ASSUME NEW e \in Execs, UnlockState(e) PROVE Unseen
  BY <1>19 DEF UnlockState
<1>20. ASSUME NEW e \in Execs, UpdateTick(e) PROVE Unseen
  BY <1>20 DEF UpdateTick, BeginUpdate
<1>21. ASSUME NEW e \in Execs, UpdaterExit(e) PROVE Unseen
  BY <1>21 DEF UpdaterExit
<1>22. ASSUME NEW p \in Actors, ReadState(p) PROVE Unseen
  BY <1>22 DEF ReadState
<1>23. ASSUME NEW p \in Actors, GatherInputs(p) PROVE Unseen
  BY <1>23 DEF GatherInputs
<1>24. ASSUME UNCHANGED vars PROVE Unseen
  BY <1>24 DEF vars
<1> QED
  BY <1>1, <1>2, <1>3, <1>4, <1>5, <1>6, <1>7, <1>8, <1>9, <1>10, <1>11, <1>12, <1>13,
     <1>14, <1>15, <1>16, <1>17, <1>18, <1>19, <1>20, <1>21, <1>22, <1>23, <1>24
     DEF SilentStep

\* Every step is a step of Tenure or leaves its variables alone.  Taking
\* leaderLock is taking over; SetState remembers unless the state already
\* has a first state time; ForgetState, Finish and ReleaseLeader are the end
\* of an execution that managed, Abort that of one that did not; the end of
\* its update is where a Start steps down.
LEMMA StepTenure ==
  ASSUME RInv, [Next]_vars
  PROVE  [T!Next]_(T!vars)
<1>0. IInv /\ IInv' /\ ManagerActs /\ ManagerActs'
  BY StepRInv, ActorManages, ActorManagesNext DEF RInv
<1>1. Unseen => UNCHANGED T!vars
  BY <1>0, SameManager DEF Unseen, T!vars
<1>2. ASSUME NEW c \in Callers, StartTryLock(c) PROVE T!TakeOver(c)
  <2>1. Acting(c)' /\ c \in Actors
    BY <1>0, <1>2 DEF StartTryLock, BeginUpdate, Acting, IInv, TypeOK, Actors
  <2>2. Manager = None /\ Manager' = c
    BY <1>0, <1>2, <2>1, FreeLock DEF StartTryLock, ManagerActs
  <2> QED
    BY <1>2, <2>2, NamesDistinct DEF StartTryLock, execVars, T!TakeOver, Done
<1>3. ASSUME NEW e \in Execs, TryLock(e) PROVE T!TakeOver(e)
  <2>1. Acting(e)' /\ e \in Actors
    BY <1>0, <1>3 DEF TryLock, Acting, Leading, IInv, TypeOK, Actors
  <2>2. Manager = None /\ Manager' = e
    BY <1>0, <1>3, <2>1, FreeLock DEF TryLock, ManagerActs
  <2>3. e \notin Done
    BY <1>0, <1>3 DEF TryLock, IInv, DoneMeansQuiet, Done
  <2> QED
    BY <1>3, <2>2, <2>3 DEF TryLock, execVars, T!TakeOver, Done
<1>4. ASSUME NEW e \in Execs, Abort(e) PROVE T!Report(e)
  <2>1. ~Acting(e) /\ \A q \in Actors : Acting(q)' <=> Acting(q)
    BY <1>0, <1>4, NamesDistinct
       DEF Abort, FinishExecution, callVars, lockVars, updVars, Acting, Leading, IInv,
           TypeOK, Leadership, Actors
  <2>2. Manager' = Manager /\ Manager # e
    BY <1>0, <2>1, SameManager, NamesDistinct DEF ManagerActs, Actors
  <2>3. e \notin Done
    BY <1>0, <1>4 DEF Abort, IInv, DoneMeansQuiet, Done
  <2>4. Done' = Done \cup {e} /\ state' = state
    BY <1>0, <1>4 DEF Abort, FinishExecution, Done, IInv, TypeOK
  <2> QED
    BY <2>2, <2>3, <2>4 DEF T!Report
<1>5. ASSUME NEW e \in Execs, ForgetState(e) PROVE T!Forget(e)
  <2>1. Acting(e) /\ e \in Actors /\ \A q \in Actors : Acting(q)' <=> Acting(q)
    BY <1>0, <1>5, NamesDistinct
       DEF ForgetState, callVars, updVars, Acting, Leading, IInv, TypeOK, Leadership, Actors
  <2>2. Manager' = Manager /\ Manager = e
    BY <1>0, <2>1, SameManager DEF ManagerActs
  <2>3. e \notin Done /\ Done' = Done /\ state' = None
    BY <1>0, <1>5 DEF ForgetState, execVars, IInv, DoneMeansQuiet, Done
  <2> QED
    BY <2>2, <2>3 DEF T!Forget
<1>6. ASSUME NEW e \in Execs, Finish(e) PROVE T!Report(e)
  <2>1. \A q \in Actors : Acting(q)' <=> Acting(q)
    BY <1>0, <1>6, NamesDistinct
       DEF Finish, FinishExecution, callVars, lockVars, updVars, Acting, Leading, IInv,
           TypeOK, Leadership, Actors
  <2>2. Manager' = Manager
    BY <1>0, <2>1, SameManager
  <2>3. e \notin Done /\ state = None
    BY <1>0, <1>6 DEF Finish, RInv, CleanupOrder, IInv, DoneMeansQuiet, Done
  <2>4. Done' = Done \cup {e} /\ state' = state
    BY <1>0, <1>6 DEF Finish, FinishExecution, Done, IInv, TypeOK
  <2> QED
    BY <2>2, <2>3, <2>4 DEF T!Report
<1>7. ASSUME NEW e \in Execs, ReleaseLeader(e) PROVE T!StepDown(e)
  <2>1. Acting(e) /\ e \in Actors /\ leaderLock' = None
    BY <1>0, <1>7 DEF ReleaseLeader, Acting, Leading, Actors
  <2>2. Manager = e
    BY <1>0, <2>1 DEF ManagerActs
  <2>3. leaderLock = e
    BY <1>0, <2>1, ActingHoldsLock DEF IInv
  <2>4. \A q \in Actors : Acting(q)' => leaderLock' = q
    BY <1>0, NamesDistinct DEF IInv, TypeOK, Leadership, Acting, Actors, Leading
  <2>5. Manager' = None
    BY <1>0, <2>1, <2>4, NamesDistinct DEF ManagerActs, Actors
  <2>6. e \in Done /\ Done' = Done /\ state' = state
    BY <1>7 DEF ReleaseLeader, execVars, RInv, CleanupOrder, Done
  <2> QED
    BY <2>2, <2>5, <2>6 DEF T!StepDown
<1>8. ASSUME NEW p \in Actors, GatherFails(p) \/ Notified(p) PROVE Unseen \/ T!StepDown(p)
  <2>1. Acting(p) /\ state' = state /\ Done' = Done
    BY <1>8 DEF GatherFails, Notified, Acting, Done, execVars
  <2>2. \A q \in Actors \ {p} : Acting(q)' <=> Acting(q)
    BY <1>0, <1>8 DEF GatherFails, Notified, EndUpdate, Acting, IInv, TypeOK, callVars
  <2>3. CASE p \in Execs
    <3>1. Acting(p)'
      BY <1>0, <1>8, <2>1, <2>3, NamesDistinct
         DEF GatherFails, Notified, EndUpdate, Acting, IInv, TypeOK, Leadership, Leading, callVars
    <3> QED
      BY <2>1, <2>2, <3>1 DEF Unseen
  <2>4. CASE p \in Callers
    <3>1. p \notin Execs /\ ~Acting(p)'
      BY <1>0, <1>8, <2>4, NamesDistinct
         DEF GatherFails, Notified, EndUpdate, Acting, IInv, TypeOK, Actors
    <3>2. \A q \in Actors : Acting(q) => q = p
      BY <1>0, <2>1, LeadershipOneLeader DEF OneLeader, IInv
    <3>3. Manager = p /\ Manager' = None
      BY <1>0, <2>1, <2>2, <3>1, <3>2 DEF ManagerActs
    <3> QED
      BY <2>1, <3>1, <3>3 DEF T!StepDown
  <2> QED
    BY <2>3, <2>4 DEF Actors
<1>9. ASSUME NEW p \in Actors, SetState(p) PROVE Unseen \/ T!Remember(p)
  <2>1. Acting(p) /\ Done' = Done /\ \A q \in Actors : Acting(q)' <=> Acting(q)
    BY <1>0, <1>9 DEF SetState, Acting, Done, execVars, callVars, IInv, TypeOK
  <2>2. Manager = p /\ Manager' = Manager
    BY <1>0, <2>1, SameManager DEF ManagerActs
  <2>3. state' = IF state = None THEN Session(p) ELSE state
    BY <1>9 DEF SetState, RInv, FirstKept, FirstStateOf
  <2>4. CASE state # None
    BY <2>1, <2>3, <2>4 DEF Unseen
  <2>5. CASE state = None
    <3>1. Session(p) \in Execs /\ Session(p) \notin Done /\ (p \in Execs => Session(p) = p)
      BY <1>0, <1>9, NamesDistinct
         DEF SetState, Session, IInv, TypeOK, Reserved, Leadership, DoneMeansQuiet, Done, Actors
    <3> QED
      BY <2>1, <2>2, <2>3, <2>5, <3>1 DEF T!Remember
  <2> QED
    BY <2>4, <2>5
<1>10. SilentStep => UNCHANGED T!vars
  BY <1>0, <1>1, SilentUnseen
<1> QED
  BY <1>1, <1>2, <1>3, <1>4, <1>5, <1>6, <1>7, <1>8, <1>9, <1>10
     DEF SilentStep, Next, StartStep, MainStep, UpdaterStep, UpdateStep, T!Next, Actors

\* The life cycle implements Tenure, for any number of executions and
\* callers and however they interleave.
THEOREM Refinement == Spec => ImplementsTenure
<1>1. ASSUME Init PROVE T!Init
  <2>1. \A p \in Actors : ~Acting(p)
    BY <1>1, NamesDistinct DEF Init, Acting, Leading, Actors
  <2>2. Manager = None
    BY <2>1 DEF Manager
  <2>3. state = None /\ Done = {}
    BY <1>1 DEF Init, Done
  <2> QED
    BY <2>2, <2>3 DEF T!Init
<1>2. RInv /\ [Next]_vars => [T!Next]_(T!vars)
  BY StepTenure
<1>3. RInv /\ [Next]_vars => RInv'
  BY StepRInv
<1> QED
  BY <1>1, <1>2, <1>3, InitRInv, PTL DEF Spec, ImplementsTenure, T!Spec
=============================================================================
