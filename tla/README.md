# raft-autopilot in TLA+

raft-autopilot manages the membership of a Raft cluster from the node that leads
it: it keeps a picture of every server's health, promotes and demotes servers on
the advice of a *promoter*, and prunes servers that failed or that the application
has forgotten. This directory holds a TLA+ model of it, TLC configurations that
check it on small instances, and TLAPS proofs that hold for any instance.
Module names are in **bold**, everything else keeps the names of the Go code.

## The system

| Part | State | Operations | What is hard |
|---|---|---|---|
| Execution life cycle (`run.go`, `mutex.go`, `autopilot.go`) | `execution` and its status, `execLock`, `leaderLock`, `stateLock`, `removeDeadCh` | `Start`, `Stop`, `IsRunning`, `RemoveDeadServers`, the goroutines `beginExecution` and `runStateUpdater` | Start/Stop/cancel in any order, two executions overlapping, three locks taken in different orders |
| State computation (`state.go`, `types.go`) | `a.state`: first state time, per server role, statistics, health, `StableSince` | `updateState`, `nextState`, `ComputeState` | long unlocked gap between reading inputs and publishing; statistics missing or late; servers that come and go |
| Promoter (`stable_promoter.go`) | none | `CalculatePromotionsAndDemotions`, `FilterFailedServerRemovals`, `IsPotentialVoter` | depends on two clocks: server and session |
| Reconciliation (`reconcile.go` 14-188) | locals of a round | demote one failed server, promote, demote, transfer leadership | works from a snapshot; any call may fail; order of voter changes |
| Pruning (`reconcile.go` 190-379, registry in `types.go`) | locals of a round, the voter registry | four lists adjudicated and removed in four phases | Raft and the application are read at different times; removals are partly asynchronous; counting |
| Membership helpers (`raft.go`) | none | `AddServer`, `RemoveServer` | decide from a configuration that may have changed |
| Application and Raft (interfaces in `types.go`) | configuration, known servers, leader | external | change at any time, calls fail |

The application calls `Start` when its node gains leadership and `Stop` when it
loses it. `beginExecution` takes `leaderLock`, starts `runStateUpdater`, which
publishes a new `a.state` at every tick, and itself alternates `reconcile` and
`pruneDeadServers`, both reading `a.state` and calling Raft and the application.
When its context ends it waits for its child, forgets `a.state`, reports itself
done and releases `leaderLock`.

What makes the parts correct: one goroutine family at a time acts on the cluster,
an execution that says it has ended is quiet, nothing of one leadership session
leaks into the next (life cycle); the failure tolerance is what it claims and a
server is promoted only on grounds it has earned (state and promoter); a round
never weakens the quorum it found while it promotes, and keeps its hands off
leadership when it changes voters (reconciliation); healthy members are never
removed, the quorum is respected and stale servers do go (pruning); an addition that
is cut short anywhere leaves a majority of the voters it found and can be retried
(membership); a server called healthy is as close to the leader as the configuration
asks, and one that keeps up is not called unhealthy (statistics).

## Modules

**Lifecycle** models `run.go`, `mutex.go` and the order of reads and writes of
`a.state`. Callers run the public methods; each launched execution has a main
goroutine (`mpc`) and an updater (`upc`); `upd` is where an actor is in
`updateState`. A lock is a variable where it is held over several steps and part
of a single step elsewhere. The state is abstracted to the session whose first
state time it holds. `reconcile` and `pruneDeadServers` are opaque here.

**Tenure** is what the life cycle promises, without locks, goroutines and contexts:
one manager at a time, a memory that only the manager writes, and executions that
forget, report that they are done and step down, in this order and once.
`ImplementsTenure` in **Lifecycle** is the refinement: the manager is whoever acts
(`Acting`: a `Start` inside its `updateState`, or an execution from when it has
`leaderLock` until it releases it), the memory is the first state time, and an
execution has ended when its status says so.

**Prune** models a round of `pruneDeadServers` at the grain of its external calls:
reading Raft, reading `KnownServers`, each turn of `adjudicateRemoval`'s loop, each
removal. Between any two the application may change what it knows, its
configuration, or Raft. `lapsed` and `floor` are history variables.

**Stability** models how states follow each other: an update reads its inputs
(`Gather`), the statistics come later (`Publish`), and `reconcile` with the
StablePromoter works from what is published, under a clock, membership and leader
changes and the end of sessions. It takes from **Lifecycle** that sessions do not
overlap (`OneLeader`) and that an update replaces the state it was computed from
(`UpdateSeesOneState`). Whether statistics pass the three thresholds of
`isHealthy` is chosen at each update, except that zero statistics never pass, which is
`SilentNeverHealthy` of **Telemetry**. `absentAt`, `unwellAt` and `began` are history
variables. **Order** has `ServerLessThan` and what `SortServers` may return: voters
are collected from a map, in any order, and `sort.Slice` is not stable.

**Telemetry** models the part of an update that **Stability** leaves open: `LastIndex`,
role and term are read one after the other, each server answers with its own position
later or not at all, old statistics are kept, and `isHealthy` adds in `uint64` (modulo
`Width`). Raft elects, appends and replicates in between; its logs are sequences of
terms. Contact and node status are a free choice (`well`). `close`, `steady`, `measure`
and `shaken` are history variables: they say which verdicts an election has overtaken.

**Reconcile** models a round of `reconcile` for any promoter, from a snapshot, with
failing calls and concurrent changes. The promoter's lists are sets taken in any
order, filtered by what `applyPromotions` and `applyDemotions` ignore.

**Membership** models `AddServer` and `RemoveServer` at the grain of their calls to
Raft, for several callers, while states are published and `reconcile` promotes (with
the address of the published state) and demotes. Any call may fail and end the
operation. `base` is a history variable, the configuration an addition has read, for
as long as nobody else has changed it; `entitled` is another, the servers that have
been voters, or staged, from the start, or promoted.

Each state machine has an **MC** module with the constants, initial states and
symmetries of its runs. **LifecycleProofs**, **PruneProofs**, **ReconcileProofs**,
**StabilityProofs**, **OrderProofs**, **TelemetryProofs** and **MembershipProofs** hold the
theorems. A definition whose
comment begins with "Mutant:" is a broken variant of the definition after it; it is
no part of the specification and serves to show that a property can fail.

## Runs

| Run | Checks | Bounds |
|---|---|---|
| `LifecycleSafety` | `TypeOK`, `OneLeader`, `UpdateSeesOneState`, `DoneMeansQuiet`, `LeaderStateForgotten`, `WaitingEnds`, `ImplementsTenure` | three executions, two callers: one ending, one waiting for the lock, one starting |
| `LifecycleLive` | `StartReturns`, `ShutdownCompletes`, `NewExecutionTakesOver`, `TriggerServed` | three executions and one caller: the lock cycle behind `StartReturns` needs a leader, an aborted execution and a new one. Contexts end by `Stop` only, and the trigger is used up before the third `Start`. Executions are used up, so the system may stop |
| `PruneSafety` | `TypeOK`, `RoundKeepsQuorum`, `MinorityRemoved`, `NoNilEligibility`, `OnlyLapsedRemoved` | three servers of which one is no potential voter, `MinQuorum` 0 or 2, three outside changes (leave, rejoin, change the configuration); the theorems cover larger clusters |
| `PruneLive` | `StaleNonVoterPruned` | three servers, one outside change |
| `StabilitySafety` | `TypeOK`, `ToleranceExact`, `VotersStable`, `PromotionJustified` | the leader and one other server, stabilization time 1, clock to 4, two outside changes: leaving and coming back, or a new session. Promotion looks at one server at a time; the leader stays well |
| `ReconcileSafety` | `TypeOK`, `MarginKept`, `TransferAlone`, `PromotionsAlmostAlone` | three servers with any suffrage and health, any proposal that names no server for both directions, one outside change |
| `MembershipSafety` | `TypeOK`, `QuorumSurvives`, `RetryAccepted`, `VoteEarned`, `AdditionExact` | every configuration of five servers at two addresses, so that up to two of five voters share the new one's address and a third is refused; two calls, promotions or demotions, by two callers: any of them falls between any two steps of the other. The theorems cover longer histories |
| `TelemetrySafety` | `TypeOK`, `HealthyIsCurrent`, `SilentNeverHealthy`, `NoFalseAlarm` | three servers, so that a majority can elect without the third; two terms, logs of two entries, `uint` of three values with `MaxTrailingLogs` 0 or 2, so that the sum wraps. The statistics of one server never come (`BystanderSilent`): health is judged one server at a time |

The other runs show, each with a counterexample, that the code does not do what a
comment says:

| Run | What happens |
|---|---|
| `LifecycleNotRunning` | Start, Stop, Start, Stop: the second execution gives up on `leaderLock` and marks the instance not running while the first still acts |
| `LifecycleRestart` | an execution cancelled before it got `leaderLock` leaves behind the state its `Start` made, and the next session inherits its first state time |
| `PruneMajority` | stale voters are not counted by the cap, so a majority of voters goes in one phase |
| `StabilityPromoted` | `previousHealthy` aliases the new health, so `StableSince` never moves after a server is first seen, and a server is promoted at once after an unhealthy spell |

What else was met, modelled as the code has it:

- `Start` between the cancellation of a context and the end of its goroutines is
  dropped (`run.go:19`); `ComputeState` reads `a.state` without the lock while it may be
  written (`state.go:88`).
- Removals handed to the application are not counted as made, so two rounds of pruning
  together can go below `MinQuorum` (`reconcile.go:317`, against the comment at 266).
- A round may demote a failed server and promote (`reconcile.go:40`, against 122); a
  staging server is demoted although it has no voting rights (`reconcile.go:155`,
  against 138).
- A server whose statistics did not come keeps the old ones and may stay healthy
  (`state.go:374`, against the comment at 169): `HealthyIsCurrent` says what that is
  still worth. On a node that does not lead, the leader's position comes from
  statistics too, taken at another moment than the others'; `NoFalseAlarm` is about the
  leader.
- `LastIndex + MaxTrailingLogs` wraps around and makes a server unhealthy that is not
  behind (`types.go:135`); `HealthyIsCurrent` shows that it never errs the other way.
- Of two unhealthy servers the one stable for longer sorts last (`state.go:457`), while
  the fourth rule in the comment at 435 makes no difference by health.
- Between the read of `AddServer` and its calls, a voter that was removed comes back as
  a voter with the new address, a non-voter that was promoted is removed without having
  been counted, and two additions may together remove more than a minority: each counts
  its own removals (`raft.go:84`). A promotion carries the address of the state it was
  computed from and undoes an update made meanwhile (`reconcile.go:115`).

The bounds are the constants of each `.cfg`; `MaxChanges` and `MaxTime` bound what
happens outside the component in one behaviour, `Execs` the number of `Start` calls
that launch something.

### Fairness

**Lifecycle**: weak fairness for `Start`, for `updateState` and for the main
goroutine's own steps: a goroutine that can run does, and the calls it makes return.
Strong fairness for a `select` case that is ready again and again (context done,
trigger): Go's `select` chooses at random among ready cases, while a ticker may be
ready each time. The application's calls and the tickers are not fair.

**Prune**: weak fairness of the round, as the ticker keeps firing; strong fairness of
reading the configuration and of each removal, i.e. Raft does not refuse the same call
for ever. Without the latter nothing could be promised about what is removed.

## Proofs

**LifecycleProofs**, for any sets of executions and callers. `IInv` joins `TypeOK` with
`Reserved` (an execution's name is given to one `Start` and its program counter agrees),
`Leadership` (whoever is leading, has a running updater, or runs an update holds
`leaderLock`; whoever is in a `stateLock` section holds it), and the three properties
about updates, ended executions and forgotten state. `OneLeader` follows as
`leaderLock` has one holder. `Leadership` is what makes the rest inductive: that nobody
else writes the state between an update's read and its publication is only true because
every writer holds `leaderLock`. For the refinement (`Refinement`), `RInv` adds to it that
what an update is about to publish keeps the first state time, and the order of the
deferred cleanup; then every step of **Lifecycle** is shown to be a step of **Tenure** by
the same actor or to leave its three variables alone. `WaitingEnds` needs one part more,
`Owned`: a lock is in the hands of a goroutine in the section that ends with releasing it.
Then whoever holds `stateLock` either waits for nothing or is a cleanup waiting for
`execLock`, and its holder is a `Start` that waits for `leaderLock` with a timeout: it
cannot be waiting for `stateLock`, since for that it would need the `leaderLock` that the
cleanup still holds. Were `leaderLock` released before the execution is finished, the
circle would close; that is the mutant of this property. What no theorem says is that those
who can go on do (`LifecycleLive`).

**PruneProofs**, for any finite cluster, any values of `MinQuorum` and any filter. The
inductive invariant ties the counters of `adjudicateRemoval` to the sets they count
(`removedPotentialVoters` is the number of potential voters in `result`, and so on),
places each list within the registry and its suffrage, and says that what is in a list
has lapsed. `RoundKeepsQuorum`, `MinorityRemoved`, `NoNilEligibility` and
`OnlyLapsedRemoved` follow for every round.

**OrderProofs**, for any states of servers with at most one leader: two different servers
are always ordered one way, the order is transitive although it turns around for
unhealthy servers, and the leader comes before all others. `SortedOnce` draws the
conclusion, that servers can be sorted in one way only, without induction over lists: in a
sorted list the servers before position n are those less than the one at n (`Below`), so
there are n-1 of them (`Rank`), and different servers have different numbers of servers
below them (`RankDecides`).

**MembershipProofs**, for any finite set of servers, any addresses and any number of
callers. `Planned` says what becomes of the configuration an undisturbed addition has
found: `Expected`, the one without the duplicates it no longer lists and, in the end,
with the server added; a caller whose base another one has changed has nothing to keep.
From it follow `AdditionExact` and, by counting (`Counting`: of V voters those in R are
to go and those in G have gone), `QuorumSurvives` and `RetryAccepted`. `Entitled` extends
`VoteEarned` to staging servers and to the votes an addition under way is about to
confirm, without which it is not inductive.

**ReconcileProofs**, for any finite cluster and any promoter, a contradictory one included
that names a server for both directions. `Phases` says what each part of a round may have
done: in particular that a failed server demoted before the promotions is still in the
list to demote after them, so that a round which reaches the transfer cannot have demoted
it (`TransferAlone`). `Accounted` says that as long as nobody else interferes the voters
are those of the snapshot, less the demoted, plus the promoted ones; `MarginKept` is then
arithmetic, since what is promoted is healthy and what is demoted is not.

**StabilityProofs**, for any finite cluster, stabilization time and clock. `Counted` ties
the tolerance to the servers of the same state. `UpdateTimes` says that an update publishes
with a time that is not before anything published, `StateTimes` that the session began with
its first state time and that a server in the state has not been absent since its
`StableSince`; `PromotionJustified` follows from these two. `Listed` says that a published
state has its voters sorted and at most one leader, whatever was read of Raft before; with
`SortedOnce` it gives `VotersStable`.

**TelemetryProofs**, for any finite set of servers, any number of terms, any length of logs
and any width of integers. None of the properties is inductive, and most of the invariant
is about what Raft's logs have in common; TLC checked it on the instance of
`TelemetrySafety` before it was proved. `LogInv`: terms never fall along a log, two logs
with the same term at an index agree up to it, and entries of the current term are the
leader's. `UpdateInv`: as long as there is no election, what an update has read of itself
and heard from the others is still true of their logs, or surpassed. The difficulty is that
a log may also get shorter, when the leader replaces entries it never had: `Seen` says what
is left of an answer then. `VerdictInv` carries the same over to the published statistics
and verdicts, for every server that no election has overtaken (`shaken`), and gives
`HealthyIsCurrent`; that the sum in `isHealthy` wraps around only ever lowers the limit.
`CloseInv` is about a server that was close to the leader when the update began, and gives
`NoFalseAlarm`. `SilentNeverHealthy` follows from `isHealthy` alone,
which asks for the leader's term and for one that is not 0.

Assumptions are the named `ASSUME`s of the modules: names are distinct, server sets
finite, bounds natural numbers, and at least one term. Every invariant and every action
property that a run checks is also proved, and so is the refinement. Model-checked only:
liveness, because weak and strong fairness are beyond the prover.

## Not modelled

Options, accessors (`GetServerHealth`, `NumVoters`) and logging, which change no state;
the generated mocks; the `Ext` fields, node types and metadata of servers, which are
carried along; the conversion of the term in Raft's statistics from a string, beyond
that it may fail; a delegate whose `AutopilotConfig` turns nil during a round. Raft and
the application are external and appear as the environment of each module.

## Plan

Done: **Lifecycle** with **Tenure**, **Prune**, **Stability** with **Order**, **Reconcile**,
**Membership** and **Telemetry**, checked and proved. Left: **Reconcile** and **Prune** taking
turns over one configuration, so that removals of one round meet the promotions of the next.
