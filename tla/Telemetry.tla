----------------------------- MODULE Telemetry ------------------------------
(***************************************************************************)
(* What a health verdict is worth: how an update of the state reads the    *)
(* last index, the role and the term of the server it runs on one after    *)
(* the other, fetches the statistics of the others afterwards, keeps the   *)
(* old ones of those that do not answer in time (gatherNextStateInputs and *)
(* buildServerState, state.go), and what isHealthy (types.go) makes of it  *)
(* in uint64 arithmetic, while Raft elects, appends and replicates.        *)
(*                                                                         *)
(* All servers are in the Raft configuration; Stability models how they    *)
(* come and go.  Raft is external: logs are sequences of terms, replicated *)
(* entry by entry from the leader.                                         *)
(***************************************************************************)
EXTENDS Integers, Sequences, FiniteSets, SequencesExt

CONSTANTS
  Servers,         \* server IDs
  Self,            \* the server autopilot runs on
  None,            \* no statistics
  TrailingLimits,  \* values of MaxTrailingLogs
  Width,           \* 2^64: the number of values of a uint64
  MaxIndex,        \* bound on the length of a log
  MaxTerm          \* bound on the terms

ASSUME ServersAssumption == Self \in Servers /\ None \notin Servers /\ IsFiniteSet(Servers)
ASSUME BoundsAssumption ==
  /\ Width \in Nat /\ MaxIndex \in 0..(Width - 1) /\ MaxTerm \in Nat \ {0}
  /\ TrailingLimits \subseteq 0..(Width - 1)

VARIABLES
  log,       \* the terms of the entries in each server's log
  leader,    \* the Raft leader
  term,      \* its term
  maxTrailingLogs,
             \* from AutopilotConfig
  stats,     \* the statistics in the published State
  health,    \* Healthy in the published State
  upc,       \* where updateState is
  inputs,    \* what it has read
  fetched,   \* the statistics that have come
  close,     \* history: who kept up when LatestIndex was read, with a leader whose
             \* log has seen no new term since
  steady,    \* history: there was no election since LatestIndex was read
  measure,   \* history: the position of the leader the published health is about
  shaken     \* history: whose published health is older than an election, or is
             \* based on statistics or an index older than that

vars == <<log, leader, term, maxTrailingLogs, stats, health, upc, inputs, fetched, close,
          steady, measure, shaken>>
raftVars == <<log, leader, term, maxTrailingLogs>>
histVars == <<close, steady, measure, shaken>>

\* LastTerm and LastIndex of a log.
LastEntry(l) == [term |-> IF l = <<>> THEN 0 ELSE Last(l), index |-> Len(l)]

ZeroStats == LastEntry(<<>>)

ZeroInputs == [leaderID |-> None, latestIndex |-> 0, isLeader |-> FALSE, lastTerm |-> 0]

NothingFetched == [s \in Servers |-> None]

Init ==
  /\ log = [s \in Servers |-> <<>>]
  /\ leader \in Servers
  /\ term = 1
  /\ maxTrailingLogs \in TrailingLimits
  /\ stats = [s \in Servers |-> ZeroStats]
  /\ health = [s \in Servers |-> FALSE]
  /\ upc = "idle" /\ inputs = ZeroInputs /\ fetched = NothingFetched
  /\ close = {} /\ steady = FALSE /\ measure = ZeroStats /\ shaken = {}

-----------------------------------------------------------------------------
(* gatherNextStateInputs.                                                  *)

\* s is in the leader's last term and not more than MaxTrailingLogs behind.
KeepsUp(s) ==
  /\ Len(log[leader]) > 0
  /\ LastEntry(log[s]).term = LastEntry(log[leader]).term
  /\ Len(log[s]) + maxTrailingLogs >= Len(log[leader])

\* The leader as the application or Raft know it, and LastIndex.
ReadIndex ==
  /\ upc = "idle"
  /\ inputs' = [ZeroInputs EXCEPT !.leaderID = leader, !.latestIndex = Len(log[Self])]
  /\ upc' = "role"
  /\ close' = {s \in Servers : KeepsUp(s)} /\ steady' = TRUE
  /\ UNCHANGED <<raftVars, stats, health, fetched, measure, shaken>>

ReadRole ==
  /\ upc = "role"
  /\ inputs' = [inputs EXCEPT !.isLeader = (leader = Self)]
  /\ upc' = "term"
  /\ UNCHANGED <<raftVars, stats, health, fetched, histVars>>

ReadTerm ==
  /\ upc = "term"
  /\ inputs' = [inputs EXCEPT !.lastTerm = LastEntry(log[Self]).term]
  /\ upc' = "fetch"
  /\ UNCHANGED <<raftVars, stats, health, fetched, histVars>>

\* FetchServerStats: a server answers with its position at that moment.
Answer(s) ==
  /\ upc = "fetch"
  /\ fetched[s] = None
  /\ fetched' = [fetched EXCEPT ![s] = LastEntry(log[s])]
  /\ UNCHANGED <<raftVars, stats, health, upc, inputs, histVars>>

Reset ==
  /\ upc' = "idle" /\ inputs' = ZeroInputs /\ fetched' = NothingFetched
  /\ close' = {} /\ steady' = FALSE

\* The context is cancelled, or the term cannot be read.
GatherFails ==
  /\ upc \in {"term", "fetch"}
  /\ Reset
  /\ UNCHANGED <<raftVars, stats, health, measure, shaken>>

-----------------------------------------------------------------------------
(* buildServerState and isHealthy.                                         *)

\* The position of the leader: this server's own as it was read, that in the
\* leader's statistics if they came, or zero.
LeaderEntry ==
  IF inputs.isLeader THEN [term |-> inputs.lastTerm, index |-> inputs.latestIndex]
  ELSE IF inputs.leaderID \in {s \in Servers : fetched[s] # None} THEN fetched[inputs.leaderID]
  ELSE ZeroStats

\* Mutant: a leader without a position is taken for one at the start.
BootstrappedAlways(leaderEntry) == TRUE

Bootstrapped(leaderEntry) == leaderEntry.index # 0 /\ leaderEntry.term # 0

\* Mutant: the difference is taken instead of the sum.
FallenBehindByDifference(st, leaderEntry) ==
  (leaderEntry.index - st.index) % Width > maxTrailingLogs

FallenBehind(st, leaderEntry) == (st.index + maxTrailingLogs) % Width < leaderEntry.index

\* Mutant: statistics from any term will do.
IsHealthyAnyTerm(st, leaderEntry, well) ==
  /\ Bootstrapped(leaderEntry)
  /\ well
  /\ st.term # 0
  /\ ~FallenBehind(st, leaderEntry)

\* well stands for a NodeStatus of NodeAlive and a LastContact that is not
\* negative and within LastContactThreshold.
IsHealthy(st, leaderEntry, well) ==
  /\ Bootstrapped(leaderEntry)
  /\ well
  /\ st.term = leaderEntry.term
  /\ ~FallenBehind(st, leaderEntry)

\* Mutant: statistics are used without asking whether they came.
StatsOfUnchecked(s) == fetched[s]

\* Statistics that did not come are those of the previous state.
StatsOf(s) == IF fetched[s] = None THEN stats[s] ELSE fetched[s]

\* The new state is published; well are the servers that are alive and in
\* contact, which depends on the application and the configuration by now.
Publish(well) ==
  /\ upc = "fetch"
  /\ stats' = [s \in Servers |-> StatsOf(s)]
  /\ health' = [s \in Servers |-> IsHealthy(StatsOf(s), LeaderEntry, s \in well)]
  /\ measure' = LeaderEntry
  /\ shaken' = IF steady THEN {s \in shaken : fetched[s] = None} ELSE Servers
  /\ Reset
  /\ UNCHANGED raftVars

-----------------------------------------------------------------------------
(* Raft.                                                                   *)

AtLeast(e, f) == e.term > f.term \/ (e.term = f.term /\ e.index >= f.index)

Extend ==
  /\ Len(log[leader]) < MaxIndex
  /\ log' = [log EXCEPT ![leader] = @ \o <<term>>]
  /\ close' = IF LastEntry(log[leader]).term = term THEN close ELSE {}
  /\ UNCHANGED <<leader, term, maxTrailingLogs, stats, health, upc, inputs, fetched, steady,
                 measure, shaken>>

\* A follower takes the leader's entries up to the n-th; what it has of the
\* same entries stays and what conflicts goes.
Replicate(s, n) ==
  /\ n \in 1..Len(log[leader])
  /\ ~IsPrefix(SubSeq(log[leader], 1, n), log[s])
  /\ log' = [log EXCEPT ![s] = SubSeq(log[leader], 1, n)]
  /\ UNCHANGED <<leader, term, maxTrailingLogs, stats, health, upc, inputs, fetched, histVars>>

\* A server whose log is up to date for a majority is elected.
Elect(s) ==
  /\ term < MaxTerm
  /\ LET votes == {t \in Servers : AtLeast(LastEntry(log[s]), LastEntry(log[t]))}
     IN 2 * Cardinality(votes) > Cardinality(Servers)
  /\ leader' = s /\ term' = term + 1
  /\ close' = {} /\ steady' = FALSE /\ shaken' = Servers
  /\ UNCHANGED <<log, maxTrailingLogs, stats, health, upc, inputs, fetched, measure>>

UpdateStep ==
  \/ ReadIndex
  \/ ReadRole
  \/ ReadTerm
  \/ \E s \in Servers : Answer(s)
  \/ GatherFails
  \/ \E well \in SUBSET Servers : Publish(well)

RaftStep ==
  \/ Extend
  \/ \E s \in Servers : \E n \in 1..MaxIndex : Replicate(s, n)
  \/ \E s \in Servers : Elect(s)

Next == UpdateStep \/ RaftStep

Spec == Init /\ [][Next]_vars

-----------------------------------------------------------------------------
(* Properties.                                                             *)

Positions == [term : 0..MaxTerm, index : 0..MaxIndex]

\* Every variable has the type of what it models.
TypeOK ==
  /\ log \in [Servers -> Seq(1..MaxTerm)]
  /\ \A s \in Servers : Len(log[s]) <= MaxIndex
  /\ leader \in Servers
  /\ term \in 1..MaxTerm
  /\ maxTrailingLogs \in TrailingLimits
  /\ stats \in [Servers -> Positions]
  /\ health \in [Servers -> BOOLEAN]
  /\ upc \in {"idle", "role", "term", "fetch"}
  /\ inputs \in [leaderID : Servers \cup {None}, latestIndex : 0..MaxIndex,
                 isLeader : BOOLEAN, lastTerm : 0..MaxTerm]
  /\ fetched \in [Servers -> Positions \cup {None}]
  /\ close \subseteq Servers
  /\ steady \in BOOLEAN
  /\ measure \in Positions
  /\ shaken \subseteq Servers

\* A server published as healthy, on statistics that may be several updates
\* old, is no further behind than MaxTrailingLogs allows: unless there was an
\* election meanwhile, its log has reached the leader's term and come that
\* close to the leader's index, as they were read for the verdict.  The sum
\* in isHealthy may wrap around, but never in favour of a server.
HealthyIsCurrent ==
  \A s \in Servers : health[s] /\ s \notin shaken =>
    LET e == LastEntry(log[s])
    IN \/ e.term > measure.term
       \/ e.term = measure.term /\ e.index + maxTrailingLogs >= measure.index

\* A server that has nothing in its log, or whose statistics never came, is
\* not healthy, whatever is known of the leader.
SilentNeverHealthy == \A s \in Servers : stats[s] = ZeroStats => ~health[s]

\* On the leader, a server that keeps up and answers is not called unhealthy
\* for entries appended while the answers were on their way: LastIndex is
\* read first, so the others can only look better than they were.  Where the
\* sum wraps around this does not hold.
NoFalseAlarm ==
  [][\A well \in SUBSET Servers : Publish(well) /\ inputs.isLeader =>
       \A s \in close \cap well :
         fetched[s] # None /\ fetched[s].index + maxTrailingLogs < Width => health'[s]]_vars
=============================================================================
