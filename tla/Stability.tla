------------------------------ MODULE Stability ------------------------------
(***************************************************************************)
(* From observation to promotion: how a published State is computed from   *)
(* the previous one (state.go), what it records of each server's health    *)
(* and since when (types.go), and how reconcile promotes on the word of    *)
(* the StablePromoter (stable_promoter.go, reconcile.go), while the state  *)
(* updater, the reconciler, Raft and the application run concurrently.     *)
(*                                                                         *)
(* One leadership session follows another; Lifecycle shows that they do    *)
(* not overlap and that each update is computed from the state it          *)
(* replaces, so an update is two steps here: what it reads first, and the  *)
(* statistics that arrive last.                                            *)
(*                                                                         *)
(* Of a server's statistics the model keeps whether there are any.         *)
(* What isHealthy makes of them, within LastContactThreshold, in the       *)
(* leader's term and within MaxTrailingLogs of it, is chosen afresh with   *)
(* each update: the leader's index, its term and the thresholds move on.   *)
(* The zero ServerStats never pass, their term being 0.                    *)
(***************************************************************************)
EXTENDS Integers, Sequences, FiniteSets, Order

CONSTANTS
  Servers,     \* server IDs
  None,        \* no leader
  StabTime,    \* ServerStabilizationTime
  MaxTime,     \* bound on the clock
  MaxChanges   \* bound on what the application and Raft do of their own

ASSUME ServersAssumption == Servers \subseteq Nat /\ None \notin Servers /\ IsFiniteSet(Servers)
ASSUME TimeAssumption == StabTime \in Nat /\ MaxTime \in Nat \ {0} /\ MaxChanges \in Nat

VARIABLES
  now,        \* the clock; 0 is the zero time.Time
  cfg,        \* the suffrage of each server in the Raft configuration
  alive,      \* the servers KnownServers reports as NodeAlive
  leaderID,   \* the leader, as the application or Raft know it
  changes,    \* number of changes to these three so far, and of sessions ended
  state,      \* a.state
  upc,        \* where updateState is
  inputs,     \* what gatherNextStateInputs has read
  rpc,        \* where reconcile is
  toPromote,  \* promotions still to apply
  absentAt,   \* history: Now of the last published state without the server
  unwellAt,   \* history: Now of the last published state with it unhealthy
  began       \* history: Now of the first state published in this session

vars == <<now, cfg, alive, leaderID, changes, state, upc, inputs, rpc, toPromote, absentAt,
          unwellAt, began>>
envVars == <<cfg, alive, leaderID, changes>>
histVars == <<absentAt, unwellAt, began>>

Suffrages == {"none", "nonvoter", "voter"}

Untracked == [role |-> "none", reported |-> FALSE, healthy |-> FALSE, since |-> 0]

ZeroState ==
  [first |-> 0, servers |-> [s \in Servers |-> Untracked], leader |-> None, voters |-> <<>>,
   tolerance |-> 0]

ZeroInputs ==
  [now |-> 0, first |-> 0, cfg |-> [s \in Servers |-> "none"], alive |-> {}, leaderID |-> None,
   isLeader |-> FALSE]

Init ==
  /\ now = 1
  /\ cfg \in [Servers -> Suffrages]
  /\ alive \in SUBSET Servers
  /\ leaderID \in {s \in Servers : cfg[s] = "voter"}
  /\ changes = 0
  /\ state = ZeroState
  /\ upc = "idle" /\ inputs = ZeroInputs
  /\ rpc = "idle" /\ toPromote = {}
  /\ absentAt = [s \in Servers |-> 0]
  /\ unwellAt = [s \in Servers |-> 0]
  /\ began = 0

-----------------------------------------------------------------------------
(* nextState.                                                              *)

\* gatherNextStateInputs, up to the request for statistics.  CurrentState is
\* not copied: it stays a.state until the update is published.
Gather(isLeader) ==
  /\ upc = "idle"
  /\ inputs' = [now |-> now, first |-> IF state.first = 0 THEN now ELSE state.first,
                cfg |-> cfg, alive |-> alive, leaderID |-> leaderID, isLeader |-> isLeader]
  /\ upc' = "fetch"
  /\ UNCHANGED <<now, envVars, state, rpc, toPromote, histVars>>

\* The configuration, the term or the context is missing.
GatherFails ==
  /\ upc = "fetch"
  /\ upc' = "idle" /\ inputs' = ZeroInputs
  /\ UNCHANGED <<now, envVars, state, rpc, toPromote, histVars>>

\* The index and term of the leader are this server's own if it leads, those
\* in the leader's statistics if they came, and otherwise zero.
LeaderKnown(fetched) == inputs.isLeader \/ inputs.leaderID \in fetched

IsHealthy(leaderKnown, nodeAlive, reported, passes) ==
  leaderKnown /\ nodeAlive /\ reported /\ passes

\* Mutant: a new server keeps the zero StableSince.
BuildServerStateNoSince(s, fetched, passing) ==
  LET existing == state.servers[s]
      reported == s \in fetched \/ existing.reported
  IN [role     |-> IF s = inputs.leaderID THEN "leader" ELSE inputs.cfg[s],
      reported |-> reported,
      healthy  |-> IsHealthy(LeaderKnown(fetched), s \in inputs.alive, reported, s \in passing),
      since    |-> existing.since]

\* fetched are the servers whose statistics came; the others keep those of
\* the previous state.  previousHealthy points into the structure that
\* receives the new health, so StableSince is overwritten for a new server
\* only.
BuildServerState(s, fetched, passing) ==
  LET existing == state.servers[s]
      found    == existing.role # "none"
      reported == s \in fetched \/ existing.reported
  IN [role     |-> IF s = inputs.leaderID THEN "leader" ELSE inputs.cfg[s],
      reported |-> reported,
      healthy  |-> IsHealthy(LeaderKnown(fetched), s \in inputs.alive, reported, s \in passing),
      since    |-> IF found THEN existing.since ELSE inputs.now]

Voters(servers) == {s \in Servers : servers[s].role \in {"voter", "leader"}}
HealthyVoters(servers) == {s \in Voters(servers) : servers[s].healthy}

\* Mutant: half of an even number of voters is taken for a majority.
RequiredQuorumHalf(voters) == (voters + 1) \div 2

RequiredQuorum(voters) == (voters \div 2) + 1

\* Mutant: the difference without its guard.
FailureToleranceSigned(servers) ==
  Cardinality(HealthyVoters(servers)) - RequiredQuorum(Cardinality(Voters(servers)))

FailureTolerance(servers) ==
  LET required == RequiredQuorum(Cardinality(Voters(servers)))
      healthy  == Cardinality(HealthyVoters(servers))
  IN IF healthy > required THEN healthy - required ELSE 0

\* nextServers, over the servers of the Raft configuration.
NextServers(fetched, passing) ==
  [s \in Servers |-> IF inputs.cfg[s] = "none" THEN Untracked
                     ELSE BuildServerState(s, fetched, passing)]

\* nextStateWithInputs; voters is the sorted list.
NextState(servers, voters) ==
  LET leads(s) == servers[s].role = "leader"
  IN [first     |-> inputs.first,
      servers   |-> servers,
      leader    |-> IF \E s \in Servers : leads(s) THEN CHOOSE s \in Servers : leads(s) ELSE None,
      voters    |-> voters,
      tolerance |-> FailureTolerance(servers)]

\* The statistics arrive and the new state is published.
Publish(fetched, passing) ==
  /\ upc = "fetch"
  /\ LET servers == NextServers(fetched, passing)
     IN \E voters \in SortedLists(Voters(servers), servers) :
          state' = NextState(servers, voters)
  /\ upc' = "idle" /\ inputs' = ZeroInputs
  /\ absentAt' = [s \in Servers |-> IF state'.servers[s].role = "none" THEN inputs.now ELSE absentAt[s]]
  /\ unwellAt' = [s \in Servers |-> IF ~state'.servers[s].healthy THEN inputs.now ELSE unwellAt[s]]
  /\ began' = IF began = 0 THEN inputs.now ELSE began
  /\ UNCHANGED <<now, envVars, rpc, toPromote>>

-----------------------------------------------------------------------------
(* reconcile with the StablePromoter.                                      *)

\* The time a server must have been stable: none while the session is young.
ServerStabilizationTime == IF now - state.first > StabTime THEN StabTime ELSE 0

IsStable(health, minStableDuration) ==
  health.healthy /\ ~(now - health.since < minStableDuration)

Promotions ==
  {s \in Servers : /\ state.servers[s].role = "nonvoter"
                   /\ IsStable(state.servers[s], ServerStabilizationTime)}

\* Without a leader in the state there is nothing to reconcile.
NoLeader ==
  /\ rpc = "idle"
  /\ state.leader = None
  /\ UNCHANGED vars

BeginReconcile ==
  /\ rpc = "idle"
  /\ state.leader # None
  /\ toPromote' = Promotions
  /\ rpc' = "promote"
  /\ UNCHANGED <<now, envVars, state, upc, inputs, histVars>>

\* addVoter, with no index to guard against a change since the state was
\* computed: a server that is gone is added again.
ApplyPromotion(s) ==
  /\ rpc = "promote"
  /\ s \in toPromote
  /\ cfg' = [cfg EXCEPT ![s] = "voter"]
  /\ toPromote' = toPromote \ {s}
  /\ UNCHANGED <<now, alive, leaderID, changes, state, upc, inputs, rpc, histVars>>

\* The first error ends the round.
PromotionFails ==
  /\ rpc = "promote"
  /\ toPromote # {}
  /\ toPromote' = {} /\ rpc' = "idle"
  /\ UNCHANGED <<now, envVars, state, upc, inputs, histVars>>

EndReconcile ==
  /\ rpc = "promote"
  /\ toPromote = {}
  /\ rpc' = "idle"
  /\ UNCHANGED <<now, envVars, state, upc, inputs, toPromote, histVars>>

-----------------------------------------------------------------------------
(* The clock, the application, Raft and the end of a session.              *)

Tick ==
  /\ now < MaxTime
  /\ now' = now + 1
  /\ UNCHANGED <<envVars, state, upc, inputs, rpc, toPromote, histVars>>

Change == changes < MaxChanges /\ changes' = changes + 1

SetAlive(s) ==
  /\ Change
  /\ alive' \in {alive \cup {s}, alive \ {s}}
  /\ alive' # alive
  /\ UNCHANGED <<now, cfg, leaderID, state, upc, inputs, rpc, toPromote, histVars>>

AddServer(s) ==
  /\ Change
  /\ cfg[s] = "none"
  /\ cfg' = [cfg EXCEPT ![s] = "nonvoter"]
  /\ UNCHANGED <<now, alive, leaderID, state, upc, inputs, rpc, toPromote, histVars>>

RemoveServer(s) ==
  /\ Change
  /\ cfg[s] # "none"
  /\ cfg' = [cfg EXCEPT ![s] = "none"]
  /\ UNCHANGED <<now, alive, leaderID, state, upc, inputs, rpc, toPromote, histVars>>

\* Raft loses or changes its leader.
ChangeLeader ==
  /\ Change
  /\ leaderID' \in {s \in Servers : cfg[s] = "voter"} \cup {None}
  /\ leaderID' # leaderID
  /\ UNCHANGED <<now, cfg, alive, state, upc, inputs, rpc, toPromote, histVars>>

\* The session ends with both goroutines at rest, and is forgotten.
EndSession ==
  /\ Change
  /\ upc = "idle" /\ rpc = "idle"
  /\ state' = ZeroState
  /\ absentAt' = [s \in Servers |-> 0] /\ unwellAt' = [s \in Servers |-> 0]
  /\ began' = 0
  /\ UNCHANGED <<now, cfg, alive, leaderID, upc, inputs, rpc, toPromote>>

UpdaterStep ==
  \/ \E isLeader \in BOOLEAN : Gather(isLeader)
  \/ GatherFails
  \/ \E fetched, passing \in SUBSET Servers : Publish(fetched, passing)

ReconcilerStep ==
  \/ NoLeader
  \/ BeginReconcile
  \/ \E s \in Servers : ApplyPromotion(s)
  \/ PromotionFails
  \/ EndReconcile

EnvStep ==
  \/ Tick
  \/ \E s \in Servers : SetAlive(s) \/ AddServer(s) \/ RemoveServer(s)
  \/ ChangeLeader
  \/ EndSession

Next == UpdaterStep \/ ReconcilerStep \/ EnvStep

Spec == Init /\ [][Next]_vars

-----------------------------------------------------------------------------
(* Properties.                                                             *)

Times == 0..MaxTime
ServerStates ==
  [role : Suffrages \cup {"leader"}, reported : BOOLEAN, healthy : BOOLEAN, since : Times]
States ==
  [first : Times, servers : [Servers -> ServerStates], leader : Servers \cup {None},
   voters : Seq(Servers), tolerance : Nat]

\* Every variable has the type of what it models.
TypeOK ==
  /\ now \in Times
  /\ cfg \in [Servers -> Suffrages]
  /\ alive \subseteq Servers
  /\ leaderID \in Servers \cup {None}
  /\ changes \in 0..MaxChanges
  /\ state \in States
  /\ upc \in {"idle", "fetch"}
  /\ inputs \in [now : Times, first : Times, cfg : [Servers -> Suffrages],
                 alive : SUBSET Servers, leaderID : Servers \cup {None}, isLeader : BOOLEAN]
  /\ rpc \in {"idle", "promote"}
  /\ toPromote \subseteq Servers
  /\ absentAt \in [Servers -> Times] /\ unwellAt \in [Servers -> Times]
  /\ began \in Times

\* The tolerance in a published state is exact: with that many healthy
\* voters lost, whichever they are, the healthy ones left are a majority of
\* all voters, and one more loss would end it.
ToleranceExact ==
  LET V == Voters(state.servers)
      H == HealthyVoters(state.servers)
      Majority(S) == 2 * Cardinality(S) > Cardinality(V)
  IN /\ Majority(H) =>
          \A F \in SUBSET H : Majority(H \ F) <=> Cardinality(F) <= state.tolerance
     /\ ~Majority(H) => state.tolerance = 0

\* The published list of voters is stable: it is the only one sorting can
\* give, in whatever order they were collected, and begins with the leader.
VotersStable ==
  /\ SortedLists(Voters(state.servers), state.servers) = {state.voters}
  /\ state.leader # None => state.voters # <<>> /\ Head(state.voters) = state.leader

\* In a session older than ServerStabilizationTime only a server that has
\* been in every published state for that long is promoted, and only if the
\* latest one has it healthy; a server that left Raft and came back, or a
\* session that ended and began again, starts anew (StableSince,
\* firstStateTime).
PromotionJustified ==
  [][BeginReconcile => \A s \in toPromote' :
       /\ state.servers[s].healthy
       /\ now - began <= StabTime \/ absentAt[s] + StabTime <= now]_vars

-----------------------------------------------------------------------------
(* What a comment promises and the code does not keep.                     *)

\* "ServerStabilizationTime is the minimum amount of time a server must be
\* in a stable, healthy state before it can be added to the cluster".
PromotedWhenStable ==
  [][BeginReconcile => \A s \in toPromote' :
       now - began <= StabTime \/ unwellAt[s] + StabTime <= now]_vars
=============================================================================
