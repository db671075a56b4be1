-------------------------- MODULE StabilityProofs ---------------------------
(***************************************************************************)
(* Theorems about the computation of states and about promotions, for any  *)
(* finite cluster, any stabilization time and clock.                       *)
(***************************************************************************)
EXTENDS Stability, OrderProofs, FiniteSetTheorems, TLAPS

\* A state's tolerance is what its servers give.
Counted == state.tolerance = FailureTolerance(state.servers)

\* An update publishes with the time it began at, and is not overtaken.
UpdateTimes ==
  upc = "fetch" =>
    /\ inputs.now \in 1..now
    /\ inputs.first = IF state.first = 0 THEN inputs.now ELSE state.first
    /\ \A s \in Servers : absentAt[s] <= inputs.now

\* The session began with its first state; a server in the state has been in
\* all since StableSince.
StateTimes ==
  /\ now >= 1
  /\ began = state.first
  /\ \A s \in Servers : /\ absentAt[s] <= now
                        /\ state.servers[s].role # "none" => absentAt[s] <= state.servers[s].since

\* A state lists its voters sorted, and at most one of its servers leads.
Listed ==
  /\ state.voters \in SortedLists(Voters(state.servers), state.servers)
  /\ \A s, u \in Servers :
       state.servers[s].role = "leader" /\ state.servers[u].role = "leader" => s = u
  /\ state.leader # None =>
       state.leader \in Servers /\ state.servers[state.leader].role = "leader"

IInv == TypeOK /\ Counted /\ Listed /\ UpdateTimes /\ StateTimes

-----------------------------------------------------------------------------
(* Types.                                                                  *)

Inputs ==
  [now : Times, first : Times, cfg : [Servers -> Suffrages], alive : SUBSET Servers,
   leaderID : Servers \cup {None}, isLeader : BOOLEAN]

EnvTypes ==
  /\ now \in Times /\ cfg \in [Servers -> Suffrages] /\ alive \subseteq Servers
  /\ leaderID \in Servers \cup {None} /\ changes \in 0..MaxChanges
UpdateTypes == upc \in {"idle", "fetch"} /\ inputs \in Inputs
RoundTypes == rpc \in {"idle", "promote"} /\ toPromote \subseteq Servers
HistoryTypes == absentAt \in [Servers -> Times] /\ unwellAt \in [Servers -> Times] /\ began \in Times

LEMMA TypeParts ==
  TypeOK <=> EnvTypes /\ state \in States /\ UpdateTypes /\ RoundTypes /\ HistoryTypes
BY DEF TypeOK, EnvTypes, UpdateTypes, RoundTypes, HistoryTypes, Inputs

LEMMA TypePartsNext ==
  TypeOK' <=> EnvTypes' /\ state' \in States /\ UpdateTypes' /\ RoundTypes' /\ HistoryTypes'
BY DEF TypeOK, EnvTypes, UpdateTypes, RoundTypes, HistoryTypes, Inputs

LEMMA UntrackedType == Untracked \in ServerStates /\ Untracked.role = "none"
BY TimeAssumption DEF Untracked, ServerStates, Suffrages, Times

LEMMA EmptyList == <<>> \in Seq(Servers)
OBVIOUS

LEMMA ZeroTypes == ZeroState \in States /\ ZeroInputs \in Inputs
<1>1. 0 \in Times /\ 0 \in Nat
  BY TimeAssumption DEF Times
<1>2. [s \in Servers |-> Untracked] \in [Servers -> ServerStates]
  BY UntrackedType
<1>3. ZeroState \in States
  BY <1>1, <1>2, EmptyList DEF ZeroState, States
<1>4. ZeroInputs \in Inputs
  BY <1>1 DEF ZeroInputs, Inputs, Suffrages
<1> QED
  BY <1>3, <1>4

LEMMA VoterTypes ==
  ASSUME NEW servers
  PROVE  /\ IsFiniteSet(Voters(servers)) /\ Cardinality(Voters(servers)) \in Nat
         /\ IsFiniteSet(HealthyVoters(servers)) /\ Cardinality(HealthyVoters(servers)) \in Nat
<1>1. Voters(servers) \subseteq Servers /\ HealthyVoters(servers) \subseteq Servers
  BY DEF Voters, HealthyVoters
<1> QED
  BY <1>1, ServersAssumption, FS_Subset, FS_CardinalityType

LEMMA ToleranceType == ASSUME NEW servers PROVE FailureTolerance(servers) \in Nat
BY VoterTypes DEF FailureTolerance, RequiredQuorum

LEMMA ListType ==
  ASSUME NEW servers, NEW list \in SortedLists(Voters(servers), servers)
  PROVE  list \in Seq(Servers)
<1>1. list \in [1..Cardinality(Voters(servers)) -> Voters(servers)]
  BY DEF SortedLists
<1>2. list \in [1..Cardinality(Voters(servers)) -> Servers]
  BY <1>1 DEF Voters
<1> QED
  BY <1>2, VoterTypes

\* What an update makes of one server.
LEMMA BuildTypes ==
  ASSUME state \in States, inputs \in Inputs, NEW s \in Servers, NEW fetched, NEW passing,
         inputs.cfg[s] # "none"
  PROVE  /\ BuildServerState(s, fetched, passing) \in ServerStates
         /\ BuildServerState(s, fetched, passing).role # "none"
         /\ BuildServerState(s, fetched, passing).role = "leader" => s = inputs.leaderID
         /\ BuildServerState(s, fetched, passing).since =
              IF state.servers[s].role # "none" THEN state.servers[s].since ELSE inputs.now
<1> DEFINE existing == state.servers[s]
           role     == IF s = inputs.leaderID THEN "leader" ELSE inputs.cfg[s]
           reported == s \in fetched \/ existing.reported
           healthy  == IsHealthy(LeaderKnown(fetched), s \in inputs.alive, reported, s \in passing)
           since    == IF existing.role # "none" THEN existing.since ELSE inputs.now
<1>1. existing \in ServerStates /\ inputs.now \in Times /\ inputs.cfg[s] \in Suffrages
  BY DEF States, Inputs
<1>2. /\ role \in Suffrages \cup {"leader"} /\ role # "none"
      /\ role = "leader" => s = inputs.leaderID
  BY <1>1 DEF Suffrages
<1>3. since \in Times
  BY <1>1 DEF ServerStates
<1>4. reported \in BOOLEAN /\ healthy \in BOOLEAN
  BY <1>1 DEF ServerStates, IsHealthy
<1>5. BuildServerState(s, fetched, passing) =
        [role |-> role, reported |-> reported, healthy |-> healthy, since |-> since]
  BY DEF BuildServerState
<1> HIDE DEF role, reported, healthy, since
<1>6. [role |-> role, reported |-> reported, healthy |-> healthy, since |-> since] \in ServerStates
  BY <1>2, <1>3, <1>4 DEF ServerStates
<1>7. BuildServerState(s, fetched, passing).role = role
      /\ BuildServerState(s, fetched, passing).since = since
  BY <1>5
<1> QED
  BY <1>2, <1>5, <1>6, <1>7 DEF since

\* What an update makes of all of them.
LEMMA NextServersTypes ==
  ASSUME state \in States, inputs \in Inputs, NEW fetched, NEW passing
  PROVE  /\ NextServers(fetched, passing) \in [Servers -> ServerStates]
         /\ \A s \in Servers : NextServers(fetched, passing)[s].role # "none" =>
              NextServers(fetched, passing)[s].since =
                IF state.servers[s].role # "none" THEN state.servers[s].since ELSE inputs.now
         /\ \A s \in Servers :
              NextServers(fetched, passing)[s].role = "leader" => s = inputs.leaderID
<1>1. ASSUME NEW s \in Servers, inputs.cfg[s] = "none"
      PROVE  NextServers(fetched, passing)[s] = Untracked
  BY <1>1 DEF NextServers
<1>2. ASSUME NEW s \in Servers, inputs.cfg[s] # "none"
      PROVE  NextServers(fetched, passing)[s] = BuildServerState(s, fetched, passing)
  BY <1>2 DEF NextServers
<1>3. ASSUME NEW s \in Servers PROVE NextServers(fetched, passing)[s] \in ServerStates
  BY <1>1, <1>2, BuildTypes, UntrackedType
<1>4. NextServers(fetched, passing) \in [Servers -> ServerStates]
  BY <1>3 DEF NextServers
<1>5. ASSUME NEW s \in Servers, NextServers(fetched, passing)[s].role # "none"
      PROVE  NextServers(fetched, passing)[s].since =
               IF state.servers[s].role # "none" THEN state.servers[s].since ELSE inputs.now
  BY <1>1, <1>2, <1>5, BuildTypes, UntrackedType
<1>6. ASSUME NEW s \in Servers, NextServers(fetched, passing)[s].role = "leader"
      PROVE  s = inputs.leaderID
  BY <1>1, <1>2, <1>6, BuildTypes, UntrackedType
<1> QED
  BY <1>4, <1>5, <1>6

\* What is published.
LEMMA PublishState ==
  ASSUME TypeOK, NEW fetched, NEW passing, Publish(fetched, passing)
  PROVE  /\ state' \in States
         /\ state'.servers = NextServers(fetched, passing)
         /\ state'.first = inputs.first
         /\ state'.tolerance = FailureTolerance(state'.servers)
         /\ Listed'
<1> DEFINE servers == NextServers(fetched, passing)
<1>1. PICK voters \in SortedLists(Voters(servers), servers) : state' = NextState(servers, voters)
  BY DEF Publish
<1>2. state \in States /\ inputs \in Inputs
  BY TypeParts DEF UpdateTypes
<1>3. servers \in [Servers -> ServerStates]
  BY <1>2, NextServersTypes
<1>4. voters \in Seq(Servers) /\ FailureTolerance(servers) \in Nat
  BY ListType, ToleranceType
<1> HIDE DEF servers
<1> DEFINE leads(s) == servers[s].role = "leader"
           leader == IF \E s \in Servers : leads(s) THEN CHOOSE s \in Servers : leads(s) ELSE None
<1>5. /\ leader \in Servers \cup {None}
      /\ leader # None => leader \in Servers /\ servers[leader].role = "leader"
  OBVIOUS
<1>6. state' = [first |-> inputs.first, servers |-> servers, leader |-> leader, voters |-> voters,
                tolerance |-> FailureTolerance(servers)]
  BY <1>1 DEF NextState
<1> HIDE DEF leader
<1>7. inputs.first \in Times
  BY <1>2 DEF Inputs
<1>8. state' \in States
  BY <1>3, <1>4, <1>5, <1>6, <1>7 DEF States
<1>9. /\ state'.servers = servers /\ state'.voters = voters /\ state'.leader = leader
      /\ state'.first = inputs.first /\ state'.tolerance = FailureTolerance(servers)
  BY <1>6
<1>10. \A s \in Servers : servers[s].role = "leader" => s = inputs.leaderID
  BY <1>2, NextServersTypes DEF servers
<1>11. (Voters(state.servers))' = Voters(state'.servers)
  BY DEF Voters
<1>12. (SortedLists(Voters(state.servers), state.servers))' =
         SortedLists(Voters(state'.servers), state'.servers)
  BY <1>11 DEF SortedLists, ServerLessThan
<1>13. Listed'
  BY <1>1, <1>5, <1>9, <1>10, <1>12 DEF Listed
<1> QED
  BY <1>8, <1>9, <1>13 DEF servers

LEMMA InitTypes == Init => TypeOK
<1> SUFFICES ASSUME Init PROVE TypeOK
  OBVIOUS
<1>1. EnvTypes
  BY TimeAssumption DEF Init, EnvTypes, Times
<1>2. state \in States /\ UpdateTypes
  BY ZeroTypes DEF Init, UpdateTypes
<1>3. RoundTypes
  BY DEF Init, RoundTypes
<1>4. HistoryTypes
  BY TimeAssumption DEF Init, HistoryTypes, Times
<1> QED
  BY <1>1, <1>2, <1>3, <1>4, TypeParts

LEMMA StepTypes == TypeOK /\ [Next]_vars => TypeOK'
<1> SUFFICES ASSUME TypeOK, [Next]_vars PROVE TypeOK'
  OBVIOUS
<1>0. EnvTypes /\ state \in States /\ UpdateTypes /\ RoundTypes /\ HistoryTypes
  BY TypeParts
<1>1. ASSUME UNCHANGED <<now, envVars>> PROVE EnvTypes'
  BY <1>0, <1>1 DEF EnvTypes, envVars
<1>2. ASSUME UNCHANGED <<upc, inputs>> PROVE UpdateTypes'
  BY <1>0, <1>2 DEF UpdateTypes
<1>3. ASSUME UNCHANGED <<rpc, toPromote>> PROVE RoundTypes'
  BY <1>0, <1>3 DEF RoundTypes
<1>4. ASSUME UNCHANGED <<absentAt, unwellAt, began>> PROVE HistoryTypes'
  BY <1>0, <1>4 DEF HistoryTypes
<1>5. ASSUME NEW isLeader \in BOOLEAN, Gather(isLeader) PROVE TypeOK'
  <2>1. UpdateTypes'
    <3> DEFINE f == IF state.first = 0 THEN now ELSE state.first
    <3>1. f \in Times
      BY <1>0 DEF EnvTypes, States
    <3>2. upc' = "fetch" /\ inputs' = [now |-> now, first |-> f, cfg |-> cfg, alive |-> alive,
                                       leaderID |-> leaderID, isLeader |-> isLeader]
      BY <1>5 DEF Gather
    <3> HIDE DEF f
    <3>3. inputs' \in Inputs
      BY <1>0, <3>1, <3>2 DEF EnvTypes, Inputs
    <3> QED
      BY <3>2, <3>3 DEF UpdateTypes
  <2> QED
    BY <1>0, <1>1, <1>3, <1>4, <1>5, <2>1, TypePartsNext DEF Gather, histVars
<1>6. ASSUME GatherFails PROVE TypeOK'
  <2>1. UpdateTypes'
    BY <1>6, ZeroTypes DEF GatherFails, UpdateTypes, Inputs, ZeroInputs
  <2> QED
    BY <1>0, <1>1, <1>3, <1>4, <1>6, <2>1, TypePartsNext DEF GatherFails, histVars
<1>7. ASSUME NEW fetched \in SUBSET Servers, NEW passing \in SUBSET Servers,
             Publish(fetched, passing)
      PROVE  TypeOK'
  <2>1. UpdateTypes'
    BY <1>7, ZeroTypes DEF Publish, UpdateTypes, Inputs, ZeroInputs
  <2>2. HistoryTypes'
    <3>1. inputs.now \in Times
      BY <1>0 DEF UpdateTypes, Inputs
    <3> QED
      BY <1>0, <1>7, <3>1 DEF Publish, HistoryTypes
  <2>3. state' \in States
    BY <1>7, PublishState
  <2> QED
    BY <1>1, <1>3, <1>7, <2>1, <2>2, <2>3, TypePartsNext DEF Publish
<1>8. ASSUME ReconcilerStep PROVE TypeOK'
  <2>1. UNCHANGED <<now, alive, leaderID, changes, state, upc, inputs, absentAt, unwellAt, began>>
    BY <1>8 DEF ReconcilerStep, NoLeader, BeginReconcile, ApplyPromotion, PromotionFails,
                EndReconcile, vars, envVars, histVars
  <2>2. cfg' \in [Servers -> Suffrages]
    BY <1>0, <1>8 DEF ReconcilerStep, NoLeader, BeginReconcile, ApplyPromotion, PromotionFails,
                      EndReconcile, vars, envVars, EnvTypes, Suffrages
  <2>3. RoundTypes'
    BY <1>0, <1>8 DEF ReconcilerStep, NoLeader, BeginReconcile, ApplyPromotion, PromotionFails,
                      EndReconcile, vars, RoundTypes, Promotions
  <2>4. EnvTypes'
    BY <1>0, <2>1, <2>2 DEF EnvTypes
  <2> QED
    BY <1>0, <1>2, <1>4, <2>1, <2>3, <2>4, TypePartsNext
<1>9. ASSUME Tick PROVE TypeOK'
  <2>1. EnvTypes'
    BY <1>0, <1>9, TimeAssumption DEF Tick, EnvTypes, envVars, Times
  <2> QED
    BY <1>0, <1>2, <1>3, <1>4, <1>9, <2>1, TypePartsNext DEF Tick, histVars
<1>10. ASSUME NEW s \in Servers, SetAlive(s) \/ AddServer(s) \/ RemoveServer(s)
       PROVE  TypeOK'
  <2>1. EnvTypes'
    BY <1>0, <1>10, TimeAssumption
       DEF SetAlive, AddServer, RemoveServer, Change, EnvTypes, Suffrages
  <2>2. UNCHANGED <<state, upc, inputs, rpc, toPromote, absentAt, unwellAt, began>>
    BY <1>10 DEF SetAlive, AddServer, RemoveServer, histVars
  <2> QED
    BY <1>0, <1>2, <1>3, <1>4, <2>1, <2>2, TypePartsNext
<1>11. ASSUME ChangeLeader PROVE TypeOK'
  <2>1. EnvTypes'
    BY <1>0, <1>11, TimeAssumption DEF ChangeLeader, Change, EnvTypes
  <2>2. UNCHANGED <<state, upc, inputs, rpc, toPromote, absentAt, unwellAt, began>>
    BY <1>11 DEF ChangeLeader, histVars
  <2> QED
    BY <1>0, <1>2, <1>3, <1>4, <2>1, <2>2, TypePartsNext
<1>12. ASSUME EndSession PROVE TypeOK'
  <2>1. EnvTypes'
    BY <1>0, <1>12, TimeAssumption DEF EndSession, Change, EnvTypes
  <2>2. state' \in States
    BY <1>12, ZeroTypes DEF EndSession
  <2>3. HistoryTypes'
    BY <1>12, TimeAssumption DEF EndSession, HistoryTypes, Times
  <2> QED
    BY <1>2, <1>3, <1>12, <2>1, <2>2, <2>3, TypePartsNext DEF EndSession
<1>13. ASSUME UNCHANGED vars PROVE TypeOK'
  BY <1>13 DEF vars, TypeOK
<1> QED
  BY <1>5, <1>6, <1>7, <1>8, <1>9, <1>10, <1>11, <1>12, <1>13 DEF Next, UpdaterStep, EnvStep

-----------------------------------------------------------------------------
(* Times, counts and lists.                                                *)

\* A step that publishes nothing and forgets nothing keeps the counts.
LEMMA CountsStay ==
  ASSUME Counted, Listed, UNCHANGED state
  PROVE  Counted' /\ Listed'
<1>1. Counted'
  BY DEF Counted, FailureTolerance, HealthyVoters, Voters
<1>2. Listed'
  BY DEF Listed, SortedLists, ServerLessThan, Voters
<1> QED
  BY <1>1, <1>2

\* Time may pass, and no more.
LEMMA TimesStay ==
  ASSUME TypeOK, TypeOK', UpdateTimes, StateTimes, now' >= now,
         UNCHANGED <<state, upc, inputs, absentAt, began>>
  PROVE  UpdateTimes' /\ StateTimes'
<1>1. now \in Nat /\ now' \in Nat /\ absentAt \in [Servers -> Nat] /\ inputs.now \in Nat
  BY TimeAssumption DEF TypeOK, Times
<1>2. UpdateTimes'
  BY <1>1 DEF UpdateTimes
<1>3. StateTimes'
  BY <1>1 DEF StateTimes
<1> QED
  BY <1>2, <1>3

LEMMA GatherTimes ==
  ASSUME TypeOK, StateTimes, NEW isLeader \in BOOLEAN, Gather(isLeader)
  PROVE  UpdateTimes' /\ StateTimes'
<1>1. /\ inputs'.now = now /\ inputs'.first = IF state.first = 0 THEN now ELSE state.first
      /\ UNCHANGED <<now, state, absentAt, began>>
  BY DEF Gather, histVars
<1>2. now \in Nat
  BY TimeAssumption DEF TypeOK, Times
<1>3. UpdateTimes'
  BY <1>1, <1>2 DEF UpdateTimes, StateTimes
<1>4. StateTimes'
  BY <1>1 DEF StateTimes
<1> QED
  BY <1>3, <1>4

LEMMA PublishTimes ==
  ASSUME TypeOK, UpdateTimes, StateTimes, NEW fetched, NEW passing, Publish(fetched, passing)
  PROVE  UpdateTimes' /\ StateTimes'
<1>1. upc = "fetch" /\ upc' = "idle" /\ now' = now
  BY DEF Publish
<1>2. /\ inputs.now \in 1..now /\ \A s \in Servers : absentAt[s] <= inputs.now
      /\ inputs.first = IF state.first = 0 THEN inputs.now ELSE state.first
  BY <1>1 DEF UpdateTimes
<1>3. /\ state'.servers = NextServers(fetched, passing) /\ state'.first = inputs.first
      /\ state \in States /\ inputs \in Inputs
  BY PublishState, TypeParts DEF UpdateTypes
<1>4. began' = state'.first
  BY <1>2, <1>3 DEF Publish, StateTimes
<1>5. now \in Nat /\ inputs.now \in Nat /\ absentAt \in [Servers -> Nat]
  BY TimeAssumption DEF TypeOK, Times
<1>6. ASSUME NEW s \in Servers
      PROVE  /\ absentAt'[s] <= now'
             /\ state'.servers[s].role # "none" => absentAt'[s] <= state'.servers[s].since
  <2>1. CASE state'.servers[s].role = "none"
    BY <1>1, <1>2, <1>5, <2>1 DEF Publish
  <2>2. CASE state'.servers[s].role # "none"
    <3>1. absentAt'[s] = absentAt[s]
      BY <2>2 DEF Publish
    <3>2. state'.servers[s].since =
            IF state.servers[s].role # "none" THEN state.servers[s].since ELSE inputs.now
      BY <1>3, <2>2, NextServersTypes
    <3> QED
      BY <1>1, <1>2, <1>5, <3>1, <3>2 DEF StateTimes
  <2> QED
    BY <2>1, <2>2
<1>7. UpdateTimes'
  BY <1>1 DEF UpdateTimes
<1>8. StateTimes'
  BY <1>1, <1>4, <1>6 DEF StateTimes
<1> QED
  BY <1>7, <1>8

\* The state that is forgotten has no servers.
LEMMA ZeroStateFacts ==
  /\ ZeroState.first = 0 /\ ZeroState.tolerance = 0
  /\ \A s \in Servers : ZeroState.servers[s].role = "none"
  /\ FailureTolerance(ZeroState.servers) = 0
  /\ ZeroState.leader = None
  /\ ZeroState.voters \in SortedLists(Voters(ZeroState.servers), ZeroState.servers)
<1>1. /\ ZeroState.first = 0 /\ ZeroState.tolerance = 0
      /\ ZeroState.leader = None /\ ZeroState.voters = <<>>
      /\ ZeroState.servers = [s \in Servers |-> Untracked]
  BY DEF ZeroState
<1>2. \A s \in Servers : ZeroState.servers[s].role = "none"
  BY <1>1, UntrackedType
<1>3. Voters(ZeroState.servers) = {} /\ HealthyVoters(ZeroState.servers) = {}
  BY <1>2 DEF Voters, HealthyVoters
<1>4. FailureTolerance(ZeroState.servers) = 0
  BY <1>3, FS_EmptySet DEF FailureTolerance, RequiredQuorum
<1>5. 1..0 = {} /\ <<>> \in [1..0 -> {}]
  OBVIOUS
<1>6. <<>> \in SortedLists({}, ZeroState.servers)
  BY <1>5, FS_EmptySet DEF SortedLists
<1> QED
  BY <1>1, <1>2, <1>3, <1>4, <1>6

LEMMA InitIInv == Init => IInv
<1> SUFFICES ASSUME Init PROVE IInv
  OBVIOUS
<1>1. Counted /\ UpdateTimes
  BY ZeroStateFacts DEF Init, Counted, UpdateTimes
<1>2. StateTimes
  BY ZeroStateFacts DEF Init, StateTimes
<1>3. Listed
  BY ZeroStateFacts DEF Init, Listed
<1> QED
  BY <1>1, <1>2, <1>3, InitTypes DEF IInv

LEMMA StepIInv == IInv /\ [Next]_vars => IInv'
<1> SUFFICES ASSUME IInv, [Next]_vars PROVE IInv'
  OBVIOUS
<1>0. TypeOK /\ TypeOK' /\ Counted /\ Listed /\ UpdateTimes /\ StateTimes
  BY StepTypes DEF IInv
<1>1. ASSUME now' >= now, UNCHANGED <<state, upc, inputs, absentAt, began>> PROVE IInv'
  BY <1>0, <1>1, CountsStay, TimesStay DEF IInv
<1>2. now \in Nat
  BY <1>0, TimeAssumption DEF TypeOK, Times
<1>3. ASSUME NEW isLeader \in BOOLEAN, Gather(isLeader) PROVE IInv'
  <2>1. Counted' /\ Listed'
    BY <1>0, <1>3, CountsStay DEF Gather
  <2> QED
    BY <1>0, <1>3, <2>1, GatherTimes DEF IInv
<1>4. ASSUME GatherFails PROVE IInv'
  <2>1. Counted' /\ Listed'
    BY <1>0, <1>4, CountsStay DEF GatherFails
  <2>2. UpdateTimes'
    BY <1>4 DEF GatherFails, UpdateTimes
  <2>3. StateTimes'
    BY <1>0, <1>4 DEF GatherFails, StateTimes, histVars
  <2> QED
    BY <1>0, <2>1, <2>2, <2>3 DEF IInv
<1>5. ASSUME NEW fetched, NEW passing, Publish(fetched, passing) PROVE IInv'
  <2>1. Counted'
    BY <1>0, <1>5, PublishState DEF Counted, FailureTolerance, HealthyVoters, Voters
  <2>2. Listed'
    BY <1>0, <1>5, PublishState
  <2> QED
    BY <1>0, <1>5, <2>1, <2>2, PublishTimes DEF IInv
<1>6. ASSUME ReconcilerStep PROVE IInv'
  <2>1. UNCHANGED <<now, state, upc, inputs, absentAt, began>>
    BY <1>6 DEF ReconcilerStep, NoLeader, BeginReconcile, ApplyPromotion, PromotionFails,
                EndReconcile, vars, histVars
  <2> QED
    BY <1>1, <1>2, <2>1
<1>7. ASSUME \/ Tick \/ ChangeLeader \/ UNCHANGED vars
             \/ \E s \in Servers : SetAlive(s) \/ AddServer(s) \/ RemoveServer(s)
      PROVE  IInv'
  <2>1. UNCHANGED <<state, upc, inputs, absentAt, began>>
    BY <1>7 DEF Tick, ChangeLeader, SetAlive, AddServer, RemoveServer, vars, histVars
  <2>2. now' >= now
    BY <1>2, <1>7 DEF Tick, ChangeLeader, SetAlive, AddServer, RemoveServer, vars
  <2> QED
    BY <1>1, <2>1, <2>2
<1>8. ASSUME EndSession PROVE IInv'
  <2>1. upc' = "idle" /\ state' = ZeroState /\ began' = 0 /\ now' = now
        /\ absentAt' = [s \in Servers |-> 0]
    BY <1>8 DEF EndSession
  <2>2. Counted'
    BY <2>1, ZeroStateFacts DEF Counted, FailureTolerance, HealthyVoters, Voters
  <2>3. UpdateTimes'
    BY <2>1 DEF UpdateTimes
  <2>4. StateTimes'
    BY <1>0, <1>2, <2>1, ZeroStateFacts DEF StateTimes
  <2>5. Listed'
    BY <2>1, ZeroStateFacts DEF Listed, SortedLists, ServerLessThan, Voters
  <2> QED
    BY <1>0, <2>2, <2>3, <2>4, <2>5 DEF IInv
<1> QED
  BY <1>3, <1>4, <1>5, <1>6, <1>7, <1>8 DEF Next, UpdaterStep, EnvStep

LEMMA Invariance == Spec => []IInv
BY InitIInv, StepIInv, PTL DEF Spec

-----------------------------------------------------------------------------
(* Theorems.                                                               *)

\* Every variable has the type of what it models.
THEOREM TypeCorrectness == Spec => []TypeOK
<1>1. IInv => TypeOK
  BY DEF IInv
<1> QED
  BY <1>1, Invariance, PTL

\* For any number of voters and healthy ones: losing as many healthy voters
\* as the published failure tolerance says leaves a majority, one more does
\* not.
THEOREM ToleranceIsExact == Spec => []ToleranceExact
<1>1. ASSUME IInv PROVE ToleranceExact
  <2> DEFINE V == Voters(state.servers)
             H == HealthyVoters(state.servers)
             v == Cardinality(V)
             h == Cardinality(H)
             tol == state.tolerance
  <2>1. IsFiniteSet(V) /\ IsFiniteSet(H) /\ v \in Nat /\ h \in Nat
    BY VoterTypes
  <2>2. tol = IF h > (v \div 2) + 1 THEN h - ((v \div 2) + 1) ELSE 0
    BY <1>1 DEF IInv, Counted, FailureTolerance, RequiredQuorum
  <2> HIDE DEF V, H, v, h, tol
  <2>3. ASSUME NEW f \in Nat, f <= h, 2 * h > v PROVE 2 * (h - f) > v <=> f <= tol
    BY <2>1, <2>2, <2>3
  <2>4. ASSUME ~(2 * h > v) PROVE tol = 0
    BY <2>1, <2>2, <2>4
  <2>5. ASSUME NEW F \in SUBSET H
        PROVE  Cardinality(F) \in Nat /\ Cardinality(F) <= h /\ Cardinality(H \ F) = h - Cardinality(F)
    <3>1. IsFiniteSet(F) /\ Cardinality(F) <= h
      BY <2>1, FS_Subset DEF h
    <3>2. H \cap F = F
      OBVIOUS
    <3> QED
      BY <2>1, <3>1, <3>2, FS_CardinalityType, FS_Difference DEF h
  <2>6. ASSUME 2 * h > v, NEW F \in SUBSET H
        PROVE  2 * Cardinality(H \ F) > v <=> Cardinality(F) <= tol
    BY <2>3, <2>5, <2>6
  <2> QED
    BY <2>4, <2>6 DEF ToleranceExact, V, H, v, h, tol
<1> QED
  BY <1>1, Invariance, PTL

\* However many voters there are and in whatever order they were collected,
\* sorting leaves no choice, and the leader a state names heads its list.
THEOREM VotersAreStable == Spec => []VotersStable
<1>1. ASSUME IInv PROVE VotersStable
  <2> DEFINE servers == state.servers
             S == Voters(servers)
             list == state.voters
  <2>1. IsFiniteSet(S) /\ S \subseteq Servers /\ S \in SUBSET Int
    <3>1. S \subseteq Servers /\ Servers \subseteq Int
      BY ServersAssumption DEF Voters
    <3> QED
      BY <3>1, VoterTypes
  <2>2. list \in SortedLists(S, servers)
    BY <1>1 DEF IInv, Listed
  <2>3. Sortable(S, servers)
    <3>1. ASSUME NEW s \in S PROVE servers[s].healthy \in BOOLEAN /\ servers[s].since \in Int
      <4>1. s \in Servers /\ state \in States
        BY <1>1, <2>1 DEF IInv, TypeOK
      <4>2. servers[s] \in ServerStates
        BY <4>1 DEF States
      <4>3. Times \subseteq Int
        BY TimeAssumption DEF Times
      <4> HIDE DEF servers
      <4> QED
        BY <4>2, <4>3 DEF ServerStates
    <3>2. \A s, u \in S : servers[s].role = "leader" /\ servers[u].role = "leader" => s = u
      BY <1>1, <2>1 DEF IInv, Listed
    <3> QED
      BY <3>1, <3>2 DEF Sortable
  <2>4. ASSUME state.leader # None PROVE list # <<>> /\ Head(list) = state.leader
    <3>1. state.leader \in S /\ servers[state.leader].role = "leader"
      BY <1>1, <2>4 DEF IInv, Listed, Voters
    <3> HIDE DEF S
    <3>2. PICK n \in 1..Cardinality(S) : list[n] = state.leader
      BY <2>1, <2>2, <3>1, ListBijection
    <3>3. n = 1
      BY <2>1, <2>2, <3>1, <3>2, LeaderFirst
    <3>4. list \in Seq(Servers) /\ list \in [1..Cardinality(S) -> S]
      BY <1>1, <2>2 DEF IInv, TypeOK, States, SortedLists
    <3>5. Len(list) >= 1
      BY <2>1, <3>2, <3>3, <3>4, FS_CardinalityType
    <3> QED
      BY <3>2, <3>3, <3>4, <3>5
  <2> HIDE DEF S
  <2>5. SortedLists(S, servers) = {list}
    BY <2>1, <2>2, <2>3, SortedOnce
  <2> QED
    BY <2>4, <2>5 DEF VotersStable, S
<1> QED
  BY <1>1, Invariance, PTL

\* Only servers that are healthy and have been in Raft for long enough are
\* promoted, unless the session is younger than that.
THEOREM PromotionsAreJustified == Spec => PromotionJustified
<1> DEFINE Justified(s) == /\ state.servers[s].healthy
                           /\ now - began <= StabTime \/ absentAt[s] + StabTime <= now
<1>1. ASSUME IInv, BeginReconcile, NEW s \in toPromote' PROVE Justified(s)
  <2>1. s \in Promotions
    BY <1>1 DEF BeginReconcile
  <2>2. /\ s \in Servers /\ state.servers[s].role = "nonvoter"
        /\ IsStable(state.servers[s], ServerStabilizationTime)
    BY <2>1 DEF Promotions
  <2>3. /\ state.servers[s].healthy
        /\ ~(now - state.servers[s].since < ServerStabilizationTime)
    BY <2>2 DEF IsStable
  <2>4. absentAt[s] <= state.servers[s].since /\ began = state.first
    BY <1>1, <2>2 DEF IInv, StateTimes
  <2>5. /\ now \in Int /\ StabTime \in Int /\ absentAt[s] \in Int /\ began \in Int
        /\ state.servers[s].since \in Int
    BY <1>1, <2>2, TimeAssumption DEF IInv, TypeOK, Times, States, ServerStates
  <2>6. now - began <= StabTime \/ absentAt[s] + StabTime <= now
    BY <2>3, <2>4, <2>5 DEF ServerStabilizationTime
  <2> QED
    BY <2>3, <2>6
<1>2. IInv => [BeginReconcile => \A s \in toPromote' : Justified(s)]_vars
  BY <1>1
<1> QED
  BY <1>2, Invariance, PTL DEF PromotionJustified
=============================================================================
