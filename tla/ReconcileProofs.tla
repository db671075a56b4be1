-------------------------- MODULE ReconcileProofs ---------------------------
(***************************************************************************)
(* Theorems about a round of reconcile, for any finite cluster and any     *)
(* promoter.  The invariant says, for each part of the round, what it may  *)
(* have done so far to whom, and that as long as nobody else interferes    *)
(* the voters are those of the snapshot, less the demoted and plus the     *)
(* promoted ones.                                                          *)
(***************************************************************************)
EXTENDS Reconcile, FiniteSetTheorems, TLAPS

Promotable == ToPromote(snap, proposal.promotions)
Demotable == ToDemote(snap, proposal.demotions)
Failed == ToDemoteFailed(snap, proposal.demotions)

\* What each part of the round may have done.  A failed server demoted before
\* the promotions is demoted once more after them, if there were none.
Phases ==
  /\ pc \in {"idle", "demoteFailed", "transfer"} => promoted = {} /\ demoted = {}
  /\ pc = "demoteFailed" => todo \subseteq Failed /\ Odd(VotersOf(snap))
  /\ pc = "promote" => /\ todo \subseteq Promotable /\ promoted \subseteq Promotable
                       /\ demoted \subseteq Failed
                       /\ \A s, t \in demoted : s = t
                       /\ demoted # {} => Odd(VotersOf(snap))
                       /\ acted \/ promoted = {}
  /\ pc = "demote" => /\ promoted = {}
                      /\ acted \/ (todo = Demotable /\ demoted \subseteq todo)

VotersIn(c) == {s \in Servers : c[s] = "voter"}

\* The configuration is what the snapshot and the round make it.
Accounted ==
  /\ pc = "demoteFailed" => disturbed \/ cfg = SuffragesOf(snap)
  /\ pc = "promote" => disturbed \/ VotersIn(cfg) = (VotersOf(snap) \ demoted) \cup promoted

IInv == TypeOK /\ Phases /\ Accounted

-----------------------------------------------------------------------------
(* Types.                                                                  *)

Changed == [promotions : SUBSET Servers, demotions : SUBSET Servers, leader : Servers \cup {None}]

LEMMA ZeroTypes == ZeroState \in States /\ NoProposal \in Changed
BY ServersAssumption
   DEF ZeroState, Untracked, States, ServerStates, Suffrages, NoProposal, Changed

LEMMA StateTypes ==
  ASSUME cfg \in [Servers -> Suffrages], NEW healthy \in SUBSET Servers, NEW leader \in Leaders
  PROVE  StateOf(healthy, leader) \in States
<1> DEFINE srv(s) == IF cfg[s] = "none" THEN Untracked
                     ELSE [role |-> IF s = leader THEN "leader" ELSE cfg[s], healthy |-> s \in healthy]
           st == StateOf(healthy, leader)
<1>1. st.servers = [s \in Servers |-> srv(s)] /\ st.leader = leader
  BY DEF StateOf
<1>2. ASSUME NEW s \in Servers
      PROVE  srv(s) \in ServerStates /\ (srv(s).role = "leader" <=> leader = s)
  <2>1. CASE cfg[s] = "none"
    <3>1. leader # s
      BY <2>1, ServersAssumption DEF Leaders
    <3>2. Untracked \in ServerStates /\ Untracked.role = "none"
      BY DEF Untracked, ServerStates, Suffrages
    <3> QED
      BY <2>1, <3>1, <3>2
  <2>2. CASE cfg[s] # "none"
    <3>1. cfg[s] \in Suffrages /\ cfg[s] # "leader"
      BY DEF Suffrages
    <3>2. srv(s) = [role |-> IF s = leader THEN "leader" ELSE cfg[s], healthy |-> s \in healthy]
      BY <2>2
    <3>3. (s \in healthy) \in BOOLEAN
      OBVIOUS
    <3> DEFINE r == IF s = leader THEN "leader" ELSE cfg[s]
               h == s \in healthy
    <3>4. r \in Suffrages \cup {"leader"} /\ (r = "leader" <=> leader = s)
      BY <3>1
    <3> HIDE DEF r, h
    <3>5. [role |-> r, healthy |-> h].role = r
      OBVIOUS
    <3>6. ASSUME h \in BOOLEAN PROVE [role |-> r, healthy |-> h] \in ServerStates
      BY <3>4, <3>6 DEF ServerStates
    <3> QED
      BY <3>2, <3>3, <3>4, <3>5, <3>6 DEF r, h
  <2> QED
    BY <2>1, <2>2
<1>3. leader \in Servers \cup {None}
  BY DEF Leaders
<1> HIDE DEF srv
<1>4. st \in [servers : [Servers -> ServerStates], leader : Servers \cup {None}]
  BY <1>1, <1>2, <1>3 DEF StateOf, srv
<1>5. \A s \in Servers : st.servers[s].role = "leader" <=> st.leader = s
  BY <1>1, <1>2
<1> QED
  BY <1>4, <1>5 DEF States

LEMMA Lists ==
  ASSUME NEW st, NEW p \in Proposals \cup {NoProposal}
  PROVE  /\ ToPromote(st, p.promotions) \subseteq Servers
         /\ ToDemote(st, p.demotions) \subseteq Servers
         /\ ToDemoteFailed(st, p.demotions) \subseteq Servers
<1>1. p \in Changed
  BY ProposalsAssumption, ZeroTypes DEF Changed
<1> QED
  BY <1>1 DEF Changed, ToPromote, ToDemote, ToDemoteFailed

Pcs == {"idle", "demoteFailed", "promote", "demote", "transfer"}

OutsideTypes ==
  cfg \in [Servers -> Suffrages] /\ enabled \in BOOLEAN /\ state \in States /\ changes \in 0..MaxChanges

PlanTypes == snap \in States /\ proposal \in Proposals \cup {NoProposal}

PartTypes == pc \in Pcs /\ todo \subseteq Servers /\ acted \in BOOLEAN

HistoryTypes == promoted \subseteq Servers /\ demoted \subseteq Servers /\ disturbed \in BOOLEAN

LEMMA TypeParts == TypeOK <=> OutsideTypes /\ PlanTypes /\ PartTypes /\ HistoryTypes
BY DEF TypeOK, OutsideTypes, PlanTypes, PartTypes, HistoryTypes, Pcs

LEMMA TypePartsNext == TypeOK' <=> OutsideTypes' /\ PlanTypes' /\ PartTypes' /\ HistoryTypes'
BY DEF TypeOK, OutsideTypes, PlanTypes, PartTypes, HistoryTypes, Pcs

LEMMA InitTypes == Init => TypeOK
<1> SUFFICES ASSUME Init PROVE TypeOK
  OBVIOUS
<1>1. OutsideTypes
  <2>1. PICK healthy \in SUBSET Servers, leader \in Leaders : state = StateOf(healthy, leader)
    BY DEF Init
  <2>2. state \in States
    BY <2>1, StateTypes DEF Init
  <2> QED
    BY <2>2, ChangesAssumption DEF Init, OutsideTypes
<1>2. PlanTypes
  BY ZeroTypes DEF Init, PlanTypes
<1>3. PartTypes
  BY DEF Init, PartTypes, Pcs
<1>4. HistoryTypes
  BY DEF Init, HistoryTypes
<1> QED
  BY <1>1, <1>2, <1>3, <1>4, TypeParts

LEMMA ReturnTypes == ASSUME Return PROVE PlanTypes' /\ PartTypes' /\ HistoryTypes'
<1>1. PlanTypes'
  BY ZeroTypes DEF Return, PlanTypes, ZeroState, NoProposal, States, ServerStates, Untracked
<1>2. PartTypes'
  BY DEF Return, PartTypes, Pcs
<1>3. HistoryTypes'
  BY DEF Return, HistoryTypes
<1> QED
  BY <1>1, <1>2, <1>3

LEMMA DemoteTypes ==
  ASSUME cfg \in [Servers -> Suffrages], NEW s \in Servers, DemoteVoter(s)
  PROVE  cfg' \in [Servers -> Suffrages]
BY DEF DemoteVoter, Suffrages

LEMMA StepTypes == TypeOK /\ [Next]_vars => TypeOK'
<1> SUFFICES ASSUME TypeOK, [Next]_vars PROVE TypeOK'
  OBVIOUS
<1>0. OutsideTypes /\ PlanTypes /\ PartTypes /\ HistoryTypes
  BY TypeParts
<1>1. ASSUME UNCHANGED <<cfg, envVars>> PROVE OutsideTypes'
  BY <1>0, <1>1 DEF OutsideTypes, envVars
<1>2. ASSUME UNCHANGED <<snap, proposal>> PROVE PlanTypes'
  BY <1>0, <1>2 DEF PlanTypes
<1>3. ASSUME UNCHANGED <<pc, todo, acted>> PROVE PartTypes'
  BY <1>0, <1>3 DEF PartTypes
<1>4. ASSUME UNCHANGED <<promoted, demoted, disturbed>> PROVE HistoryTypes'
  BY <1>0, <1>4 DEF HistoryTypes
<1>5. ASSUME NEW part \in Pcs, NEW list \in SUBSET Servers, Goto(part, list) PROVE PartTypes'
  BY <1>5 DEF Goto, PartTypes
<1>6. ASSUME NEW p \in Proposals, BeginReconcile(p) PROVE TypeOK'
  <2>1. OutsideTypes' /\ PlanTypes'
    BY <1>0, <1>1, <1>6 DEF BeginReconcile, PlanTypes, OutsideTypes
  <2>2. PartTypes'
    <3>1. ToDemoteFailed(state, p.demotions) \subseteq Servers
          /\ ToPromote(state, p.promotions) \subseteq Servers
      BY Lists
    <3>2. Goto("demoteFailed", ToDemoteFailed(state, p.demotions))
          \/ Goto("promote", ToPromote(state, p.promotions))
      BY <1>6 DEF BeginReconcile
    <3> QED
      BY <1>5, <3>1, <3>2 DEF Pcs
  <2>3. HistoryTypes'
    BY <1>6 DEF BeginReconcile, HistoryTypes
  <2> QED
    BY <2>1, <2>2, <2>3, TypePartsNext
<1>7. ASSUME NEW s \in Servers, DemoteFailed(s) \/ Demote(s) PROVE TypeOK'
  <2>1. OutsideTypes'
    BY <1>0, <1>7, DemoteTypes DEF DemoteFailed, Demote, envVars, OutsideTypes
  <2>2. PlanTypes'
    BY <1>2, <1>7 DEF DemoteFailed, Demote
  <2>3. PartTypes'
    <3>1. CASE DemoteFailed(s)
      BY <1>0, <1>5, <3>1, Lists DEF DemoteFailed, PlanTypes, Pcs
    <3>2. CASE Demote(s)
      BY <1>0, <3>2 DEF Demote, PartTypes
    <3> QED
      BY <1>7, <3>1, <3>2
  <2>4. HistoryTypes'
    BY <1>0, <1>7 DEF DemoteFailed, Demote, HistoryTypes
  <2> QED
    BY <2>1, <2>2, <2>3, <2>4, TypePartsNext
<1>8. ASSUME NEW s \in Servers, Promote(s) PROVE TypeOK'
  <2>1. OutsideTypes'
    BY <1>0, <1>8 DEF Promote, envVars, OutsideTypes, Suffrages
  <2>2. PlanTypes'
    BY <1>2, <1>8 DEF Promote
  <2>3. PartTypes'
    BY <1>0, <1>8 DEF Promote, PartTypes
  <2>4. HistoryTypes'
    BY <1>0, <1>8 DEF Promote, HistoryTypes
  <2> QED
    BY <2>1, <2>2, <2>3, <2>4, TypePartsNext
<1>9. ASSUME Return, UNCHANGED <<cfg, envVars>> PROVE TypeOK'
  BY <1>1, <1>9, ReturnTypes, TypePartsNext
<1>10. ASSUME NEW part \in Pcs, NEW list \in SUBSET Servers, Goto(part, list),
              UNCHANGED <<cfg, envVars, snap, proposal, histVars>>
       PROVE  TypeOK'
  BY <1>1, <1>2, <1>4, <1>5, <1>10, TypePartsNext DEF histVars
<1>11. ASSUME NoneFailed \/ EndPromotions \/ EndDemotions PROVE TypeOK'
  <2>1. /\ ToPromote(snap, proposal.promotions) \subseteq Servers
        /\ ToDemote(snap, proposal.demotions) \subseteq Servers
    BY <1>0, Lists DEF PlanTypes
  <2>2. CASE NoneFailed
    BY <1>10, <2>1, <2>2 DEF NoneFailed, Pcs
  <2>3. CASE EndPromotions
    BY <1>9, <1>10, <2>1, <2>3 DEF EndPromotions, Pcs
  <2>4. CASE EndDemotions
    BY <1>9, <1>10, <2>4 DEF EndDemotions, Pcs
  <2> QED
    BY <1>11, <2>2, <2>3, <2>4
<1>12. ASSUME LeadershipTransfer \/ CallFails PROVE TypeOK'
  BY <1>9, <1>12 DEF LeadershipTransfer, CallFails
<1>13. ASSUME EnvStep PROVE TypeOK'
  <2>1. UNCHANGED <<snap, proposal, pc, todo, acted, promoted, demoted>>
    BY <1>13 DEF EnvStep, UpdateState, ChangeConfiguration, SetReconciliation, histVars
  <2>2. HistoryTypes'
    BY <1>0, <1>13
       DEF EnvStep, UpdateState, ChangeConfiguration, SetReconciliation, histVars, HistoryTypes
  <2>3. changes' \in 0..MaxChanges
    BY <1>0, <1>13, ChangesAssumption
       DEF EnvStep, UpdateState, ChangeConfiguration, SetReconciliation, Change, OutsideTypes
  <2>4. cfg' \in [Servers -> Suffrages] /\ enabled' \in BOOLEAN
    BY <1>0, <1>13
       DEF EnvStep, UpdateState, ChangeConfiguration, SetReconciliation, OutsideTypes
  <2>5. state' \in States
    BY <1>0, <1>13, StateTypes
       DEF EnvStep, UpdateState, ChangeConfiguration, SetReconciliation, OutsideTypes
  <2> QED
    BY <1>2, <1>3, <2>1, <2>2, <2>3, <2>4, <2>5, TypePartsNext DEF OutsideTypes
<1>14. ASSUME NotReconciled \/ UNCHANGED vars PROVE TypeOK'
  BY <1>14 DEF NotReconciled, vars, TypeOK
<1> QED
  BY <1>6, <1>7, <1>8, <1>11, <1>12, <1>13, <1>14 DEF Next, RoundStep

-----------------------------------------------------------------------------
(* The parts of the round.                                                 *)

\* Outside the round nothing changes what the parts are about.
LEMMA PhasesStay ==
  ASSUME Phases, UNCHANGED <<pc, snap, proposal, todo, acted, promoted, demoted>>
  PROVE  Phases'
BY DEF Phases, Promotable, Demotable, Failed, ToPromote, ToDemote, ToDemoteFailed, VotersOf, Odd

LEMMA ReturnPhases == ASSUME Return PROVE Phases' /\ Accounted'
BY DEF Return, Phases, Accounted

\* The voters of a state are those it has as voters or leader.
LEMMA SnapshotVoters == ASSUME NEW st PROVE VotersIn(SuffragesOf(st)) = VotersOf(st)
BY DEF VotersIn, SuffragesOf, VotersOf, HasVotingRights

LEMMA BeginPhases ==
  ASSUME TypeOK, NEW p \in Proposals, BeginReconcile(p)
  PROVE  Phases' /\ Accounted'
<1>1. /\ snap' = state /\ proposal' = p /\ promoted' = {} /\ demoted' = {} /\ cfg' = cfg
      /\ disturbed' = (cfg # SuffragesOf(state))
  BY DEF BeginReconcile
<1>2. /\ Promotable' = ToPromote(state, p.promotions)
      /\ Failed' = ToDemoteFailed(state, p.demotions)
      /\ VotersOf(snap)' = VotersOf(state) /\ SuffragesOf(snap)' = SuffragesOf(state)
  BY <1>1 DEF Promotable, Failed, ToPromote, ToDemote, ToDemoteFailed, VotersOf, SuffragesOf
<1>3. CASE Odd(VotersOf(state))
  <2>1. pc' = "demoteFailed" /\ todo' = Failed'
    BY <1>2, <1>3 DEF BeginReconcile, Goto
  <2>2. Odd(VotersOf(snap))'
    BY <1>2, <1>3 DEF Odd
  <2>3. disturbed' \/ cfg' = SuffragesOf(snap)'
    BY <1>1, <1>2
  <2> QED
    BY <1>1, <2>1, <2>2, <2>3 DEF Phases, Accounted
<1>4. CASE ~Odd(VotersOf(state))
  <2>1. pc' = "promote" /\ todo' = Promotable'
    BY <1>2, <1>4 DEF BeginReconcile, Goto
  <2>2. disturbed' \/ VotersIn(cfg') = VotersOf(state)
    BY <1>1, SnapshotVoters
  <2>3. Accounted'
    BY <1>1, <1>2, <2>1, <2>2 DEF Accounted, VotersIn
  <2>4. Phases'
    BY <1>1, <2>1 DEF Phases
  <2> QED
    BY <2>3, <2>4
<1> QED
  BY <1>3, <1>4

\* The steps of a round keep its snapshot and what follows from it.
LEMMA ListsKept ==
  ASSUME UNCHANGED <<snap, proposal>>
  PROVE  /\ Promotable' = Promotable /\ Demotable' = Demotable /\ Failed' = Failed
         /\ VotersOf(snap)' = VotersOf(snap) /\ SuffragesOf(snap)' = SuffragesOf(snap)
         /\ Odd(VotersOf(snap))' = Odd(VotersOf(snap))
BY DEF Promotable, Demotable, Failed, ToPromote, ToDemote, ToDemoteFailed, VotersOf, SuffragesOf, Odd

\* Promotions begin, with D demoted before them.
LEMMA PromotionsBegin ==
  ASSUME Goto("promote", ToPromote(snap, proposal.promotions)), UNCHANGED <<snap, proposal, promoted>>,
         promoted = {}, demoted' \subseteq Failed, \A s, t \in demoted' : s = t,
         demoted' # {} => Odd(VotersOf(snap)),
         disturbed' \/ VotersIn(cfg') = VotersOf(snap) \ demoted'
  PROVE  Phases' /\ Accounted'
<1>1. pc' = "promote" /\ todo' = Promotable'
  BY ListsKept DEF Goto, Promotable
<1>2. /\ demoted' \subseteq Failed' /\ (demoted' # {} => Odd(VotersOf(snap))')
      /\ VotersOf(snap)' = VotersOf(snap)
  BY ListsKept
<1>3. Phases'
  BY <1>1, <1>2 DEF Phases
<1>4. Accounted'
  BY <1>1, <1>2 DEF Accounted, VotersIn
<1> QED
  BY <1>3, <1>4

LEMMA DemoteFailedPhases ==
  ASSUME TypeOK, Phases, Accounted, NEW s \in Servers, DemoteFailed(s)
  PROVE  Phases' /\ Accounted'
<1>1. /\ pc = "demoteFailed" /\ s \in todo /\ DemoteVoter(s) /\ demoted' = demoted \cup {s}
      /\ Goto("promote", ToPromote(snap, proposal.promotions))
      /\ UNCHANGED <<snap, proposal, promoted, disturbed>>
  BY DEF DemoteFailed
<1>2. promoted = {} /\ demoted = {} /\ s \in Failed /\ Odd(VotersOf(snap))
  BY <1>1 DEF Phases
<1>3. demoted' = {s}
  BY <1>1, <1>2
<1>4. disturbed \/ cfg = SuffragesOf(snap)
  BY <1>1 DEF Accounted
<1>5. ASSUME cfg = SuffragesOf(snap) PROVE VotersIn(cfg') = VotersOf(snap) \ {s}
  <2>1. cfg[s] # "none" /\ cfg \in [Servers -> Suffrages]
    <3>1. cfg \in [Servers -> Suffrages]
      BY DEF TypeOK
    <3>2. snap.servers[s].role # "none"
      BY <1>2 DEF Failed, ToDemoteFailed, ToDemote
    <3> QED
      BY <1>5, <3>1, <3>2 DEF SuffragesOf
  <2>2. cfg' = [cfg EXCEPT ![s] = "nonvoter"]
    BY <1>1, <2>1 DEF DemoteVoter
  <2>3. VotersIn(cfg') = VotersIn(cfg) \ {s}
    BY <2>1, <2>2 DEF VotersIn
  <2> QED
    BY <1>5, <2>3, SnapshotVoters
<1>6. disturbed' \/ VotersIn(cfg') = VotersOf(snap) \ demoted'
  BY <1>1, <1>3, <1>4, <1>5
<1> QED
  BY <1>1, <1>2, <1>3, <1>6, PromotionsBegin

LEMMA NoneFailedPhases ==
  ASSUME Phases, Accounted, NoneFailed
  PROVE  Phases' /\ Accounted'
<1>1. /\ pc = "demoteFailed" /\ Goto("promote", ToPromote(snap, proposal.promotions))
      /\ UNCHANGED <<cfg, snap, proposal, promoted, demoted, disturbed>>
  BY DEF NoneFailed, histVars
<1>2. promoted = {} /\ demoted = {} /\ demoted' = {}
  BY <1>1 DEF Phases
<1>3. disturbed \/ cfg = SuffragesOf(snap)
  BY <1>1 DEF Accounted
<1>4. disturbed' \/ VotersIn(cfg') = VotersOf(snap) \ demoted'
  BY <1>1, <1>2, <1>3, SnapshotVoters
<1> QED
  BY <1>1, <1>2, <1>4, PromotionsBegin

LEMMA PromotePhases ==
  ASSUME TypeOK, Phases, Accounted, NEW s \in Servers, Promote(s)
  PROVE  Phases' /\ Accounted'
<1>1. /\ pc = "promote" /\ pc' = "promote" /\ s \in todo
      /\ cfg' = [cfg EXCEPT ![s] = "voter"] /\ promoted' = promoted \cup {s}
      /\ todo' = todo \ {s} /\ acted'
      /\ UNCHANGED <<snap, proposal, demoted, disturbed>>
  BY DEF Promote
<1>2. /\ todo \subseteq Promotable /\ promoted \subseteq Promotable
      /\ demoted \subseteq Failed /\ (\A x, y \in demoted : x = y)
      /\ demoted # {} => Odd(VotersOf(snap))
  BY <1>1 DEF Phases
<1>3. Phases'
  BY <1>1, <1>2, ListsKept DEF Phases
<1>4. s \notin demoted
  BY <1>1, <1>2 DEF Promotable, ToPromote, Failed, ToDemoteFailed
<1>5. disturbed \/ VotersIn(cfg) = (VotersOf(snap) \ demoted) \cup promoted
  BY <1>1 DEF Accounted
<1>6. VotersIn(cfg') = VotersIn(cfg) \cup {s}
  BY <1>1 DEF TypeOK, VotersIn
<1>7. Accounted'
  BY <1>1, <1>5, <1>6, ListsKept DEF Accounted, VotersIn
<1> QED
  BY <1>3, <1>7

LEMMA EndPromotionsPhases ==
  ASSUME Phases, EndPromotions
  PROVE  Phases' /\ Accounted'
<1>1. CASE Return
  BY <1>1, ReturnPhases
<1>2. CASE ~acted /\ Goto("demote", ToDemote(snap, proposal.demotions))
           /\ UNCHANGED <<snap, proposal, histVars>>
  <2>1. promoted = {} /\ demoted \subseteq Failed
    BY <1>2 DEF EndPromotions, Phases
  <2>2. demoted \subseteq Demotable
    BY <2>1 DEF Failed, Demotable, ToDemoteFailed
  <2>3. pc' = "demote" /\ todo' = Demotable /\ promoted' = {} /\ demoted' = demoted
    BY <1>2, <2>1 DEF Goto, Demotable, histVars
  <2>4. Demotable' = Demotable
    BY <1>2, ListsKept
  <2> QED
    BY <2>2, <2>3, <2>4 DEF Phases, Accounted
<1> QED
  BY <1>1, <1>2 DEF EndPromotions

LEMMA DemotePhases ==
  ASSUME Phases, NEW s \in Servers, Demote(s)
  PROVE  Phases' /\ Accounted'
<1>1. pc = "demote" /\ pc' = "demote" /\ acted' /\ promoted' = promoted
  BY DEF Demote
<1>2. promoted = {}
  BY <1>1 DEF Phases
<1> QED
  BY <1>1, <1>2 DEF Phases, Accounted

LEMMA EndDemotionsPhases ==
  ASSUME Phases, EndDemotions
  PROVE  Phases' /\ Accounted'
<1>1. CASE Return
  BY <1>1, ReturnPhases
<1>2. CASE ~acted /\ Goto("transfer", {}) /\ UNCHANGED <<snap, proposal, histVars>>
  <2>1. promoted = {} /\ demoted = {}
    BY <1>2 DEF EndDemotions, Phases
  <2>2. pc' = "transfer" /\ promoted' = {} /\ demoted' = {}
    BY <1>2, <2>1 DEF Goto, histVars
  <2> QED
    BY <2>2 DEF Phases, Accounted
<1> QED
  BY <1>1, <1>2 DEF EndDemotions

\* A change of the configuration during a round is noted.
LEMMA OutsidePhases ==
  ASSUME Phases, Accounted, EnvStep
  PROVE  Phases' /\ Accounted'
<1>1. UNCHANGED <<pc, snap, proposal, todo, acted, promoted, demoted>>
  BY DEF EnvStep, UpdateState, ChangeConfiguration, SetReconciliation, histVars
<1>2. Phases'
  BY <1>1, PhasesStay
<1>3. UNCHANGED <<cfg, disturbed>> \/ disturbed' = (pc # "idle")
  BY DEF EnvStep, UpdateState, ChangeConfiguration, SetReconciliation, histVars
<1>4. ASSUME UNCHANGED <<cfg, disturbed>> PROVE Accounted'
  BY <1>1, <1>4, ListsKept DEF Accounted, VotersIn
<1>5. ASSUME disturbed' = (pc # "idle") PROVE Accounted'
  BY <1>1, <1>5 DEF Accounted
<1> QED
  BY <1>2, <1>3, <1>4, <1>5

LEMMA InitIInv == Init => IInv
<1> SUFFICES ASSUME Init PROVE IInv
  OBVIOUS
<1>1. Phases /\ Accounted
  BY DEF Init, Phases, Accounted
<1> QED
  BY <1>1, InitTypes DEF IInv

LEMMA StepIInv == IInv /\ [Next]_vars => IInv'
<1> SUFFICES ASSUME IInv, [Next]_vars PROVE IInv'
  OBVIOUS
<1>1. TypeOK /\ Phases /\ Accounted /\ TypeOK'
  BY StepTypes DEF IInv
<1>2. ASSUME RoundStep PROVE Phases' /\ Accounted'
  <2>1. CASE NotReconciled
    BY <1>1, <2>1, PhasesStay, ListsKept DEF NotReconciled, vars, Accounted, VotersIn
  <2>2. CASE LeadershipTransfer \/ CallFails
    BY <2>2, ReturnPhases DEF LeadershipTransfer, CallFails
  <2> QED
    BY <1>1, <1>2, <2>1, <2>2, BeginPhases, NoneFailedPhases, DemoteFailedPhases, PromotePhases,
       DemotePhases, EndPromotionsPhases, EndDemotionsPhases
       DEF RoundStep
<1>3. ASSUME UNCHANGED vars PROVE Phases' /\ Accounted'
  BY <1>1, <1>3, PhasesStay, ListsKept DEF vars, Accounted, VotersIn
<1> QED
  BY <1>1, <1>2, <1>3, OutsidePhases DEF Next, IInv

LEMMA Invariance == Spec => []IInv
BY InitIInv, StepIInv, PTL DEF Spec

-----------------------------------------------------------------------------
(* Counting.                                                               *)

LEMMA AtMostOne ==
  ASSUME NEW S, \A s, t \in S : s = t
  PROVE  Cardinality(S) <= 1
<1>1. CASE S = {}
  BY <1>1, FS_EmptySet
<1>2. CASE S # {}
  <2>1. PICK s : S = {s}
    BY <1>2
  <2> QED
    BY <2>1, FS_Singleton
<1> QED
  BY <1>1, <1>2

LEMMA Disjoint ==
  ASSUME NEW S, NEW T, IsFiniteSet(S), IsFiniteSet(T), S \cap T = {}
  PROVE  Cardinality(S \cup T) = Cardinality(S) + Cardinality(T)
<1>1. Cardinality(S \cup T) = Cardinality(S) + Cardinality(T) - Cardinality(S \cap T)
  BY FS_Union
<1>2. Cardinality(S \cap T) = 0
  BY FS_EmptySet
<1>3. Cardinality(S) \in Nat /\ Cardinality(T) \in Nat
  BY FS_CardinalityType
<1> QED
  BY <1>1, <1>2, <1>3

-----------------------------------------------------------------------------
(* Theorems.                                                               *)

\* Every variable has the type of what it models.
THEOREM TypeCorrectness == Spec => []TypeOK
<1>1. IInv => TypeOK
  BY DEF IInv
<1> QED
  BY <1>1, Invariance, PTL

\* A round that comes to the leadership transfer has changed no voting
\* rights, whatever the promoter proposed.
THEOREM TransfersAreAlone == Spec => []TransferAlone
<1>1. IInv => TransferAlone
  BY DEF IInv, Phases, TransferAlone
<1> QED
  BY <1>1, Invariance, PTL

\* A round that promotes demotes at most one server, a failed one, and from
\* an odd number of voters.
THEOREM PromotionsWithOneDemotion == Spec => []PromotionsAlmostAlone
<1>1. ASSUME IInv, promoted # {}
      PROVE  /\ Cardinality(demoted) <= 1
             /\ \A s \in demoted : ~snap.servers[s].healthy
             /\ demoted # {} => Odd(VotersOf(snap))
  <2>1. pc = "promote"
    BY <1>1 DEF IInv, Phases, TypeOK
  <2>2. /\ demoted \subseteq Failed /\ (\A s, t \in demoted : s = t)
        /\ demoted # {} => Odd(VotersOf(snap))
    BY <1>1, <2>1 DEF IInv, Phases
  <2>3. Cardinality(demoted) <= 1
    BY <2>2, AtMostOne
  <2> QED
    BY <2>2, <2>3 DEF Failed, ToDemoteFailed
<1>2. IInv => PromotionsAlmostAlone
  BY <1>1 DEF PromotionsAlmostAlone
<1> QED
  BY <1>2, Invariance, PTL

\* Through its promotions a round keeps the margin of healthy voters above a
\* quorum, for any number of promotions and voters.
THEOREM MarginIsKept == Spec => []MarginKept
<1>1. ASSUME IInv, pc \in {"demoteFailed", "promote"}, ~disturbed
      PROVE  Margin(cfg) >= Margin(SuffragesOf(snap))
  <2> DEFINE V == VotersOf(snap)
             W == VotersIn(cfg)
             H(S) == {s \in S : snap.servers[s].healthy}
  <2>1. Margin(cfg) = Cardinality(H(W)) - ((Cardinality(W) \div 2) + 1)
    BY DEF Margin, VotersIn
  <2>2. Margin(SuffragesOf(snap)) = Cardinality(H(V)) - ((Cardinality(V) \div 2) + 1)
    <3>1. VotersIn(SuffragesOf(snap)) = V
      BY SnapshotVoters
    <3> QED
      BY <3>1 DEF Margin, VotersIn
  <2>3. IsFiniteSet(V) /\ IsFiniteSet(W)
    BY ServersAssumption, FS_Subset DEF VotersOf, VotersIn
  <2>4. \E D, P : /\ W = (V \ D) \cup P /\ D \subseteq Servers /\ P \subseteq Servers
                  /\ \A s, t \in D : s = t
                  /\ \A s \in D : ~snap.servers[s].healthy
                  /\ P \cap V = {} /\ \A s \in P : snap.servers[s].healthy
    <3>1. CASE pc = "demoteFailed"
      <4>1. W = V
        BY <1>1, <3>1, SnapshotVoters DEF IInv, Accounted
      <4>2. W = (V \ {}) \cup {}
        BY <4>1
      <4> WITNESS {}, {}
      <4> QED
        BY <4>2
    <3>2. CASE pc = "promote"
      <4>1. W = (V \ demoted) \cup promoted
        BY <1>1, <3>2 DEF IInv, Accounted
      <4>2. /\ promoted \subseteq Promotable /\ demoted \subseteq Failed
            /\ \A s, t \in demoted : s = t
        BY <1>1, <3>2 DEF IInv, Phases
      <4>3. demoted \subseteq Servers /\ promoted \subseteq Servers
        BY <1>1 DEF IInv, TypeOK
      <4>4. \A s \in demoted : ~snap.servers[s].healthy
        BY <4>2 DEF Failed, ToDemoteFailed
      <4>5. promoted \cap V = {} /\ \A s \in promoted : snap.servers[s].healthy
        BY <4>2 DEF Promotable, ToPromote, VotersOf
      <4> QED
        BY <4>1, <4>2, <4>3, <4>4, <4>5
    <3> QED
      BY <1>1, <3>1, <3>2
  <2>5. PICK D, P : /\ W = (V \ D) \cup P /\ D \subseteq Servers /\ P \subseteq Servers
                    /\ \A s, t \in D : s = t
                    /\ \A s \in D : ~snap.servers[s].healthy
                    /\ P \cap V = {} /\ \A s \in P : snap.servers[s].healthy
    BY <2>4
  <2>6. H(W) = H(V) \cup P /\ H(V) \subseteq V /\ H(V) \cap P = {}
    BY <2>5
  <2>7. IsFiniteSet(D) /\ IsFiniteSet(P) /\ IsFiniteSet(H(V)) /\ Cardinality(D) <= 1
    BY <2>3, <2>5, <2>6, ServersAssumption, FS_Subset, AtMostOne
  <2> HIDE DEF V, W, H
  <2>8. /\ Cardinality(H(W)) = Cardinality(H(V)) + Cardinality(P)
        /\ Cardinality(W) <= Cardinality(V) + Cardinality(P)
    <3>1. Cardinality(H(W)) = Cardinality(H(V)) + Cardinality(P)
      BY <2>6, <2>7, Disjoint
    <3>2. IsFiniteSet(V \ D) /\ Cardinality(V \ D) <= Cardinality(V) /\ (V \ D) \cap P = {}
      BY <2>3, <2>5, FS_Subset
    <3>3. Cardinality(W) = Cardinality(V \ D) + Cardinality(P)
      BY <2>5, <2>7, <3>2, Disjoint
    <3>4. Cardinality(V) \in Nat /\ Cardinality(V \ D) \in Nat /\ Cardinality(P) \in Nat
      BY <2>3, <2>7, <3>2, FS_CardinalityType
    <3> QED
      BY <3>1, <3>2, <3>3, <3>4
  <2>9. /\ Cardinality(V) \in Nat /\ Cardinality(W) \in Nat /\ Cardinality(P) \in Nat
        /\ Cardinality(H(V)) \in Nat
    BY <2>3, <2>7, FS_CardinalityType
  <2>10. ASSUME NEW v \in Nat, NEW w \in Nat, NEW p \in Nat, NEW h \in Nat, w <= v + p
         PROVE  (h + p) - ((w \div 2) + 1) >= h - ((v \div 2) + 1)
    BY <2>10
  <2> QED
    BY <2>1, <2>2, <2>8, <2>9, <2>10
<1>2. IInv => MarginKept
  BY <1>1 DEF MarginKept
<1> QED
  BY <1>2, Invariance, PTL
=============================================================================
