----------------------------- MODULE PruneProofs -----------------------------
(***************************************************************************)
(* Proofs, for any set of servers, any MinQuorum settings, any promoter's  *)
(* filter and any number of changes by the application, of the properties  *)
(* of a round of pruneDeadServers.                                         *)
(*                                                                         *)
(* The strengthening says what the locals of the round mean.  The counters *)
(* of adjudicateRemoval are the cardinalities of the sets they count       *)
(* (Counted), the lists are disjoint and those still to come are in the    *)
(* registry (Sorted), and what is a candidate for removal lapsed during    *)
(* the round (Traced).                                                     *)
(***************************************************************************)
EXTENDS Prune, FiniteSetTheorems, WellFoundedInduction, TLAPS

Deciding == pc \in {"begin", "loop", "remove"}
Earlier(ph, qh) ==
  \/ ph = "StaleNonVoters" /\ qh # "StaleNonVoters"
  \/ ph = "StaleVoters" /\ qh \in {"FailedNonVoters", "FailedVoters"}
  \/ ph = "FailedNonVoters" /\ qh = "FailedVoters"

\* Outside the decisions nothing is decided; the lists are disjoint, and the
\* ones not yet worked on are still in the registry.
Sorted ==
  /\ ~Deciding => potential = {} /\ phase = "StaleNonVoters" /\ failed = NoLists
  /\ pc \notin {"loop", "remove"} => result = {}
  /\ Deciding => \A qh \in Phases : ~Earlier(qh, phase) => failed[qh] \subseteq registry
  /\ \A ph, qh \in Phases : ph # qh => failed[ph] \cap failed[qh] = {}
  /\ failed["StaleVoters"] \cup failed["FailedVoters"] \subseteq voters
  /\ failed["StaleNonVoters"] \cap voters = {} /\ failed["FailedNonVoters"] \cap voters = {}
  /\ result \subseteq failed[phase]
  /\ pc = "loop" => todo \subseteq failed[phase] /\ todo \cap result = {}
  /\ phase = "StaleNonVoters" /\ pc = "begin" => potential \subseteq registry

\* The counters count: potential voters at the start of the phase, those
\* condemned since, and the removals left.
Counted ==
  pc \in {"loop", "remove"} =>
    /\ initialPotentialVoters = Cardinality(PotentialVoters)
    /\ removedPotentialVoters = Cardinality(result \cap potential)
    /\ maxRemoval = Half(initialPotentialVoters) - removedPotentialVoters
    /\ floor <= minQuorum
    /\ phase \in {"StaleVoters", "FailedVoters"} /\ removedPotentialVoters > 0 =>
         removedPotentialVoters <= Half(initialPotentialVoters)

\* A server the round may still find stale or failed is a healthy member
\* until it lapses, and a server in a list has lapsed.
Traced ==
  /\ pc = "config" => \A s \in Servers : InRaft(s) => s \in lapsed \/ known[s] = "alive"
  /\ pc = "known" => \A s \in registry : s \in lapsed \/ (InRaft(s) /\ known[s] = "alive")
  /\ \A ph \in Phases : failed[ph] \subseteq lapsed

IInv == TypeOK /\ Sorted /\ Counted /\ Traced /\ RoundKeepsQuorum

\* The head of a non-empty list sorted by ID is one of its members.
LEMMA LeastIn ==
  ASSUME NEW S \in SUBSET Nat, S # {}
  PROVE  Least(S) \in S
<1> DEFINE R == {ss \in Nat \X Nat : ss[1] < ss[2]}
<1>1. IsWellFoundedOn(R, Nat)
  BY NatLessThanWellFounded, Zenon DEF OpToRel
<1> HIDE DEF R
<1>2. PICK m \in S : \A y \in S : ~(<<y, m>> \in R)
  BY <1>1, WFMin, Zenon
<1>3. \A t \in S : m <= t
  <2> SUFFICES ASSUME NEW t \in S, t < m PROVE FALSE
    OBVIOUS
  <2>1. <<t, m>> \in R
    BY DEF R
  <2> QED
    BY <1>2, <2>1
<1> QED
  BY <1>3 DEF Least

-----------------------------------------------------------------------------
(* Arithmetic of a phase.                                                  *)

\* Sets of servers are finite.
LEMMA FiniteServers ==
  ASSUME NEW S \in SUBSET Servers
  PROVE  IsFiniteSet(S) /\ Cardinality(S) \in Nat
  BY ServersAssumption, FS_Subset, FS_CardinalityType

\* (n - 1) / 2 is less than half of n.
LEMMA HalfBound ==
  ASSUME NEW n \in Nat
  PROVE  /\ Half(n) \in Nat
         /\ n > 0 => 2 * Half(n) < n
  BY DEF Half

\* Empty lists are lists of servers.
LEMMA NoListsType == NoLists \in [Phases -> SUBSET Servers] /\ "StaleNonVoters" \in Phases
  BY DEF NoLists, Phases

\* The initial state satisfies the inductive invariant.
LEMMA InitIInv == Init => IInv
<1> SUFFICES ASSUME Init PROVE IInv
  OBVIOUS
<1>1. TypeOK
  <2>1. failed \in [Phases -> SUBSET Servers] /\ phase \in Phases
    BY NoListsType DEF Init
  <2>2. enabled \in BOOLEAN /\ err \in BOOLEAN
    BY DEF Init
  <2> QED
    BY <2>1, <2>2, ChangesAssumption DEF Init, TypeOK
<1>2. Sorted
  BY DEF Init, Sorted, Deciding, NoLists, Phases
<1>3. Counted /\ Traced /\ RoundKeepsQuorum
  BY DEF Init, Counted, Traced, RoundKeepsQuorum, Condemned, NoLists, Phases
<1> QED
  BY <1>1, <1>2, <1>3 DEF IInv

-----------------------------------------------------------------------------
(* Every step.                                                             *)

\* A step keeps every variable in its type.
LEMMA StepTypeOK == TypeOK /\ [Next]_vars => TypeOK'
<1> SUFFICES ASSUME TypeOK, [Next]_vars PROVE TypeOK'
  OBVIOUS
<1> USE DEF TypeOK, vars, appVars, regVars, adjVars, roundVars
<1>1. CASE BeginPrune
  BY <1>1 DEF BeginPrune
<1>2. CASE ReadRaftConfig
  BY <1>2 DEF ReadRaftConfig
<1>3. CASE ReadRaftConfigFails
  <2>1. failed' \in [Phases -> SUBSET Servers] /\ phase' \in Phases
    BY <1>3, NoListsType DEF ReadRaftConfigFails, EndRound
  <2>2. err' \in BOOLEAN
    BY <1>3 DEF ReadRaftConfigFails, EndRound
  <2> QED
    BY <1>3, <2>1, <2>2 DEF ReadRaftConfigFails, EndRound
<1>4. CASE ReadKnownServers
  BY <1>4 DEF ReadKnownServers, Lists, Phases
<1>5. CASE BeginAdjudication
  <2>1. Cardinality(PotentialVoters) \in Nat
    BY FiniteServers DEF PotentialVoters
  <2>2. conf.minQuorum \in Nat
    BY QuorumsAssumption
  <2> QED
    BY <1>5, <2>1, <2>2, HalfBound DEF BeginAdjudication
<1>6. CASE Adjudicate
  <2>1. Least(todo) \in todo
    BY <1>6, LeastIn, ServersAssumption DEF Adjudicate
  <2> QED
    BY <1>6, <2>1 DEF Adjudicate
<1>7. CASE EndAdjudication
  BY <1>7 DEF EndAdjudication
<1>8. CASE RemoveStaleServer
  BY <1>8 DEF RemoveStaleServer, Track, Lapses
<1>9. CASE RemoveStaleServerFails
  BY <1>9 DEF RemoveStaleServerFails
<1>10. CASE RemoveFailedServer
  <2>1. Least(todo) \in todo
    BY <1>10, LeastIn, ServersAssumption DEF RemoveFailedServer
  <2> QED
    BY <1>10, <2>1 DEF RemoveFailedServer
<1>11. CASE EndPhase
  BY <1>11 DEF EndPhase, NextPhase, Phases
<1>12. CASE Return
  <2>1. failed' \in [Phases -> SUBSET Servers] /\ phase' \in Phases
    BY <1>12, NoListsType DEF Return, EndRound
  <2>2. err' \in BOOLEAN
    BY <1>12 DEF Return, EndRound
  <2> QED
    BY <1>12, <2>1, <2>2 DEF Return, EndRound
<1>13. ASSUME NEW s \in Servers, NEW k \in {"unknown", "alive", "failed"}, SetKnown(s, k)
       PROVE  TypeOK'
  BY <1>13, ChangesAssumption DEF SetKnown, Change, Track, Lapses
<1>14. ASSUME NEW s \in Servers, AddServer(s) PROVE TypeOK'
  BY <1>14, ChangesAssumption DEF AddServer, Change, Track, Lapses
<1>15. ASSUME NEW s \in Servers, Promote(s) PROVE TypeOK'
  BY <1>15, ChangesAssumption DEF Promote, Change
<1>16. ASSUME NEW s \in Servers, RemoveServer(s) PROVE TypeOK'
  BY <1>16, ChangesAssumption DEF RemoveServer, Change, Track, Lapses
<1>17. ASSUME NEW cleanup \in BOOLEAN, NEW q \in Quorums, SetConfig(cleanup, q) PROVE TypeOK'
  BY <1>17, ChangesAssumption DEF SetConfig, Change
<1>18. CASE SetReconciliation
  BY <1>18, ChangesAssumption DEF SetReconciliation, Change
<1>19. CASE UNCHANGED vars
  BY <1>19
<1> QED
  BY <1>1, <1>2, <1>3, <1>4, <1>5, <1>6, <1>7, <1>8, <1>9, <1>10, <1>11, <1>12, <1>13,
     <1>14, <1>15, <1>16, <1>17, <1>18, <1>19
     DEF Next, PruneStep, AppStep, PruneDisabled

\* A step of the application leaves the locals of the round alone.
LEMMA AppLeavesRound == AppStep => UNCHANGED roundVars
  BY DEF AppStep, SetKnown, AddServer, Promote, RemoveServer, SetConfig, SetReconciliation

\* A step keeps the lists disjoint and, until their phase, in the registry:
\* vr.remove takes out only servers of the list just worked on.
LEMMA StepSorted == TypeOK /\ Sorted /\ [Next]_vars => Sorted'
<1> SUFFICES ASSUME TypeOK, Sorted, [Next]_vars PROVE Sorted'
  OBVIOUS
<1> USE DEF Sorted, Deciding
<1>1. CASE BeginPrune
  BY <1>1 DEF BeginPrune, TypeOK, regVars
<1>2. CASE ReadRaftConfig
  BY <1>2 DEF ReadRaftConfig, NoLists, Phases
<1>3. CASE ReadRaftConfigFails \/ Return
  BY <1>3 DEF ReadRaftConfigFails, Return, EndRound, NoLists, Phases
<1>4. CASE ReadKnownServers
  <2>1. PICK keep \in Filters : failed' = [ph \in Phases |-> Lists[ph] \cap keep]
    BY <1>4 DEF ReadKnownServers
  <2>2. /\ failed'["StaleVoters"] \cup failed'["FailedVoters"] \subseteq voters
        /\ failed'["StaleNonVoters"] \cap voters = {} /\ failed'["FailedNonVoters"] \cap voters = {}
        /\ \A ph \in Phases : failed'[ph] \subseteq registry
        /\ failed'["StaleVoters"] \cap failed'["FailedVoters"] = {}
        /\ failed'["StaleNonVoters"] \cap failed'["FailedNonVoters"] = {}
    BY <2>1 DEF Lists, Phases
  <2> QED
    BY <1>4, <2>2 DEF ReadKnownServers, Phases
<1>5. CASE BeginAdjudication
  BY <1>5 DEF BeginAdjudication, regVars, StalePhases, Phases, TypeOK, Earlier
<1>6. CASE Adjudicate
  <2>1. Least(todo) \in todo
    BY <1>6, LeastIn, ServersAssumption DEF Adjudicate, TypeOK
  <2> QED
    BY <1>6, <2>1 DEF Adjudicate, regVars
<1>7. CASE EndAdjudication
  BY <1>7 DEF EndAdjudication, regVars
<1>8. CASE RemoveStaleServer \/ RemoveStaleServerFails \/ RemoveFailedServer
  BY <1>8 DEF RemoveStaleServer, RemoveStaleServerFails, RemoveFailedServer, regVars
<1>9. CASE EndPhase
  BY <1>9 DEF EndPhase, NextPhase, Phases, Earlier, TypeOK
<1>10. CASE AppStep \/ UNCHANGED vars
  BY <1>10, AppLeavesRound DEF roundVars, vars, regVars
<1> QED
  BY <1>1, <1>2, <1>3, <1>4, <1>5, <1>6, <1>7, <1>8, <1>9, <1>10
     DEF Next, PruneStep, PruneDisabled

\* A step keeps the counters of adjudicateRemoval equal to what they count.
LEMMA StepCounted == TypeOK /\ Sorted /\ Counted /\ [Next]_vars => Counted'
<1> SUFFICES ASSUME TypeOK, Sorted, Counted, [Next]_vars, pc' \in {"loop", "remove"}
             PROVE  Counted'
  BY DEF Counted
<1>1. CASE BeginAdjudication
  <2>1. Cardinality({} \cap potential) = 0
    BY FS_EmptySet
  <2>2. Cardinality(PotentialVoters) \in Nat /\ conf.minQuorum \in Nat
    BY FiniteServers, QuorumsAssumption DEF PotentialVoters, TypeOK
  <2>3. PotentialVoters' = PotentialVoters
    BY <1>1 DEF BeginAdjudication, regVars, PotentialVoters
  <2>4. floor' <= minQuorum'
    BY <1>1, <2>2 DEF BeginAdjudication, TypeOK
  <2>5. (result \cap potential)' = {} \cap potential
    BY <1>1 DEF BeginAdjudication, regVars
  <2> QED
    BY <1>1, <2>1, <2>2, <2>3, <2>4, <2>5, HalfBound DEF BeginAdjudication, Counted
<1>2. CASE Adjudicate
  <2> DEFINE id == Least(todo)
  <2>1. id \in todo /\ id \notin result
    BY <1>2, LeastIn, ServersAssumption DEF Adjudicate, TypeOK, Sorted
  <2>2. PotentialVoters' = PotentialVoters
    BY <1>2 DEF Adjudicate, regVars, PotentialVoters
  <2>3. IsFiniteSet(result \cap potential)
    BY FiniteServers DEF TypeOK
  <2>4. CASE BelowQuorum(id) \/ NoRemovalsLeft(id)
    BY <1>2, <2>2, <2>4 DEF Adjudicate, Counted, regVars
  <2>5. CASE ~(BelowQuorum(id) \/ NoRemovalsLeft(id)) /\ id \notin potential
    <3>1. (result \cap potential)' = result \cap potential
      BY <1>2, <2>5 DEF Adjudicate, regVars
    <3> QED
      BY <1>2, <2>2, <2>5, <3>1 DEF Adjudicate, Counted, regVars
  <2>6. CASE ~(BelowQuorum(id) \/ NoRemovalsLeft(id)) /\ id \in potential
    <3>1. (result \cap potential)' = (result \cap potential) \cup {id}
      BY <1>2, <2>6 DEF Adjudicate, regVars
    <3>2. Cardinality((result \cap potential) \cup {id}) = Cardinality(result \cap potential) + 1
      BY <2>1, <2>3, FS_AddElement
    <3>3. phase \in {"StaleVoters", "FailedVoters"} => id \in voters
      BY <1>2, <2>1 DEF Sorted, Adjudicate
    <3>4. phase \in {"StaleVoters", "FailedVoters"} => maxRemoval >= 1
      BY <2>6, <3>3 DEF NoRemovalsLeft, TypeOK
    <3>5. /\ initialPotentialVoters' = initialPotentialVoters
          /\ removedPotentialVoters' = removedPotentialVoters + 1
          /\ maxRemoval' = maxRemoval - 1
          /\ phase' = phase /\ floor' = floor /\ minQuorum' = minQuorum
      BY <1>2, <2>6 DEF Adjudicate
    <3>6. /\ initialPotentialVoters = Cardinality(PotentialVoters)
          /\ removedPotentialVoters = Cardinality(result \cap potential)
          /\ maxRemoval = Half(initialPotentialVoters) - removedPotentialVoters
          /\ floor <= minQuorum
      BY <1>2 DEF Counted, Adjudicate
    <3>7. Half(initialPotentialVoters) \in Nat
      BY HalfBound DEF TypeOK
    <3>8. Half(initialPotentialVoters)' = Half(initialPotentialVoters)
      BY <3>5 DEF Half
    <3>9. maxRemoval' = Half(initialPotentialVoters)' - removedPotentialVoters'
      BY <3>5, <3>6, <3>7, <3>8 DEF TypeOK
    <3>10. phase' \in {"StaleVoters", "FailedVoters"} =>
             removedPotentialVoters' <= Half(initialPotentialVoters)'
      BY <3>4, <3>5, <3>6, <3>7, <3>8 DEF TypeOK
    <3>11. removedPotentialVoters' = Cardinality(result \cap potential)'
      BY <3>1, <3>2, <3>5, <3>6
    <3>12. initialPotentialVoters' = Cardinality(PotentialVoters)'
      BY <2>2, <3>5, <3>6
    <3> QED
      BY <3>5, <3>6, <3>9, <3>10, <3>11, <3>12 DEF Counted
  <2> QED
    BY <2>4, <2>5, <2>6
<1>3. CASE EndAdjudication
  BY <1>3 DEF EndAdjudication, Counted, regVars, adjVars, PotentialVoters
<1>4. CASE RemoveStaleServer \/ RemoveStaleServerFails \/ RemoveFailedServer
  BY <1>4 DEF RemoveStaleServer, RemoveStaleServerFails, RemoveFailedServer, Counted, regVars,
     adjVars, PotentialVoters
<1>5. CASE AppStep \/ UNCHANGED vars
  BY <1>5, AppLeavesRound DEF roundVars, vars, regVars, adjVars, Counted, PotentialVoters
<1> QED
  BY <1>1, <1>2, <1>3, <1>4, <1>5
     DEF Next, PruneStep, PruneDisabled, BeginPrune, ReadRaftConfig, ReadRaftConfigFails,
         ReadKnownServers, EndPhase, Return, EndRound

\* A step keeps the quorum.  The interesting step gives up a potential
\* voter: the counters say how many survive.
LEMMA StepRoundKeepsQuorum ==
  TypeOK /\ Sorted /\ Counted /\ RoundKeepsQuorum /\ [Next]_vars => RoundKeepsQuorum'
<1> SUFFICES ASSUME TypeOK, Sorted, Counted, RoundKeepsQuorum, [Next]_vars
             PROVE  RoundKeepsQuorum'
  OBVIOUS
<1> USE DEF RoundKeepsQuorum
<1>1. CASE BeginPrune \/ ReadRaftConfig
  BY <1>1 DEF BeginPrune, ReadRaftConfig, Sorted, Deciding, Condemned, regVars
<1>2. CASE ReadRaftConfigFails \/ Return
  BY <1>2 DEF ReadRaftConfigFails, Return, EndRound, Condemned
<1>3. CASE ReadKnownServers
  BY <1>3 DEF ReadKnownServers, Sorted, Condemned
<1>4. CASE BeginAdjudication
  <2>1. Condemned' = Condemned /\ Surviving' = Surviving
    BY <1>4 DEF BeginAdjudication, Sorted, Condemned, Surviving, PotentialVoters, regVars
  <2>2. CASE phase = "StaleNonVoters"
    BY <1>4, <2>1, <2>2 DEF BeginAdjudication, Sorted, Condemned
  <2>3. CASE phase # "StaleNonVoters"
    <3>1. floor' <= floor
      BY <1>4, <2>3, QuorumsAssumption DEF BeginAdjudication, TypeOK
    <3>2. Cardinality(Surviving) \in Nat /\ floor' \in Nat
      BY <1>4, FiniteServers, QuorumsAssumption DEF BeginAdjudication, TypeOK, Surviving, PotentialVoters
    <3> QED
      BY <2>1, <3>1, <3>2 DEF TypeOK
  <2> QED
    BY <2>2, <2>3
<1>5. CASE Adjudicate
  <2> DEFINE id == Least(todo)
  <2>1. id \in todo /\ id \in registry /\ id \notin result /\ result \subseteq registry
    BY <1>5, LeastIn, ServersAssumption DEF Adjudicate, TypeOK, Sorted, Deciding, Earlier, Phases
  <2>2. CASE BelowQuorum(id) \/ NoRemovalsLeft(id)
    BY <1>5, <2>2 DEF Adjudicate, Condemned, Surviving, PotentialVoters, regVars
  <2>3. CASE ~(BelowQuorum(id) \/ NoRemovalsLeft(id)) /\ id \notin potential
    <3>1. Condemned' = Condemned /\ Surviving' = Surviving /\ floor' = floor
      BY <1>5, <2>3 DEF Adjudicate, Condemned, Surviving, PotentialVoters, regVars
    <3> QED
      BY <3>1
  <2>4. CASE ~(BelowQuorum(id) \/ NoRemovalsLeft(id)) /\ id \in potential
    <3>1. Surviving' = PotentialVoters \ (result \cup {id}) /\ floor' = floor
      BY <1>5, <2>4 DEF Adjudicate, Surviving, PotentialVoters, regVars
    <3>2. IsFiniteSet(PotentialVoters) /\ IsFiniteSet(result \cap potential)
          /\ Cardinality(PotentialVoters) \in Nat /\ Cardinality(result \cap potential) \in Nat
      BY FiniteServers DEF PotentialVoters, TypeOK
    <3>3. PotentialVoters \cap (result \cup {id}) = (result \cap potential) \cup {id}
      BY <2>1, <2>4 DEF PotentialVoters
    <3>4. Cardinality((result \cap potential) \cup {id}) = Cardinality(result \cap potential) + 1
      BY <2>1, <3>2, FS_AddElement
    <3>5. Cardinality(PotentialVoters \ (result \cup {id}))
            = Cardinality(PotentialVoters) - Cardinality(PotentialVoters \cap (result \cup {id}))
      BY <3>2, FS_Difference
    <3>6. /\ initialPotentialVoters = Cardinality(PotentialVoters)
          /\ removedPotentialVoters = Cardinality(result \cap potential)
          /\ floor <= minQuorum
      BY <1>5 DEF Counted, Adjudicate
    <3>7. initialPotentialVoters - removedPotentialVoters - 1 >= minQuorum
      BY <2>4 DEF BelowQuorum, TypeOK
    <3>8. Cardinality(Surviving') = initialPotentialVoters - (removedPotentialVoters + 1)
      BY <3>1, <3>3, <3>4, <3>5, <3>6
    <3>9. Cardinality(Surviving') >= floor
      BY <3>6, <3>7, <3>8 DEF TypeOK
    <3> QED
      BY <3>1, <3>9
  <2> QED
    BY <2>2, <2>3, <2>4
<1>6. CASE EndAdjudication
  BY <1>6 DEF EndAdjudication, Condemned, Surviving, PotentialVoters, regVars
<1>7. CASE RemoveStaleServer \/ RemoveStaleServerFails \/ RemoveFailedServer
  BY <1>7 DEF RemoveStaleServer, RemoveStaleServerFails, RemoveFailedServer, Condemned,
     Surviving, PotentialVoters, regVars
<1>8. CASE EndPhase
  <2>1. Condemned' = Condemned /\ Surviving' = Surviving /\ floor' = floor
    BY <1>8 DEF EndPhase, Condemned, Surviving, PotentialVoters
  <2> QED
    BY <2>1
<1>9. CASE AppStep \/ UNCHANGED vars
  BY <1>9, AppLeavesRound DEF roundVars, vars, regVars, Condemned, Surviving, PotentialVoters
<1> QED
  BY <1>1, <1>2, <1>3, <1>4, <1>5, <1>6, <1>7, <1>8, <1>9
     DEF Next, PruneStep, PruneDisabled

\* A step keeps the trace: a member of Raft is alive or has lapsed when the
\* configuration is read, and from then until the application is asked.
LEMMA StepTraced == TypeOK /\ Sorted /\ Traced /\ [Next]_vars => Traced'
<1> SUFFICES ASSUME TypeOK, Sorted, Traced, [Next]_vars PROVE Traced'
  OBVIOUS
<1> USE DEF Traced, InRaft
<1>1. CASE BeginPrune
  BY <1>1 DEF BeginPrune, appVars, regVars, Sorted, Deciding, NoLists
<1>2. CASE ReadRaftConfig
  BY <1>2 DEF ReadRaftConfig, appVars
<1>3. CASE ReadRaftConfigFails \/ Return
  BY <1>3 DEF ReadRaftConfigFails, Return, EndRound, NoLists
<1>4. CASE ReadKnownServers
  <2>1. PICK keep \in Filters : failed' = [ph \in Phases |-> Lists[ph] \cap keep]
    BY <1>4 DEF ReadKnownServers
  <2>2. \A ph \in Phases : Lists[ph] \subseteq lapsed
    BY <1>4 DEF ReadKnownServers, Lists, Phases, TypeOK
  <2> QED
    BY <1>4, <2>1, <2>2 DEF ReadKnownServers
<1>5. CASE BeginAdjudication \/ Adjudicate \/ EndAdjudication \/ EndPhase
  BY <1>5 DEF BeginAdjudication, Adjudicate, EndAdjudication, EndPhase, regVars, appVars
<1>6. CASE RemoveStaleServer
  BY <1>6 DEF RemoveStaleServer, regVars, Track
<1>7. CASE RemoveStaleServerFails \/ RemoveFailedServer
  BY <1>7 DEF RemoveStaleServerFails, RemoveFailedServer, regVars, appVars
<1>8. ASSUME NEW s \in Servers, NEW k \in {"unknown", "alive", "failed"}, SetKnown(s, k)
      PROVE  Traced'
  BY <1>8 DEF SetKnown, Track, Lapses, roundVars, regVars, TypeOK, Sorted, Deciding, NoLists
<1>9. ASSUME NEW s \in Servers, AddServer(s) PROVE Traced'
  BY <1>9 DEF AddServer, Track, Lapses, roundVars, regVars, TypeOK, Sorted, Deciding, NoLists
<1>10. ASSUME NEW s \in Servers, Promote(s) PROVE Traced'
  BY <1>10 DEF Promote, roundVars, regVars, TypeOK
<1>11. ASSUME NEW s \in Servers, RemoveServer(s) PROVE Traced'
  BY <1>11 DEF RemoveServer, Track, Lapses, roundVars, regVars, TypeOK, Sorted, Deciding, NoLists
<1>12. ASSUME NEW cleanup \in BOOLEAN, NEW q \in Quorums, SetConfig(cleanup, q) PROVE Traced'
  BY <1>12 DEF SetConfig, roundVars, regVars
<1>13. CASE SetReconciliation \/ UNCHANGED vars
  BY <1>13 DEF SetReconciliation, roundVars, regVars, vars
<1> QED
  BY <1>1, <1>2, <1>3, <1>4, <1>5, <1>6, <1>7, <1>8, <1>9, <1>10, <1>11, <1>12, <1>13
     DEF Next, PruneStep, AppStep, PruneDisabled

-----------------------------------------------------------------------------
(* The properties.                                                         *)

\* The inductive invariant holds in every reachable state.
THEOREM Invariance == Spec => []IInv
<1>1. IInv /\ [Next]_vars => IInv'
  BY StepTypeOK, StepSorted, StepCounted, StepTraced, StepRoundKeepsQuorum DEF IInv
<1> QED
  BY <1>1, InitIInv, PTL DEF Spec

\* Every variable keeps its type.
THEOREM TypeCorrectness == Spec => []TypeOK
<1>1. IInv => TypeOK
  BY DEF IInv
<1> QED
  BY <1>1, Invariance, PTL

\* No round takes the potential voters below MinQuorum, in whatever order
\* the application changes MinQuorum, the servers and Raft meanwhile.
THEOREM QuorumKept == Spec => []RoundKeepsQuorum
<1>1. IInv => RoundKeepsQuorum
  BY DEF IInv
<1> QED
  BY <1>1, Invariance, PTL

\* The failed voters a round gives up are a minority of the potential voters.
THEOREM MinorityOnly == Spec => []MinorityRemoved
<1>1. IInv => MinorityRemoved
  <2> SUFFICES ASSUME IInv, result \cap potential \cap voters # {}
               PROVE  2 * Cardinality(result \cap potential \cap voters) < Cardinality(PotentialVoters)
    BY DEF MinorityRemoved
  <2>1. pc \in {"loop", "remove"} /\ phase \in {"StaleVoters", "FailedVoters"}
    BY DEF IInv, Sorted, TypeOK, Phases
  <2>2. result \cap potential \cap voters = result \cap potential
    BY <2>1 DEF IInv, Sorted
  <2>3. IsFiniteSet(result \cap potential) /\ Cardinality(result \cap potential) \in Nat
        /\ Cardinality(PotentialVoters) \in Nat
    BY FiniteServers DEF IInv, TypeOK, PotentialVoters
  <2>4. Cardinality(result \cap potential) > 0
    BY <2>2, <2>3, FS_EmptySet
  <2>5. Cardinality(result \cap potential) <= Half(Cardinality(PotentialVoters))
    BY <2>1, <2>4 DEF IInv, Counted
  <2>6. Cardinality(PotentialVoters) > 0
    BY <2>3, <2>4, <2>5 DEF Half
  <2> DEFINE n == Cardinality(PotentialVoters)
             g == Cardinality(result \cap potential)
  <2>7. 2 * Half(n) < n /\ Half(n) \in Nat
    BY <2>3, <2>6, HalfBound
  <2>8. n \in Nat /\ g \in Nat /\ g <= Half(n)
    BY <2>3, <2>5
  <2> HIDE DEF n, g
  <2>9. 2 * g < n
    BY <2>7, <2>8
  <2> QED
    BY <2>2, <2>9 DEF n, g
<1> QED
  BY <1>1, Invariance, PTL

\* adjudicateRemoval never dereferences a missing registry entry.
THEOREM NoNilDereference == Spec => []NoNilEligibility
<1>1. IInv => NoNilEligibility
  BY DEF IInv, Sorted, NoNilEligibility, Deciding, Earlier, TypeOK
<1> QED
  BY <1>1, Invariance, PTL

\* A server that stayed a healthy member, or was on its way in, is never
\* removed by a round that read Raft first and the application second.
THEOREM HealthyStay == Spec => []OnlyLapsedRemoved
<1>1. IInv => OnlyLapsedRemoved
  BY DEF IInv, Sorted, Traced, OnlyLapsedRemoved, TypeOK
<1> QED
  BY <1>1, Invariance, PTL
=============================================================================
