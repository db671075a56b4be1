-------------------------------- MODULE Prune --------------------------------
(***************************************************************************)
(* A round of pruneDeadServers (reconcile.go) with the voterRegistry of    *)
(* types.go, running while the application and Raft change under it.       *)
(*                                                                         *)
(* The round reads the Raft configuration, then the servers the            *)
(* application knows, sorts the difference into four lists and goes        *)
(* through them in four phases.  Each phase adjudicates its list against   *)
(* the registry of voters, one server per step, then removes what passed,  *)
(* one call per step.  Removing a stale server is a synchronous Raft       *)
(* change that may fail; removing a failed one tells the application,      *)
(* which acts on it when it likes.                                         *)
(*                                                                         *)
(* Servers are numbers so that the lists, sorted by server ID, are sets    *)
(* taken from the smallest up.                                             *)
(***************************************************************************)
EXTENDS Integers, FiniteSets

CONSTANTS
  Servers,     \* server IDs
  Quorums,     \* values the application may give to MinQuorum
  Filters,     \* what a Promoter may let through FilterFailedServerRemovals
  MaxChanges   \* bound on what the application does while we watch

ASSUME ServersAssumption == Servers \subseteq Nat /\ IsFiniteSet(Servers)
ASSUME QuorumsAssumption == Quorums \subseteq Nat
ASSUME FiltersAssumption == Filters \subseteq SUBSET Servers
ASSUME ChangesAssumption == MaxChanges \in Nat

VARIABLES
  raftCfg,    \* the suffrage of each server in the Raft configuration, "none" if absent
  known,      \* what KnownServers says: "unknown", "alive", or "failed" (failed or left)
  voterType,  \* the servers whose NodeType makes them potential voters
  conf,       \* what AutopilotConfig returns: CleanupDeadServers and MinQuorum
  enabled,    \* a.reconciliationEnabled
  told,       \* servers the application was told to remove and still has to
  changes,    \* number of application changes so far
  pc,         \* where the round is
  phase,      \* the list being worked on
  registry,   \* the IDs in vr.eligibility
  voters,     \* those with currentVoter
  potential,  \* those with potentialVoter
  failed,     \* the four lists of FailedServers
  todo,       \* rest of the list in hand
  result,     \* toRemove
  initialPotentialVoters, removedPotentialVoters, maxRemoval, minQuorum, \* adjudicateRemoval
  err,        \* whether removeStaleServers has met an error
  floor,      \* history: least MinQuorum used in this round
  lapsed      \* history: see Lapses

appVars   == <<raftCfg, known, voterType, conf, enabled, told, changes>>
regVars   == <<registry, voters, potential, failed>>
adjVars   == <<initialPotentialVoters, removedPotentialVoters, maxRemoval, minQuorum>>
vars == <<raftCfg, known, voterType, conf, enabled, told, changes, pc, phase, registry,
          voters, potential, failed, todo, result, initialPotentialVoters,
          removedPotentialVoters, maxRemoval, minQuorum, err, floor, lapsed>>

Phases == {"StaleNonVoters", "StaleVoters", "FailedNonVoters", "FailedVoters"}
StalePhases == {"StaleNonVoters", "StaleVoters"}
NoLists == [ph \in Phases |-> {}]

Least(S) == CHOOSE s \in S : \A t \in S : s <= t

InRaft(s) == raftCfg[s] # "none"

Init ==
  /\ raftCfg \in [Servers -> {"none", "nonvoter", "voter"}]
  /\ \E s \in Servers : raftCfg[s] = "voter"
  /\ known \in [Servers -> {"unknown", "alive", "failed"}]
  /\ voterType \in SUBSET Servers
  /\ conf \in [cleanup : BOOLEAN, minQuorum : Quorums]
  /\ enabled = TRUE
  /\ told = {} /\ changes = 0
  /\ pc = "idle" /\ phase = "StaleNonVoters"
  /\ registry = {} /\ voters = {} /\ potential = {} /\ failed = NoLists
  /\ todo = {} /\ result = {}
  /\ initialPotentialVoters = 0 /\ removedPotentialVoters = 0
  /\ maxRemoval = 0 /\ minQuorum = 0
  /\ err = FALSE
  /\ floor = 0 /\ lapsed = {}

-----------------------------------------------------------------------------
(* History.                                                                *)

\* Servers that were in Raft and, by this step, left it or are no longer
\* known to be alive.  A server on its way in, which the application knows
\* before it adds it to Raft, does not lapse.
Lapses == {s \in Servers : InRaft(s) /\ ~(raftCfg'[s] # "none" /\ known'[s] = "alive")}

Track == lapsed' = IF pc = "idle" THEN {} ELSE lapsed \cup Lapses

-----------------------------------------------------------------------------
(* getFailedServers.                                                       *)

\* The round ends: its locals are gone.
EndRound ==
  /\ pc' = "idle" /\ phase' = "StaleNonVoters"
  /\ registry' = {} /\ voters' = {} /\ potential' = {} /\ failed' = NoLists
  /\ todo' = {} /\ result' = {}
  /\ initialPotentialVoters' = 0 /\ removedPotentialVoters' = 0
  /\ maxRemoval' = 0 /\ minQuorum' = 0
  /\ err' = FALSE
  /\ floor' = 0 /\ lapsed' = {}

\* Reconciliation is disabled, or CleanupDeadServers is: nothing is done.
PruneDisabled ==
  /\ pc = "idle"
  /\ ~(enabled /\ conf.cleanup)
  /\ UNCHANGED vars

\* The two switches are read once, at the start of the round.
BeginPrune ==
  /\ pc = "idle"
  /\ enabled /\ conf.cleanup
  /\ pc' = "config"
  /\ lapsed' = {s \in Servers : InRaft(s) /\ known[s] # "alive"}
  /\ UNCHANGED <<appVars, phase, regVars, todo, result, adjVars, err, floor>>

\* getRaftConfiguration fills the registry.
ReadRaftConfig ==
  /\ pc = "config"
  /\ registry' = {s \in Servers : InRaft(s)}
  /\ voters' = {s \in Servers : raftCfg[s] = "voter"}
  /\ pc' = "known"
  /\ UNCHANGED <<appVars, phase, potential, failed, todo, result, adjVars, err, floor, lapsed>>

ReadRaftConfigFails ==
  /\ pc = "config"
  /\ EndRound
  /\ UNCHANGED appVars

\* Mutant: the status of a known server is not looked at.
ListsAnyStatus ==
  LET stale == {s \in registry : known[s] = "unknown"}
      dead  == registry \ stale
  IN [StaleNonVoters |-> stale \ voters, StaleVoters |-> stale \cap voters,
      FailedNonVoters |-> dead \ voters, FailedVoters |-> dead \cap voters]

\* Mutant: stale servers are not told apart by suffrage.
ListsNoSuffrage ==
  LET stale == {s \in registry : known[s] = "unknown"}
      dead  == {s \in registry : known[s] = "failed"}
  IN [StaleNonVoters |-> stale, StaleVoters |-> stale,
      FailedNonVoters |-> dead \ voters, FailedVoters |-> dead \cap voters]

\* The four lists, before the promoter's filter.
Lists ==
  LET stale == {s \in registry : known[s] = "unknown"}
      dead  == {s \in registry : known[s] = "failed"}
  IN [StaleNonVoters |-> stale \ voters, StaleVoters |-> stale \cap voters,
      FailedNonVoters |-> dead \ voters, FailedVoters |-> dead \cap voters]

\* KnownServers, the eligibility of the servers both sides know, and
\* FilterFailedServerRemovals.
ReadKnownServers ==
  /\ pc = "known"
  /\ potential' = {s \in registry : known[s] # "unknown"} \cap voterType
  /\ \E keep \in Filters : failed' = [ph \in Phases |-> Lists[ph] \cap keep]
  /\ pc' = "begin"
  /\ UNCHANGED <<appVars, phase, registry, voters, todo, result, adjVars, err, floor, lapsed>>

-----------------------------------------------------------------------------
(* adjudicateRemoval.                                                      *)

\* (n - 1) / 2 in Go, where division truncates towards zero.
Half(n) == IF n = 0 THEN 0 ELSE (n - 1) \div 2

PotentialVoters == registry \cap potential

\* The counters at the top of adjudicateRemoval.  MinQuorum is read anew
\* for every list; the two failed lists first go through vr.filter.
BeginAdjudication ==
  /\ pc = "begin"
  /\ todo' = IF phase \in StalePhases THEN failed[phase] ELSE failed[phase] \cap registry
  /\ result' = {}
  /\ initialPotentialVoters' = Cardinality(PotentialVoters)
  /\ removedPotentialVoters' = 0
  /\ maxRemoval' = Half(Cardinality(PotentialVoters))
  /\ minQuorum' = conf.minQuorum
  /\ floor' = IF phase = "StaleNonVoters" \/ conf.minQuorum < floor
              THEN conf.minQuorum ELSE floor
  /\ pc' = "loop"
  /\ UNCHANGED <<appVars, phase, regVars, err, lapsed>>

\* Mutant: the server at hand is not counted.
BelowQuorumOffByOne(id) ==
  id \in potential /\ initialPotentialVoters - removedPotentialVoters < minQuorum

\* "would leave less voters than the minimum number allowed"
BelowQuorum(id) ==
  id \in potential /\ initialPotentialVoters - removedPotentialVoters - 1 < minQuorum

\* Mutant: one removal too many.
NoRemovalsLeftOffByOne(id) == id \in voters /\ maxRemoval < 0

\* Mutant: servers that cannot vote are capped too.
NoRemovalsLeftForAny(id) == id \in Servers /\ maxRemoval < 1

\* "removal of a majority of voting servers is not safe"
NoRemovalsLeft(id) == id \in voters /\ maxRemoval < 1

\* One turn of the loop.
Adjudicate ==
  LET id == Least(todo)
      keeps == BelowQuorum(id) \/ NoRemovalsLeft(id)
      counts == ~keeps /\ id \in potential
  IN
  /\ pc = "loop"
  /\ todo # {}
  /\ todo' = todo \ {id}
  /\ result' = IF keeps THEN result ELSE result \cup {id}
  /\ maxRemoval' = IF counts THEN maxRemoval - 1 ELSE maxRemoval
  /\ removedPotentialVoters' = IF counts THEN removedPotentialVoters + 1 ELSE removedPotentialVoters
  /\ UNCHANGED <<appVars, pc, phase, regVars, initialPotentialVoters, minQuorum, err, floor, lapsed>>

EndAdjudication ==
  /\ pc = "loop"
  /\ todo = {}
  /\ todo' = result
  /\ pc' = "remove"
  /\ UNCHANGED <<appVars, phase, regVars, result, adjVars, err, floor, lapsed>>

-----------------------------------------------------------------------------
(* Removals.                                                               *)

\* Raft: a configuration keeps at least one voter.
RaftAllows(id) == \E s \in Servers \ {id} : raftCfg[s] = "voter"

\* raft.RemoveServer, which does nothing for a server that is gone.
RemoveStaleServer ==
  LET id == Least(todo)
  IN
  /\ pc = "remove"
  /\ phase \in StalePhases
  /\ todo # {}
  /\ RaftAllows(id)
  /\ raftCfg' = [raftCfg EXCEPT ![id] = "none"]
  /\ todo' = todo \ {id}
  /\ UNCHANGED <<known, voterType, conf, enabled, told, changes, pc, phase, regVars,
                 result, adjVars, err, floor>>
  /\ Track

\* The call fails and the others of its list are still tried.
RemoveStaleServerFails ==
  /\ pc = "remove"
  /\ phase \in StalePhases
  /\ todo # {}
  /\ todo' = todo \ {Least(todo)}
  /\ err' = TRUE
  /\ UNCHANGED <<appVars, pc, phase, regVars, result, adjVars, floor, lapsed>>

\* delegate.RemoveFailedServer only tells the application.
RemoveFailedServer ==
  /\ pc = "remove"
  /\ phase \notin StalePhases
  /\ todo # {}
  /\ told' = told \cup {Least(todo)}
  /\ todo' = todo \ {Least(todo)}
  /\ UNCHANGED <<raftCfg, known, voterType, conf, enabled, changes, pc, phase, regVars,
                 result, adjVars, err, floor, lapsed>>

\* Mutant: the last list is not known by its name.
NextPhaseMissing ==
  CASE phase = "StaleNonVoters" -> "StaleVoters"
    [] phase = "StaleVoters" -> "FailedNonVoters"
    [] OTHER -> "Done"

NextPhase ==
  CASE phase = "StaleNonVoters" -> "StaleVoters"
    [] phase = "StaleVoters" -> "FailedNonVoters"
    [] OTHER -> "FailedVoters"

\* vr.remove(toRemove...) and on to the next list.
EndPhase ==
  /\ pc = "remove"
  /\ todo = {}
  /\ ~err
  /\ phase # "FailedVoters"
  /\ registry' = registry \ result
  /\ result' = {}
  /\ phase' = NextPhase
  /\ pc' = "begin"
  /\ UNCHANGED <<appVars, voters, potential, failed, todo, adjVars, err, floor, lapsed>>

\* An error, or the end of the last list.
Return ==
  /\ pc = "remove"
  /\ todo = {}
  /\ err \/ phase = "FailedVoters"
  /\ EndRound
  /\ UNCHANGED appVars

-----------------------------------------------------------------------------
(* The application and the rest of Autopilot, at any time.                 *)

roundVars == <<pc, phase, regVars, todo, result, adjVars, err, floor>>

Change == changes < MaxChanges /\ changes' = changes + 1

\* The application's membership layer learns, suspects, or forgets a server.
SetKnown(s, k) ==
  /\ Change
  /\ known[s] # k
  /\ known' = [known EXCEPT ![s] = k]
  /\ UNCHANGED <<raftCfg, voterType, conf, enabled, told, roundVars>>
  /\ Track

\* AddServer: of a server the application knows, as a non-voter.
AddServer(s) ==
  /\ Change
  /\ known[s] = "alive" /\ ~InRaft(s)
  /\ raftCfg' = [raftCfg EXCEPT ![s] = "nonvoter"]
  /\ UNCHANGED <<known, voterType, conf, enabled, told, roundVars>>
  /\ Track

\* Promotions come from the goroutine that prunes, between two rounds.
Promote(s) ==
  /\ Change
  /\ pc = "idle"
  /\ raftCfg[s] = "nonvoter"
  /\ raftCfg' = [raftCfg EXCEPT ![s] = "voter"]
  /\ UNCHANGED <<known, voterType, conf, enabled, told, roundVars, lapsed>>

\* The application removes a server it was told to remove.
RemoveServer(s) ==
  /\ Change
  /\ s \in told
  /\ told' = told \ {s}
  /\ InRaft(s) => RaftAllows(s)
  /\ raftCfg' = [raftCfg EXCEPT ![s] = "none"]
  /\ UNCHANGED <<known, voterType, conf, enabled, roundVars>>
  /\ Track

SetConfig(cleanup, q) ==
  /\ Change
  /\ conf' = [cleanup |-> cleanup, minQuorum |-> q]
  /\ conf' # conf
  /\ UNCHANGED <<raftCfg, known, voterType, enabled, told, roundVars, lapsed>>

\* EnableReconciliation and DisableReconciliation.
SetReconciliation ==
  /\ Change
  /\ enabled' = ~enabled
  /\ UNCHANGED <<raftCfg, known, voterType, conf, told, roundVars, lapsed>>

-----------------------------------------------------------------------------

PruneStep ==
  \/ PruneDisabled
  \/ BeginPrune
  \/ ReadRaftConfig
  \/ ReadRaftConfigFails
  \/ ReadKnownServers
  \/ BeginAdjudication
  \/ Adjudicate
  \/ EndAdjudication
  \/ RemoveStaleServer
  \/ RemoveStaleServerFails
  \/ RemoveFailedServer
  \/ EndPhase
  \/ Return

AppStep ==
  \/ \E s \in Servers :
       \/ \E k \in {"unknown", "alive", "failed"} : SetKnown(s, k)
       \/ AddServer(s)
       \/ Promote(s)
       \/ RemoveServer(s)
  \/ \E cleanup \in BOOLEAN, q \in Quorums : SetConfig(cleanup, q)
  \/ SetReconciliation

Next == PruneStep \/ AppStep

Spec == Init /\ [][Next]_vars

-----------------------------------------------------------------------------
(* Properties.                                                             *)

\* Every variable has the type of the Go variable it stands for; maxRemoval
\* may go below zero, as it does there.
TypeOK ==
  /\ raftCfg \in [Servers -> {"none", "nonvoter", "voter"}]
  /\ known \in [Servers -> {"unknown", "alive", "failed"}]
  /\ voterType \subseteq Servers
  /\ conf \in [cleanup : BOOLEAN, minQuorum : Quorums]
  /\ enabled \in BOOLEAN
  /\ told \subseteq Servers
  /\ changes \in 0..MaxChanges
  /\ pc \in {"idle", "config", "known", "begin", "loop", "remove"}
  /\ phase \in Phases
  /\ registry \subseteq Servers /\ voters \subseteq Servers /\ potential \subseteq Servers
  /\ failed \in [Phases -> SUBSET Servers]
  /\ todo \subseteq Servers /\ result \subseteq Servers
  /\ initialPotentialVoters \in Nat /\ removedPotentialVoters \in Nat
  /\ maxRemoval \in Int /\ minQuorum \in Nat
  /\ err \in BOOLEAN
  /\ floor \in Nat /\ lapsed \subseteq Servers

\* The potential voters this round has given up, and those it keeps.
Condemned == potential \ (registry \ result)
Surviving == PotentialVoters \ result

\* Over all four phases of a round, and although MinQuorum is read again in
\* each of them: once a potential voter has been given up, at least the
\* least MinQuorum in force remains (the counters of adjudicateRemoval and
\* the registry handed from phase to phase).
RoundKeepsQuorum == Condemned # {} => Cardinality(Surviving) >= floor

\* The failed voters given up in one round are fewer than half of the
\* potential voters (maxRemoval).
MinorityRemoved ==
  LET gone == result \cap potential \cap voters
  IN gone # {} => 2 * Cardinality(gone) < Cardinality(PotentialVoters)

\* Every ID that adjudicateRemoval meets is in the registry: the entry it
\* dereferences with v.isCurrentVoter() is not nil.
NoNilEligibility == pc = "loop" => todo \subseteq registry

\* A round removes no server that was a healthy member all along: not one
\* that stayed in Raft and alive to the application, and not one that was
\* just joining while the round read first Raft, then the application.
OnlyLapsedRemoved == result \subseteq lapsed

-----------------------------------------------------------------------------
(* Liveness.  Rounds follow each other as the reconcile ticker fires and   *)
(* run to their end, whatever fails in them; Raft does not refuse the same *)
(* call for ever, nor is its configuration out of reach for ever.          *)

RoundProgress == PruneStep /\ ~PruneDisabled

Fairness ==
  /\ WF_vars(RoundProgress)
  /\ SF_vars(ReadRaftConfig)
  /\ \A s \in Servers : SF_vars(s \in todo /\ s = Least(todo) /\ RemoveStaleServer)

FairSpec == Spec /\ Fairness

\* A non-voter that the application has forgotten for good does not stay in
\* Raft: neither the caps on voters, nor errors about other servers, nor
\* changes of the configuration in mid-round keep it there.
StaleNonVoterPruned ==
  \A s \in Servers :
    []<>~(raftCfg[s] = "nonvoter" /\ known[s] = "unknown" /\ enabled /\ conf.cleanup)

-----------------------------------------------------------------------------
(* What the comments promise and the code does not keep.                   *)

\* "removal of a majority of voting servers is not safe": a phase removes
\* less than half of the current voters.
VoterMajorityKept ==
  LET gone == result \cap voters
  IN gone # {} => 2 * Cardinality(gone) < Cardinality(registry \cap voters)
=============================================================================
