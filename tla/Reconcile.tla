------------------------------ MODULE Reconcile ------------------------------
(***************************************************************************)
(* A round of reconcile (reconcile.go): with whatever promoter, the order  *)
(* in which it demotes a failed server, promotes, demotes and transfers    *)
(* leadership, from one snapshot of the state, while the application and   *)
(* Raft change the configuration under it and any call may fail.           *)
(*                                                                         *)
(* The promoter's lists are sets taken in any order: an order is the       *)
(* promoter's to choose, and naming a server twice repeats a call that     *)
(* changes nothing.  What is ignored in a list depends on the snapshot     *)
(* alone, so a list is filtered when its turn comes.                       *)
(***************************************************************************)
EXTENDS Integers, FiniteSets

CONSTANTS
  Servers,     \* server IDs
  None,        \* no leader
  Proposals,   \* the RaftChanges a promoter may compute
  MaxChanges   \* bound on what happens outside reconcile

ASSUME ServersAssumption == None \notin Servers /\ IsFiniteSet(Servers)
ASSUME ProposalsAssumption ==
  Proposals \subseteq [promotions : SUBSET Servers, demotions : SUBSET Servers,
                       leader : Servers \cup {None}]
ASSUME ChangesAssumption == MaxChanges \in Nat

VARIABLES
  cfg,         \* the suffrage of each server in the Raft configuration
  enabled,     \* reconciliationEnabled
  state,       \* a.state
  changes,     \* number of changes made outside reconcile so far
  pc,          \* which part of the round is under way
  snap,        \* the state the round works from
  proposal,    \* changes, as the promoter computed them from it
  todo,        \* calls this part has still to make
  acted,       \* whether it has made one
  promoted,    \* history: servers promoted in this round
  demoted,     \* history: servers demoted in this round
  disturbed    \* history: cfg is no longer what snap says, by others' doing

vars == <<cfg, enabled, state, changes, pc, snap, proposal, todo, acted, promoted, demoted, disturbed>>
envVars == <<enabled, state, changes>>
histVars == <<promoted, demoted, disturbed>>

Suffrages == {"none", "nonvoter", "staging", "voter"}
ServerStates == [role : Suffrages \cup {"leader"}, healthy : BOOLEAN]

Untracked == [role |-> "none", healthy |-> FALSE]
ZeroState == [servers |-> [s \in Servers |-> Untracked], leader |-> None]
NoProposal == [promotions |-> {}, demotions |-> {}, leader |-> None]

\* Mutant: the leader is left looking like any voter.
StateOfNoLeader(healthy, leader) ==
  [servers |-> [s \in Servers |-> IF cfg[s] = "none" THEN Untracked
                                  ELSE [role |-> cfg[s], healthy |-> s \in healthy]],
   leader  |-> leader]

\* The state computed from the configuration, the healthy servers and the
\* leader of the moment.
StateOf(healthy, leader) ==
  [servers |-> [s \in Servers |-> IF cfg[s] = "none" THEN Untracked
                                  ELSE [role    |-> IF s = leader THEN "leader" ELSE cfg[s],
                                        healthy |-> s \in healthy]],
   leader  |-> leader]

Leaders == {s \in Servers : cfg[s] = "voter"} \cup {None}

Init ==
  /\ cfg \in [Servers -> Suffrages]
  /\ enabled \in BOOLEAN
  /\ \E healthy \in SUBSET Servers, leader \in Leaders : state = StateOf(healthy, leader)
  /\ changes = 0
  /\ pc = "idle" /\ snap = ZeroState /\ proposal = NoProposal
  /\ todo = {} /\ acted = FALSE
  /\ promoted = {} /\ demoted = {} /\ disturbed = FALSE

-----------------------------------------------------------------------------
(* What applyPromotions and applyDemotions ignore.                         *)

HasVotingRights(srv) == srv.role \in {"voter", "leader"}

SuffragesOf(st) ==
  [s \in Servers |-> IF HasVotingRights(st.servers[s]) THEN "voter" ELSE st.servers[s].role]

VotersOf(st) == {s \in Servers : HasVotingRights(st.servers[s])}
Odd(S) == Cardinality(S) % 2 # 0

\* Mutant: unhealthy servers are promoted too.
ToPromoteUnhealthy(st, list) ==
  {s \in list : st.servers[s].role # "none" /\ ~HasVotingRights(st.servers[s])}

ToPromote(st, list) ==
  {s \in list : /\ st.servers[s].role # "none"
                /\ ~HasVotingRights(st.servers[s])
                /\ st.servers[s].healthy}

\* A staging server is not ignored.
ToDemote(st, list) == {s \in list : st.servers[s].role \notin {"none", "nonvoter"}}

ToDemoteFailed(st, list) == {s \in ToDemote(st, list) : ~st.servers[s].healthy}

-----------------------------------------------------------------------------
(* The round.                                                              *)

Goto(part, list) == pc' = part /\ todo' = list /\ acted' = FALSE

Return ==
  /\ pc' = "idle" /\ snap' = ZeroState /\ proposal' = NoProposal
  /\ todo' = {} /\ acted' = FALSE
  /\ promoted' = {} /\ demoted' = {} /\ disturbed' = FALSE

\* Nothing is done while disabled, without a leader in the state, or when the
\* delegate has no AutopilotConfig to give, which may be any time.
NotReconciled ==
  /\ pc = "idle"
  /\ UNCHANGED vars

BeginReconcile(p) ==
  /\ pc = "idle"
  /\ enabled /\ state.leader # None
  /\ snap' = state
  /\ proposal' = p
  /\ IF Odd(VotersOf(state)) THEN Goto("demoteFailed", ToDemoteFailed(state, p.demotions))
                             ELSE Goto("promote", ToPromote(state, p.promotions))
  /\ promoted' = {} /\ demoted' = {}
  /\ disturbed' = (cfg # SuffragesOf(state))
  /\ UNCHANGED <<cfg, envVars>>

\* Raft's DemoteVoter: of a server it does not have, nothing; of the last
\* voter, an error.
DemoteVoter(s) ==
  /\ \E v \in Servers \ {s} : cfg[v] = "voter"
  /\ cfg' = IF cfg[s] = "none" THEN cfg ELSE [cfg EXCEPT ![s] = "nonvoter"]

\* Mutant: every failed server, one by one.
DemoteFailedAll(s) ==
  /\ pc = "demoteFailed"
  /\ s \in todo
  /\ DemoteVoter(s)
  /\ demoted' = demoted \cup {s}
  /\ todo' = todo \ {s}
  /\ UNCHANGED <<envVars, pc, snap, proposal, acted, promoted, disturbed>>

\* A single failed server, and on to the promotions.
DemoteFailed(s) ==
  /\ pc = "demoteFailed"
  /\ s \in todo
  /\ DemoteVoter(s)
  /\ demoted' = demoted \cup {s}
  /\ Goto("promote", ToPromote(snap, proposal.promotions))
  /\ UNCHANGED <<envVars, snap, proposal, promoted, disturbed>>

NoneFailed ==
  /\ pc = "demoteFailed"
  /\ todo = {}
  /\ Goto("promote", ToPromote(snap, proposal.promotions))
  /\ UNCHANGED <<cfg, envVars, snap, proposal, histVars>>

\* Raft's AddVoter adds a server it does not have.
Promote(s) ==
  /\ pc = "promote"
  /\ s \in todo
  /\ cfg' = [cfg EXCEPT ![s] = "voter"]
  /\ promoted' = promoted \cup {s}
  /\ todo' = todo \ {s} /\ acted' = TRUE
  /\ UNCHANGED <<envVars, pc, snap, proposal, demoted, disturbed>>

EndPromotions ==
  /\ pc = "promote"
  /\ todo = {}
  /\ \/ acted /\ Return
     \/ /\ ~acted
        /\ Goto("demote", ToDemote(snap, proposal.demotions))
        /\ UNCHANGED <<snap, proposal, histVars>>
  /\ UNCHANGED <<cfg, envVars>>

Demote(s) ==
  /\ pc = "demote"
  /\ s \in todo
  /\ DemoteVoter(s)
  /\ demoted' = demoted \cup {s}
  /\ todo' = todo \ {s} /\ acted' = TRUE
  /\ UNCHANGED <<envVars, pc, snap, proposal, promoted, disturbed>>

\* Leadership is transferred only to another server the state has.
WantsTransfer ==
  /\ proposal.leader \notin {None, snap.leader}
  /\ snap.servers[proposal.leader].role # "none"

\* Mutant: leadership is transferred whether or not servers were demoted.
EndDemotionsAndTransfer ==
  /\ pc = "demote"
  /\ todo = {}
  /\ \/ ~WantsTransfer /\ Return
     \/ WantsTransfer /\ Goto("transfer", {}) /\ UNCHANGED <<snap, proposal, histVars>>
  /\ UNCHANGED <<cfg, envVars>>

EndDemotions ==
  /\ pc = "demote"
  /\ todo = {}
  /\ \/ (acted \/ ~WantsTransfer) /\ Return
     \/ /\ ~acted /\ WantsTransfer
        /\ Goto("transfer", {})
        /\ UNCHANGED <<snap, proposal, histVars>>
  /\ UNCHANGED <<cfg, envVars>>

\* leadershipTransfer, whether or not it succeeds; who leads is for the next
\* state to say.
LeadershipTransfer ==
  /\ pc = "transfer"
  /\ Return
  /\ UNCHANGED <<cfg, envVars>>

\* The first error ends the round.
CallFails ==
  /\ todo # {}
  /\ Return
  /\ UNCHANGED <<cfg, envVars>>

-----------------------------------------------------------------------------
(* Outside reconcile.                                                      *)

Change == changes < MaxChanges /\ changes' = changes + 1

\* updateState publishes a new state, which the round under way ignores.
UpdateState(healthy, leader) ==
  /\ Change
  /\ leader \in Leaders
  /\ state' = StateOf(healthy, leader)
  /\ UNCHANGED <<cfg, enabled, pc, snap, proposal, todo, acted, histVars>>

\* The application or Raft give a server another suffrage, or remove it.
ChangeConfiguration(s, suffrage) ==
  /\ Change
  /\ cfg[s] # suffrage
  /\ \E v \in Servers : IF v = s THEN suffrage = "voter" ELSE cfg[v] = "voter"
  /\ cfg' = [cfg EXCEPT ![s] = suffrage]
  /\ disturbed' = (pc # "idle")
  /\ UNCHANGED <<enabled, state, pc, snap, proposal, todo, acted, promoted, demoted>>

\* EnableReconciliation, DisableReconciliation.
SetReconciliation ==
  /\ Change
  /\ enabled' = ~enabled
  /\ UNCHANGED <<cfg, state, pc, snap, proposal, todo, acted, histVars>>

RoundStep ==
  \/ NotReconciled
  \/ \E p \in Proposals : BeginReconcile(p)
  \/ NoneFailed
  \/ \E s \in Servers : DemoteFailed(s) \/ Promote(s) \/ Demote(s)
  \/ EndPromotions
  \/ EndDemotions
  \/ LeadershipTransfer
  \/ CallFails

EnvStep ==
  \/ \E healthy \in SUBSET Servers, leader \in Servers \cup {None} : UpdateState(healthy, leader)
  \/ \E s \in Servers, suffrage \in Suffrages : ChangeConfiguration(s, suffrage)
  \/ SetReconciliation

Next == RoundStep \/ EnvStep

Spec == Init /\ [][Next]_vars

-----------------------------------------------------------------------------
(* Properties.                                                             *)

\* The leader of a state is the one server it shows as such.
States ==
  {st \in [servers : [Servers -> ServerStates], leader : Servers \cup {None}] :
     \A s \in Servers : st.servers[s].role = "leader" <=> st.leader = s}

\* Every variable has the type of what it models.
TypeOK ==
  /\ cfg \in [Servers -> Suffrages]
  /\ enabled \in BOOLEAN
  /\ state \in States
  /\ changes \in 0..MaxChanges
  /\ pc \in {"idle", "demoteFailed", "promote", "demote", "transfer"}
  /\ snap \in States
  /\ proposal \in Proposals \cup {NoProposal}
  /\ todo \subseteq Servers
  /\ acted \in BOOLEAN
  /\ promoted \subseteq Servers /\ demoted \subseteq Servers
  /\ disturbed \in BOOLEAN

\* How far the healthy voters are above a majority of the voters of c, with
\* the health the round works from; negative when they are not one.
Margin(c) ==
  LET voters == {s \in Servers : c[s] = "voter"}
  IN Cardinality({s \in voters : snap.servers[s].healthy}) - ((Cardinality(voters) \div 2) + 1)

\* Up to and through the promotions, a round never brings the cluster closer
\* to losing its quorum than it was when the round began, at any moment
\* between two of its calls and wherever an error stops it, as long as nobody
\* else changes the configuration: a voter more may raise the quorum, but
\* then it is a healthy one, and a voter less was not.
MarginKept ==
  pc \in {"demoteFailed", "promote"} /\ ~disturbed => Margin(cfg) >= Margin(SuffragesOf(snap))

\* A round that transfers leadership has not touched voting rights, not even
\* with the demotion of a failed server that precedes the promotions.
TransferAlone ==
  pc = "transfer" => promoted = {} /\ demoted = {}

\* A round that promotes demotes at most one server, which its state had
\* failed, and only from an odd number of voters.
PromotionsAlmostAlone ==
  promoted # {} => /\ Cardinality(demoted) <= 1
                   /\ \A s \in demoted : ~snap.servers[s].healthy
                   /\ demoted # {} => Odd(VotersOf(snap))
=============================================================================
