----------------------------- MODULE Membership -----------------------------
(***************************************************************************)
(* AddServer and RemoveServer (raft.go), called by several goroutines of   *)
(* the application while reconcile promotes and demotes.  Each reads the   *)
(* Raft configuration once and then makes its calls to Raft one by one;    *)
(* any of them may fail, which ends the call, and between any two of them  *)
(* the configuration may change.                                           *)
(*                                                                         *)
(* Raft is external.  It keeps at least one voter, and otherwise may       *)
(* accept or refuse every call; that it refuses duplicate addresses too,   *)
(* as recent versions do, is not assumed, since AddServer does not.        *)
(***************************************************************************)
EXTENDS Integers, FiniteSets

CONSTANTS
  Ids,       \* server IDs
  Addrs,     \* server addresses
  Callers,   \* goroutines that call AddServer or RemoveServer
  None,      \* no ID, no address, no configuration
  MaxCalls   \* bound on the calls, promotions and demotions of a behaviour

ASSUME NamesAssumption == None \notin Ids \cup Addrs /\ IsFiniteSet(Ids)
ASSUME CallsAssumption == MaxCalls \in Nat

VARIABLES
  cfg,         \* the Raft configuration: suffrage and address by ID
  published,   \* the configuration the last published State was built from
  removeDead,  \* is there a token in removeDeadCh?
  calls,       \* number of calls, promotions and demotions so far
  call,        \* the arguments and local variables of each caller
  base,        \* history: the configuration a call works from, if nobody
               \* else has changed it since it was read
  entitled     \* history: voters and staging servers of old, and promoted ones

vars == <<cfg, published, removeDead, calls, call, base, entitled>>

Absent == [suffrage |-> "none", addr |-> None]
Entries == {Absent} \cup [suffrage : {"nonvoter", "staging", "voter"}, addr : Addrs]
Configurations == [Ids -> Entries]

InRaft(c, s) == c[s] # Absent
VotersOf(c) == {s \in Ids : c[s].suffrage = "voter"}

NumVoters(c) == Cardinality(VotersOf(c))

Idle ==
  [pc |-> "idle", id |-> None, addr |-> None, voterRemovals |-> {}, nonVoterRemovals |-> {},
   existingVoter |-> FALSE]

Init ==
  /\ cfg \in Configurations
  /\ VotersOf(cfg) # {}
  /\ published = cfg
  /\ removeDead = FALSE
  /\ calls = 0
  /\ call = [p \in Callers |-> Idle]
  /\ base = [p \in Callers |-> None]
  /\ entitled = {s \in Ids : cfg[s].suffrage \in {"voter", "staging"}}

-----------------------------------------------------------------------------
(* Raft.                                                                   *)

\* Raft refuses a configuration without a voter.
RaftAllows(c) == VotersOf(c) # {}

\* AddVoter makes the server a voter at that address, whatever it was.
AddVoter(c, s, a) == [c EXCEPT ![s] = [suffrage |-> "voter", addr |-> a]]

\* AddNonvoter only updates the address of a voter or staging server.
AddNonvoter(c, s, a) ==
  [c EXCEPT ![s] =
     [suffrage |-> IF c[s].suffrage \in {"voter", "staging"} THEN c[s].suffrage ELSE "nonvoter",
      addr     |-> a]]

DemoteVoter(c, s) == IF InRaft(c, s) THEN [c EXCEPT ![s].suffrage = "nonvoter"] ELSE c

Remove(c, s) == [c EXCEPT ![s] = Absent]

\* A caller's own change keeps its base; anyone else's ends it.
Disturb(others) ==
  base' = [p \in Callers |-> IF p \in others /\ cfg' # cfg THEN None ELSE base[p]]

-----------------------------------------------------------------------------
(* AddServer.                                                              *)

\* Mutant: half of an even number of voters is taken for a majority.
RequiredQuorumHalf(voters) == (voters + 1) \div 2

RequiredQuorum(voters) == (voters \div 2) + 1

Duplicates(c, s, a) == {t \in Ids \ {s} : InRaft(c, t) /\ c[t].addr = a}

VoterRemovals(c, s, a) == Duplicates(c, s, a) \cap VotersOf(c)

\* Mutant: only voters are taken for duplicates.
NonVoterRemovalsNone(c, s, a) == {}

NonVoterRemovals(c, s, a) == Duplicates(c, s, a) \ VotersOf(c)

TooManyRemovals(c, s, a) ==
  Cardinality(VoterRemovals(c, s, a)) > NumVoters(c) - RequiredQuorum(NumVoters(c))

AtPc(p, pc) == call[p].pc = pc

Return(p) == call' = [call EXCEPT ![p] = Idle]

\* A call is begun.
Begin(p, pc, s, a) ==
  /\ AtPc(p, "idle")
  /\ calls < MaxCalls
  /\ calls' = calls + 1
  /\ call' = [call EXCEPT ![p] = [Idle EXCEPT !.pc = pc, !.id = s, !.addr = a]]
  /\ UNCHANGED <<cfg, published, removeDead, base, entitled>>

CallAddServer(p, s, a) == Begin(p, "add", s, a)

\* The server is already there, at that address.
NothingToAdd(p) ==
  /\ AtPc(p, "add")
  /\ InRaft(cfg, call[p].id) /\ cfg[call[p].id].addr = call[p].addr
  /\ Return(p)
  /\ UNCHANGED <<cfg, published, removeDead, calls, base, entitled>>

RefuseAddition(p) ==
  /\ AtPc(p, "add")
  /\ cfg[call[p].id].addr # call[p].addr
  /\ TooManyRemovals(cfg, call[p].id, call[p].addr)
  /\ Return(p)
  /\ UNCHANGED <<cfg, published, removeDead, calls, base, entitled>>

\* Mutant: every server Raft has counts as a voter.
ExistingVoterAny(c, s) == InRaft(c, s)

ExistingVoter(c, s) == c[s].suffrage \in {"voter", "staging"}

\* What the call is going to do, decided by the configuration it read.
Plan(p) ==
  LET s == call[p].id
      a == call[p].addr
  IN /\ cfg[s].addr # a
     /\ call' = [call EXCEPT ![p] =
          [pc |-> "remove", id |-> s, addr |-> a,
           voterRemovals    |-> VoterRemovals(cfg, s, a),
           nonVoterRemovals |-> NonVoterRemovals(cfg, s, a),
           existingVoter    |-> ExistingVoter(cfg, s)]]
     /\ base' = [base EXCEPT ![p] = cfg]
     /\ UNCHANGED <<cfg, published, removeDead, calls, entitled>>

\* Mutant: the number of removals is not checked.
PlanAdditionUnchecked(p) ==
  /\ AtPc(p, "add")
  /\ Plan(p)

PlanAddition(p) ==
  /\ AtPc(p, "add")
  /\ ~TooManyRemovals(cfg, call[p].id, call[p].addr)
  /\ Plan(p)

\* Duplicates go first, voters before the others.
RemoveDuplicate(p, t) ==
  /\ AtPc(p, "remove")
  /\ \/ t \in call[p].voterRemovals
     \/ call[p].voterRemovals = {} /\ t \in call[p].nonVoterRemovals
  /\ RaftAllows(Remove(cfg, t))
  /\ cfg' = Remove(cfg, t)
  /\ call' = [call EXCEPT ![p].voterRemovals = @ \ {t}, ![p].nonVoterRemovals = @ \ {t}]
  /\ Disturb(Callers \ {p})
  /\ UNCHANGED <<published, removeDead, calls, entitled>>

\* The server is added, or its address updated.
Add(p) ==
  /\ AtPc(p, "remove")
  /\ call[p].voterRemovals = {} /\ call[p].nonVoterRemovals = {}
  /\ cfg' = IF call[p].existingVoter THEN AddVoter(cfg, call[p].id, call[p].addr)
                                     ELSE AddNonvoter(cfg, call[p].id, call[p].addr)
  /\ call' = [call EXCEPT ![p].pc = "added"]
  /\ Disturb(Callers \ {p})
  /\ UNCHANGED <<published, removeDead, calls, entitled>>

\* RemoveDeadServers: the token is dropped if there is one already.
TriggerCleanup(p) ==
  /\ AtPc(p, "added")
  /\ removeDead' = TRUE
  /\ Return(p)
  /\ base' = [base EXCEPT ![p] = None]
  /\ UNCHANGED <<cfg, published, calls, entitled>>

-----------------------------------------------------------------------------
(* RemoveServer.                                                           *)

CallRemoveServer(p, s) == Begin(p, "read", s, None)

NothingToRemove(p) ==
  /\ AtPc(p, "read")
  /\ ~InRaft(cfg, call[p].id)
  /\ Return(p)
  /\ UNCHANGED <<cfg, published, removeDead, calls, base, entitled>>

FoundToRemove(p) ==
  /\ AtPc(p, "read")
  /\ InRaft(cfg, call[p].id)
  /\ call' = [call EXCEPT ![p].pc = "removeServer"]
  /\ UNCHANGED <<cfg, published, removeDead, calls, base, entitled>>

RemoveServer(p) ==
  /\ AtPc(p, "removeServer")
  /\ RaftAllows(Remove(cfg, call[p].id))
  /\ cfg' = Remove(cfg, call[p].id)
  /\ Return(p)
  /\ Disturb(Callers)
  /\ UNCHANGED <<published, removeDead, calls, entitled>>

\* GetConfiguration, a removal or the addition fails, and the call with it.
CallFails(p) ==
  /\ call[p].pc \in {"add", "remove", "read", "removeServer"}
  /\ Return(p)
  /\ base' = [base EXCEPT ![p] = None]
  /\ UNCHANGED <<cfg, published, removeDead, calls, entitled>>

-----------------------------------------------------------------------------
(* The goroutines of autopilot.                                            *)

\* updateState records addresses and suffrages as Raft has them.
UpdateState ==
  /\ published # cfg
  /\ published' = cfg
  /\ UNCHANGED <<cfg, removeDead, calls, call, base, entitled>>

Reconciles(c) ==
  /\ calls < MaxCalls
  /\ calls' = calls + 1
  /\ RaftAllows(c)
  /\ cfg' = c
  /\ Disturb(Callers)
  /\ UNCHANGED <<published, removeDead, call>>

\* Mutant: a server that is not in the published State is promoted, too.
PromoteUntracked(s) ==
  /\ published[s].suffrage # "voter"
  /\ Reconciles(AddVoter(cfg, s, published[s].addr))
  /\ entitled' = entitled \cup {s}

\* applyPromotions gives AddVoter the address in the published State.
Promote(s) ==
  /\ published[s].suffrage \in {"nonvoter", "staging"}
  /\ Reconciles(AddVoter(cfg, s, published[s].addr))
  /\ entitled' = entitled \cup {s}

Demote(s) ==
  /\ published[s].suffrage \in {"voter", "staging"}
  /\ Reconciles(DemoteVoter(cfg, s))
  /\ UNCHANGED entitled

\* beginExecution takes the token from removeDeadCh.
TakeTrigger ==
  /\ removeDead
  /\ removeDead' = FALSE
  /\ UNCHANGED <<cfg, published, calls, call, base, entitled>>

CallerStep(p) ==
  \/ \E s \in Ids, a \in Addrs : CallAddServer(p, s, a)
  \/ NothingToAdd(p)
  \/ RefuseAddition(p)
  \/ PlanAddition(p)
  \/ \E t \in Ids : RemoveDuplicate(p, t)
  \/ Add(p)
  \/ TriggerCleanup(p)
  \/ \E s \in Ids : CallRemoveServer(p, s)
  \/ NothingToRemove(p)
  \/ FoundToRemove(p)
  \/ RemoveServer(p)
  \/ CallFails(p)

AutopilotStep ==
  \/ UpdateState
  \/ \E s \in Ids : Promote(s) \/ Demote(s)
  \/ TakeTrigger

Next == (\E p \in Callers : CallerStep(p)) \/ AutopilotStep

Spec == Init /\ [][Next]_vars

-----------------------------------------------------------------------------
(* Properties.                                                             *)

Pcs == {"idle", "add", "remove", "added", "read", "removeServer"}

\* Every variable has the type of what it models.
TypeOK ==
  /\ cfg \in Configurations
  /\ published \in Configurations
  /\ removeDead \in BOOLEAN
  /\ calls \in 0..MaxCalls
  /\ call \in [Callers -> [pc : Pcs, id : Ids \cup {None}, addr : Addrs \cup {None},
                           voterRemovals : SUBSET Ids, nonVoterRemovals : SUBSET Ids,
                           existingVoter : BOOLEAN]]
  /\ base \in [Callers -> Configurations \cup {None}]
  /\ entitled \subseteq Ids

\* The caller has planned an addition and nobody else has changed the
\* configuration since.
Undisturbed(p) == base[p] # None

\* At every moment of an undisturbed AddServer, wherever a failed call to
\* Raft may cut it short, the voters it found that still are voters are a
\* majority of them.
QuorumSurvives ==
  \A p \in Callers : Undisturbed(p) =>
    LET found == VotersOf(base[p])
    IN 2 * Cardinality(found \cap VotersOf(cfg)) > Cardinality(found)

\* An AddServer cut short by a failed call to Raft can be retried: however
\* far it has come, the same addition would not be refused as one that needs
\* too many removals, although there are fewer voters now.
RetryAccepted ==
  \A p \in Callers : Undisturbed(p) => ~TooManyRemovals(cfg, call[p].id, call[p].addr)

\* Whatever happens between the reading of the configuration and the calls,
\* AddServer gives nobody a vote of its own accord: a voter was one, or was
\* staged, to begin with, or autopilot has promoted it.
VoteEarned == VotersOf(cfg) \subseteq entitled

\* An undisturbed AddServer that succeeds leaves the configuration it found
\* with exactly this difference: the server is the only one at its address,
\* with the vote it had or was about to have, and with none otherwise.
AdditionExact ==
  \A p \in Callers : AtPc(p, "added") /\ Undisturbed(p) =>
    LET old == base[p]
        s   == call[p].id
    IN /\ {t \in Ids : cfg[t].addr = call[p].addr} = {s}
       /\ s \in VotersOf(cfg) <=> old[s].suffrage \in {"voter", "staging"}
       /\ \A t \in Ids \ {s} : cfg[t] # old[t] => old[t].addr = call[p].addr
=============================================================================
