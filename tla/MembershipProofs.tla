-------------------------- MODULE MembershipProofs --------------------------
(***************************************************************************)
(* Theorems about AddServer and RemoveServer, for any finite set of        *)
(* servers, any addresses and any number of callers.                       *)
(***************************************************************************)
EXTENDS Membership, FiniteSetTheorems, TLAPS

CallRecords ==
  [pc : Pcs, id : Ids \cup {None}, addr : Addrs \cup {None}, voterRemovals : SUBSET Ids,
   nonVoterRemovals : SUBSET Ids, existingVoter : BOOLEAN]

\* The arguments of a call under way are there.
Called ==
  \A p \in Callers :
    /\ call[p].pc # "idle" => call[p].id \in Ids
    /\ call[p].pc \in {"add", "remove", "added"} => call[p].addr \in Addrs

\* What an addition c that found the configuration old has made of it by now.
Expected(c, old) ==
  [t \in Ids |->
     IF t = c.id /\ c.pc = "added"
       THEN [suffrage |-> IF ExistingVoter(old, t) THEN "voter" ELSE "nonvoter", addr |-> c.addr]
     ELSE IF t \in Duplicates(old, c.id, c.addr) \ (c.voterRemovals \cup c.nonVoterRemovals)
       THEN Absent
     ELSE old[t]]

\* The locals of an addition agree with the configuration it found, and k is
\* what should have become of that.
PlanOf(c, old, k) ==
  /\ c.pc \in {"remove", "added"}
  /\ old[c.id].addr # c.addr
  /\ ~TooManyRemovals(old, c.id, c.addr)
  /\ c.existingVoter <=> ExistingVoter(old, c.id)
  /\ c.voterRemovals \subseteq VoterRemovals(old, c.id, c.addr)
  /\ c.nonVoterRemovals \subseteq NonVoterRemovals(old, c.id, c.addr)
  /\ c.pc = "added" => c.voterRemovals = {} /\ c.nonVoterRemovals = {}
  /\ k = Expected(c, old)

Planned == \A p \in Callers : base[p] # None => PlanOf(call[p], base[p], cfg)

\* Whoever has a vote, or will be given one by an AddServer under way, is
\* entitled to it.
Entitled ==
  /\ \A s \in Ids : ExistingVoter(cfg, s) => s \in entitled
  /\ \A p \in Callers : call[p].pc = "remove" /\ call[p].existingVoter => call[p].id \in entitled

IInv == TypeOK /\ Called /\ Planned /\ Entitled

-----------------------------------------------------------------------------
(* Types.                                                                  *)

LEMMA RaftTypes ==
  ASSUME NEW c \in Configurations, NEW s \in Ids, NEW a \in Addrs
  PROVE  /\ AddVoter(c, s, a) \in Configurations
         /\ AddNonvoter(c, s, a) \in Configurations
         /\ DemoteVoter(c, s) \in Configurations
         /\ Remove(c, s) \in Configurations
BY DEF AddVoter, AddNonvoter, DemoteVoter, Remove, InRaft, Configurations, Entries, Absent

LEMMA DisturbType ==
  ASSUME base \in [Callers -> Configurations \cup {None}], NEW S, Disturb(S)
  PROVE  base' \in [Callers -> Configurations \cup {None}]
BY DEF Disturb

LEMMA IdleType == Idle \in CallRecords /\ Idle.pc = "idle"
BY DEF Idle, CallRecords, Pcs

TypeInv == TypeOK /\ Called

LEMMA InitTypes == Init => TypeInv
<1> SUFFICES ASSUME Init PROVE TypeInv
  OBVIOUS
<1>1. call \in [Callers -> CallRecords] /\ Called
  BY IdleType DEF Init, Called
<1>2. calls \in 0..MaxCalls /\ entitled \subseteq Ids
  BY CallsAssumption DEF Init
<1>3. removeDead \in BOOLEAN
  BY DEF Init
<1>4. base \in [Callers -> Configurations \cup {None}]
  BY DEF Init
<1> QED
  BY <1>1, <1>2, <1>3, <1>4 DEF Init, TypeInv, TypeOK, CallRecords

\* A step of caller p that gives it the record r and leaves the other
\* callers alone keeps the records well typed.
LEMMA OneCallChanges ==
  ASSUME TypeInv, NEW p \in Callers, NEW r \in CallRecords,
         r.pc # "idle" => r.id \in Ids,
         r.pc \in {"add", "remove", "added"} => r.addr \in Addrs,
         call' = [call EXCEPT ![p] = r]
  PROVE  call' \in [Callers -> CallRecords] /\ Called'
BY DEF TypeInv, TypeOK, Called, CallRecords

LEMMA StepTypes == TypeInv /\ [Next]_vars => TypeInv'
<1> SUFFICES ASSUME TypeInv, [Next]_vars PROVE TypeInv'
  OBVIOUS
<1>0. /\ cfg \in Configurations /\ published \in Configurations /\ calls \in 0..MaxCalls
      /\ call \in [Callers -> CallRecords] /\ base \in [Callers -> Configurations \cup {None}]
      /\ entitled \subseteq Ids /\ removeDead \in BOOLEAN
  BY DEF TypeInv, TypeOK, CallRecords
<1> DEFINE Rest == /\ cfg' \in Configurations /\ published' \in Configurations
                   /\ calls' \in 0..MaxCalls /\ entitled' \subseteq Ids
                   /\ removeDead' \in BOOLEAN /\ base' \in [Callers -> Configurations \cup {None}]
           Calls == call' \in [Callers -> CallRecords] /\ Called'
<1>1. ASSUME Rest, Calls PROVE TypeInv'
  BY <1>1 DEF TypeInv, TypeOK, CallRecords
<1>2. ASSUME UNCHANGED call PROVE Calls
  BY <1>0, <1>2 DEF TypeInv, Called
<1>3. ASSUME NEW p \in Callers, Return(p) PROVE Calls
  BY <1>3, IdleType, OneCallChanges DEF Return
<1>4. ASSUME NEW p \in Callers, NEW pc \in {"add", "read"}, NEW s \in Ids,
             NEW a \in Addrs \cup {None}, pc = "add" => a \in Addrs, Begin(p, pc, s, a)
      PROVE  TypeInv'
  <2> DEFINE r == [Idle EXCEPT !.pc = pc, !.id = s, !.addr = a]
  <2>1. r \in CallRecords /\ r.pc = pc /\ r.id = s /\ r.addr = a
    BY DEF Idle, CallRecords, Pcs
  <2>2. Calls
    BY <1>4, <2>1, OneCallChanges DEF Begin
  <2>3. Rest
    BY <1>0, <1>4, CallsAssumption DEF Begin
  <2> QED
    BY <1>1, <2>2, <2>3
<1>5. ASSUME NEW p \in Callers,
             NothingToAdd(p) \/ RefuseAddition(p) \/ NothingToRemove(p) \/ CallFails(p)
               \/ TriggerCleanup(p)
      PROVE  TypeInv'
  <2>1. Return(p) /\ Rest
    BY <1>0, <1>5 DEF NothingToAdd, RefuseAddition, NothingToRemove, CallFails, TriggerCleanup
  <2> QED
    BY <1>1, <1>3, <2>1
<1>6. ASSUME NEW p \in Callers, PlanAddition(p) PROVE TypeInv'
  <2> DEFINE r == [pc |-> "remove", id |-> call[p].id, addr |-> call[p].addr,
                   voterRemovals    |-> VoterRemovals(cfg, call[p].id, call[p].addr),
                   nonVoterRemovals |-> NonVoterRemovals(cfg, call[p].id, call[p].addr),
                   existingVoter    |-> ExistingVoter(cfg, call[p].id)]
  <2>1. call[p].id \in Ids /\ call[p].addr \in Addrs
    BY <1>6 DEF PlanAddition, AtPc, TypeInv, Called
  <2>2. r \in CallRecords
    BY <2>1 DEF CallRecords, Pcs, VoterRemovals, NonVoterRemovals, Duplicates, ExistingVoter
  <2>3. Calls
    <3>1. call' = [call EXCEPT ![p] = r]
      BY <1>6 DEF PlanAddition, Plan
    <3> QED
      BY <2>1, <2>2, <3>1, OneCallChanges
  <2>4. Rest
    BY <1>0, <1>6 DEF PlanAddition, Plan
  <2> QED
    BY <1>1, <2>3, <2>4
<1>7. ASSUME NEW p \in Callers, NEW t \in Ids, RemoveDuplicate(p, t) PROVE TypeInv'
  <2>1. call[p].id \in Ids /\ call[p].addr \in Addrs /\ call[p].pc = "remove"
    BY <1>7 DEF RemoveDuplicate, AtPc, TypeInv, Called
  <2>2. Calls
    <3> DEFINE r == [call[p] EXCEPT !.voterRemovals = @ \ {t}, !.nonVoterRemovals = @ \ {t}]
    <3>1. r \in CallRecords /\ r.id = call[p].id /\ r.addr = call[p].addr /\ r.pc = call[p].pc
      BY <1>0 DEF CallRecords
    <3>2. call' = [call EXCEPT ![p] = r]
      BY <1>0, <1>7 DEF RemoveDuplicate, CallRecords
    <3> QED
      BY <2>1, <3>1, <3>2, OneCallChanges
  <2>3. Rest
    BY <1>0, <1>7, RaftTypes, DisturbType DEF RemoveDuplicate, Remove, Configurations, Entries, Absent
  <2> QED
    BY <1>1, <2>2, <2>3
<1>8. ASSUME NEW p \in Callers, Add(p) PROVE TypeInv'
  <2>1. call[p].id \in Ids /\ call[p].addr \in Addrs /\ call[p].pc = "remove"
    BY <1>8 DEF Add, AtPc, TypeInv, Called
  <2>2. Calls
    <3> DEFINE r == [call[p] EXCEPT !.pc = "added"]
    <3>1. r \in CallRecords /\ r.id = call[p].id /\ r.addr = call[p].addr
      BY <1>0 DEF CallRecords, Pcs
    <3>2. call' = [call EXCEPT ![p] = r]
      BY <1>8 DEF Add
    <3> QED
      BY <2>1, <3>1, <3>2, OneCallChanges
  <2>3. cfg' \in Configurations
    BY <1>0, <1>8, <2>1, RaftTypes DEF Add
  <2>4. Rest
    BY <1>0, <1>8, <2>3, DisturbType DEF Add
  <2> QED
    BY <1>1, <2>2, <2>4
<1>9. ASSUME NEW p \in Callers, FoundToRemove(p) PROVE TypeInv'
  <2> DEFINE r == [call[p] EXCEPT !.pc = "removeServer"]
  <2>1. r \in CallRecords /\ r.id \in Ids /\ r.pc = "removeServer"
    BY <1>0, <1>9 DEF CallRecords, Pcs, FoundToRemove, AtPc, TypeInv, Called
  <2>2. call' = [call EXCEPT ![p] = r]
    BY <1>9 DEF FoundToRemove
  <2>3. Calls
    BY <2>1, <2>2, OneCallChanges
  <2>4. Rest
    BY <1>0, <1>9 DEF FoundToRemove
  <2> QED
    BY <1>1, <2>3, <2>4
<1>10. ASSUME NEW p \in Callers, RemoveServer(p) PROVE TypeInv'
  <2>1. call[p].id \in Ids
    BY <1>10 DEF RemoveServer, AtPc, TypeInv, Called
  <2>2. cfg' \in Configurations
    BY <1>0, <1>10, <2>1 DEF RemoveServer, Remove, Configurations, Entries
  <2>3. Rest /\ Return(p)
    BY <1>0, <1>10, <2>2, DisturbType DEF RemoveServer
  <2> QED
    BY <1>1, <1>3, <2>3
<1>11. ASSUME NEW s \in Ids, Promote(s) \/ Demote(s) PROVE TypeInv'
  <2>1. cfg' \in Configurations
    <3>1. CASE Promote(s)
      <4>1. published[s].addr \in Addrs
        BY <1>0, <3>1 DEF Promote, Configurations, Entries, Absent
      <4> QED
        BY <1>0, <3>1, <4>1, RaftTypes DEF Promote, Reconciles
    <3>2. CASE Demote(s)
      BY <1>0, <3>2 DEF Demote, Reconciles, DemoteVoter, InRaft, Configurations, Entries, Absent
    <3> QED
      BY <1>11, <3>1, <3>2
  <2>2. Rest /\ UNCHANGED call
    BY <1>0, <1>11, <2>1, DisturbType, CallsAssumption DEF Promote, Demote, Reconciles
  <2> QED
    BY <1>1, <1>2, <2>2
<1>12. ASSUME UpdateState \/ TakeTrigger \/ UNCHANGED vars PROVE TypeInv'
  <2>1. Rest /\ UNCHANGED call
    BY <1>0, <1>12 DEF UpdateState, TakeTrigger, vars
  <2> QED
    BY <1>1, <1>2, <2>1
<1>13. ASSUME NEW p \in Callers, CallerStep(p) PROVE TypeInv'
  BY <1>4, <1>5, <1>6, <1>7, <1>8, <1>9, <1>10, <1>13
     DEF CallerStep, CallAddServer, CallRemoveServer
<1> QED
  BY <1>11, <1>12, <1>13 DEF Next, AutopilotStep

-----------------------------------------------------------------------------
(* The course of an addition.                                              *)

\* It begins with the configuration as it found it.
LEMMA PlanBegins ==
  ASSUME NEW c \in CallRecords, NEW old \in Configurations,
         c.pc = "remove", c.id \in Ids, old[c.id].addr # c.addr,
         ~TooManyRemovals(old, c.id, c.addr),
         c.voterRemovals = VoterRemovals(old, c.id, c.addr),
         c.nonVoterRemovals = NonVoterRemovals(old, c.id, c.addr),
         c.existingVoter <=> ExistingVoter(old, c.id)
  PROVE  PlanOf(c, old, old)
<1>1. Duplicates(old, c.id, c.addr) \subseteq c.voterRemovals \cup c.nonVoterRemovals
  BY DEF VoterRemovals, NonVoterRemovals
<1>2. Expected(c, old) = old
  BY <1>1 DEF Expected, Configurations
<1> QED
  BY <1>2 DEF PlanOf

\* Each removal takes one duplicate away.
LEMMA PlanRemoves ==
  ASSUME NEW c \in CallRecords, NEW old \in Configurations, NEW k, PlanOf(c, old, k),
         c.pc = "remove", c.id \in Ids, NEW t \in c.voterRemovals \cup c.nonVoterRemovals
  PROVE  PlanOf([c EXCEPT !.voterRemovals = @ \ {t}, !.nonVoterRemovals = @ \ {t}], old,
                Remove(k, t))
<1> DEFINE r == [c EXCEPT !.voterRemovals = @ \ {t}, !.nonVoterRemovals = @ \ {t}]
<1>1. /\ r.pc = c.pc /\ r.id = c.id /\ r.addr = c.addr /\ r.existingVoter = c.existingVoter
      /\ r.voterRemovals = c.voterRemovals \ {t}
      /\ r.nonVoterRemovals = c.nonVoterRemovals \ {t}
  BY DEF CallRecords
<1>2. t \in Duplicates(old, c.id, c.addr)
  BY DEF PlanOf, VoterRemovals, NonVoterRemovals
<1>3. Remove(k, t) = Expected(r, old)
  <2>1. k = Expected(c, old)
    BY DEF PlanOf
  <2>2. Remove(k, t) = [k EXCEPT ![t] = Absent]
    BY DEF Remove
  <2> QED
    BY <1>1, <1>2, <2>1, <2>2 DEF Expected
<1> HIDE DEF r
<1>4. PlanOf(r, old, Remove(k, t))
  BY <1>1, <1>3 DEF PlanOf
<1> QED
  BY <1>4 DEF r

\* The addition comes last.
LEMMA PlanAdds ==
  ASSUME NEW c \in CallRecords, NEW old \in Configurations, NEW k, PlanOf(c, old, k),
         c.pc = "remove", c.id \in Ids, c.voterRemovals = {}, c.nonVoterRemovals = {}
  PROVE  PlanOf([c EXCEPT !.pc = "added"], old,
                IF c.existingVoter THEN AddVoter(k, c.id, c.addr) ELSE AddNonvoter(k, c.id, c.addr))
<1> DEFINE r == [c EXCEPT !.pc = "added"]
           next == IF c.existingVoter THEN AddVoter(k, c.id, c.addr)
                                      ELSE AddNonvoter(k, c.id, c.addr)
<1>1. /\ r.pc = "added" /\ r.id = c.id /\ r.addr = c.addr /\ r.existingVoter = c.existingVoter
      /\ r.voterRemovals = {} /\ r.nonVoterRemovals = {}
  BY DEF CallRecords
<1>2. k = Expected(c, old) /\ k[c.id] = old[c.id]
  BY DEF PlanOf, Expected, Duplicates
<1>3. next = [k EXCEPT ![c.id] =
               [suffrage |-> IF ExistingVoter(old, c.id) THEN "voter" ELSE "nonvoter",
                addr |-> c.addr]]
  BY <1>2 DEF AddVoter, AddNonvoter, ExistingVoter, PlanOf
<1>4. next = Expected(r, old)
  BY <1>1, <1>2, <1>3 DEF Expected
<1> HIDE DEF r, next
<1>5. PlanOf(r, old, next)
  BY <1>1, <1>4 DEF PlanOf
<1> QED
  BY <1>5 DEF r, next

\* A caller whose locals stay as they are keeps its plan: its base is given
\* up whenever the configuration changes.
LEMMA PlanStays ==
  ASSUME Planned, NEW q \in Callers, call'[q] = call[q], base'[q] \in {base[q], None},
         base'[q] # None => cfg' = cfg
  PROVE  base'[q] # None => PlanOf(call'[q], base'[q], cfg')
BY DEF Planned

\* What PlanStays asks, for a step that disturbs the callers in S.
LEMMA DisturbStays ==
  ASSUME TypeInv, NEW S, Disturb(S), NEW q \in Callers \cap S
  PROVE  base'[q] \in {base[q], None} /\ (base'[q] # None => cfg' = cfg)
BY DEF Disturb, TypeInv, TypeOK

LEMMA StepPlanned == TypeInv /\ Planned /\ [Next]_vars => Planned'
<1> SUFFICES ASSUME TypeInv, Planned, [Next]_vars PROVE Planned'
  OBVIOUS
<1>0. cfg \in Configurations /\ call \in [Callers -> CallRecords]
      /\ base \in [Callers -> Configurations \cup {None}]
  BY DEF TypeInv, TypeOK, CallRecords
<1> DEFINE Keeps(q) == base'[q] # None => PlanOf(call'[q], base'[q], cfg')
<1>1. ASSUME \A q \in Callers : Keeps(q) PROVE Planned'
  BY <1>1 DEF Planned
<1>2. ASSUME NEW p \in Callers, call[p].pc \notin {"remove", "added"} PROVE base[p] = None
  BY <1>2 DEF Planned, PlanOf
<1>3. ASSUME NEW p \in Callers, UNCHANGED <<cfg, base>>, call[p].pc \notin {"remove", "added"},
             \A q \in Callers \ {p} : call'[q] = call[q]
      PROVE  Planned'
  <2>1. Keeps(p)
    BY <1>2, <1>3
  <2>2. ASSUME NEW q \in Callers \ {p} PROVE Keeps(q)
    BY <1>3, PlanStays
  <2> QED
    BY <1>1, <2>1, <2>2
<1>4. ASSUME NEW p \in Callers, CallFails(p) \/ TriggerCleanup(p) PROVE Planned'
  <2>1. base'[p] = None /\ cfg' = cfg
    BY <1>0, <1>4 DEF CallFails, TriggerCleanup
  <2>2. ASSUME NEW q \in Callers \ {p} PROVE Keeps(q)
    <3>1. call'[q] = call[q] /\ base'[q] = base[q]
      BY <1>0, <1>4 DEF CallFails, TriggerCleanup, Return
    <3> QED
      BY <2>1, <3>1, PlanStays
  <2> QED
    BY <1>1, <2>1, <2>2
<1>5. ASSUME NEW p \in Callers,
             \/ \E pc \in {"add", "read"}, s \in Ids, a \in Addrs \cup {None} : Begin(p, pc, s, a)
             \/ NothingToAdd(p) \/ RefuseAddition(p) \/ NothingToRemove(p) \/ FoundToRemove(p)
      PROVE  Planned'
  <2>1. UNCHANGED <<cfg, base>> /\ call[p].pc \notin {"remove", "added"}
    BY <1>5 DEF Begin, NothingToAdd, RefuseAddition, NothingToRemove, FoundToRemove, AtPc
  <2>2. \A q \in Callers \ {p} : call'[q] = call[q]
    BY <1>0, <1>5 DEF Begin, NothingToAdd, RefuseAddition, NothingToRemove, FoundToRemove, Return
  <2> QED
    BY <1>3, <2>1, <2>2
<1>6. ASSUME NEW p \in Callers, PlanAddition(p) PROVE Planned'
  <2> DEFINE r == [pc |-> "remove", id |-> call[p].id, addr |-> call[p].addr,
                   voterRemovals    |-> VoterRemovals(cfg, call[p].id, call[p].addr),
                   nonVoterRemovals |-> NonVoterRemovals(cfg, call[p].id, call[p].addr),
                   existingVoter    |-> ExistingVoter(cfg, call[p].id)]
  <2>1. call[p].id \in Ids /\ call[p].addr \in Addrs
    BY <1>6 DEF PlanAddition, AtPc, TypeInv, Called
  <2>2. r \in CallRecords
    BY <2>1 DEF CallRecords, Pcs, VoterRemovals, NonVoterRemovals, Duplicates, ExistingVoter
  <2>3. PlanOf(r, cfg, cfg)
    BY <1>0, <1>6, <2>1, <2>2, PlanBegins DEF PlanAddition, Plan
  <2>4. call'[p] = r /\ base'[p] = cfg /\ cfg' = cfg
    BY <1>0, <1>6 DEF PlanAddition, Plan
  <2>5. ASSUME NEW q \in Callers \ {p} PROVE Keeps(q)
    <3>1. call'[q] = call[q] /\ base'[q] = base[q]
      BY <1>0, <1>6 DEF PlanAddition, Plan
    <3> QED
      BY <2>4, <3>1, PlanStays
  <2>6. Keeps(p)
    BY <2>3, <2>4
  <2> QED
    BY <1>1, <2>5, <2>6
<1>7. ASSUME NEW p \in Callers, NEW t \in Ids, RemoveDuplicate(p, t) PROVE Planned'
  <2> DEFINE r == [call[p] EXCEPT !.voterRemovals = @ \ {t}, !.nonVoterRemovals = @ \ {t}]
  <2>1. call[p].id \in Ids /\ call[p].pc = "remove"
    BY <1>7 DEF RemoveDuplicate, AtPc, TypeInv, Called
  <2>2. call'[p] = r /\ cfg' = Remove(cfg, t) /\ base'[p] = base[p]
    BY <1>0, <1>7 DEF RemoveDuplicate, Disturb, CallRecords
  <2>3. ASSUME base[p] # None PROVE PlanOf(r, base[p], Remove(cfg, t))
    <3>1. base[p] \in Configurations /\ PlanOf(call[p], base[p], cfg)
      BY <1>0, <2>3 DEF Planned
    <3>2. t \in call[p].voterRemovals \cup call[p].nonVoterRemovals
      BY <1>7 DEF RemoveDuplicate
    <3> QED
      BY <1>0, <2>1, <3>1, <3>2, PlanRemoves
  <2>4. Keeps(p)
    BY <2>2, <2>3
  <2>5. ASSUME NEW q \in Callers \ {p} PROVE Keeps(q)
    <3>1. call'[q] = call[q]
      BY <1>0, <1>7 DEF RemoveDuplicate
    <3> QED
      BY <1>7, <3>1, PlanStays, DisturbStays DEF RemoveDuplicate
  <2> QED
    BY <1>1, <2>4, <2>5
<1>8. ASSUME NEW p \in Callers, Add(p) PROVE Planned'
  <2> DEFINE r == [call[p] EXCEPT !.pc = "added"]
             next == IF call[p].existingVoter THEN AddVoter(cfg, call[p].id, call[p].addr)
                                              ELSE AddNonvoter(cfg, call[p].id, call[p].addr)
  <2>1. call[p].id \in Ids /\ call[p].pc = "remove"
    BY <1>8 DEF Add, AtPc, TypeInv, Called
  <2>2. call'[p] = r /\ cfg' = next /\ base'[p] = base[p]
    BY <1>0, <1>8 DEF Add, Disturb
  <2>3. ASSUME base[p] # None PROVE PlanOf(r, base[p], next)
    <3>1. base[p] \in Configurations /\ PlanOf(call[p], base[p], cfg)
      BY <1>0, <2>3 DEF Planned
    <3>2. call[p].voterRemovals = {} /\ call[p].nonVoterRemovals = {}
      BY <1>8 DEF Add
    <3> QED
      BY <1>0, <2>1, <3>1, <3>2, PlanAdds
  <2>4. Keeps(p)
    BY <2>2, <2>3
  <2>5. ASSUME NEW q \in Callers \ {p} PROVE Keeps(q)
    <3>1. call'[q] = call[q]
      BY <1>0, <1>8 DEF Add
    <3> QED
      BY <1>8, <3>1, PlanStays, DisturbStays DEF Add
  <2> QED
    BY <1>1, <2>4, <2>5
<1>9. ASSUME NEW p \in Callers, RemoveServer(p) PROVE Planned'
  <2>1. base'[p] = None
    BY <1>0, <1>2, <1>9 DEF RemoveServer, AtPc, Disturb
  <2>2. ASSUME NEW q \in Callers \ {p} PROVE Keeps(q)
    <3>1. call'[q] = call[q]
      BY <1>0, <1>9 DEF RemoveServer, Return
    <3> QED
      BY <1>9, <3>1, PlanStays, DisturbStays DEF RemoveServer
  <2> QED
    BY <1>1, <2>1, <2>2
<1>10. ASSUME NEW s \in Ids, Promote(s) \/ Demote(s) PROVE Planned'
  <2>1. Disturb(Callers) /\ UNCHANGED call
    BY <1>10 DEF Promote, Demote, Reconciles
  <2>2. ASSUME NEW q \in Callers PROVE Keeps(q)
    BY <2>1, PlanStays, DisturbStays
  <2> QED
    BY <1>1, <2>2
<1>11. ASSUME UpdateState \/ TakeTrigger \/ UNCHANGED vars PROVE Planned'
  <2>1. UNCHANGED <<cfg, call, base>>
    BY <1>11 DEF UpdateState, TakeTrigger, vars
  <2> QED
    BY <2>1 DEF Planned
<1>12. ASSUME NEW p \in Callers, CallerStep(p) PROVE Planned'
  BY <1>4, <1>5, <1>6, <1>7, <1>8, <1>9, <1>12
     DEF CallerStep, CallAddServer, CallRemoveServer
<1> QED
  BY <1>10, <1>11, <1>12 DEF Next, AutopilotStep

-----------------------------------------------------------------------------
(* Votes.                                                                  *)

LEMMA StepEntitled == TypeInv /\ Entitled /\ [Next]_vars => Entitled'
<1> SUFFICES ASSUME TypeInv, Entitled, [Next]_vars PROVE Entitled'
  OBVIOUS
<1>0. cfg \in Configurations /\ call \in [Callers -> CallRecords] /\ entitled \subseteq Ids
  BY DEF TypeInv, TypeOK, CallRecords
<1> DEFINE Votes == \A s \in Ids : ExistingVoter(cfg', s) => s \in entitled'
           Claims(q) == call'[q].pc = "remove" /\ call'[q].existingVoter => call'[q].id \in entitled'
<1>1. ASSUME Votes, \A q \in Callers : Claims(q) PROVE Entitled'
  BY <1>1 DEF Entitled, ExistingVoter
<1>2. ASSUME UNCHANGED cfg, UNCHANGED entitled PROVE Votes
  BY <1>2 DEF Entitled
<1>3. ASSUME NEW q \in Callers, call'[q] = call[q], entitled \subseteq entitled' PROVE Claims(q)
  BY <1>3 DEF Entitled
<1>4. ASSUME NEW p \in Callers, UNCHANGED entitled, Votes, Claims(p),
             \A q \in Callers \ {p} : call'[q] = call[q]
      PROVE  Entitled'
  BY <1>1, <1>3, <1>4
<1>5. ASSUME NEW p \in Callers,
             \/ \E pc \in {"add", "read"}, s \in Ids, a \in Addrs \cup {None} : Begin(p, pc, s, a)
             \/ NothingToAdd(p) \/ RefuseAddition(p) \/ NothingToRemove(p) \/ FoundToRemove(p)
             \/ CallFails(p) \/ TriggerCleanup(p)
      PROVE  Entitled'
  <2>1. UNCHANGED <<cfg, entitled>>
    BY <1>5 DEF Begin, NothingToAdd, RefuseAddition, NothingToRemove, FoundToRemove, CallFails,
                TriggerCleanup
  <2>2. call'[p].pc # "remove"
    <3>1. ASSUME NEW pc \in {"add", "read"}, NEW s \in Ids, NEW a \in Addrs \cup {None},
                 Begin(p, pc, s, a)
          PROVE  call'[p].pc # "remove"
      <4>1. [Idle EXCEPT !.pc = pc, !.id = s, !.addr = a].pc = pc
        BY DEF Idle
      <4>2. call'[p] = [Idle EXCEPT !.pc = pc, !.id = s, !.addr = a]
        BY <1>0, <3>1 DEF Begin
      <4> QED
        BY <4>1, <4>2
    <3>2. CASE FoundToRemove(p)
      BY <1>0, <3>2 DEF FoundToRemove, CallRecords
    <3>3. CASE Return(p)
      BY <1>0, <3>3, IdleType DEF Return
    <3> QED
      BY <1>5, <3>1, <3>2, <3>3
         DEF NothingToAdd, RefuseAddition, NothingToRemove, CallFails, TriggerCleanup
  <2>3. \A q \in Callers \ {p} : call'[q] = call[q]
    BY <1>0, <1>5 DEF Begin, NothingToAdd, RefuseAddition, NothingToRemove, FoundToRemove,
                      CallFails, TriggerCleanup, Return
  <2> QED
    BY <1>2, <1>4, <2>1, <2>2, <2>3
<1>6. ASSUME NEW p \in Callers, PlanAddition(p) PROVE Entitled'
  <2>1. /\ UNCHANGED <<cfg, entitled>> /\ \A q \in Callers \ {p} : call'[q] = call[q]
        /\ call'[p].id = call[p].id /\ (call'[p].existingVoter <=> ExistingVoter(cfg, call[p].id))
    BY <1>0, <1>6 DEF PlanAddition, Plan
  <2>2. call[p].id \in Ids
    BY <1>6 DEF PlanAddition, AtPc, TypeInv, Called
  <2>3. Claims(p)
    BY <2>1, <2>2 DEF Entitled
  <2> QED
    BY <1>2, <1>4, <2>1, <2>3
<1>7. ASSUME NEW p \in Callers, NEW t \in Ids, RemoveDuplicate(p, t) PROVE Entitled'
  <2>1. Votes
    BY <1>0, <1>7 DEF RemoveDuplicate, Remove, Absent, Entitled, ExistingVoter, Configurations
  <2>2. /\ UNCHANGED entitled /\ \A q \in Callers \ {p} : call'[q] = call[q]
        /\ call'[p].id = call[p].id /\ call'[p].existingVoter = call[p].existingVoter
        /\ call[p].pc = "remove"
    BY <1>0, <1>7 DEF RemoveDuplicate, AtPc, CallRecords
  <2>3. Claims(p)
    BY <2>2 DEF Entitled
  <2> QED
    BY <1>4, <2>1, <2>2, <2>3
<1>8. ASSUME NEW p \in Callers, Add(p) PROVE Entitled'
  <2>1. call[p].id \in Ids /\ (call[p].existingVoter => call[p].id \in entitled)
    BY <1>8 DEF Add, AtPc, TypeInv, Called, Entitled
  <2>2. Votes
    BY <1>0, <1>8, <2>1
       DEF Add, AddVoter, AddNonvoter, Entitled, ExistingVoter, Configurations
  <2>3. /\ UNCHANGED entitled /\ \A q \in Callers \ {p} : call'[q] = call[q]
        /\ call'[p].pc = "added"
    BY <1>0, <1>8 DEF Add, CallRecords
  <2> QED
    BY <1>4, <2>2, <2>3
<1>9. ASSUME NEW p \in Callers, RemoveServer(p) PROVE Entitled'
  <2>1. call[p].id \in Ids
    BY <1>9 DEF RemoveServer, AtPc, TypeInv, Called
  <2>2. Votes
    BY <1>0, <1>9, <2>1 DEF RemoveServer, Remove, Absent, Entitled, ExistingVoter, Configurations
  <2>3. /\ UNCHANGED entitled /\ \A q \in Callers \ {p} : call'[q] = call[q]
        /\ call'[p].pc = "idle"
    BY <1>0, <1>9 DEF RemoveServer, Return, Idle
  <2> QED
    BY <1>4, <2>2, <2>3
<1>10. ASSUME NEW s \in Ids, Promote(s) \/ Demote(s) PROVE Entitled'
  <2>1. UNCHANGED call /\ entitled \subseteq entitled'
    BY <1>10 DEF Promote, Demote, Reconciles
  <2>2. CASE Promote(s)
    <3>1. Votes
      BY <1>0, <2>2 DEF Promote, Reconciles, AddVoter, Entitled, ExistingVoter, Configurations
    <3> QED
      BY <1>1, <1>3, <2>1, <3>1
  <2>3. CASE Demote(s)
    <3>1. Votes
      BY <1>0, <2>3
         DEF Demote, Reconciles, DemoteVoter, Entitled, ExistingVoter, Configurations, Entries, Absent
    <3> QED
      BY <1>1, <1>3, <2>1, <3>1
  <2> QED
    BY <1>10, <2>2, <2>3
<1>11. ASSUME UpdateState \/ TakeTrigger \/ UNCHANGED vars PROVE Entitled'
  <2>1. UNCHANGED <<cfg, call, entitled>>
    BY <1>11 DEF UpdateState, TakeTrigger, vars
  <2> QED
    BY <1>1, <1>2, <1>3, <2>1
<1>12. ASSUME NEW p \in Callers, CallerStep(p) PROVE Entitled'
  BY <1>5, <1>6, <1>7, <1>8, <1>9, <1>12 DEF CallerStep, CallAddServer, CallRemoveServer
<1> QED
  BY <1>10, <1>11, <1>12 DEF Next, AutopilotStep

LEMMA InitIInv == Init => IInv
<1> SUFFICES ASSUME Init PROVE IInv
  OBVIOUS
<1>1. TypeInv
  BY InitTypes
<1>2. Planned
  BY DEF Init, Planned
<1>3. Entitled
  BY DEF Init, Entitled, ExistingVoter, Idle
<1> QED
  BY <1>1, <1>2, <1>3 DEF IInv, TypeInv

LEMMA StepIInv == IInv /\ [Next]_vars => IInv'
BY StepTypes, StepPlanned, StepEntitled DEF IInv, TypeInv

LEMMA Invariance == Spec => []IInv
BY InitIInv, StepIInv, PTL DEF Spec

\* Every variable has the type of what it models.
THEOREM TypeCorrectness == Spec => []TypeOK
<1>1. IInv => TypeOK
  BY DEF IInv
<1> QED
  BY <1>1, Invariance, PTL

\* AddServer grants no votes, whatever happens between its calls.
THEOREM VotesAreEarned == Spec => []VoteEarned
<1>1. IInv => VoteEarned
  BY DEF IInv, Entitled, ExistingVoter, VoteEarned, VotersOf
<1> QED
  BY <1>1, Invariance, PTL

-----------------------------------------------------------------------------
(* Quorums.                                                                *)

\* Of the voters V, those in R are to be removed and those in G have been.
LEMMA Counting ==
  ASSUME NEW V, NEW R, NEW G, IsFiniteSet(V), R \subseteq V, G \subseteq R,
         ~(Cardinality(R) > Cardinality(V) - RequiredQuorum(Cardinality(V)))
  PROVE  /\ 2 * Cardinality(V \ G) > Cardinality(V)
         /\ ~(Cardinality(R \ G) > Cardinality(V \ G) - RequiredQuorum(Cardinality(V \ G)))
<1> DEFINE v == Cardinality(V)
           r == Cardinality(R)
           g == Cardinality(G)
<1>1. IsFiniteSet(R) /\ IsFiniteSet(G) /\ r <= v /\ g <= r
  BY FS_Subset
<1>2. v \in Nat /\ r \in Nat /\ g \in Nat
  BY <1>1, FS_CardinalityType
<1>3. Cardinality(V \ G) = v - g /\ Cardinality(R \ G) = r - g
  <2>1. V \cap G = G /\ R \cap G = G
    OBVIOUS
  <2>2. Cardinality(V \ G) = v - Cardinality(V \cap G)
    BY FS_Difference
  <2>3. Cardinality(R \ G) = r - Cardinality(R \cap G)
    BY <1>1, FS_Difference
  <2> QED
    BY <2>1, <2>2, <2>3
<1>4. r <= v - ((v \div 2) + 1)
  BY <1>2 DEF RequiredQuorum
<1> HIDE DEF v, r, g
<1>5. 2 * (v - g) > v
  BY <1>1, <1>2, <1>4
<1>6. r - g <= (v - g) - (((v - g) \div 2) + 1)
  BY <1>1, <1>2, <1>4
<1>7. ~(r - g > (v - g) - RequiredQuorum(v - g))
  BY <1>1, <1>2, <1>6 DEF RequiredQuorum
<1> QED
  BY <1>3, <1>5, <1>7 DEF v

\* Who is left of the voters that an addition c has found in old.
LEMMA VotersLeft ==
  ASSUME NEW c \in CallRecords, NEW old \in Configurations, NEW k, PlanOf(c, old, k), c.id \in Ids
  PROVE  LET gone == VoterRemovals(old, c.id, c.addr) \ c.voterRemovals
         IN /\ VotersOf(old) \ gone \subseteq VotersOf(k)
            /\ c.pc = "remove" =>
                 /\ VotersOf(k) = VotersOf(old) \ gone
                 /\ VoterRemovals(k, c.id, c.addr) = VoterRemovals(old, c.id, c.addr) \ gone
            /\ c.pc = "added" => VoterRemovals(k, c.id, c.addr) = {}
<1> DEFINE gone == VoterRemovals(old, c.id, c.addr) \ c.voterRemovals
           left == c.voterRemovals \cup c.nonVoterRemovals
<1>1. /\ c.voterRemovals \subseteq VoterRemovals(old, c.id, c.addr)
      /\ c.nonVoterRemovals \subseteq NonVoterRemovals(old, c.id, c.addr)
      /\ c.pc \in {"remove", "added"}
      /\ c.pc = "added" => left = {}
  BY DEF PlanOf
<1>2. ASSUME NEW t \in Ids
      PROVE  k[t] = IF t = c.id /\ c.pc = "added"
                      THEN [suffrage |-> IF ExistingVoter(old, t) THEN "voter" ELSE "nonvoter",
                            addr |-> c.addr]
                    ELSE IF t \in Duplicates(old, c.id, c.addr) \ left THEN Absent
                    ELSE old[t]
  BY DEF PlanOf, Expected
<1>3. Absent.suffrage = "none"
  BY DEF Absent
<1>4. VotersOf(old) \ gone \subseteq VotersOf(k)
  <2>1. ASSUME NEW t \in VotersOf(old) \ gone PROVE t \in Ids /\ k[t].suffrage = "voter"
    <3>1. t \in Ids /\ old[t].suffrage = "voter" /\ ExistingVoter(old, t)
      BY <2>1 DEF VotersOf, ExistingVoter
    <3>2. t \notin Duplicates(old, c.id, c.addr) \ left
      BY <2>1 DEF VoterRemovals
    <3>3. CASE t = c.id /\ c.pc = "added"
      <4>1. k[t] = [suffrage |-> "voter", addr |-> c.addr]
        BY <1>2, <3>1, <3>3
      <4> QED
        BY <3>1, <4>1
    <3>4. CASE ~(t = c.id /\ c.pc = "added")
      <4>1. k[t] = old[t]
        BY <1>2, <3>1, <3>2, <3>4
      <4> QED
        BY <3>1, <4>1
    <3> QED
      BY <3>3, <3>4
  <2> QED
    BY <2>1 DEF VotersOf
<1>5. ASSUME c.pc = "remove" PROVE VotersOf(k) = VotersOf(old) \ gone
  BY <1>1, <1>2, <1>3, <1>4, <1>5 DEF VotersOf, VoterRemovals, NonVoterRemovals
<1>6. ASSUME c.pc = "remove" PROVE VoterRemovals(k, c.id, c.addr) = c.voterRemovals
  <2>1. VoterRemovals(k, c.id, c.addr) \subseteq c.voterRemovals
    BY <1>1, <1>2, <1>3, <1>6 DEF VotersOf, VoterRemovals, NonVoterRemovals, Duplicates, InRaft
  <2>2. c.voterRemovals \subseteq VoterRemovals(k, c.id, c.addr)
    BY <1>1, <1>2, <1>6 DEF VotersOf, VoterRemovals, Duplicates, InRaft
  <2> QED
    BY <2>1, <2>2
<1>7. ASSUME c.pc = "added" PROVE VoterRemovals(k, c.id, c.addr) = {}
  <2>1. ASSUME NEW t \in Ids \ {c.id}, InRaft(k, t) PROVE k[t].addr # c.addr
    <3>1. t \notin Duplicates(old, c.id, c.addr) /\ k[t] = old[t]
      BY <1>1, <1>2, <1>7, <2>1 DEF InRaft
    <3> QED
      BY <2>1, <3>1 DEF Duplicates, InRaft
  <2> QED
    BY <2>1 DEF VoterRemovals, Duplicates
<1>8. c.voterRemovals = VoterRemovals(old, c.id, c.addr) \ gone
  BY <1>1
<1> QED
  BY <1>4, <1>5, <1>6, <1>7, <1>8

\* What the invariant says of a caller that is undisturbed.
LEMMA UndisturbedPlan ==
  ASSUME IInv, NEW p \in Callers, Undisturbed(p)
  PROVE  /\ call[p] \in CallRecords /\ base[p] \in Configurations /\ cfg \in Configurations
         /\ PlanOf(call[p], base[p], cfg) /\ call[p].id \in Ids /\ call[p].addr \in Addrs
<1>1. PlanOf(call[p], base[p], cfg)
  BY DEF IInv, Undisturbed, Planned
<1>2. call[p].pc \in {"remove", "added"}
  BY <1>1 DEF PlanOf
<1> QED
  BY <1>1, <1>2 DEF IInv, TypeOK, CallRecords, Called, Undisturbed

LEMMA IInvQuorum ==
  ASSUME IInv, NEW p \in Callers, Undisturbed(p)
  PROVE  /\ 2 * Cardinality(VotersOf(base[p]) \cap VotersOf(cfg)) > Cardinality(VotersOf(base[p]))
         /\ ~TooManyRemovals(cfg, call[p].id, call[p].addr)
<1> DEFINE c == call[p]
           V == VotersOf(base[p])
           R == VoterRemovals(base[p], c.id, c.addr)
           G == R \ c.voterRemovals
<1>1. /\ c \in CallRecords /\ base[p] \in Configurations
      /\ PlanOf(c, base[p], cfg) /\ c.id \in Ids
  BY UndisturbedPlan
<1>2. IsFiniteSet(V) /\ IsFiniteSet(VotersOf(cfg)) /\ R \subseteq V /\ G \subseteq R
  BY NamesAssumption, FS_Subset DEF VotersOf, VoterRemovals
<1>3. ~(Cardinality(R) > Cardinality(V) - RequiredQuorum(Cardinality(V)))
  BY <1>1 DEF PlanOf, TooManyRemovals, NumVoters
<1>4. /\ V \ G \subseteq VotersOf(cfg)
      /\ c.pc = "remove" => VotersOf(cfg) = V \ G /\ VoterRemovals(cfg, c.id, c.addr) = R \ G
      /\ c.pc = "added" => VoterRemovals(cfg, c.id, c.addr) = {}
      /\ c.pc \in {"remove", "added"}
  BY <1>1, VotersLeft DEF PlanOf
<1> HIDE DEF c, V, R, G
<1>5. /\ 2 * Cardinality(V \ G) > Cardinality(V)
      /\ ~(Cardinality(R \ G) > Cardinality(V \ G) - RequiredQuorum(Cardinality(V \ G)))
  BY <1>2, <1>3, Counting
<1>6. Cardinality(V \ G) <= Cardinality(V \cap VotersOf(cfg))
  <2>1. V \ G \subseteq V \cap VotersOf(cfg) /\ IsFiniteSet(V \cap VotersOf(cfg))
    BY <1>2, <1>4, FS_Subset
  <2> QED
    BY <2>1, FS_Subset
<1>7. /\ Cardinality(V) \in Nat /\ Cardinality(V \ G) \in Nat
      /\ Cardinality(V \cap VotersOf(cfg)) \in Nat /\ Cardinality(VotersOf(cfg)) \in Nat
      /\ Cardinality(V \cap VotersOf(cfg)) <= Cardinality(VotersOf(cfg))
  <2>1. /\ IsFiniteSet(V \ G) /\ IsFiniteSet(V \cap VotersOf(cfg))
        /\ Cardinality(V \cap VotersOf(cfg)) <= Cardinality(VotersOf(cfg))
    BY <1>2, FS_Subset
  <2> QED
    BY <1>2, <2>1, FS_CardinalityType
<1>8. 2 * Cardinality(V \cap VotersOf(cfg)) > Cardinality(V)
  BY <1>5, <1>6, <1>7
<1>9. ~TooManyRemovals(cfg, c.id, c.addr)
  <2>1. CASE c.pc = "remove"
    BY <1>4, <1>5, <2>1 DEF TooManyRemovals, NumVoters
  <2>2. CASE c.pc = "added"
    <3>1. Cardinality(VotersOf(cfg)) > 0
      BY <1>7, <1>8
    <3>2. Cardinality({}) = 0
      BY FS_EmptySet
    <3>3. Cardinality(VoterRemovals(cfg, c.id, c.addr)) = 0
      BY <1>4, <2>2, <3>2
    <3>4. ASSUME NEW n \in Nat, n > 0 PROVE ~(0 > n - RequiredQuorum(n))
      BY <3>4 DEF RequiredQuorum
    <3> QED
      BY <1>7, <3>1, <3>3, <3>4 DEF TooManyRemovals, NumVoters
  <2> QED
    BY <1>4, <2>1, <2>2
<1> QED
  BY <1>8, <1>9 DEF c, V

\* Wherever an undisturbed AddServer is cut short, the voters it found that
\* are left are a majority of them.
THEOREM MajorityStays == Spec => []QuorumSurvives
<1>1. IInv => QuorumSurvives
  BY IInvQuorum DEF QuorumSurvives
<1> QED
  BY <1>1, Invariance, PTL

\* And the same AddServer, called again, passes its check on the number of
\* removals.
THEOREM RetriesPass == Spec => []RetryAccepted
<1>1. IInv => RetryAccepted
  BY IInvQuorum DEF RetryAccepted
<1> QED
  BY <1>1, Invariance, PTL

\* An undisturbed AddServer makes the change it was asked for and no other.
THEOREM AdditionsAreExact == Spec => []AdditionExact
<1>1. ASSUME IInv, NEW p \in Callers, AtPc(p, "added"), Undisturbed(p)
      PROVE  LET old == base[p]
                 s   == call[p].id
             IN /\ {t \in Ids : cfg[t].addr = call[p].addr} = {s}
                /\ s \in VotersOf(cfg) <=> old[s].suffrage \in {"voter", "staging"}
                /\ \A t \in Ids \ {s} : cfg[t] # old[t] => old[t].addr = call[p].addr
  <2> DEFINE c == call[p]
             old == base[p]
  <2>1. /\ c \in CallRecords /\ old \in Configurations /\ PlanOf(c, old, cfg)
        /\ c.id \in Ids /\ c.addr \in Addrs /\ c.pc = "added"
    BY <1>1, UndisturbedPlan DEF AtPc
  <2> HIDE DEF c, old
  <2>2. cfg[c.id] = [suffrage |-> IF ExistingVoter(old, c.id) THEN "voter" ELSE "nonvoter",
                     addr |-> c.addr]
    BY <2>1 DEF PlanOf, Expected
  <2>3. ASSUME NEW t \in Ids \ {c.id}
        PROVE  cfg[t] = IF t \in Duplicates(old, c.id, c.addr) THEN Absent ELSE old[t]
    BY <2>1 DEF PlanOf, Expected
  <2>4. ASSUME NEW t \in Ids \ {c.id} PROVE cfg[t].addr # c.addr
    BY <2>1, <2>3, NamesAssumption DEF Duplicates, InRaft, Absent
  <2>5. {t \in Ids : cfg[t].addr = c.addr} = {c.id}
    BY <2>1, <2>2, <2>4
  <2>6. c.id \in VotersOf(cfg) <=> old[c.id].suffrage \in {"voter", "staging"}
    BY <2>1, <2>2 DEF VotersOf, ExistingVoter
  <2>7. \A t \in Ids \ {c.id} : cfg[t] # old[t] => old[t].addr = c.addr
    BY <2>3 DEF Duplicates
  <2> QED
    BY <2>5, <2>6, <2>7 DEF c, old
<1>2. IInv => AdditionExact
  BY <1>1 DEF AdditionExact
<1> QED
  BY <1>2, Invariance, PTL
=============================================================================
