-------------------------- MODULE TelemetryProofs ---------------------------
(***************************************************************************)
(* Theorems about health verdicts, for any cluster, any length of the logs *)
(* and number of elections, any MaxTrailingLogs and any width of the       *)
(* integers they are computed in.                                          *)
(***************************************************************************)
EXTENDS Telemetry, SequenceTheorems, TLAPS

-----------------------------------------------------------------------------
(* Logs.  k is the log of the leader and l that of another server.         *)

Logs == Seq(1..MaxTerm)

\* l and k have the same first n entries.
Agree(l, k, n) ==
  /\ n <= Len(l) /\ n <= Len(k)
  /\ \A i \in 1..n : l[i] = k[i]

PrefixOf(l, k) == Agree(l, k, Len(l))

\* Terms do not decrease in a log, and none is greater than t.
Ordered(l, t) ==
  \A i \in 1..Len(l) : l[i] <= t /\ \A j \in 1..i : l[j] <= l[i]

\* Logs with an entry of the same term agree up to the first of the two.
Matching(l, k) ==
  \A x \in 1..Len(l), n \in 1..Len(k) : n <= x /\ l[x] = k[n] => Agree(l, k, n)

\* Entries of the leader's term come from its log.
FromLeader(l, k, t) == \A i \in 1..Len(l) : l[i] = t => Agree(l, k, i)

HasTerm(k, t) == \E i \in 1..Len(k) : k[i] = t

\* The log has been at position p, or has passed it in the same term.
Reaches(k, p) == \E i \in 1..Len(k) : i >= p.index /\ k[i] = p.term

\* What has become of a log that was at position p when the leader's term was
\* t already.  It may have lost entries since, if the leader never had them.
Seen(l, k, t, p) ==
  \/ LastEntry(l) = p
  \/ /\ PrefixOf(l, k)
     /\ \/ AtLeast(LastEntry(l), p)
        \/ p.term < t /\ ~HasTerm(k, p.term)

\* The log is past the term of p, or in it and not too far behind.
UpTo(l, k, p, limit) ==
  \/ PrefixOf(l, k) /\ LastEntry(l).term > p.term
  \/ LastEntry(l).term = p.term /\ Len(l) + limit >= p.index

-----------------------------------------------------------------------------
(* The inductive invariant.                                                *)

LogInv ==
  /\ \A s \in Servers : Ordered(log[s], term)
  /\ \A s \in Servers : FromLeader(log[s], log[leader], term)
  /\ \A s, u \in Servers : Matching(log[s], log[u])

\* What an update has read of the server it runs on, unless there was an
\* election.
InputsInv ==
  /\ inputs.leaderID = leader
  /\ upc \in {"term", "fetch"} => (inputs.isLeader <=> leader = Self)
  /\ leader = Self => inputs.latestIndex <= Len(log[Self])
  /\ upc = "fetch" /\ leader = Self /\ inputs.lastTerm # 0 =>
       Reaches(log[leader], [term |-> inputs.lastTerm, index |-> inputs.latestIndex])

\* What it has heard of the others.
FetchedInv ==
  /\ \A s \in Servers :
       fetched[s] # None => Seen(log[s], log[leader], term, fetched[s])
  /\ fetched[leader] # None /\ fetched[leader].index # 0 =>
       Reaches(log[leader], fetched[leader])

UpdateInv ==
  /\ upc # "fetch" => fetched = NothingFetched
  /\ steady => InputsInv /\ FetchedInv

\* What a published state is worth.
VerdictInv ==
  \A s \in Servers \ shaken :
    /\ Seen(log[s], log[leader], term, stats[s])
    /\ health[s] => /\ Reaches(log[leader], measure)
                    /\ UpTo(log[s], log[leader], measure, maxTrailingLogs)

\* Who was close to the leader has stayed close to where it was.
CloseInv ==
  /\ close # {} => steady
  /\ \A s \in close :
       /\ log[leader] # <<>>
       /\ LastEntry(log[s]).term = LastEntry(log[leader]).term
       /\ leader = Self => /\ inputs.latestIndex > 0
                           /\ Len(log[s]) + maxTrailingLogs >= inputs.latestIndex
                           /\ upc = "fetch" => inputs.lastTerm = LastEntry(log[leader]).term
       /\ fetched[s] # None =>
            /\ fetched[s].term = LastEntry(log[leader]).term
            /\ leader = Self => fetched[s].index + maxTrailingLogs >= inputs.latestIndex

IInv == TypeOK /\ LogInv /\ UpdateInv /\ VerdictInv /\ CloseInv

-----------------------------------------------------------------------------
(* Facts about logs.                                                       *)

LEMMA LastEntryOf ==
  ASSUME NEW l \in Logs
  PROVE  /\ LastEntry(l).term = IF Len(l) = 0 THEN 0 ELSE l[Len(l)]
         /\ LastEntry(l).index = Len(l)
         /\ Len(l) \in Nat /\ \A i \in 1..Len(l) : l[i] \in 1..MaxTerm
         /\ l = <<>> <=> Len(l) = 0
<1>1. l \in Seq(1..MaxTerm)
  BY DEF Logs
<1>2. Len(l) \in Nat /\ (l = <<>> <=> Len(l) = 0) /\ \A i \in 1..Len(l) : l[i] \in 1..MaxTerm
  BY <1>1, EmptySeq, LenProperties
<1> QED
  BY <1>2 DEF LastEntry, Last

LEMMA InTerm ==
  ASSUME NEW l \in Logs
  PROVE  /\ Len(l) = 0 => LastEntry(l).term = 0
         /\ Len(l) > 0 => LastEntry(l).term = l[Len(l)] /\ l[Len(l)] # 0
<1>1. Len(l) > 0 => Len(l) \in 1..Len(l)
  BY LastEntryOf
<1>2. \A i \in 1..Len(l) : l[i] # 0
  BY LastEntryOf, BoundsAssumption
<1> QED
  BY <1>1, <1>2, LastEntryOf

LEMMA LastEntryType ==
  ASSUME NEW l \in Logs
  PROVE  LastEntry(l) \in [term : 0..MaxTerm, index : Nat]
<1>1. LastEntry(l).term \in 0..MaxTerm /\ LastEntry(l).index \in Nat
  BY LastEntryOf, BoundsAssumption
<1> QED
  BY <1>1 DEF LastEntry

\* Appending an entry.
LEMMA Longer ==
  ASSUME NEW l \in Logs, NEW t \in 1..MaxTerm
  PROVE  LET k == l \o <<t>>
         IN /\ k \in Logs /\ Len(k) = Len(l) + 1 /\ k[Len(l) + 1] = t
            /\ Agree(l, k, Len(l))
            /\ LastEntry(k) = [term |-> t, index |-> Len(l) + 1]
<1> DEFINE k == l \o <<t>>
<1>1. /\ k \in Logs /\ Len(k) = Len(l) + 1 /\ k[Len(l) + 1] = t
      /\ Len(l) \in Nat /\ \A i \in 1..Len(l) : l[i] = k[i]
  BY DEF Logs
<1> HIDE DEF k
<1>2. Agree(l, k, Len(l))
  BY <1>1 DEF Agree
<1>3. k # <<>>
  BY <1>1, LastEntryOf
<1>4. LastEntry(k) = [term |-> t, index |-> Len(l) + 1]
  BY <1>1, <1>3 DEF LastEntry, Last
<1> QED
  BY <1>1, <1>2, <1>4 DEF k

LEMMA Taken ==
  ASSUME NEW k \in Logs, NEW n \in Nat, n <= Len(k)
  PROVE  /\ SubSeq(k, 1, n) \in Logs /\ Len(SubSeq(k, 1, n)) = n
         /\ \A i \in 1..n : SubSeq(k, 1, n)[i] = k[i]
<1>1. \A i \in 1..n : k[i] \in 1..MaxTerm
  BY LastEntryOf
<1> DEFINE p == SubSeq(k, 1, n)
<1>2. /\ p \in Seq(1..MaxTerm) /\ Len(p) = IF 1 <= n THEN n - 1 + 1 ELSE 0
      /\ \A i \in 1..(n - 1 + 1) : p[i] = k[1 + i - 1]
  BY <1>1, SubSeqProperties
<1> HIDE DEF p
<1>3. \A i \in 1..n : 1 + i - 1 = i /\ i \in 1..(n - 1 + 1)
  OBVIOUS
<1> QED
  BY <1>2, <1>3 DEF Logs, p

\* The first n entries of a log.
LEMMA Shorter ==
  ASSUME NEW k \in Logs, NEW n \in 1..Len(k)
  PROVE  LET l == SubSeq(k, 1, n)
         IN /\ l \in Logs /\ Len(l) = n /\ PrefixOf(l, k)
            /\ LastEntry(l) = [term |-> k[n], index |-> n]
<1> DEFINE l == SubSeq(k, 1, n)
<1>1. Len(k) \in Nat /\ n \in Nat
  BY LastEntryOf
<1>2. l \in Logs /\ Len(l) = n /\ \A i \in 1..n : l[i] = k[i]
  BY <1>1, Taken
<1> HIDE DEF l
<1>3. PrefixOf(l, k)
  BY <1>1, <1>2 DEF PrefixOf, Agree
<1>4. l # <<>>
  BY <1>2, LastEntryOf
<1>5. LastEntry(l) = [term |-> k[n], index |-> n]
  BY <1>1, <1>2, <1>4 DEF LastEntry, Last
<1> QED
  BY <1>2, <1>3, <1>5 DEF l

\* When a follower has the first n entries of the leader already.
LEMMA HasThem ==
  ASSUME NEW k \in Logs, NEW l \in Logs, NEW n \in 1..Len(k)
  PROVE  IsPrefix(SubSeq(k, 1, n), l) <=> Agree(k, l, n)
<1> DEFINE p == SubSeq(k, 1, n)
           q == SubSeq(l, 1, n)
<1>1. Len(k) \in Nat /\ n \in Nat /\ n <= Len(k) /\ Len(l) \in Nat
  BY LastEntryOf
<1>2. p \in Logs /\ Len(p) = n /\ \A i \in 1..n : p[i] = k[i]
  BY <1>1, Taken
<1>3. SubSeq(p, 1, n) = p
  BY <1>1, <1>2 DEF Logs
<1>4. ASSUME n <= Len(l) PROVE q \in Logs /\ Len(q) = n /\ \A i \in 1..n : q[i] = l[i]
  BY <1>1, <1>4, Taken
<1> HIDE DEF p, q
<1>5. IsPrefix(p, l) <=> n <= Len(l) /\ p = q
  BY <1>2, <1>3 DEF IsPrefix, q
<1>6. ASSUME n <= Len(l) PROVE p = q <=> \A i \in 1..n : p[i] = q[i]
  BY <1>2, <1>4, <1>6 DEF Logs
<1> QED
  BY <1>1, <1>2, <1>4, <1>5, <1>6 DEF Agree, p

\* Agreement, from log to log and up to an earlier entry.
LEMMA AgreeVia ==
  ASSUME NEW l \in Logs, NEW k \in Logs, NEW m \in Logs, NEW i \in Nat, NEW n \in Nat, i <= n,
         \/ Agree(l, k, i) /\ Agree(k, m, n)
         \/ Agree(l, k, n) /\ Agree(k, m, i)
  PROVE  Agree(l, m, i)
BY LastEntryOf DEF Agree

LEMMA AgreeBack ==
  ASSUME NEW l \in Logs, NEW k \in Logs, NEW n \in Nat, Agree(l, k, n)
  PROVE  Agree(k, l, n)
BY DEF Agree

LEMMA AgreeSelf == ASSUME NEW l \in Logs, NEW n \in 0..Len(l) PROVE Agree(l, l, n)
BY DEF Agree

LEMMA AgreeLess ==
  ASSUME NEW l \in Logs, NEW k \in Logs, NEW i \in Nat, NEW n \in Nat, i <= n, Agree(l, k, n)
  PROVE  Agree(l, k, i)
BY LastEntryOf DEF Agree

\* The leader appends an entry of its term t.
LEMMA LogsGrow ==
  ASSUME NEW l \in Logs, NEW k \in Logs, NEW t \in 1..MaxTerm,
         Matching(l, k), Matching(k, l), FromLeader(l, k, t)
  PROVE  LET kk == k \o <<t>>
         IN Matching(l, kk) /\ Matching(kk, l) /\ FromLeader(l, kk, t)
<1> DEFINE kk == k \o <<t>>
<1>1. /\ kk \in Logs /\ Len(kk) = Len(k) + 1 /\ kk[Len(k) + 1] = t
      /\ Agree(k, kk, Len(k))
  BY Longer
<1>2. \A i \in 1..Len(k) : kk[i] = k[i]
  BY <1>1 DEF Agree
<1>3. Len(k) \in Nat /\ Len(l) \in Nat
  BY LastEntryOf
<1> HIDE DEF kk
<1>4. ASSUME NEW n \in 1..Len(k), Agree(l, k, n) PROVE Agree(l, kk, n)
  BY <1>1, <1>2, <1>3, <1>4 DEF Agree
<1>5. FromLeader(l, kk, t)
  <2> SUFFICES ASSUME NEW i \in 1..Len(l), l[i] = t PROVE Agree(l, kk, i)
    BY DEF FromLeader
  <2>1. Agree(l, k, i)
    BY DEF FromLeader
  <2>2. i \in 1..Len(k)
    BY <1>3, <2>1 DEF Agree
  <2> QED
    BY <1>4, <2>1, <2>2
<1>6. Matching(l, kk)
  <2> SUFFICES ASSUME NEW x \in 1..Len(l), NEW n \in 1..Len(kk), n <= x, l[x] = kk[n]
               PROVE  Agree(l, kk, n)
    BY DEF Matching
  <2>1. CASE n \in 1..Len(k)
    BY <1>2, <1>4, <2>1 DEF Matching
  <2>2. CASE n = Len(k) + 1
    <3>1. Agree(l, k, x)
      BY <1>1, <2>2 DEF FromLeader
    <3> QED
      BY <1>3, <2>2, <3>1 DEF Agree
  <2> QED
    BY <1>1, <1>3, <2>1, <2>2
<1>7. Matching(kk, l)
  <2> SUFFICES ASSUME NEW x \in 1..Len(kk), NEW n \in 1..Len(l), n <= x, kk[x] = l[n]
               PROVE  Agree(kk, l, n)
    BY DEF Matching
  <2>1. CASE x \in 1..Len(k)
    <3>1. Agree(k, l, n)
      BY <1>2, <2>1 DEF Matching
    <3>2. Agree(l, k, n) /\ n \in 1..Len(k)
      BY <3>1, AgreeBack DEF Agree
    <3> QED
      BY <1>1, <1>4, <3>2, AgreeBack
  <2>2. CASE x = Len(k) + 1
    <3>1. Agree(l, k, n)
      BY <1>1, <2>2 DEF FromLeader
    <3>2. n \in 1..Len(k)
      BY <1>3, <3>1 DEF Agree
    <3> QED
      BY <1>1, <1>4, <3>1, <3>2, AgreeBack
  <2> QED
    BY <1>1, <1>3, <2>1, <2>2
<1> QED
  BY <1>5, <1>6, <1>7 DEF kk

LEMMA OrderedGrows ==
  ASSUME NEW k \in Logs, NEW t \in 1..MaxTerm, Ordered(k, t)
  PROVE  Ordered(k \o <<t>>, t)
<1> DEFINE kk == k \o <<t>>
<1>1. /\ kk \in Logs /\ Len(kk) = Len(k) + 1 /\ kk[Len(k) + 1] = t
      /\ Agree(k, kk, Len(k))
  BY Longer
<1>2. \A i \in 1..Len(k) : kk[i] = k[i]
  BY <1>1 DEF Agree
<1>3. Len(k) \in Nat
  BY LastEntryOf
<1> HIDE DEF kk
<1>4. ASSUME NEW i \in 1..Len(kk) PROVE kk[i] <= t /\ \A j \in 1..i : kk[j] <= kk[i]
  <2>1. CASE i \in 1..Len(k)
    BY <1>2, <1>3, <2>1 DEF Ordered
  <2>2. CASE i = Len(k) + 1
    BY <1>1, <1>2, <1>3, <2>2 DEF Ordered
  <2> QED
    BY <1>1, <1>3, <2>1, <2>2
<1> QED
  BY <1>4 DEF Ordered, kk

\* A prefix of a log is as good as the log.
LEMMA LogsTaken ==
  ASSUME NEW l \in Logs, NEW k \in Logs, NEW p \in Logs, NEW t \in Nat, PrefixOf(p, k)
  PROVE  /\ Ordered(k, t) => Ordered(p, t)
         /\ FromLeader(p, k, t)
         /\ Matching(k, l) => Matching(p, l)
         /\ Matching(l, k) => Matching(l, p)
<1>1. Len(k) \in Nat /\ Len(p) \in Nat /\ Len(p) <= Len(k) /\ \A i \in 1..Len(p) : p[i] = k[i]
  BY LastEntryOf DEF PrefixOf, Agree
<1>2. Ordered(k, t) => Ordered(p, t)
  BY <1>1 DEF Ordered
<1>3. FromLeader(p, k, t)
  BY <1>1 DEF FromLeader, Agree
<1>4. Matching(k, l) => Matching(p, l)
  BY <1>1 DEF Matching, Agree
<1>5. Matching(l, k) => Matching(l, p)
  BY <1>1 DEF Matching, Agree
<1> QED
  BY <1>2, <1>3, <1>4, <1>5

\* A follower with log l takes entries it does not have: it gets further than
\* it was, or than any entry of the leader in the term it was in.
LEMMA TakesMore ==
  ASSUME NEW l \in Logs, NEW k \in Logs, NEW n \in 1..Len(k), ~Agree(k, l, n),
         Matching(l, k), Matching(k, l)
  PROVE  /\ PrefixOf(l, k) => Len(l) < n
         /\ ~PrefixOf(l, k) => Len(l) > 0
         /\ ~PrefixOf(l, k) => \A i \in 1..Len(k) : k[i] = l[Len(l)] => i < Len(l) /\ i < n
<1>1. Len(k) \in Nat /\ Len(l) \in Nat /\ n \in Nat
  BY LastEntryOf
<1>2. ~Agree(l, k, n)
  BY <1>1, AgreeBack
<1>3. PrefixOf(l, k) => Len(l) < n
  BY <1>1, <1>2, AgreeLess DEF PrefixOf
<1>4. ~PrefixOf(l, k) => Len(l) > 0
  BY <1>1 DEF PrefixOf, Agree
<1>5. ASSUME ~PrefixOf(l, k), NEW i \in 1..Len(k), k[i] = l[Len(l)] PROVE i < Len(l) /\ i < n
  <2>1. Len(l) \in 1..Len(l)
    BY <1>1, <1>4, <1>5
  <2>2. CASE i < Len(l)
    <3>1. Agree(l, k, i)
      BY <1>1, <1>5, <2>1, <2>2 DEF Matching
    <3> QED
      BY <1>1, <1>2, <2>2, <3>1, AgreeLess
  <2>3. CASE i >= Len(l)
    <3>1. Agree(k, l, Len(l))
      BY <1>1, <1>5, <2>1, <2>3 DEF Matching
    <3> QED
      BY <1>1, <1>5, <3>1, AgreeBack DEF PrefixOf
  <2> QED
    BY <1>1, <2>2, <2>3
<1> QED
  BY <1>3, <1>4, <1>5

\* Entries appended by the leader spoil nothing.
LEMMA SeenGrows ==
  ASSUME NEW l \in Logs, NEW k \in Logs, NEW t \in 1..MaxTerm, NEW p \in Positions,
         Seen(l, k, t, p)
  PROVE  Seen(l, k \o <<t>>, t, p)
<1> DEFINE kk == k \o <<t>>
<1>1. /\ kk \in Logs /\ Len(kk) = Len(k) + 1 /\ kk[Len(k) + 1] = t
      /\ Agree(k, kk, Len(k))
  BY Longer
<1>2. Len(k) \in Nat /\ Len(l) \in Nat /\ p.term \in Nat /\ t \in Nat
  BY LastEntryOf DEF Positions
<1> HIDE DEF kk
<1>3. PrefixOf(l, k) => PrefixOf(l, kk)
  BY <1>1, <1>2 DEF PrefixOf, Agree
<1>4. p.term < t /\ ~HasTerm(k, p.term) => ~HasTerm(kk, p.term)
  BY <1>1, <1>2 DEF HasTerm, Agree
<1> QED
  BY <1>3, <1>4 DEF Seen, kk

LEMMA SeenLeaderGrows ==
  ASSUME NEW k \in Logs, NEW t \in 1..MaxTerm, NEW p \in Positions, Ordered(k, t),
         Seen(k, k, t, p)
  PROVE  Seen(k \o <<t>>, k \o <<t>>, t, p)
<1> DEFINE kk == k \o <<t>>
<1>1. kk \in Logs /\ LastEntry(kk) = [term |-> t, index |-> Len(k) + 1]
  BY Longer
<1>2. /\ LastEntry(k).term = IF Len(k) = 0 THEN 0 ELSE k[Len(k)]
      /\ LastEntry(k).index = Len(k)
      /\ Len(k) \in Nat /\ \A i \in 1..Len(k) : k[i] \in 1..MaxTerm
  BY LastEntryOf
<1>3. LastEntry(k).term <= t /\ LastEntry(k).term \in Nat
  BY <1>2 DEF Ordered
<1>4. p.term \in Nat /\ p.index \in Nat
  BY DEF Positions
<1>5. LastEntry(k) = p \/ AtLeast(LastEntry(k), p) \/ p.term < t
  BY DEF Seen
<1> HIDE DEF kk
<1>6. AtLeast(LastEntry(kk), p)
  BY <1>1, <1>2, <1>3, <1>4, <1>5 DEF AtLeast
<1>7. PrefixOf(kk, kk)
  BY <1>1, LastEntryOf, AgreeSelf DEF PrefixOf
<1> QED
  BY <1>6, <1>7 DEF Seen, kk

LEMMA ReachesGrows ==
  ASSUME NEW k \in Logs, NEW t \in 1..MaxTerm, NEW p, Reaches(k, p)
  PROVE  Reaches(k \o <<t>>, p)
<1> DEFINE kk == k \o <<t>>
<1>1. kk \in Logs /\ Len(kk) = Len(k) + 1 /\ Agree(k, kk, Len(k)) /\ Len(k) \in Nat
  BY Longer, LastEntryOf
<1> HIDE DEF kk
<1> QED
  BY <1>1 DEF Reaches, Agree, kk

LEMMA UpToGrows ==
  ASSUME NEW l \in Logs, NEW k \in Logs, NEW t \in 1..MaxTerm, NEW p, NEW limit,
         UpTo(l, k, p, limit)
  PROVE  UpTo(l, k \o <<t>>, p, limit)
<1> DEFINE kk == k \o <<t>>
<1>1. /\ kk \in Logs /\ Len(kk) = Len(k) + 1 /\ Agree(k, kk, Len(k))
      /\ Len(k) \in Nat /\ Len(l) \in Nat
  BY Longer, LastEntryOf
<1> HIDE DEF kk
<1>2. PrefixOf(l, k) => PrefixOf(l, kk)
  BY <1>1 DEF PrefixOf, Agree
<1> QED
  BY <1>2 DEF UpTo, kk

LEMMA UpToLeaderGrows ==
  ASSUME NEW k \in Logs, NEW t \in 1..MaxTerm, NEW p \in Positions, NEW limit \in Nat,
         Ordered(k, t), UpTo(k, k, p, limit)
  PROVE  UpTo(k \o <<t>>, k \o <<t>>, p, limit)
<1> DEFINE kk == k \o <<t>>
<1>1. /\ kk \in Logs /\ LastEntry(kk) = [term |-> t, index |-> Len(k) + 1]
      /\ Len(kk) = Len(k) + 1
  BY Longer
<1>2. /\ LastEntry(k).term = IF Len(k) = 0 THEN 0 ELSE k[Len(k)]
      /\ Len(k) \in Nat /\ \A i \in 1..Len(k) : k[i] \in 1..MaxTerm
  BY LastEntryOf
<1>3. LastEntry(k).term <= t /\ LastEntry(k).term \in Nat
  BY <1>2 DEF Ordered
<1>4. p.term \in Nat /\ p.index \in Nat
  BY DEF Positions
<1>5. \/ LastEntry(k).term > p.term
      \/ LastEntry(k).term = p.term /\ Len(k) + limit >= p.index
  BY DEF UpTo
<1> HIDE DEF kk
<1>6. \/ LastEntry(kk).term > p.term
      \/ LastEntry(kk).term = p.term /\ Len(kk) + limit >= p.index
  BY <1>1, <1>2, <1>3, <1>4, <1>5
<1>7. PrefixOf(kk, kk)
  BY <1>1, LastEntryOf, AgreeSelf DEF PrefixOf
<1> QED
  BY <1>6, <1>7 DEF UpTo, kk

\* Entries a follower takes from the leader spoil nothing either.
LEMMA SeenTaken ==
  ASSUME NEW l \in Logs, NEW k \in Logs, NEW n \in 1..Len(k), NEW t \in 1..MaxTerm,
         NEW p \in Positions, Seen(l, k, t, p), Ordered(k, t), Ordered(l, t),
         Matching(l, k), Matching(k, l), FromLeader(l, k, t), ~Agree(k, l, n)
  PROVE  Seen(SubSeq(k, 1, n), k, t, p)
<1> DEFINE m == SubSeq(k, 1, n)
<1>1. /\ m \in Logs /\ Len(m) = n /\ PrefixOf(m, k)
      /\ LastEntry(m) = [term |-> k[n], index |-> n]
  BY Shorter
<1>2. /\ LastEntry(l).term = IF Len(l) = 0 THEN 0 ELSE l[Len(l)]
      /\ LastEntry(l).index = Len(l)
      /\ Len(l) \in Nat /\ \A i \in 1..Len(l) : l[i] \in 1..MaxTerm
      /\ Len(k) \in Nat /\ \A i \in 1..Len(k) : k[i] \in 1..MaxTerm
  BY LastEntryOf
<1>3. p.term \in Nat /\ p.index \in Nat
  BY DEF Positions
<1>4. /\ PrefixOf(l, k) => Len(l) < n
      /\ ~PrefixOf(l, k) => Len(l) > 0
      /\ ~PrefixOf(l, k) => \A i \in 1..Len(k) : k[i] = l[Len(l)] => i < Len(l) /\ i < n
  BY TakesMore
<1>5. \A i, j \in 1..Len(k) : j <= i => k[j] <= k[i]
  BY DEF Ordered
<1> HIDE DEF m
<1>6. CASE PrefixOf(l, k)
  <2>1. Len(l) > 0 => l[Len(l)] = k[Len(l)]
    BY <1>2, <1>6 DEF PrefixOf, Agree
  <2>2. AtLeast(LastEntry(m), LastEntry(l))
    BY <1>1, <1>2, <1>4, <1>5, <1>6, <2>1 DEF AtLeast
  <2>3. /\ AtLeast(LastEntry(l), p) => AtLeast(LastEntry(m), p)
        /\ LastEntry(l) = p => AtLeast(LastEntry(m), p)
    <3>1. /\ LastEntry(m).term \in Nat /\ LastEntry(m).index \in Nat
          /\ LastEntry(l).term \in Nat /\ LastEntry(l).index \in Nat
      BY <1>1, <1>2
    <3> QED
      BY <1>3, <2>2, <3>1 DEF AtLeast
  <2> QED
    BY <1>1, <2>3 DEF Seen, m
<1>7. CASE ~PrefixOf(l, k)
  <2>1. LastEntry(l) = p /\ p.term = l[Len(l)] /\ Len(l) \in 1..Len(l)
    BY <1>2, <1>4, <1>7 DEF Seen
  <2>2. p.term < t
    <3>1. p.term # t
      BY <1>7, <2>1 DEF FromLeader, PrefixOf
    <3> QED
      BY <1>2, <1>3, <2>1, <3>1 DEF Ordered
  <2>3. ASSUME HasTerm(k, p.term) PROVE AtLeast(LastEntry(m), p)
    <3>1. PICK i \in 1..Len(k) : k[i] = p.term
      BY <2>3 DEF HasTerm
    <3>2. i < n
      BY <1>4, <1>7, <2>1, <3>1
    <3>3. k[i] <= k[n]
      BY <1>2, <1>5, <3>2
    <3>4. k[n] # p.term
      BY <1>2, <1>4, <1>7, <2>1
    <3> QED
      BY <1>1, <1>2, <1>3, <3>1, <3>3, <3>4 DEF AtLeast
  <2> QED
    BY <1>1, <2>2, <2>3 DEF Seen, m
<1> QED
  BY <1>6, <1>7

LEMMA UpToTaken ==
  ASSUME NEW l \in Logs, NEW k \in Logs, NEW n \in 1..Len(k), NEW t, NEW p \in Positions,
         NEW limit \in Nat, UpTo(l, k, p, limit), Reaches(k, p), Ordered(k, t),
         Matching(l, k), Matching(k, l), ~Agree(k, l, n)
  PROVE  UpTo(SubSeq(k, 1, n), k, p, limit)
<1> DEFINE m == SubSeq(k, 1, n)
<1>1. /\ m \in Logs /\ Len(m) = n /\ PrefixOf(m, k)
      /\ LastEntry(m) = [term |-> k[n], index |-> n]
  BY Shorter
<1>2. /\ LastEntry(l).term = IF Len(l) = 0 THEN 0 ELSE l[Len(l)]
      /\ Len(l) \in Nat
      /\ Len(k) \in Nat /\ \A i \in 1..Len(k) : k[i] \in 1..MaxTerm
  BY LastEntryOf
<1>3. p.term \in Nat /\ p.index \in Nat
  BY DEF Positions
<1>4. /\ PrefixOf(l, k) => Len(l) < n
      /\ ~PrefixOf(l, k) => Len(l) > 0
      /\ ~PrefixOf(l, k) => \A i \in 1..Len(k) : k[i] = l[Len(l)] => i < Len(l) /\ i < n
  BY TakesMore
<1>5. \A i, j \in 1..Len(k) : j <= i => k[j] <= k[i]
  BY DEF Ordered
<1> HIDE DEF m
<1>6. \/ k[n] > p.term
      \/ k[n] = p.term /\ n + limit >= p.index
  <2>1. CASE PrefixOf(l, k)
    <3>1. Len(l) > 0 => l[Len(l)] = k[Len(l)]
      BY <1>2, <2>1 DEF PrefixOf, Agree
    <3>2. LastEntry(l).term >= p.term /\ LastEntry(l).term <= k[n]
      BY <1>2, <1>3, <1>4, <1>5, <2>1, <3>1 DEF UpTo
    <3>3. \/ LastEntry(l).term > p.term
          \/ LastEntry(l).term = p.term /\ Len(l) + limit >= p.index
      BY DEF UpTo
    <3> QED
      BY <1>2, <1>3, <1>4, <2>1, <3>1, <3>2, <3>3
  <2>2. CASE ~PrefixOf(l, k)
    <3>1. LastEntry(l).term = p.term /\ p.term = l[Len(l)]
      BY <1>2, <1>4, <2>2 DEF UpTo
    <3>2. PICK i \in 1..Len(k) : i >= p.index /\ k[i] = p.term
      BY DEF Reaches
    <3>3. i < n
      BY <1>4, <2>2, <3>1, <3>2
    <3>4. k[i] <= k[n]
      BY <1>2, <1>5, <3>3
    <3> QED
      BY <1>2, <1>3, <3>2, <3>3, <3>4
  <2> QED
    BY <2>1, <2>2
<1> QED
  BY <1>1, <1>6 DEF UpTo, m

\* Who is in the last term of the leader stays there, and loses nothing.
LEMMA CloseTaken ==
  ASSUME NEW l \in Logs, NEW k \in Logs, NEW n \in 1..Len(k), NEW t, Ordered(k, t),
         Matching(l, k), Matching(k, l), ~Agree(k, l, n),
         LastEntry(l).term = LastEntry(k).term
  PROVE  /\ LastEntry(SubSeq(k, 1, n)).term = LastEntry(k).term
         /\ Len(SubSeq(k, 1, n)) > Len(l)
<1> DEFINE m == SubSeq(k, 1, n)
<1>1. m \in Logs /\ Len(m) = n /\ LastEntry(m) = [term |-> k[n], index |-> n]
  BY Shorter
<1>2. Len(l) \in Nat /\ Len(k) \in Nat /\ \A i \in 1..Len(k) : k[i] \in 1..MaxTerm
  BY LastEntryOf
<1>3. Len(k) \in 1..Len(k) /\ Len(l) \in 1..Len(l) /\ l[Len(l)] = k[Len(k)]
  <2>1. Len(k) \in 1..Len(k) /\ Len(k) > 0
    BY <1>2
  <2>2. LastEntry(k).term = k[Len(k)] /\ k[Len(k)] # 0
    BY <2>1, InTerm
  <2>3. Len(l) > 0
    BY <1>2, <2>2, InTerm
  <2>4. LastEntry(l).term = l[Len(l)]
    BY <2>3, InTerm
  <2> QED
    BY <1>2, <2>1, <2>2, <2>3, <2>4
<1>4. /\ PrefixOf(l, k) => Len(l) < n
      /\ ~PrefixOf(l, k) => \A i \in 1..Len(k) : k[i] = l[Len(l)] => i < Len(l) /\ i < n
  BY TakesMore
<1>5. PrefixOf(l, k) /\ Len(l) < n
  BY <1>2, <1>3, <1>4
<1>6. l[Len(l)] = k[Len(l)] /\ Len(l) \in 1..Len(k)
  BY <1>2, <1>3, <1>5 DEF PrefixOf, Agree
<1>7. k[Len(l)] <= k[n] /\ k[n] <= k[Len(k)]
  <2>1. n \in 1..Len(k) /\ Len(l) \in 1..n
    BY <1>2, <1>3, <1>5
  <2>2. \A i \in 1..Len(k) : \A j \in 1..i : k[j] <= k[i]
    BY DEF Ordered
  <2> QED
    BY <1>3, <2>1, <2>2
<1> HIDE DEF m
<1> QED
  <2>1. LastEntry(k).term = k[Len(k)] /\ k[n] = k[Len(k)]
    BY <1>2, <1>3, <1>6, <1>7, InTerm
  <2> QED
    BY <1>1, <1>2, <1>5, <2>1 DEF m

-----------------------------------------------------------------------------
(* Types.                                                                  *)

Inputs ==
  [leaderID : Servers \cup {None}, latestIndex : 0..MaxIndex, isLeader : BOOLEAN,
   lastTerm : 0..MaxTerm]

RaftTypes ==
  /\ log \in [Servers -> Logs] /\ \A s \in Servers : Len(log[s]) <= MaxIndex
  /\ leader \in Servers /\ term \in 1..MaxTerm /\ maxTrailingLogs \in TrailingLimits
StateTypes ==
  stats \in [Servers -> Positions] /\ health \in [Servers -> BOOLEAN] /\ measure \in Positions
UpdateTypes ==
  /\ upc \in {"idle", "role", "term", "fetch"} /\ inputs \in Inputs
  /\ fetched \in [Servers -> Positions \cup {None}]
HistoryTypes == close \subseteq Servers /\ steady \in BOOLEAN /\ shaken \subseteq Servers

LEMMA TypeParts == TypeOK <=> RaftTypes /\ StateTypes /\ UpdateTypes /\ HistoryTypes
BY DEF TypeOK, RaftTypes, StateTypes, UpdateTypes, HistoryTypes, Inputs, Logs

LEMMA TypePartsNext == TypeOK' <=> RaftTypes' /\ StateTypes' /\ UpdateTypes' /\ HistoryTypes'
BY DEF TypeOK, RaftTypes, StateTypes, UpdateTypes, HistoryTypes, Inputs, Logs

LEMMA ZeroTypes ==
  /\ <<>> \in Logs /\ Len(<<>>) = 0
  /\ ZeroStats = [term |-> 0, index |-> 0] /\ ZeroStats \in Positions
  /\ ZeroInputs \in Inputs
  /\ NothingFetched \in [Servers -> Positions \cup {None}]
<1>1. <<>> \in Logs /\ Len(<<>>) = 0
  BY EmptySeq DEF Logs
<1>2. ZeroStats = [term |-> 0, index |-> 0]
  BY <1>1 DEF ZeroStats, LastEntry
<1>3. 0 \in 0..MaxTerm /\ 0 \in 0..MaxIndex
  BY BoundsAssumption
<1> QED
  BY <1>1, <1>2, <1>3 DEF Positions, ZeroInputs, Inputs, NothingFetched

LEMMA PositionOf ==
  ASSUME RaftTypes, NEW s \in Servers
  PROVE  /\ log[s] \in Logs /\ Len(log[s]) \in 0..MaxIndex
         /\ LastEntry(log[s]) \in Positions /\ LastEntry(log[s]).term \in 0..MaxTerm
<1>1. log[s] \in Logs /\ Len(log[s]) <= MaxIndex /\ MaxIndex \in Nat
  BY BoundsAssumption DEF RaftTypes
<1>2. Len(log[s]) \in 0..MaxIndex /\ LastEntry(log[s]).index = Len(log[s])
  BY <1>1, LastEntryOf
<1>3. LastEntry(log[s]) \in [term : 0..MaxTerm, index : Nat]
  BY <1>1, LastEntryType
<1> QED
  BY <1>1, <1>2, <1>3 DEF Positions

\* Extend and Replicate on the logs: the leader only appends to its own.
LEMMA ExtendLog ==
  ASSUME RaftTypes, Extend
  PROVE  /\ log' = [log EXCEPT ![leader] = log[leader] \o <<term>>]
         /\ log'[leader] = log[leader] \o <<term>>
         /\ \A s \in Servers : s # leader => log'[s] = log[s]
         /\ UNCHANGED <<leader, term, maxTrailingLogs>> /\ log[leader] \in Logs
         /\ Len(log[leader]) < MaxIndex
BY DEF Extend, RaftTypes

LEMMA ReplicateLog ==
  ASSUME RaftTypes, NEW s \in Servers, NEW n, Replicate(s, n)
  PROVE  /\ s # leader /\ n \in 1..Len(log[leader]) /\ ~Agree(log[leader], log[s], n)
         /\ log' = [log EXCEPT ![s] = SubSeq(log[leader], 1, n)]
         /\ log'[s] = SubSeq(log[leader], 1, n)
         /\ \A u \in Servers : u # s => log'[u] = log[u]
         /\ UNCHANGED <<leader, term, maxTrailingLogs>>
<1>1. /\ n \in 1..Len(log[leader]) /\ ~IsPrefix(SubSeq(log[leader], 1, n), log[s])
      /\ log' = [log EXCEPT ![s] = SubSeq(log[leader], 1, n)]
      /\ UNCHANGED <<leader, term, maxTrailingLogs>>
  BY DEF Replicate
<1>2. log \in [Servers -> Logs] /\ leader \in Servers
  BY DEF RaftTypes
<1>3. ~Agree(log[leader], log[s], n)
  BY <1>1, <1>2, HasThem
<1>4. s # leader
  BY <1>1, <1>2, <1>3, AgreeSelf, LastEntryOf
<1> QED
  BY <1>1, <1>2, <1>3, <1>4

LEMMA InitTypes == Init => TypeOK
<1> SUFFICES ASSUME Init PROVE TypeOK
  OBVIOUS
<1>1. RaftTypes
  BY ZeroTypes, BoundsAssumption DEF Init, RaftTypes
<1>2. StateTypes /\ UpdateTypes /\ HistoryTypes
  BY ZeroTypes DEF Init, StateTypes, UpdateTypes, HistoryTypes
<1> QED
  BY <1>1, <1>2, TypeParts

LEMMA RaftTypesStep ==
  ASSUME RaftTypes,
         \/ Extend \/ UNCHANGED raftVars
         \/ \E s \in Servers : Elect(s) \/ \E n \in 1..MaxIndex : Replicate(s, n)
  PROVE  RaftTypes'
<1>1. ASSUME Extend PROVE RaftTypes'
  <2>1. /\ log[leader] \in Logs /\ term \in 1..MaxTerm /\ leader \in Servers
        /\ log \in [Servers -> Logs]
    BY DEF RaftTypes
  <2> DEFINE k == log[leader] \o <<term>>
  <2>2. k \in Logs /\ Len(k) = Len(log[leader]) + 1
    BY <2>1, Longer
  <2>3. /\ log' = [log EXCEPT ![leader] = k] /\ log'[leader] = k
        /\ \A s \in Servers : s # leader => log'[s] = log[s]
        /\ UNCHANGED <<leader, term, maxTrailingLogs>> /\ Len(log[leader]) < MaxIndex
    BY <1>1, ExtendLog
  <2> HIDE DEF k
  <2>4. log' \in [Servers -> Logs]
    BY <2>1, <2>2, <2>3
  <2>5. Len(log[leader]) \in Nat /\ MaxIndex \in Nat
    BY <2>1, LastEntryOf, BoundsAssumption
  <2>6. \A s \in Servers : Len(log'[s]) <= MaxIndex
    BY <2>2, <2>3, <2>5 DEF RaftTypes
  <2> QED
    BY <2>3, <2>4, <2>6 DEF RaftTypes
<1>2. ASSUME NEW s \in Servers, NEW n, Replicate(s, n) PROVE RaftTypes'
  <2>1. /\ log \in [Servers -> Logs] /\ log[leader] \in Logs /\ leader \in Servers
        /\ Len(log[leader]) <= MaxIndex
    BY DEF RaftTypes
  <2> DEFINE k == SubSeq(log[leader], 1, n)
  <2>2. /\ n \in 1..Len(log[leader]) /\ log' = [log EXCEPT ![s] = k] /\ log'[s] = k
        /\ \A u \in Servers : u # s => log'[u] = log[u]
        /\ UNCHANGED <<leader, term, maxTrailingLogs>>
    BY <1>2, ReplicateLog
  <2>3. k \in Logs /\ Len(k) = n
    BY <2>1, <2>2, Shorter
  <2> HIDE DEF k
  <2>4. log' \in [Servers -> Logs]
    BY <2>1, <2>2, <2>3
  <2>5. Len(log[leader]) \in Nat /\ MaxIndex \in Nat
    BY <2>1, LastEntryOf, BoundsAssumption
  <2>6. \A u \in Servers : Len(log'[u]) <= MaxIndex
    BY <2>1, <2>2, <2>3, <2>5 DEF RaftTypes
  <2> QED
    BY <2>2, <2>4, <2>6 DEF RaftTypes
<1>3. ASSUME NEW s \in Servers, Elect(s) PROVE RaftTypes'
  BY <1>3, BoundsAssumption DEF Elect, RaftTypes
<1>4. ASSUME UNCHANGED raftVars PROVE RaftTypes'
  BY <1>4 DEF raftVars, RaftTypes
<1> QED
  BY <1>1, <1>2, <1>3, <1>4

LEMMA EntryTypes ==
  ASSUME UpdateTypes, StateTypes
  PROVE  /\ LeaderEntry \in Positions
         /\ \A s \in Servers : StatsOf(s) \in Positions
         /\ \A well : \A s \in Servers : IsHealthy(StatsOf(s), LeaderEntry, s \in well) \in BOOLEAN
<1>1. \A s \in Servers : fetched[s] # None => fetched[s] \in Positions
  BY DEF UpdateTypes
<1>2. [term |-> inputs.lastTerm, index |-> inputs.latestIndex] \in Positions
  BY DEF UpdateTypes, Inputs, Positions
<1>3. LeaderEntry \in Positions
  BY <1>1, <1>2, ZeroTypes DEF LeaderEntry
<1>4. \A s \in Servers : StatsOf(s) \in Positions
  BY <1>1 DEF StatsOf, StateTypes
<1>5. \A well : \A s \in Servers : IsHealthy(StatsOf(s), LeaderEntry, s \in well) \in BOOLEAN
  BY DEF IsHealthy
<1> QED
  BY <1>3, <1>4, <1>5

LEMMA StepTypes == TypeOK /\ [Next]_vars => TypeOK'
<1> SUFFICES ASSUME TypeOK, [Next]_vars PROVE TypeOK'
  OBVIOUS
<1>0. RaftTypes /\ StateTypes /\ UpdateTypes /\ HistoryTypes
  BY TypeParts
<1>1. RaftTypes'
  BY <1>0, RaftTypesStep
     DEF Next, UpdateStep, RaftStep, ReadIndex, ReadRole, ReadTerm, Answer, GatherFails, Publish,
         vars, raftVars
<1>2. ASSUME UNCHANGED <<stats, health, measure>> PROVE StateTypes'
  BY <1>0, <1>2 DEF StateTypes
<1>3. ASSUME UNCHANGED <<upc, inputs, fetched>> PROVE UpdateTypes'
  BY <1>0, <1>3 DEF UpdateTypes
<1>4. ASSUME Reset PROVE UpdateTypes' /\ close' = {} /\ steady' = FALSE
  BY <1>4, ZeroTypes DEF Reset, UpdateTypes
<1>5. ASSUME ReadIndex PROVE TypeOK'
  <2>1. inputs' = [leaderID |-> leader, latestIndex |-> Len(log[Self]), isLeader |-> FALSE,
                   lastTerm |-> 0]
    BY <1>5 DEF ReadIndex, ZeroInputs
  <2>2. leader \in Servers /\ Len(log[Self]) \in 0..MaxIndex /\ 0 \in 0..MaxTerm
    BY <1>0, PositionOf, ServersAssumption, BoundsAssumption DEF RaftTypes
  <2>3. inputs' \in Inputs
    BY <2>1, <2>2 DEF Inputs
  <2>4. UpdateTypes'
    BY <1>0, <1>5, <2>3 DEF ReadIndex, UpdateTypes
  <2>5. HistoryTypes'
    BY <1>0, <1>5 DEF ReadIndex, HistoryTypes
  <2> QED
    BY <1>1, <1>2, <1>5, <2>4, <2>5, TypePartsNext DEF ReadIndex
<1>6. ASSUME ReadRole PROVE TypeOK'
  <2>1. UpdateTypes'
    BY <1>0, <1>6 DEF ReadRole, UpdateTypes, Inputs
  <2>2. HistoryTypes'
    BY <1>0, <1>6 DEF ReadRole, HistoryTypes, histVars
  <2> QED
    BY <1>1, <1>2, <1>6, <2>1, <2>2, TypePartsNext DEF ReadRole, histVars
<1>7. ASSUME ReadTerm PROVE TypeOK'
  <2>1. LastEntry(log[Self]).term \in 0..MaxTerm
    BY <1>0, PositionOf, ServersAssumption
  <2>2. UpdateTypes'
    BY <1>0, <1>7, <2>1 DEF ReadTerm, UpdateTypes, Inputs
  <2>3. HistoryTypes'
    BY <1>0, <1>7 DEF ReadTerm, HistoryTypes, histVars
  <2> QED
    BY <1>1, <1>2, <1>7, <2>2, <2>3, TypePartsNext DEF ReadTerm, histVars
<1>8. ASSUME NEW s \in Servers, Answer(s) PROVE TypeOK'
  <2>1. LastEntry(log[s]) \in Positions
    BY <1>0, PositionOf
  <2>2. UpdateTypes'
    BY <1>0, <1>8, <2>1 DEF Answer, UpdateTypes
  <2>3. HistoryTypes'
    BY <1>0, <1>8 DEF Answer, HistoryTypes, histVars
  <2> QED
    BY <1>1, <1>2, <1>8, <2>2, <2>3, TypePartsNext DEF Answer, histVars
<1>9. ASSUME GatherFails PROVE TypeOK'
  <2>1. HistoryTypes'
    BY <1>0, <1>4, <1>9 DEF GatherFails, HistoryTypes
  <2> QED
    BY <1>1, <1>2, <1>4, <1>9, <2>1, TypePartsNext DEF GatherFails
<1>10. ASSUME NEW well \in SUBSET Servers, Publish(well) PROVE TypeOK'
  <2>1. StateTypes'
    BY <1>0, <1>10, EntryTypes DEF Publish, StateTypes
  <2>2. shaken' \subseteq Servers
    BY <1>0, <1>10 DEF Publish, HistoryTypes
  <2>3. HistoryTypes'
    BY <1>4, <1>10, <2>2 DEF Publish, HistoryTypes
  <2> QED
    BY <1>1, <1>4, <1>10, <2>1, <2>3, TypePartsNext DEF Publish
<1>11. ASSUME RaftStep PROVE TypeOK'
  <2>1. UNCHANGED <<stats, health, measure, upc, inputs, fetched>>
    BY <1>11 DEF RaftStep, Extend, Replicate, Elect, histVars
  <2>2. HistoryTypes'
    BY <1>0, <1>11 DEF RaftStep, Extend, Replicate, Elect, histVars, HistoryTypes
  <2> QED
    BY <1>1, <1>2, <1>3, <2>1, <2>2, TypePartsNext
<1>12. ASSUME UNCHANGED vars PROVE TypeOK'
  BY <1>12 DEF vars, TypeOK
<1> QED
  BY <1>5, <1>6, <1>7, <1>8, <1>9, <1>10, <1>11, <1>12 DEF Next, UpdateStep

-----------------------------------------------------------------------------
(* Raft keeps its logs matching.                                           *)

LEMMA InitLogs == Init => LogInv
<1> SUFFICES ASSUME Init PROVE LogInv
  OBVIOUS
<1>1. \A s \in Servers : log[s] = <<>> /\ Len(log[s]) = 0
  BY ZeroTypes DEF Init
<1> QED
  BY <1>1 DEF LogInv, Ordered, FromLeader, Matching

LEMMA StepLogs == ASSUME TypeOK, LogInv, [Next]_vars PROVE LogInv'
<1>0. RaftTypes
  BY TypeParts
<1> DEFINE k == log[leader]
<1>1. /\ leader \in Servers /\ log \in [Servers -> Logs] /\ k \in Logs
      /\ term \in 1..MaxTerm /\ term \in Nat
  BY <1>0 DEF RaftTypes
<1>2. /\ \A s \in Servers : log[s] \in Logs /\ Ordered(log[s], term) /\ FromLeader(log[s], k, term)
      /\ \A s, u \in Servers : Matching(log[s], log[u])
  BY <1>1 DEF LogInv
<1>3. ASSUME Extend PROVE LogInv'
  <2> DEFINE kk == k \o <<term>>
  <2>1. /\ log'[leader] = kk /\ leader' = leader /\ term' = term
        /\ \A s \in Servers : s # leader => log'[s] = log[s]
    BY <1>0, <1>3, ExtendLog
  <2>2. kk \in Logs
    BY <1>1, Longer
  <2>3. Ordered(kk, term)
    BY <1>1, <1>2, OrderedGrows
  <2>4. ASSUME NEW s \in Servers
        PROVE  Matching(log[s], kk) /\ Matching(kk, log[s]) /\ FromLeader(log[s], kk, term)
    BY <1>1, <1>2, LogsGrow
  <2> HIDE DEF kk
  <2>5. Matching(kk, kk) /\ FromLeader(kk, kk, term)
    BY <2>2, AgreeSelf, LastEntryOf DEF Matching, FromLeader
  <2> HIDE DEF k
  <2>6. \A s \in Servers : Ordered(log'[s], term')
    BY <1>2, <2>1, <2>3
  <2>7. \A s \in Servers : FromLeader(log'[s], log'[leader'], term')
    BY <1>2, <2>1, <2>4, <2>5
  <2>8. \A s, u \in Servers : Matching(log'[s], log'[u])
    BY <1>2, <2>1, <2>4, <2>5
  <2> QED
    BY <2>6, <2>7, <2>8 DEF LogInv
<1>4. ASSUME NEW s \in Servers, NEW n, Replicate(s, n) PROVE LogInv'
  <2> DEFINE p == SubSeq(k, 1, n)
  <2>1. /\ n \in 1..Len(k) /\ s # leader /\ log'[s] = p
        /\ \A u \in Servers : u # s => log'[u] = log[u]
        /\ leader' = leader /\ term' = term
    BY <1>0, <1>4, ReplicateLog
  <2>2. p \in Logs /\ PrefixOf(p, k)
    BY <1>1, <2>1, Shorter
  <2> HIDE DEF p
  <2>3. ASSUME NEW u \in Servers
        PROVE  /\ Ordered(p, term) /\ FromLeader(p, k, term)
               /\ Matching(p, log[u]) /\ Matching(log[u], p)
    BY <1>1, <1>2, <2>2, LogsTaken
  <2>4. Matching(p, p)
    BY <2>2, AgreeSelf, LastEntryOf DEF Matching
  <2>5. log'[leader'] = k
    BY <1>1, <2>1
  <2> HIDE DEF k
  <2>6. \A u \in Servers : Ordered(log'[u], term') /\ FromLeader(log'[u], log'[leader'], term')
    BY <1>2, <2>1, <2>3, <2>5
  <2>7. \A u, v \in Servers : Matching(log'[u], log'[v])
    BY <1>2, <2>1, <2>3, <2>4
  <2> QED
    BY <2>6, <2>7 DEF LogInv
<1>5. ASSUME NEW s \in Servers, Elect(s) PROVE LogInv'
  <2>1. leader' = s /\ term' = term + 1 /\ log' = log
    BY <1>5 DEF Elect
  <2>2. \A u \in Servers : Len(log[u]) \in Nat /\ \A i \in 1..Len(log[u]) : log[u][i] \in Nat
    BY <1>2, LastEntryOf
  <2>3. \A u \in Servers : Ordered(log[u], term + 1)
    BY <1>1, <1>2, <2>2 DEF Ordered
  <2>4. \A u \in Servers : FromLeader(log[u], log[s], term + 1)
    BY <1>1, <1>2, <2>2 DEF Ordered, FromLeader
  <2> QED
    BY <1>2, <2>1, <2>3, <2>4 DEF LogInv
<1>6. ASSUME UNCHANGED <<log, leader, term>> PROVE LogInv'
  BY <1>6 DEF LogInv
<1>7. ASSUME UpdateStep \/ UNCHANGED vars PROVE UNCHANGED <<log, leader, term>>
  BY <1>7 DEF UpdateStep, ReadIndex, ReadRole, ReadTerm, Answer, GatherFails, Publish, vars,
              raftVars
<1> QED
  BY <1>3, <1>4, <1>5, <1>6, <1>7 DEF Next, RaftStep

-----------------------------------------------------------------------------
(* What entries appended and replicated do to what is known of the logs.   *)

Moves == Extend \/ \E s \in Servers : \E n \in 1..MaxIndex : Replicate(s, n)

LEMMA LogFacts ==
  ASSUME RaftTypes, LogInv
  PROVE  /\ leader \in Servers /\ log[leader] \in Logs /\ term \in 1..MaxTerm
         /\ Ordered(log[leader], term)
         /\ \A u \in Servers :
              /\ log[u] \in Logs /\ Ordered(log[u], term) /\ FromLeader(log[u], log[leader], term)
              /\ Matching(log[u], log[leader]) /\ Matching(log[leader], log[u])
BY DEF RaftTypes, LogInv

LEMMA MovesKeepReaches ==
  ASSUME RaftTypes, Moves, NEW p, Reaches(log[leader], p)
  PROVE  Reaches(log'[leader'], p)
<1>1. leader \in Servers /\ log[leader] \in Logs /\ term \in 1..MaxTerm
  BY DEF RaftTypes
<1>2. CASE Extend
  BY <1>1, <1>2, ExtendLog, ReachesGrows
<1>3. ASSUME NEW s \in Servers, NEW n, Replicate(s, n) PROVE Reaches(log'[leader'], p)
  BY <1>1, <1>3, ReplicateLog
<1> QED
  BY <1>2, <1>3 DEF Moves

LEMMA MovesKeepSeen ==
  ASSUME RaftTypes, LogInv, Moves, NEW u \in Servers, NEW p \in Positions,
         Seen(log[u], log[leader], term, p)
  PROVE  Seen(log'[u], log'[leader'], term', p)
<1> DEFINE k == log[leader]
           l == log[u]
<1>1. /\ leader \in Servers /\ k \in Logs /\ l \in Logs /\ term \in 1..MaxTerm
      /\ Ordered(k, term) /\ Ordered(l, term) /\ FromLeader(l, k, term)
      /\ Matching(l, k) /\ Matching(k, l)
  BY LogFacts
<1>2. Seen(l, k, term, p)
  OBVIOUS
<1>3. CASE Extend
  <2>1. /\ log'[leader'] = k \o <<term>> /\ term' = term
        /\ log'[u] = IF u = leader THEN k \o <<term>> ELSE l
    BY <1>3, ExtendLog
  <2>2. Seen(l, k \o <<term>>, term, p)
    BY <1>1, <1>2, SeenGrows
  <2>3. u = leader => Seen(k \o <<term>>, k \o <<term>>, term, p)
    BY <1>1, <1>2, SeenLeaderGrows
  <2> HIDE DEF k, l
  <2> QED
    BY <2>1, <2>2, <2>3
<1>4. ASSUME NEW s \in Servers, NEW n, Replicate(s, n)
      PROVE  Seen(log'[u], log'[leader'], term', p)
  <2>1. /\ log'[leader'] = k /\ term' = term /\ s # leader /\ n \in 1..Len(k)
        /\ log'[u] = IF u = s THEN SubSeq(k, 1, n) ELSE l
        /\ u = s => ~Agree(k, l, n)
    BY <1>1, <1>4, ReplicateLog
  <2>2. u = s => Seen(SubSeq(k, 1, n), k, term, p)
    BY <1>1, <1>2, <2>1, SeenTaken
  <2> HIDE DEF k, l
  <2> QED
    BY <1>2, <2>1, <2>2
<1> QED
  BY <1>3, <1>4 DEF Moves

LEMMA MovesKeepUpTo ==
  ASSUME RaftTypes, LogInv, Moves, NEW u \in Servers, NEW p \in Positions,
         Reaches(log[leader], p), UpTo(log[u], log[leader], p, maxTrailingLogs)
  PROVE  UpTo(log'[u], log'[leader'], p, maxTrailingLogs')
<1> DEFINE k == log[leader]
           l == log[u]
           limit == maxTrailingLogs
<1>1. /\ leader \in Servers /\ k \in Logs /\ l \in Logs /\ term \in 1..MaxTerm
      /\ Ordered(k, term) /\ Matching(l, k) /\ Matching(k, l)
  BY LogFacts
<1>2. UpTo(l, k, p, limit) /\ Reaches(k, p)
  OBVIOUS
<1>3. limit \in Nat
  BY BoundsAssumption DEF RaftTypes
<1>4. CASE Extend
  <2>1. /\ log'[leader'] = k \o <<term>> /\ maxTrailingLogs' = limit
        /\ log'[u] = IF u = leader THEN k \o <<term>> ELSE l
    BY <1>4, ExtendLog
  <2>2. UpTo(l, k \o <<term>>, p, limit)
    BY <1>1, <1>2, UpToGrows
  <2>3. u = leader => UpTo(k \o <<term>>, k \o <<term>>, p, limit)
    BY <1>1, <1>2, <1>3, UpToLeaderGrows
  <2> HIDE DEF k, l, limit
  <2> QED
    BY <2>1, <2>2, <2>3
<1>5. ASSUME NEW s \in Servers, NEW n, Replicate(s, n)
      PROVE  UpTo(log'[u], log'[leader'], p, maxTrailingLogs')
  <2>1. /\ log'[leader'] = k /\ maxTrailingLogs' = limit /\ s # leader /\ n \in 1..Len(k)
        /\ log'[u] = IF u = s THEN SubSeq(k, 1, n) ELSE l
        /\ u = s => ~Agree(k, l, n)
    BY <1>1, <1>5, ReplicateLog
  <2>2. u = s => UpTo(SubSeq(k, 1, n), k, p, limit)
    BY <1>1, <1>2, <1>3, <2>1, UpToTaken
  <2> HIDE DEF k, l, limit
  <2> QED
    BY <1>2, <2>1, <2>2
<1> QED
  BY <1>4, <1>5 DEF Moves

\* The leader's log does not get shorter.
LEMMA MovesKeepLength ==
  ASSUME RaftTypes, Moves
  PROVE  /\ leader' = leader /\ UNCHANGED <<term, maxTrailingLogs>>
         /\ Len(log[leader]) \in Nat /\ Len(log'[leader]) \in Nat
         /\ Len(log'[leader]) >= Len(log[leader])
<1>1. leader \in Servers /\ log[leader] \in Logs /\ term \in 1..MaxTerm
  BY DEF RaftTypes
<1>2. Len(log[leader]) \in Nat
  BY <1>1, LastEntryOf
<1>3. CASE Extend
  <2>1. Len(log[leader] \o <<term>>) = Len(log[leader]) + 1
    BY <1>1, Longer
  <2>2. log'[leader] = log[leader] \o <<term>> /\ UNCHANGED <<leader, term, maxTrailingLogs>>
    BY <1>3, ExtendLog
  <2> QED
    BY <1>2, <2>1, <2>2
<1>4. ASSUME NEW s \in Servers, NEW n, Replicate(s, n)
      PROVE  log'[leader] = log[leader] /\ UNCHANGED <<leader, term, maxTrailingLogs>>
  BY <1>1, <1>4, ReplicateLog
<1> QED
  BY <1>2, <1>3, <1>4 DEF Moves

-----------------------------------------------------------------------------
(* Updates.                                                                *)

LEMMA NothingYet == \A s \in Servers : NothingFetched[s] = None
BY DEF NothingFetched

LEMMA StepUpdate ==
  ASSUME TypeOK, LogInv, UpdateInv, [Next]_vars
  PROVE  UpdateInv'
<1>0. RaftTypes /\ UpdateTypes /\ Self \in Servers
  BY TypeParts, ServersAssumption
<1>1. leader \in Servers /\ \A s \in Servers : log[s] \in Logs
  BY <1>0 DEF RaftTypes
<1>2. ASSUME Reset PROVE UpdateInv'
  BY <1>2 DEF Reset, UpdateInv, NothingFetched
<1>3. ASSUME ReadIndex PROVE UpdateInv'
  <2>1. /\ inputs'.leaderID = leader /\ inputs'.latestIndex = Len(log[Self])
        /\ upc' = "role" /\ UNCHANGED <<log, leader, term, fetched>> /\ upc = "idle"
    BY <1>3 DEF ReadIndex, raftVars, ZeroInputs
  <2>2. fetched' = NothingFetched
    BY <2>1 DEF UpdateInv
  <2>3. Len(log[Self]) \in Nat
    BY <1>0, <1>1, LastEntryOf
  <2>4. InputsInv'
    BY <2>1, <2>3 DEF InputsInv
  <2>5. FetchedInv'
    BY <1>1, <2>1, <2>2, NothingYet DEF FetchedInv
  <2> QED
    BY <2>2, <2>4, <2>5 DEF UpdateInv, NothingFetched
<1>4. ASSUME ReadRole PROVE UpdateInv'
  <2>1. /\ inputs'.leaderID = inputs.leaderID /\ inputs'.latestIndex = inputs.latestIndex
        /\ inputs'.isLeader = (leader = Self)
        /\ upc' = "term" /\ UNCHANGED <<log, leader, term, fetched, steady>> /\ upc = "role"
    BY <1>0, <1>4 DEF ReadRole, raftVars, histVars, UpdateTypes, Inputs
  <2>2. fetched' = NothingFetched
    BY <2>1 DEF UpdateInv
  <2>3. InputsInv => InputsInv'
    BY <2>1 DEF InputsInv
  <2>4. FetchedInv'
    BY <1>1, <2>1, <2>2, NothingYet DEF FetchedInv
  <2> QED
    BY <2>1, <2>2, <2>3, <2>4 DEF UpdateInv, NothingFetched
<1>5. ASSUME ReadTerm PROVE UpdateInv'
  <2>1. /\ inputs'.leaderID = inputs.leaderID /\ inputs'.latestIndex = inputs.latestIndex
        /\ inputs'.isLeader = inputs.isLeader /\ inputs'.lastTerm = LastEntry(log[Self]).term
        /\ upc' = "fetch" /\ UNCHANGED <<log, leader, term, fetched, steady>> /\ upc = "term"
    BY <1>0, <1>5 DEF ReadTerm, raftVars, histVars, UpdateTypes, Inputs
  <2>2. fetched' = NothingFetched
    BY <2>1 DEF UpdateInv
  <2>3. ASSUME InputsInv, leader = Self, inputs'.lastTerm # 0
        PROVE  Reaches(log[leader], [term |-> inputs'.lastTerm, index |-> inputs'.latestIndex])
    <3> DEFINE k == log[Self]
    <3>1. k \in Logs /\ Len(k) \in Nat
      BY <1>0, <1>1, LastEntryOf
    <3>2. Len(k) > 0 /\ LastEntry(k).term = k[Len(k)]
      BY <2>1, <2>3, <3>1, InTerm
    <3>3. Len(k) >= inputs'.latestIndex /\ k[Len(k)] = inputs'.lastTerm /\ Len(k) \in 1..Len(k)
      BY <1>0, <2>1, <2>3, <3>1, <3>2 DEF InputsInv, UpdateTypes, Inputs
    <3> HIDE DEF k
    <3>4. Reaches(k, [term |-> inputs'.lastTerm, index |-> inputs'.latestIndex])
      BY <3>3 DEF Reaches
    <3> QED
      BY <2>3, <3>4 DEF k
  <2>4. InputsInv => InputsInv'
    BY <2>1, <2>3 DEF InputsInv
  <2>5. FetchedInv'
    BY <1>1, <2>1, <2>2, NothingYet DEF FetchedInv
  <2> QED
    BY <2>1, <2>4, <2>5 DEF UpdateInv
<1>6. ASSUME NEW s \in Servers, Answer(s) PROVE UpdateInv'
  <2>1. /\ fetched'[s] = LastEntry(log[s])
        /\ \A u \in Servers : u # s => fetched'[u] = fetched[u]
        /\ UNCHANGED <<log, leader, term, inputs, upc, steady>> /\ upc = "fetch"
    BY <1>0, <1>6 DEF Answer, raftVars, histVars, UpdateTypes
  <2>2. InputsInv => InputsInv'
    BY <2>1 DEF InputsInv
  <2>3. ASSUME FetchedInv PROVE FetchedInv'
    <3>1. ASSUME NEW u \in Servers, fetched'[u] # None
          PROVE  Seen(log[u], log[leader], term, fetched'[u])
      BY <2>1, <2>3, <3>1 DEF FetchedInv, Seen
    <3>2. ASSUME fetched'[leader] # None, fetched'[leader].index # 0
          PROVE  Reaches(log[leader], fetched'[leader])
      <4>1. CASE s # leader
        BY <1>1, <2>1, <2>3, <3>2, <4>1 DEF FetchedInv
      <4>2. CASE s = leader
        <5> DEFINE k == log[leader]
        <5>1. k \in Logs /\ Len(k) \in Nat /\ LastEntry(k).index = Len(k)
          BY <1>1, LastEntryOf
        <5>2. Len(k) \in 1..Len(k) /\ LastEntry(k).term = k[Len(k)]
          BY <2>1, <3>2, <4>2, <5>1, InTerm
        <5> HIDE DEF k
        <5>3. Reaches(k, LastEntry(k))
          BY <5>1, <5>2 DEF Reaches
        <5> QED
          BY <2>1, <4>2, <5>3 DEF k
      <4> QED
        BY <4>1, <4>2
    <3> QED
      BY <2>1, <3>1, <3>2 DEF FetchedInv
  <2> QED
    BY <2>1, <2>2, <2>3 DEF UpdateInv
<1>7. ASSUME Moves PROVE UpdateInv'
  <2>1. UNCHANGED <<upc, inputs, fetched, steady>>
    BY <1>7 DEF Moves, Extend, Replicate, histVars
  <2>2. /\ leader' = leader /\ term' = term /\ Len(log[leader]) \in Nat
        /\ Len(log'[leader]) \in Nat /\ Len(log'[leader]) >= Len(log[leader])
    BY <1>0, <1>7, MovesKeepLength
  <2>3. inputs.latestIndex \in Nat
    BY <1>0 DEF UpdateTypes, Inputs
  <2>4. \A p : Reaches(log[leader], p) => Reaches(log'[leader], p)
    BY <1>0, <1>7, <2>2, MovesKeepReaches
  <2>5. InputsInv => InputsInv'
    BY <2>1, <2>2, <2>3, <2>4 DEF InputsInv
  <2>6. ASSUME NEW s \in Servers, fetched[s] # None, FetchedInv
        PROVE  Seen(log'[s], log'[leader'], term', fetched[s])
    <3>1. fetched[s] \in Positions
      BY <1>0, <2>6 DEF UpdateTypes
    <3> QED
      BY <1>0, <1>7, <2>6, <3>1, MovesKeepSeen DEF FetchedInv
  <2>7. FetchedInv => FetchedInv'
    BY <2>1, <2>2, <2>4, <2>6 DEF FetchedInv
  <2> QED
    BY <2>1, <2>5, <2>7 DEF UpdateInv, NothingFetched
<1>8. ASSUME NEW s \in Servers, Elect(s) PROVE UpdateInv'
  BY <1>8 DEF Elect, UpdateInv, NothingFetched
<1>9. ASSUME UNCHANGED vars PROVE UpdateInv'
  <2>1. InputsInv => InputsInv'
    BY <1>9 DEF vars, InputsInv
  <2>2. FetchedInv => FetchedInv'
    BY <1>9 DEF vars, FetchedInv
  <2> QED
    BY <1>9, <2>1, <2>2 DEF vars, UpdateInv, NothingFetched
<1> QED
  BY <1>2, <1>3, <1>4, <1>5, <1>6, <1>7, <1>8, <1>9
     DEF Next, UpdateStep, RaftStep, Moves, GatherFails, Publish

-----------------------------------------------------------------------------
(* Verdicts.                                                               *)

\* The sum in isHealthy is not greater for wrapping around.
LEMMA SumWraps == ASSUME NEW x \in Nat, NEW w \in Nat \ {0} PROVE x % w <= x
<1>1. x < w => x % w = x
  OBVIOUS
<1>2. x % w \in 0..(w - 1)
  OBVIOUS
<1> QED
  BY <1>1, <1>2

LEMMA WidthType == Width \in Nat \ {0} /\ MaxIndex \in Nat /\ TrailingLimits \subseteq Nat
BY BoundsAssumption

\* The leader was where the update takes it to have been.
LEMMA LeaderWasThere ==
  ASSUME TypeOK, UpdateInv, steady, upc = "fetch", Bootstrapped(LeaderEntry)
  PROVE  Reaches(log[leader], LeaderEntry)
<1>1. InputsInv /\ FetchedInv
  BY DEF UpdateInv
<1>2. LeaderEntry.index # 0 /\ LeaderEntry.term # 0
  BY DEF Bootstrapped
<1>3. CASE inputs.isLeader
  <2>1. LeaderEntry = [term |-> inputs.lastTerm, index |-> inputs.latestIndex]
    BY <1>3 DEF LeaderEntry
  <2>2. leader = Self
    BY <1>1, <1>3 DEF InputsInv
  <2>3. inputs.lastTerm # 0
    BY <1>2, <2>1
  <2> QED
    BY <1>1, <2>1, <2>2, <2>3 DEF InputsInv
<1>4. CASE ~inputs.isLeader
  <2>1. LeaderEntry # ZeroStats
    BY <1>2, ZeroTypes
  <2>2. inputs.leaderID = leader
    BY <1>1 DEF InputsInv
  <2>3. LeaderEntry = fetched[leader] /\ fetched[leader] # None
    BY <1>4, <2>1, <2>2 DEF LeaderEntry
  <2> QED
    BY <1>1, <1>2, <2>3 DEF FetchedInv
<1> QED
  BY <1>3, <1>4

\* A verdict on statistics that were once true.
LEMMA VerdictIsUpTo ==
  ASSUME RaftTypes, NEW l \in Logs, NEW k \in Logs, NEW st \in Positions, NEW e \in Positions,
         NEW well, Seen(l, k, term, st), Reaches(k, e), IsHealthy(st, e, well)
  PROVE  UpTo(l, k, e, maxTrailingLogs)
<1>1. st.term = e.term /\ ~((st.index + maxTrailingLogs) % Width < e.index)
  BY DEF IsHealthy, FallenBehind
<1>2. /\ st.term \in Nat /\ st.index \in Nat /\ e.term \in Nat /\ e.index \in Nat
      /\ maxTrailingLogs \in Nat /\ Width \in Nat \ {0}
  BY WidthType DEF Positions, RaftTypes
<1>3. st.index + maxTrailingLogs >= e.index
  <2> DEFINE x == st.index + maxTrailingLogs
  <2>1. x \in Nat
    BY <1>2
  <2>2. x % Width <= x /\ x % Width \in Nat /\ ~(x % Width < e.index)
    BY <1>1, <1>2, <2>1, SumWraps
  <2> HIDE DEF x
  <2>3. x >= e.index
    BY <1>2, <2>1, <2>2
  <2> QED
    BY <2>3 DEF x
<1>4. HasTerm(k, st.term)
  BY <1>1 DEF Reaches, HasTerm
<1>5. LastEntry(l).index = Len(l) /\ Len(l) \in Nat /\ LastEntry(l).term \in Nat
  BY LastEntryOf, LastEntryType
<1>6. \/ LastEntry(l) = st
      \/ PrefixOf(l, k) /\ AtLeast(LastEntry(l), st)
  BY <1>4 DEF Seen
<1>7. CASE LastEntry(l) = st
  BY <1>1, <1>3, <1>5, <1>7 DEF UpTo
<1>8. CASE PrefixOf(l, k) /\ AtLeast(LastEntry(l), st)
  BY <1>1, <1>2, <1>3, <1>5, <1>8 DEF UpTo, AtLeast
<1> QED
  BY <1>6, <1>7, <1>8

LEMMA StepVerdict ==
  ASSUME TypeOK, LogInv, UpdateInv, VerdictInv, [Next]_vars
  PROVE  VerdictInv'
<1>0. RaftTypes /\ StateTypes /\ UpdateTypes
  BY TypeParts
<1>1. leader \in Servers /\ log[leader] \in Logs /\ \A s \in Servers : log[s] \in Logs
  BY <1>0 DEF RaftTypes
<1>2. ASSUME UNCHANGED <<log, leader, term, maxTrailingLogs, stats, health, measure, shaken>>
      PROVE  VerdictInv'
  BY <1>2 DEF VerdictInv
<1>3. ASSUME ReadIndex \/ ReadRole \/ ReadTerm \/ GatherFails \/ UNCHANGED vars
             \/ \E s \in Servers : Answer(s)
      PROVE  VerdictInv'
  BY <1>2, <1>3 DEF ReadIndex, ReadRole, ReadTerm, GatherFails, Answer, vars, raftVars, histVars
<1>4. ASSUME NEW well, Publish(well) PROVE VerdictInv'
  <2>1. /\ UNCHANGED <<log, leader, term, maxTrailingLogs>> /\ upc = "fetch"
        /\ measure' = LeaderEntry
        /\ \A s \in Servers : /\ stats'[s] = StatsOf(s)
                              /\ health'[s] = IsHealthy(StatsOf(s), LeaderEntry, s \in well)
        /\ shaken' = IF steady THEN {s \in shaken : fetched[s] = None} ELSE Servers
    BY <1>4 DEF Publish, raftVars
  <2> SUFFICES ASSUME NEW s \in Servers \ shaken'
               PROVE  /\ Seen(log[s], log[leader], term, StatsOf(s))
                      /\ health'[s] => /\ Reaches(log[leader], LeaderEntry)
                                       /\ UpTo(log[s], log[leader], LeaderEntry, maxTrailingLogs)
    BY <2>1 DEF VerdictInv
  <2>2. steady /\ (fetched[s] = None => s \notin shaken)
    BY <2>1
  <2>3. Seen(log[s], log[leader], term, StatsOf(s))
    BY <2>2 DEF StatsOf, UpdateInv, FetchedInv, VerdictInv
  <2>4. ASSUME health'[s]
        PROVE  /\ Reaches(log[leader], LeaderEntry)
               /\ UpTo(log[s], log[leader], LeaderEntry, maxTrailingLogs)
    <3>1. IsHealthy(StatsOf(s), LeaderEntry, s \in well)
      BY <2>1, <2>4
    <3>2. Reaches(log[leader], LeaderEntry)
      BY <2>1, <2>2, <3>1, LeaderWasThere DEF IsHealthy
    <3>3. LeaderEntry \in Positions /\ StatsOf(s) \in Positions
      BY <1>0, EntryTypes
    <3> QED
      BY <1>0, <1>1, <2>3, <3>1, <3>2, <3>3, VerdictIsUpTo
  <2> QED
    BY <2>3, <2>4
<1>5. ASSUME Moves PROVE VerdictInv'
  <2>1. UNCHANGED <<stats, health, measure, shaken>>
    BY <1>5 DEF Moves, Extend, Replicate, histVars
  <2> SUFFICES ASSUME NEW s \in Servers \ shaken
               PROVE  /\ Seen(log'[s], log'[leader'], term', stats[s])
                      /\ health[s] => /\ Reaches(log'[leader'], measure)
                                      /\ UpTo(log'[s], log'[leader'], measure, maxTrailingLogs')
    BY <2>1 DEF VerdictInv
  <2>2. stats[s] \in Positions /\ measure \in Positions
    BY <1>0 DEF StateTypes
  <2>3. Seen(log'[s], log'[leader'], term', stats[s])
    BY <1>0, <1>5, <2>2, MovesKeepSeen DEF VerdictInv
  <2>4. ASSUME health[s]
        PROVE  /\ Reaches(log'[leader'], measure)
               /\ UpTo(log'[s], log'[leader'], measure, maxTrailingLogs')
    <3>1. Reaches(log[leader], measure) /\ UpTo(log[s], log[leader], measure, maxTrailingLogs)
      BY <2>4 DEF VerdictInv
    <3> QED
      BY <1>0, <1>5, <2>2, <3>1, MovesKeepReaches, MovesKeepUpTo
  <2> QED
    BY <2>3, <2>4
<1>6. ASSUME NEW s \in Servers, Elect(s) PROVE VerdictInv'
  BY <1>6 DEF Elect, VerdictInv
<1> QED
  BY <1>3, <1>4, <1>5, <1>6 DEF Next, UpdateStep, RaftStep, Moves

-----------------------------------------------------------------------------
(* Who keeps up.                                                           *)

LEMMA StepClose ==
  ASSUME TypeOK, LogInv, UpdateInv, CloseInv, [Next]_vars
  PROVE  CloseInv'
<1>0. RaftTypes /\ UpdateTypes /\ HistoryTypes /\ Self \in Servers
  BY TypeParts, ServersAssumption
<1>1. /\ leader \in Servers /\ log[leader] \in Logs /\ \A s \in Servers : log[s] \in Logs
      /\ close \subseteq Servers /\ inputs.latestIndex \in Nat /\ maxTrailingLogs \in Nat
      /\ \A s \in Servers : Len(log[s]) \in Nat
  BY <1>0, LastEntryOf, WidthType DEF RaftTypes, HistoryTypes, UpdateTypes, Inputs
<1>2. ASSUME Reset PROVE CloseInv'
  BY <1>2 DEF Reset, CloseInv
<1>3. ASSUME ReadIndex PROVE CloseInv'
  <2>1. /\ inputs'.latestIndex = Len(log[Self]) /\ close' = {s \in Servers : KeepsUp(s)}
        /\ UNCHANGED <<log, leader, maxTrailingLogs, fetched>>
        /\ upc = "idle" /\ upc' = "role" /\ steady'
    BY <1>3 DEF ReadIndex, raftVars, ZeroInputs
  <2>2. \A s \in Servers : fetched'[s] = None
    BY <2>1, NothingYet DEF UpdateInv
  <2>3. ASSUME NEW s \in close'
        PROVE  /\ s \in Servers /\ log[leader] # <<>>
               /\ LastEntry(log[s]).term = LastEntry(log[leader]).term
               /\ leader = Self => /\ Len(log[Self]) > 0
                                   /\ Len(log[s]) + maxTrailingLogs >= Len(log[Self])
    <3>1. s \in Servers /\ KeepsUp(s)
      BY <2>1
    <3> QED
      BY <1>1, <3>1, LastEntryOf DEF KeepsUp
  <2> QED
    BY <2>1, <2>2, <2>3 DEF CloseInv
<1>4. ASSUME ReadRole PROVE CloseInv'
  <2>1. /\ inputs'.latestIndex = inputs.latestIndex /\ upc' = "term"
        /\ UNCHANGED <<log, leader, maxTrailingLogs, fetched, close, steady>>
    BY <1>0, <1>4 DEF ReadRole, raftVars, histVars, UpdateTypes, Inputs
  <2> QED
    BY <2>1 DEF CloseInv
<1>5. ASSUME ReadTerm PROVE CloseInv'
  <2>1. /\ inputs'.latestIndex = inputs.latestIndex
        /\ inputs'.lastTerm = LastEntry(log[Self]).term
        /\ UNCHANGED <<log, leader, maxTrailingLogs, fetched, close, steady>>
    BY <1>0, <1>5 DEF ReadTerm, raftVars, histVars, UpdateTypes, Inputs
  <2> QED
    BY <2>1 DEF CloseInv
<1>6. ASSUME NEW s \in Servers, Answer(s) PROVE CloseInv'
  <2>1. /\ fetched'[s] = LastEntry(log[s])
        /\ \A u \in Servers : u # s => fetched'[u] = fetched[u]
        /\ UNCHANGED <<log, leader, maxTrailingLogs, inputs, upc, close, steady>>
    BY <1>0, <1>6 DEF Answer, raftVars, histVars, UpdateTypes
  <2>2. LastEntry(log[s]).index = Len(log[s])
    BY <1>1, LastEntryOf
  <2>3. ASSUME NEW u \in close, fetched'[u] # None
        PROVE  /\ fetched'[u].term = LastEntry(log[leader]).term
               /\ leader = Self => fetched'[u].index + maxTrailingLogs >= inputs.latestIndex
    BY <1>1, <2>1, <2>2, <2>3 DEF CloseInv
  <2> QED
    BY <2>1, <2>3 DEF CloseInv
<1>7. ASSUME Extend PROVE CloseInv'
  <2> DEFINE k == log[leader]
             kk == k \o <<term>>
  <2>1. /\ log'[leader'] = kk /\ leader' = leader /\ maxTrailingLogs' = maxTrailingLogs
        /\ \A s \in Servers : log'[s] = IF s = leader THEN kk ELSE log[s]
    BY <1>0, <1>7, ExtendLog
  <2>2. /\ UNCHANGED <<inputs, upc, fetched, steady>>
        /\ close' = IF LastEntry(k).term = term THEN close ELSE {}
    BY <1>7 DEF Extend
  <2>3. term \in 1..MaxTerm
    BY <1>0 DEF RaftTypes
  <2>4. /\ kk \in Logs /\ Len(kk) = Len(k) + 1
        /\ LastEntry(kk) = [term |-> term, index |-> Len(k) + 1]
    BY <1>1, <2>3, Longer
  <2>5. kk # <<>>
    BY <1>1, <2>4, LastEntryOf
  <2>6. CASE close' = {}
    BY <2>6 DEF CloseInv
  <2>7. CASE close' # {}
    <3>1. close' = close /\ LastEntry(k).term = term /\ LastEntry(kk).term = term
      BY <2>2, <2>4, <2>7
    <3>2. Len(k) \in Nat
      BY <1>1
    <3> HIDE DEF k, kk
    <3>3. ASSUME NEW s \in close
          PROVE  /\ LastEntry(log'[s]).term = term
                 /\ Len(log'[s]) \in Nat /\ Len(log'[s]) >= Len(log[s])
      <4>1. CASE s = leader
        BY <1>1, <2>1, <2>4, <3>1, <3>2, <4>1 DEF k
      <4>2. CASE s # leader
        BY <1>1, <2>1, <3>1, <4>2 DEF CloseInv, k
      <4> QED
        BY <4>1, <4>2
    <3>4. ASSUME NEW s \in close, leader = Self
          PROVE  Len(log'[s]) + maxTrailingLogs >= inputs.latestIndex
      <4>1. Len(log[s]) + maxTrailingLogs >= inputs.latestIndex /\ Len(log[s]) \in Nat
        BY <1>1, <3>4 DEF CloseInv
      <4> QED
        BY <1>1, <3>3, <3>4, <4>1
    <3> QED
      BY <2>1, <2>2, <2>5, <3>1, <3>3, <3>4 DEF CloseInv, k
  <2> QED
    BY <2>6, <2>7
<1>8. ASSUME NEW s \in Servers, NEW n, Replicate(s, n) PROVE CloseInv'
  <2> DEFINE k == log[leader]
             p == SubSeq(k, 1, n)
  <2>1. /\ log'[leader'] = k /\ leader' = leader /\ maxTrailingLogs' = maxTrailingLogs
        /\ n \in 1..Len(k) /\ ~Agree(k, log[s], n)
        /\ \A u \in Servers : log'[u] = IF u = s THEN p ELSE log[u]
    BY <1>0, <1>1, <1>8, ReplicateLog
  <2>2. UNCHANGED <<inputs, upc, fetched, close, steady>>
    BY <1>8 DEF Replicate, histVars
  <2>3. Ordered(k, term) /\ Matching(log[s], k) /\ Matching(k, log[s])
    BY <1>0, LogFacts
  <2>4. ASSUME s \in close PROVE LastEntry(p).term = LastEntry(k).term /\ Len(p) > Len(log[s])
    <3>1. LastEntry(log[s]).term = LastEntry(k).term
      BY <2>4 DEF CloseInv
    <3> QED
      BY <1>1, <2>1, <2>3, <3>1, CloseTaken
  <2>5. p \in Logs /\ Len(p) \in Nat
    BY <1>1, <2>1, Shorter, LastEntryOf
  <2> HIDE DEF k, p
  <2>6. ASSUME NEW u \in close
        PROVE  /\ LastEntry(log'[u]).term = LastEntry(k).term
               /\ Len(log'[u]) \in Nat /\ Len(log'[u]) >= Len(log[u]) /\ Len(log[u]) \in Nat
    <3>1. u \in Servers /\ LastEntry(log[u]).term = LastEntry(k).term
      BY <1>1 DEF CloseInv, k
    <3> QED
      BY <1>1, <2>1, <2>4, <2>5, <3>1
  <2>7. ASSUME NEW u \in close, leader = Self
        PROVE  Len(log'[u]) + maxTrailingLogs >= inputs.latestIndex
    <3>1. Len(log[u]) + maxTrailingLogs >= inputs.latestIndex
      BY <2>7 DEF CloseInv
    <3> QED
      BY <1>1, <2>6, <3>1
  <2> QED
    BY <2>1, <2>2, <2>6, <2>7 DEF CloseInv, k
<1>9. ASSUME NEW s \in Servers, Elect(s) PROVE CloseInv'
  BY <1>9 DEF Elect, CloseInv
<1>10. ASSUME UNCHANGED vars PROVE CloseInv'
  BY <1>10 DEF vars, CloseInv
<1> QED
  BY <1>2, <1>3, <1>4, <1>5, <1>6, <1>7, <1>8, <1>9, <1>10
     DEF Next, UpdateStep, RaftStep, GatherFails, Publish

-----------------------------------------------------------------------------
(* Theorems.                                                               *)

LEMMA InitIInv == Init => IInv
<1> SUFFICES ASSUME Init PROVE IInv
  OBVIOUS
<1>1. /\ ~steady /\ close = {} /\ fetched = NothingFetched
      /\ \A s \in Servers : log[s] = <<>> /\ stats[s] = ZeroStats /\ ~health[s]
  BY DEF Init
<1>2. VerdictInv
  BY <1>1 DEF VerdictInv, Seen, ZeroStats
<1>3. UpdateInv /\ CloseInv
  BY <1>1 DEF UpdateInv, CloseInv
<1> QED
  BY <1>2, <1>3, InitTypes, InitLogs DEF IInv

LEMMA StepIInv == IInv /\ [Next]_vars => IInv'
BY StepTypes, StepLogs, StepUpdate, StepVerdict, StepClose DEF IInv

LEMMA Invariance == Spec => []IInv
BY InitIInv, StepIInv, PTL DEF Spec

\* Every variable has the type of what it models: no statistics are published
\* that did not come.
THEOREM TypeCorrectness == Spec => []TypeOK
<1>1. IInv => TypeOK
  BY DEF IInv
<1> QED
  BY <1>1, Invariance, PTL

\* However many updates old the statistics are, and wherever the sum in
\* isHealthy wraps around, a server published as healthy has come within
\* MaxTrailingLogs of the leader, unless there was an election.
THEOREM HealthyAreCurrent == Spec => []HealthyIsCurrent
<1>1. ASSUME IInv PROVE HealthyIsCurrent
  <2> SUFFICES ASSUME NEW s \in Servers, health[s], s \notin shaken
               PROVE  \/ LastEntry(log[s]).term > measure.term
                      \/ /\ LastEntry(log[s]).term = measure.term
                         /\ LastEntry(log[s]).index + maxTrailingLogs >= measure.index
    BY DEF HealthyIsCurrent
  <2>1. UpTo(log[s], log[leader], measure, maxTrailingLogs)
    BY <1>1 DEF IInv, VerdictInv
  <2>2. log[s] \in Logs
    BY <1>1 DEF IInv, TypeOK, Logs
  <2>3. LastEntry(log[s]).index = Len(log[s])
    BY <2>2, LastEntryOf
  <2> QED
    BY <2>1, <2>3 DEF UpTo
<1> QED
  BY <1>1, Invariance, PTL

\* The zero statistics pass in no update, whatever is known of the leader.
THEOREM SilentAreNeverHealthy == Spec => []SilentNeverHealthy
<1>1. Init => SilentNeverHealthy
  BY DEF Init, SilentNeverHealthy
<1>2. SilentNeverHealthy /\ [Next]_vars => SilentNeverHealthy'
  <2> SUFFICES ASSUME SilentNeverHealthy, [Next]_vars PROVE SilentNeverHealthy'
    OBVIOUS
  <2>1. ASSUME NEW well, Publish(well), NEW s \in Servers, health'[s]
        PROVE  stats'[s] # ZeroStats
    <3>1. stats'[s] = StatsOf(s) /\ IsHealthy(StatsOf(s), LeaderEntry, s \in well)
      BY <2>1 DEF Publish
    <3>2. StatsOf(s).term # 0
      BY <3>1 DEF IsHealthy, Bootstrapped
    <3> QED
      BY <3>1, <3>2, ZeroTypes
  <2>2. ASSUME NEW well, Publish(well) PROVE SilentNeverHealthy'
    BY <2>1, <2>2 DEF SilentNeverHealthy, ZeroStats
  <2>3. ASSUME UNCHANGED <<stats, health>> PROVE SilentNeverHealthy'
    BY <2>3 DEF SilentNeverHealthy, ZeroStats
  <2> QED
    BY <2>2, <2>3
       DEF Next, UpdateStep, RaftStep, ReadIndex, ReadRole, ReadTerm, Answer, GatherFails,
           Extend, Replicate, Elect, vars
<1> QED
  BY <1>1, <1>2, PTL DEF Spec

\* On the leader, what is appended while the statistics are on their way
\* makes no server unhealthy that kept up and answered.
THEOREM NoFalseAlarms == Spec => NoFalseAlarm
<1> DEFINE Alarm == \A well \in SUBSET Servers : Publish(well) /\ inputs.isLeader =>
                      \A s \in close \cap well :
                        fetched[s] # None /\ fetched[s].index + maxTrailingLogs < Width => health'[s]
<1>1. ASSUME IInv, NEW well \in SUBSET Servers, Publish(well), inputs.isLeader,
             NEW s \in close \cap well, fetched[s] # None,
             fetched[s].index + maxTrailingLogs < Width
      PROVE  health'[s]
  <2>1. s \in Servers /\ upc = "fetch" /\ steady
    BY <1>1 DEF IInv, CloseInv, Publish
  <2>2. leader = Self
    BY <1>1, <2>1 DEF IInv, UpdateInv, InputsInv
  <2>3. /\ log[leader] # <<>> /\ inputs.latestIndex > 0
        /\ inputs.lastTerm = LastEntry(log[leader]).term
        /\ fetched[s].term = LastEntry(log[leader]).term
        /\ fetched[s].index + maxTrailingLogs >= inputs.latestIndex
    BY <1>1, <2>1, <2>2 DEF IInv, CloseInv
  <2>4. LeaderEntry = [term |-> inputs.lastTerm, index |-> inputs.latestIndex]
    BY <1>1 DEF LeaderEntry
  <2>5. RaftTypes /\ UpdateTypes
    BY <1>1, TypeParts DEF IInv
  <2>6. inputs.lastTerm # 0
    <3>1. log[leader] \in Logs
      BY <2>5 DEF RaftTypes
    <3>2. Len(log[leader]) > 0
      BY <2>3, <3>1, LastEntryOf
    <3> QED
      BY <2>3, <3>1, <3>2, InTerm
  <2>7. Bootstrapped(LeaderEntry) /\ LeaderEntry.term = fetched[s].term
    BY <2>3, <2>4, <2>5, <2>6 DEF Bootstrapped, UpdateTypes, Inputs
  <2>8. ~FallenBehind(fetched[s], LeaderEntry)
    <3>1. fetched[s].index \in Nat /\ maxTrailingLogs \in Nat /\ inputs.latestIndex \in Nat
          /\ Width \in Nat \ {0}
      BY <1>1, <2>1, <2>5, WidthType DEF UpdateTypes, RaftTypes, Inputs, Positions
    <3> DEFINE x == fetched[s].index + maxTrailingLogs
    <3>2. x \in Nat /\ x < Width /\ x >= inputs.latestIndex
      BY <1>1, <2>3, <3>1
    <3> HIDE DEF x
    <3>3. x % Width = x
      BY <3>1, <3>2
    <3>4. ~(x % Width < inputs.latestIndex)
      BY <3>1, <3>2, <3>3
    <3> QED
      BY <2>4, <3>4 DEF FallenBehind, x
  <2>9. IsHealthy(fetched[s], LeaderEntry, s \in well)
    BY <1>1, <2>7, <2>8 DEF IsHealthy
  <2>10. health'[s] = IsHealthy(StatsOf(s), LeaderEntry, s \in well) /\ StatsOf(s) = fetched[s]
    BY <1>1, <2>1 DEF Publish, StatsOf
  <2> QED
    BY <2>9, <2>10
<1>2. IInv => [Alarm]_vars
  BY <1>1
<1> QED
  BY <1>2, Invariance, PTL DEF NoFalseAlarm
=============================================================================
