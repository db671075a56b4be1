------------------------------- MODULE Order --------------------------------
(***************************************************************************)
(* The order of servers in a published State (ServerLessThan and           *)
(* SortServers, state.go).  servers gives each ID its role, health and     *)
(* StableSince; IDs are numbers, standing for the order of the strings.    *)
(***************************************************************************)
EXTENDS Integers, FiniteSets

\* Mutant: servers that are equal in all else are left as they come.
ServerLessThanNoIDs(i, j, servers) ==
  LET I == servers[i]
      J == servers[j]
  IN IF I.role = "leader" \/ J.role = "leader" THEN I.role = "leader"
     ELSE IF (I.role = "voter") # (J.role = "voter") THEN I.role = "voter"
     ELSE IF I.healthy # J.healthy THEN I.healthy
     ELSE IF I.since # J.since THEN (I.since < J.since) = I.healthy
     ELSE FALSE

\* The leader comes first, then voters before others, healthy ones before
\* unhealthy ones, and by ID in the end.  Of two healthy servers the one
\* stable for longer is less, of two unhealthy ones it is greater.
ServerLessThan(i, j, servers) ==
  LET I == servers[i]
      J == servers[j]
  IN IF I.role = "leader" \/ J.role = "leader" THEN I.role = "leader"
     ELSE IF (I.role = "voter") # (J.role = "voter") THEN I.role = "voter"
     ELSE IF I.healthy # J.healthy THEN I.healthy
     ELSE IF I.since # J.since THEN (I.since < J.since) = I.healthy
     ELSE i < j

\* What SortServers may make of the IDs in S, collected in any order: sort
\* is not stable, so every list without an element less than an earlier one
\* is a possible result.
SortedLists(S, servers) ==
  LET positions == 1..Cardinality(S)
  IN {list \in [positions -> S] :
        \A m, n \in positions : m < n =>
          list[m] # list[n] /\ ~ServerLessThan(list[n], list[m], servers)}
=============================================================================
