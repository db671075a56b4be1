---------------------------- MODULE MCMembership ----------------------------
(* Membership with two callers and five servers at two addresses.          *)
EXTENDS Membership, TLC

\* Few servers are enough when they share addresses; IDs, addresses and
\* callers are interchangeable.
Symmetries == Permutations(Ids) \cup Permutations(Addrs) \cup Permutations(Callers)
=============================================================================
