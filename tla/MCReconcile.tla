---------------------------- MODULE MCReconcile ----------------------------
(* Reconcile with every promoter on a small cluster.                       *)
EXTENDS Reconcile, TLC

AnyProposal ==
  [promotions : SUBSET Servers, demotions : SUBSET Servers, leader : Servers \cup {None}]

\* No server is named for both.
ConsistentProposal == {p \in AnyProposal : p.promotions \cap p.demotions = {}}

Symmetry == Permutations(Servers)
=============================================================================
