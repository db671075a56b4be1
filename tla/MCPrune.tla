------------------------------ MODULE MCPrune ------------------------------
(* Prune on a handful of servers.                                          *)
EXTENDS Prune

\* A promoter that filters nothing, and one that spares server 1.
AnyFilter == {Servers, Servers \ {1}}
StableFilter == {Servers}

\* Cleanup is on to begin with and one server is of a non-voter type: what
\* happens during a round is up to the application.
MCInit == Init /\ conf.cleanup /\ voterType = Servers \ {3}
MCSpec == MCInit /\ [][Next]_vars

\* Every server is in Raft and of a voter type.
VotersInit ==
  /\ Init
  /\ conf.cleanup
  /\ \A s \in Servers : InRaft(s)
  /\ voterType = Servers

\* Server 1 leads: it is a voter and alive.
LedInit == VotersInit /\ raftCfg[1] = "voter" /\ known[1] = "alive"
LedSpec == LedInit /\ [][Next]_vars

\* Rounds that make progress.
LiveSpec == VotersInit /\ [][Next]_vars /\ Fairness
=============================================================================
