---------------------------- MODULE MCStability ----------------------------
(* Stability on small clusters and a short clock.                          *)
EXTENDS Stability

CONSTANT Leader   \* leads at first

\* All servers are up, and the leader's own place is settled.
LedInit ==
  /\ Init
  /\ cfg[Leader] = "voter" /\ leaderID = Leader
  /\ alive = Servers

LedSpec == LedInit /\ [][Next]_vars

\* Promotion looks at one server at a time: whatever happens, happens to the
\* others, while the first leader stays a voter and reports good statistics.
LeaderWell ==
  /\ cfg[Leader] = "voter" /\ Leader \in alive
  /\ state.servers[Leader].role # "none" => state.servers[Leader].healthy
=============================================================================
