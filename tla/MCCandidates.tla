---------------------------- MODULE MCCandidates ----------------------------
(***************************************************************************)
(* CandidateSync for TLC: a partition with three snapshots and one whose   *)
(* snapshot has no offers; three synchronising coroutines, or a client     *)
(* with every kind of query.                                               *)
(***************************************************************************)
EXTENDS CandidateSync

CONSTANTS pa, pb

MCPart == {pa, pb}
MCOffers ==
  [p \in MCPart |-> IF p = pa THEN <<{1, 2, 4}, {2, 3}, {4}>> ELSE <<{}>>]
MCQuery ==
  [avail : {"available", "all"}, by : {"any", "source"}, id : {1}]
    \cup [avail : {"available", "all"}, by : {"id"}, id : {1, 3}]

\* The coroutines and the client read the inventory and nothing of each other:
\* each is explored without the other, the coroutines without aliases and
\* partial snapshots, the client, who does not ask what has expired, without
\* expiries.
Synchronising ==
  /\ reader = NewReader /\ alias = Nothing
  /\ history = UNION {UNION {Offers[p][n] : n \in committed[p]} : p \in Part}
Inspecting ==
  /\ expired = Nothing /\ syncs = 0
  /\ \A s \in Syncer : sync[s].pc = IF s = Starter THEN "hydrate" ELSE "idle"

MCNext == Next /\ (Synchronising \/ Inspecting)'

MCSpec == Init /\ [][MCNext]_vars /\ Fairness
=============================================================================
