------------------------------ MODULE MCSmart -------------------------------
(***************************************************************************)
(* SmartRouting for TLC: two turns of one conversation over two replicas   *)
(* with Redis.  The second may come from a team of the first one's org or  *)
(* from another org with the same opening and a label of its own; it may   *)
(* carry tools, which only one model speaks.                               *)
(***************************************************************************)
EXTENDS SmartRouting, TLC

CONSTANTS t1, t2, p1, p2

Body(code, custom, tax, clf, steers) ==
  [bind |-> ("other" :> None) @@ ("code" :> code) @@ [l \in custom |-> "coder"],
   custom |-> custom, tax |-> tax, clf |-> clf, steers |-> steers]

MCSessionOf == [t \in Turn |-> None]
MCOpeningOf == [t \in Turn |-> "c"]
MCOrgOf == ("a" :> "a") @@ ("team" :> "a") @@ ("b" :> "b")
MCScopesOf == (t1 :> {"a"}) @@ (t2 :> {"team", "b"})
MCAsksOf == (t1 :> {"smart", "explicit"}) @@ (t2 :> {"smart", "tools"})
MCSitesOf == (t1 :> {p1}) @@ (t2 :> {p1, p2})
MCOrder == <<"coder", "gen">>
MCAdoptedBy == [s \in Scope |-> IF s = "team" THEN {} ELSE {"coder"}]
MCDenyOf == [s \in Scope |-> IF s = "team" THEN {"gen"} ELSE {}]
MCGlobal == ("code" :> None) @@ ("other" :> "gen")
\* The last two bodies of an org are refused: a model out of the catalog, and a
\* cloud classifier for data that must stay inside.
MCBodies ==
  [s \in Scope |->
     IF s = "a" THEN {Body("coder", {}, {}, None, TRUE),
                      Body("coder", {}, {"local_only"}, "gen", FALSE),
                      Body("ghost", {}, {}, None, FALSE),
                      Body(None, {}, {"deny"}, "coder", FALSE)}
     ELSE IF s = "team" THEN {Body(None, {}, {"local_only"}, None, FALSE)}
     ELSE {}]
MCPolicy0 ==
  ("a" :> Body(None, {}, {"local_only"}, "gen", FALSE)) @@ ("team" :> None) @@
  ("b" :> Body(None, {"legal"}, {"allow"}, None, FALSE))
MCRank0 == <<"coder", "gen">>
MCRankings == {<<"coder", "gen">>, <<"gen", "coder">>}
MCHoldOf == ("code" :> 2)
=============================================================================
