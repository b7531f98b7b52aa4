----------------------------- MODULE MCDispatch -----------------------------
(***************************************************************************)
(* Dispatch for TLC.  Four catalog entries - two cloud frontier models on  *)
(* different providers, an in-perimeter box with a second one behind the   *)
(* same host - a fake one and a dynamic one.  Request q1 comes with every  *)
(* configuration that differs from a plain resilient request in the fields *)
(* of one member of Varied, while a request q2 for the same model without  *)
(* fallback shares its breakers, its cache and the budget of its org.      *)
(* Where there is no budget both come from the operator, unless they have  *)
(* keys.                                                                   *)
(***************************************************************************)
EXTENDS Dispatch, TLC

CONSTANTS q1, q2, cloudA, cloudB, box1, box2, stub, dyn, pa, pb, pl

MCReq == {q1, q2}
MCModel == {cloudA, cloudB, box1, box2, stub, dyn}
MCCatalog == <<stub, cloudA, cloudB, box1, box2>>
MCProviderOf ==
  [m \in MCModel |-> CASE m \in {cloudA, dyn} -> pa [] m = cloudB -> pb [] OTHER -> pl]
MCPrice ==
  [m \in MCModel |-> CASE m = cloudA -> 3 [] m \in {cloudB, box2} -> 2 [] OTHER -> 1]

Base ==
  [model |-> cloudA, permits |-> MCModel, eligible |-> TRUE, constraint |-> "none",
   guard |-> "allow", rule |-> "none", degraded |-> "none", closed |-> {},
   user |-> FALSE, keys |-> {}, zr |-> FALSE, resilient |-> TRUE, fallback |-> TRUE]

AllReasons == {"classify_failed", "policy_error", "breaker_open"}

Fields == DOMAIN Base

\* The configurations that differ from Base exactly in the fields F.
Twisted(F) ==
  [model : IF "degraded" \in F THEN {Smart} ELSE
           IF "model" \in F THEN {box1, dyn, Smart, Empty, Unknown} ELSE {cloudA},
   permits : IF "permits" \in F THEN {{cloudA, box1}, {box2}} ELSE {MCModel},
   eligible : IF "eligible" \in F THEN {FALSE} ELSE {TRUE},
   constraint : IF "constraint" \in F THEN {"local_only", "deny"} ELSE {"none"},
   guard : IF "guard" \in F THEN {"block", "downgrade_local"} ELSE {"allow"},
   rule : IF "rule" \in F THEN {"residency", "frontier"} ELSE {"none"},
   degraded : IF "degraded" \in F THEN {"classify_failed", "policy_error"} ELSE {"none"},
   closed : IF "closed" \in F THEN {{"breaker_open"}, AllReasons} ELSE {{}},
   user : {"keys" \in F \/ "user" \in F},
   keys : IF "keys" \in F THEN {{pa}, {pa, pb}} ELSE {{}},
   zr : IF "zr" \in F THEN {TRUE} ELSE {FALSE},
   resilient : IF "resilient" \in F THEN {FALSE} ELSE {TRUE},
   fallback : IF "fallback" \in F THEN {FALSE} ELSE {TRUE}]

\* One field; two that matter together, one of them the requested model or the
\* permits; or a degradation with the policy that rejects it.
Varied ==
  {G \in SUBSET Fields : \/ Cardinality(G) <= 1
                         \/ Cardinality(G) = 2 /\ "model" \in G /\ G \cap {"user", "zr"} = {}
                         \/ /\ Cardinality(G) = 2 /\ "permits" \in G
                            /\ G \cap {"user", "zr", "keys", "closed"} = {}
                         \/ G = {"degraded", "closed"}}

Twists == UNION {Twisted(F) : F \in Varied}

Plain == [Base EXCEPT !.fallback = FALSE]

\* Without a budget q1 comes with anything; a budget is spent by the first
\* request that is served.
MCCaps == {"none", "observe", "downgrade", "reject"}
Spent ==
  ("observe" :> {{}}) @@ ("downgrade" :> {{}, {"permits"}}) @@ ("reject" :> {{}, {"model"}})
MCConfigsOf ==
  [a \in MCCaps |->
     (q2 :> {[Plain EXCEPT !.user = a # "none"]}) @@
     (q1 :> IF a = "none" THEN Twists
            ELSE UNION {Twisted(F \cup {"user"}) : F \in Spent[a]})]
=============================================================================
