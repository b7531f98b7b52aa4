---------------------------- MODULE MCAdoptions -----------------------------
(***************************************************************************)
(* CatalogAdoption for TLC: two library models with the same last segment, *)
(* so that their suggested ids collide, a shipped id in their way, a local *)
(* model, two admin requests and two freshness passes.                     *)
(***************************************************************************)
EXTENDS CatalogAdoption, TLC

CONSTANTS s1, s2, l1, glm, loc, tier, r1, r2, p1, p2

MCNameOf == (s1 :> glm) @@ (s2 :> glm) @@ (l1 :> loc)
MCBase == {<<glm, 2>>}
MCFirst == {(s1 :> 1) @@ (s2 :> 2)}
MCChange == {<<s1, 0>>, <<s1, Gone>>, <<s2, NoPrice>>}

MCSymmetry == Permutations(Pass)

Job(k, on, id) == [kind |-> k, on |-> on, id |-> id]

MCJobsOf ==
  (r1 :> {Job("adopt", s1, id) : id \in {NoId, <<glm, 2>>, <<glm, 3>>, <<tier, 1>>}}
            \cup {Job("unadopt", NoId, <<glm, 1>>)})
    @@ (r2 :> {Job("adopt", s2, NoId), Job("local", l1, NoId),
               Job("accept", NoId, <<glm, 1>>)})
=============================================================================
