------------------------------ MODULE MCDriver ------------------------------
(***************************************************************************)
(* Driver for TLC: a catalog of two frontier models and a box (or none),   *)
(* with everything that may see a text switched on, and with it off.       *)
(* Plans of two tasks in two turns, plans of three in one.                 *)
(***************************************************************************)
EXTENDS Driver, TLC

Model(lane, res, fake) == [lane |-> lane, res |-> res, fake |-> fake]
Cloud == "big" :> Model("frontier", "cloud", FALSE) @@ "mini" :> Model("economy", "cloud", FALSE)
Box == Cloud @@ "box" :> Model("economy", "in_perimeter", FALSE)

Task(v, policy, runner) ==
  [verdict |-> v, policy |-> policy, runner |-> runner, complexity |-> "medium",
   web |-> FALSE, words |-> "frontier"]
Open == Task("allow", FALSE, "gateway")
Local == Task("allow", TRUE, "gateway")
Hand == Task("allow", TRUE, "claude_code")
Bad == Task("block", FALSE, "gateway")
Agent == Task("local", FALSE, "pi")

\* The tasks of a plan share nothing but what is woven in the end: their order
\* makes no difference.
Pairs == {<<Open>>, <<Local>>, <<Hand>>, <<Open, Open>>, <<Open, Local>>, <<Open, Hand>>,
          <<Local, Local>>, <<Local, Hand>>, <<Hand, Hand>>}
Triples == {<<Open, Open, Local>>, <<Open, Local, Bad>>, <<Open, Open, Bad>>,
            <<Open, Hand, Bad>>, <<Local, Hand, Bad>>, <<Open, Local, Hand>>}

Bare(cat) == [cat |-> cat, driver |-> "big", triage |-> "mini", label |-> "mini",
              embed |-> FALSE, labels |-> FALSE, knn |-> FALSE, corpus |-> FALSE, toto |-> FALSE,
              user |-> None, team |-> None, shipped |-> None, pin |-> None, plans |-> Pairs]
Full == [Bare(Box) EXCEPT !.embed = TRUE, !.labels = TRUE, !.knn = TRUE, !.corpus = TRUE,
                          !.shipped = "big", !.pin = "big"]
Bound == [Bare(Box) EXCEPT !.labels = TRUE, !.knn = TRUE, !.team = "mini", !.toto = TRUE]
Wide == {[Bare(Cloud) EXCEPT !.plans = Triples], [Bare(Box) EXCEPT !.plans = Triples, !.toto = TRUE]}
MCSetups == {Full, Bound, Bare(Cloud)} \cup Wide

Asked(v, kind, authored) == [verdict |-> v, kind |-> kind, tasks |-> authored]
Nothing == <<>>
MCQueries == {Asked("allow", None, Nothing), Asked("local", None, Nothing),
              Asked("block", None, Nothing), Asked("allow", "trivial", Nothing),
              Asked("allow", None, 1 :> Agent)}

\* A conversation with plans of three tasks has one turn.
MCNext == Next /\ (setup \in Wide => turn <= 1)'

MCSpec == Init /\ [][MCNext]_vars /\ WF_vars(Step)
=============================================================================
