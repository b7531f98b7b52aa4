---------------------------- MODULE MCDiscovery ----------------------------
(***************************************************************************)
(* ProviderDiscovery for TLC: a provider with two accounts (limit: one or  *)
(* more), sources of one or two pages, duplicates between sources, rows of *)
(* every kind, an account with an improper id, and a token cycle.          *)
(***************************************************************************)
EXTENDS ProviderDiscovery, TLC

Row(i) == [id |-> i, object |-> TRUE, state |-> "READY", serverless |-> TRUE, safe |-> TRUE]
Down(i) == [Row(i) EXCEPT !.state = "CREATING"]
Nameless == [Row("") EXCEPT !.state = ""]
Unsafe(i) == [Row(i) EXCEPT !.safe = FALSE]
Dedicated(i) == [Row(i) EXCEPT !.serverless = FALSE]
Junk == [Row("") EXCEPT !.object = FALSE]

Page(rows, next) == [rows |-> rows, next |-> next]
One(rows) == FirstPage :> Page(rows, NoToken)
Two(r1, r2, next) == (FirstPage :> Page(r1, "t1")) @@ ("t1" :> Page(r2, next))

PublicGraphs ==
  {One(<<Row("a"), Unsafe("b")>>),
   Two(<<Row("a")>>, <<Row("b"), Down("c")>>, NoToken),
   Two(<<Row("a")>>, <<Junk, Nameless>>, FirstPage),
   Two(<<Row("a")>>, <<Row("c"), Row("b"), Row("a")>>, NoToken)}
AccountGraphs ==
  {One(<<Row("x")>>), One(<<Row("x"), Row("y")>>), One(<<Row("?"), Row("x")>>),
   Two(<<Row("x"), Nameless>>, <<Row("y"), Row("x")>>, NoToken), One(<<>>)}
ModelGraphs == {One(<<Row("b"), Dedicated("e")>>), Two(<<Row("m")>>, <<Row("b")>>, NoToken)}

MCUpstreams ==
  {(Public :> p) @@ (Accounts :> a)
     @@ (User :> One(<<Row("a"), Junk, Row("a"), Unsafe("b")>>))
     @@ (<<"models", "x">> :> m) @@ (<<"models", "y">> :> One(<<Row("n")>>))
     @@ (<<"deployments", "x">> :> One(<<Dedicated("d")>>))
     @@ (<<"deployments", "y">> :> One(<<Down("d")>>)) :
   p \in PublicGraphs, a \in AccountGraphs, m \in ModelGraphs}

MCConfigs ==
  [adapter : {"fireworks"}, account : {"", "x"}, accounts : BOOLEAN, deployments : BOOLEAN]
  \cup {[adapter |-> "openrouter", account |-> "", accounts |-> FALSE, deployments |-> FALSE]}
=============================================================================
