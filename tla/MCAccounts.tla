---------------------------- MODULE MCAccounts ------------------------------
EXTENDS Accounts, TLC

CONSTANTS u1, u2, o1, h1, h2, t1, t2, t3, t4, t5

Job(k, u, o, t) == [kind |-> k, user |-> u, org |-> o, tok |-> t]

MCHomeOf == (u1 :> h1) @@ (u2 :> h2)

\* Two owners of one enterprise org; u1 has a session, and an API token bound
\* to the org, which owns a service token.
MCMem0 == (u1 :> <<[org |-> o1, role |-> "owner"]>>)
            @@ (u2 :> <<[org |-> h2, role |-> "owner"], [org |-> o1, role |-> "owner"]>>)

MCTok0 ==
  (t1 :> TokenRow(u1, "session", None, TRUE)) @@ (t2 :> TokenRow(u1, "api", o1, FALSE))
    @@ (t3 :> TokenRow(o1, "service", o1, FALSE)) @@ (t4 :> Unborn)
    @@ (t5 :> Unborn)

\* An operation that takes credentials or the membership away, one that gives
\* or binds them, a third of either sort, and a request.
MCJobsOf ==
  <<{Job("deactivate", u1, o1, None), Job("remove", u1, o1, None),
     Job("bulk", u1, o1, None)},
    {Job("switch", u1, o1, t1), Job("sso", u1, o1, None), Job("join", u1, o1, None),
     Job("provision", u1, o1, None), Job("login", u1, o1, None),
     Job("mint", u1, o1, None), Job("rotate", u1, o1, t2)},
    {Job("rotate", u1, o1, t2), Job("switch", u1, o1, t1), Job("logout", u1, o1, t1),
     Job("revoke", u1, o1, t2), Job("demote", u2, o1, None), Job("bulk", u1, o1, None)},
    {Job("request", u1, o1, t) : t \in {t1, t2, t3, t4}}>>
=============================================================================
