------------------------------ MODULE Accounts ------------------------------
(***************************************************************************)
(* Credentials and memberships (toto_gateway/auth: tokens.py, tenancy.py,  *)
(* sso.py) and the identity resolution every request goes through          *)
(* (routes/deps.py _resolve_identity, _resolve_org).                       *)
(*                                                                         *)
(* Each operation is a coroutine that issues its SQL statements one by     *)
(* one, each atomic and none in a transaction with the next; other         *)
(* operations run in between.  op[i].pc names the next statement of        *)
(* operation i, and op[i].job says what it does and to whom.               *)
(*                                                                         *)
(* Abstractions.  A token is its row: owner, purpose, the org it is bound  *)
(* to, and whether it has expired; finite marks a lifetime that will end   *)
(* (a token without expiry is stamped a hundred years ahead).  Secrets,    *)
(* hashes, labels, e-mail verification, teams and the policy reads that    *)
(* follow resolution are left out.  mem[u] lists u's memberships, oldest   *)
(* first, as ORDER BY created_at does.                                     *)
(***************************************************************************)
EXTENDS Naturals, Sequences, FiniteSets

CONSTANTS
  User, Org,
  HomeOf,      \* HomeOf[u]: the derived id of u's personal org
  Token,       \* token rows, existing and to be minted
  Op, JobsOf,  \* the operations of a behaviour, JobsOf[i] what i may be
  Mem0, Tok0,  \* the rows at the start
  None

Roles == {"owner", "admin", "member", "auditor"}

Purposes == {"api", "session", "service"}

Unborn == [live |-> "unborn"]
Gone   == [live |-> "gone"]

\* A row of auth_tokens.
TokenRow(u, p, o, finite) ==
  [live |-> "yes", user |-> u, purpose |-> p, org |-> o, finite |-> finite]

ASSUME AccountsAssumption ==
  /\ HomeOf \in [User -> Org]
  /\ Mem0 \in [User -> Seq([org : Org, role : Roles])]
  /\ \A u \in User : \A m, n \in DOMAIN Mem0[u] : Mem0[u][m].org = Mem0[u][n].org => m = n
  /\ DOMAIN Tok0 = Token /\ Tok0 = [t \in Token |-> Tok0[t]]
  /\ \A t \in Token :
       \/ Tok0[t] = Unborn
       \/ \E u \in User \cup Org, p \in Purposes, o \in Org \cup {None}, f \in BOOLEAN :
            Tok0[t] = TokenRow(u, p, o, f)
  /\ None \notin Org \cup User \cup Token
  /\ \A i \in Op : \A j \in JobsOf[i] : j.user \in User /\ j.org \in Org

VARIABLES mem,     \* mem[u]: memberships
          tok,     \* tok[t]: the row, or Gone / Unborn
          op,      \* op[i]: the operation
          left,    \* history: <<u, o>> deactivated and not added since
          doomed   \* history: <<i, t>>: revocation i found credential t in its
                   \* scope, and no switch has bound t to another org since

accountVars == <<mem, tok, op, left, doomed>>

Exists(t) == tok[t].live \in {"yes", "expired"}

Begin(j) == [job |-> j, pc |-> "start", role |-> None, bound |-> None, org |-> None]

AccountsInit ==
  /\ mem = Mem0
  /\ tok = Tok0
  /\ op \in [Op -> UNION {{Begin(j) : j \in JobsOf[i]} : i \in Op}]
  /\ \A i \in Op : op[i].job \in JobsOf[i]
  /\ left = {}
  /\ doomed = {}

-----------------------------------------------------------------------------
\* The statements on memberships.

Orgs(u) == {mem[u][n].org : n \in DOMAIN mem[u]}

\* The row of u in o, by the primary key.
RowAt(u, o) == CHOOSE n \in DOMAIN mem[u] : mem[u][n].org = o

RoleIn(u, o) == IF o \in Orgs(u) THEN mem[u][RowAt(u, o)].role ELSE None

Owners(o) == {u \in User : RoleIn(u, o) = "owner"}

\* add_membership: a re-add is a no-op.
Added(u, o, role) ==
  IF o \in Orgs(u) THEN mem
  ELSE [mem EXCEPT ![u] = Append(@, [org |-> o, role |-> role])]

Without(s, n) == SubSeq(s, 1, n - 1) \o SubSeq(s, n + 1, Len(s))

Dropped(u, o) ==
  IF o \in Orgs(u) THEN [mem EXCEPT ![u] = Without(@, RowAt(u, o))] ELSE mem

Proceed(i, pc) == op' = [op EXCEPT ![i].pc = pc]

\* Operation i is at statement pc of kind k.
At(i, k, pc) == op[i].job.kind = k /\ op[i].pc = pc

-----------------------------------------------------------------------------
\* A request with credential tok: resolve_bearer, or for a cookie session_user
\* and then token_org.
ReadCredential(i) ==
  /\ At(i, "request", "start")
  /\ LET t == op[i].job.tok IN
       op' = [op EXCEPT ![i] =
         [@ EXCEPT
            !.pc = IF tok[t].live # "yes" THEN "denied"
                   ELSE CASE tok[t].purpose = "service" -> "in"
                          [] tok[t].purpose = "session" -> "binding"
                          [] tok[t].purpose = "api"     -> "bound",
            !.bound = IF tok[t].live = "yes" /\ tok[t].purpose = "api" THEN tok[t].org
                                                                       ELSE None,
            !.org = IF tok[t].live = "yes" /\ tok[t].purpose = "service" THEN tok[t].org
                                                                         ELSE None,
            !.role = IF tok[t].live = "yes" /\ tok[t].purpose = "service" THEN "member"
                                                                          ELSE None]]
  /\ UNCHANGED <<mem, tok, left, doomed>>

ReadBinding(i) ==
  /\ At(i, "request", "binding")
  /\ op' = [op EXCEPT ![i].pc = "bound",
                      ![i].bound = IF Exists(op[i].job.tok) THEN tok[op[i].job.tok].org
                                                            ELSE None]
  /\ UNCHANGED <<mem, tok, left, doomed>>

\* Mutant: the credential's binding is taken at its word.
BindingHoldsBlindly(u, o) == o # None

\* get_membership_in: the binding counts while the membership exists.
BindingHolds(u, o) == o # None /\ o \in Orgs(u)

\* resolve_membership: the bound org, else the oldest membership, else provision.
Resolve(i) ==
  /\ At(i, "request", "bound")
  /\ LET u == op[i].job.user IN
       op' = IF BindingHolds(u, op[i].bound)
             THEN [op EXCEPT ![i].pc = "in", ![i].org = op[i].bound,
                             ![i].role = RoleIn(u, op[i].bound)]
             ELSE [op EXCEPT ![i].pc = "oldest"]
  /\ UNCHANGED <<mem, tok, left, doomed>>

ResolveOldest(i) ==
  /\ At(i, "request", "oldest")
  /\ LET u == op[i].job.user IN
       op' = IF mem[u] # <<>>
             THEN [op EXCEPT ![i].pc = "in", ![i].org = Head(mem[u]).org,
                             ![i].role = Head(mem[u]).role]
             ELSE [op EXCEPT ![i].pc = "provision"]
  /\ UNCHANGED <<mem, tok, left, doomed>>

\* The personal org, with an id derived from the user's.
Provision(i) ==
  /\ At(i, "request", "provision")
  /\ LET u == op[i].job.user IN
       /\ mem' = Added(u, HomeOf[u], "owner")
       /\ left' = left \ {<<u, HomeOf[u]>>}
       /\ op' = [op EXCEPT ![i].pc = "in", ![i].org = HomeOf[u], ![i].role = "owner"]
  /\ UNCHANGED <<tok, doomed>>

-----------------------------------------------------------------------------
\* set_role(member) and remove_membership, alone or as the first part of
\* scim_deactivate: the role, the owner count, then the write.

Leaving == {"demote", "remove", "deactivate"}

\* DELETE ... WHERE user_id AND org_id: a service token's user_id is its org.
Bound(u, o) == {t \in Token : Exists(t) /\ tok[t].user = u /\ tok[t].org = o}

\* Revocation i has begun with the credentials T in its scope.
Dooms(i, T) == doomed' = doomed \cup {<<i, t>> : t \in T}

ReadRole(i) ==
  /\ op[i].job.kind \in Leaving /\ op[i].pc = "start"
  /\ LET r == RoleIn(op[i].job.user, op[i].job.org) IN
       op' = [op EXCEPT ![i].role = r,
                        ![i].pc = CASE r = "owner" -> "count"
                                    [] r = None -> IF op[i].job.kind = "deactivate"
                                                   THEN "revoke" ELSE "done"
                                    [] OTHER -> "write"]
  /\ Dooms(i, IF op[i].job.kind = "deactivate" THEN Bound(op[i].job.user, op[i].job.org)
                                              ELSE {})
  /\ UNCHANGED <<mem, tok, left>>

CountOwners(i) ==
  /\ op[i].job.kind \in Leaving /\ op[i].pc = "count"
  /\ Proceed(i, IF Cardinality(Owners(op[i].job.org)) <= 1 THEN "refused" ELSE "write")
  /\ UNCHANGED <<mem, tok, left, doomed>>

WriteRole(i) ==
  /\ At(i, "demote", "write")
  /\ LET u == op[i].job.user IN
       mem' = [mem EXCEPT ![u] = [n \in DOMAIN @ |->
                 IF @[n].org = op[i].job.org THEN [@[n] EXCEPT !.role = "member"]
                                             ELSE @[n]]]
  /\ Proceed(i, "done")
  /\ UNCHANGED <<tok, left, doomed>>

DropMember(i) ==
  /\ op[i].job.kind \in {"remove", "deactivate"} /\ op[i].pc = "write"
  /\ mem' = Dropped(op[i].job.user, op[i].job.org)
  /\ Proceed(i, IF op[i].job.kind = "remove" THEN "done" ELSE "revoke")
  /\ UNCHANGED <<tok, left, doomed>>

Delete(T) == [t \in Token |-> IF t \in T THEN Gone ELSE tok[t]]

RevokeBound(i) ==
  /\ At(i, "deactivate", "revoke")
  /\ tok' = Delete(Bound(op[i].job.user, op[i].job.org))
  /\ Proceed(i, "remaining")
  /\ UNCHANGED <<mem, left, doomed>>

\* list_user_memberships decides whether the unbound credentials go too.
ReadRemaining(i) ==
  /\ At(i, "deactivate", "remaining")
  /\ LET u == op[i].job.user  o == op[i].job.org IN
       /\ Proceed(i, IF mem[u] = <<>> THEN "unbound" ELSE "done")
       /\ Dooms(i, IF mem[u] = <<>> THEN Bound(u, None) ELSE {})
       /\ left' = IF mem[u] # <<>> /\ o \notin Orgs(u) THEN left \cup {<<u, o>>} ELSE left
  /\ UNCHANGED <<mem, tok>>

RevokeUnbound(i) ==
  /\ At(i, "deactivate", "unbound")
  /\ LET u == op[i].job.user  o == op[i].job.org IN
       /\ tok' = Delete(Bound(u, None))
       /\ left' = IF o \notin Orgs(u) THEN left \cup {<<u, o>>} ELSE left
  /\ Proceed(i, "done")
  /\ UNCHANGED <<mem, doomed>>

-----------------------------------------------------------------------------
\* Operations that bind a credential to an org.

Minted(t, row) == [tok EXCEPT ![t] = row]

\* set_active_org: the membership is tested, then the session row is written.
TestSwitch(i) ==
  /\ At(i, "switch", "start")
  /\ Proceed(i, IF op[i].job.org \in Orgs(op[i].job.user) THEN "write" ELSE "refused")
  /\ UNCHANGED <<mem, tok, left, doomed>>

WriteSwitch(i) ==
  /\ At(i, "switch", "write")
  /\ LET t == op[i].job.tok  o == op[i].job.org IN
       /\ tok' = IF Exists(t) THEN [tok EXCEPT ![t].org = o] ELSE tok
       /\ doomed' = {d \in doomed : ~(d[2] = t /\ Exists(t) /\ tok[t].org # o)}
  /\ Proceed(i, "done")
  /\ UNCHANGED <<mem, left>>

\* provision_sso_login: a linked user is returned as is; one matched by e-mail
\* is linked and added to the org.
LinkSso(i) ==
  /\ At(i, "sso", "start")
  /\ LET u == op[i].job.user  o == op[i].job.org IN
       \/ UNCHANGED <<mem, left>>
       \/ mem' = Added(u, o, "member") /\ left' = left \ {<<u, o>>}
  /\ Proceed(i, "write")
  /\ UNCHANGED <<tok, doomed>>

\* create_session bound to the org of the login.
MintSession(i) ==
  /\ At(i, "sso", "write")
  /\ \E t \in Token :
       /\ tok[t] = Unborn
       /\ tok' = Minted(t, TokenRow(op[i].job.user, "session", op[i].job.org, TRUE))
  /\ Proceed(i, "done")
  /\ UNCHANGED <<mem, left, doomed>>

\* login: a password that is accepted, where the domain does not insist on SSO,
\* gives a session bound to no org.
Login(i) ==
  /\ At(i, "login", "start")
  /\ \/ Proceed(i, "refused") /\ UNCHANGED tok
     \/ /\ \E t \in Token :
             /\ tok[t] = Unborn
             /\ tok' = Minted(t, TokenRow(op[i].job.user, "session", None, TRUE))
        /\ Proceed(i, "done")
  /\ UNCHANGED <<mem, left, doomed>>

\* mint_token: the membership is tested, then the token bound to the org is
\* inserted; its lifetime is capped by the org's policy, if that has a cap.
TestMint(i) ==
  /\ At(i, "mint", "start")
  /\ Proceed(i, IF op[i].job.org \in Orgs(op[i].job.user) THEN "write" ELSE "refused")
  /\ UNCHANGED <<mem, tok, left, doomed>>

MintApi(i) ==
  /\ At(i, "mint", "write")
  /\ \E t \in Token, finite \in BOOLEAN :
       /\ tok[t] = Unborn
       /\ tok' = Minted(t, TokenRow(op[i].job.user, "api", op[i].job.org, finite))
  /\ Proceed(i, "done")
  /\ UNCHANGED <<mem, left, doomed>>

\* logout, and revoke_token of an API token: the row goes, if it is still there.
Discard(i) ==
  /\ op[i].job.kind \in {"logout", "revoke"} /\ op[i].pc = "start"
  /\ LET T == {t \in Token : t = op[i].job.tok /\ Exists(t)} IN
       tok' = Delete(T) /\ Dooms(i, T)
  /\ Proceed(i, "done")
  /\ UNCHANGED <<mem, left>>

\* scim_provision of a known user.
ScimProvision(i) ==
  /\ At(i, "provision", "start")
  /\ LET u == op[i].job.user  o == op[i].job.org IN
       /\ mem' = Added(u, o, "member")
       /\ left' = left \ {<<u, o>>}
  /\ Proceed(i, "done")
  /\ UNCHANGED <<tok, doomed>>

\* accept_invitation: a membership, if there is none.
Join(i) ==
  /\ At(i, "join", "start")
  /\ LET u == op[i].job.user  o == op[i].job.org IN
       /\ mem' = Added(u, o, "member")
       /\ left' = left \ {<<u, o>>}
  /\ Proceed(i, "done")
  /\ UNCHANGED <<tok, doomed>>

\* rotate_api_token: read the row, mint a successor with its binding, then
\* shorten the old row's life to the grace window, or delete it.
ReadOld(i) ==
  /\ At(i, "rotate", "start")
  /\ LET t == op[i].job.tok IN
       op' = IF Exists(t)
             THEN [op EXCEPT ![i].pc = "mint", ![i].bound = tok[t].org]
             ELSE [op EXCEPT ![i].pc = "refused"]
  /\ UNCHANGED <<mem, tok, left, doomed>>

MintSuccessor(i) ==
  /\ At(i, "rotate", "mint")
  /\ \E t \in Token, finite \in BOOLEAN :
       /\ tok[t] = Unborn
       /\ tok' = Minted(t, TokenRow(op[i].job.user, "api", op[i].bound, finite))
  /\ Proceed(i, "retire")
  /\ UNCHANGED <<mem, left, doomed>>

\* The grace window, counted from now whatever the row's own expiry, or none.
Retired(row) == {Gone, [row EXCEPT !.live = "yes", !.finite = TRUE]}

\* Mutant: the shortened row is written back whole (INSERT OR REPLACE).
RetireOldUpserts(i) ==
  /\ At(i, "rotate", "retire")
  /\ \E row \in Retired(TokenRow(op[i].job.user, "api", op[i].bound, TRUE)) :
       tok' = [tok EXCEPT ![op[i].job.tok] = row]
  /\ Proceed(i, "done")
  /\ UNCHANGED <<mem, left, doomed>>

\* UPDATE or DELETE by hash: a row that is gone stays gone.
RetireOld(i) ==
  /\ At(i, "rotate", "retire")
  /\ LET t == op[i].job.tok IN
       IF Exists(t) THEN \E row \in Retired(tok[t]) : tok' = [tok EXCEPT ![t] = row]
                    ELSE UNCHANGED tok
  /\ Proceed(i, "done")
  /\ UNCHANGED <<mem, left, doomed>>

\* revoke_org_credentials of a whole org in its widest form: one DELETE per
\* purpose, service last.
BulkNext == [api |-> "session", session |-> "service", service |-> "done"]

BulkRevoke(i) ==
  /\ op[i].job.kind = "bulk" /\ op[i].pc \in {"start", "session", "service"}
  /\ LET p == IF op[i].pc = "start" THEN "api" ELSE op[i].pc IN
       /\ tok' = Delete({t \in Token : Exists(t) /\ tok[t].org = op[i].job.org
                                        /\ tok[t].purpose = p})
       /\ Proceed(i, BulkNext[p])
       /\ Dooms(i, {t \in Token : op[i].pc = "start" /\ Exists(t)
                                   /\ tok[t].org = op[i].job.org})
  /\ UNCHANGED <<mem, left>>

\* Time: a finite lifetime runs out.
Expire(t) ==
  /\ tok[t].live = "yes" /\ tok[t].finite
  /\ tok' = [tok EXCEPT ![t].live = "expired"]
  /\ UNCHANGED <<mem, op, left, doomed>>

Step(i) ==
  \/ ReadCredential(i) \/ ReadBinding(i) \/ Resolve(i) \/ ResolveOldest(i)
  \/ Provision(i) \/ ReadRole(i) \/ CountOwners(i) \/ WriteRole(i)
  \/ DropMember(i) \/ RevokeBound(i) \/ ReadRemaining(i) \/ RevokeUnbound(i)
  \/ TestSwitch(i) \/ WriteSwitch(i) \/ LinkSso(i) \/ MintSession(i)
  \/ Login(i) \/ TestMint(i) \/ MintApi(i) \/ Discard(i) \/ ScimProvision(i)
  \/ Join(i) \/ ReadOld(i) \/ MintSuccessor(i) \/ RetireOld(i) \/ BulkRevoke(i)

AccountsNext == (\E i \in Op : Step(i)) \/ (\E t \in Token : Expire(t))

AccountsSpec == AccountsInit /\ [][AccountsNext]_accountVars

-----------------------------------------------------------------------------
Resolving(i) == op[i].pc \in {"bound", "oldest", "provision"}

\* scim_deactivate takes the user out of the org: no request resolves there
\* until the user is added again, whatever credential a concurrent switch,
\* rotation or SSO login bound to the org meanwhile.
DeactivatedStaysOut ==
  [][\A i \in Op :
       Resolving(i) /\ op'[i].pc = "in" => <<op[i].job.user, op'[i].org>> \notin left']_accountVars

\* A revocation that has finished leaves nothing it set out to revoke: of the
\* credentials in its scope when it began, every one is gone for good, unless a
\* switch took a session out of the scope before its DELETE, whatever
\* rotations, switches, logouts and other revocations do to the same rows
\* between its statements and afterwards (scim_deactivate,
\* revoke_org_credentials, revoke_api_token, logout).
RevokedStaysRevoked ==
  \A d \in doomed : op[d[1]].pc = "done" => tok[d[2]].live = "gone"

\* The total lockout of a user who left the last org: no credential remains.
LockoutIsTotal ==
  [][\A i \in Op : RevokeUnbound(i) =>
       \A t \in Token : tok'[t].live = "yes" => tok'[t].user # op[i].job.user]_accountVars

\* set_role and remove_membership keep an org that has an owner from losing its
\* last one.
OrgKeepsOwner ==
  \A o \in Org : (\E u \in User : \E n \in DOMAIN Mem0[u] :
                    Mem0[u][n] = [org |-> o, role |-> "owner"])
                   => Owners(o) # {}
=============================================================================
