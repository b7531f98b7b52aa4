------------------------------- MODULE MCDoor -------------------------------
EXTENDS SessionDoor, TLC

CONSTANTS r1, r2, r3, k1, p1, p2

\* A turn, the same turn again with or without its key, and a session.
MCKeysOf == (r1 :> {k1}) @@ (r2 :> {k1, NoKey}) @@ (r3 :> {NoKey})

\* The two turns meet in the database, a turn and the session on one replica.
MCSitesOf == (r1 :> {p1}) @@ (r2 :> {p2}) @@ (r3 :> {p1})
=============================================================================
