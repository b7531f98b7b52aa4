--------------------------- MODULE InventoryLedger ---------------------------
(***************************************************************************)
(* What the inventory platform promises about refresh operations,          *)
(* whatever workers, leases and crashes do underneath: an operation is     *)
(* executed in numbered terms, evidence enters the ledger only under the   *)
(* term that is current, each provider at most once per term, and an       *)
(* operation settles once, as a success only when every provider it names  *)
(* has evidence of the term that settled it.  InventoryRefresh implements  *)
(* it.                                                                     *)
(***************************************************************************)
EXTENDS Naturals

CONSTANTS Op, Provider, Settled

VARIABLES phase,     \* phase[o]: absent, queued, running or a member of Settled
          names,     \* names[o]: the providers the operation names
          term,      \* term[o]: how many executions of o have begun
          evidence   \* the <<operation, term, provider>> committed

vars == <<phase, names, term, evidence>>

Init ==
  /\ phase = [o \in Op |-> "absent"]
  /\ names = [o \in Op |-> {}]
  /\ term = [o \in Op |-> 0]
  /\ evidence = {}

Accept(o) ==
  /\ phase[o] = "absent"
  /\ phase' = [phase EXCEPT ![o] = "queued"]
  /\ \E ps \in SUBSET Provider : names' = [names EXCEPT ![o] = ps]
  /\ UNCHANGED <<term, evidence>>

\* A new term supersedes the one before, whose executor may still be alive.
Begin(o) ==
  /\ phase[o] \in {"queued", "running"}
  /\ phase' = [phase EXCEPT ![o] = "running"]
  /\ term' = [term EXCEPT ![o] = @ + 1]
  /\ UNCHANGED <<names, evidence>>

Commit(o, p) ==
  /\ phase[o] = "running"
  /\ p \in names[o]
  /\ <<o, term[o], p>> \notin evidence
  /\ evidence' = evidence \cup {<<o, term[o], p>>}
  /\ UNCHANGED <<phase, names, term>>

Settle(o, s) ==
  /\ phase[o] = "running"
  /\ s = "succeeded" => \A p \in names[o] : <<o, term[o], p>> \in evidence
  /\ phase' = [phase EXCEPT ![o] = s]
  /\ UNCHANGED <<names, term, evidence>>

Forget(o) ==
  /\ phase[o] \in Settled
  /\ phase' = [phase EXCEPT ![o] = "forgotten"]
  /\ UNCHANGED <<names, term, evidence>>

Next ==
  \E o \in Op :
    \/ Accept(o) \/ Begin(o) \/ Forget(o)
    \/ \E p \in Provider : Commit(o, p)
    \/ \E s \in Settled : Settle(o, s)

Spec == Init /\ [][Next]_vars
=============================================================================
