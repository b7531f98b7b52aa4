---------------------------- MODULE MCInventory ----------------------------
(***************************************************************************)
(* InventoryRefresh for TLC: two replicas and an operation over two        *)
(* providers (k2 is there for larger instances).                           *)
(***************************************************************************)
EXTENDS InventoryRefresh, TLC

CONSTANTS w1, w2, fw, orr, k1, k2

MCWorker == {w1, w2}
MCIntent == (k1 :> <<fw, orr>>) @@ (k2 :> <<fw>>)
=============================================================================
