------------------------------ MODULE MCBreaker ------------------------------
(***************************************************************************)
(* BreakerCluster for TLC: two replicas of the gateway, one provider (the  *)
(* breaker's keys do not interact), two calls in flight.                   *)
(***************************************************************************)
EXTENDS BreakerCluster
=============================================================================
