---------------------------- MODULE MCTunIntent ----------------------------
(* TunIntent with few commands and few faults. *)
EXTENDS TunIntent

Delivery == {"lost", "down", "external", "drift"}
Failing  == {"error"}
=============================================================================
