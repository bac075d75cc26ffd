---------------------------- MODULE MCMaintenance ----------------------------
(* Threads of module Maintenance as model values. *)
EXTENDS Maintenance

CONSTANTS w1, w2, c1
=============================================================================
