-------------------------- MODULE MCForwarderWaits --------------------------
(* The instance on which entries are checked to wait for someone: it meets    *)
(* the conditions under which that is proved.                                 *)
EXTENDS MCForwarder

ASSUME SteadyAssumption == Steady(2)
=============================================================================
