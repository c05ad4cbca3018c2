-------------------------- MODULE MCMaintenanceApp ---------------------------
(* A small instance of MaintenanceApp with its invariant: see MCMaintenanceApp.cfg for the bounds. *)
EXTENDS MaintenanceInv
==============================================================================
