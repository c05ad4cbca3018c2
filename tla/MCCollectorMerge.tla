-------------------------- MODULE MCCollectorMerge ---------------------------
(* Small instances of the collectors' life: see the .cfg for the bounds. *)
EXTENDS CollectorMergeInv
==============================================================================
