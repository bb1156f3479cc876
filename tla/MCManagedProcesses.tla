------------------------- MODULE MCManagedProcesses -------------------------
(* ManagedProcesses on a small instance; the constants are in the .cfg file. *)
EXTENDS ManagedProcesses

CONSTANT p1
=============================================================================
