-------------------------------- MODULE MCVmEnv --------------------------------
(***************************************************************************)
(* VmEnv for TLC.  The processes are interchangeable, and so are the       *)
(* branches.                                                               *)
(***************************************************************************)
EXTENDS VmEnv, TLC

Symmetry == Permutations(Procs) \cup Permutations(Branches)
=============================================================================
