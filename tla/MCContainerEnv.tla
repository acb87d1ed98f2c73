---------------------------- MODULE MCContainerEnv ----------------------------
(***************************************************************************)
(* ContainerEnv for TLC.  The processes and the directories are            *)
(* interchangeable: no property tells one from another.                    *)
(***************************************************************************)
EXTENDS ContainerEnv, TLC

ProcSymmetry == Permutations(Procs)

Symmetry == ProcSymmetry \cup Permutations(Dirs)
=============================================================================
