------------------------------ MODULE MCSioSocket ------------------------------
(***************************************************************************)
(* SioSocket for TLC: application threads and the network thread as model  *)
(* values.  The application threads are interchangeable, so the runs of    *)
(* safety properties use their symmetry.                                   *)
(***************************************************************************)
EXTENDS SioSocket, TLC

ThreadSymmetry == Permutations(AppThreads)
===============================================================================
