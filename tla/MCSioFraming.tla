------------------------------ MODULE MCSioFraming ------------------------------
(***************************************************************************)
(* SioFraming for TLC: application threads that are interchangeable, and   *)
(* messages with no attachment, with one, after a text, and with two.      *)
(***************************************************************************)
EXTENDS SioFraming

ThreadSymmetry == Permutations(Threads)

FewKinds == {<<FALSE>>, <<FALSE, TRUE>>, <<TRUE, TRUE>>}
===============================================================================
