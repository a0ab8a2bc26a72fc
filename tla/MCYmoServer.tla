---------------------------- MODULE MCYmoServer ----------------------------
(* TLC instances of YmoServer: connections are interchangeable. *)
EXTENDS YmoServer, TLC

Symmetry == Permutations(Conns)
=============================================================================
