---------------------------- MODULE MCSessionLog ----------------------------
(***************************************************************************)
(* SessionLog for TLC.  Backends are interchangeable: the specification    *)
(* only compares them, so that safety can be checked up to a permutation.  *)
(* The runs that check liveness use SessionLog itself, without symmetry.   *)
(***************************************************************************)
EXTENDS SessionLog, TLC

BackendSymmetry == Permutations(Backends)
=============================================================================
