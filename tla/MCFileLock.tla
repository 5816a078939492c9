------------------------------ MODULE MCFileLock ------------------------------
(* FileLock with three processes for safety and two for liveness. *)
EXTENDS FileLock, TLC

CONSTANTS p1, p2, p3

ThreeProcs == {p1, p2, p3}
TwoProcs == {p1, p2}

\* The processes are interchangeable: no definition names one.
Symmetry == Permutations(ThreeProcs)
=============================================================================
