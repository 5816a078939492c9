----------------------------- MODULE MCStateStore -----------------------------
(***************************************************************************)
(* StateStore with two directories.  The first has one batch or another:   *)
(* routes with hostnames of its own, or the one the second directory wants *)
(* as well.                                                                *)
(***************************************************************************)
EXTENDS StateStore, TLC

CONSTANTS p1, p2, p3, dA, dB, h1, h2, h3

TwoProcs == {p1, p2}
ThreeProcs == {p1, p2, p3}
TwoDirs == {dA, dB}

Route(d, h) == [dir |-> d, host |-> h]

MCBatches ==
    {{Route(dA, h1), Route(dA, h2)}, {Route(dA, h3)}, {Route(dB, h1)}}

Symmetry == Permutations(TwoProcs)
=============================================================================
