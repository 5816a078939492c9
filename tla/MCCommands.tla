------------------------------ MODULE MCCommands ------------------------------
(***************************************************************************)
(* Commands in small projects.  dA and dB have the same base name, so that *)
(* their hostnames conflict; dC has an HTTP and a TCP service.             *)
(***************************************************************************)
EXTENDS Commands, TLC

CONSTANTS p1, p2, dA, dB, dC, o1, o2, o3

Service(name, host, hash) == [name |-> name, host |-> host, hash |-> hash]

MCServicesOf ==
    (dA :> <<Service("web", "web.app", HTTP)>>) @@
    (dB :> <<Service("web", "web.app", HTTP)>>) @@
    (dC :> <<Service("db", "db.shop", 1), Service("web", "web.shop", HTTP)>>)

TwoProcs == {p1, p2}
OneProc == {p1}
RivalDirs == {dA, dB}
ApartDirs == {dA, dC}

TwoOverrides == {o1, o2}
ThreeOverrides == {o1, o2, o3}

AllSubs == Subs
UpSubs == {"up -d", "down"}

ConcurrentNoted == {"unregister"}

Symmetry == Permutations(TwoProcs) \cup Permutations(TwoOverrides)
OverrideSymmetry == Permutations(ThreeOverrides)
=============================================================================
