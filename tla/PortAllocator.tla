----------------------------- MODULE PortAllocator -----------------------------
(***************************************************************************)
(* internal/ports/allocator.go: which host port an Allocator hands out,    *)
(* given its used map and the ports another program is bound to at that    *)
(* moment (isPortAvailable binds the port and releases it at once).        *)
(***************************************************************************)
EXTENDS Integers

CONSTANTS MinPort, MaxPort,  \* the range of host ports
          NoPort             \* the error: no port available

ASSUME PortRangeAssumption ==
    /\ MinPort \in Nat /\ MaxPort \in Nat /\ MinPort <= MaxPort
    /\ NoPort \notin MinPort .. MaxPort

Ports == MinPort .. MaxPort
portRange == MaxPort - MinPort + 1

\* The next definition without a look at the used map.
FirstUnbound(probes, used, bound) ==
    LET from[i \in 0 .. portRange] ==
          IF i = portRange THEN NoPort
          ELSE IF probes[i] \in bound THEN from[i + 1]
          ELSE probes[i]
    IN  from[0]

\* The next definition without isPortAvailable.
FirstUnasked(probes, used, bound) ==
    LET from[i \in 0 .. portRange] ==
          IF i = portRange THEN NoPort
          ELSE IF probes[i] \in used THEN from[i + 1]
          ELSE probes[i]
    IN  from[0]

\* The loop of both functions: probes is the port it tries in each turn.
FirstAvailable(probes, used, bound) ==
    LET from[i \in 0 .. portRange] ==
          IF i = portRange THEN NoPort
          ELSE IF probes[i] \in used \/ probes[i] \in bound THEN from[i + 1]
          ELSE probes[i]
    IN  from[0]

Allocate(used, bound) ==
    FirstAvailable([i \in 0 .. portRange - 1 |-> MinPort + i], used, bound)

\* The i-th port tried for a key with this hash.
Probe(hash, i) == MinPort + (((hash % portRange) + i) % portRange)

AllocateDeterministic(hash, used, bound) ==
    FirstAvailable([i \in 0 .. portRange - 1 |-> Probe(hash, i)], used, bound)
=============================================================================
