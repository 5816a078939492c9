---------------------------- MODULE CommandsProofs ----------------------------
(***************************************************************************)
(* What the commands of internal/cli guarantee for every set of processes, *)
(* directories and services, however they interleave, fail and die.        *)
(***************************************************************************)
EXTENDS Commands, RoutesProofs, FiniteSetsExt, WellFoundedInduction

-------------------------------------------------------------------------------
(* What the two loops of allocator.go return, for every range, used map and *)
(* set of bound ports.                                                      *)

\* Min is the smallest element, and there is one.
LEMMA MinOfNaturals ==
    ASSUME NEW S \in SUBSET Nat, S # {}
    PROVE  Min(S) \in S /\ \A y \in S : Min(S) <= y
<1>1. PICK x \in S : \A y \in S : <<y, x>> \notin OpToRel(<, Nat)
  BY NatLessThanWellFounded, WFMin
<1>2. \A y \in S : x <= y
  <2>. TAKE y \in S
  <2>1. <<y, x>> \in Nat \X Nat
    OBVIOUS
  <2>2. ~(y < x)
    BY <1>1, <2>1, Zenon DEF OpToRel
  <2>. QED
    BY <2>2, SMT
<1>. QED
  BY <1>2, Zenon DEF Min

LoopTurn(f, probes, taken, bound) ==
    f = [i \in 0 .. portRange |->
           IF i = portRange THEN NoPort
           ELSE IF probes[i] \in taken \/ probes[i] \in bound THEN f[i + 1]
           ELSE probes[i]]

Turns == 0 .. portRange - 1
Free(probes, taken, bound) == {i \in Turns : ~(probes[i] \in taken \/ probes[i] \in bound)}

LEMMA SomeTurns == portRange \in Nat \ {0} /\ Turns \subseteq 0 .. portRange
  BY PortRangeAssumption, SMT DEF portRange, Turns

(***************************************************************************)
(* The loop has a value: the first free port from each turn on.            *)
(***************************************************************************)
LEMMA LoopEnds ==
    ASSUME NEW probes, NEW taken, NEW bound
    PROVE  \E f : LoopTurn(f, probes, taken, bound)
<1>. DEFINE later(i) == {k \in Free(probes, taken, bound) : i <= k}
            f == [i \in 0 .. portRange |->
                    IF later(i) = {} THEN NoPort ELSE probes[Min(later(i))]]
<1>1. ASSUME NEW i \in 0 .. portRange
      PROVE  f[i] = IF i = portRange THEN NoPort
                    ELSE IF probes[i] \in taken \/ probes[i] \in bound THEN f[i + 1]
                    ELSE probes[i]
  <2>1. f[i] = IF later(i) = {} THEN NoPort ELSE probes[Min(later(i))]
    OBVIOUS
  <2>2. CASE i = portRange
    <3>1. later(i) = {}
      BY <2>2, SomeTurns, SMT DEF Free, Turns
    <3>. QED
      BY <2>1, <2>2, <3>1
  <2>3. CASE i # portRange /\ i \in Free(probes, taken, bound)
    <3>1. later(i) \in SUBSET Nat /\ i \in later(i)
      BY <2>3, SomeTurns, SMT DEF Free, Turns
    <3>2. Min(later(i)) \in later(i) /\ Min(later(i)) <= i
      <4>. HIDE DEF later
      <4>. QED
        BY <3>1, MinOfNaturals
    <3>3. Min(later(i)) = i
      <4>1. Min(later(i)) \in Nat /\ i <= Min(later(i)) /\ i \in Nat
        BY <3>1, <3>2
      <4>. QED
        BY <3>2, <4>1, SMT
    <3>. QED
      BY <2>1, <2>3, <3>1, <3>3 DEF Free
  <2>4. CASE i # portRange /\ i \notin Free(probes, taken, bound)
    <3>1. i \in Turns /\ i + 1 \in 0 .. portRange
      BY <2>4, SomeTurns, SMT DEF Turns
    <3>2. later(i) = later(i + 1)
      <4>1. \A k \in Turns : k # i => (i <= k <=> i + 1 <= k)
        BY <3>1, SomeTurns, SMT DEF Turns
      <4>. QED
        BY <2>4, <4>1 DEF Free
    <3>3. f[i + 1] = IF later(i + 1) = {} THEN NoPort ELSE probes[Min(later(i + 1))]
      BY <3>1
    <3>4. probes[i] \in taken \/ probes[i] \in bound
      BY <2>4, <3>1 DEF Free
    <3>. HIDE DEF f, later
    <3>. QED
      BY <2>1, <2>4, <3>2, <3>3, <3>4
  <2>. QED
    BY <2>2, <2>3, <2>4
<1>2. LoopTurn(f, probes, taken, bound)
  <2>1. f = [i \in 0 .. portRange |-> f[i]]
    OBVIOUS
  <2>. HIDE DEF f
  <2>. QED
    BY <1>1, <2>1 DEF LoopTurn
<1>. QED
  BY <1>2

(***************************************************************************)
(* What the loop returns is the port of its first free turn.               *)
(***************************************************************************)
LEMMA FirstAvailableIsFirst ==
    ASSUME NEW probes, NEW taken, NEW bound
    PROVE  LET free == Free(probes, taken, bound) IN
           FirstAvailable(probes, taken, bound) = IF free = {} THEN NoPort ELSE probes[Min(free)]
<1>. DEFINE f == CHOOSE f : LoopTurn(f, probes, taken, bound)
            free == Free(probes, taken, bound)
<1>1. FirstAvailable(probes, taken, bound) = f[0]
  BY Zenon DEF FirstAvailable, LoopTurn
<1>2. LoopTurn(f, probes, taken, bound)
  BY LoopEnds
<1>. HIDE DEF f
<1>3. ASSUME NEW last \in 0 .. portRange, \A k \in free : last <= k PROVE f[last] = f[0]
  <2>. DEFINE other == {i \in 0 .. last : f[i] # f[0]}
  <2>. SUFFICES ASSUME other # {} PROVE FALSE
    BY SomeTurns, SMT
  <2>1. Min(other) \in other /\ \A i \in other : Min(other) <= i
    <3>1. other \in SUBSET Nat
      BY SomeTurns, SMT
    <3>. HIDE DEF other
    <3>. QED
      BY <3>1, MinOfNaturals
  <2>2. PICK m \in 0 .. last : m = Min(other) /\ f[m] # f[0]
    BY <2>1, Zenon
  <2>3. m \in 1 .. last
    BY <2>2, SomeTurns, SMT
  <2>4. m - 1 \in Turns /\ m - 1 \in 0 .. last /\ m - 1 \in 0 .. portRange /\ m - 1 # portRange
        /\ ~(m <= m - 1) /\ ~(last <= m - 1)
    BY <2>3, SomeTurns, SMT DEF Turns
  <2>5. f[m - 1] = f[0]
    BY <2>1, <2>2, <2>4, Zenon
  <2>6. m - 1 \notin free
    BY <1>3, <2>4, Zenon
  <2>7. probes[m - 1] \in taken \/ probes[m - 1] \in bound
    BY <2>4, <2>6, Zenon DEF Free
  <2>8. f[m - 1] = f[(m - 1) + 1]
    BY <1>2, <2>4, <2>7, Zenon DEF LoopTurn
  <2>9. (m - 1) + 1 = m
    BY <2>3, SomeTurns, SMT
  <2>. QED
    BY <2>2, <2>5, <2>8, <2>9, Zenon
<1>4. CASE free = {}
  <2>1. portRange \in 0 .. portRange
    BY SomeTurns, SMT
  <2>2. f[portRange] = NoPort
    BY <1>2, <2>1, Zenon DEF LoopTurn
  <2>3. f[portRange] = f[0]
    BY <1>3, <1>4, <2>1, Zenon
  <2>. QED
    BY <1>1, <1>4, <2>2, <2>3, Zenon
<1>5. CASE free # {}
  <2>1. free \in SUBSET Nat
    BY SomeTurns, SMT DEF Free, Turns
  <2>2. Min(free) \in free /\ \A k \in free : Min(free) <= k
    <3>. HIDE DEF free
    <3>. QED
      BY <1>5, <2>1, MinOfNaturals
  <2>3. Min(free) \in 0 .. portRange /\ Min(free) # portRange
    BY <2>2, SomeTurns, SMT DEF Free, Turns
  <2>4. ~(probes[Min(free)] \in taken \/ probes[Min(free)] \in bound)
    BY <2>2, Zenon DEF Free
  <2>5. f[Min(free)] = probes[Min(free)]
    BY <1>2, <2>3, <2>4, Zenon DEF LoopTurn
  <2>6. f[Min(free)] = f[0]
    BY <1>3, <2>2, <2>3, Zenon
  <2>. QED
    BY <1>1, <1>5, <2>5, <2>6, Zenon
<1>. QED
  BY <1>4, <1>5

\* Every port of the range is tried for every key: the probes wrap around.
LEMMA ProbesCoverRange ==
    ASSUME NEW hash \in Nat, NEW port \in Ports
    PROVE  \E i \in 0 .. portRange - 1 : Probe(hash, i) = port
<1>. DEFINE start == hash % portRange
            ahead == port - MinPort - start
<1>1. /\ portRange \in Nat \ {0} /\ MinPort \in Nat /\ port \in Nat
      /\ port - MinPort \in 0 .. portRange - 1
  BY PortRangeAssumption, SMT DEF portRange, Ports
<1>2. start \in 0 .. portRange - 1
  BY <1>1, SMT
<1>. HIDE DEF start
<1>3. CASE ahead >= 0
  <2>1. ahead \in 0 .. portRange - 1 /\ start + ahead = port - MinPort
    BY <1>1, <1>2, <1>3, SMT
  <2>2. (start + ahead) % portRange = port - MinPort
    BY <1>1, <2>1, SMT
  <2>3. Probe(hash, ahead) = MinPort + (port - MinPort)
    BY <2>2 DEF Probe, start
  <2>. QED
    BY <1>1, <2>1, <2>3, SMT
<1>4. CASE ahead < 0
  <2>1. ahead + portRange \in 0 .. portRange - 1
    BY <1>1, <1>2, <1>4, SMT
  <2>2. start + (ahead + portRange) = (port - MinPort) + portRange
    BY <1>1, <1>2, SMT
  <2>3. ((port - MinPort) + portRange) % portRange = port - MinPort
    BY <1>1, SMT
  <2>4. Probe(hash, ahead + portRange) = MinPort + (port - MinPort)
    BY <2>2, <2>3 DEF Probe, start
  <2>. QED
    BY <1>1, <2>1, <2>4, SMT
<1>. QED
  BY <1>1, <1>2, <1>3, <1>4, SMT

\* The ports that are neither used nor bound.
Available(taken, bound) == {port \in Ports : port \notin taken /\ port \notin bound}

LEMMA AvailablePorts ==
    ASSUME NEW taken, NEW bound
    PROVE  /\ Available(taken, bound) \in SUBSET Nat
           /\ Available(taken, bound) \in SUBSET Ports
           /\ NoPort \notin Available(taken, bound)
BY PortRangeAssumption DEF Available, Ports

\* If the loop tries every port and no other, it finds one that is available.
LEMMA LoopFindsAvailable ==
    ASSUME NEW probes, NEW taken, NEW bound,
           \A i \in Turns : probes[i] \in Ports,
           \A port \in Ports : \E i \in Turns : probes[i] = port
    PROVE  LET free == Free(probes, taken, bound)
               port == FirstAvailable(probes, taken, bound) IN
           /\ port = NoPort <=> Available(taken, bound) = {}
           /\ Available(taken, bound) # {} =>
                /\ port \in Available(taken, bound)
                /\ port = probes[Min(free)] /\ Min(free) \in free
                /\ \A i \in free : Min(free) <= i
<1>. DEFINE free == Free(probes, taken, bound)
            port == FirstAvailable(probes, taken, bound)
<1>1. port = IF free = {} THEN NoPort ELSE probes[Min(free)]
  BY FirstAvailableIsFirst
<1>2. free \in SUBSET Nat
  BY SomeTurns, SMT DEF Free, Turns
<1>3. \A i \in free : probes[i] \in Available(taken, bound)
  BY DEF Free, Available
<1>4. Available(taken, bound) # {} => free # {}
  BY DEF Free, Available
<1>5. free # {} => Min(free) \in free /\ \A i \in free : Min(free) <= i
  BY <1>2, MinOfNaturals
<1>. HIDE DEF free, port
<1>6. free # {} => port \in Available(taken, bound) /\ port = probes[Min(free)]
  BY <1>1, <1>3, <1>5
<1>. QED
  BY <1>1, <1>4, <1>5, <1>6, AvailablePorts DEF free, port

(***************************************************************************)
(* The loop of Allocate (allocator.go:32-43) returns the smallest port     *)
(* that is neither used nor bound, and fails only when there is none.      *)
(***************************************************************************)
THEOREM AllocateCorrect ==
    ASSUME NEW taken, NEW bound
    PROVE  LET port == Allocate(taken, bound) IN
           /\ port = NoPort <=> Available(taken, bound) = {}
           /\ Available(taken, bound) # {} =>
                /\ port \in Available(taken, bound)
                /\ \A other \in Available(taken, bound) : port <= other
<1>. DEFINE probes == [i \in 0 .. portRange - 1 |-> MinPort + i]
            free == Free(probes, taken, bound)
            port == Allocate(taken, bound)
<1>1. \A i \in Turns : probes[i] = MinPort + i
  BY DEF Turns
<1>2. port = FirstAvailable(probes, taken, bound)
  BY DEF Allocate
<1>. HIDE DEF probes, port
<1>3. \A i \in Turns : probes[i] \in Ports
  BY <1>1, PortRangeAssumption, SMT DEF Turns, Ports, portRange
<1>4. ASSUME NEW other \in Ports
      PROVE  other - MinPort \in Turns /\ probes[other - MinPort] = other
  <2>1. other - MinPort \in Turns /\ MinPort + (other - MinPort) = other
    BY PortRangeAssumption, SMT DEF Turns, Ports, portRange
  <2>. QED
    BY <1>1, <2>1
<1>5. /\ port = NoPort <=> Available(taken, bound) = {}
      /\ Available(taken, bound) # {} =>
           /\ port \in Available(taken, bound)
           /\ port = probes[Min(free)] /\ Min(free) \in free
           /\ \A i \in free : Min(free) <= i
  BY <1>2, <1>3, <1>4, LoopFindsAvailable
<1>6. ASSUME NEW other \in Available(taken, bound) PROVE port <= other
  <2>1. other \in Ports /\ other - MinPort \in free
    BY <1>4, <1>6 DEF Available, Free
  <2>2. Min(free) \in Turns /\ Min(free) <= other - MinPort
    BY <1>5, <1>6, <2>1 DEF Free
  <2>3. port = MinPort + Min(free)
    BY <1>1, <1>5, <1>6, <2>2
  <2>. QED
    BY <2>1, <2>2, <2>3, PortRangeAssumption, SMT DEF Ports, Turns, portRange
<1>. QED
  BY <1>5, <1>6 DEF port

(***************************************************************************)
(* The loop of AllocateDeterministic (allocator.go:48-67) returns a port   *)
(* that is neither used nor bound, fails only when there is none, and      *)
(* gives a key its own port whenever that one is available (the comment at *)
(* allocator.go:46).                                                       *)
(***************************************************************************)
THEOREM AllocateDeterministicCorrect ==
    ASSUME NEW hash \in Nat, NEW taken, NEW bound
    PROVE  LET port == AllocateDeterministic(hash, taken, bound) IN
           /\ port = NoPort <=> Available(taken, bound) = {}
           /\ port # NoPort => port \in Available(taken, bound)
           /\ Probe(hash, 0) \in Available(taken, bound) => port = Probe(hash, 0)
<1>. DEFINE probes == [i \in 0 .. portRange - 1 |-> Probe(hash, i)]
            free == Free(probes, taken, bound)
            port == AllocateDeterministic(hash, taken, bound)
<1>1. \A i \in Turns : probes[i] = Probe(hash, i)
  BY DEF Turns
<1>2. port = FirstAvailable(probes, taken, bound)
  BY DEF AllocateDeterministic
<1>. HIDE DEF probes, port
<1>3. \A i \in Turns : probes[i] \in Ports
  <2>1. \A i \in Turns : Probe(hash, i) \in Ports
    BY PortRangeAssumption, SMT DEF Probe, Turns, Ports, portRange
  <2>. QED
    BY <1>1, <2>1
<1>4. \A other \in Ports : \E i \in Turns : probes[i] = other
  BY <1>1, ProbesCoverRange DEF Turns
<1>5. /\ port = NoPort <=> Available(taken, bound) = {}
      /\ Available(taken, bound) # {} =>
           /\ port \in Available(taken, bound)
           /\ port = probes[Min(free)] /\ Min(free) \in free
           /\ \A i \in free : Min(free) <= i
  BY <1>2, <1>3, <1>4, LoopFindsAvailable
<1>6. ASSUME Probe(hash, 0) \in Available(taken, bound) PROVE port = Probe(hash, 0)
  <2>1. 0 \in Turns
    BY SomeTurns, SMT DEF Turns
  <2>2. 0 \in free
    BY <1>1, <1>6, <2>1 DEF Free, Available
  <2>3. Min(free) \in Turns /\ Min(free) <= 0
    BY <1>5, <1>6, <2>2 DEF Free
  <2>4. Min(free) = 0
    BY <2>3, SomeTurns, SMT DEF Turns
  <2>. QED
    BY <1>1, <1>5, <1>6, <2>1, <2>4
<1>. QED
  BY <1>5, <1>6 DEF port

-------------------------------------------------------------------------------
(* The commands *)

LEMMA RegisteredWithin ==
    ASSUME NEW rs, NEW new
    PROVE  Registered(rs, new) \subseteq rs \cup new
  BY DEF Registered

LEMMA UnregisteredWithin ==
    ASSUME NEW rs, NEW d
    PROVE  Unregistered(rs, d) \subseteq rs
  BY DEF Unregistered

(***************************************************************************)
(* What Prepare builds has its type.                                       *)
(***************************************************************************)
LEMMA PreparedType ==
    ASSUME NEW d \in Dirs, NEW o \in OverrideIds,
           NEW ports \in [DOMAIN ServicesOf[d] -> Ports]
    PROVE  /\ NewRoutes(d, ports, o) \subseteq Route
           /\ NewOverride(d, ports, o) \in File
<1>1. ASSUME NEW i \in DOMAIN ServicesOf[d]
      PROVE  /\ ServicesOf[d][i].name \in ServiceNames
             /\ ServicesOf[d][i].host \in Hosts
             /\ ports[i] \in Ports
  <2>1. ServicesOf[d][i] \in Services(d)
    BY DEF Services
  <2>2. ServicesOf[d][i].name \in {s.name : s \in Services(d)}
    BY <2>1
  <2>3. ServicesOf[d][i].host \in {s.host : s \in Services(d)}
    BY <2>1
  <2> QED
    BY <2>2, <2>3 DEF ServiceNames, Hosts
<1> QED
  BY <1>1 DEF NewRoutes, NewOverride, Route, File

LEMMA PublishedType ==
    ASSUME NEW f \in File
    PROVE  Published(f) \subseteq Container
  BY DEF Published, File, Container

\* What a failing docker compose leaves was there or is of the override.
LEMMA FailureLeaves ==
    ASSUME NEW p \in Procs, ComposeFails(p)
    PROVE  /\ Note("docker")
           /\ \A c \in containers' :
                 \/ c \in containers
                 \/ \E f \in files : f.id = override[p] /\ c \in Published(f)
<1>. DEFINE own == ContainersOf(cmd[p].dir)
            new == IF cmd[p].sub = "down" THEN {}
                   ELSE UNION {Published(f) : f \in {g \in files : g.id = override[p]}}
<1>1. PICK left \in SUBSET (own \cup new) : containers' = (containers \ own) \cup left
  BY Zenon DEF ComposeFails
<1>2. \A c \in new : \E f \in files : f.id = override[p] /\ c \in Published(f)
  OBVIOUS
<1>3. own \subseteq containers
  BY DEF ContainersOf
<1>. HIDE DEF own, new
<1>. QED
  BY <1>1, <1>2, <1>3 DEF ComposeFails

LEMMA ComposeType ==
    ASSUME NEW p \in Procs, NEW f \in File, containers \subseteq Container, files \subseteq File,
           ComposeUp(p, f) \/ ComposeDown(p) \/ ComposeFails(p)
    PROVE  containers' \subseteq Container
<1>1. CASE ComposeUp(p, f) \/ ComposeDown(p)
  BY <1>1, PublishedType DEF ComposeUp, ComposeDown, ContainersOf
<1>2. CASE ComposeFails(p)
  BY <1>2, FailureLeaves, PublishedType
<1>. QED
  BY <1>1, <1>2

LEMMA NoteType ==
    ASSUME mishaps \subseteq Noted, NEW m, Note(m)
    PROVE  mishaps' \subseteq Noted /\ mishaps \subseteq mishaps'
  BY DEF Note

LEMMA ExitType ==
    ASSUME LocalsOK, NEW p \in Procs, Exit(p)
    PROVE  LocalsOK'
  BY DEF LocalsOK, Exit, Goto, PC

LEMMA GotoType ==
    ASSUME LocalsOK, NEW p \in Procs, pc[p] # "idle", NEW l \in PC \ {"idle", "register"},
           doomed[p] = {} \/ l \in {"discard", "removeOverride"},
           Goto(p, l), UNCHANGED <<cmd, used, batch, override, doomed>>
    PROVE  LocalsOK'
  BY DEF LocalsOK, Goto

LEMMA AfterExecType ==
    ASSUME LocalsOK, NEW p \in Procs, pc[p] \in {"exec", "attached"}, AfterExec(p)
    PROVE  LocalsOK'
<1>1. CASE Exit(p)
  BY <1>1, ExitType
<1>2. CASE Goto(p, "unregister") /\ UNCHANGED <<cmd, used, batch, override, doomed>>
  <2>1. doomed[p] = {} /\ pc[p] # "idle"
    BY DEF LocalsOK
  <2> QED
    BY <1>2, <2>1, GotoType DEF PC
<1> QED
  BY <1>1, <1>2 DEF AfterExec

LEMMA TypeOKInductive ==
    /\ Init => TypeOK
    /\ TypeOK /\ [Next]_vars => TypeOK'
<1>1. Init => TypeOK
  BY DEF Init, TypeOK, LocalsOK, PC
<1>2. ASSUME TypeOK, [Next]_vars PROVE TypeOK'
  <2> USE <1>2
  <2>1. ASSUME NEW p \in Procs, Begin(p) PROVE TypeOK'
    <3>1. PICK c \in Command :
             /\ cmd' = [cmd EXCEPT ![p] = c]
             /\ \E l \in PC \ {"idle", "register"} : Goto(p, l)
      BY <2>1 DEF Begin, Command, PC
    <3>2. pc[p] = "idle" /\ UNCHANGED <<shared, used, batch, override, doomed, mishaps>>
      BY <2>1 DEF Begin
    <3> QED
      BY <3>1, <3>2 DEF TypeOK, LocalsOK, Goto, shared
  <2>2. ASSUME NEW p \in Procs, GetRoutes(p) PROVE TypeOK'
    <3>1. PICK l \in PC \ {"idle", "register"} : Goto(p, l)
      BY <2>2 DEF GetRoutes, PC
    <3>2. /\ pc[p] = "getRoutes"
          /\ UNCHANGED <<shared, cmd, used, batch, doomed, mishaps>>
      BY <2>2 DEF GetRoutes
    <3>3. ASSUME NEW rs \in SUBSET routes, rs # {}
          PROVE  (CHOOSE o \in OverridesOf(rs) : TRUE) \in OverrideIds
      <4>1. OverridesOf(rs) # {} /\ OverridesOf(rs) \subseteq OverrideIds
        BY <3>3 DEF OverridesOf, TypeOK, Route
      <4> QED
        BY <4>1
    <3>4. \E o \in OverrideIds \cup {None} : override' = [override EXCEPT ![p] = o]
      <4>1. CASE UNCHANGED override
        BY <4>1 DEF TypeOK, LocalsOK
      <4>2. CASE ~UNCHANGED override
        BY <2>2, <3>3, <4>2 DEF GetRoutes, RoutesOf
      <4> QED
        BY <4>1, <4>2
    <3> QED
      BY <3>1, <3>2, <3>4 DEF TypeOK, LocalsOK, Goto, shared
  <2>3. ASSUME NEW p \in Procs, GetUsedPorts(p) PROVE TypeOK'
    BY <2>3 DEF GetUsedPorts, TypeOK, LocalsOK, Goto, PC, shared, Route, UsedPorts
  <2>4. ASSUME NEW p \in Procs, Prepare(p) PROVE TypeOK'
    <3>1. cmd[p].dir \in Dirs
      BY <2>4 DEF Prepare, TypeOK, LocalsOK, Command
    <3> QED
      <4>1. PICK o \in OverrideIds, new \in SUBSET Route, f \in File :
               /\ batch' = [batch EXCEPT ![p] = new]
               /\ override' = [override EXCEPT ![p] = o]
               /\ files' = files \cup {f}
        BY <2>4, <3>1, PreparedType DEF Prepare, FreshOverrides
      <4>2. /\ pc[p] = "prepare"
            /\ used' = [used EXCEPT ![p] = {}]
            /\ Goto(p, "register")
            /\ UNCHANGED <<routes, containers, cmd, doomed, mishaps>>
        BY <2>4 DEF Prepare
      <4> QED
        BY <4>1, <4>2, CommandsAssumption DEF TypeOK, LocalsOK, Goto, PC
  <2>5. ASSUME NEW p \in Procs, Register(p) PROVE TypeOK'
    <3>1. routes' \subseteq Route
      BY <2>5, RegisteredWithin DEF Register, TypeOK, LocalsOK
    <3>2. /\ pc[p] = "register" /\ override[p] \in OverrideIds
          /\ batch' = [batch EXCEPT ![p] = {}]
          /\ UNCHANGED <<files, containers, cmd, used, override, mishaps>>
      BY <2>5 DEF Register, TypeOK, LocalsOK
    <3>3. \/ Goto(p, "discard") /\ doomed' = [doomed EXCEPT ![p] = {override[p]}]
          \/ Goto(p, "ensureRunning") /\ UNCHANGED doomed
      BY <2>5 DEF Register
    <3> QED
      BY <3>1, <3>2, <3>3 DEF TypeOK, LocalsOK, Goto, PC
  <2>6. ASSUME NEW p \in Procs, EnsureRunning(p) PROVE TypeOK'
    BY <2>6, ExitType DEF EnsureRunning, TypeOK, LocalsOK, Goto, PC, shared
  <2>7. ASSUME NEW p \in Procs, Exec(p) PROVE TypeOK'
    <3>1. containers' \subseteq Container /\ mishaps' \subseteq Noted
      <4>1. CASE ComposeFails(p)
        <5>1. containers' \subseteq Container
          BY <4>1, FailureLeaves, PublishedType DEF TypeOK
        <5>. QED
          BY <4>1, <5>1, FailureLeaves, NoteType DEF TypeOK
      <4>2. CASE ~ComposeFails(p)
        BY <2>7, <4>2, ComposeType DEF Exec, TypeOK, ComposeUp, ComposeDown
      <4>. QED
        BY <4>1, <4>2
    <3>2. LocalsOK'
      <4>1. CASE AfterExec(p)
        BY <2>7, <4>1, AfterExecType DEF Exec, TypeOK
      <4>2. CASE Goto(p, "attached") /\ UNCHANGED <<cmd, used, batch, override, doomed>>
        <5>1. doomed[p] = {} /\ pc[p] # "idle"
          BY <2>7 DEF Exec, TypeOK, LocalsOK
        <5> QED
          BY <4>2, <5>1, GotoType DEF TypeOK, PC
      <4> QED
        BY <2>7, <4>1, <4>2 DEF Exec
    <3> QED
      BY <2>7, <3>1, <3>2 DEF Exec, TypeOK
  <2>8. ASSUME NEW p \in Procs, Detach(p) PROVE TypeOK'
    <3>1. containers' \subseteq Container /\ mishaps' \subseteq Noted
      <4>1. CASE ComposeDown(p)
        BY <4>1 DEF ComposeDown, TypeOK
      <4>2. CASE ComposeFails(p)
        <5>1. containers' \subseteq Container
          BY <4>2, FailureLeaves, PublishedType DEF TypeOK
        <5>. QED
          BY <4>2, <5>1, FailureLeaves, NoteType DEF TypeOK
      <4> QED
        BY <2>8, <4>1, <4>2 DEF Detach
    <3>2. LocalsOK'
      BY <2>8, AfterExecType DEF Detach, TypeOK
    <3> QED
      BY <2>8, <3>1, <3>2 DEF Detach, TypeOK
  <2>9. ASSUME NEW p \in Procs, Unregister(p) PROVE TypeOK'
    BY <2>9, UnregisteredWithin, NoteType DEF Unregister, TypeOK, LocalsOK, Goto, PC
  <2>10. ASSUME NEW p \in Procs, UnregisterAll(p) PROVE TypeOK'
    <3>1. OverridesOf(routes) \subseteq OverrideIds
      BY DEF TypeOK, OverridesOf, Route
    <3> QED
      BY <2>10, <3>1, NoteType DEF UnregisterAll, TypeOK, LocalsOK, Goto, PC
  <2>11. ASSUME NEW p \in Procs, RemoveOverride(p) PROVE TypeOK'
    BY <2>11, NoteType DEF RemoveOverride, TypeOK, LocalsOK
  <2>12. ASSUME NEW p \in Procs, OverridesRemoved(p) PROVE TypeOK'
    BY <2>12, ExitType DEF OverridesRemoved, TypeOK, LocalsOK, Goto, PC, shared
  <2>13. ASSUME NEW p \in Procs, StopProxy(p) PROVE TypeOK'
    BY <2>13, ExitType DEF StopProxy, TypeOK, shared
  <2>14. ASSUME NEW p \in Procs, Fail(p) PROVE TypeOK'
    <3>1. CASE Exit(p)
      BY <2>14, <3>1, ExitType DEF Fail, TypeOK, shared
    <3>2. CASE ~Exit(p)
      <4>1. /\ pc[p] = "register" /\ override[p] \in OverrideIds
            /\ Goto(p, "discard")
            /\ doomed' = [doomed EXCEPT ![p] = {override[p]}]
            /\ batch' = [batch EXCEPT ![p] = {}]
            /\ UNCHANGED <<shared, cmd, used, override, mishaps>>
        BY <2>14, <3>2 DEF Fail, TypeOK, LocalsOK
      <4> QED
        BY <4>1 DEF TypeOK, LocalsOK, Goto, PC, shared
    <3> QED
      BY <3>1, <3>2
  <2>15. ASSUME NEW p \in Procs, Crash(p) PROVE TypeOK'
    BY <2>15, ExitType, NoteType DEF Crash, TypeOK, shared
  <2>16. CASE UNCHANGED vars
    BY <2>16 DEF vars, shared, locals, TypeOK, LocalsOK
  <2> QED
    BY <2>1, <2>2, <2>3, <2>4, <2>5, <2>6, <2>7, <2>8, <2>9, <2>10, <2>11, <2>12,
       <2>13, <2>14, <2>15, <2>16 DEF Next
<1> QED
  BY <1>1, <1>2

(***************************************************************************)
(* Commands and the state they share keep their types, whatever is         *)
(* interleaved, fails or dies; a command that has returned                 *)
(* (passthrough.go:254-263) has no locals left.                            *)
(***************************************************************************)
THEOREM TypeCorrect == Spec => []TypeOK
  BY TypeOKInductive, PTL DEF Spec

-------------------------------------------------------------------------------
(* Whose the override files are *)

(***************************************************************************)
(* A path is of one directory, wherever it is found: in routes, in a       *)
(* command's overridePath or as a file.                                    *)
(***************************************************************************)
PathsAtHome ==
    /\ \A r, s \in routes : r.override = s.override => r.dir = s.dir
    /\ \A r \in routes, f \in files : f.id = r.override => f.dir = r.dir
    /\ OverrideOfOwnProject
    /\ \A p \in Procs, r \in routes : r.override = override[p] => r.dir = cmd[p].dir

(***************************************************************************)
(* Between GenerateOverride and RegisterRoutes nobody else knows the path. *)
(***************************************************************************)
Unpublished(p) ==
    /\ override[p] \notin OverridesOf(routes)
    /\ \A q \in Procs : override[p] \notin doomed[q] /\ (q # p => override[q] # override[p])
    /\ \A r \in batch[p] : r.dir = cmd[p].dir /\ r.override = override[p]

PathsInv ==
    /\ PathsAtHome
    /\ \A p \in Procs : pc[p] = "register" => Unpublished(p)

(***************************************************************************)
(* All actions but Prepare and Register only take paths from where they    *)
(* are known already.                                                      *)
(***************************************************************************)
BringsNoPath(p) ==
    /\ routes' \subseteq routes /\ files' \subseteq files
    /\ \A q \in Procs \ {p} :
          /\ pc'[q] = pc[q] /\ cmd'[q] = cmd[q] /\ batch'[q] = batch[q]
          /\ override'[q] = override[q] /\ doomed'[q] = doomed[q]
    /\ pc'[p] # "register"
    /\ \/ override'[p] = None
       \/ override'[p] = override[p] /\ cmd'[p] = cmd[p]
       \/ override'[p] \in OverridesOf(RoutesOf(routes, cmd[p].dir)) /\ cmd'[p] = cmd[p]
    /\ doomed'[p] \subseteq doomed[p] \cup {override[p]} \cup OverridesOf(routes)

LEMMA NoPathBrought ==
    ASSUME TypeOK, TypeOK', PathsInv, NEW p \in Procs, BringsNoPath(p)
    PROVE  PathsInv'
<1>1. ASSUME NEW q \in Procs, NEW f \in files', f.id = override'[q]
      PROVE  f.dir = cmd'[q].dir
  <2>1. f.id # None
    BY <1>1, CommandsAssumption DEF TypeOK, File
  <2> QED
    BY <1>1, <2>1
    DEF BringsNoPath, PathsInv, PathsAtHome, OverrideOfOwnProject, OverridesOf, RoutesOf
<1>2. ASSUME NEW q \in Procs, NEW r \in routes', r.override = override'[q]
      PROVE  r.dir = cmd'[q].dir
  <2>1. r.override # None
    BY <1>2, CommandsAssumption DEF TypeOK, Route
  <2> QED
    BY <1>2, <2>1 DEF BringsNoPath, PathsInv, PathsAtHome, OverridesOf, RoutesOf
<1>3. PathsAtHome'
  BY <1>1, <1>2 DEF BringsNoPath, PathsInv, PathsAtHome, OverrideOfOwnProject
<1>4. ASSUME NEW q \in Procs, pc'[q] = "register" PROVE Unpublished(q)'
  <2>1. q # p /\ Unpublished(q) /\ override'[q] = override[q]
    BY <1>4 DEF BringsNoPath, PathsInv
  <2>2. override[q] # None
    BY <1>4, <2>1 DEF BringsNoPath, TypeOK, LocalsOK
  <2>3. OverridesOf(routes') \subseteq OverridesOf(routes)
    BY DEF BringsNoPath, OverridesOf
  <2>4. override'[p] # override[q]
    BY <2>1, <2>2 DEF BringsNoPath, Unpublished, OverridesOf, RoutesOf
  <2>5. override[q] \notin doomed'[p]
    BY <2>1 DEF BringsNoPath, Unpublished
  <2> QED
    BY <2>1, <2>3, <2>4, <2>5 DEF BringsNoPath, Unpublished, OverridesOf
<1> QED
  BY <1>3, <1>4 DEF PathsInv

LEMMA ExitBringsNoPath ==
    ASSUME TypeOK, NEW p \in Procs, Exit(p),
           routes' \subseteq routes, files' \subseteq files
    PROVE  BringsNoPath(p)
  BY DEF TypeOK, LocalsOK, Exit, Goto, BringsNoPath

LEMMA GotoBringsNoPath ==
    ASSUME TypeOK, NEW p \in Procs, NEW l \in PC \ {"register"}, Goto(p, l),
           routes' \subseteq routes, files' \subseteq files,
           UNCHANGED <<cmd, batch, override, doomed>>
    PROVE  BringsNoPath(p)
  BY DEF TypeOK, LocalsOK, Goto, BringsNoPath

LEMMA AfterExecBringsNoPath ==
    ASSUME TypeOK, NEW p \in Procs, AfterExec(p), UNCHANGED <<routes, files>>
    PROVE  BringsNoPath(p)
  BY ExitBringsNoPath, GotoBringsNoPath DEF AfterExec, PC

LEMMA OthersBringNoPath ==
    ASSUME TypeOK, NEW p \in Procs,
           \/ Begin(p) \/ GetRoutes(p) \/ GetUsedPorts(p)
           \/ EnsureRunning(p) \/ Exec(p) \/ Detach(p)
           \/ Unregister(p) \/ UnregisterAll(p) \/ RemoveOverride(p) \/ OverridesRemoved(p)
           \/ StopProxy(p) \/ Fail(p) \/ Crash(p)
    PROVE  BringsNoPath(p)
<1>1. CASE Begin(p)
  <2>1. override[p] = None
    BY <1>1 DEF Begin, TypeOK, LocalsOK
  <2> QED
    BY <1>1, <2>1 DEF Begin, shared, Goto, TypeOK, LocalsOK, BringsNoPath
<1>2. CASE GetRoutes(p)
  <2>1. ASSUME NEW rs, rs # {} PROVE (CHOOSE o \in OverridesOf(rs) : TRUE) \in OverridesOf(rs)
    BY <2>1 DEF OverridesOf
  <2>2. \/ override' = override
        \/ override'[p] \in OverridesOf(RoutesOf(routes, cmd[p].dir))
    BY <1>2, <2>1 DEF GetRoutes, TypeOK, LocalsOK
  <2>3. \A q \in Procs \ {p} : override'[q] = override[q]
    BY <1>2 DEF GetRoutes, TypeOK, LocalsOK
  <2>4. \E l \in PC \ {"register"} : Goto(p, l)
    BY <1>2 DEF GetRoutes, PC
  <2>5. UNCHANGED <<routes, files, cmd, batch, doomed>>
    BY <1>2 DEF GetRoutes, shared
  <2> QED
    BY <2>2, <2>3, <2>4, <2>5 DEF TypeOK, LocalsOK, Goto, BringsNoPath
<1>3. CASE GetUsedPorts(p)
  BY <1>3, GotoBringsNoPath DEF GetUsedPorts, shared, PC
<1>4. CASE EnsureRunning(p)
  BY <1>4, ExitBringsNoPath, GotoBringsNoPath DEF EnsureRunning, shared, PC
<1>5. CASE Exec(p)
  <2>1. UNCHANGED <<routes, files>>
    BY <1>5 DEF Exec
  <2>2. CASE AfterExec(p)
    BY <2>1, <2>2, AfterExecBringsNoPath
  <2>3. CASE Goto(p, "attached") /\ UNCHANGED <<cmd, used, batch, override, doomed>>
    BY <2>1, <2>3, GotoBringsNoPath DEF PC
  <2> QED
    BY <1>5, <2>2, <2>3 DEF Exec
<1>6. CASE Detach(p)
  BY <1>6, AfterExecBringsNoPath DEF Detach
<1>7. CASE Unregister(p)
  BY <1>7, UnregisteredWithin DEF Unregister, Goto, TypeOK, LocalsOK, BringsNoPath
<1>8. CASE UnregisterAll(p)
  BY <1>8 DEF UnregisterAll, Goto, TypeOK, LocalsOK, BringsNoPath
<1>9. CASE RemoveOverride(p)
  BY <1>9 DEF RemoveOverride, TypeOK, LocalsOK, BringsNoPath
<1>10. CASE OverridesRemoved(p)
  BY <1>10, ExitBringsNoPath, GotoBringsNoPath DEF OverridesRemoved, shared, PC
<1>11. CASE StopProxy(p)
  BY <1>11, ExitBringsNoPath DEF StopProxy, shared
<1>12. CASE Fail(p)
  <2>1. CASE Exit(p)
    BY <1>12, <2>1, ExitBringsNoPath DEF Fail, shared
  <2>2. CASE ~Exit(p)
    BY <1>12, <2>2 DEF Fail, shared, Goto, TypeOK, LocalsOK, BringsNoPath
  <2> QED
    BY <2>1, <2>2
<1>13. CASE Crash(p)
  BY <1>13, ExitBringsNoPath DEF Crash, shared
<1> QED
  BY <1>1, <1>2, <1>3, <1>4, <1>5, <1>6, <1>7, <1>8, <1>9, <1>10, <1>11, <1>12, <1>13

\* GenerateOverride: the new file is known to nobody else.
LEMMA PrepareKeepsPaths ==
    ASSUME TypeOK, PathsInv, NEW p \in Procs, Prepare(p)
    PROVE  PathsInv'
<1>. DEFINE d == cmd[p].dir
<1>1. PICK ports \in [DOMAIN ServicesOf[d] -> Ports], o \in FreshOverrides :
         /\ batch' = [batch EXCEPT ![p] = NewRoutes(d, ports, o)]
         /\ override' = [override EXCEPT ![p] = o]
         /\ files' = files \cup {NewOverride(d, ports, o)}
  BY DEF Prepare
<1>2. /\ UNCHANGED <<routes, cmd, doomed>>
      /\ pc' = [pc EXCEPT ![p] = "register"]
  BY DEF Prepare, Goto
<1>3. /\ o \in OverrideIds /\ o \notin FileIds /\ o \notin OverridesOf(routes)
      /\ \A q \in Procs : o \notin doomed[q] /\ o # override[q]
  BY DEF FreshOverrides
<1>4. NewOverride(d, ports, o).id = o /\ NewOverride(d, ports, o).dir = d
  BY DEF NewOverride
<1>5. \A r \in NewRoutes(d, ports, o) : r.dir = d /\ r.override = o
  BY DEF NewRoutes
<1>6. /\ override'[p] = o /\ batch'[p] = NewRoutes(d, ports, o)
      /\ \A q \in Procs \ {p} :
            override'[q] = override[q] /\ batch'[q] = batch[q] /\ pc'[q] = pc[q]
  BY <1>1, <1>2 DEF TypeOK, LocalsOK
<1>. HIDE DEF d
<1>7. PathsAtHome'
  <2>1. \A r \in routes, f \in files' : f.id = r.override => f.dir = r.dir
    BY <1>1, <1>3, <1>4 DEF PathsInv, PathsAtHome, OverridesOf
  <2>2. OverrideOfOwnProject'
    <3>1. ASSUME NEW q \in Procs, NEW f \in files', f.id = override'[q]
          PROVE  f.dir = cmd[q].dir
      <4>1. CASE q = p
        BY <1>1, <1>3, <1>4, <1>6, <3>1, <4>1 DEF FileIds, d
      <4>2. CASE q # p
        BY <1>1, <1>3, <1>4, <1>6, <3>1, <4>2 DEF PathsInv, PathsAtHome, OverrideOfOwnProject
      <4> QED
        BY <4>1, <4>2
    <3> QED
      BY <1>2, <3>1 DEF OverrideOfOwnProject
  <2>3. \A q \in Procs, r \in routes : r.override = override'[q] => r.dir = cmd[q].dir
    BY <1>3, <1>6 DEF PathsInv, PathsAtHome, OverridesOf
  <2> QED
    BY <1>2, <2>1, <2>2, <2>3 DEF PathsInv, PathsAtHome
<1>8. ASSUME NEW q \in Procs, pc'[q] = "register" PROVE Unpublished(q)'
  <2>1. CASE q = p
    BY <1>2, <1>3, <1>5, <1>6, <2>1 DEF Unpublished, OverridesOf, d
  <2>2. CASE q # p
    BY <1>2, <1>3, <1>6, <1>8, <2>2 DEF PathsInv, Unpublished, OverridesOf
  <2> QED
    BY <2>1, <2>2
<1> QED
  BY <1>7, <1>8 DEF PathsInv

\* RegisterRoutes: the path becomes known with its routes, or is given up.
LEMMA RegisterKeepsPaths ==
    ASSUME TypeOK, PathsInv, NEW p \in Procs, Register(p)
    PROVE  PathsInv'
<1>1. /\ UNCHANGED <<files, cmd, override>>
      /\ pc[p] = "register" /\ pc'[p] # "register"
      /\ batch' = [batch EXCEPT ![p] = {}]
      /\ \A q \in Procs \ {p} : pc'[q] = pc[q] /\ doomed'[q] = doomed[q]
      /\ doomed'[p] \subseteq doomed[p] \cup {override[p]}
  BY DEF Register, Goto, TypeOK, LocalsOK
<1>2. routes' \subseteq routes \cup batch[p]
  BY RegisteredWithin DEF Register
<1>3. Unpublished(p)
  BY <1>1 DEF PathsInv
<1>4. \A r \in batch[p] : r.dir = cmd[p].dir /\ r.override = override[p]
  BY <1>3 DEF Unpublished
<1>5. \A r \in routes : r.override # override[p]
  BY <1>3 DEF Unpublished, OverridesOf
<1>6. PathsAtHome'
  <2>1. \A r, s \in routes' : r.override = s.override => r.dir = s.dir
    BY <1>2, <1>4, <1>5 DEF PathsInv, PathsAtHome
  <2>2. \A r \in routes', f \in files : f.id = r.override => f.dir = r.dir
    BY <1>2, <1>4 DEF PathsInv, PathsAtHome, OverrideOfOwnProject
  <2>3. \A q \in Procs, r \in routes' : r.override = override[q] => r.dir = cmd[q].dir
    BY <1>2, <1>3, <1>4 DEF PathsInv, PathsAtHome, Unpublished
  <2> QED
    BY <1>1, <2>1, <2>2, <2>3 DEF PathsInv, PathsAtHome, OverrideOfOwnProject
<1>7. ASSUME NEW q \in Procs, pc'[q] = "register" PROVE Unpublished(q)'
  <2>1. q # p /\ Unpublished(q)
    BY <1>1, <1>7 DEF PathsInv
  <2>2. override[q] \notin OverridesOf(routes')
    BY <1>2, <1>3, <1>4, <2>1 DEF Unpublished, OverridesOf
  <2>3. \A r \in doomed'[p] : r # override[q]
    BY <1>1, <1>3, <2>1 DEF Unpublished
  <2>4. batch'[q] = batch[q]
    BY <1>1, <2>1 DEF TypeOK, LocalsOK
  <2> QED
    BY <1>1, <2>1, <2>2, <2>3, <2>4 DEF Unpublished, OverridesOf
<1> QED
  BY <1>6, <1>7 DEF PathsInv

LEMMA PathsInvInductive ==
    /\ Init => PathsInv
    /\ TypeOK /\ PathsInv /\ [Next]_vars => PathsInv'
<1>1. Init => PathsInv
  BY DEF Init, PathsInv, PathsAtHome, OverrideOfOwnProject
<1>2. ASSUME TypeOK, PathsInv, [Next]_vars PROVE PathsInv'
  <2>1. TypeOK'
    BY <1>2, TypeOKInductive
  <2>2. CASE UNCHANGED vars
    BY <1>2, <2>2
    DEF vars, shared, locals, PathsInv, PathsAtHome, OverrideOfOwnProject, Unpublished, OverridesOf
  <2>3. ASSUME NEW p \in Procs, Prepare(p) PROVE PathsInv'
    BY <1>2, <2>3, PrepareKeepsPaths
  <2>4. ASSUME NEW p \in Procs, Register(p) PROVE PathsInv'
    BY <1>2, <2>4, RegisterKeepsPaths
  <2>5. ASSUME NEW p \in Procs, BringsNoPath(p) PROVE PathsInv'
    BY <1>2, <2>1, <2>5, NoPathBrought
  <2> QED
    BY <1>2, <2>2, <2>3, <2>4, <2>5, OthersBringNoPath DEF Next
<1> QED
  BY <1>1, <1>2

(***************************************************************************)
(* The path passthrough.go:236 takes from the routes, and docker compose   *)
(* gets at passthrough.go:240-247, is never that of another project: also  *)
(* if the routes have changed or gone since it was read.                   *)
(***************************************************************************)
THEOREM OwnOverrideOnly == Spec => []OverrideOfOwnProject
<1>1. PathsInv => OverrideOfOwnProject
  BY DEF PathsInv, PathsAtHome
<1> QED
  BY <1>1, TypeOKInductive, PathsInvInductive, PTL DEF Spec

-------------------------------------------------------------------------------
(* The files registered routes point to *)

(***************************************************************************)
(* No command is about to remove the file of a route or of a route to be.  *)
(* A history with an ignored error of UnregisterRoutes is excepted: Noted  *)
(* has to have it.                                                         *)
(***************************************************************************)
FilesInv ==
    /\ \A p \in Procs : pc[p] = "register" => override[p] \in FileIds
    /\ "unregister" \notin mishaps =>
         /\ OverridesOf(routes) \subseteq FileIds
         /\ \A p \in Procs : doomed[p] \cap OverridesOf(routes) = {}

\* What most actions do to routes, files and paths: nothing.
LeavesFiles(p) ==
    /\ UNCHANGED <<routes, files>>
    /\ mishaps \subseteq mishaps'
    /\ \A q \in Procs \ {p} : pc'[q] = pc[q] /\ override'[q] = override[q] /\ doomed'[q] = doomed[q]
    /\ pc'[p] # "register"
    /\ doomed'[p] \subseteq doomed[p]

LEMMA FilesLeft ==
    ASSUME FilesInv, NEW p \in Procs, LeavesFiles(p)
    PROVE  FilesInv'
  BY DEF FilesInv, LeavesFiles, FileIds, OverridesOf

LEMMA NoteRemembers ==
    ASSUME NEW m, Note(m)
    PROVE  mishaps \subseteq mishaps'
  BY DEF Note

LEMMA ExitLeavesFiles ==
    ASSUME TypeOK, NEW p \in Procs, Exit(p), UNCHANGED <<routes, files>>,
           mishaps \subseteq mishaps'
    PROVE  LeavesFiles(p)
  BY DEF TypeOK, LocalsOK, Exit, Goto, LeavesFiles

LEMMA GotoLeavesFiles ==
    ASSUME TypeOK, NEW p \in Procs, NEW l \in PC \ {"register"}, Goto(p, l),
           UNCHANGED <<routes, files, override, doomed>>, mishaps \subseteq mishaps'
    PROVE  LeavesFiles(p)
  BY DEF TypeOK, LocalsOK, Goto, LeavesFiles

LEMMA AfterExecLeavesFiles ==
    ASSUME TypeOK, NEW p \in Procs, AfterExec(p), UNCHANGED <<routes, files>>,
           mishaps \subseteq mishaps'
    PROVE  LeavesFiles(p)
  BY ExitLeavesFiles, GotoLeavesFiles DEF AfterExec, PC

LEMMA OthersLeaveFiles ==
    ASSUME TypeOK, NEW p \in Procs,
           \/ Begin(p) \/ GetRoutes(p) \/ GetUsedPorts(p)
           \/ EnsureRunning(p) \/ Exec(p) \/ Detach(p)
           \/ OverridesRemoved(p) \/ StopProxy(p) \/ Crash(p)
    PROVE  LeavesFiles(p)
<1>1. CASE Begin(p)
  <2>1. PICK l \in PC \ {"register"} : Goto(p, l)
    BY <1>1 DEF Begin, PC
  <2> QED
    BY <1>1, <2>1, GotoLeavesFiles DEF Begin, shared
<1>2. CASE GetRoutes(p)
  <2>1. \E l \in PC \ {"register"} : Goto(p, l)
    BY <1>2 DEF GetRoutes, PC
  <2>2. \A q \in Procs \ {p} : override'[q] = override[q]
    BY <1>2 DEF GetRoutes, TypeOK, LocalsOK
  <2>3. UNCHANGED <<routes, files, doomed, mishaps>>
    BY <1>2 DEF GetRoutes, shared
  <2> QED
    BY <2>1, <2>2, <2>3 DEF TypeOK, LocalsOK, Goto, LeavesFiles
<1>3. CASE GetUsedPorts(p)
  BY <1>3, GotoLeavesFiles DEF GetUsedPorts, shared, PC
<1>4. CASE EnsureRunning(p)
  BY <1>4, ExitLeavesFiles, GotoLeavesFiles DEF EnsureRunning, shared, PC
<1>5. CASE Exec(p)
  <2>1. UNCHANGED <<routes, files>> /\ mishaps \subseteq mishaps'
    BY <1>5, FailureLeaves, NoteRemembers DEF Exec, ComposeUp, ComposeDown
  <2>2. CASE AfterExec(p)
    BY <2>1, <2>2, AfterExecLeavesFiles
  <2>3. CASE Goto(p, "attached") /\ UNCHANGED <<cmd, used, batch, override, doomed>>
    BY <2>1, <2>3, GotoLeavesFiles DEF PC
  <2> QED
    BY <1>5, <2>2, <2>3 DEF Exec
<1>6. CASE Detach(p)
  <2>1. mishaps \subseteq mishaps'
    BY <1>6, FailureLeaves, NoteRemembers DEF Detach, ComposeDown
  <2> QED
    BY <1>6, <2>1, AfterExecLeavesFiles DEF Detach
<1>7. CASE OverridesRemoved(p)
  BY <1>7, ExitLeavesFiles, GotoLeavesFiles DEF OverridesRemoved, shared, PC
<1>8. CASE StopProxy(p)
  BY <1>8, ExitLeavesFiles DEF StopProxy, shared
<1>9. CASE Crash(p)
  BY <1>9, NoteRemembers, ExitLeavesFiles DEF Crash, shared
<1> QED
  BY <1>1, <1>2, <1>3, <1>4, <1>5, <1>6, <1>7, <1>8, <1>9

LEMMA FilesInvInductive ==
    ASSUME "unregister" \in Noted
    PROVE  /\ Init => FilesInv
           /\ TypeOK /\ PathsInv /\ FilesInv /\ [Next]_vars => FilesInv'
<1>1. Init => FilesInv
  BY DEF Init, FilesInv, OverridesOf
<1>2. ASSUME TypeOK, PathsInv, FilesInv, [Next]_vars PROVE FilesInv'
  <2> USE <1>2
  <2>1. ASSUME NEW p \in Procs, Prepare(p) PROVE FilesInv'
    <3>1. PICK o \in FreshOverrides, f \in files' :
             /\ override' = [override EXCEPT ![p] = o]
             /\ files' = files \cup {f} /\ f.id = o
      BY <2>1 DEF Prepare, NewOverride
    <3>2. /\ UNCHANGED <<routes, doomed, mishaps>> /\ override'[p] = o
          /\ \A q \in Procs \ {p} : override'[q] = override[q] /\ pc'[q] = pc[q]
      BY <2>1, <3>1 DEF Prepare, Goto, TypeOK, LocalsOK
    <3>3. FileIds' = FileIds \cup {o}
      BY <3>1 DEF FileIds
    <3> QED
      BY <3>2, <3>3 DEF FilesInv, OverridesOf
  <2>2. ASSUME NEW p \in Procs, Register(p) PROVE FilesInv'
    <3>1. /\ UNCHANGED <<files, mishaps, override>>
          /\ pc'[p] # "register" /\ \A q \in Procs \ {p} : pc'[q] = pc[q]
      BY <2>2 DEF Register, Goto, TypeOK, LocalsOK
    <3>2. Unpublished(p) /\ override[p] \in FileIds
      BY <2>2 DEF Register, PathsInv, FilesInv
    <3>3. CASE Conflicts(routes, batch[p])
      <4>1. routes' = routes /\ doomed' = [doomed EXCEPT ![p] = {override[p]}]
        BY <2>2, <3>3 DEF Register
      <4> QED
        BY <3>1, <3>2, <4>1 DEF FilesInv, FileIds, Unpublished, OverridesOf, TypeOK, LocalsOK
    <3>4. CASE ~Conflicts(routes, batch[p])
      <4>1. routes' \subseteq routes \cup batch[p] /\ doomed' = doomed
        BY <2>2, <3>4, RegisteredWithin DEF Register
      <4>2. OverridesOf(routes') \subseteq OverridesOf(routes) \cup {override[p]}
        BY <3>2, <4>1 DEF Unpublished, OverridesOf
      <4> QED
        BY <3>1, <3>2, <4>1, <4>2 DEF FilesInv, FileIds, Unpublished, OverridesOf
    <3> QED
      BY <3>3, <3>4
  <2>3. ASSUME NEW p \in Procs, Unregister(p) PROVE FilesInv'
    <3>1. /\ UNCHANGED <<files, override>>
          /\ pc'[p] # "register" /\ \A q \in Procs \ {p} : pc'[q] = pc[q]
          /\ doomed' = [doomed EXCEPT ![p] = {override[p]} \ {None}]
      BY <2>3 DEF Unregister, Goto, TypeOK, LocalsOK
    <3>2. CASE Note("unregister")
      BY <3>1, <3>2 DEF Note, FilesInv, FileIds
    <3>3. CASE routes' = Unregistered(routes, cmd[p].dir) /\ UNCHANGED mishaps
      <4>1. OverridesOf(routes') \subseteq OverridesOf(routes)
        BY <3>3 DEF Unregistered, OverridesOf
      <4>2. override[p] \notin OverridesOf(routes')
        BY <3>3 DEF Unregistered, OverridesOf, RoutesOf, PathsInv, PathsAtHome
      <4> QED
        BY <3>1, <3>3, <4>1, <4>2 DEF FilesInv, FileIds, OverridesOf, TypeOK, LocalsOK
    <3> QED
      BY <2>3, <3>2, <3>3 DEF Unregister
  <2>4. ASSUME NEW p \in Procs, UnregisterAll(p) PROVE FilesInv'
    <3>1. OverridesOf(routes') = {} /\ mishaps \subseteq mishaps'
      BY <2>4, NoteRemembers DEF UnregisterAll, OverridesOf
    <3>2. /\ UNCHANGED <<files, override>>
          /\ pc'[p] # "register" /\ \A q \in Procs \ {p} : pc'[q] = pc[q]
      BY <2>4 DEF UnregisterAll, Goto, TypeOK, LocalsOK
    <3> QED
      BY <3>1, <3>2 DEF FilesInv, FileIds, OverridesOf
  <2>5. ASSUME NEW p \in Procs, RemoveOverride(p) PROVE FilesInv'
    <3>1. PICK o \in doomed[p] : files' = {f \in files : f.id # o} \/ files' = files
      BY <2>5 DEF RemoveOverride
    <3>2. /\ UNCHANGED <<routes, pc, override>> /\ mishaps \subseteq mishaps'
          /\ \A q \in Procs : doomed'[q] \subseteq doomed[q]
      BY <2>5, NoteRemembers DEF RemoveOverride, TypeOK, LocalsOK
    <3>3. FileIds \ {o} \subseteq FileIds'
      BY <3>1 DEF FileIds
    <3>4. \A q \in Procs : pc[q] = "register" => override[q] # o
      BY DEF PathsInv, Unpublished
    <3> QED
      BY <3>2, <3>3, <3>4 DEF FilesInv, OverridesOf
  <2>6. ASSUME NEW p \in Procs, Fail(p) PROVE FilesInv'
    <3>1. UNCHANGED <<routes, files>> /\ mishaps \subseteq mishaps'
      BY <2>6 DEF Fail, shared
    <3>2. CASE Exit(p)
      BY <3>1, <3>2, ExitLeavesFiles, FilesLeft
    <3>3. CASE ~Exit(p)
      <4>1. /\ pc[p] = "register" /\ Goto(p, "discard") /\ UNCHANGED override
            /\ doomed' = [doomed EXCEPT ![p] = {override[p]}]
        BY <2>6, <3>3 DEF Fail
      <4>2. override[p] \notin OverridesOf(routes)
        BY <4>1 DEF PathsInv, Unpublished
      <4> QED
        BY <3>1, <4>1, <4>2 DEF FilesInv, FileIds, Goto, OverridesOf, TypeOK, LocalsOK
    <3> QED
      BY <3>2, <3>3
  <2>7. ASSUME NEW p \in Procs, LeavesFiles(p) PROVE FilesInv'
    BY <2>7, FilesLeft
  <2>8. CASE UNCHANGED vars
    BY <2>8 DEF vars, shared, locals, FilesInv, FileIds, OverridesOf
  <2> QED
    BY <2>1, <2>2, <2>3, <2>4, <2>5, <2>6, <2>7, <2>8, OthersLeaveFiles DEF Next
<1> QED
  BY <1>1, <1>2

(***************************************************************************)
(* Every registered route has its override file, unless an error of        *)
(* UnregisterRoutes was ignored (passthrough.go:307): commands of the same *)
(* and of other directories, stop --all and deaths between any two steps   *)
(* included.                                                               *)
(***************************************************************************)
THEOREM RoutesHaveOverrides ==
    ASSUME "unregister" \in Noted
    PROVE  Spec => []RegisteredHaveOverride
<1>1. FilesInv => RegisteredHaveOverride
  BY DEF FilesInv, RegisteredHaveOverride
<1> QED
  BY <1>1, TypeOKInductive, PathsInvInductive, FilesInvInductive, PTL DEF Spec

-------------------------------------------------------------------------------
(* What belongs to other directories *)

(***************************************************************************)
(* The files a command goes on to remove are those of its own directory,   *)
(* unless it is stop --all; and only stop --all calls UnregisterAllRoutes. *)
(***************************************************************************)
HomeInv ==
    /\ \A p \in Procs : cmd[p].sub # "stop --all" =>
         \A f \in files : f.id \in doomed[p] => f.dir = cmd[p].dir
    /\ \A p \in Procs : pc[p] = "unregisterAll" => cmd[p].sub = "stop --all"

\* What all actions but Prepare do: they doom files of their own directory.
DoomsOwn(p) ==
    /\ files' \subseteq files
    /\ \A q \in Procs \ {p} : pc'[q] = pc[q] /\ cmd'[q] = cmd[q] /\ doomed'[q] = doomed[q]
    /\ pc'[p] # "unregisterAll" \/ cmd'[p].sub = "stop --all"
    /\ \/ doomed'[p] = {}
       \/ cmd'[p].sub = "stop --all"
       \/ doomed'[p] \subseteq doomed[p] \cup {override[p]} /\ cmd'[p] = cmd[p]

LEMMA OwnDoomed ==
    ASSUME HomeInv, PathsInv, NEW p \in Procs, DoomsOwn(p)
    PROVE  HomeInv'
<1>1. ASSUME NEW q \in Procs, cmd'[q].sub # "stop --all",
             NEW f \in files', f.id \in doomed'[q]
      PROVE  f.dir = cmd'[q].dir
  <2>1. f \in files
    BY DEF DoomsOwn
  <2>2. f.id \in doomed[q] \cup {override[q]} /\ cmd'[q] = cmd[q]
    BY <1>1 DEF DoomsOwn
  <2>3. CASE f.id \in doomed[q]
    BY <1>1, <2>1, <2>2, <2>3 DEF HomeInv
  <2>4. CASE f.id = override[q]
    BY <2>1, <2>2, <2>4 DEF PathsInv, PathsAtHome, OverrideOfOwnProject
  <2> QED
    BY <2>2, <2>3, <2>4
<1>2. ASSUME NEW q \in Procs, pc'[q] = "unregisterAll" PROVE cmd'[q].sub = "stop --all"
  BY <1>2 DEF HomeInv, DoomsOwn
<1> QED
  BY <1>1, <1>2 DEF HomeInv

LEMMA ExitDoomsOwn ==
    ASSUME TypeOK, NEW p \in Procs, Exit(p), files' \subseteq files
    PROVE  DoomsOwn(p)
  BY DEF TypeOK, LocalsOK, Exit, Goto, DoomsOwn

LEMMA GotoDoomsOwn ==
    ASSUME TypeOK, NEW p \in Procs, NEW l \in PC \ {"unregisterAll"}, Goto(p, l),
           files' \subseteq files, UNCHANGED <<cmd, doomed>>
    PROVE  DoomsOwn(p)
  BY DEF TypeOK, LocalsOK, Goto, DoomsOwn

LEMMA AfterExecDoomsOwn ==
    ASSUME TypeOK, NEW p \in Procs, AfterExec(p), UNCHANGED files
    PROVE  DoomsOwn(p)
  BY ExitDoomsOwn, GotoDoomsOwn DEF AfterExec, PC

LEMMA StepDoomsOwn ==
    ASSUME TypeOK, HomeInv, NEW p \in Procs,
           \/ Begin(p) \/ GetRoutes(p) \/ GetUsedPorts(p) \/ Register(p)
           \/ EnsureRunning(p) \/ Exec(p) \/ Detach(p)
           \/ Unregister(p) \/ UnregisterAll(p) \/ RemoveOverride(p) \/ OverridesRemoved(p)
           \/ StopProxy(p) \/ Fail(p) \/ Crash(p)
    PROVE  DoomsOwn(p)
<1>1. CASE Begin(p)
  <2>1. doomed[p] = {}
    BY <1>1 DEF Begin, TypeOK, LocalsOK
  <2>2. pc'[p] # "unregisterAll" \/ cmd'[p].sub = "stop --all"
    <3>1. PICK sub \in Subcommands, d \in Dirs :
             /\ cmd' = [cmd EXCEPT ![p] = [sub |-> sub, dir |-> d]]
             /\ Goto(p, IF sub = "stop --all" THEN "unregisterAll" ELSE "getRoutes")
      BY <1>1 DEF Begin
    <3>2. cmd'[p].sub = sub
      BY <3>1 DEF TypeOK, LocalsOK
    <3>3. pc'[p] = IF sub = "stop --all" THEN "unregisterAll" ELSE "getRoutes"
      BY <3>1 DEF Goto, TypeOK, LocalsOK
    <3> QED
      BY <3>2, <3>3
  <2> QED
    BY <1>1, <2>1, <2>2 DEF Begin, Goto, shared, TypeOK, LocalsOK, DoomsOwn
<1>2. CASE GetRoutes(p)
  <2>1. \E l \in PC \ {"unregisterAll"} : Goto(p, l)
    BY <1>2 DEF GetRoutes, PC
  <2> QED
    BY <1>2, <2>1, GotoDoomsOwn DEF GetRoutes, shared
<1>3. CASE GetUsedPorts(p)
  BY <1>3, GotoDoomsOwn DEF GetUsedPorts, shared, PC
<1>4. CASE Register(p)
  BY <1>4 DEF Register, Goto, TypeOK, LocalsOK, DoomsOwn
<1>5. CASE EnsureRunning(p)
  BY <1>5, ExitDoomsOwn, GotoDoomsOwn DEF EnsureRunning, shared, PC
<1>6. CASE Exec(p)
  <2>1. CASE AfterExec(p)
    BY <1>6, <2>1, AfterExecDoomsOwn DEF Exec
  <2>2. CASE Goto(p, "attached") /\ UNCHANGED <<cmd, used, batch, override, doomed>>
    BY <1>6, <2>2, GotoDoomsOwn DEF Exec, PC
  <2> QED
    BY <1>6, <2>1, <2>2 DEF Exec
<1>7. CASE Detach(p)
  BY <1>7, AfterExecDoomsOwn DEF Detach
<1>8. CASE Unregister(p)
  BY <1>8 DEF Unregister, Goto, TypeOK, LocalsOK, DoomsOwn
<1>9. CASE UnregisterAll(p)
  BY <1>9 DEF UnregisterAll, Goto, TypeOK, LocalsOK, DoomsOwn, HomeInv
<1>10. CASE RemoveOverride(p)
  BY <1>10 DEF RemoveOverride, TypeOK, LocalsOK, DoomsOwn
<1>11. CASE OverridesRemoved(p)
  BY <1>11, ExitDoomsOwn, GotoDoomsOwn DEF OverridesRemoved, shared, PC
<1>12. CASE StopProxy(p)
  BY <1>12, ExitDoomsOwn DEF StopProxy, shared
<1>13. CASE Fail(p)
  <2>1. CASE Exit(p)
    BY <1>13, <2>1, ExitDoomsOwn DEF Fail, shared
  <2>2. CASE ~Exit(p)
    BY <1>13, <2>2 DEF Fail, shared, Goto, TypeOK, LocalsOK, DoomsOwn
  <2> QED
    BY <2>1, <2>2
<1>14. CASE Crash(p)
  BY <1>14, ExitDoomsOwn DEF Crash, shared
<1> QED
  BY <1>1, <1>2, <1>3, <1>4, <1>5, <1>6, <1>7, <1>8, <1>9,
     <1>10, <1>11, <1>12, <1>13, <1>14

LEMMA HomeInvInductive ==
    /\ Init => HomeInv
    /\ TypeOK /\ PathsInv /\ HomeInv /\ [Next]_vars => HomeInv'
<1>1. Init => HomeInv
  BY DEF Init, HomeInv
<1>2. ASSUME TypeOK, PathsInv, HomeInv, [Next]_vars PROVE HomeInv'
  <2> USE <1>2
  <2>1. ASSUME NEW p \in Procs, Prepare(p) PROVE HomeInv'
    <3>1. PICK o \in FreshOverrides, f \in files' : files' = files \cup {f} /\ f.id = o
      BY <2>1 DEF Prepare, NewOverride
    <3>2. \A q \in Procs : f.id \notin doomed[q]
      BY <3>1 DEF FreshOverrides
    <3>3. /\ UNCHANGED <<cmd, doomed>>
          /\ pc'[p] # "unregisterAll" /\ \A q \in Procs \ {p} : pc'[q] = pc[q]
      BY <2>1 DEF Prepare, Goto, TypeOK, LocalsOK
    <3> QED
      BY <3>1, <3>2, <3>3 DEF HomeInv
  <2>2. CASE UNCHANGED vars
    BY <2>2 DEF vars, shared, locals, HomeInv
  <2> QED
    BY <2>1, <2>2, StepDoomsOwn, OwnDoomed DEF Next
<1> QED
  BY <1>1, <1>2

LEMMA UpSparesOthers ==
    ASSUME NEW p \in Procs, NEW f, f.dir = cmd[p].dir, ComposeUp(p, f),
           NEW d \in Dirs \ {cmd[p].dir}
    PROVE  ContainersOf(d)' = ContainersOf(d)
  BY DEF ComposeUp, ContainersOf, Published

LEMMA DownSparesOthers ==
    ASSUME NEW p \in Procs, ComposeDown(p), NEW d \in Dirs \ {cmd[p].dir}
    PROVE  ContainersOf(d)' = ContainersOf(d)
  BY DEF ComposeDown, ContainersOf

LEMMA FailureSparesOthers ==
    ASSUME NEW p \in Procs, ComposeFails(p),
           \A f \in files : f.id = override[p] => f.dir = cmd[p].dir,
           NEW d \in Dirs \ {cmd[p].dir}
    PROVE  ContainersOf(d)' = ContainersOf(d)
<1>1. \A c \in containers' : c.dir = d => c \in containers
  BY FailureLeaves DEF Published
<1>2. containers \ ContainersOf(cmd[p].dir) \subseteq containers'
  BY Zenon DEF ComposeFails
<1>. QED
  BY <1>1, <1>2 DEF ContainersOf

LEMMA UnchangedSparesOthers ==
    ASSUME NEW p \in Procs, UNCHANGED <<routes, files, containers>>
    PROVE  KeepsOthers(p)
  BY DEF KeepsOthers, RoutesOf, ContainersOf

LEMMA StepSparesOthers ==
    ASSUME TypeOK, PathsInv, HomeInv, NEW p \in Procs, cmd[p].sub # "stop --all",
           \/ Begin(p) \/ GetRoutes(p) \/ GetUsedPorts(p) \/ Prepare(p) \/ Register(p)
           \/ EnsureRunning(p) \/ Exec(p) \/ Detach(p)
           \/ Unregister(p) \/ UnregisterAll(p) \/ RemoveOverride(p) \/ OverridesRemoved(p)
           \/ StopProxy(p) \/ Fail(p) \/ Crash(p)
    PROVE  KeepsOthers(p)
<1>1. CASE Prepare(p)
  <2>1. PICK ports \in [DOMAIN ServicesOf[cmd[p].dir] -> Ports], o \in FreshOverrides :
           files' = files \cup {NewOverride(cmd[p].dir, ports, o)}
    BY <1>1 DEF Prepare
  <2>2. NewOverride(cmd[p].dir, ports, o).dir = cmd[p].dir
    BY DEF NewOverride
  <2>3. UNCHANGED <<routes, containers>>
    BY <1>1 DEF Prepare
  <2> QED
    BY <2>1, <2>2, <2>3 DEF KeepsOthers, ContainersOf, RoutesOf
<1>2. CASE Register(p)
  <2>1. UNCHANGED <<files, containers>>
    BY <1>2 DEF Register
  <2>2. routes' = routes \/ routes' = Registered(routes, batch[p])
    BY <1>2 DEF Register
  <2>3. \A r \in batch[p] : r.dir = cmd[p].dir
    BY <1>2 DEF Register, PathsInv, Unpublished
  <2>4. OneDirectory(batch[p])
    BY <2>3 DEF OneDirectory
  <2>5. ASSUME NEW d \in Dirs \ {cmd[p].dir}
        PROVE  RoutesOf(Registered(routes, batch[p]), d) = RoutesOf(routes, d)
    <3>1. batch[p] # {} => BatchDir(batch[p]) = cmd[p].dir
      BY <2>3, <2>4, BatchDirIsCommon
    <3> QED
      BY <2>4, <3>1, RegisteredSparesOthers
  <2> QED
    BY <2>1, <2>2, <2>5 DEF KeepsOthers, ContainersOf
<1>3. CASE Exec(p)
  <2>1. UNCHANGED <<routes, files>>
    BY <1>3 DEF Exec
  <2>2. \/ \E f \in files : f.id = override[p] /\ ComposeUp(p, f)
        \/ ComposeDown(p)
        \/ ComposeFails(p)
        \/ UNCHANGED containers
    BY <1>3 DEF Exec
  <2>3. \A f \in files : f.id = override[p] => f.dir = cmd[p].dir
    BY DEF PathsInv, PathsAtHome, OverrideOfOwnProject
  <2>4. \A d \in Dirs \ {cmd[p].dir} : ContainersOf(d)' = ContainersOf(d)
    BY <2>2, <2>3, UpSparesOthers, DownSparesOthers, FailureSparesOthers DEF ContainersOf
  <2> QED
    BY <2>1, <2>4 DEF KeepsOthers, ContainersOf, RoutesOf
<1>4. CASE Detach(p)
  <2>1. UNCHANGED <<routes, files>> /\ (ComposeDown(p) \/ ComposeFails(p))
    BY <1>4 DEF Detach
  <2>2. \A f \in files : f.id = override[p] => f.dir = cmd[p].dir
    BY DEF PathsInv, PathsAtHome, OverrideOfOwnProject
  <2>3. \A d \in Dirs \ {cmd[p].dir} : ContainersOf(d)' = ContainersOf(d)
    BY <2>1, <2>2, DownSparesOthers, FailureSparesOthers
  <2> QED
    BY <2>1, <2>3 DEF KeepsOthers, ContainersOf, RoutesOf
<1>5. CASE Unregister(p)
  <2>1. UNCHANGED <<files, containers>>
    BY <1>5 DEF Unregister
  <2>2. routes' = routes \/ routes' = Unregistered(routes, cmd[p].dir)
    BY <1>5 DEF Unregister
  <2>3. ASSUME NEW d \in Dirs \ {cmd[p].dir}
        PROVE  RoutesOf(routes', d) = RoutesOf(routes, d)
    BY <2>2 DEF RoutesOf, Unregistered
  <2> QED
    BY <2>1, <2>3 DEF KeepsOthers, ContainersOf
<1>6. CASE UnregisterAll(p)
  BY <1>6 DEF UnregisterAll, HomeInv
<1>7. CASE RemoveOverride(p)
  <2>1. PICK o \in doomed[p] : files' = {f \in files : f.id # o} \/ files' = files
    BY <1>7 DEF RemoveOverride
  <2>2. \A f \in files : f.id = o => f.dir = cmd[p].dir
    BY <2>1 DEF HomeInv
  <2>3. UNCHANGED <<routes, containers>>
    BY <1>7 DEF RemoveOverride
  <2> QED
    BY <2>1, <2>2, <2>3 DEF KeepsOthers, ContainersOf, RoutesOf
<1>8. CASE Begin(p) \/ GetRoutes(p) \/ GetUsedPorts(p) \/ EnsureRunning(p)
  BY <1>8, UnchangedSparesOthers DEF Begin, GetRoutes, GetUsedPorts, EnsureRunning, shared
<1>9. CASE OverridesRemoved(p) \/ StopProxy(p) \/ Fail(p) \/ Crash(p)
  BY <1>9, UnchangedSparesOthers DEF OverridesRemoved, StopProxy, Fail, Crash, shared
<1> QED
  BY <1>1, <1>2, <1>3, <1>4, <1>5, <1>6, <1>7, <1>8, <1>9

\* A step of one command moves no other.
LEMMA OneMoves ==
    ASSUME TypeOK, HomeInv, NEW p \in Procs, NEW q \in Procs \ {p},
           Prepare(p) \/ DoomsOwn(p)
    PROVE  pc'[q] = pc[q] /\ doomed'[q] = doomed[q]
  BY DEF Prepare, Goto, DoomsOwn, TypeOK, LocalsOK

(***************************************************************************)
(* A command changes nothing of another directory, neither routes nor      *)
(* override files nor containers: cleanup (passthrough.go:302-323) removes *)
(* what is its own; only stop --all (stop.go:30-46) does.                  *)
(***************************************************************************)
THEOREM StaysHome == Spec => CommandsStayHome
<1>1. ASSUME TypeOK, PathsInv, HomeInv, [Next]_vars
      PROVE  [\A p \in Procs :
                pc'[p] # pc[p] \/ doomed'[p] # doomed[p] =>
                  cmd[p].sub = "stop --all" \/ KeepsOthers(p)]_vars
  <2> SUFFICES ASSUME Next, NEW p \in Procs,
                      pc'[p] # pc[p] \/ doomed'[p] # doomed[p],
                      cmd[p].sub # "stop --all"
               PROVE  KeepsOthers(p)
    BY <1>1
  <2> QED
    BY <1>1, StepDoomsOwn, OneMoves, StepSparesOthers DEF Next
<1> QED
  BY <1>1, TypeOKInductive, PathsInvInductive, HomeInvInductive, PTL
     DEF Spec, CommandsStayHome
-------------------------------------------------------------------------------
(* Ports *)

LEMMA ServicesNumbered ==
    ASSUME NEW d \in Dirs
    PROVE  /\ \E n \in Nat : DOMAIN ServicesOf[d] = 1 .. n
           /\ ServicesOf[d] # <<>> => DOMAIN ServicesOf[d] # {}
           /\ \A i \in DOMAIN ServicesOf[d] :
                 ServicesOf[d][i].hash = HTTP \/ ServicesOf[d][i].hash \in Nat
<1>1. ServicesOf[d] \in Seq(Services(d))
  BY ServicesAssumption
<1>2. Len(ServicesOf[d]) \in Nat /\ DOMAIN ServicesOf[d] = 1 .. Len(ServicesOf[d])
  BY <1>1
<1>3. ServicesOf[d] # <<>> => 1 \in DOMAIN ServicesOf[d]
  BY <1>1, <1>2
<1>4. \A i \in DOMAIN ServicesOf[d] : ServicesOf[d][i] \in Services(d)
  BY DEF Services
<1> QED
  BY <1>2, <1>3, <1>4, ServicesAssumption

(***************************************************************************)
(* What the loop over the services has given to each is new, free and its  *)
(* own.                                                                    *)
(***************************************************************************)
LEMMA AllocationDistinct ==
    ASSUME NEW d \in Dirs, NEW ports \in [DOMAIN ServicesOf[d] -> Ports],
           NEW u, NEW bound, IsAllocation(ports, ServicesOf[d], u, bound)
    PROVE  \A i \in DOMAIN ServicesOf[d] :
              ports[i] \notin u \cup bound
                /\ \A j \in DOMAIN ServicesOf[d] : ports[j] = ports[i] => j = i
<1>1. ASSUME NEW i \in DOMAIN ServicesOf[d]
      PROVE  ports[i] \notin u \cup bound /\ \A j \in 1 .. i - 1 : ports[j] # ports[i]
  <2>. DEFINE taken == u \cup {ports[j] : j \in 1 .. i - 1}
              hash == ServicesOf[d][i].hash
  <2>1. ports[i] = IF hash = HTTP THEN Allocate(taken, bound)
                   ELSE AllocateDeterministic(hash, taken, bound)
    BY DEF IsAllocation
  <2>2. ports[i] # NoPort
    BY PortRangeAssumption DEF Ports
  <2>3. hash = HTTP \/ hash \in Nat
    BY ServicesNumbered
  <2>. HIDE DEF taken, hash
  <2>4. ports[i] \in Available(taken, bound)
    <3>1. CASE hash = HTTP
      BY <2>1, <2>2, <3>1, AllocateCorrect
    <3>2. CASE hash # HTTP
      <4>1. hash \in Nat /\ ports[i] = AllocateDeterministic(hash, taken, bound)
        BY <2>1, <2>3, <3>2
      <4> QED
        BY <2>2, <4>1, AllocateDeterministicCorrect
    <3> QED
      BY <3>1, <3>2
  <2>5. ports[i] \notin taken /\ ports[i] \notin bound
    BY <2>4 DEF Available
  <2> QED
    BY <2>5 DEF taken
<1>2. PICK n \in Nat : DOMAIN ServicesOf[d] = 1 .. n
  BY ServicesNumbered
<1>3. ASSUME NEW i \in 1 .. n, NEW j \in 1 .. n, i # j PROVE i \in 1 .. j - 1 \/ j \in 1 .. i - 1
  BY <1>2, <1>3
<1> QED
  BY <1>1, <1>2, <1>3

\* Between GetUsedPorts and RegisterRoutes.
Allocating(p) == pc[p] \in {"prepare", "register"}

(***************************************************************************)
(* No command registers routes while another is between reading the used   *)
(* ports and registering its own.  Nothing in the code sees to that: the   *)
(* manager's lock is released after GetUsedPorts (passthrough.go:93).      *)
(***************************************************************************)
RegistersApart ==
    \A p \in Procs : pc[p] = "register" /\ pc'[p] = "ensureRunning" =>
       \A q \in Procs \ {p} : ~Allocating(q)

\* From GetUsedPorts to RegisterRoutes a command knows the ports in use.
PortsInv ==
    /\ PortsUnique
    /\ \A p \in Procs :
         /\ pc[p] = "prepare" => UsedPorts(routes) \subseteq used[p]
         /\ pc[p] = "register" =>
              /\ \A r, s \in batch[p] : r.port = s.port => r = s
              /\ UsedPorts(batch[p]) \cap UsedPorts(routes) = {}

\* Most steps add no route, and no port to what a command has in hand.
KeepsPorts(p) ==
    /\ routes' \subseteq routes
    /\ \A q \in Procs \ {p} : pc'[q] = pc[q] /\ used'[q] = used[q] /\ batch'[q] = batch[q]
    /\ ~Allocating(p)'

LEMMA PortsKept ==
    ASSUME PortsInv, NEW p \in Procs, KeepsPorts(p)
    PROVE  PortsInv'
  BY DEF PortsInv, PortsUnique, KeepsPorts, Allocating, UsedPorts

LEMMA OthersKeepPorts ==
    ASSUME TypeOK, NEW p \in Procs,
           \/ Begin(p) \/ GetRoutes(p)
           \/ EnsureRunning(p) \/ Exec(p) \/ Detach(p)
           \/ Unregister(p) \/ UnregisterAll(p) \/ RemoveOverride(p) \/ OverridesRemoved(p)
           \/ StopProxy(p) \/ Fail(p) \/ Crash(p)
    PROVE  KeepsPorts(p)
<1>1. BringsNoPath(p)
  BY OthersBringNoPath
<1>2. ASSUME Exit(p) PROVE pc'[p] = "idle" /\ \A q \in Procs \ {p} : used'[q] = used[q]
  BY <1>2 DEF Exit, Goto, TypeOK, LocalsOK
<1>3. CASE Exit(p)
  BY <1>1, <1>2, <1>3 DEF BringsNoPath, KeepsPorts, Allocating
<1>4. CASE ~Exit(p)
  <2>1. UNCHANGED used
    BY <1>4 DEF Begin, GetRoutes, EnsureRunning, Exec, Detach, AfterExec,
       Unregister, UnregisterAll, RemoveOverride, OverridesRemoved, StopProxy,
       Fail, Crash
  <2>2. pc'[p] # "prepare"
    BY <1>4 DEF Begin, GetRoutes, EnsureRunning, Exec, Detach, AfterExec,
       Unregister, UnregisterAll, RemoveOverride, OverridesRemoved, StopProxy,
       Fail, Crash, Goto, TypeOK, LocalsOK
  <2> QED
    BY <1>1, <2>1, <2>2 DEF BringsNoPath, KeepsPorts, Allocating
<1> QED
  BY <1>3, <1>4

(***************************************************************************)
(* While routes are registered apart, the used ports a command has in hand *)
(* cover the registered ones, and the ports it registers are new.          *)
(***************************************************************************)
LEMMA PortsInvInductive ==
    /\ Init => PortsInv
    /\ TypeOK /\ PortsInv /\ [Next /\ RegistersApart]_vars => PortsInv'
<1>1. Init => PortsInv
  BY DEF Init, PortsInv, PortsUnique
<1>2. ASSUME TypeOK, PortsInv, NEW p \in Procs, GetUsedPorts(p) PROVE PortsInv'
  <2>1. /\ pc' = [pc EXCEPT ![p] = "prepare"] /\ used' = [used EXCEPT ![p] = UsedPorts(routes)]
        /\ UNCHANGED <<routes, batch>>
    BY <1>2 DEF GetUsedPorts, shared, Goto
  <2>2. pc'[p] = "prepare" /\ used'[p] = UsedPorts(routes)
    BY <1>2, <2>1 DEF TypeOK, LocalsOK
  <2>3. \A q \in Procs \ {p} : pc'[q] = pc[q] /\ used'[q] = used[q]
    BY <1>2, <2>1 DEF TypeOK, LocalsOK
  <2> QED
    BY <1>2, <2>1, <2>2, <2>3 DEF PortsInv, PortsUnique, UsedPorts
<1>3. ASSUME TypeOK, PortsInv, NEW p \in Procs, Prepare(p) PROVE PortsInv'
  <2>. DEFINE d == cmd[p].dir
  <2>1. /\ pc[p] = "prepare" /\ pc'[p] = "register" /\ UNCHANGED routes /\ d \in Dirs
        /\ \A q \in Procs \ {p} :
             pc'[q] = pc[q] /\ used'[q] = used[q] /\ batch'[q] = batch[q]
    BY <1>3 DEF Prepare, Goto, TypeOK, LocalsOK, Command
  <2>2. PICK ports \in [DOMAIN ServicesOf[d] -> Ports], o \in FreshOverrides :
           /\ IsAllocation(ports, ServicesOf[d], used[p], BoundPorts)
           /\ batch'[p] = NewRoutes(d, ports, o)
    BY <1>3 DEF Prepare, TypeOK, LocalsOK
  <2>3. UsedPorts(routes) \subseteq used[p]
    BY <1>3, <2>1 DEF PortsInv
  <2>. HIDE DEF d
  <2>4. \A i \in DOMAIN ServicesOf[d] :
           ports[i] \notin used[p] \cup BoundPorts
             /\ \A j \in DOMAIN ServicesOf[d] : ports[j] = ports[i] => j = i
    <3>1. d \in Dirs /\ ports \in [DOMAIN ServicesOf[d] -> Ports]
      BY <2>1, <2>2
    <3>2. IsAllocation(ports, ServicesOf[d], used[p], BoundPorts)
      BY <2>2
    <3> QED
      BY <3>1, <3>2, AllocationDistinct, Zenon
  <2>5. /\ \A r, s \in batch'[p] : r.port = s.port => r = s
        /\ UsedPorts(batch'[p]) \cap UsedPorts(routes) = {}
    BY <2>2, <2>3, <2>4 DEF NewRoutes, UsedPorts
  <2> QED
    BY <1>3, <2>1, <2>5 DEF PortsInv, PortsUnique, UsedPorts
<1>4. ASSUME TypeOK, PortsInv, RegistersApart, NEW p \in Procs, Register(p) PROVE PortsInv'
  <2>1. pc[p] = "register" /\ ~Allocating(p)'
    BY <1>4 DEF Register, Goto, TypeOK, LocalsOK, Allocating
  <2>2. \A q \in Procs \ {p} : pc'[q] = pc[q] /\ used'[q] = used[q] /\ batch'[q] = batch[q]
    BY <1>4 DEF Register, Goto, TypeOK, LocalsOK
  <2>3. CASE Conflicts(routes, batch[p])
    <3>1. UNCHANGED routes
      BY <1>4, <2>3 DEF Register
    <3> QED
      BY <1>4, <2>1, <2>2, <3>1, PortsKept DEF KeepsPorts
  <2>4. CASE ~Conflicts(routes, batch[p])
    <3>1. pc'[p] = "ensureRunning" /\ routes' \subseteq routes \cup batch[p]
      BY <1>4, <2>4, RegisteredWithin DEF Register, Goto, TypeOK, LocalsOK
    <3>2. \A q \in Procs : ~Allocating(q)'
      BY <1>4, <2>1, <2>2, <3>1 DEF RegistersApart, Allocating
    <3>3. PortsUnique'
      BY <1>4, <2>1, <3>1 DEF PortsInv, PortsUnique, UsedPorts
    <3> QED
      BY <3>2, <3>3 DEF PortsInv, Allocating
  <2> QED
    BY <2>3, <2>4
<1>5. ASSUME PortsInv, UNCHANGED vars PROVE PortsInv'
  BY <1>5 DEF vars, shared, locals, PortsInv, PortsUnique, UsedPorts
<1> QED
  BY <1>1, <1>2, <1>3, <1>4, <1>5, OthersKeepPorts, PortsKept DEF Next

(***************************************************************************)
(* Two routes with one host port come about only when a command registers  *)
(* its routes while another is between GetUsedPorts (passthrough.go:93)    *)
(* and RegisterRoutes (208).  However else commands interleave, fail and   *)
(* die, every registered port is unique.                                   *)
(***************************************************************************)
THEOREM UniqueIfRegisteredApart ==
    Spec /\ [][RegistersApart]_vars => []PortsUnique
<1>1. PortsInv => PortsUnique
  BY DEF PortsInv
<1>2. [Next]_vars /\ [RegistersApart]_vars => [Next /\ RegistersApart]_vars
  OBVIOUS
<1> QED
  BY <1>1, <1>2, TypeOKInductive, PortsInvInductive, PTL DEF Spec
=============================================================================
