-------------------------- MODULE SerialCommandsProofs --------------------------
(***************************************************************************)
(* What the commands of internal/cli guarantee if a command only starts    *)
(* when no other is running, for every set of directories and services,    *)
(* every range of ports and however the commands fail.                     *)
(***************************************************************************)
EXTENDS CommandsProofs

Step(p) ==
    \/ Begin(p) \/ GetRoutes(p) \/ GetUsedPorts(p) \/ Prepare(p) \/ Register(p)
    \/ EnsureRunning(p) \/ Exec(p) \/ Detach(p)
    \/ Unregister(p) \/ UnregisterAll(p) \/ RemoveOverride(p) \/ OverridesRemoved(p)
    \/ StopProxy(p) \/ Fail(p) \/ Crash(p)

Alone == \A p, q \in Procs : pc[p] # "idle" /\ pc[q] # "idle" => p = q

\* The routes of a directory are of one batch, with one override.
OverrideShared == \A r, s \in routes : r.dir = s.dir => r.override = s.override

\* What a command knows of the routes of its directory stays true.
Informed(p) ==
    /\ pc[p] \in {"getRoutes", "getUsedPorts", "prepare"} => override[p] = None
    /\ pc[p] \in {"getUsedPorts", "prepare", "register"} => RoutesOf(routes, cmd[p].dir) = {}
    /\ pc[p] = "prepare" => ServicesOf[cmd[p].dir] # <<>>
    /\ pc[p] = "register" => batch[p] # {}
    /\ pc[p] = "ensureRunning" => override[p] # None
    /\ pc[p] \in {"ensureRunning", "exec", "attached", "unregister"} =>
         OverridesOf(RoutesOf(routes, cmd[p].dir)) = {override[p]} \ {None}
    /\ pc[p] = "unregister" => cmd[p].sub # "stop --all"

SerialInv ==
    /\ Alone
    /\ OverrideShared
    /\ \A p \in Procs : Informed(p)

\* The invariants of CommandsProofs, which hold for any commands.
Basics == TypeOK /\ PathsInv /\ HomeInv

LEMMA BasicsInductive ==
    /\ Init => Basics
    /\ Basics /\ [Next]_vars => Basics'
  BY TypeOKInductive, PathsInvInductive, HomeInvInductive DEF Basics

LEMMA OthersRest ==
    ASSUME OneAtATime, Basics, Basics', Alone, NEW p \in Procs, Step(p),
           NEW q \in Procs \ {p}
    PROVE  /\ pc[q] = "idle" /\ pc'[q] = "idle"
           /\ override[q] = None /\ override'[q] = None
           /\ doomed[q] = {} /\ doomed'[q] = {}
<1>1. pc'[q] = pc[q]
  BY StepDoomsOwn, OneMoves DEF Step, Basics
<1>2. pc[q] = "idle"
  <2>1. CASE Begin(p)
    BY <2>1 DEF Begin
  <2>2. CASE ~Begin(p)
    <3>1. pc[p] # "idle"
      BY <2>2 DEF Step, GetRoutes, GetUsedPorts, Prepare, Register, EnsureRunning, Exec, Detach,
         Unregister, UnregisterAll, RemoveOverride, OverridesRemoved, StopProxy,
         Fail, Crash
    <3> QED
      BY <3>1 DEF Alone
  <2> QED
    BY <2>1, <2>2
<1> QED
  BY <1>1, <1>2 DEF Basics, TypeOK, LocalsOK

LEMMA ExitRests ==
    ASSUME TypeOK, NEW p \in Procs, Exit(p)
    PROVE  pc'[p] = "idle" /\ override'[p] = None /\ doomed'[p] = {}
  BY DEF TypeOK, LocalsOK, Exit, Goto

\* A batch for a directory that has no routes is what it has afterwards.
LEMMA RegisteredFirst ==
    ASSUME TypeOK, PathsInv, NEW p \in Procs, pc[p] = "register", batch[p] # {},
           RoutesOf(routes, cmd[p].dir) = {}
    PROVE  /\ Registered(routes, batch[p]) = routes \cup batch[p]
           /\ \A r \in batch[p] : r.dir = cmd[p].dir /\ r.override = override[p]
<1>1. \A r \in batch[p] : r.dir = cmd[p].dir /\ r.override = override[p]
  BY DEF PathsInv, Unpublished
<1>2. BatchDir(batch[p]) = cmd[p].dir
  BY <1>1, BatchDirIsCommon DEF OneDirectory
<1> QED
  BY <1>1, <1>2 DEF Registered

(***************************************************************************)
(* What a command has read of its own directory's routes holds until it    *)
(* returns.                                                                *)
(***************************************************************************)
LEMMA SerialInvInductive ==
    ASSUME OneAtATime
    PROVE  /\ Init => SerialInv
           /\ Basics /\ SerialInv /\ [Next]_vars => SerialInv'
<1>1. Init => SerialInv
  BY DEF Init, SerialInv, Alone, OverrideShared, Informed
<1>2. ASSUME Basics, SerialInv, NEW p \in Procs, Step(p),
             OverrideShared', Informed(p)'
      PROVE  SerialInv'
  <2>1. Basics'
    BY <1>2, BasicsInductive DEF Step, Next
  <2>2. \A q \in Procs \ {p} : pc'[q] = "idle"
    BY <1>2, <2>1, OthersRest DEF SerialInv
  <2>3. \A q \in Procs \ {p} : Informed(q)'
    BY <2>2 DEF Informed
  <2> QED
    BY <1>2, <2>2, <2>3 DEF SerialInv, Alone
<1>3. ASSUME Basics, SerialInv, NEW p \in Procs, Step(p)
      PROVE  OverrideShared' /\ Informed(p)'
  <2> USE <1>3 DEF Basics
  <2>0. OverrideShared /\ Informed(p)
    BY DEF SerialInv
  <2>1. CASE pc'[p] = "idle" /\ UNCHANGED routes
    BY <2>0, <2>1 DEF OverrideShared, Informed
  <2>2. CASE Begin(p)
    <3>1. UNCHANGED <<routes, override>> /\ pc'[p] \in {"getRoutes", "unregisterAll"}
      BY <2>2 DEF Begin, shared, Goto, TypeOK, LocalsOK
    <3>2. override[p] = None
      BY <2>2 DEF Begin, TypeOK, LocalsOK
    <3> QED
      BY <2>0, <3>1, <3>2 DEF OverrideShared, Informed
  <2>3. CASE GetRoutes(p)
    <3>1. pc[p] = "getRoutes" /\ UNCHANGED <<routes, cmd>>
      BY <2>3 DEF GetRoutes, shared
    <3>. DEFINE existing == RoutesOf(routes, cmd[p].dir)
                o == CHOOSE o \in OverridesOf(existing) : TRUE
    <3>2. CASE existing = {}
      <4>1. pc'[p] \in {"getUsedPorts", "exec"} /\ override' = override
        BY <2>3, <3>2 DEF GetRoutes, Goto, TypeOK, LocalsOK
      <4> QED
        BY <2>0, <3>1, <3>2, <4>1 DEF OverrideShared, Informed, OverridesOf
    <3>3. CASE existing # {}
      <4>1. pc'[p] = "exec" /\ override'[p] = o
        BY <2>3, <3>3 DEF GetRoutes, Goto, TypeOK, LocalsOK
      <4>2. o \in OverridesOf(existing)
        BY <3>3 DEF OverridesOf
      <4>3. \A r \in existing : r.override = o
        BY <2>0, <4>2 DEF OverridesOf, OverrideShared, RoutesOf
      <4>4. o # None
        BY <4>2, CommandsAssumption DEF OverridesOf, RoutesOf, TypeOK, Route
      <4>5. OverridesOf(existing) = {o} \ {None}
        BY <4>2, <4>3, <4>4 DEF OverridesOf
      <4>. HIDE DEF o
      <4> QED
        BY <2>0, <3>1, <4>1, <4>5 DEF OverrideShared, Informed
    <3> QED
      BY <3>2, <3>3
  <2>4. CASE GetUsedPorts(p)
    <3>1. /\ pc[p] = "getUsedPorts" /\ pc'[p] = "prepare"
          /\ UNCHANGED <<routes, cmd, override>> /\ ServicesOf[cmd[p].dir] # <<>>
      BY <2>4 DEF GetUsedPorts, shared, Goto, TypeOK, LocalsOK
    <3> QED
      BY <2>0, <3>1 DEF OverrideShared, Informed
  <2>5. CASE Prepare(p)
    <3>1. pc[p] = "prepare" /\ pc'[p] = "register" /\ UNCHANGED <<routes, cmd>>
      BY <2>5 DEF Prepare, Goto, TypeOK, LocalsOK
    <3>2. cmd[p].dir \in Dirs
      BY <3>1 DEF TypeOK, LocalsOK, Command
    <3>3. DOMAIN ServicesOf[cmd[p].dir] # {}
      BY <2>0, <3>1, <3>2, ServicesNumbered DEF Informed
    <3>4. PICK ports, o : batch' = [batch EXCEPT ![p] = NewRoutes(cmd[p].dir, ports, o)]
      BY <2>5 DEF Prepare
    <3>5. batch'[p] # {}
      <4>1. NewRoutes(cmd[p].dir, ports, o) # {}
        BY <3>3 DEF NewRoutes
      <4> QED
        BY <3>4, <4>1 DEF TypeOK, LocalsOK
    <3> QED
      BY <2>0, <3>1, <3>5 DEF OverrideShared, Informed
  <2>6. CASE Register(p)
    <3>1. pc[p] = "register" /\ UNCHANGED <<cmd, override>>
      BY <2>6 DEF Register
    <3>2. CASE Conflicts(routes, batch[p])
      <4>1. pc'[p] = "discard" /\ UNCHANGED routes
        BY <2>6, <3>2 DEF Register, Goto, TypeOK, LocalsOK
      <4> QED
        BY <2>0, <4>1 DEF OverrideShared, Informed
    <3>3. CASE ~Conflicts(routes, batch[p])
      <4>1. pc'[p] = "ensureRunning" /\ routes' = Registered(routes, batch[p])
        BY <2>6, <3>3 DEF Register, Goto, TypeOK, LocalsOK
      <4>2. batch[p] # {} /\ RoutesOf(routes, cmd[p].dir) = {}
        BY <2>0, <3>1 DEF Informed
      <4>3. /\ routes' = routes \cup batch[p]
            /\ \A r \in batch[p] : r.dir = cmd[p].dir /\ r.override = override[p]
        BY <3>1, <4>1, <4>2, RegisteredFirst
      <4>4. \A r \in routes : r.dir # cmd[p].dir
        BY <4>2 DEF RoutesOf
      <4>5. OverrideShared'
        BY <2>0, <4>3, <4>4 DEF OverrideShared
      <4>6. RoutesOf(routes', cmd[p].dir) = batch[p]
        BY <4>3, <4>4 DEF RoutesOf
      <4>7. override[p] # None
        BY <3>1 DEF TypeOK, LocalsOK
      <4>8. OverridesOf(batch[p]) = {override[p]} \ {None}
        BY <4>2, <4>3, <4>7 DEF OverridesOf
      <4> QED
        BY <3>1, <4>1, <4>5, <4>6, <4>7, <4>8 DEF Informed
    <3> QED
      BY <3>2, <3>3
  <2>7. CASE EnsureRunning(p)
    <3>1. UNCHANGED routes /\ pc[p] = "ensureRunning"
      BY <2>7 DEF EnsureRunning, shared
    <3>2. CASE Exit(p)
      BY <2>1, <3>1, <3>2, ExitRests
    <3>3. CASE ~Exit(p)
      <4>1. pc'[p] = "exec" /\ UNCHANGED <<cmd, override>>
        BY <2>7, <3>3 DEF EnsureRunning, Goto, TypeOK, LocalsOK
      <4> QED
        BY <2>0, <3>1, <4>1 DEF OverrideShared, Informed
    <3> QED
      BY <3>2, <3>3
  <2>8. ASSUME AfterExec(p), pc[p] \in {"exec", "attached"}, UNCHANGED routes
        PROVE  OverrideShared' /\ Informed(p)'
    <3>1. CASE Exit(p)
      BY <2>1, <2>8, <3>1, ExitRests
    <3>2. CASE ~Exit(p)
      <4>1. /\ pc'[p] = "unregister" /\ UNCHANGED <<cmd, override>>
            /\ cmd[p].sub # "stop --all"
        BY <2>8, <3>2 DEF AfterExec, Goto, TypeOK, LocalsOK
      <4> QED
        BY <2>0, <2>8, <4>1 DEF OverrideShared, Informed
    <3> QED
      BY <3>1, <3>2
  <2>9. CASE Exec(p)
    <3>1. UNCHANGED routes /\ pc[p] = "exec"
      BY <2>9 DEF Exec
    <3>2. CASE ~AfterExec(p)
      <4>1. pc'[p] = "attached" /\ UNCHANGED <<cmd, override>>
        BY <2>9, <3>2 DEF Exec, Goto, TypeOK, LocalsOK
      <4> QED
        BY <2>0, <3>1, <4>1 DEF OverrideShared, Informed
    <3> QED
      BY <2>8, <3>1, <3>2
  <2>10. CASE Detach(p)
    BY <2>8, <2>10 DEF Detach
  <2>11. CASE Unregister(p)
    <3>1. routes' \subseteq routes
      BY <2>11, UnregisteredWithin DEF Unregister
    <3>2. pc'[p] = "removeOverride"
      BY <2>11 DEF Unregister, Goto, TypeOK, LocalsOK
    <3> QED
      BY <2>0, <3>1, <3>2 DEF OverrideShared, Informed
  <2>12. CASE UnregisterAll(p)
    <3>1. routes' = {} /\ pc'[p] = "removeOverride"
      BY <2>12 DEF UnregisterAll, Goto, TypeOK, LocalsOK
    <3> QED
      BY <3>1 DEF OverrideShared, Informed
  <2>13. ASSUME UNCHANGED routes, pc'[p] \in {"discard", "removeOverride", "stopProxy"}
         PROVE  OverrideShared' /\ Informed(p)'
    BY <2>0, <2>13 DEF OverrideShared, Informed
  <2>14. CASE RemoveOverride(p)
    BY <2>13, <2>14 DEF RemoveOverride
  <2>15. CASE OverridesRemoved(p)
    <3>1. CASE Exit(p)
      BY <2>1, <2>15, <3>1, ExitRests DEF OverridesRemoved, shared
    <3>2. CASE ~Exit(p)
      BY <2>13, <2>15, <3>2 DEF OverridesRemoved, shared, Goto, TypeOK, LocalsOK
    <3> QED
      BY <3>1, <3>2
  <2>16. CASE StopProxy(p)
    BY <2>1, <2>16, ExitRests DEF StopProxy, shared
  <2>17. CASE Fail(p)
    <3>1. CASE Exit(p)
      BY <2>1, <2>17, <3>1, ExitRests DEF Fail, shared
    <3>2. CASE ~Exit(p)
      BY <2>13, <2>17, <3>2 DEF Fail, shared, Goto, TypeOK, LocalsOK
    <3> QED
      BY <3>1, <3>2
  <2>18. CASE Crash(p)
    BY <2>1, <2>18, ExitRests DEF Crash, shared
  <2> QED
    BY <2>2, <2>3, <2>4, <2>5, <2>6, <2>7, <2>9, <2>10, <2>11, <2>12, <2>14, <2>15,
       <2>16, <2>17, <2>18 DEF Step
<1>4. ASSUME SerialInv, UNCHANGED vars PROVE SerialInv'
  BY <1>4 DEF vars, shared, locals, SerialInv, Alone, OverrideShared, Informed
<1> QED
  BY <1>1, <1>2, <1>3, <1>4 DEF Next, Step

-------------------------------------------------------------------------------
(* Ports *)

(***************************************************************************)
(* No two routes ever have the same host port (allocator.go, and the       *)
(* used ports passthrough.go:93-125 hands it), if commands are given one   *)
(* after the other: for any number of projects, services and keys, also if *)
(* the range is used up, docker compose fails or commands die.             *)
(***************************************************************************)
THEOREM PortsStayUnique ==
    ASSUME OneAtATime
    PROVE  Spec => []PortsUnique
<1>1. SerialInv => [RegistersApart]_vars
  BY DEF SerialInv, Alone, RegistersApart, Allocating
<1> QED
  BY <1>1, BasicsInductive, SerialInvInductive, UniqueIfRegisteredApart, PTL DEF Spec

-------------------------------------------------------------------------------
(* Override files *)

\* Every file is that of a route, of routes to be, or about to be removed.
Owned ==
    \A f \in files :
       \/ f.id \in OverridesOf(routes)
       \/ \E p \in Procs : f.id \in doomed[p] \/ (pc[p] = "register" /\ f.id = override[p])

LeakInv == mishaps \cap {"crash", "removeOverride"} = {} => Owned

\* Most steps change neither routes nor files nor what is about to be removed.
LEMMA FilesStayOwned ==
    ASSUME Owned, NEW p \in Procs, pc[p] # "register", LeavesFiles(p), doomed'[p] = doomed[p]
    PROVE  Owned'
  BY DEF Owned, LeavesFiles, OverridesOf

LEMMA CrashIsNoted ==
    ASSUME "crash" \in Noted, NEW p \in Procs, Crash(p)
    PROVE  "crash" \in mishaps'
  BY DEF Crash, Note

LEMMA FailedRemovalIsNoted ==
    ASSUME "removeOverride" \in Noted, NEW p \in Procs, RemoveOverride(p),
           "removeOverride" \notin mishaps'
    PROVE  \E o \in doomed[p] : /\ files' = {f \in files : f.id # o}
                               /\ doomed' = [doomed EXCEPT ![p] = @ \ {o}]
  BY DEF RemoveOverride, Note

LEMMA MishapsRemembered ==
    ASSUME NEW p \in Procs, Step(p)
    PROVE  mishaps \subseteq mishaps'
  BY NoteRemembers DEF Step, Begin, GetRoutes, GetUsedPorts, Prepare, Register, EnsureRunning,
     Exec, Detach, ComposeUp, ComposeDown, ComposeFails, shared, Unregister, UnregisterAll,
     RemoveOverride, OverridesRemoved, StopProxy, Fail, Crash

LEMMA LeakInvInductive ==
    ASSUME OneAtATime, {"crash", "removeOverride"} \subseteq Noted
    PROVE  /\ Init => LeakInv
           /\ Basics /\ SerialInv /\ LeakInv /\ [Next]_vars => LeakInv'
<1>1. Init => LeakInv
  BY DEF Init, LeakInv, Owned
<1>2. ASSUME Basics, SerialInv, Owned, NEW p \in Procs, Step(p), ~Crash(p),
             "removeOverride" \notin mishaps'
      PROVE  Owned'
  <2> USE <1>2 DEF Basics
  <2>1. \A q \in Procs \ {p} : /\ pc[q] = "idle" /\ pc'[q] = "idle"
                               /\ doomed[q] = {} /\ doomed'[q] = {}
    BY BasicsInductive, OthersRest DEF SerialInv, Step, Next
  <2>2. \A f \in files : f.id \in OverridesOf(routes) \/ f.id \in doomed[p]
                           \/ (pc[p] = "register" /\ f.id = override[p])
    BY <2>1 DEF Owned
  <2>3. SUFFICES \A f \in files' : f.id \in OverridesOf(routes') \/ f.id \in doomed'[p]
                           \/ (pc'[p] = "register" /\ f.id = override'[p])
    BY DEF Owned
  <2>4. ASSUME UNCHANGED <<routes, files>>, pc[p] # "register",
               doomed'[p] = doomed[p] \/ doomed[p] = {}
        PROVE  \A f \in files' : f.id \in OverridesOf(routes') \/ f.id \in doomed'[p]
    BY <2>2, <2>4 DEF OverridesOf
  <2>5. pc[p] \notin {"discard", "removeOverride"} => doomed[p] = {}
    BY DEF TypeOK, LocalsOK
  <2>6. CASE Begin(p) \/ GetRoutes(p) \/ GetUsedPorts(p) \/ EnsureRunning(p)
    BY <2>4, <2>5, <2>6 DEF Begin, GetRoutes, GetUsedPorts, EnsureRunning, shared
  <2>7. CASE Exec(p) \/ Detach(p) \/ StopProxy(p)
    BY <2>4, <2>5, <2>7 DEF Exec, Detach, StopProxy, shared
  <2>8. CASE OverridesRemoved(p)
    BY <2>4, <2>8 DEF OverridesRemoved, shared
  <2>9. CASE Prepare(p)
    <3>1. PICK ports \in [DOMAIN ServicesOf[cmd[p].dir] -> Ports], o \in FreshOverrides :
             /\ override' = [override EXCEPT ![p] = o]
             /\ files' = files \cup {NewOverride(cmd[p].dir, ports, o)}
      BY <2>9 DEF Prepare
    <3>2. override'[p] = o /\ NewOverride(cmd[p].dir, ports, o).id = o
      BY <3>1 DEF NewOverride, TypeOK, LocalsOK
    <3>3. /\ pc[p] = "prepare" /\ pc'[p] = "register"
          /\ UNCHANGED <<routes, doomed>>
      BY <2>9 DEF Prepare, Goto, TypeOK, LocalsOK
    <3> QED
      BY <2>2, <3>1, <3>2, <3>3
  <2>10. CASE Register(p)
    <3>1. pc[p] = "register" /\ UNCHANGED files
      BY <2>10 DEF Register
    <3>2. CASE Conflicts(routes, batch[p])
      <4>1. UNCHANGED routes /\ doomed'[p] = {override[p]}
        BY <2>10, <3>2 DEF Register, TypeOK, LocalsOK
      <4> QED
        BY <2>2, <2>5, <3>1, <4>1
    <3>3. CASE ~Conflicts(routes, batch[p])
      <4>1. routes' = Registered(routes, batch[p])
        BY <2>10, <3>3 DEF Register
      <4>2. batch[p] # {} /\ RoutesOf(routes, cmd[p].dir) = {}
        BY <3>1 DEF SerialInv, Informed
      <4>3. routes' = routes \cup batch[p] /\ \A r \in batch[p] : r.override = override[p]
        BY <3>1, <4>1, <4>2, RegisteredFirst
      <4> QED
        BY <2>2, <2>5, <3>1, <4>2, <4>3 DEF OverridesOf
    <3> QED
      BY <3>2, <3>3
  <2>11. CASE Unregister(p)
    <3>1. pc[p] = "unregister" /\ UNCHANGED files /\ doomed'[p] = {override[p]} \ {None}
      BY <2>11 DEF Unregister, TypeOK, LocalsOK
    <3>2. OverridesOf(RoutesOf(routes, cmd[p].dir)) = {override[p]} \ {None}
      BY <3>1 DEF SerialInv, Informed
    <3>3. OverridesOf(routes) \subseteq OverridesOf(routes') \cup ({override[p]} \ {None})
      <4>1. routes' = routes \/ routes' = Unregistered(routes, cmd[p].dir)
        BY <2>11 DEF Unregister
      <4>2. \A r \in routes : r \in routes' \/ r \in RoutesOf(routes, cmd[p].dir)
        BY <4>1 DEF Unregistered
      <4> QED
        BY <3>2, <4>2 DEF OverridesOf
    <3> QED
      BY <2>2, <2>5, <3>1, <3>3
  <2>12. CASE UnregisterAll(p)
    <3>1. pc[p] = "unregisterAll" /\ UNCHANGED files /\ doomed'[p] = OverridesOf(routes)
      BY <2>12 DEF UnregisterAll, TypeOK, LocalsOK
    <3> QED
      BY <2>2, <2>5, <3>1
  <2>13. CASE RemoveOverride(p)
    <3>1. PICK o \in doomed[p] :
             files' = {f \in files : f.id # o} /\ doomed'[p] = doomed[p] \ {o}
      BY <1>2, <2>13, FailedRemovalIsNoted DEF TypeOK, LocalsOK
    <3>2. UNCHANGED routes /\ pc[p] # "register"
      BY <2>13 DEF RemoveOverride
    <3> QED
      BY <2>2, <3>1, <3>2
  <2>14. CASE Fail(p)
    <3>1. CASE pc[p] # "register"
      BY <2>4, <2>5, <2>14, <3>1 DEF Fail, shared
    <3>2. CASE pc[p] = "register"
      <4>1. UNCHANGED <<routes, files>> /\ doomed'[p] = {override[p]}
        BY <2>14, <3>2 DEF Fail, shared, TypeOK, LocalsOK
      <4> QED
        BY <2>2, <2>5, <3>2, <4>1 DEF OverridesOf
    <3> QED
      BY <3>1, <3>2
  <2> QED
    BY <2>6, <2>7, <2>8, <2>9, <2>10, <2>11, <2>12, <2>13, <2>14 DEF Step
<1>3. ASSUME LeakInv, UNCHANGED vars PROVE LeakInv'
  BY <1>3 DEF vars, shared, locals, LeakInv, Owned, OverridesOf
<1>4. ASSUME Basics, SerialInv, LeakInv, NEW p \in Procs, Step(p) PROVE LeakInv'
  BY <1>2, <1>4, CrashIsNoted, MishapsRemembered DEF LeakInv
<1> QED
  BY <1>1, <1>3, <1>4 DEF Next, Step

(***************************************************************************)
(* If commands are given one after the other, no override file outlives    *)
(* its project's routes: cleanup (passthrough.go:302-312), the error paths *)
(* of passthrough.go:208-211 and stop --all (stop.go:37-46) remove each,   *)
(* whatever else fails, unless a command is killed or the removal itself   *)
(* fails, whose error all three ignore.                                    *)
(***************************************************************************)
THEOREM NoFileLeaks ==
    ASSUME OneAtATime, {"crash", "removeOverride"} \subseteq Noted
    PROVE  Spec => []NoOverrideLeak
<1>1. Basics /\ LeakInv => NoOverrideLeak
  BY DEF Basics, TypeOK, LocalsOK, LeakInv, Owned, NoOverrideLeak, AtRest, FileIds
<1> QED
  BY <1>1, BasicsInductive, SerialInvInductive, LeakInvInductive, PTL DEF Spec

-------------------------------------------------------------------------------
(* Containers *)

\* Every port an override file publishes is that of a route.
Matched(f, rs) ==
    \A m \in f.ports : \E r \in rs : r.dir = f.dir /\ r.service = m.service /\ r.port = m.port

FilesMatch ==
    /\ \A f \in files : f.id \in OverridesOf(routes) => Matched(f, routes)
    /\ \A p \in Procs, f \in files :
          pc[p] = "register" /\ f.id = override[p] => Matched(f, batch[p])

\* Docker has not failed, and there was no stop --all.
Undisturbed == mishaps \cap {"docker", "stop --all"} = {}

\* Routes are only removed when their containers are.
ContainersInv ==
    /\ FilesMatch
    /\ Undisturbed =>
         /\ ContainersRouted
         /\ \A p \in Procs : pc[p] = "unregister" => \A c \in containers : c.dir # cmd[p].dir

\* Steps that add neither files nor routes.
LEMMA FilesMatchKept ==
    ASSUME FilesMatch, \A q \in Procs : pc'[q] # "register",
           files' \subseteq files, UNCHANGED routes
    PROVE  FilesMatch'
  BY DEF FilesMatch, OverridesOf, Matched

LEMMA FilesMatchInductive ==
    ASSUME OneAtATime, Basics, SerialInv, FilesMatch, NEW p \in Procs, Step(p)
    PROVE  FilesMatch'
<1> USE DEF Basics
<1>1. \A q \in Procs \ {p} : pc[q] = "idle" /\ pc'[q] = "idle"
  BY BasicsInductive, OthersRest DEF SerialInv, Step, Next
<1>2. CASE Prepare(p)
  <2>. DEFINE d == cmd[p].dir
  <2>1. PICK ports \in [DOMAIN ServicesOf[d] -> Ports], o \in FreshOverrides :
           /\ batch' = [batch EXCEPT ![p] = NewRoutes(d, ports, o)]
           /\ override' = [override EXCEPT ![p] = o]
           /\ files' = files \cup {NewOverride(d, ports, o)}
    BY <1>2 DEF Prepare
  <2>2. batch'[p] = NewRoutes(d, ports, o) /\ override'[p] = o /\ UNCHANGED routes
    BY <1>2, <2>1 DEF Prepare, TypeOK, LocalsOK
  <2>3. o \notin FileIds /\ o \notin OverridesOf(routes)
    BY DEF FreshOverrides
  <2>4. NewOverride(d, ports, o).id = o
    BY DEF NewOverride
  <2>. HIDE DEF d
  <2>5. Matched(NewOverride(d, ports, o), NewRoutes(d, ports, o))
    <3>1. ASSUME NEW m \in NewOverride(d, ports, o).ports
          PROVE  \E i \in DOMAIN ServicesOf[d] :
                    m = [service |-> ServicesOf[d][i].name, port |-> ports[i]]
      BY <3>1 DEF NewOverride
    <3>2. ASSUME NEW i \in DOMAIN ServicesOf[d]
          PROVE  \E r \in NewRoutes(d, ports, o) :
                    r.dir = d /\ r.service = ServicesOf[d][i].name /\ r.port = ports[i]
      <4>. DEFINE r == [dir |-> d, service |-> ServicesOf[d][i].name,
                        host |-> ServicesOf[d][i].host, port |-> ports[i], override |-> o]
      <4>1. r \in NewRoutes(d, ports, o)
        BY DEF NewRoutes
      <4>2. r.dir = d /\ r.service = ServicesOf[d][i].name /\ r.port = ports[i]
        OBVIOUS
      <4> QED
        BY <4>1, <4>2
    <3>3. NewOverride(d, ports, o).dir = d
      BY DEF NewOverride
    <3> QED
      BY <3>1, <3>2, <3>3 DEF Matched
  <2>6. \A f \in files' : f.id \in OverridesOf(routes) => Matched(f, routes)
    BY <2>1, <2>3, <2>4 DEF FilesMatch
  <2>7. \A f \in files' : f.id = o => f = NewOverride(d, ports, o)
    BY <2>1, <2>3 DEF FileIds
  <2>8. \A f \in files' : f.id = override'[p] => Matched(f, batch'[p])
    BY <2>2, <2>5, <2>7
  <2>9. \A f \in files' : f.id \in OverridesOf(routes') => Matched(f, routes')
    BY <2>2, <2>6
  <2> QED
    BY <1>1, <2>8, <2>9 DEF FilesMatch
<1>3. CASE Register(p)
  <2>1. pc[p] = "register" /\ UNCHANGED files /\ pc'[p] # "register"
    BY <1>3 DEF Register, Goto, TypeOK, LocalsOK
  <2>2. CASE UNCHANGED routes
    BY <1>1, <2>1, <2>2, FilesMatchKept
  <2>3. CASE routes' = Registered(routes, batch[p])
    <3>1. batch[p] # {} /\ RoutesOf(routes, cmd[p].dir) = {}
      BY <2>1 DEF SerialInv, Informed
    <3>2. routes' = routes \cup batch[p] /\ \A r \in batch[p] : r.override = override[p]
      BY <2>1, <2>3, <3>1, RegisteredFirst
    <3>3. ASSUME NEW f \in files, f.id \in OverridesOf(routes') PROVE Matched(f, routes')
      <4>1. f.id \in OverridesOf(routes) \/ f.id = override[p]
        BY <3>2, <3>3 DEF OverridesOf
      <4>2. Matched(f, routes) \/ Matched(f, batch[p])
        BY <2>1, <4>1 DEF FilesMatch
      <4> QED
        BY <3>2, <4>2 DEF Matched
    <3> QED
      BY <1>1, <2>1, <3>3 DEF FilesMatch
  <2> QED
    BY <1>3, <2>2, <2>3 DEF Register
<1>4. CASE Unregister(p) \/ UnregisterAll(p)
  <2>1. UNCHANGED files /\ pc'[p] # "register"
    BY <1>4 DEF Unregister, UnregisterAll, Goto, TypeOK, LocalsOK
  <2>2. CASE UNCHANGED routes
    BY <1>1, <2>1, <2>2, FilesMatchKept
  <2>3. CASE routes' = {}
    BY <1>1, <2>1, <2>3 DEF FilesMatch, OverridesOf
  <2>4. CASE routes' = Unregistered(routes, cmd[p].dir)
    <3>1. ASSUME NEW f \in files, f.id \in OverridesOf(routes') PROVE Matched(f, routes')
      <4>1. PICK r \in routes : r.override = f.id /\ r.dir # cmd[p].dir
        BY <2>4, <3>1 DEF OverridesOf, Unregistered, RoutesOf
      <4>2. f.dir = r.dir
        BY <4>1 DEF PathsInv, PathsAtHome
      <4>3. Matched(f, routes)
        BY <4>1 DEF FilesMatch, OverridesOf
      <4> QED
        BY <2>4, <4>1, <4>2, <4>3 DEF Matched, Unregistered, RoutesOf
    <3> QED
      BY <1>1, <2>1, <3>1 DEF FilesMatch
  <2> QED
    BY <1>4, <2>2, <2>3, <2>4 DEF Unregister, UnregisterAll
<1>5. ASSUME ~Prepare(p), ~Register(p), ~Unregister(p), ~UnregisterAll(p)
      PROVE  FilesMatch'
  <2>1. BringsNoPath(p)
    BY <1>5, OthersBringNoPath DEF Step
  <2>2. UNCHANGED routes
    BY <1>5 DEF Step, Begin, GetRoutes, GetUsedPorts, EnsureRunning, Exec, Detach,
       RemoveOverride, OverridesRemoved, StopProxy, Fail, Crash, shared
  <2> QED
    BY <1>1, <2>1, <2>2, FilesMatchKept DEF BringsNoPath
<1> QED
  BY <1>2, <1>3, <1>4, <1>5

\* What docker compose starts has routes; what it stops may have had some.
LEMMA ComposeRouted ==
    ASSUME TypeOK, PathsInv, FilesMatch, ContainersRouted, Undisturbed, NEW p \in Procs,
           UNCHANGED routes,
           OverridesOf(RoutesOf(routes, cmd[p].dir)) = {override[p]} \ {None},
           \/ \E f \in files : f.id = override[p] /\ ComposeUp(p, f)
           \/ ComposeDown(p)
           \/ UNCHANGED containers
    PROVE  ContainersRouted'
<1>1. CASE ComposeDown(p) \/ UNCHANGED containers
  BY <1>1 DEF ComposeDown, ContainersRouted, Undisturbed
<1>2. ASSUME NEW f \in files, f.id = override[p], ComposeUp(p, f) PROVE ContainersRouted'
  <2>1. f.id # None
    BY CommandsAssumption DEF TypeOK, File
  <2>2. f.id \in OverridesOf(routes)
    BY <1>2, <2>1 DEF OverridesOf, RoutesOf
  <2>3. Matched(f, routes)
    BY <2>2 DEF FilesMatch
  <2>4. containers' \subseteq containers \cup Published(f)
    BY <1>2 DEF ComposeUp
  <2>5. \A c \in Published(f) : \E r \in routes :
           r.dir = c.dir /\ r.service = c.service /\ r.port = c.port
    BY <2>3 DEF Matched, Published
  <2> QED
    BY <2>4, <2>5 DEF ContainersRouted, Undisturbed
<1> QED
  BY <1>1, <1>2

LEMMA ContainersInvInductive ==
    ASSUME OneAtATime, {"docker", "stop --all"} \subseteq Noted
    PROVE  /\ Init => ContainersInv
           /\ Basics /\ SerialInv /\ ContainersInv /\ [Next]_vars => ContainersInv'
<1>1. Init => ContainersInv
  BY DEF Init, ContainersInv, FilesMatch, ContainersRouted
<1>2. ASSUME Basics, SerialInv, ContainersInv, NEW p \in Procs, Step(p) PROVE ContainersInv'
  <2> USE <1>2 DEF Basics
  <2>1. \A q \in Procs \ {p} : pc[q] = "idle" /\ pc'[q] = "idle"
    BY BasicsInductive, OthersRest DEF SerialInv, Step, Next
  <2>2. FilesMatch'
    BY FilesMatchInductive DEF ContainersInv
  <2>3. SUFFICES ASSUME Undisturbed'
                 PROVE  /\ ContainersRouted'
                        /\ pc'[p] = "unregister" => \A c \in containers' : c.dir # cmd'[p].dir
    BY <2>1, <2>2 DEF ContainersInv
  <2>4. Undisturbed /\ ContainersRouted
    BY <2>3, MishapsRemembered DEF Undisturbed, ContainersInv
  <2>5. ~Note("docker") /\ ~Note("stop --all")
    BY <2>3 DEF Note, Undisturbed
  <2>6. ASSUME routes \subseteq routes', containers' = containers, pc'[p] # "unregister"
        PROVE  ContainersRouted' /\ pc'[p] # "unregister"
    BY <2>4, <2>6 DEF ContainersRouted, Undisturbed
  <2>7. ASSUME Exit(p) PROVE pc'[p] # "unregister"
    BY <2>7, ExitRests
  <2>8. CASE Register(p)
    <3>1. pc[p] = "register" /\ pc'[p] # "unregister" /\ UNCHANGED containers
      BY <2>8 DEF Register, Goto, TypeOK, LocalsOK
    <3>2. routes \subseteq routes'
      <4>1. batch[p] # {} /\ RoutesOf(routes, cmd[p].dir) = {}
        BY <3>1 DEF SerialInv, Informed
      <4> QED
        BY <2>8, <3>1, <4>1, RegisteredFirst DEF Register
    <3> QED
      BY <2>6, <3>1, <3>2
  <2>9. CASE Exec(p)
    <3>1. pc[p] = "exec" /\ UNCHANGED routes
      BY <2>9 DEF Exec
    <3>2. OverridesOf(RoutesOf(routes, cmd[p].dir)) = {override[p]} \ {None}
      BY <3>1 DEF SerialInv, Informed
    <3>3. \/ \E f \in files : f.id = override[p] /\ ComposeUp(p, f)
          \/ ComposeDown(p)
          \/ UNCHANGED containers
      BY <2>5, <2>9, FailureLeaves DEF Exec
    <3>4. ContainersRouted'
      BY <2>4, <3>1, <3>2, <3>3, ComposeRouted DEF ContainersInv
    <3>5. pc'[p] = "unregister" => ComposeDown(p) /\ UNCHANGED cmd
      BY <2>5, <2>7, <2>9, FailureLeaves DEF Exec, AfterExec, Goto, TypeOK, LocalsOK
    <3> QED
      BY <3>4, <3>5 DEF ComposeDown, ContainersOf
  <2>10. CASE Detach(p)
    <3>1. pc[p] = "attached" /\ UNCHANGED routes
      BY <2>10 DEF Detach
    <3>2. ComposeDown(p) /\ (pc'[p] = "unregister" => UNCHANGED cmd)
      BY <2>5, <2>7, <2>10, FailureLeaves DEF Detach, AfterExec
    <3>3. ContainersRouted'
      BY <2>4, <3>1, <3>2 DEF ComposeDown, ContainersRouted, Undisturbed
    <3> QED
      BY <3>2, <3>3 DEF ComposeDown, ContainersOf
  <2>11. CASE Unregister(p)
    <3>1. pc[p] = "unregister" /\ pc'[p] # "unregister" /\ UNCHANGED containers
      BY <2>11 DEF Unregister, Goto, TypeOK, LocalsOK
    <3>2. \A c \in containers : c.dir # cmd[p].dir
      BY <2>4, <3>1 DEF ContainersInv
    <3>3. \A r \in routes : r.dir # cmd[p].dir => r \in routes'
      BY <2>11 DEF Unregister, Unregistered, RoutesOf
    <3> QED
      BY <2>4, <3>1, <3>2, <3>3 DEF ContainersRouted, Undisturbed
  <2>12. CASE UnregisterAll(p)
    BY <2>5, <2>12 DEF UnregisterAll
  <2>13. ASSUME ~Register(p), ~Exec(p), ~Detach(p), ~Unregister(p), ~UnregisterAll(p)
         PROVE  ContainersRouted' /\ pc'[p] # "unregister"
    <3>1. UNCHANGED <<routes, containers>>
      BY <2>13 DEF Step, Begin, GetRoutes, GetUsedPorts, Prepare, EnsureRunning,
         RemoveOverride, OverridesRemoved, StopProxy, Fail, Crash, shared
    <3>2. pc'[p] # "unregister"
      BY <2>7, <2>13 DEF Step, Begin, GetRoutes, GetUsedPorts, Prepare, EnsureRunning,
         RemoveOverride, OverridesRemoved, StopProxy, Fail, Crash, Goto,
         TypeOK, LocalsOK
    <3> QED
      BY <2>6, <3>1, <3>2
  <2> QED
    BY <2>8, <2>9, <2>10, <2>11, <2>12, <2>13 DEF Step
<1>3. ASSUME ContainersInv, UNCHANGED vars PROVE ContainersInv'
  <2> USE <1>3
  <2>1. FilesMatch'
    BY DEF vars, shared, locals, ContainersInv, FilesMatch, OverridesOf, Matched
  <2> QED
    BY <2>1 DEF vars, shared, locals, ContainersInv, Undisturbed, ContainersRouted
<1> QED
  BY <1>1, <1>2, <1>3 DEF Next, Step

(***************************************************************************)
(* If commands are given one after the other, the port of every container  *)
(* is that of its service's route, though docker compose is told the port  *)
(* by a file and the proxy by state.json: also if the file is used again   *)
(* by later commands (passthrough.go:234-236), if commands die and if      *)
(* cleanup's UnregisterRoutes fails (passthrough.go:307).  Only a failing  *)
(* docker compose and stop --all leave containers without a route.         *)
(***************************************************************************)
THEOREM ContainersStayRouted ==
    ASSUME OneAtATime, {"docker", "stop --all"} \subseteq Noted
    PROVE  Spec => []ContainersRouted
<1>1. ContainersInv => ContainersRouted
  BY DEF ContainersInv, ContainersRouted, Undisturbed
<1> QED
  BY <1>1, BasicsInductive, SerialInvInductive, ContainersInvInductive, PTL DEF Spec

-------------------------------------------------------------------------------
(* Requests *)

(***************************************************************************)
(* The routes to be get ports that no container has.                       *)
(***************************************************************************)
ReachInv ==
    /\ RoutesReachOwn
    /\ FilesMatch
    /\ \A p \in Procs : pc[p] = "register" => UsedPorts(batch[p]) \cap BoundPorts = {}

\* Containers only come to the ports of their own services' routes.
LEMMA ComposeReaches ==
    ASSUME TypeOK, FilesMatch, PortsUnique, RoutesReachOwn, NEW p \in Procs,
           UNCHANGED routes,
           OverridesOf(RoutesOf(routes, cmd[p].dir)) = {override[p]} \ {None},
           \A c \in containers' :
              \/ c \in containers
              \/ \E f \in files : f.id = override[p] /\ c \in Published(f)
    PROVE  RoutesReachOwn'
<1>1. ASSUME NEW r \in routes, NEW f \in files, f.id = override[p],
             NEW c \in Published(f), c.port = r.port
      PROVE  c.dir = r.dir /\ c.service = r.service
  <2>1. f.id # None
    BY CommandsAssumption DEF TypeOK, File
  <2>2. f.id \in OverridesOf(routes)
    BY <1>1, <2>1 DEF OverridesOf, RoutesOf
  <2>3. Matched(f, routes)
    BY <2>2 DEF FilesMatch
  <2>4. PICK s \in routes : s.dir = c.dir /\ s.service = c.service /\ s.port = c.port
    BY <2>3 DEF Matched, Published
  <2>5. r = s
    BY <1>1, <2>4 DEF PortsUnique
  <2> QED
    BY <2>4, <2>5
<1> QED
  BY <1>1 DEF RoutesReachOwn

LEMMA ReachInvInductive ==
    ASSUME OneAtATime
    PROVE  /\ Init => ReachInv
           /\ Basics /\ SerialInv /\ PortsUnique /\ ReachInv /\ [Next]_vars => ReachInv'
<1>1. Init => ReachInv
  BY DEF Init, ReachInv, FilesMatch, RoutesReachOwn
<1>2. ASSUME Basics, SerialInv, PortsUnique, ReachInv, NEW p \in Procs, Step(p)
      PROVE  ReachInv'
  <2> USE <1>2 DEF Basics
  <2>1. \A q \in Procs \ {p} : pc[q] = "idle" /\ pc'[q] = "idle"
    BY BasicsInductive, OthersRest DEF SerialInv, Step, Next
  <2>2. RoutesReachOwn /\ FilesMatch /\ FilesMatch'
    BY FilesMatchInductive DEF ReachInv
  <2>3. SUFFICES /\ RoutesReachOwn'
                 /\ pc'[p] = "register" => UsedPorts(batch'[p]) \cap BoundPorts' = {}
    BY <2>1, <2>2 DEF ReachInv
  <2>4. CASE Prepare(p)
    <3>. DEFINE d == cmd[p].dir
    <3>1. UNCHANGED <<routes, containers>> /\ d \in Dirs
      BY <2>4 DEF Prepare, TypeOK, LocalsOK, Command
    <3>2. PICK ports \in [DOMAIN ServicesOf[d] -> Ports], o \in FreshOverrides :
             /\ IsAllocation(ports, ServicesOf[d], used[p], BoundPorts)
             /\ batch'[p] = NewRoutes(d, ports, o)
      BY <2>4 DEF Prepare, TypeOK, LocalsOK
    <3>. HIDE DEF d
    <3>3. \A i \in DOMAIN ServicesOf[d] : ports[i] \notin BoundPorts
      <4>1. IsAllocation(ports, ServicesOf[d], used[p], BoundPorts)
        BY <3>2
      <4>2. \A i \in DOMAIN ServicesOf[d] : ports[i] \notin used[p] \cup BoundPorts
        BY <3>1, <4>1, AllocationDistinct, Zenon
      <4> QED
        BY <4>2
    <3>4. BoundPorts' = BoundPorts
      BY <3>1 DEF BoundPorts
    <3>5. UsedPorts(batch'[p]) \cap BoundPorts' = {}
      BY <3>2, <3>3, <3>4 DEF NewRoutes, UsedPorts
    <3> QED
      BY <2>2, <3>1, <3>5 DEF RoutesReachOwn
  <2>5. CASE Register(p)
    <3>1. pc[p] = "register" /\ pc'[p] # "register" /\ UNCHANGED containers
      BY <2>5 DEF Register, Goto, TypeOK, LocalsOK
    <3>2. routes' \subseteq routes \cup batch[p]
      BY <2>5, RegisteredWithin DEF Register
    <3>3. \A r \in batch[p], c \in containers : c.port # r.port
      BY <3>1 DEF ReachInv, UsedPorts, BoundPorts
    <3> QED
      BY <2>2, <3>1, <3>2, <3>3 DEF RoutesReachOwn
  <2>6. ASSUME ~Prepare(p), ~Register(p)
        PROVE  routes' \subseteq routes /\ pc'[p] # "register"
    BY <2>6, OthersBringNoPath DEF Step, BringsNoPath
  <2>7. CASE Exec(p) \/ Detach(p)
    <3>1. pc[p] \in {"exec", "attached"} /\ UNCHANGED routes
      BY <2>7 DEF Exec, Detach
    <3>2. OverridesOf(RoutesOf(routes, cmd[p].dir)) = {override[p]} \ {None}
      BY <3>1 DEF SerialInv, Informed
    <3>3. \/ \E f \in files : f.id = override[p] /\ ComposeUp(p, f)
          \/ ComposeDown(p)
          \/ ComposeFails(p)
          \/ UNCHANGED containers
      BY <2>7 DEF Exec, Detach
    <3>4. \A c \in containers' :
             \/ c \in containers
             \/ \E f \in files : f.id = override[p] /\ c \in Published(f)
      BY <3>3, FailureLeaves DEF ComposeUp, ComposeDown
    <3>5. RoutesReachOwn'
      BY <2>2, <3>1, <3>2, <3>4, ComposeReaches
    <3>6. pc'[p] # "register"
      <4>1. ~Prepare(p) /\ ~Register(p)
        BY <3>1 DEF Prepare, Register
      <4> QED
        BY <2>6, <4>1
    <3> QED
      BY <3>5, <3>6
  <2>8. ASSUME ~Prepare(p), ~Register(p), ~Exec(p), ~Detach(p) PROVE UNCHANGED containers
    BY <2>8 DEF Step, Begin, GetRoutes, GetUsedPorts, EnsureRunning, Unregister, UnregisterAll,
       RemoveOverride, OverridesRemoved, StopProxy, Fail, Crash, shared
  <2> QED
    BY <2>2, <2>4, <2>5, <2>6, <2>7, <2>8 DEF RoutesReachOwn
<1>3. ASSUME ReachInv, UNCHANGED vars PROVE ReachInv'
  BY <1>3 DEF vars, shared, locals, ReachInv, RoutesReachOwn, FilesMatch, OverridesOf, Matched,
     UsedPorts, BoundPorts
<1> QED
  BY <1>1, <1>2, <1>3 DEF Next, Step

(***************************************************************************)
(* If commands are given one after the other, the proxy never sends a      *)
(* request to another service's or project's container: a port that is     *)
(* given out (passthrough.go:110-125) is that of no container, and docker  *)
(* compose only publishes ports of registered routes.  Also if docker      *)
(* compose fails halfway, stop --all leaves containers running             *)
(* (stop.go:30-46), commands die or the range is used up.                  *)
(***************************************************************************)
THEOREM RequestsReachOwnContainers ==
    ASSUME OneAtATime
    PROVE  Spec => []RoutesReachOwn
<1>1. ReachInv => RoutesReachOwn
  BY DEF ReachInv
<1> QED
  BY <1>1, BasicsInductive, SerialInvInductive, ReachInvInductive, PortsStayUnique, PTL DEF Spec
=============================================================================
