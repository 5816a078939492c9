------------------------------- MODULE Commands -------------------------------
(***************************************************************************)
(* The commands of internal/cli: runPassthrough and its cleanup in         *)
(* passthrough.go, and stop --all in stop.go.  Each process is a shell in  *)
(* which one command after the other is run in the project directories.    *)
(*                                                                         *)
(* The calls of state.Manager are atomic, as StateStore is shown to        *)
(* implement Registry; any of them may fail.  What the calls of            *)
(* proxy.Daemon do is the subject of ProxyDaemon; here they succeed or     *)
(* not.  Docker is external: what docker compose does with the containers  *)
(* is modelled from how the code uses it.                                  *)
(***************************************************************************)
EXTENDS Routes, PortAllocator, Sequences

CONSTANTS
    Procs,
    Dirs,         \* project directories
    ServicesOf,   \* the services with a port in each, sorted by name:
                  \*   [name, host, hash], hash = HTTP for HTTP services
    HTTP,
    OverrideIds,  \* bound: override directories in /tmp that are in use
    None,         \* the empty override path
    Subcommands,  \* the subcommands that are given
    OneAtATime,   \* does a command only start when no other is running?
    Noted         \* the mishaps that are remembered

Mishaps == {"crash", "unregister", "removeOverride", "docker", "stop --all"}

Services(d) == {ServicesOf[d][i] : i \in DOMAIN ServicesOf[d]}

ASSUME CommandsAssumption ==
    /\ None \notin OverrideIds
    /\ Noted \subseteq Mishaps

ASSUME ServicesAssumption ==
    \A d \in Dirs :
       /\ ServicesOf[d] \in Seq(Services(d))
       /\ \A s \in Services(d) : s.hash = HTTP \/ s.hash \in Nat

VARIABLES
    routes,      \* the routes in state.json
    files,       \* the override files: [id, dir, ports]
    containers,  \* running containers with a published port
    (* each command's locals *)
    pc,
    cmd,         \* [sub, dir]
    used,        \* usedPorts, until the ports are allocated
    batch,       \* the routes it built, until they are registered
    override,    \* overridePath
    doomed,      \* the override files it goes on to remove
    (* history *)
    mishaps      \* which of the Noted mishaps there have been

shared == <<routes, files, containers>>
locals == <<pc, cmd, used, batch, override, doomed>>
vars == <<shared, locals, mishaps>>

-------------------------------------------------------------------------------
Note(m) == mishaps' = mishaps \cup ({m} \cap Noted)

Goto(p, l) == pc' = [pc EXCEPT ![p] = l]

NoCommand == [sub |-> "none", dir |-> None]

\* The next definition with the path of the override kept for the next command.
ExitKeeping(p) ==
    /\ Goto(p, "idle")
    /\ cmd' = [cmd EXCEPT ![p] = NoCommand]
    /\ used' = [used EXCEPT ![p] = {}]
    /\ batch' = [batch EXCEPT ![p] = {}]
    /\ doomed' = [doomed EXCEPT ![p] = {}]
    /\ UNCHANGED override

\* The command returns: its locals are gone.
Exit(p) ==
    /\ Goto(p, "idle")
    /\ cmd' = [cmd EXCEPT ![p] = NoCommand]
    /\ used' = [used EXCEPT ![p] = {}]
    /\ batch' = [batch EXCEPT ![p] = {}]
    /\ override' = [override EXCEPT ![p] = None]
    /\ doomed' = [doomed EXCEPT ![p] = {}]

OverridesOf(rs) == {r.override : r \in rs}
FileIds == {f.id : f \in files}
BoundPorts == {c.port : c \in containers}
UsedPorts(rs) == {r.port : r \in rs}

Init ==
    /\ routes = {}
    /\ files = {}
    /\ containers = {}
    /\ pc = [p \in Procs |-> "idle"]
    /\ cmd = [p \in Procs |-> NoCommand]
    /\ used = [p \in Procs |-> {}]
    /\ batch = [p \in Procs |-> {}]
    /\ override = [p \in Procs |-> None]
    /\ doomed = [p \in Procs |-> {}]
    /\ mishaps = {}

\* A command is given.  "up" is the attached one, "up -d" the detached one.
Begin(p) ==
    /\ pc[p] = "idle"
    /\ OneAtATime => \A q \in Procs : pc[q] = "idle"
    /\ \E sub \in Subcommands, d \in Dirs :
         /\ cmd' = [cmd EXCEPT ![p] = [sub |-> sub, dir |-> d]]
         /\ Goto(p, IF sub = "stop --all" THEN "unregisterAll" ELSE "getRoutes")
    /\ UNCHANGED <<shared, used, batch, override, doomed, mishaps>>

\* The next definition with the routes of every directory.
GetRoutesOfAll(p) ==
    /\ pc[p] = "getRoutes"
    /\ \/ /\ routes = {}
          /\ Goto(p, IF cmd[p].sub = "down" THEN "exec" ELSE "getUsedPorts")
          /\ UNCHANGED override
       \/ /\ routes # {}
          /\ override' = [override EXCEPT ![p] = CHOOSE o \in OverridesOf(routes) : TRUE]
          /\ Goto(p, "exec")
    /\ UNCHANGED <<shared, cmd, used, batch, doomed, mishaps>>

\* needsSetup and the branch on it.
GetRoutes(p) ==
    LET existing == RoutesOf(routes, cmd[p].dir) IN
    /\ pc[p] = "getRoutes"
    /\ \/ /\ existing = {} /\ cmd[p].sub \in {"up", "up -d", "run"}
          /\ Goto(p, "getUsedPorts")
          /\ UNCHANGED override
       \/ /\ existing = {} /\ cmd[p].sub \notin {"up", "up -d", "run"}
          /\ Goto(p, "exec")
          /\ UNCHANGED override
       \/ /\ existing # {}
          /\ override' = [override EXCEPT ![p] = CHOOSE o \in OverridesOf(existing) : TRUE]
          /\ Goto(p, "exec")
    /\ UNCHANGED <<shared, cmd, used, batch, doomed, mishaps>>

\* Parse refuses a project in which no service has a port; else the used ports.
GetUsedPorts(p) ==
    /\ pc[p] = "getUsedPorts"
    /\ ServicesOf[cmd[p].dir] # <<>>
    /\ used' = [used EXCEPT ![p] = UsedPorts(routes)]
    /\ Goto(p, "prepare")
    /\ UNCHANGED <<shared, cmd, batch, override, doomed, mishaps>>

\* What the loop over the sorted services gives each of them: the ports given
\* before count as used.
IsAllocation(ports, services, usedPorts, bound) ==
    \A i \in DOMAIN services :
       LET taken == usedPorts \cup {ports[j] : j \in 1 .. i - 1} IN
       ports[i] = IF services[i].hash = HTTP
                    THEN Allocate(taken, bound)
                    ELSE AllocateDeterministic(services[i].hash, taken, bound)

\* The routes built in the loop, with the override path set after it, ...
NewRoutes(d, ports, o) ==
    {[dir |-> d, service |-> ServicesOf[d][i].name, host |-> ServicesOf[d][i].host,
      port |-> ports[i], override |-> o] : i \in DOMAIN ServicesOf[d]}

\* ... and the file GenerateOverride writes.
NewOverride(d, ports, o) ==
    [id |-> o, dir |-> d,
     ports |-> {[service |-> ServicesOf[d][i].name, port |-> ports[i]]
                : i \in DOMAIN ServicesOf[d]}]

\* MkdirTemp's directory: its name is not in use anywhere.
FreshOverrides ==
    OverrideIds \ (FileIds \cup OverridesOf(routes)
                     \cup UNION {doomed[q] \cup {override[q]} : q \in Procs})

\* Ports, environment labels and GenerateOverride.
Prepare(p) ==
    LET d == cmd[p].dir IN
    /\ pc[p] = "prepare"
    /\ \E ports \in [DOMAIN ServicesOf[d] -> Ports], o \in FreshOverrides :
         /\ IsAllocation(ports, ServicesOf[d], used[p], BoundPorts)
         /\ batch' = [batch EXCEPT ![p] = NewRoutes(d, ports, o)]
         /\ override' = [override EXCEPT ![p] = o]
         /\ files' = files \cup {NewOverride(d, ports, o)}
    /\ used' = [used EXCEPT ![p] = {}]
    /\ Goto(p, "register")
    /\ UNCHANGED <<routes, containers, cmd, doomed, mishaps>>

\* The next definition with the file removed also when the routes are in.
RegisterDiscarding(p) ==
    /\ pc[p] = "register"
    /\ IF Conflicts(routes, batch[p])
         THEN UNCHANGED routes
         ELSE routes' = Registered(routes, batch[p])
    /\ doomed' = [doomed EXCEPT ![p] = {override[p]}]
    /\ Goto(p, "discard")
    /\ batch' = [batch EXCEPT ![p] = {}]
    /\ UNCHANGED <<files, containers, cmd, used, override, mishaps>>

Register(p) ==
    /\ pc[p] = "register"
    /\ IF Conflicts(routes, batch[p])
         THEN /\ Goto(p, "discard")
              /\ doomed' = [doomed EXCEPT ![p] = {override[p]}]
              /\ UNCHANGED routes
         ELSE /\ Goto(p, "ensureRunning")
              /\ routes' = Registered(routes, batch[p])
              /\ UNCHANGED doomed
    /\ batch' = [batch EXCEPT ![p] = {}]
    /\ UNCHANGED <<files, containers, cmd, used, override, mishaps>>

\* EnsureRunning returns no error, or its error ends the command.
EnsureRunning(p) ==
    /\ pc[p] = "ensureRunning"
    /\ \/ Goto(p, "exec") /\ UNCHANGED <<cmd, used, batch, override, doomed>>
       \/ Exit(p)
    /\ UNCHANGED <<shared, mishaps>>

-------------------------------------------------------------------------------
(* docker compose -f <compose file> -f <override> <arguments> *)

ContainersOf(d) == {c \in containers : c.dir = d}
Published(f) == {[dir |-> f.dir, service |-> m.service, port |-> m.port] : m \in f.ports}

\* up, and run for the services it depends on: the containers are made anew
\* with the ports of the override.
ComposeUp(p, f) ==
    LET others == containers \ ContainersOf(cmd[p].dir) IN
    /\ \A m \in f.ports : \A c \in others : m.port # c.port
    /\ containers' = others \cup Published(f)
    /\ UNCHANGED mishaps

ComposeDown(p) ==
    /\ containers' = containers \ ContainersOf(cmd[p].dir)
    /\ UNCHANGED mishaps

\* Whatever the reason, it fails: without the file, with a port taken, ...
\* Any part of what it was to do may be done.
ComposeFails(p) ==
    LET own == ContainersOf(cmd[p].dir)
        new == IF cmd[p].sub = "down" THEN {}
               ELSE UNION {Published(f) : f \in {g \in files : g.id = override[p]}}
    IN  /\ Note("docker")
        /\ \E left \in SUBSET (own \cup new) :
             /\ \A c \in left, e \in left \cup (containers \ own) :
                   c.port = e.port \/ (c.service = e.service /\ e \in left) => c = e
             /\ containers' = (containers \ own) \cup left

\* The next definition with no regard to isDetachedMode.
AfterExecAlways(p) ==
    IF cmd[p].sub \in {"up", "up -d", "down"}
      THEN Goto(p, "unregister") /\ UNCHANGED <<cmd, used, batch, override, doomed>>
      ELSE Exit(p)

\* shouldCleanup
AfterExec(p) ==
    IF cmd[p].sub \in {"up", "down"}
      THEN Goto(p, "unregister") /\ UNCHANGED <<cmd, used, batch, override, doomed>>
      ELSE Exit(p)

Exec(p) ==
    /\ pc[p] = "exec"
    /\ \/ \E f \in files : f.id = override[p] /\
            \/ /\ cmd[p].sub = "up" /\ ComposeUp(p, f)
               /\ Goto(p, "attached")
               /\ UNCHANGED <<cmd, used, batch, override, doomed>>
            \/ cmd[p].sub = "up -d" /\ ComposeUp(p, f) /\ AfterExec(p)
            \/ cmd[p].sub = "down" /\ ComposeDown(p) /\ AfterExec(p)
            \/ /\ cmd[p].sub = "run" /\ AfterExec(p)
               /\ ComposeUp(p, f) \/ UNCHANGED <<containers, mishaps>>
       \/ override[p] = None /\ cmd[p].sub = "down" /\ ComposeDown(p) /\ AfterExec(p)
       \/ ComposeFails(p) /\ AfterExec(p)
    /\ UNCHANGED <<routes, files>>

\* Ctrl-C is forwarded to docker compose, which stops the containers, unless
\* it is killed or fails.
Detach(p) ==
    /\ pc[p] = "attached"
    /\ ComposeDown(p) \/ ComposeFails(p)
    /\ AfterExec(p)
    /\ UNCHANGED <<routes, files>>

-------------------------------------------------------------------------------
(* cleanup, and what stop --all does *)

\* The next definition with the routes of every directory removed.
UnregisterEverything(p) ==
    /\ pc[p] = "unregister"
    /\ routes' = {}
    /\ doomed' = [doomed EXCEPT ![p] = {override[p]} \ {None}]
    /\ Goto(p, "removeOverride")
    /\ UNCHANGED <<files, containers, cmd, used, batch, override, mishaps>>

\* The next definition without the removal of the override.
UnregisterOnly(p) ==
    /\ pc[p] = "unregister"
    /\ routes' = Unregistered(routes, cmd[p].dir)
    /\ Goto(p, "removeOverride")
    /\ UNCHANGED <<files, containers, cmd, used, batch, override, doomed, mishaps>>

\* The error of UnregisterRoutes is ignored.
Unregister(p) ==
    /\ pc[p] = "unregister"
    /\ \/ routes' = Unregistered(routes, cmd[p].dir) /\ UNCHANGED mishaps
       \/ Note("unregister") /\ UNCHANGED routes
    /\ doomed' = [doomed EXCEPT ![p] = {override[p]} \ {None}]
    /\ Goto(p, "removeOverride")
    /\ UNCHANGED <<files, containers, cmd, used, batch, override>>

UnregisterAll(p) ==
    /\ pc[p] = "unregisterAll"
    /\ routes' = {}
    /\ doomed' = [doomed EXCEPT ![p] = OverridesOf(routes)]
    /\ Note("stop --all")
    /\ Goto(p, "removeOverride")
    /\ UNCHANGED <<files, containers, cmd, used, batch, override>>

\* RemoveOverride, once for each path; its error is ignored.
RemoveOverride(p) ==
    /\ pc[p] \in {"removeOverride", "discard"}
    /\ \E o \in doomed[p] :
         /\ \/ files' = {f \in files : f.id # o} /\ UNCHANGED mishaps
            \/ Note("removeOverride") /\ UNCHANGED files
         /\ doomed' = [doomed EXCEPT ![p] = @ \ {o}]
    /\ UNCHANGED <<routes, containers, pc, cmd, used, batch, override>>

OverridesRemoved(p) ==
    /\ pc[p] \in {"removeOverride", "discard"}
    /\ doomed[p] = {}
    /\ \/ pc[p] = "discard" /\ Exit(p)
       \/ /\ pc[p] = "removeOverride"
          /\ Goto(p, "stopProxy")
          /\ UNCHANGED <<cmd, used, batch, override, doomed>>
    /\ UNCHANGED <<shared, mishaps>>

\* HasRoutes, which only cleanup asks, and Daemon.Stop: whatever comes of
\* them, the command returns.
StopProxy(p) ==
    /\ pc[p] = "stopProxy"
    /\ Exit(p)
    /\ UNCHANGED <<shared, mishaps>>

-------------------------------------------------------------------------------
\* A call of the manager fails, the compose file does not parse, a label does
\* not resolve, no port or no temporary directory is to be had: the command
\* returns an error.  Only a file already written is removed.
Fail(p) ==
    /\ \/ /\ pc[p] \in {"getRoutes", "getUsedPorts", "prepare", "unregisterAll"}
          /\ Exit(p)
       \/ /\ pc[p] = "register"
          /\ Goto(p, "discard")
          /\ doomed' = [doomed EXCEPT ![p] = {override[p]}]
          /\ batch' = [batch EXCEPT ![p] = {}]
          /\ UNCHANGED <<cmd, used, override>>
    /\ UNCHANGED <<shared, mishaps>>

\* The process is killed, also by a Ctrl-C before docker compose runs.
Crash(p) ==
    /\ pc[p] # "idle"
    /\ Note("crash")
    /\ Exit(p)
    /\ UNCHANGED shared

Next ==
    \E p \in Procs :
       \/ Begin(p) \/ GetRoutes(p) \/ GetUsedPorts(p) \/ Prepare(p) \/ Register(p)
       \/ EnsureRunning(p) \/ Exec(p) \/ Detach(p)
       \/ Unregister(p) \/ UnregisterAll(p) \/ RemoveOverride(p) \/ OverridesRemoved(p)
       \/ StopProxy(p) \/ Fail(p) \/ Crash(p)

Spec == Init /\ [][Next]_vars

-------------------------------------------------------------------------------
(* Properties *)

Subs == {"up", "up -d", "run", "down", "stop --all"}
PC == {"idle", "getRoutes", "getUsedPorts", "prepare", "register", "discard",
       "ensureRunning", "exec", "attached", "unregister", "unregisterAll",
       "removeOverride", "stopProxy"}

ServiceNames == UNION {{s.name : s \in Services(d)} : d \in Dirs}
Hosts == UNION {{s.host : s \in Services(d)} : d \in Dirs}

Route == [dir : Dirs, service : ServiceNames, host : Hosts,
          port : Ports, override : OverrideIds]
File == [id : OverrideIds, dir : Dirs,
         ports : SUBSET [service : ServiceNames, port : Ports]]
Container == [dir : Dirs, service : ServiceNames, port : Ports]
Command == [sub : Subcommands, dir : Dirs]

LocalsOK ==
    /\ pc \in [Procs -> PC]
    /\ cmd \in [Procs -> Command \cup {NoCommand}]
    /\ used \in [Procs -> SUBSET Ports]
    /\ batch \in [Procs -> SUBSET Route]
    /\ override \in [Procs -> OverrideIds \cup {None}]
    /\ doomed \in [Procs -> SUBSET OverrideIds]
    /\ \A p \in Procs :
         /\ doomed[p] # {} => pc[p] \in {"discard", "removeOverride"}
         /\ pc[p] = "idle" => used[p] = {} /\ batch[p] = {} /\ override[p] = None
         /\ pc[p] # "idle" => cmd[p] \in Command
         /\ pc[p] = "register" => override[p] # None

(***************************************************************************)
(* Type correctness; a command that has returned has no locals, and one    *)
(* that is removing files is the only one that has files to remove.        *)
(***************************************************************************)
TypeOK ==
    /\ routes \subseteq Route
    /\ files \subseteq File
    /\ containers \subseteq Container
    /\ LocalsOK
    /\ mishaps \subseteq Noted

(***************************************************************************)
(* The override of a registered route exists, so that the next command of  *)
(* its project can run: passthrough.go:234-236 hands the path to docker    *)
(* compose unseen.  Whatever commands of the same and of other directories *)
(* interleave and die, only an UnregisterRoutes whose error cleanup        *)
(* ignores (passthrough.go:307) can break this.                            *)
(***************************************************************************)
RegisteredHaveOverride ==
    "unregister" \notin mishaps => OverridesOf(routes) \subseteq FileIds

(***************************************************************************)
(* A command never hands docker compose the override of another project,   *)
(* though it uses a path it has read from state.json some steps ago.       *)
(***************************************************************************)
OverrideOfOwnProject ==
    \A p \in Procs, f \in files : f.id = override[p] => f.dir = cmd[p].dir

(***************************************************************************)
(* A command changes nothing that belongs to another directory: neither    *)
(* routes nor override files nor containers.  Only stop --all does.        *)
(***************************************************************************)
KeepsOthers(p) ==
    \A d \in Dirs \ {cmd[p].dir} :
       /\ RoutesOf(routes', d) = RoutesOf(routes, d)
       /\ {f \in files' : f.dir = d} = {f \in files : f.dir = d}
       /\ {c \in containers' : c.dir = d} = ContainersOf(d)

CommandsStayHome ==
    [][\A p \in Procs :
         pc'[p] # pc[p] \/ doomed'[p] # doomed[p] =>
           cmd[p].sub = "stop --all" \/ KeepsOthers(p)]_vars

(***************************************************************************)
(* No two routes have the same host port: what "ports are assigned         *)
(* automatically, without EADDRINUSE" (README.md:14) comes down to.        *)
(***************************************************************************)
PortsUnique == \A r, s \in routes : r.port = s.port => r = s

AtRest == \A p \in Procs : pc[p] = "idle"

(***************************************************************************)
(* Between commands, every override file is that of a registered project:  *)
(* a detached project's is removed by down, an attached one's at the end   *)
(* (spec.md:492-493), unless the removal itself fails, which nobody is     *)
(* told (passthrough.go:209 and 310, stop.go:41), or the command dies.     *)
(***************************************************************************)
NoOverrideLeak ==
    AtRest /\ mishaps \cap {"crash", "removeOverride"} = {} =>
      FileIds \subseteq OverridesOf(routes)

(***************************************************************************)
(* The proxy never sends a request to a container of another service or    *)
(* project: if a container is published at the port of a route, it is that *)
(* of the route's own service.  Routes and containers come and go          *)
(* separately: stop --all and a failing docker compose leave containers    *)
(* that no route is for, deaths leave routes without containers, and       *)
(* projects brought up in between get other ports all the same.            *)
(***************************************************************************)
RoutesReachOwn ==
    \A r \in routes, c \in containers :
       c.port = r.port => c.dir = r.dir /\ c.service = r.service

(***************************************************************************)
(* The port of every container is that of its service's route: what the    *)
(* proxy routes to is what docker compose published.  For commands given   *)
(* one after the other, also if they die or UnregisterRoutes fails.        *)
(***************************************************************************)
ContainersRouted ==
    mishaps \cap {"docker", "stop --all"} = {} =>
      \A c \in containers : \E r \in routes :
         r.dir = c.dir /\ r.service = c.service /\ r.port = c.port
=============================================================================
