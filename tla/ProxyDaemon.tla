------------------------------ MODULE ProxyDaemon ------------------------------
(***************************************************************************)
(* The life of the proxy: daemon.go, which commands start and stop it      *)
(* with, server.go, which runs in it, and the PID file between the two.    *)
(*                                                                         *)
(* Each process is a shell that gives commands in a project of its own; a  *)
(* daemon is a process as well, named by its PID.  One step is one system  *)
(* call on the PID file, the listener or a process; a call of the manager  *)
(* is one step, as in Commands, and so is starting a process.              *)
(***************************************************************************)
CONSTANTS
    Procs,       \* the shells
    Daemons,     \* bound: daemon processes that something still remembers
    None         \* no PID file, no process

ASSUME ProxyAssumption ==
    /\ None \notin Daemons \cup Procs
    /\ Procs \cap Daemons = {}

VARIABLES
    routes,     \* the projects, by their shells, that have routes in state.json
    pidFile,    \* the PID in proxy.pid
    daemon,     \* what each daemon is doing
    parent,     \* the command that started it, while that command runs
    signalled,  \* daemons with a SIGTERM to be received
    emptied,    \* daemons whose self-check has found no routes
    (* each command's locals *)
    pc,
    pid,        \* the process it has started, or waits for
    (* history *)
    outdated,   \* who goes on to close the proxy, or is closing, though
                \* somebody has registered routes since it was decided
    mishap      \* has there been one?

daemons == <<daemon, parent, signalled, emptied>>
locals == <<pc, pid>>
vars == <<routes, pidFile, daemons, locals, outdated, mishap>>

Init ==
    /\ routes = {}
    /\ pidFile = None
    /\ daemon = [d \in Daemons |-> "gone"]
    /\ parent = [d \in Daemons |-> None]
    /\ signalled = {}
    /\ emptied = {}
    /\ pc = [p \in Procs |-> "idle"]
    /\ pid = [p \in Procs |-> None]
    /\ outdated = {}
    /\ mishap = FALSE

-------------------------------------------------------------------------------
Mishap == mishap' = TRUE

Goto(p, l) == pc' = [pc EXCEPT ![p] = l]

\* A process that has not been waited for is there for signal 0, ended or not.
Exists(d) == d # None /\ daemon[d] # "gone"

Listening == {d \in Daemons : daemon[d] = "listening"}

\* The daemon d ends, and leaves a zombie to a command that started it.
Ends(d) ==
    /\ daemon' = [daemon EXCEPT ![d] = IF parent[d] = None THEN "gone" ELSE "zombie"]
    /\ signalled' = signalled \ {d}
    /\ emptied' = emptied \ {d}
    /\ UNCHANGED parent

\* The command returns; init takes over the processes it has started.
Exit(p) ==
    /\ Goto(p, "idle")
    /\ pid' = [pid EXCEPT ![p] = None]
    /\ outdated' = outdated \ {p}
    /\ daemon' = [d \in Daemons |-> IF parent[d] = p /\ daemon[d] = "zombie"
                                      THEN "gone" ELSE daemon[d]]
    /\ parent' = [d \in Daemons |-> IF parent[d] = p THEN None ELSE parent[d]]
    /\ UNCHANGED <<signalled, emptied>>

\* The first step of a command: it is a mishap of its kind if another runs.
Begins(p) ==
    /\ pc[p] = "idle"
    /\ mishap' = (mishap \/ \E q \in Procs : pc[q] # "idle")

-------------------------------------------------------------------------------
(* up *)

Stopping == {"stop", "terminate"}

\* up where there are no routes yet, up to RegisterRoutes.
Register(p) ==
    /\ Begins(p)
    /\ p \notin routes
    /\ routes' = routes \cup {p}
    /\ outdated' = outdated \cup {q \in Procs : pc[q] \in Stopping} \cup emptied \cup signalled
    /\ Goto(p, "ensureRunning")
    /\ UNCHANGED <<pidFile, daemons, pid>>

\* up where there are routes: it only attaches to the containers.
Attach(p) ==
    /\ Begins(p)
    /\ p \in routes
    /\ Goto(p, "attached")
    /\ UNCHANGED <<routes, pidFile, daemons, pid, outdated>>

\* docker compose: an attached up goes on until Ctrl-C, a detached one returns.
Compose(p) ==
    \/ Goto(p, "attached") /\ UNCHANGED <<daemons, pid, outdated>>
    \/ Exit(p)

\* EnsureRunning and IsRunning: signal 0 to the PID in the file.
EnsureRunning(p) ==
    /\ pc[p] = "ensureRunning"
    /\ \/ Exists(pidFile) /\ Compose(p)
       \/ ~Exists(pidFile) /\ Goto(p, "start") /\ UNCHANGED <<daemons, pid, outdated>>
    /\ UNCHANGED <<routes, pidFile, mishap>>

\* PIDs that nothing remembers.
FreshDaemons ==
    {d \in Daemons : daemon[d] = "gone" /\ d # pidFile /\ \A p \in Procs : pid[p] # d}

\* Start.  It is a mishap if the port is still taken, by a proxy that is to close.
StartProcess(p) ==
    /\ pc[p] = "start"
    /\ \E d \in FreshDaemons :
         /\ daemon' = [daemon EXCEPT ![d] = "starting"]
         /\ parent' = [parent EXCEPT ![d] = p]
         /\ pid' = [pid EXCEPT ![p] = d]
         /\ outdated' = outdated \ {d}
    /\ mishap' = (mishap \/ Listening # {})
    /\ Goto(p, "writePid")
    /\ UNCHANGED <<routes, pidFile, signalled, emptied>>

WritePid(p) ==
    /\ pc[p] = "writePid"
    /\ pidFile' = pid[p]
    /\ pid' = [pid EXCEPT ![p] = None]
    /\ Goto(p, "waitForReady")
    /\ UNCHANGED <<routes, daemons, outdated, mishap>>

\* waitForReady: any listener on the port will do.
Ready(p) ==
    /\ pc[p] = "waitForReady"
    /\ Listening # {}
    /\ Compose(p)
    /\ UNCHANGED <<routes, pidFile, mishap>>

\* The next definition without the time limit.
StartFailsBefore(p) ==
    /\ pc[p] \in {"start", "writePid"}
    /\ Mishap
    /\ Exit(p)
    /\ UNCHANGED <<routes, pidFile>>

\* os.Executable, the log file, the process, the PID or the port file fail, or
\* nobody listens for 5 seconds: the command returns an error.
StartFails(p) ==
    /\ pc[p] \in {"start", "writePid", "waitForReady"}
    /\ Mishap
    /\ Exit(p)
    /\ UNCHANGED <<routes, pidFile>>

-------------------------------------------------------------------------------
(* cleanup, and stop --all *)

\* down, or the end of an attached up, from UnregisterRoutes on, whose error is
\* ignored.
Unregister(p) ==
    /\ \/ Begins(p)
       \/ pc[p] = "attached" /\ UNCHANGED mishap
    /\ routes' \in {routes, routes \ {p}}
    /\ Goto(p, "hasRoutes")
    /\ UNCHANGED <<pidFile, daemons, pid, outdated>>

UnregisterAll(p) ==
    /\ Begins(p)
    /\ routes' = {}
    /\ Goto(p, "stop")
    /\ UNCHANGED <<pidFile, daemons, pid, outdated>>

\* The next definition without the question.
HasRoutesUnasked(p) ==
    /\ pc[p] = "hasRoutes"
    /\ Goto(p, "stop")
    /\ UNCHANGED <<routes, pidFile, daemons, pid, outdated, mishap>>

\* Its error counts as yes.
HasRoutes(p) ==
    /\ pc[p] = "hasRoutes"
    /\ \/ routes = {} /\ Goto(p, "stop") /\ UNCHANGED <<daemons, pid, outdated, mishap>>
       \/ routes # {} /\ Exit(p) /\ UNCHANGED mishap
       \/ Mishap /\ Exit(p)
    /\ UNCHANGED <<routes, pidFile>>

\* IsRunning, as cleanup and stop --all ask before Stop: a PID file that names no
\* process stays.
IsRunning(p) ==
    /\ pc[p] = "stop"
    /\ \/ Exists(pidFile) /\ Goto(p, "terminate") /\ UNCHANGED <<daemons, pid, outdated>>
       \/ ~Exists(pidFile) /\ Exit(p)
    /\ UNCHANGED <<routes, pidFile, mishap>>

\* SIGTERM; the daemon is then closing for the reason the command had.
Terminate(p, d) ==
    /\ signalled' = IF daemon[d] = "zombie" THEN signalled ELSE signalled \cup {d}
    /\ outdated' = IF p \in outdated /\ d \notin signalled THEN outdated \cup {d} ELSE outdated
    /\ UNCHANGED <<daemon, parent, emptied>>

\* The next definition as if Wait waited for any process.
StopWaiting(p) ==
    /\ pc[p] = "terminate"
    /\ \/ pidFile = None /\ Exit(p)
       \/ /\ pidFile # None /\ ~Exists(pidFile)
          /\ Goto(p, "cleanup")
          /\ UNCHANGED <<daemons, pid, outdated>>
       \/ /\ Exists(pidFile)
          /\ Terminate(p, pidFile)
          /\ Goto(p, "waitStop") /\ pid' = [pid EXCEPT ![p] = pidFile]
    /\ UNCHANGED <<routes, pidFile, mishap>>

\* Stop.  Wait returns an error at once unless the command has started that very
\* daemon, as an attached up may have.
Stop(p) ==
    /\ pc[p] = "terminate"
    /\ \/ pidFile = None /\ Exit(p)
       \/ /\ pidFile # None /\ ~Exists(pidFile)
          /\ Goto(p, "cleanup")
          /\ UNCHANGED <<daemons, pid, outdated>>
       \/ /\ Exists(pidFile)
          /\ Terminate(p, pidFile)
          /\ IF parent[pidFile] = p
               THEN Goto(p, "waitStop") /\ pid' = [pid EXCEPT ![p] = pidFile]
               ELSE Goto(p, "cleanup") /\ UNCHANGED pid
    /\ UNCHANGED <<routes, pidFile, mishap>>

\* Wait returns, or 5 seconds have passed and the daemon is killed.
WaitStop(p) ==
    LET d == pid[p] IN
    /\ pc[p] = "waitStop"
    /\ \/ /\ daemon[d] = "zombie"
          /\ daemon' = [daemon EXCEPT ![d] = "gone"]
          /\ parent' = [parent EXCEPT ![d] = None]
          /\ UNCHANGED <<signalled, emptied>>
       \/ daemon[d] # "zombie" /\ Ends(d)
    /\ pid' = [pid EXCEPT ![p] = None]
    /\ Goto(p, "cleanup")
    /\ UNCHANGED <<routes, pidFile, outdated, mishap>>

\* The next definition with the file left to whoever comes next.
CleanupNothing(p) ==
    /\ pc[p] = "cleanup"
    /\ Exit(p)
    /\ UNCHANGED <<routes, pidFile, mishap>>

\* The PID file goes, whoever it names by now.
Cleanup(p) ==
    /\ pc[p] = "cleanup"
    /\ pidFile' = None
    /\ Exit(p)
    /\ UNCHANGED <<routes, mishap>>

\* The process is killed.
Crash(p) ==
    /\ pc[p] # "idle"
    /\ Mishap
    /\ Exit(p)
    /\ UNCHANGED <<routes, pidFile>>

-------------------------------------------------------------------------------
(* The daemon: Run and selfCheck *)

Unaffected == UNCHANGED <<routes, pidFile, locals, outdated, mishap>>

\* ListenAndServe, or its error if the port is taken.
Listen(d) ==
    /\ daemon[d] = "starting"
    /\ IF Listening # {}
         THEN Ends(d)
         ELSE /\ daemon' = [daemon EXCEPT ![d] = "listening"]
              /\ UNCHANGED <<parent, signalled, emptied>>
    /\ Unaffected

\* The next definition only for the daemon that the PID file names.
CheckRoutesNamed(d) ==
    /\ d \in Listening /\ d \notin emptied
    /\ routes = {} /\ pidFile = d
    /\ emptied' = emptied \cup {d}
    /\ UNCHANGED <<daemon, parent, signalled>>
    /\ Unaffected

\* selfCheck asks for the routes; with routes, or an error, it does nothing.
CheckRoutes(d) ==
    /\ d \in Listening /\ d \notin emptied
    /\ routes = {}
    /\ emptied' = emptied \cup {d}
    /\ UNCHANGED <<daemon, parent, signalled>>
    /\ Unaffected

\* Shutdown closes the listener.  Run waits for a signal as before: for it
\* ErrServerClosed is no error.
SelfShutdown(d) ==
    /\ d \in emptied /\ d \in Listening
    /\ daemon' = [daemon EXCEPT ![d] = "deaf"]
    /\ emptied' = emptied \ {d}
    /\ UNCHANGED <<parent, signalled>>
    /\ Unaffected

\* The next definition with a Run that is deaf to signals as well.
ReceiveWhileListening(d) ==
    /\ d \in signalled
    /\ \/ daemon[d] = "starting" /\ Ends(d)
       \/ /\ daemon[d] = "listening"
          /\ daemon' = [daemon EXCEPT ![d] = "closing"]
          /\ UNCHANGED <<parent, signalled, emptied>>
    /\ Unaffected

\* SIGTERM: its default action before signal.Notify, else the graceful
\* shutdown, which closes the listener first.
Receive(d) ==
    /\ d \in signalled
    /\ \/ daemon[d] = "starting" /\ Ends(d)
       \/ /\ daemon[d] \in {"listening", "deaf"}
          /\ daemon' = [daemon EXCEPT ![d] = "closing"]
          /\ UNCHANGED <<parent, signalled, emptied>>
    /\ Unaffected

\* Shutdown returns: no connection is busy any more, or 10 seconds have passed.
Closed(d) ==
    /\ daemon[d] = "closing"
    /\ Ends(d)
    /\ Unaffected

\* The daemon is killed from outside.
Dies(d) ==
    /\ daemon[d] \notin {"gone", "zombie"}
    /\ Mishap
    /\ Ends(d)
    /\ UNCHANGED <<routes, pidFile, locals, outdated>>

-------------------------------------------------------------------------------
\* What a command does without the user.
Continues(p) ==
    \/ EnsureRunning(p) \/ StartProcess(p) \/ WritePid(p) \/ Ready(p) \/ StartFails(p)
    \/ HasRoutes(p) \/ IsRunning(p) \/ Stop(p) \/ WaitStop(p) \/ Cleanup(p)

Serves(d) == Listen(d) \/ SelfShutdown(d) \/ Receive(d) \/ Closed(d)

Next ==
    \/ \E p \in Procs :
         \/ Register(p) \/ Attach(p) \/ Unregister(p) \/ UnregisterAll(p)
         \/ Continues(p) \/ Crash(p)
    \/ \E d \in Daemons : Serves(d) \/ CheckRoutes(d) \/ Dies(d)

Spec == Init /\ [][Next]_vars

\* Commands and daemons go on, and the self-check ticks.  Nobody has to give a
\* command, or to end an attached one.
FairSpec ==
    /\ Spec
    /\ \A p \in Procs : WF_vars(Continues(p))
    /\ \A d \in Daemons : WF_vars(Serves(d)) /\ WF_vars(CheckRoutes(d))

-------------------------------------------------------------------------------
(* Properties *)

PC == {"idle", "ensureRunning", "start", "writePid", "waitForReady", "attached",
       "hasRoutes", "stop", "terminate", "waitStop", "cleanup"}
Status == {"gone", "starting", "listening", "deaf", "closing", "zombie"}

Ended(d) == daemon[d] \in {"gone", "zombie"}

(***************************************************************************)
(* Type correctness; at most one daemon listens on the port; what has      *)
(* ended has no parent, no signal and no self-check to act on; and a       *)
(* command waits only for a daemon it has started.                         *)
(***************************************************************************)
TypeOK ==
    /\ routes \subseteq Procs
    /\ pidFile \in Daemons \cup {None}
    /\ daemon \in [Daemons -> Status]
    /\ parent \in [Daemons -> Procs \cup {None}]
    /\ signalled \subseteq Daemons
    /\ emptied \subseteq Listening \cup {d \in Daemons : daemon[d] = "closing"}
    /\ pc \in [Procs -> PC]
    /\ pid \in [Procs -> Daemons \cup {None}]
    /\ outdated \subseteq Procs \cup Daemons
    /\ mishap \in BOOLEAN
    /\ \A d, e \in Listening : d = e
    /\ \A d \in signalled : ~Ended(d)
    /\ \A d \in Daemons : daemon[d] = "gone" => parent[d] = None
    /\ \A p \in Procs : pc[p] = "waitStop" => \E d \in Daemons : pid[p] = d /\ parent[d] = p

(***************************************************************************)
(* A daemon stops listening while routes are registered only if they were  *)
(* registered after it had been decided to close it, by the HasRoutes of a *)
(* command (passthrough.go:315) or of the self-check (server.go:96) or by  *)
(* stop --all, or if it is killed from outside.                            *)
(***************************************************************************)
ClosesForReason ==
    [][\A d \in Listening \ Listening' :
         routes = {} \/ d \in outdated \/ Dies(d)]_vars

AtRest == \A p \in Procs : pc[p] = "idle"

(***************************************************************************)
(* Between commands given one after the other, a proxy that is not about   *)
(* to close listens exactly if there are routes, and it is the one the PID *)
(* file names, so that the next command finds it (spec.md:32, 59 and 70).  *)
(* Not counted are commands that were killed or met an error, a daemon     *)
(* killed from outside, and one started before its predecessor had closed. *)
(***************************************************************************)
ListenerMatchesRoutes ==
    AtRest /\ ~mishap =>
      /\ routes # {} => Listening = {pidFile} /\ pidFile \notin signalled \cup emptied
      /\ routes = {} => pidFile = None /\ Listening \subseteq signalled

(***************************************************************************)
(* Every command comes to its end or to its containers, whatever the       *)
(* daemons do: waitForReady and Stop have their time limits.               *)
(***************************************************************************)
CommandReturns ==
    \A p \in Procs : pc[p] \notin {"idle", "attached"} ~> pc[p] \in {"idle", "attached"}

(***************************************************************************)
(* A daemon that has been sent SIGTERM ends, whatever its self-check does  *)
(* at the same time.                                                       *)
(***************************************************************************)
SignalledEnds == \A d \in Daemons : d \in signalled ~> Ended(d)

(***************************************************************************)
(* Once there are no routes, nobody listens for long, not even a proxy     *)
(* that no PID file names any more: the self-check closes what no command  *)
(* can stop (server.go:99-104).                                            *)
(***************************************************************************)
IdleProxyCloses == routes = {} ~> (routes # {} \/ Listening = {})

(***************************************************************************)
(* What spec.md:32 and 436 say of a proxy that is not needed any more: it  *)
(* ends.                                                                   *)
(***************************************************************************)
DeafEnds == \A d \in Daemons : daemon[d] = "deaf" ~> Ended(d)
=============================================================================
