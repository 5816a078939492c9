--------------------------- MODULE ProxyDaemonProofs ---------------------------
(***************************************************************************)
(* What holds of the proxy for any number of commands and daemons, however *)
(* they interleave, fail and die.                                          *)
(***************************************************************************)
EXTENDS ProxyDaemon, TLAPS

(***************************************************************************)
(* The part of TypeOK that is about processes, and the part that is about  *)
(* commands.                                                               *)
(***************************************************************************)
DaemonsOK ==
    /\ daemon \in [Daemons -> Status]
    /\ parent \in [Daemons -> Procs \cup {None}]
    /\ signalled \subseteq Daemons
    /\ emptied \subseteq Listening \cup {d \in Daemons : daemon[d] = "closing"}
    /\ \A d, e \in Listening : d = e
    /\ \A d \in signalled : ~Ended(d)
    /\ \A d \in Daemons : daemon[d] = "gone" => parent[d] = None

CommandsOK ==
    /\ routes \subseteq Procs
    /\ pidFile \in Daemons \cup {None}
    /\ pc \in [Procs -> PC]
    /\ pid \in [Procs -> Daemons \cup {None}]
    /\ outdated \subseteq Procs \cup Daemons
    /\ mishap \in BOOLEAN

Waiting == \A p \in Procs : pc[p] = "waitStop" => \E d \in Daemons : pid[p] = d /\ parent[d] = p

LEMMA TypeOKParts ==
    /\ TypeOK <=> DaemonsOK /\ CommandsOK /\ Waiting
    /\ TypeOK' <=> DaemonsOK' /\ CommandsOK' /\ Waiting'
  BY DEF TypeOK, DaemonsOK, CommandsOK, Waiting

LEMMA EndsOK ==
    ASSUME DaemonsOK, NEW d \in Daemons, Ends(d)
    PROVE  DaemonsOK'
  BY DEF DaemonsOK, Ends, Status, Listening, Ended

LEMMA ExitOK ==
    ASSUME TypeOK, NEW p \in Procs, Exit(p), UNCHANGED routes,
           pidFile' \in Daemons \cup {None}, mishap' \in BOOLEAN
    PROVE  TypeOK'
<1>1. DaemonsOK'
  BY ProxyAssumption, TypeOKParts DEF DaemonsOK, Exit, Status, Listening, Ended
<1>2. CommandsOK'
  BY TypeOKParts DEF CommandsOK, Exit, Goto, PC
<1>3. Waiting'
  BY TypeOKParts DEF Waiting, DaemonsOK, CommandsOK, Exit, Goto
<1> QED
  BY <1>1, <1>2, <1>3, TypeOKParts

LEMMA ComposeOK ==
    ASSUME TypeOK, NEW p \in Procs, Compose(p), UNCHANGED <<routes, pidFile, mishap>>
    PROVE  TypeOK'
<1>1. CASE Exit(p)
  BY <1>1, ExitOK DEF TypeOK
<1>2. CASE Goto(p, "attached") /\ UNCHANGED <<daemons, pid, outdated>>
  BY <1>2 DEF TypeOK, Goto, PC, daemons, Listening, Ended
<1> QED
  BY <1>1, <1>2 DEF Compose

(***************************************************************************)
(* Type correctness is preserved, action by action.                        *)
(***************************************************************************)
LEMMA TypeOKInductive ==
    /\ Init => TypeOK
    /\ TypeOK /\ [Next]_vars => TypeOK'
<1>1. Init => TypeOK
  BY DEF Init, TypeOK, Status, PC, Listening, Ended
<1>2. ASSUME TypeOK, [Next]_vars PROVE TypeOK'
  <2> USE <1>2
  <2>1. ASSUME NEW p \in Procs, Register(p) PROVE TypeOK'
    BY <2>1 DEF Register, Begins, TypeOK, Goto, PC, daemons, Listening, Ended
  <2>2. ASSUME NEW p \in Procs, Attach(p) PROVE TypeOK'
    BY <2>2 DEF Attach, Begins, TypeOK, Goto, PC, daemons, Listening, Ended
  <2>3. ASSUME NEW p \in Procs, EnsureRunning(p) PROVE TypeOK'
    <3>1. CASE Compose(p)
      BY <2>3, <3>1, ComposeOK DEF EnsureRunning
    <3>2. CASE Goto(p, "start") /\ UNCHANGED <<daemons, pid, outdated>>
      BY <2>3, <3>2 DEF EnsureRunning, TypeOK, Goto, PC, daemons, Listening, Ended
    <3> QED
      BY <2>3, <3>1, <3>2 DEF EnsureRunning
  <2>4. ASSUME NEW p \in Procs, StartProcess(p) PROVE TypeOK'
    <3>1. PICK d \in FreshDaemons :
             /\ daemon' = [daemon EXCEPT ![d] = "starting"]
             /\ parent' = [parent EXCEPT ![d] = p]
             /\ pid' = [pid EXCEPT ![p] = d]
             /\ outdated' = outdated \ {d}
      BY <2>4 DEF StartProcess
    <3>2. /\ d \in Daemons /\ daemon[d] = "gone"
          /\ UNCHANGED <<routes, pidFile, signalled, emptied>>
          /\ pc[p] = "start" /\ Goto(p, "writePid")
          /\ mishap' \in BOOLEAN
      BY <2>4, <3>1 DEF StartProcess, FreshDaemons, TypeOK
    <3>3. DaemonsOK'
      BY <3>1, <3>2, TypeOKParts DEF DaemonsOK, Status, Listening, Ended
    <3>4. CommandsOK'
      BY <3>1, <3>2, TypeOKParts DEF CommandsOK, Goto, PC
    <3>5. parent[d] = None
      BY <3>2 DEF TypeOK
    <3>6. Waiting'
      BY <3>1, <3>2, <3>5, ProxyAssumption, TypeOKParts DEF Waiting, DaemonsOK, CommandsOK, Goto
    <3> QED
      BY <3>3, <3>4, <3>6, TypeOKParts
  <2>5. ASSUME NEW p \in Procs, WritePid(p) PROVE TypeOK'
    BY <2>5 DEF WritePid, TypeOK, Goto, PC, daemons, Listening, Ended
  <2>6. ASSUME NEW p \in Procs, Ready(p) PROVE TypeOK'
    BY <2>6, ComposeOK DEF Ready
  <2>7. ASSUME NEW p \in Procs, StartFails(p) PROVE TypeOK'
    BY <2>7, ExitOK DEF StartFails, Mishap, TypeOK
  <2>8. ASSUME NEW p \in Procs, Unregister(p) PROVE TypeOK'
    <3>1. routes' \subseteq routes
      BY <2>8 DEF Unregister
    <3> QED
      BY <2>8, <3>1 DEF Unregister, Begins, TypeOK, Goto, PC, daemons, Listening, Ended
  <2>9. ASSUME NEW p \in Procs, UnregisterAll(p) PROVE TypeOK'
    BY <2>9 DEF UnregisterAll, Begins, TypeOK, Goto, PC, daemons, Listening, Ended
  <2>10. ASSUME NEW p \in Procs, HasRoutes(p) PROVE TypeOK'
    <3>1. CASE Exit(p)
      <4>1. UNCHANGED <<routes, pidFile>> /\ mishap' \in BOOLEAN
        BY <2>10 DEF HasRoutes, Mishap, TypeOK
      <4> QED
        BY <3>1, <4>1, ExitOK DEF TypeOK
    <3>2. CASE Goto(p, "stop") /\ UNCHANGED <<daemons, pid, outdated, mishap>>
      BY <2>10, <3>2 DEF HasRoutes, TypeOK, Goto, PC, daemons, Listening, Ended
    <3> QED
      BY <2>10, <3>1, <3>2 DEF HasRoutes
  <2>11. ASSUME NEW p \in Procs, Stop(p) PROVE TypeOK'
    <3>0. pc[p] = "terminate" /\ UNCHANGED <<routes, pidFile, mishap>>
      BY <2>11 DEF Stop
    <3>1. CASE Exit(p)
      BY <3>0, <3>1, ExitOK DEF TypeOK
    <3>2. CASE Goto(p, "cleanup") /\ UNCHANGED <<daemons, pid, outdated>>
      BY <3>0, <3>2 DEF TypeOK, Goto, PC, daemons, Listening, Ended
    <3>3. CASE /\ Exists(pidFile)
               /\ Terminate(p, pidFile)
               /\ IF parent[pidFile] = p
                    THEN Goto(p, "waitStop") /\ pid' = [pid EXCEPT ![p] = pidFile]
                    ELSE Goto(p, "cleanup") /\ UNCHANGED pid
      <4>1. pidFile \in Daemons /\ daemon[pidFile] # "gone"
        BY <3>3 DEF Exists, TypeOK
      <4>2. DaemonsOK'
        BY <3>3, <4>1, TypeOKParts DEF Terminate, DaemonsOK, Listening, Ended
      <4>3. CommandsOK'
        BY <3>0, <3>3, <4>1, TypeOKParts DEF Terminate, CommandsOK, Goto, PC
      <4>4. Waiting'
        BY <3>0, <3>3, <4>1, TypeOKParts DEF Terminate, Waiting, CommandsOK, Goto
      <4> QED
        BY <4>2, <4>3, <4>4, TypeOKParts
    <3> QED
      BY <2>11, <3>1, <3>2, <3>3 DEF Stop
  <2>23. ASSUME NEW p \in Procs, IsRunning(p) PROVE TypeOK'
    <3>1. CASE Exit(p)
      BY <2>23, <3>1, ExitOK DEF IsRunning, TypeOK
    <3>2. CASE Goto(p, "terminate") /\ UNCHANGED <<daemons, pid, outdated>>
      BY <2>23, <3>2 DEF IsRunning, TypeOK, Goto, PC, daemons, Listening, Ended
    <3> QED
      BY <2>23, <3>1, <3>2 DEF IsRunning
  <2>12. ASSUME NEW p \in Procs, WaitStop(p) PROVE TypeOK'
    <3>1. PICK d \in Daemons : pid[p] = d /\ parent[d] = p
      BY <2>12 DEF WaitStop, TypeOK
    <3>2. /\ pc[p] = "waitStop" /\ UNCHANGED <<routes, pidFile, outdated, mishap>>
          /\ pid' = [pid EXCEPT ![p] = None] /\ Goto(p, "cleanup")
      BY <2>12 DEF WaitStop
    <3>3. CommandsOK'
      BY <3>2, TypeOKParts DEF CommandsOK, Goto, PC
    <3>4. CASE /\ daemon[d] = "zombie"
               /\ daemon' = [daemon EXCEPT ![d] = "gone"]
               /\ parent' = [parent EXCEPT ![d] = None]
               /\ UNCHANGED <<signalled, emptied>>
      <4>1. DaemonsOK'
        BY <3>4, TypeOKParts DEF DaemonsOK, Status, Listening, Ended
      <4>2. Waiting'
        BY <3>1, <3>2, <3>4, TypeOKParts DEF DaemonsOK, CommandsOK, Waiting, Goto
      <4> QED
        BY <3>3, <4>1, <4>2, TypeOKParts
    <3>5. CASE daemon[d] # "zombie" /\ Ends(d)
      <4>1. DaemonsOK'
        BY <3>5, EndsOK, TypeOKParts
      <4>2. Waiting'
        BY <3>2, <3>5, TypeOKParts DEF CommandsOK, Waiting, Goto, Ends
      <4> QED
        BY <3>3, <4>1, <4>2, TypeOKParts
    <3> QED
      BY <2>12, <3>1, <3>4, <3>5 DEF WaitStop
  <2>13. ASSUME NEW p \in Procs, Cleanup(p) PROVE TypeOK'
    BY <2>13, ExitOK DEF Cleanup, TypeOK
  <2>14. ASSUME NEW p \in Procs, Crash(p) PROVE TypeOK'
    BY <2>14, ExitOK DEF Crash, Mishap, TypeOK
  <2>15. ASSUME NEW d \in Daemons, Ends(d), UNCHANGED <<routes, pidFile, locals, outdated>>,
                mishap' \in BOOLEAN
         PROVE TypeOK'
    <3>1. DaemonsOK'
      BY <2>15, EndsOK, TypeOKParts
    <3>2. CommandsOK' /\ Waiting'
      BY <2>15, TypeOKParts DEF CommandsOK, Waiting, locals, Ends
    <3> QED
      BY <3>1, <3>2, TypeOKParts
  <2>16. ASSUME NEW d \in Daemons, NEW s \in Status \ {"gone", "zombie"},
                daemon[d] \notin {"gone", "zombie"},
                daemon' = [daemon EXCEPT ![d] = s],
                s = "listening" => Listening = {},
                emptied' = IF s = "deaf" THEN emptied \ {d} ELSE emptied,
                d \in emptied => daemon[d] = "listening" /\ s \in {"deaf", "closing"},
                UNCHANGED <<parent, signalled>>, Unaffected
         PROVE TypeOK'
    <3>1. DaemonsOK'
      BY <2>16, TypeOKParts DEF DaemonsOK, Listening, Ended, Status
    <3>2. CommandsOK' /\ Waiting'
      BY <2>16, TypeOKParts DEF CommandsOK, Waiting, locals, Unaffected
    <3> QED
      BY <3>1, <3>2, TypeOKParts
  <2>17. ASSUME NEW d \in Daemons, Listen(d) PROVE TypeOK'
    <3>1. CASE Ends(d)
      BY <2>17, <3>1, <2>15 DEF Listen, Unaffected, TypeOK
    <3>2. CASE /\ Listening = {}
               /\ daemon' = [daemon EXCEPT ![d] = "listening"]
               /\ UNCHANGED <<parent, signalled, emptied>>
      <4>1. d \notin emptied /\ daemon[d] = "starting"
        BY <2>17 DEF Listen, TypeOK, Listening
      <4> QED
        BY <2>17, <3>2, <4>1, <2>16 DEF Listen, Status
    <3> QED
      BY <2>17, <3>1, <3>2 DEF Listen
  <2>18. ASSUME NEW d \in Daemons, CheckRoutes(d) PROVE TypeOK'
    BY <2>18 DEF CheckRoutes, Unaffected, locals, TypeOK, Listening, Ended
  <2>19. ASSUME NEW d \in Daemons, SelfShutdown(d) PROVE TypeOK'
    BY <2>19, <2>16 DEF SelfShutdown, Status, Listening
  <2>20. ASSUME NEW d \in Daemons, Receive(d) PROVE TypeOK'
    <3>1. CASE Ends(d)
      BY <2>20, <3>1, <2>15 DEF Receive, Unaffected, TypeOK
    <3>2. CASE /\ daemon[d] \in {"listening", "deaf"}
               /\ daemon' = [daemon EXCEPT ![d] = "closing"]
               /\ UNCHANGED <<parent, signalled, emptied>>
      <4>1. d \in emptied => daemon[d] = "listening"
        BY <3>2 DEF TypeOK, Listening
      <4> QED
        BY <2>20, <3>2, <4>1, <2>16 DEF Receive, Status
    <3> QED
      BY <2>20, <3>1, <3>2 DEF Receive
  <2>21. ASSUME NEW d \in Daemons, Closed(d) \/ Dies(d) PROVE TypeOK'
    BY <2>21, <2>15 DEF Closed, Dies, Mishap, Unaffected, TypeOK
  <2>22. CASE UNCHANGED vars
    BY <2>22 DEF vars, daemons, locals, TypeOK, Listening, Ended
  <2> QED
    BY <2>1, <2>2, <2>3, <2>4, <2>5, <2>6, <2>7, <2>8, <2>9, <2>10, <2>11, <2>12, <2>13,
       <2>14, <2>17, <2>18, <2>19, <2>20, <2>21, <2>22, <2>23 DEF Next, Continues, Serves
<1> QED
  BY <1>1, <1>2

(***************************************************************************)
(* The state of every command and of every daemon is of its type, at most  *)
(* one daemon listens, and a command waits only for a daemon of its own.   *)
(***************************************************************************)
THEOREM TypeCorrect == Spec => []TypeOK
<1>1. Init => TypeOK
  BY TypeOKInductive
<1>2. TypeOK /\ [Next]_vars => TypeOK'
  BY TypeOKInductive
<1> QED
  BY <1>1, <1>2, PTL DEF Spec

-------------------------------------------------------------------------------
(***************************************************************************)
(* Why a command stops the proxy, why a daemon is closing, and what a      *)
(* command waits for.                                                      *)
(***************************************************************************)
CommandReasons == \A p \in Procs : pc[p] \in Stopping => routes = {} \/ p \in outdated

DaemonReasons == \A d \in emptied \cup signalled : routes = {} \/ d \in outdated

WaitReasons == \A p \in Procs : pc[p] = "waitStop" => pid[p] \in signalled \/ Ended(pid[p])

Reasons == CommandReasons /\ DaemonReasons /\ WaitReasons

\* A step of a command that leaves the daemons and the history alone.
LEMMA CommandStepReasons ==
    ASSUME TypeOK, Reasons, NEW p \in Procs, NEW l \in PC \ {"waitStop"}, Goto(p, l),
           pid' = pid \/ pid' = [pid EXCEPT ![p] = None],
           routes' \subseteq routes,
           l \in Stopping => pc[p] \in Stopping \/ routes' = {},
           UNCHANGED <<daemons, outdated>>
    PROVE  Reasons'
<1>1. CommandReasons' /\ DaemonReasons'
  BY DEF Reasons, CommandReasons, DaemonReasons, TypeOK, Goto, daemons, Stopping
<1>2. WaitReasons'
  BY DEF Reasons, WaitReasons, TypeOK, Goto, daemons, Ended
<1> QED
  BY <1>1, <1>2 DEF Reasons

LEMMA ExitReasons ==
    ASSUME TypeOK, Reasons, NEW p \in Procs, Exit(p), UNCHANGED routes
    PROVE  Reasons'
<1>1. emptied \cup signalled \subseteq Daemons
  BY DEF TypeOK, Listening
<1>2. CommandReasons'
  BY DEF Reasons, CommandReasons, TypeOK, Exit, Goto, Stopping
<1>3. DaemonReasons'
  BY <1>1, ProxyAssumption DEF Reasons, DaemonReasons, Exit
<1>4. WaitReasons'
  <2> SUFFICES ASSUME NEW q \in Procs, pc'[q] = "waitStop"
               PROVE  (pid[q] \in signalled \/ Ended(pid[q]))'
    BY DEF WaitReasons
  <2>1. q # p /\ pc[q] = "waitStop" /\ pid'[q] = pid[q]
    BY DEF Exit, Goto, TypeOK
  <2>2. pid[q] \in Daemons /\ (pid[q] \in signalled \/ Ended(pid[q]))
    BY <2>1 DEF Reasons, WaitReasons, TypeOK
  <2> QED
    BY <2>1, <2>2 DEF Exit, Ended, TypeOK
<1> QED
  BY <1>2, <1>3, <1>4 DEF Reasons

LEMMA ComposeReasons ==
    ASSUME TypeOK, Reasons, NEW p \in Procs, Compose(p), UNCHANGED routes
    PROVE  Reasons'
<1>1. CASE Exit(p)
  BY <1>1, ExitReasons
<1>2. CASE Goto(p, "attached") /\ UNCHANGED <<daemons, pid, outdated>>
  BY <1>2, CommandStepReasons DEF PC, Stopping
<1> QED
  BY <1>1, <1>2 DEF Compose

\* A step of a daemon that gives nobody a reason to close.
LEMMA DaemonStepReasons ==
    ASSUME Reasons, UNCHANGED <<routes, locals, outdated>>,
           emptied' \subseteq emptied, signalled' \subseteq signalled,
           \A d \in Daemons : Ended(d) => Ended(d)',
           \A d \in Daemons : d \in signalled => d \in signalled' \/ Ended(d)',
           TypeOK
    PROVE  Reasons'
<1>1. CommandReasons' /\ DaemonReasons'
  BY DEF Reasons, CommandReasons, DaemonReasons, locals
<1>2. WaitReasons'
  <2> SUFFICES ASSUME NEW q \in Procs, pc'[q] = "waitStop"
               PROVE  (pid[q] \in signalled \/ Ended(pid[q]))'
    BY DEF WaitReasons
  <2>1. pc[q] = "waitStop" /\ pid'[q] = pid[q]
    BY DEF locals
  <2>2. pid[q] \in Daemons /\ (pid[q] \in signalled \/ Ended(pid[q]))
    BY <2>1 DEF Reasons, WaitReasons, TypeOK
  <2> QED
    BY <2>1, <2>2 DEF Ended
<1> QED
  BY <1>1, <1>2 DEF Reasons

LEMMA EndsReasons ==
    ASSUME TypeOK, Reasons, NEW d \in Daemons, Ends(d), UNCHANGED <<routes, locals, outdated>>
    PROVE  Reasons'
<1>1. emptied' \subseteq emptied /\ signalled' \subseteq signalled
  BY DEF Ends
<1>2. \A e \in Daemons : Ended(e) => Ended(e)'
  BY DEF Ends, Ended, TypeOK
<1>3. \A e \in Daemons : e \in signalled => e \in signalled' \/ Ended(e)'
  BY DEF Ends, Ended, TypeOK
<1> QED
  BY <1>1, <1>2, <1>3, DaemonStepReasons

LEMMA ReasonsInductive ==
    /\ Init => Reasons
    /\ TypeOK /\ Reasons /\ [Next]_vars => Reasons'
<1>1. Init => Reasons
  BY DEF Init, Reasons, CommandReasons, DaemonReasons, WaitReasons
<1>2. ASSUME TypeOK, Reasons, [Next]_vars PROVE Reasons'
  <2> USE <1>2
  <2>0. emptied \cup signalled \subseteq Daemons
    BY DEF TypeOK, Listening
  <2>1. ASSUME NEW p \in Procs, Register(p) PROVE Reasons'
    <3>1. CommandReasons'
      BY <2>1 DEF Register, Begins, Goto, CommandReasons, Reasons, TypeOK, Stopping
    <3>2. DaemonReasons'
      BY <2>1 DEF Register, DaemonReasons, daemons
    <3>3. WaitReasons'
      BY <2>1 DEF Register, Goto, WaitReasons, Reasons, TypeOK, daemons, Ended
    <3> QED
      BY <3>1, <3>2, <3>3 DEF Reasons
  <2>2. ASSUME NEW p \in Procs, Attach(p) PROVE Reasons'
    BY <2>2, CommandStepReasons DEF Attach, PC, Stopping
  <2>3. ASSUME NEW p \in Procs, EnsureRunning(p) PROVE Reasons'
    <3>1. CASE Compose(p)
      BY <2>3, <3>1, ComposeReasons DEF EnsureRunning
    <3>2. CASE Goto(p, "start") /\ UNCHANGED <<daemons, pid, outdated>>
      BY <2>3, <3>2, CommandStepReasons DEF EnsureRunning, PC, Stopping
    <3> QED
      BY <2>3, <3>1, <3>2 DEF EnsureRunning
  <2>4. ASSUME NEW p \in Procs, StartProcess(p) PROVE Reasons'
    <3>1. PICK d \in FreshDaemons :
             /\ daemon' = [daemon EXCEPT ![d] = "starting"]
             /\ pid' = [pid EXCEPT ![p] = d]
             /\ outdated' = outdated \ {d}
      BY <2>4 DEF StartProcess
    <3>2. /\ d \in Daemons /\ daemon[d] = "gone" /\ \A q \in Procs : pid[q] # d
          /\ UNCHANGED <<routes, signalled, emptied>> /\ Goto(p, "writePid")
      BY <2>4, <3>1 DEF StartProcess, FreshDaemons
    <3>3. d \notin emptied \cup signalled
      BY <3>2 DEF TypeOK, Listening, Ended
    <3>4. CommandReasons'
      BY <3>1, <3>2, ProxyAssumption DEF CommandReasons, Reasons, Goto, TypeOK, Stopping
    <3>5. DaemonReasons'
      BY <3>1, <3>2, <3>3 DEF DaemonReasons, Reasons
    <3>6. WaitReasons'
      BY <3>1, <3>2 DEF WaitReasons, Reasons, Goto, TypeOK, Ended
    <3> QED
      BY <3>4, <3>5, <3>6 DEF Reasons
  <2>5. ASSUME NEW p \in Procs, WritePid(p) PROVE Reasons'
    BY <2>5, CommandStepReasons DEF WritePid, PC, Stopping
  <2>6. ASSUME NEW p \in Procs, Ready(p) PROVE Reasons'
    BY <2>6, ComposeReasons DEF Ready
  <2>7. ASSUME NEW p \in Procs,
               StartFails(p) \/ Cleanup(p) \/ Crash(p)
        PROVE  Reasons'
    BY <2>7, ExitReasons DEF StartFails, Cleanup, Crash
  <2>8. ASSUME NEW p \in Procs, Unregister(p) PROVE Reasons'
    BY <2>8, CommandStepReasons DEF Unregister, PC, Stopping
  <2>9. ASSUME NEW p \in Procs, UnregisterAll(p) PROVE Reasons'
    BY <2>9, CommandStepReasons DEF UnregisterAll, PC, Stopping
  <2>10. ASSUME NEW p \in Procs, HasRoutes(p) PROVE Reasons'
    <3>1. CASE Exit(p)
      BY <2>10, <3>1, ExitReasons DEF HasRoutes
    <3>2. CASE routes = {} /\ Goto(p, "stop") /\ UNCHANGED <<daemons, pid, outdated>>
      BY <2>10, <3>2, CommandStepReasons DEF HasRoutes, PC, Stopping
    <3> QED
      BY <2>10, <3>1, <3>2 DEF HasRoutes
  <2>11. ASSUME NEW p \in Procs, Stop(p) PROVE Reasons'
    <3>0. pc[p] = "terminate" /\ UNCHANGED routes
      BY <2>11 DEF Stop
    <3>1. CASE Exit(p)
      BY <3>0, <3>1, ExitReasons
    <3>2. CASE Goto(p, "cleanup") /\ UNCHANGED <<daemons, pid, outdated>>
      BY <3>0, <3>2, CommandStepReasons DEF PC, Stopping
    <3>3. CASE /\ Exists(pidFile)
               /\ Terminate(p, pidFile)
               /\ IF parent[pidFile] = p
                    THEN Goto(p, "waitStop") /\ pid' = [pid EXCEPT ![p] = pidFile]
                    ELSE Goto(p, "cleanup") /\ UNCHANGED pid
      <4>1. pidFile \in Daemons
        BY <3>3 DEF Exists, TypeOK
      <4>2. routes = {} \/ p \in outdated
        BY <3>0 DEF Reasons, CommandReasons, Stopping
      <4>3. CommandReasons'
        BY <3>0, <3>3, <4>1 DEF CommandReasons, Reasons, Terminate, Goto, TypeOK, Stopping
      <4>4. DaemonReasons'
        BY <3>0, <3>3, <4>2 DEF DaemonReasons, Reasons, Terminate
      <4>5. WaitReasons'
        BY <3>0, <3>3, <4>1 DEF WaitReasons, Reasons, Terminate, Goto, TypeOK, Ended
      <4> QED
        BY <4>3, <4>4, <4>5 DEF Reasons
    <3> QED
      BY <2>11, <3>1, <3>2, <3>3 DEF Stop
  <2>19. ASSUME NEW p \in Procs, IsRunning(p) PROVE Reasons'
    <3>1. CASE Exit(p)
      BY <2>19, <3>1, ExitReasons DEF IsRunning
    <3>2. CASE Goto(p, "terminate") /\ UNCHANGED <<daemons, pid, outdated>>
      BY <2>19, <3>2, CommandStepReasons DEF IsRunning, PC, Stopping
    <3> QED
      BY <2>19, <3>1, <3>2 DEF IsRunning
  <2>12. ASSUME NEW p \in Procs, WaitStop(p) PROVE Reasons'
    <3>1. PICK d \in Daemons : pid[p] = d
      BY <2>12 DEF WaitStop, TypeOK
    <3>2. /\ UNCHANGED <<routes, outdated>>
          /\ pid' = [pid EXCEPT ![p] = None] /\ Goto(p, "cleanup")
      BY <2>12 DEF WaitStop
    <3>3. /\ emptied' \subseteq emptied /\ signalled \ {d} \subseteq signalled'
          /\ signalled' \subseteq signalled
          /\ Ended(d)' /\ \A e \in Daemons \ {d} : daemon'[e] = daemon[e]
      BY <2>12, <3>1 DEF WaitStop, Ends, Ended, TypeOK
    <3>4. CommandReasons' /\ DaemonReasons'
      BY <3>2, <3>3 DEF CommandReasons, DaemonReasons, Reasons, Goto, TypeOK, Stopping
    <3>5. WaitReasons'
      <4> SUFFICES ASSUME NEW q \in Procs, pc'[q] = "waitStop"
                   PROVE  (pid[q] \in signalled \/ Ended(pid[q]))'
        BY DEF WaitReasons
      <4>1. pc[q] = "waitStop" /\ pid'[q] = pid[q]
        BY <3>2 DEF Goto, TypeOK
      <4>2. pid[q] \in Daemons /\ (pid[q] \in signalled \/ Ended(pid[q]))
        BY <4>1 DEF Reasons, WaitReasons, TypeOK
      <4> QED
        BY <3>3, <4>1, <4>2 DEF Ended
    <3> QED
      BY <3>4, <3>5 DEF Reasons
  <2>13. ASSUME NEW d \in Daemons, Ends(d), Unaffected \/ Dies(d) PROVE Reasons'
    BY <2>13, EndsReasons DEF Unaffected, Dies
  <2>14. ASSUME NEW d \in Daemons, NEW s \in Status \ {"gone", "zombie"}, ~Ended(d),
                daemon' = [daemon EXCEPT ![d] = s],
                emptied' \subseteq emptied, UNCHANGED signalled, Unaffected
         PROVE  Reasons'
    <3>1. \A e \in Daemons : Ended(e) => Ended(e)'
      BY <2>14 DEF Ended, TypeOK
    <3> QED
      BY <2>14, <3>1, DaemonStepReasons DEF Unaffected
  <2>15. ASSUME NEW d \in Daemons, Serves(d) PROVE Reasons'
    <3>1. CASE Ends(d)
      BY <2>13, <2>15, <3>1 DEF Serves, Listen, SelfShutdown, Receive, Closed
    <3>2. CASE ~Ends(d)
      <4>1. PICK s \in Status \ {"gone", "zombie"} : daemon' = [daemon EXCEPT ![d] = s]
        BY <2>15, <3>2 DEF Serves, Listen, SelfShutdown, Receive, Closed, Status
      <4>2. ~Ended(d) /\ emptied' \subseteq emptied /\ UNCHANGED signalled /\ Unaffected
        BY <2>15, <3>2 DEF Serves, Listen, SelfShutdown, Receive, Closed, Ended, Listening
      <4> QED
        BY <4>1, <4>2, <2>14
    <3> QED
      BY <3>1, <3>2
  <2>16. ASSUME NEW d \in Daemons, CheckRoutes(d) PROVE Reasons'
    <3>1. CommandReasons' /\ WaitReasons'
      BY <2>16 DEF CheckRoutes, Unaffected, locals, Reasons, CommandReasons, WaitReasons, Ended
    <3>2. DaemonReasons'
      BY <2>16 DEF CheckRoutes, Unaffected, DaemonReasons
    <3> QED
      BY <3>1, <3>2 DEF Reasons
  <2>17. ASSUME NEW d \in Daemons, Dies(d) PROVE Reasons'
    BY <2>13, <2>17 DEF Dies
  <2>18. CASE UNCHANGED vars
    BY <2>18 DEF vars, daemons, locals, Reasons, CommandReasons, DaemonReasons, WaitReasons, Ended
  <2> QED
    BY <2>1, <2>2, <2>3, <2>4, <2>5, <2>6, <2>7, <2>8, <2>9, <2>10, <2>11, <2>12,
       <2>15, <2>16, <2>17, <2>18, <2>19 DEF Next, Continues
<1> QED
  BY <1>1, <1>2

(***************************************************************************)
(* With such reasons, no step closes a listener without one.               *)
(***************************************************************************)
LEMMA ClosingStepHasReason ==
    ASSUME TypeOK, Reasons, [Next]_vars, NEW d \in Listening \ Listening'
    PROVE  routes = {} \/ d \in outdated \/ Dies(d)
<1>1. d \in Daemons /\ daemon[d] = "listening" /\ daemon'[d] # "listening"
  BY DEF Listening
<1>2. CASE d \in emptied \cup signalled
  BY <1>2 DEF Reasons, DaemonReasons
<1>3. ASSUME d \notin emptied \cup signalled, ~Dies(d) PROVE FALSE
  <2>1. ASSUME NEW p \in Procs, Exit(p) PROVE FALSE
    BY <2>1, <1>1 DEF Exit
  <2>2. ASSUME NEW p \in Procs, StartProcess(p) PROVE FALSE
    BY <2>2, <1>1 DEF StartProcess, FreshDaemons, TypeOK
  <2>3. ASSUME NEW p \in Procs, WaitStop(p) PROVE FALSE
    <3>1. PICK e \in Daemons : pid[p] = e
      BY <2>3 DEF WaitStop, TypeOK
    <3>2. e # d
      BY <2>3, <3>1, <1>1, <1>3 DEF WaitStop, Reasons, WaitReasons, Ended
    <3> QED
      BY <2>3, <3>1, <3>2, <1>1 DEF WaitStop, Ends, TypeOK
  <2>4. ASSUME NEW e \in Daemons, Serves(e) \/ CheckRoutes(e) \/ Dies(e) PROVE FALSE
    <3>1. e # d
      BY <2>4, <1>1, <1>3 DEF Serves, Listen, SelfShutdown, Receive, Closed, CheckRoutes
    <3> QED
      BY <2>4, <3>1, <1>1
      DEF Serves, Listen, SelfShutdown, Receive, Closed, CheckRoutes, Dies, Ends, TypeOK
  <2>5. CASE UNCHANGED daemon
    BY <2>5, <1>1
  <2> QED
    BY <2>1, <2>2, <2>3, <2>4, <2>5
    DEF Next, Continues, Register, Attach, Unregister, UnregisterAll, EnsureRunning, WritePid,
        Ready, StartFails, HasRoutes, IsRunning, Stop, Terminate, Cleanup, Crash, Compose, vars, daemons
<1> QED
  BY <1>2, <1>3

(***************************************************************************)
(* No interleaving of commands, daemons, crashes and errors makes a proxy  *)
(* stop listening under routes that were there when its end was decided.   *)
(***************************************************************************)
THEOREM ClosesOnlyForReason == Spec => ClosesForReason
<1>1. Init => TypeOK /\ Reasons
  BY TypeOKInductive, ReasonsInductive
<1>2. TypeOK /\ Reasons /\ [Next]_vars => (TypeOK /\ Reasons)'
  BY TypeOKInductive, ReasonsInductive
<1>3. TypeOK /\ Reasons /\ [Next]_vars =>
        [\A d \in Listening \ Listening' : routes = {} \/ d \in outdated \/ Dies(d)]_vars
  BY ClosingStepHasReason
<1> QED
  BY <1>1, <1>2, <1>3, PTL DEF Spec, ClosesForReason

-------------------------------------------------------------------------------
(***************************************************************************)
(* Commands given one after the other: what the PID file and the listeners *)
(* are like at each point of the one command that runs.                    *)
(***************************************************************************)
\* The proxy serves, and nobody is about to close it.
Up == Listening = {pidFile} /\ pidFile \notin signalled \cup emptied

\* There is none, but for one that is about to close.
Down == pidFile = None /\ Listening \subseteq signalled

\* The daemon d listens, or will.
Coming(d) ==
    /\ d \in Daemons /\ daemon[d] \in {"starting", "listening"}
    /\ d \notin signalled \cup emptied
    /\ Listening \subseteq {d}

\* The proxy is there to be stopped; its self-check may be faster.
Idling ==
    /\ pidFile \in Daemons /\ daemon[pidFile] \in {"listening", "deaf"}
    /\ pidFile \notin signalled
    /\ Listening \subseteq {pidFile}

Phase(p) ==
    /\ pc[p] = "ensureRunning" => routes # {} /\ (Up \/ Down)
    /\ pc[p] = "start" => routes # {} /\ Down
    /\ pc[p] = "writePid" => routes # {} /\ Coming(pid[p])
    /\ pc[p] = "waitForReady" => routes # {} /\ Coming(pidFile)
    /\ pc[p] = "attached" => routes # {} /\ Up
    /\ pc[p] = "hasRoutes" => IF routes = {} THEN Down \/ Idling ELSE Up
    /\ pc[p] = "stop" => routes = {} /\ (Down \/ Idling)
    /\ pc[p] = "terminate" => routes = {} /\ Idling
    /\ pc[p] \in {"waitStop", "cleanup"} => routes = {} /\ Listening \subseteq signalled

Resting == IF routes = {} THEN Down ELSE Up

StartersKnown ==
    \A d \in Daemons : daemon[d] = "starting" =>
      \E p \in Procs : \/ pc[p] = "writePid" /\ pid[p] = d
                       \/ pc[p] = "waitForReady" /\ pidFile = d

OneActive == \A p, q \in Procs : pc[p] # "idle" /\ pc[q] # "idle" => p = q

Orderly ==
    ~mishap =>
      /\ OneActive
      /\ StartersKnown
      /\ AtRest => Resting
      /\ \A p \in Procs : Phase(p)

LEMMA NoStarters ==
    ASSUME TypeOK, Orderly, ~mishap,
           \A q \in Procs : pc[q] \notin {"writePid", "waitForReady"}
    PROVE  \A d \in Daemons : daemon[d] # "starting"
  BY DEF Orderly, StartersKnown

\* What it takes to show for a step of the only command, to a label or to its end.
LEMMA ActiveOrderly ==
    ASSUME TypeOK, NEW p \in Procs, \A q \in Procs \ {p} : pc[q] = "idle",
           NEW l \in PC \ {"idle"}, Goto(p, l), Phase(p)', StartersKnown'
    PROVE  Orderly'
<1>1. pc'[p] = l /\ \A q \in Procs \ {p} : pc'[q] = "idle"
  BY DEF Goto, TypeOK
<1>2. OneActive' /\ ~AtRest'
  BY <1>1 DEF OneActive, AtRest
<1>3. \A q \in Procs : Phase(q)'
  BY <1>1 DEF Phase
<1> QED
  BY <1>2, <1>3 DEF Orderly

LEMMA IdleOrderly ==
    ASSUME TypeOK, NEW p \in Procs, \A q \in Procs \ {p} : pc[q] = "idle",
           Goto(p, "idle"), Resting', StartersKnown'
    PROVE  Orderly'
<1>1. \A q \in Procs : pc'[q] = "idle"
  BY DEF Goto, TypeOK
<1>2. OneActive' /\ \A q \in Procs : Phase(q)'
  BY <1>1 DEF OneActive, Phase
<1> QED
  BY <1>2 DEF Orderly

LEMMA ExitKeeps ==
    ASSUME TypeOK, NEW p \in Procs, Exit(p)
    PROVE  /\ Listening' = Listening /\ signalled' = signalled /\ emptied' = emptied
           /\ \A d \in Daemons : daemon'[d] = "starting" => daemon[d] = "starting"
           /\ Goto(p, "idle")
  BY DEF TypeOK, Exit, Listening

\* The daemon's own steps but Listen.
LEMMA DaemonKeeps ==
    ASSUME TypeOK, NEW d \in Daemons,
           SelfShutdown(d) \/ Receive(d) \/ Closed(d) \/ CheckRoutes(d)
    PROVE  /\ Listening \subseteq signalled => (Listening \subseteq signalled)'
           /\ Down => Down'
           /\ Idling => Idling'
           /\ routes # {} /\ Up => Up'
           /\ \A e : routes # {} /\ Coming(e) => Coming(e)'
           /\ \A e \in Daemons : daemon'[e] = "starting" => daemon[e] = "starting"
<1> USE DEF TypeOK, Status, Listening, Ended, Unaffected, locals, Ends
<1>1. ASSUME SelfShutdown(d)
      PROVE  /\ Listening' = Listening \ {d} /\ d \in Listening /\ d \in emptied
             /\ signalled' = signalled /\ emptied' = emptied \ {d}
             /\ \A e \in Daemons : daemon'[e] = IF e = d THEN "deaf" ELSE daemon[e]
  BY <1>1 DEF SelfShutdown
<1>2. ASSUME Receive(d) \/ Closed(d)
      PROVE  /\ Listening' = Listening \ {d}
             /\ d \in signalled \/ daemon[d] = "closing"
             /\ signalled \ {d} \subseteq signalled' /\ signalled' \subseteq signalled
             /\ emptied' \subseteq emptied
             /\ daemon'[d] # "starting"
             /\ \A e \in Daemons \ {d} : daemon'[e] = daemon[e]
  BY <1>2 DEF Receive, Closed
<1>3. ASSUME CheckRoutes(d)
      PROVE  /\ UNCHANGED <<daemon, signalled>> /\ routes = {} /\ Listening' = Listening
  BY <1>3 DEF CheckRoutes
<1>4. UNCHANGED <<routes, pidFile>>
  BY DEF SelfShutdown, Receive, Closed, CheckRoutes
<1> USE DEF Down, Idling, Up, Coming
<1>5. CASE SelfShutdown(d)
  BY <1>5, <1>1, <1>4
<1>6. CASE Receive(d) \/ Closed(d)
  BY <1>6, <1>2, <1>4
<1>7. CASE CheckRoutes(d)
  BY <1>7, <1>3, <1>4
<1> QED
  BY <1>5, <1>6, <1>7

LEMMA OrderlyInductive ==
    /\ Init => Orderly
    /\ TypeOK /\ Orderly /\ [Next]_vars => Orderly'
<1>1. Init => Orderly
  BY DEF Init, Orderly, OneActive, StartersKnown, AtRest, Resting, Down, Up, Phase, Listening
<1>2. ASSUME TypeOK, Orderly, Next PROVE Orderly'
  <2> SUFFICES ASSUME ~mishap' PROVE Orderly'
    BY DEF Orderly
  <2> USE <1>2
  <2>1. ASSUME NEW p \in Procs, Begins(p)
        PROVE  /\ ~mishap /\ Resting /\ pc[p] = "idle"
               /\ \A q \in Procs : pc[q] = "idle"
               /\ \A d \in Daemons : daemon[d] # "starting"
    <3>1. ~mishap /\ \A q \in Procs : pc[q] = "idle"
      BY <2>1 DEF Begins, TypeOK
    <3>2. Resting
      BY <3>1 DEF Orderly, AtRest
    <3> QED
      BY <3>1, <3>2, NoStarters
  <2>2. ASSUME ~mishap, NEW p \in Procs, pc[p] # "idle"
        PROVE  Phase(p) /\ \A q \in Procs \ {p} : pc[q] = "idle"
    BY <2>2 DEF Orderly, OneActive
  <2>3. ASSUME ~mishap, NEW p \in Procs, pc[p] \notin {"idle", "writePid", "waitForReady"}
        PROVE  \A d \in Daemons : daemon[d] # "starting"
    BY <2>2, <2>3, NoStarters
  <2>4. ASSUME NEW p \in Procs, Register(p) PROVE Orderly'
    <3>1. Goto(p, "ensureRunning") /\ routes' # {} /\ UNCHANGED <<pidFile, daemons, pid>> /\ Begins(p)
      BY <2>4 DEF Register
    <3>2. StartersKnown'
      BY <2>1, <3>1 DEF StartersKnown, daemons
    <3>3. Phase(p)'
      BY <2>1, <3>1 DEF Phase, Goto, TypeOK, Resting, Up, Down, Listening, daemons
    <3> QED
      BY <2>1, <3>1, <3>2, <3>3, ActiveOrderly DEF PC
  <2>5. ASSUME NEW p \in Procs, Attach(p) PROVE Orderly'
    <3>1. /\ Goto(p, "attached") /\ routes # {} /\ UNCHANGED <<routes, pidFile, daemons, pid>>
          /\ Begins(p)
      BY <2>5 DEF Attach
    <3>2. StartersKnown'
      BY <2>1, <3>1 DEF StartersKnown, daemons
    <3>3. Phase(p)'
      BY <2>1, <3>1 DEF Phase, Goto, TypeOK, Resting, Up, Listening, daemons
    <3> QED
      BY <2>1, <3>1, <3>2, <3>3, ActiveOrderly DEF PC
  <2>6. ASSUME NEW p \in Procs, Compose(p), ~mishap, pc[p] # "idle", routes # {}, Up,
               UNCHANGED <<routes, pidFile>>, \A d \in Daemons : daemon[d] # "starting"
        PROVE  Orderly'
    <3>1. CASE Exit(p)
      <4>1. StartersKnown' /\ Resting'
        BY <2>6, <3>1, ExitKeeps DEF StartersKnown, Resting, Up
      <4> QED
        BY <2>2, <2>6, <3>1, <4>1, ExitKeeps, IdleOrderly
    <3>2. CASE Goto(p, "attached") /\ UNCHANGED <<daemons, pid, outdated>>
      <4>1. StartersKnown'
        BY <2>6, <3>2 DEF StartersKnown, daemons
      <4>2. Phase(p)'
        BY <2>6, <3>2 DEF Phase, Goto, TypeOK, Up, Listening, daemons
      <4> QED
        BY <2>2, <2>6, <3>2, <4>1, <4>2, ActiveOrderly DEF PC
    <3> QED
      BY <2>6, <3>1, <3>2 DEF Compose
  <2>7. ASSUME NEW p \in Procs, EnsureRunning(p) PROVE Orderly'
    <3>1. /\ ~mishap /\ pc[p] = "ensureRunning" /\ routes # {} /\ (Up \/ Down)
          /\ UNCHANGED <<routes, pidFile>>
      BY <2>7, <2>2 DEF EnsureRunning, Phase
    <3>2. Up => Exists(pidFile)
      BY ProxyAssumption DEF Up, Exists, Listening, TypeOK
    <3>3. Down => ~Exists(pidFile)
      BY DEF Down, Exists
    <3>4. CASE Exists(pidFile)
      BY <2>3, <2>6, <2>7, <3>1, <3>2, <3>3, <3>4 DEF EnsureRunning
    <3>5. CASE ~Exists(pidFile)
      <4>1. Goto(p, "start") /\ UNCHANGED daemons /\ Down
        BY <2>7, <3>1, <3>2, <3>5 DEF EnsureRunning
      <4>2. StartersKnown'
        BY <2>3, <3>1, <4>1 DEF StartersKnown, daemons
      <4>3. Phase(p)'
        BY <3>1, <4>1 DEF Phase, Goto, TypeOK, Down, Listening, daemons
      <4> QED
        BY <2>2, <3>1, <4>1, <4>2, <4>3, ActiveOrderly DEF PC
    <3> QED
      BY <3>4, <3>5
  <2>8. ASSUME NEW p \in Procs, StartProcess(p) PROVE Orderly'
    <3>1. PICK d \in FreshDaemons :
             /\ daemon' = [daemon EXCEPT ![d] = "starting"]
             /\ pid' = [pid EXCEPT ![p] = d]
      BY <2>8 DEF StartProcess
    <3>2. /\ ~mishap /\ Listening = {} /\ pc[p] = "start" /\ Goto(p, "writePid")
          /\ UNCHANGED <<routes, pidFile, signalled, emptied>>
          /\ d \in Daemons /\ daemon[d] = "gone"
      BY <2>8, <3>1 DEF StartProcess, FreshDaemons, TypeOK
    <3>3. d \notin signalled \cup emptied /\ routes # {}
      BY <2>2, <3>2 DEF TypeOK, Ended, Listening, Phase
    <3>4. StartersKnown'
      BY <2>3, <3>1, <3>2 DEF StartersKnown, Goto, TypeOK
    <3>5. Phase(p)'
      BY <3>1, <3>2, <3>3 DEF Phase, Goto, TypeOK, Coming, Listening
    <3> QED
      BY <2>2, <3>2, <3>4, <3>5, ActiveOrderly DEF PC
  <2>9. ASSUME NEW p \in Procs, WritePid(p) PROVE Orderly'
    <3>1. /\ ~mishap /\ pc[p] = "writePid" /\ Goto(p, "waitForReady") /\ pidFile' = pid[p]
          /\ UNCHANGED <<routes, daemons>>
      BY <2>9 DEF WritePid
    <3>2. Coming(pid[p]) /\ routes # {}
      BY <2>2, <3>1 DEF Phase
    <3>3. StartersKnown'
      <4> SUFFICES ASSUME NEW d \in Daemons, daemon[d] = "starting" PROVE pid[p] = d
        BY <3>1 DEF StartersKnown, Goto, TypeOK, daemons
      <4>1. PICK q \in Procs : \/ pc[q] = "writePid" /\ pid[q] = d
                               \/ pc[q] = "waitForReady" /\ pidFile = d
        BY <3>1 DEF Orderly, StartersKnown
      <4>2. q = p
        BY <2>2, <3>1, <4>1
      <4> QED
        BY <3>1, <4>1, <4>2
    <3>4. Phase(p)'
      BY <3>1, <3>2 DEF Phase, Goto, TypeOK, Coming, Listening, daemons
    <3> QED
      BY <2>2, <3>1, <3>3, <3>4, ActiveOrderly DEF PC
  <2>10. ASSUME NEW p \in Procs, Ready(p) PROVE Orderly'
    <3>1. /\ ~mishap /\ pc[p] = "waitForReady" /\ Listening # {} /\ UNCHANGED <<routes, pidFile>>
          /\ Compose(p)
      BY <2>10 DEF Ready
    <3>2. Coming(pidFile) /\ routes # {}
      BY <2>2, <3>1 DEF Phase
    <3>3. Up /\ daemon[pidFile] = "listening"
      BY <3>1, <3>2 DEF Up, Coming, Listening
    <3>4. \A d \in Daemons : daemon[d] # "starting"
      <4> SUFFICES ASSUME NEW d \in Daemons, daemon[d] = "starting" PROVE FALSE
        OBVIOUS
      <4>1. PICK q \in Procs : \/ pc[q] = "writePid" /\ pid[q] = d
                               \/ pc[q] = "waitForReady" /\ pidFile = d
        BY <3>1 DEF Orderly, StartersKnown
      <4>2. q = p
        BY <2>2, <3>1, <4>1
      <4> QED
        BY <3>1, <3>3, <4>1, <4>2
    <3> QED
      BY <2>6, <3>1, <3>2, <3>3, <3>4
  <2>11. ASSUME NEW p \in Procs, Unregister(p) PROVE Orderly'
    <3>1. /\ Goto(p, "hasRoutes") /\ UNCHANGED <<pidFile, daemons, pid>>
          /\ routes' \subseteq routes
      BY <2>11 DEF Unregister
    <3>2. /\ \A q \in Procs \ {p} : pc[q] = "idle"
          /\ \A d \in Daemons : daemon[d] # "starting"
          /\ Resting
      <4>1. CASE Begins(p)
        BY <2>1, <4>1
      <4>2. CASE pc[p] = "attached" /\ UNCHANGED mishap
        BY <2>2, <2>3, <4>2 DEF Phase, Resting
      <4> QED
        BY <2>11, <4>1, <4>2 DEF Unregister
    <3>3. Up => Idling
      BY ProxyAssumption DEF Up, Idling, Listening, TypeOK
    <3>4. Phase(p)'
      BY <3>1, <3>2, <3>3 DEF Phase, Goto, TypeOK, Resting, Up, Down, Idling, Listening, daemons
    <3>5. StartersKnown'
      BY <3>1, <3>2 DEF StartersKnown, daemons
    <3> QED
      BY <3>1, <3>2, <3>4, <3>5, ActiveOrderly DEF PC
  <2>12. ASSUME NEW p \in Procs, UnregisterAll(p) PROVE Orderly'
    <3>1. /\ Goto(p, "stop") /\ UNCHANGED <<pidFile, daemons, pid>> /\ routes' = {} /\ Begins(p)
      BY <2>12 DEF UnregisterAll
    <3>2. Up => Idling
      BY ProxyAssumption DEF Up, Idling, Listening, TypeOK
    <3>3. Phase(p)'
      BY <2>1, <3>1, <3>2 DEF Phase, Goto, TypeOK, Resting, Down, Idling, Listening, daemons
    <3>4. StartersKnown'
      BY <2>1, <3>1 DEF StartersKnown, daemons
    <3> QED
      BY <2>1, <3>1, <3>3, <3>4, ActiveOrderly DEF PC
  <2>13. ASSUME NEW p \in Procs, HasRoutes(p) PROVE Orderly'
    <3>1. ~mishap /\ pc[p] = "hasRoutes" /\ UNCHANGED <<routes, pidFile>>
      BY <2>13 DEF HasRoutes, Mishap, TypeOK
    <3>2. CASE routes = {} /\ Goto(p, "stop") /\ UNCHANGED <<daemons, pid>>
      <4>1. Phase(p)'
        BY <2>2, <3>1, <3>2 DEF Phase, Goto, TypeOK, Down, Idling, Listening, daemons
      <4>2. StartersKnown'
        BY <2>3, <3>1, <3>2 DEF StartersKnown, daemons
      <4> QED
        BY <2>2, <3>1, <3>2, <4>1, <4>2, ActiveOrderly DEF PC
    <3>3. CASE routes # {} /\ Exit(p)
      <4>1. Resting'
        BY <2>2, <3>1, <3>3, ExitKeeps DEF Phase, Resting, Up
      <4>2. StartersKnown'
        BY <2>3, <3>1, <3>3, ExitKeeps DEF StartersKnown
      <4> QED
        BY <2>2, <3>1, <3>3, <4>1, <4>2, ExitKeeps, IdleOrderly
    <3> QED
      BY <2>13, <3>2, <3>3 DEF HasRoutes, Mishap
  <2>14. ASSUME NEW p \in Procs, IsRunning(p) PROVE Orderly'
    <3>1. /\ ~mishap /\ pc[p] = "stop" /\ UNCHANGED <<routes, pidFile>>
      BY <2>14 DEF IsRunning
    <3>2. routes = {} /\ (Down \/ Idling)
      BY <2>2, <3>1 DEF Phase
    <3>3. CASE Exists(pidFile) /\ Goto(p, "terminate") /\ UNCHANGED <<daemons, pid>>
      <4>1. Phase(p)'
        BY <3>1, <3>2, <3>3 DEF Phase, Goto, TypeOK, Exists, Down, Idling, Listening, daemons
      <4>2. StartersKnown'
        BY <2>3, <3>1, <3>3 DEF StartersKnown, daemons
      <4> QED
        BY <2>2, <3>1, <3>3, <4>1, <4>2, ActiveOrderly DEF PC
    <3>4. CASE ~Exists(pidFile) /\ Exit(p)
      <4>1. Down
        BY <3>2, <3>4, ProxyAssumption DEF Exists, Idling
      <4>2. Resting'
        BY <3>1, <3>2, <3>4, <4>1, ExitKeeps DEF Resting, Down
      <4>3. StartersKnown'
        BY <2>3, <3>1, <3>4, ExitKeeps DEF StartersKnown
      <4> QED
        BY <2>2, <3>1, <3>4, <4>2, <4>3, ExitKeeps, IdleOrderly
    <3> QED
      BY <2>14, <3>3, <3>4 DEF IsRunning
  <2>15. ASSUME NEW p \in Procs, Stop(p) PROVE Orderly'
    <3>1. ~mishap /\ pc[p] = "terminate" /\ UNCHANGED <<routes, pidFile>>
      BY <2>15 DEF Stop
    <3>2. routes = {} /\ Idling
      BY <2>2, <3>1 DEF Phase
    <3>3. Exists(pidFile) /\ pidFile # None /\ daemon[pidFile] # "zombie"
      BY <3>2, ProxyAssumption DEF Idling, Exists
    <3>4. PICK l \in {"waitStop", "cleanup"} : Goto(p, l)
      BY <2>15, <3>3 DEF Stop
    <3>5. signalled' = signalled \cup {pidFile} /\ daemon' = daemon
      BY <2>15, <3>3 DEF Stop, Terminate
    <3>6. Phase(p)'
      BY <3>1, <3>2, <3>4, <3>5 DEF Phase, Goto, TypeOK, Idling, Listening
    <3>7. StartersKnown'
      BY <2>3, <3>1, <3>5 DEF StartersKnown
    <3> QED
      BY <2>2, <3>1, <3>4, <3>6, <3>7, ActiveOrderly DEF PC
  <2>16. ASSUME NEW p \in Procs, WaitStop(p) PROVE Orderly'
    <3>1. ~mishap /\ pc[p] = "waitStop" /\ Goto(p, "cleanup") /\ UNCHANGED routes
      BY <2>16 DEF WaitStop
    <3>2. routes = {} /\ Listening \subseteq signalled
      BY <2>2, <3>1 DEF Phase
    <3>3. PICK d \in Daemons : pid[p] = d
      BY <2>16 DEF WaitStop, TypeOK
    <3>4. /\ Listening' = Listening \ {d} /\ signalled \ {d} \subseteq signalled'
          /\ \A e \in Daemons : daemon'[e] = "starting" => daemon[e] = "starting"
      BY <2>16, <3>3 DEF WaitStop, Ends, Listening, TypeOK
    <3>5. Phase(p)'
      BY <3>1, <3>2, <3>4 DEF Phase, Goto, TypeOK
    <3>6. StartersKnown'
      BY <2>3, <3>1, <3>4 DEF StartersKnown
    <3> QED
      BY <2>2, <3>1, <3>5, <3>6, ActiveOrderly DEF PC
  <2>17. ASSUME NEW p \in Procs, Cleanup(p) PROVE Orderly'
    <3>1. ~mishap /\ pc[p] = "cleanup" /\ Exit(p) /\ UNCHANGED routes /\ pidFile' = None
      BY <2>17 DEF Cleanup
    <3>2. routes = {} /\ Listening \subseteq signalled
      BY <2>2, <3>1 DEF Phase
    <3>3. Resting'
      BY <3>1, <3>2, ExitKeeps DEF Resting, Down
    <3>4. StartersKnown'
      BY <2>3, <3>1, ExitKeeps DEF StartersKnown
    <3> QED
      BY <2>2, <3>1, <3>3, <3>4, ExitKeeps, IdleOrderly
  <2>18. ASSUME NEW p \in Procs, StartFails(p) \/ Crash(p) PROVE Orderly'
    BY <2>18 DEF StartFails, Crash, Mishap
  <2>19. ASSUME NEW d \in Daemons,
                SelfShutdown(d) \/ Receive(d) \/ Closed(d) \/ CheckRoutes(d)
         PROVE  Orderly'
    <3>1. ~mishap /\ UNCHANGED <<routes, pidFile, pc, pid>>
      BY <2>19 DEF SelfShutdown, Receive, Closed, CheckRoutes, Unaffected, locals
    <3>2. OneActive' /\ (AtRest => Resting)'
      BY <2>19, <3>1, DaemonKeeps DEF Orderly, OneActive, AtRest, Resting
    <3>3. StartersKnown'
      BY <2>19, <3>1, DaemonKeeps DEF Orderly, StartersKnown
    <3>4. ASSUME NEW p \in Procs PROVE Phase(p)'
      BY <2>19, <3>1, DaemonKeeps DEF Orderly, Phase
    <3> QED
      BY <3>2, <3>3, <3>4 DEF Orderly
  <2>20. ASSUME NEW d \in Daemons, Listen(d) PROVE Orderly'
    <3>1. ~mishap /\ UNCHANGED <<routes, pidFile, pc, pid>> /\ daemon[d] = "starting"
      BY <2>20 DEF Listen, Unaffected, locals
    <3>2. PICK p \in Procs : \/ pc[p] = "writePid" /\ pid[p] = d
                             \/ pc[p] = "waitForReady" /\ pidFile = d
      BY <3>1 DEF Orderly, StartersKnown
    <3>3. /\ \A q \in Procs \ {p} : pc[q] = "idle"
          /\ pc[p] \in PC \ {"idle"} /\ Goto(p, pc[p])
          /\ Coming(d) /\ routes # {}
      BY <2>2, <3>1, <3>2 DEF Phase, PC, Goto, TypeOK
    <3>4. Listening = {} /\ daemon' = [daemon EXCEPT ![d] = "listening"]
          /\ UNCHANGED <<signalled, emptied>>
      BY <2>20, <3>1, <3>3 DEF Listen, Coming, Listening
    <3>5. Coming(d)'
      BY <3>3, <3>4 DEF Coming, Listening, TypeOK
    <3>6. Phase(p)'
      BY <3>1, <3>2, <3>3, <3>5 DEF Phase
    <3>7. StartersKnown'
      BY <3>1, <3>4 DEF Orderly, StartersKnown, TypeOK
    <3> QED
      BY <3>3, <3>6, <3>7, ActiveOrderly
  <2>21. ASSUME NEW d \in Daemons, Dies(d) PROVE Orderly'
    BY <2>21 DEF Dies, Mishap
  <2> QED
    BY <2>4, <2>5, <2>7, <2>8, <2>9, <2>10, <2>11, <2>12, <2>13, <2>14, <2>15, <2>16, <2>17,
       <2>18, <2>19, <2>20, <2>21 DEF Next, Continues, Serves
<1>3. ASSUME Orderly, UNCHANGED vars PROVE Orderly'
  BY <1>3 DEF vars, daemons, locals, Orderly, OneActive, StartersKnown, AtRest, Resting, Phase,
              Up, Down, Coming, Idling, Listening
<1> QED
  BY <1>1, <1>2, <1>3

(***************************************************************************)
(* Between commands given one after the other, without errors and deaths,  *)
(* the proxy listens exactly if there are routes, however many projects    *)
(* and daemons there are.                                                  *)
(***************************************************************************)
THEOREM ListenerAsNeeded == Spec => []ListenerMatchesRoutes
<1>1. Init => TypeOK /\ Orderly
  BY TypeOKInductive, OrderlyInductive
<1>2. TypeOK /\ Orderly /\ [Next]_vars => (TypeOK /\ Orderly)'
  BY TypeOKInductive, OrderlyInductive
<1>3. Orderly => ListenerMatchesRoutes
  BY DEF Orderly, Resting, Up, Down, ListenerMatchesRoutes
<1> QED
  BY <1>1, <1>2, <1>3, PTL DEF Spec
=============================================================================
