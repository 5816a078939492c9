------------------------------ MODULE StateStore ------------------------------
(***************************************************************************)
(* The Manager of internal/state/state.go: Load and WithLock on            *)
(* state.json, under the lock of lock.go, at the grain of the file system  *)
(* calls.  os.WriteFile truncates the file and then writes it, in place.   *)
(*                                                                         *)
(* A file that does not exist is read as a State without routes, so it is  *)
(* the same as one that holds none.  The lock is BreakableLock, which      *)
(* FileLock implements; its removal by another process is LockGoes.        *)
(***************************************************************************)
EXTENDS BreakableLock, Routes

CONSTANTS Dirs, Batches,
          Empty,    \* state.json truncated and not written again
          Garbled,  \* state.json with bytes that do not parse
          Unreadable

\* Every route passthrough.go:131-139 builds is of the current directory.
ASSUME BatchesAssumption == \A b \in Batches : OneDirectory(b)
ASSUME ContentAssumption ==
    \A routes \in SUBSET UNION Batches : routes \notin {Empty, Garbled, Unreadable}

VARIABLES disk,      \* what state.json holds
          pc,
          op,        \* the call a process is in, or was in last
          snapshot,  \* the routes loadUnlocked gave it
          outcome    \* how the call ended, "pending" while it has not

storeVars == <<disk, pc, op, snapshot, outcome>>
vars == <<lockVars, storeVars>>

\* The table as a caller sees it: a change counts from the write on.
Writers == {p \in Procs : pc[p] = "write"}

TableSeen ==
    IF Writers # {} THEN snapshot[CHOOSE p \in Writers : TRUE]
    ELSE IF disk \in {Empty, Garbled} THEN Unreadable
    ELSE disk

Table == INSTANCE Registry WITH table <- TableSeen

Goto(p, l) == pc' = [pc EXCEPT ![p] = l]

Ends(p, how) == outcome' = [outcome EXCEPT ![p] = how]

\* The deferred Unlock comes next, however the call ended.
Returning(p, how) == Goto(p, "unlock") /\ Ends(p, how)

Init ==
    /\ LockInit
    /\ disk = {}
    /\ pc = [p \in Procs |-> "idle"]
    /\ op = [p \in Procs |-> [kind |-> "load"]]
    /\ snapshot = [p \in Procs |-> {}]
    /\ outcome = [p \in Procs |-> "ok"]

Call(p, o) ==
    /\ pc[p] = "idle"
    /\ Goto(p, "lock")
    /\ op' = [op EXCEPT ![p] = o]
    /\ Ends(p, "pending")
    /\ UNCHANGED <<lockVars, disk, snapshot>>

\* The next definition without m.lock.Lock.
LockSkipped(p) ==
    /\ pc[p] = "lock"
    /\ Goto(p, "read")
    /\ inside' = inside \cup {p}
    /\ UNCHANGED <<holder, broken, disk, op, snapshot, outcome>>

LockSucceeds(p) ==
    /\ pc[p] = "lock"
    /\ Acquire(p)
    /\ Goto(p, "read")
    /\ UNCHANGED <<disk, op, snapshot, outcome>>

LockFails(p) ==
    /\ pc[p] = "lock"
    /\ Goto(p, "idle")
    /\ Ends(p, "error")
    /\ UNCHANGED <<lockVars, disk, op, snapshot>>

\* loadUnlocked, and the function given to WithLock: a conflict, or new routes
\* to save.  Load returns what it read.
ReadState(p) ==
    /\ pc[p] = "read"
    /\ \/ /\ disk \in {Empty, Garbled}
          /\ Returning(p, "unreadable")
          /\ UNCHANGED snapshot
       \/ /\ disk \notin {Empty, Garbled}
          /\ Table!Refused(op[p], disk)
          /\ Returning(p, "conflict")
          /\ UNCHANGED snapshot
       \/ /\ disk \notin {Empty, Garbled}
          /\ op[p].kind = "load"
          /\ Returning(p, "ok")
          /\ UNCHANGED snapshot
       \/ /\ disk \notin {Empty, Garbled}
          /\ op[p].kind # "load" /\ ~Table!Refused(op[p], disk)
          /\ Goto(p, "truncate")
          /\ snapshot' = [snapshot EXCEPT ![p] = disk]
          /\ UNCHANGED outcome
    /\ UNCHANGED <<lockVars, disk, op>>

Truncate(p) ==
    /\ pc[p] = "truncate"
    /\ disk' = Empty
    /\ Goto(p, "write")
    /\ UNCHANGED <<lockVars, op, snapshot, outcome>>

\* Every writer writes from the start of the file: what another one has
\* written since the truncation shows behind a shorter text.
Write(p) ==
    /\ pc[p] = "write"
    /\ \/ disk' = Table!Applied(op[p], snapshot[p])
       \/ disk # Empty /\ disk' = Garbled
    /\ Returning(p, "ok")
    /\ UNCHANGED <<lockVars, op, snapshot>>

\* WriteFile cannot open the file, or cannot write all of it.
SaveFails(p) ==
    /\ \/ pc[p] = "truncate" /\ UNCHANGED disk
       \/ pc[p] = "write" /\ disk' = Garbled
    /\ Returning(p, "error")
    /\ UNCHANGED <<lockVars, op, snapshot>>

\* The next definition before the state is saved: a defer too early.
UnlockEarly(p) ==
    /\ \/ pc[p] = "truncate" /\ Leave(p) /\ UNCHANGED pc
       \/ pc[p] = "unlock" /\ Goto(p, "idle")
          /\ IF p \in inside THEN Leave(p) ELSE UNCHANGED lockVars
    /\ UNCHANGED <<disk, op, snapshot, outcome>>

Unlock(p) ==
    /\ pc[p] = "unlock"
    /\ Leave(p)
    /\ Goto(p, "idle")
    /\ snapshot' = [snapshot EXCEPT ![p] = {}]
    /\ UNCHANGED <<disk, op, outcome>>

Crash(p) ==
    /\ pc[p] # "idle"
    /\ IF p \in inside THEN Leave(p) ELSE UNCHANGED lockVars
    /\ Goto(p, "idle")
    /\ Ends(p, "dead")
    /\ snapshot' = [snapshot EXCEPT ![p] = {}]
    /\ UNCHANGED <<disk, op>>

\* The lock directory goes away, by Unlock or by a process that waits for it.
LockGoes ==
    /\ Free \/ Break
    /\ UNCHANGED storeVars

Next ==
    \/ \E p \in Procs :
         \/ \E o \in Table!Ops : Call(p, o)
         \/ LockSucceeds(p) \/ LockFails(p)
         \/ ReadState(p) \/ Truncate(p) \/ Write(p) \/ SaveFails(p)
         \/ Unlock(p) \/ Crash(p)
    \/ LockGoes

Spec == Init /\ [][Next]_vars

-------------------------------------------------------------------------------
(* Properties *)

Protected == {"read", "truncate", "write"}
PC == {"idle", "lock", "unlock"} \cup Protected
Outcomes == {"ok", "pending", "conflict", "unreadable", "error", "dead"}
RouteSets == SUBSET UNION Batches

(***************************************************************************)
(* Type correctness of the file and of every call; a process has the lock  *)
(* exactly while it is in the part of the code the lock protects, and a    *)
(* call is pending exactly until its outcome is settled.                   *)
(***************************************************************************)
TypeOK ==
    /\ LockTypeOK
    /\ inside = {p \in Procs : pc[p] \in Protected \cup {"unlock"}}
    /\ \A p \in Procs : outcome[p] = "pending" <=> pc[p] \in Protected \cup {"lock"}
    /\ disk \in RouteSets \cup {Empty, Garbled}
    /\ pc \in [Procs -> PC]
    /\ op \in [Procs -> Table!Ops]
    /\ snapshot \in [Procs -> RouteSets]
    /\ outcome \in [Procs -> Outcomes]

(***************************************************************************)
(* The manager is an atomic Registry: as long as no lock was broken, no    *)
(* update is lost, no call sees another one's save half done, and a call   *)
(* that returns an error has changed nothing (unless it lost the table).   *)
(***************************************************************************)
ImplementsRegistry == Table!RegistrySpec

(***************************************************************************)
(* Whenever state.json can be read, no hostname belongs to two             *)
(* directories.  This one survives a broken lock: concurrent writers lose  *)
(* each other's routes, but each saves a table that was checked as a whole *)
(* (routes.go:18-27), so it is what handler.go may rely on.                *)
(***************************************************************************)
HostsStayUnique == disk \notin {Empty, Garbled} => HostsUnique(disk)

(***************************************************************************)
(* Whenever state.json can be read, a directory has all the routes of one  *)
(* RegisterRoutes call or none: passthrough.go:237 takes the override of   *)
(* the first one for all of them.  This survives a broken lock as well.    *)
(***************************************************************************)
WholeBatches ==
    disk \notin {Empty, Garbled} =>
      \A d \in Dirs : RoutesOf(disk, d) \in {{}} \cup Batches

(***************************************************************************)
(* What README.md:199-200 and SETUP.md say: stop --all resets the state    *)
(* after a crash.  UnregisterAllRoutes has no use for the old table.       *)
(***************************************************************************)
StopAllResets ==
    ~broken =>
      \A p \in Procs :
        op[p].kind = "unregisterAll" => outcome[p] # "unreadable"
=============================================================================
