------------------------------- MODULE Registry -------------------------------
(***************************************************************************)
(* What internal/state promises to the commands and to the proxy: one      *)
(* table of routes on which every call takes effect at once, or not at     *)
(* all.  Two things can end the promise.  A process that dies while it     *)
(* saves leaves a table nobody can read; and once the lock of a process    *)
(* inside has been broken, anything may happen.                            *)
(*                                                                         *)
(* StateStore implements this specification.                               *)
(***************************************************************************)
EXTENDS Routes

CONSTANTS Procs,      \* processes that call the manager
          Dirs,       \* project directories
          Batches,    \* the sets of routes RegisterRoutes is called with
          Unreadable  \* the table when state.json does not parse

VARIABLES table,      \* the registered routes
          op,         \* the call each process is in, or was in last
          outcome,    \* how that call ended, "pending" while it has not
          broken      \* has the lock failed to exclude?

registryVars == <<table, op, outcome, broken>>

Ops ==
    {[kind |-> "register", batch |-> b] : b \in Batches}
      \cup {[kind |-> "unregister", dir |-> d] : d \in Dirs}
      \cup {[kind |-> "unregisterAll"], [kind |-> "load"]}

\* The errors the functions given to WithLock return.
Refused(o, routes) == o.kind = "register" /\ Conflicts(routes, o.batch)

\* What they do to s.Routes when they return none.
Applied(o, routes) ==
    CASE o.kind = "register" -> Registered(routes, o.batch)
      [] o.kind = "unregister" -> Unregistered(routes, o.dir)
      [] o.kind = "unregisterAll" -> {}
      [] o.kind = "load" -> routes

Ends(p, how) == outcome' = [outcome EXCEPT ![p] = how]

RegistryInit ==
    /\ table = {}
    /\ op = [p \in Procs |-> [kind |-> "load"]]
    /\ outcome = [p \in Procs |-> "ok"]
    /\ broken = FALSE

Call(p, o) ==
    /\ outcome[p] # "pending"
    /\ op' = [op EXCEPT ![p] = o]
    /\ Ends(p, "pending")
    /\ UNCHANGED table

\* The call takes effect: the only step that changes what can be read.
Succeed(p) ==
    /\ outcome[p] = "pending"
    /\ table # Unreadable
    /\ ~Refused(op[p], table)
    /\ table' = Applied(op[p], table)
    /\ Ends(p, "ok")
    /\ UNCHANGED op

Refuse(p) ==
    /\ outcome[p] = "pending"
    /\ table # Unreadable
    /\ Refused(op[p], table)
    /\ Ends(p, "conflict")
    /\ UNCHANGED <<table, op>>

\* The table cannot be read, and no call can change that.
CannotRead(p) ==
    /\ outcome[p] = "pending"
    /\ table = Unreadable
    /\ Ends(p, "unreadable")
    /\ UNCHANGED <<table, op>>

\* A change that is not completed has not happened, or the table is lost.
NothingOrLost(p) ==
    \/ table' = table
    \/ op[p].kind # "load" /\ table' = Unreadable

\* The lock is not to be had, or the file cannot be opened or written.
Fail(p) ==
    /\ outcome[p] = "pending"
    /\ NothingOrLost(p)
    /\ Ends(p, "error")
    /\ UNCHANGED op

Die(p) ==
    /\ IF outcome[p] = "pending" THEN NothingOrLost(p) ELSE UNCHANGED table
    /\ Ends(p, "dead")
    /\ UNCHANGED op

RegistryNext ==
    \/ /\ \E p \in Procs :
             \/ \E o \in Ops : Call(p, o)
             \/ Succeed(p) \/ Refuse(p) \/ CannotRead(p) \/ Fail(p) \/ Die(p)
       /\ UNCHANGED broken
    \/ broken'

RegistrySpec == RegistryInit /\ [][RegistryNext]_registryVars
=============================================================================
