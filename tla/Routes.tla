-------------------------------- MODULE Routes --------------------------------
(***************************************************************************)
(* The functions internal/state/routes.go applies to the routes of a       *)
(* State.  A route is a record with at least the fields dir (Directory)    *)
(* and host (Hostname); the routes of a State are a set of such records.   *)
(* Their order in the file is left out: routes[0] is only used for fields  *)
(* that all the routes of a batch share.                                   *)
(***************************************************************************)

RoutesOf(routes, d) == {r \in routes : r.dir = d}

\* routes[0].Directory: every route of a batch is of the directory it is for.
BatchDir(batch) == CHOOSE d \in {r.dir : r \in batch} : TRUE

\* The next definition looking at the routes the batch will replace.
ConflictsAtHome(routes, batch) ==
    \E new \in batch, existing \in routes :
       existing.host = new.host /\ existing.dir = BatchDir(batch)

\* The hostname check: only other directories can be in the way.
Conflicts(routes, batch) ==
    \E new \in batch, existing \in routes :
       existing.host = new.host /\ existing.dir # BatchDir(batch)

\* The next definition without the removal of the directory's old routes.
RegisteredAdding(routes, batch) == routes \cup batch

\* An empty batch changes nothing; any other replaces its directory's routes.
Registered(routes, batch) ==
    IF batch = {} THEN routes
    ELSE (routes \ RoutesOf(routes, BatchDir(batch))) \cup batch

Unregistered(routes, d) == routes \ RoutesOf(routes, d)

(***************************************************************************)
(* What a set of routes has to be for handler.go to route by hostname and  *)
(* for passthrough.go to find a directory's override in routes[0].         *)
(***************************************************************************)
HostsUnique(routes) ==
    \A r, s \in routes : r.host = s.host => r.dir = s.dir

OneDirectory(batch) == \A r, s \in batch : r.dir = s.dir
=============================================================================
