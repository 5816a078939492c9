----------------------------- MODULE RoutesProofs -----------------------------
(* What the functions of routes.go preserve, for every set of routes. *)
EXTENDS Routes, TLAPS

LEMMA BatchDirIsCommon ==
    ASSUME NEW batch, OneDirectory(batch), NEW r \in batch
    PROVE  r.dir = BatchDir(batch)
<1>1. BatchDir(batch) \in {s.dir : s \in batch}
  BY DEF BatchDir
<1> QED
  BY <1>1 DEF OneDirectory

(***************************************************************************)
(* A batch that passes the hostname check keeps hostnames unique, even if  *)
(* it takes over hostnames its own directory had before.                   *)
(***************************************************************************)
LEMMA RegisteredKeepsHosts ==
    ASSUME NEW routes, HostsUnique(routes),
           NEW batch, OneDirectory(batch), ~Conflicts(routes, batch)
    PROVE  HostsUnique(Registered(routes, batch))
<1>1. CASE batch = {}
  BY <1>1 DEF Registered
<1>2. CASE batch # {}
  <2> SUFFICES ASSUME NEW r \in (routes \ RoutesOf(routes, BatchDir(batch))) \cup batch,
                      NEW s \in (routes \ RoutesOf(routes, BatchDir(batch))) \cup batch,
                      r.host = s.host
               PROVE  r.dir = s.dir
    BY <1>2 DEF Registered, HostsUnique
  <2>1. CASE r \in batch /\ s \in batch
    BY <2>1 DEF OneDirectory
  <2>2. CASE r \in batch /\ s \in routes
    BY <2>2, BatchDirIsCommon DEF Conflicts
  <2>3. CASE r \in routes /\ s \in batch
    BY <2>3, BatchDirIsCommon DEF Conflicts
  <2>4. CASE r \in routes /\ s \in routes
    BY <2>4 DEF HostsUnique
  <2> QED
    BY <2>1, <2>2, <2>3, <2>4
<1> QED
  BY <1>1, <1>2

LEMMA UnregisteredKeepsHosts ==
    ASSUME NEW routes, HostsUnique(routes), NEW d
    PROVE  HostsUnique(Unregistered(routes, d))
  BY DEF HostsUnique, Unregistered

(***************************************************************************)
(* After a registration the batch is all its directory has.                *)
(***************************************************************************)
LEMMA RegisteredReplaces ==
    ASSUME NEW routes, NEW batch, OneDirectory(batch), batch # {}
    PROVE  RoutesOf(Registered(routes, batch), BatchDir(batch)) = batch
  BY BatchDirIsCommon DEF Registered, RoutesOf

(***************************************************************************)
(* No other directory's routes are touched by a registration, ...          *)
(***************************************************************************)
LEMMA RegisteredSparesOthers ==
    ASSUME NEW routes, NEW batch, OneDirectory(batch),
           NEW d, batch # {} => d # BatchDir(batch)
    PROVE  RoutesOf(Registered(routes, batch), d) = RoutesOf(routes, d)
  BY BatchDirIsCommon DEF Registered, RoutesOf

(***************************************************************************)
(* ... nor by a removal.                                                   *)
(***************************************************************************)
LEMMA UnregisteredSparesOthers ==
    ASSUME NEW routes, NEW d, NEW e
    PROVE  RoutesOf(Unregistered(routes, d), e) = IF e = d THEN {} ELSE RoutesOf(routes, e)
  BY DEF Unregistered, RoutesOf
=============================================================================
