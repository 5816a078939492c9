--------------------------- MODULE StateStoreProofs ---------------------------
(***************************************************************************)
(* What the Manager of state.go guarantees for every set of processes,     *)
(* directories and batches, under a lock that any process may break.       *)
(***************************************************************************)
EXTENDS StateStore, RoutesProofs

(***************************************************************************)
(* The facts about calls and the functions they apply.                     *)
(***************************************************************************)
LEMMA OpFacts ==
    ASSUME NEW o \in Table!Ops
    PROVE  /\ o.kind \in {"register", "unregister", "unregisterAll", "load"}
           /\ o.kind = "register" => o.batch \in Batches
           /\ o.kind = "unregister" => o.dir \in Dirs
  BY DEF Table!Ops

LEMMA AppliedCases ==
    ASSUME NEW o \in Table!Ops, NEW routes
    PROVE  /\ o.kind = "register" => Table!Applied(o, routes) = Registered(routes, o.batch)
           /\ o.kind = "unregister" => Table!Applied(o, routes) = Unregistered(routes, o.dir)
           /\ o.kind = "unregisterAll" => Table!Applied(o, routes) = {}
           /\ o.kind = "load" => Table!Applied(o, routes) = routes
  BY OpFacts
  DEF Table!Applied, Table!Registered, Registered, Table!RoutesOf, RoutesOf,
      Table!BatchDir, BatchDir, Table!Unregistered, Unregistered

LEMMA AppliedType ==
    ASSUME NEW o \in Table!Ops, NEW routes \in RouteSets
    PROVE  Table!Applied(o, routes) \in RouteSets
<1>1. CASE o.kind = "register"
  BY <1>1, OpFacts, AppliedCases DEF Registered, RouteSets
<1>2. CASE o.kind = "unregister"
  BY <1>2, OpFacts, AppliedCases DEF Unregistered, RouteSets
<1>3. CASE o.kind \in {"unregisterAll", "load"}
  BY <1>3, OpFacts, AppliedCases DEF RouteSets
<1> QED
  BY <1>1, <1>2, <1>3, OpFacts

(***************************************************************************)
(* Type correctness, with the lock held exactly in the protected code.     *)
(***************************************************************************)
LEMMA TypeOKInductive ==
    /\ Init => TypeOK
    /\ TypeOK /\ [Next]_vars => TypeOK'
<1> USE NoProcAssumption
    DEF TypeOK, LockTypeOK, PC, Protected, Outcomes, Goto, Ends, Returning
<1>1. Init => TypeOK
  BY DEF Init, LockInit, RouteSets, Table!Ops
<1>2. ASSUME TypeOK, [Next]_vars PROVE TypeOK'
  <2> USE <1>2 DEF lockVars, storeVars
  <2>1. ASSUME NEW p \in Procs, NEW o \in Table!Ops, Call(p, o) PROVE TypeOK'
    BY <2>1 DEF Call
  <2>2. ASSUME NEW p \in Procs, LockSucceeds(p) PROVE TypeOK'
    BY <2>2 DEF LockSucceeds, Acquire
  <2>3. ASSUME NEW p \in Procs, LockFails(p) PROVE TypeOK'
    BY <2>3 DEF LockFails
  <2>4. ASSUME NEW p \in Procs, ReadState(p) PROVE TypeOK'
    BY <2>4 DEF ReadState
  <2>5. ASSUME NEW p \in Procs, Truncate(p) PROVE TypeOK'
    BY <2>5 DEF Truncate
  <2>6. ASSUME NEW p \in Procs, Write(p) PROVE TypeOK'
    <3>1. Table!Applied(op[p], snapshot[p]) \in RouteSets
      BY AppliedType
    <3> QED
      BY <2>6, <3>1 DEF Write
  <2>7. ASSUME NEW p \in Procs, SaveFails(p) PROVE TypeOK'
    BY <2>7 DEF SaveFails
  <2>8. ASSUME NEW p \in Procs, Unlock(p) PROVE TypeOK'
    BY <2>8 DEF Unlock, Leave, RouteSets
  <2>9. ASSUME NEW p \in Procs, Crash(p) PROVE TypeOK'
    <3>1. CASE p \in inside
      BY <2>9, <3>1 DEF Crash, Leave, RouteSets
    <3>2. CASE p \notin inside
      BY <2>9, <3>2 DEF Crash, RouteSets
    <3> QED
      BY <3>1, <3>2
  <2>10. CASE LockGoes
    BY <2>10 DEF LockGoes, Free, Break
  <2>11. CASE UNCHANGED vars
    BY <2>11 DEF vars
  <2> QED
    BY <2>1, <2>2, <2>3, <2>4, <2>5, <2>6, <2>7, <2>8, <2>9, <2>10, <2>11 DEF Next
<1> QED
  BY <1>1, <1>2

(***************************************************************************)
(* state.json, the calls of WithLock and the lock keep their types, and a  *)
(* process holds the lock exactly in what WithLock protects with it        *)
(* (state.go:142-158).                                                     *)
(***************************************************************************)
THEOREM TypeCorrect == Spec => []TypeOK
  BY TypeOKInductive, PTL DEF Spec

-------------------------------------------------------------------------------
(* Facts about the content of state.json that survive a broken lock *)

(***************************************************************************)
(* A property of a set of routes that every function given to WithLock     *)
(* preserves holds of the file for good, if it also holds of what each     *)
(* process has read: nobody saves anything else, and in which order they   *)
(* save does not matter.                                                   *)
(***************************************************************************)
Wholesome(routes) ==
    /\ HostsUnique(routes)
    /\ \A d \in Dirs : RoutesOf(routes, d) \in {{}} \cup Batches

LEMMA AppliedWholesome ==
    ASSUME NEW o \in Table!Ops, NEW routes \in RouteSets, Wholesome(routes),
           ~Table!Refused(o, routes)
    PROVE  Wholesome(Table!Applied(o, routes))
<1>1. CASE o.kind = "register"
  <2>1. o.batch \in Batches /\ OneDirectory(o.batch)
    BY <1>1, OpFacts, BatchesAssumption
  <2>2. ~Conflicts(routes, o.batch)
    BY <1>1 DEF Table!Refused, Table!Conflicts, Conflicts, Table!BatchDir, BatchDir
  <2>3. HostsUnique(Registered(routes, o.batch))
    BY <2>1, <2>2, RegisteredKeepsHosts DEF Wholesome
  <2>4. ASSUME NEW d \in Dirs
        PROVE  RoutesOf(Registered(routes, o.batch), d) \in {{}} \cup Batches
    <3>1. CASE o.batch # {} /\ d = BatchDir(o.batch)
      BY <2>1, <3>1, RegisteredReplaces
    <3>2. CASE ~(o.batch # {} /\ d = BatchDir(o.batch))
      BY <2>1, <3>2, RegisteredSparesOthers DEF Wholesome
    <3> QED
      BY <3>1, <3>2
  <2> QED
    BY <1>1, <2>3, <2>4, AppliedCases DEF Wholesome
<1>2. CASE o.kind = "unregister"
  <2>1. HostsUnique(Unregistered(routes, o.dir))
    BY UnregisteredKeepsHosts DEF Wholesome
  <2>2. \A d \in Dirs : RoutesOf(Unregistered(routes, o.dir), d) \in {{}} \cup Batches
    BY UnregisteredSparesOthers DEF Wholesome
  <2> QED
    BY <1>2, <2>1, <2>2, AppliedCases DEF Wholesome
<1>3. CASE o.kind \in {"unregisterAll", "load"}
  BY <1>3, AppliedCases DEF Wholesome, HostsUnique, RoutesOf
<1> QED
  BY <1>1, <1>2, <1>3, OpFacts

(***************************************************************************)
(* The check in ReadState is made on what the process read, so it still    *)
(* holds of its snapshot when it comes to write.                           *)
(***************************************************************************)
ContentInv ==
    /\ disk \notin {Empty, Garbled} => Wholesome(disk)
    /\ \A p \in Procs :
          pc[p] \in {"truncate", "write"} =>
            Wholesome(snapshot[p]) /\ ~Table!Refused(op[p], snapshot[p])

LEMMA ContentInvInductive ==
    /\ Init => ContentInv
    /\ TypeOK /\ ContentInv /\ [Next]_vars => ContentInv'
    /\ ContentInv => HostsStayUnique /\ WholeBatches
<1>1. Init => ContentInv
  BY DEF Init, ContentInv, Wholesome, HostsUnique, RoutesOf
<1>2. ASSUME TypeOK, ContentInv, [Next]_vars PROVE ContentInv'
  <2>1. ASSUME NEW p \in Procs, ReadState(p) PROVE ContentInv'
    BY <1>2, <2>1 DEF ReadState, Returning, Goto, Ends, TypeOK, ContentInv
  <2>2. ASSUME NEW p \in Procs, Truncate(p) PROVE ContentInv'
    BY <1>2, <2>2 DEF Truncate, Goto, TypeOK, ContentInv
  <2>3. ASSUME NEW p \in Procs, Write(p) PROVE ContentInv'
    <3>1. Wholesome(Table!Applied(op[p], snapshot[p]))
      BY <1>2, <2>3, AppliedWholesome DEF Write, ContentInv, TypeOK
    <3>2. disk' \notin {Empty, Garbled} => Wholesome(disk')
      BY <2>3, <3>1 DEF Write
    <3>3. UNCHANGED <<snapshot, op>>
          /\ \A q \in Procs : pc'[q] \in {"truncate", "write"} => pc'[q] = pc[q]
      BY <1>2, <2>3 DEF Write, Returning, Goto, TypeOK
    <3> QED
      BY <1>2, <3>2, <3>3 DEF ContentInv
  <2>4. ASSUME NEW p \in Procs,
               \/ \E o \in Table!Ops : Call(p, o)
               \/ LockSucceeds(p) \/ LockFails(p) \/ SaveFails(p)
               \/ Unlock(p) \/ Crash(p)
        PROVE  ContentInv'
    <3>1. disk' = disk \/ disk' = Garbled
      BY <2>4 DEF Call, LockSucceeds, LockFails, SaveFails, Unlock, Crash
    <3>2. pc'[p] \notin {"truncate", "write"}
      BY <1>2, <2>4 DEF Call, LockSucceeds, LockFails, SaveFails, Unlock, Crash,
                        Returning, Goto, TypeOK
    <3>3. \A q \in Procs \ {p} :
             pc'[q] = pc[q] /\ snapshot'[q] = snapshot[q] /\ op'[q] = op[q]
      BY <1>2, <2>4 DEF Call, LockSucceeds, LockFails, SaveFails, Unlock, Crash,
                        Returning, Goto, TypeOK
    <3> QED
      BY <1>2, <3>1, <3>2, <3>3 DEF ContentInv
  <2>5. CASE LockGoes \/ UNCHANGED vars
    BY <1>2, <2>5 DEF LockGoes, vars, storeVars, ContentInv
  <2> QED
    BY <1>2, <2>1, <2>2, <2>3, <2>4, <2>5 DEF Next
<1>3. ContentInv => HostsStayUnique /\ WholeBatches
  BY DEF ContentInv, Wholesome, HostsStayUnique, WholeBatches
<1> QED
  BY <1>1, <1>2, <1>3

(***************************************************************************)
(* No readable state.json has a hostname in two directories, broken locks, *)
(* crashes and failed writes included.                                     *)
(***************************************************************************)
THEOREM HostsUniqueForever == Spec => []HostsStayUnique
  BY TypeOKInductive, ContentInvInductive, PTL DEF Spec

(***************************************************************************)
(* No readable state.json has a part of a batch.                           *)
(***************************************************************************)
THEOREM BatchesWholeForever == Spec => []WholeBatches
  BY TypeOKInductive, ContentInvInductive, PTL DEF Spec

-------------------------------------------------------------------------------
(* The manager is an atomic registry until a lock is broken *)

(***************************************************************************)
(* What makes it one: the process that saves is alone inside, so the file  *)
(* still holds what it has read, and is still empty when it writes.        *)
(***************************************************************************)
SaveInv ==
    /\ \A p \in Procs :
          pc[p] \in {"truncate", "write"} =>
            op[p].kind # "load" /\ ~Table!Refused(op[p], snapshot[p])
    /\ ~broken =>
          \A p \in Procs :
             /\ pc[p] = "truncate" => disk = snapshot[p]
             /\ pc[p] = "write" => disk = Empty

StoreInv == TypeOK /\ HolderInside /\ SaveInv

LEMMA LockSteps == [Next]_vars => [LockNext]_lockVars
  BY DEF Next, vars, LockNext, Call, LockSucceeds, LockFails, ReadState, Truncate,
         Write, SaveFails, Unlock, Crash, LockGoes

\* Only one process is in the protected code, as long as no lock was broken.
LEMMA Alone ==
    ASSUME StoreInv, ~broken, NEW p \in Procs, NEW q \in Procs,
           pc[p] \in Protected \cup {"unlock"}, pc[q] \in Protected \cup {"unlock"}
    PROVE  p = q
  BY DEF StoreInv, TypeOK, HolderInside

LEMMA SaveInvInductive ==
    /\ Init => StoreInv
    /\ StoreInv /\ [Next]_vars => StoreInv'
<1>1. Init => StoreInv
  BY TypeOKInductive, LockInvInductive DEF Init, StoreInv, SaveInv, LockInv
<1>2. ASSUME StoreInv, [Next]_vars PROVE StoreInv'
  <2>1. TypeOK' /\ HolderInside'
    BY <1>2, TypeOKInductive, LockInvInductive, LockSteps
    DEF StoreInv, LockInv, TypeOK
  <2>2. SaveInv'
    <3> USE <1>2 DEF StoreInv, SaveInv, TypeOK, Goto, Ends, Returning
    <3>1. ASSUME NEW p \in Procs, NEW o \in Table!Ops, Call(p, o) PROVE SaveInv'
      BY <3>1 DEF Call, lockVars
    <3>2. ASSUME NEW p \in Procs, LockSucceeds(p) \/ LockFails(p) PROVE SaveInv'
      BY <3>2 DEF LockSucceeds, LockFails, Acquire, lockVars
    <3>3. ASSUME NEW p \in Procs, ReadState(p) PROVE SaveInv'
      BY <3>3 DEF ReadState, lockVars
    <3>4. ASSUME NEW p \in Procs, Truncate(p) PROVE SaveInv'
      <4>1. \A q \in Procs \ {p} : ~broken => pc[q] # "truncate"
        BY <3>4, Alone DEF Truncate, Protected
      <4> QED
        BY <3>4, <4>1 DEF Truncate, lockVars
    <3>5. ASSUME NEW p \in Procs, Write(p) \/ SaveFails(p) PROVE SaveInv'
      <4>1. \A q \in Procs \ {p} : ~broken => pc[q] \notin {"truncate", "write"}
        BY <3>5, Alone DEF Write, SaveFails, Protected
      <4> QED
        BY <3>5, <4>1 DEF Write, SaveFails, lockVars
    <3>6. ASSUME NEW p \in Procs, Unlock(p) PROVE SaveInv'
      BY <3>6 DEF Unlock, Leave
    <3>7. ASSUME NEW p \in Procs, Crash(p) PROVE SaveInv'
      <4>1. UNCHANGED <<disk, op, broken>>
        BY <3>7 DEF Crash, Leave, lockVars
      <4> QED
        BY <3>7, <4>1 DEF Crash
    <3>8. CASE LockGoes \/ UNCHANGED vars
      BY <3>8 DEF LockGoes, Free, Break, vars, lockVars, storeVars
    <3> QED
      BY <3>1, <3>2, <3>3, <3>4, <3>5, <3>6, <3>7, <3>8 DEF Next
  <2> QED
    BY <2>1, <2>2 DEF StoreInv
<1> QED
  BY <1>1, <1>2

\* The table as callers see it, with and without a process that writes.
LEMMA SeenWhileWriting ==
    ASSUME StoreInv, ~broken, NEW p \in Procs, pc[p] = "write"
    PROVE  Writers = {p} /\ TableSeen = snapshot[p]
<1>1. Writers = {p}
  BY Alone DEF Writers, Protected
<1> QED
  BY <1>1 DEF TableSeen

LEMMA SeenOtherwise ==
    ASSUME \A q \in Procs : pc[q] # "write"
    PROVE  TableSeen = IF disk \in {Empty, Garbled} THEN Unreadable ELSE disk
  BY DEF TableSeen, Writers

LEMMA SeenUnchanged ==
    ASSUME Writers' = Writers, UNCHANGED disk, \A p \in Writers : snapshot'[p] = snapshot[p]
    PROVE  UNCHANGED TableSeen
  BY DEF TableSeen

LEMMA InitRefines == Init => Table!RegistryInit
<1> SUFFICES ASSUME Init PROVE Table!RegistryInit
  OBVIOUS
<1>1. {} \notin {Empty, Garbled}
  BY ContentAssumption
<1>2. TableSeen = {}
  BY <1>1 DEF Init, TableSeen, Writers
<1> QED
  BY <1>2 DEF Init, LockInit, Table!RegistryInit

(***************************************************************************)
(* Each action, seen through the mapping, while no lock was broken.  The   *)
(* change takes effect when it is written; a conflict, an unreadable file  *)
(* and a Load, when the file is read.                                      *)
(***************************************************************************)
LEMMA StepRefines ==
    StoreInv /\ [Next]_vars => [Table!RegistryNext]_(Table!registryVars)
<1> SUFFICES ASSUME StoreInv, [Next]_vars
             PROVE  [Table!RegistryNext]_(Table!registryVars)
  OBVIOUS
<1> DEFINE Same == UNCHANGED <<TableSeen, op, outcome, broken>>
<1>1. CASE broken'
  BY <1>1 DEF Table!RegistryNext
<1>2. CASE ~broken'
  <2> USE DEF Table!Ends, Ends, Goto, Returning
  <2>0. ~broken
    BY <1>2, LockSteps DEF StoreInv, TypeOK, LockTypeOK, LockNext, lockVars, Acquire,
                           Leave, Free, Break
  <2>1. ASSUME NEW p \in Procs, NEW o \in Table!Ops, Call(p, o)
        PROVE  Table!Call(p, o) /\ UNCHANGED broken
    <3>1. Writers' = Writers /\ UNCHANGED <<disk, snapshot>>
      BY <2>1 DEF Call, Writers, StoreInv, TypeOK
    <3>2. UNCHANGED TableSeen
      BY <3>1, SeenUnchanged
    <3>3. outcome[p] # "pending"
      BY <2>1 DEF Call, StoreInv, TypeOK, Protected
    <3> QED
      BY <2>1, <3>2, <3>3 DEF Call, Table!Call, lockVars
  <2>2. ASSUME NEW p \in Procs, LockSucceeds(p) PROVE Same
    <3>1. Writers' = Writers /\ UNCHANGED <<disk, snapshot>>
      BY <2>2 DEF LockSucceeds, Writers, StoreInv, TypeOK
    <3> QED
      BY <2>2, <3>1, SeenUnchanged DEF LockSucceeds, Acquire
  <2>3. ASSUME NEW p \in Procs, LockFails(p)
        PROVE  Table!Fail(p) /\ UNCHANGED broken
    <3>1. Writers' = Writers /\ UNCHANGED <<disk, snapshot>>
      BY <2>3 DEF LockFails, Writers, StoreInv, TypeOK
    <3>2. outcome[p] = "pending"
      BY <2>3 DEF LockFails, StoreInv, TypeOK
    <3>3. UNCHANGED TableSeen
      BY <3>1, SeenUnchanged
    <3> QED
      BY <2>3, <3>2, <3>3 DEF LockFails, Table!Fail, Table!NothingOrLost, lockVars
  <2>4. ASSUME NEW p \in Procs, ReadState(p)
        PROVE  \/ (Table!Succeed(p) \/ Table!Refuse(p) \/ Table!CannotRead(p))
                    /\ UNCHANGED broken
               \/ Same
    <3>1. \A q \in Procs : pc[q] # "write"
      BY <2>0, <2>4, Alone DEF ReadState, Protected
    <3>2. \A q \in Procs : pc'[q] # "write"
      BY <2>4, <3>1 DEF ReadState, StoreInv, TypeOK
    <3>3. UNCHANGED <<disk, op, broken>>
      BY <2>4 DEF ReadState, lockVars
    <3>4. Writers = {} /\ Writers' = {}
      BY <3>1, <3>2 DEF Writers
    <3>5. UNCHANGED TableSeen
      BY <3>3, <3>4, SeenUnchanged
    <3>6. TableSeen = IF disk \in {Empty, Garbled} THEN Unreadable ELSE disk
      BY <3>1, SeenOtherwise
    <3>7. outcome[p] = "pending"
      BY <2>4 DEF ReadState, StoreInv, TypeOK, Protected
    <3>8. CASE disk \in {Empty, Garbled}
      <4>1. Ends(p, "unreadable")
        BY <2>4, <3>8 DEF ReadState
      <4> QED
        BY <3>3, <3>5, <3>6, <3>7, <3>8, <4>1 DEF Table!CannotRead
    <3>9. CASE disk \notin {Empty, Garbled}
      <4>1. TableSeen = disk /\ TableSeen # Unreadable
        BY <3>6, <3>9, ContentAssumption DEF StoreInv, TypeOK, RouteSets
      <4>2. CASE Table!Refused(op[p], disk) /\ Ends(p, "conflict")
        BY <3>3, <3>5, <3>7, <4>1, <4>2 DEF Table!Refuse
      <4>3. CASE op[p].kind = "load" /\ Ends(p, "ok")
        <5>1. ~Table!Refused(op[p], disk)
          BY <4>3 DEF Table!Refused
        <5>2. Table!Applied(op[p], disk) = disk
          BY <4>3, AppliedCases DEF StoreInv, TypeOK
        <5> QED
          BY <3>3, <3>5, <3>7, <4>1, <4>3, <5>1, <5>2 DEF Table!Succeed
      <4>4. CASE UNCHANGED outcome
        BY <3>3, <3>5, <4>4
      <4> QED
        BY <2>4, <3>9, <4>2, <4>3, <4>4 DEF ReadState
    <3> QED
      BY <3>8, <3>9
  <2>5. ASSUME NEW p \in Procs, Truncate(p) PROVE Same
    <3>1. \A q \in Procs : pc[q] # "write"
      BY <2>0, <2>5, Alone DEF Truncate, Protected
    <3>2. disk = snapshot[p] /\ disk \notin {Empty, Garbled}
      BY <2>0, <2>5, ContentAssumption
      DEF Truncate, StoreInv, SaveInv, TypeOK, RouteSets
    <3>3. TableSeen = snapshot[p]
      BY <3>1, <3>2, SeenOtherwise
    <3>4. Writers' = {p}
      BY <2>5, <3>1 DEF Truncate, Writers, StoreInv, TypeOK
    <3>5. TableSeen' = snapshot'[p]
      BY <3>4 DEF TableSeen
    <3> QED
      BY <2>5, <3>3, <3>5 DEF Truncate, lockVars
  <2>6. ASSUME NEW p \in Procs, Write(p)
        PROVE  Table!Succeed(p) /\ UNCHANGED broken
    <3>1. Writers = {p} /\ TableSeen = snapshot[p]
      BY <2>0, <2>6, SeenWhileWriting DEF Write
    <3>2. disk' = Table!Applied(op[p], snapshot[p]) /\ disk' \in RouteSets
      BY <2>0, <2>6, AppliedType DEF Write, StoreInv, SaveInv, TypeOK
    <3>3. Writers' = {}
      BY <2>6, <3>1 DEF Write, Writers, StoreInv, TypeOK
    <3>4. TableSeen' = disk'
      BY <3>2, <3>3, ContentAssumption DEF TableSeen, RouteSets
    <3>5. TableSeen # Unreadable
      BY <3>1, ContentAssumption DEF StoreInv, TypeOK, RouteSets
    <3>6. outcome[p] = "pending" /\ ~Table!Refused(op[p], snapshot[p])
      BY <2>6 DEF Write, StoreInv, TypeOK, SaveInv, Protected
    <3> QED
      BY <2>6, <3>1, <3>2, <3>4, <3>5, <3>6 DEF Write, Table!Succeed, lockVars
  <2>7. ASSUME NEW p \in Procs, SaveFails(p)
        PROVE  Table!Fail(p) /\ UNCHANGED broken
    <3>1. outcome[p] = "pending" /\ op[p].kind # "load"
      BY <2>7 DEF SaveFails, StoreInv, TypeOK, SaveInv, Protected
    <3>2. CASE pc[p] = "truncate" /\ UNCHANGED disk
      <4>1. Writers' = Writers /\ UNCHANGED snapshot
        BY <2>7, <3>2 DEF SaveFails, Writers, StoreInv, TypeOK
      <4>2. UNCHANGED TableSeen
        BY <3>2, <4>1, SeenUnchanged
      <4> QED
        BY <2>7, <3>1, <4>2 DEF SaveFails, Table!Fail, Table!NothingOrLost, lockVars
    <3>3. CASE pc[p] = "write" /\ disk' = Garbled
      <4>1. Writers' = {}
        BY <2>0, <2>7, <3>3, SeenWhileWriting DEF SaveFails, Writers, StoreInv, TypeOK
      <4>2. TableSeen' = Unreadable
        BY <3>3, <4>1 DEF TableSeen
      <4> QED
        BY <2>7, <3>1, <4>2 DEF SaveFails, Table!Fail, Table!NothingOrLost, lockVars
    <3> QED
      BY <2>7, <3>2, <3>3 DEF SaveFails
  <2>8. ASSUME NEW p \in Procs, Unlock(p) PROVE Same
    <3>1. Writers' = Writers /\ p \notin Writers
      BY <2>8 DEF Unlock, Writers, StoreInv, TypeOK
    <3>2. \A q \in Writers : snapshot'[q] = snapshot[q]
      BY <2>8, <3>1 DEF Unlock, Writers, StoreInv, TypeOK
    <3> QED
      BY <2>8, <3>1, <3>2, SeenUnchanged DEF Unlock, Leave
  <2>9. ASSUME NEW p \in Procs, Crash(p)
        PROVE  Table!Die(p) /\ UNCHANGED broken
    <3>1. UNCHANGED <<disk, op, broken>> /\ Ends(p, "dead")
      BY <2>9 DEF Crash, Leave, lockVars
    <3>2. CASE pc[p] = "write"
      <4>1. disk = Empty /\ outcome[p] = "pending" /\ op[p].kind # "load"
        BY <2>0, <3>2 DEF StoreInv, SaveInv, TypeOK, Protected
      <4>2. Writers' = {}
        BY <2>0, <2>9, <3>2, SeenWhileWriting DEF Crash, Writers, StoreInv, TypeOK
      <4>3. TableSeen' = Unreadable
        BY <3>1, <4>1, <4>2 DEF TableSeen
      <4> QED
        BY <3>1, <4>1, <4>3 DEF Table!Die, Table!NothingOrLost
    <3>3. CASE pc[p] # "write"
      <4>1. Writers' = Writers /\ p \notin Writers
        BY <2>9, <3>3 DEF Crash, Writers, StoreInv, TypeOK
      <4>2. \A q \in Writers : snapshot'[q] = snapshot[q]
        BY <2>9, <4>1 DEF Crash, Writers, StoreInv, TypeOK
      <4>3. UNCHANGED TableSeen
        BY <3>1, <4>1, <4>2, SeenUnchanged
      <4> QED
        BY <3>1, <4>3 DEF Table!Die, Table!NothingOrLost
    <3> QED
      BY <3>2, <3>3
  <2>10. CASE LockGoes \/ UNCHANGED vars
    <3>1. UNCHANGED <<disk, pc, snapshot, op, outcome>>
      BY <2>10 DEF LockGoes, storeVars, vars
    <3>2. Writers' = Writers
      BY <3>1 DEF Writers
    <3>3. Same
      BY <1>2, <2>10, <3>1, <3>2, SeenUnchanged
      DEF LockGoes, Free, Break, vars, lockVars
    <3> QED
      BY <3>3 DEF Table!registryVars
  <2> QED
    BY <2>1, <2>2, <2>3, <2>4, <2>5, <2>6, <2>7, <2>8, <2>9, <2>10
    DEF Next, Table!RegistryNext, Table!registryVars
<1> QED
  BY <1>1, <1>2

(***************************************************************************)
(* WithLock and Load make state.json an atomic registry: whatever is       *)
(* interleaved, dies or fails, no caller can tell the difference before    *)
(* the lock of a process inside is broken.                                 *)
(***************************************************************************)
THEOREM Refinement == Spec => ImplementsRegistry
  BY SaveInvInductive, InitRefines, StepRefines, PTL
  DEF Spec, ImplementsRegistry, Table!RegistrySpec
=============================================================================
