---------------------------- MODULE FileLockProofs ----------------------------
(***************************************************************************)
(* What the mkdir lock of lock.go guarantees for every set of processes    *)
(* and every lockTimeout and staleDuration.                                *)
(***************************************************************************)
EXTENDS FileLock, TLAPS

(***************************************************************************)
(* Type correctness of the lock directory and of every process's locals.   *)
(***************************************************************************)
LEMMA TypeOKInductive ==
    /\ Init => TypeOK
    /\ TypeOK /\ [Next]_vars => TypeOK'
<1> USE NoProcAssumption, TimeAssumption
        DEF TypeOK, Ages, Waits, PC, Inside, Removing, Breaking, Looking, Resting,
            Goto, dirVars, procVars, historyVars
<1>1. ASSUME Init PROVE TypeOK
  <2>1. pc \in [Procs -> PC]
    BY <1>1 DEF Init
  <2>2. verdict \in [Procs -> {"none", "torn", "old"}]
    BY <1>1 DEF Init
  <2>3. waited \in [Procs -> Waits] /\ now \in [Procs -> Ages] /\ read \in [Procs -> Ages]
    BY <1>1 DEF Init
  <2>4. broken \in BOOLEAN /\ crashed \in BOOLEAN
    BY <1>1 DEF Init
  <2>5. mtime \in Ages /\ stamp \in Ages /\ made \in Ages
    BY <1>1 DEF Init
  <2> QED
    BY <1>1, <2>1, <2>2, <2>3, <2>4, <2>5 DEF Init
<1>2. ASSUME TypeOK, [Next]_vars PROVE TypeOK'
  <2>1. ASSUME NEW p \in Procs, Start(p) PROVE TypeOK'
    BY <1>2, <2>1 DEF Start
  <2>2. ASSUME NEW p \in Procs, Mkdir(p) PROVE TypeOK'
    BY <1>2, <2>2 DEF Mkdir
  <2>3. ASSUME NEW p \in Procs, MkdirExists(p) PROVE TypeOK'
    BY <1>2, <2>3 DEF MkdirExists
  <2>4. ASSUME NEW p \in Procs, MkdirError(p) PROVE TypeOK'
    BY <1>2, <2>4 DEF MkdirError
  <2>5. ASSUME NEW p \in Procs, OpenTs(p) PROVE TypeOK'
    BY <1>2, <2>5 DEF OpenTs
  <2>6. ASSUME NEW p \in Procs, WriteTs(p) PROVE TypeOK'
    BY <1>2, <2>6 DEF WriteTs
  <2>7. ASSUME NEW p \in Procs, Unlock(p) PROVE TypeOK'
    BY <1>2, <2>7 DEF Unlock
  <2>8. ASSUME NEW p \in Procs, UnlockUnlink(p) PROVE TypeOK'
    BY <1>2, <2>8 DEF UnlockUnlink, RemoveEntries
  <2>9. ASSUME NEW p \in Procs, UnlockRmdir(p) PROVE TypeOK'
    <3>1. broken' \in BOOLEAN
      BY <1>2, <2>9 DEF UnlockRmdir, RemoveDir
    <3> QED
      BY <1>2, <2>9, <3>1 DEF UnlockRmdir, RemoveDir, Removers
  <2>10. ASSUME NEW p \in Procs, BreakUnlink(p) PROVE TypeOK'
    BY <1>2, <2>10 DEF BreakUnlink, RemoveEntries
  <2>11. ASSUME NEW p \in Procs, BreakRmdir(p) PROVE TypeOK'
    <3>1. broken' \in BOOLEAN
      BY <1>2, <2>11 DEF BreakRmdir, RemoveDir
    <3> QED
      BY <1>2, <2>11, <3>1 DEF BreakRmdir, RemoveDir, Removers
  <2>12. ASSUME NEW p \in Procs, ReadTs(p) PROVE TypeOK'
    BY <1>2, <2>12 DEF ReadTs, JudgedStale, TimeRead
  <2>13. ASSUME NEW p \in Procs, Stat(p) PROVE TypeOK'
    BY <1>2, <2>13 DEF Stat, JudgedLive, TimeRead
  <2>14. ASSUME NEW p \in Procs, TimedOut(p) PROVE TypeOK'
    BY <1>2, <2>14 DEF TimedOut
  <2>15. ASSUME NEW p \in Procs, Retry(p) PROVE TypeOK'
    BY <1>2, <2>15 DEF Retry
  <2>16. ASSUME NEW p \in Procs, Crash(p) PROVE TypeOK'
    BY <1>2, <2>16 DEF Crash
  <2>17. CASE Tick
    <3>1. \A a \in Ages : Aged(a, StaleDuration) \in Ages
      BY DEF Aged
    <3>2. \A a \in Waits : Aged(a, LockTimeout) \in Waits
      BY DEF Aged
    <3> HIDE DEF Ages, Waits
    <3>3. mtime' \in Ages /\ made' \in Ages /\ stamp' \in Ages
      BY <1>2, <2>17, <3>1 DEF Tick
    <3>4. waited' \in [Procs -> Waits] /\ now' \in [Procs -> Ages] /\ read' \in [Procs -> Ages]
      BY <1>2, <2>17, <3>1, <3>2 DEF Tick
    <3> QED
      BY <1>2, <2>17, <3>3, <3>4 DEF Tick
  <2>18. CASE UNCHANGED vars
    BY <1>2, <2>18 DEF vars
  <2>19. ASSUME NEW p \in Procs, TakeTime(p) PROVE TypeOK'
    BY <1>2, <2>19 DEF TakeTime
  <2>20. ASSUME NEW p \in Procs, Since(p) PROVE TypeOK'
    BY <1>2, <2>20 DEF Since, JudgedStale, JudgedLive
  <2> QED
    BY <1>2, <2>1, <2>2, <2>3, <2>4, <2>5, <2>6, <2>7, <2>8, <2>9, <2>10,
       <2>11, <2>12, <2>13, <2>14, <2>15, <2>16, <2>17, <2>18, <2>19, <2>20
    DEF Next, Step
<1> QED
  BY <1>1, <1>2

(***************************************************************************)
(* The lock directory, its ts and the locals of each call of Lock and      *)
(* Unlock keep their types (lock.go:30-84).                                *)
(***************************************************************************)
THEOREM TypeCorrect == Spec => []TypeOK
  BY TypeOKInductive, PTL DEF Spec

-------------------------------------------------------------------------------
(* Refinement of BreakableLock *)

LEMMA InitRefines == Init => Abstract!LockInit
  BY DEF Init, Abstract!LockInit, InsideProcs, Inside

(***************************************************************************)
(* Each action of the protocol, seen through the mapping: the directory's  *)
(* creator is the holder and the processes past Lock are inside.           *)
(***************************************************************************)
LEMMA StepRefines ==
    TypeOK /\ [Next]_vars => [Abstract!LockNext]_(Abstract!lockVars)
<1> SUFFICES ASSUME TypeOK, [Next]_vars
             PROVE  [Abstract!LockNext]_(Abstract!lockVars)
  OBVIOUS
<1> DEFINE Same == UNCHANGED Abstract!lockVars
<1> USE NoProcAssumption
    DEF TypeOK, PC, Inside, Removing, Breaking, Looking, Resting, Goto,
        InsideProcs, Abstract!lockVars
<1>1. ASSUME NEW p \in Procs, Start(p) PROVE Same
  BY <1>1 DEF Start, dirVars, historyVars
<1>2. ASSUME NEW p \in Procs, Mkdir(p) PROVE Abstract!Acquire(p)
  <2>1. InsideProcs' = InsideProcs \cup {p}
    BY <1>2 DEF Mkdir
  <2>2. p \notin InsideProcs
    BY <1>2 DEF Mkdir
  <2>3. creator = NoProc /\ creator' = p /\ UNCHANGED broken
    BY <1>2 DEF Mkdir, historyVars
  <2> QED
    BY <2>1, <2>2, <2>3 DEF Abstract!Acquire
<1>3. ASSUME NEW p \in Procs, MkdirExists(p) \/ MkdirError(p) PROVE Same
  BY <1>3 DEF MkdirExists, MkdirError, dirVars, historyVars
<1>4. ASSUME NEW p \in Procs, TakeTime(p) \/ OpenTs(p) \/ WriteTs(p) PROVE Same
  BY <1>4 DEF TakeTime, OpenTs, WriteTs, dirVars, historyVars
<1>5. ASSUME NEW p \in Procs, Unlock(p) PROVE Abstract!Leave(p)
  <2>1. InsideProcs' = InsideProcs \ {p} /\ p \in InsideProcs
    BY <1>5 DEF Unlock
  <2>2. UNCHANGED <<creator, broken>>
    BY <1>5 DEF Unlock, dirVars, historyVars
  <2> QED
    BY <2>1, <2>2 DEF Abstract!Leave
<1>6. ASSUME NEW p \in Procs, UnlockUnlink(p) \/ BreakUnlink(p) PROVE Same
  BY <1>6 DEF UnlockUnlink, BreakUnlink, RemoveEntries, dirVars
<1>7. ASSUME NEW p \in Procs, UnlockRmdir(p) \/ BreakRmdir(p)
      PROVE  Same \/ Abstract!Free \/ Abstract!Break
  <2>1. InsideProcs' = InsideProcs
    BY <1>7 DEF UnlockRmdir, BreakRmdir
  <2>2. RemoveDir(p)
    BY <1>7 DEF UnlockRmdir, BreakRmdir
  <2>3. CASE creator # NoProc /\ ts = "absent"
    <3>1. creator' = NoProc /\ broken' = (broken \/ creator \in InsideProcs)
      BY <2>2, <2>3 DEF RemoveDir
    <3>2. CASE creator \in InsideProcs
      BY <2>1, <3>1, <3>2 DEF Abstract!Break
    <3>3. CASE creator \notin InsideProcs
      <4>1. broken' = broken
        BY <3>1, <3>3
      <4> QED
        BY <2>1, <3>1, <3>3, <4>1 DEF Abstract!Free
    <3> QED
      BY <3>2, <3>3
  <2>4. CASE ~(creator # NoProc /\ ts = "absent")
    BY <2>1, <2>2, <2>4 DEF RemoveDir, dirVars
  <2> QED
    BY <2>3, <2>4
<1>8. ASSUME NEW p \in Procs, ReadTs(p) \/ Stat(p) \/ Since(p) PROVE Same
  BY <1>8 DEF ReadTs, Stat, Since, TimeRead, JudgedStale, JudgedLive, dirVars
<1>9. ASSUME NEW p \in Procs, TimedOut(p) \/ Retry(p) PROVE Same
  BY <1>9 DEF TimedOut, Retry, dirVars, historyVars
<1>10. ASSUME NEW p \in Procs, Crash(p) PROVE Same \/ Abstract!Leave(p)
  <2>1. UNCHANGED <<creator, broken>>
    BY <1>10 DEF Crash
  <2>2. InsideProcs' = InsideProcs \ {p}
    BY <1>10 DEF Crash
  <2> QED
    BY <2>1, <2>2 DEF Abstract!Leave
<1>11. CASE Tick
  BY <1>11 DEF Tick, dirVars, historyVars
<1>12. CASE UNCHANGED vars
  BY <1>12 DEF vars, dirVars, historyVars
<1> QED
  BY <1>1, <1>2, <1>3, <1>4, <1>5, <1>6, <1>7, <1>8, <1>9, <1>10, <1>11, <1>12
  DEF Next, Step, Abstract!LockNext

(***************************************************************************)
(* The lock of lock.go is a BreakableLock, step by step.                   *)
(***************************************************************************)
THEOREM Refinement == Spec => ImplementsBreakableLock
  BY TypeOKInductive, InitRefines, StepRefines, PTL
  DEF Spec, ImplementsBreakableLock, Abstract!LockSpec

-------------------------------------------------------------------------------
(* What the refinement gives *)

(***************************************************************************)
(* Until the directory of a process past Lock is removed, at most one      *)
(* process is past Lock: the mapping turns the theorem about the abstract  *)
(* lock into one about the directory.                                      *)
(***************************************************************************)
THEOREM Exclusion == Spec => []ExclusiveUntilBroken
<1>1. Spec => Abstract!LockSpec
  BY Refinement, PTL DEF ImplementsBreakableLock
<1>2. Abstract!LockSpec => []Abstract!Exclusive
  BY NoProcAssumption, Abstract!LockIsExclusive DEF Abstract!NoProcAssumption
<1>3. Abstract!Exclusive => ExclusiveUntilBroken
  BY DEF Abstract!Exclusive, ExclusiveUntilBroken
<1> QED
  BY <1>1, <1>2, <1>3, PTL

-------------------------------------------------------------------------------
(* No directory outlives its users *)

(***************************************************************************)
(* Why: a directory is accounted for either by a process that will still   *)
(* come to Unlock's first step, or by one that will remove the directory   *)
(* and finds no file in it.  A file that appears in between belongs to a   *)
(* process of the first kind, whose own Unlock is still to come.           *)
(***************************************************************************)
WillUnlink == \E p \in Procs : pc[p] \in Inside \cup {"unlink"}
WillRmdir == ts = "absent" /\ \E p \in Procs : pc[p] = "rmdir"
AccountedFor == ~crashed /\ creator # NoProc => WillUnlink \/ WillRmdir

LEMMA AccountedForInductive ==
    /\ Init => AccountedFor
    /\ TypeOK /\ AccountedFor /\ [Next]_vars => AccountedFor'
    /\ AccountedFor => NoLockLeak
<1> USE DEF AccountedFor, WillUnlink, WillRmdir, Inside
<1>1. Init => AccountedFor
  BY DEF Init
<1>2. ASSUME TypeOK, AccountedFor, [Next]_vars PROVE AccountedFor'
  <2> USE <1>2 DEF TypeOK, Goto, dirVars, historyVars
  <2>1. ASSUME NEW p \in Procs,
               \/ Start(p) \/ MkdirExists(p) \/ MkdirError(p) \/ ReadTs(p)
               \/ Stat(p) \/ Since(p) \/ TimedOut(p) \/ Retry(p)
        PROVE  AccountedFor'
    <3>1. UNCHANGED <<creator, ts, crashed>>
      BY <2>1 DEF Start, MkdirExists, MkdirError, ReadTs, Stat, Since, TimedOut, Retry
    <3>2. pc[p] \in Looking \cup Resting
      BY <2>1 DEF Start, MkdirExists, MkdirError, ReadTs, Stat, Since, TimedOut,
                  Retry, Looking, Resting
    <3>3. \A q \in Procs \ {p} : pc'[q] = pc[q]
      BY <2>1 DEF Start, MkdirExists, MkdirError, ReadTs, Stat, Since, TimedOut,
                  Retry, TimeRead, JudgedStale, JudgedLive
    <3> QED
      BY <3>1, <3>2, <3>3 DEF Looking, Resting
  <2>2. ASSUME NEW p \in Procs,
               Mkdir(p) \/ TakeTime(p) \/ OpenTs(p) \/ WriteTs(p) \/ Unlock(p)
        PROVE  AccountedFor'
    <3>1. pc'[p] \in Inside \cup {"unlink"}
      BY <2>2 DEF Mkdir, TakeTime, OpenTs, WriteTs, Unlock
    <3> QED
      BY <3>1
  <2>3. ASSUME NEW p \in Procs, UnlockUnlink(p) PROVE AccountedFor'
    <3>1. CASE creator = NoProc
      BY <2>3, <3>1 DEF UnlockUnlink
    <3>2. CASE creator # NoProc
      BY <2>3, <3>2 DEF UnlockUnlink, RemoveEntries
    <3> QED
      BY <3>1, <3>2
  <2>4. ASSUME NEW p \in Procs, BreakUnlink(p) PROVE AccountedFor'
    <3>1. CASE creator = NoProc
      BY <2>4, <3>1 DEF BreakUnlink
    <3>2. CASE creator # NoProc
      <4>1. \A q \in Procs \ {p} : pc'[q] = pc[q]
        BY <2>4 DEF BreakUnlink
      <4>2. ts' = "absent" /\ UNCHANGED <<creator, crashed>> /\ pc[p] = "breakUnlink"
        BY <2>4, <3>2 DEF BreakUnlink, RemoveEntries
      <4> QED
        BY <4>1, <4>2
    <3> QED
      BY <3>1, <3>2
  <2>5. ASSUME NEW p \in Procs, UnlockRmdir(p) \/ BreakRmdir(p) PROVE AccountedFor'
    <3>1. RemoveDir(p) /\ pc[p] \in {"rmdir", "breakRmdir"} /\ UNCHANGED crashed
      BY <2>5 DEF UnlockRmdir, BreakRmdir
    <3>2. CASE creator # NoProc /\ ts = "absent"
      BY <3>1, <3>2 DEF RemoveDir
    <3>3. CASE ~(creator # NoProc /\ ts = "absent")
      <4>1. UNCHANGED <<creator, ts>>
        BY <3>1, <3>3 DEF RemoveDir
      <4>2. \A q \in Procs \ {p} : pc'[q] = pc[q]
        BY <2>5 DEF UnlockRmdir, BreakRmdir
      <4> QED
        BY <3>1, <3>3, <4>1, <4>2
    <3> QED
      BY <3>2, <3>3
  <2>6. ASSUME NEW p \in Procs, Crash(p) PROVE AccountedFor'
    BY <2>6 DEF Crash
  <2>7. CASE Tick \/ UNCHANGED vars
    BY <2>7 DEF Tick, vars
  <2> QED
    BY <2>1, <2>2, <2>3, <2>4, <2>5, <2>6, <2>7 DEF Next, Step
<1>3. AccountedFor => NoLockLeak
  BY DEF NoLockLeak, Resting
<1> QED
  BY <1>1, <1>2, <1>3

(***************************************************************************)
(* While no process dies, the lock is gone once every call has returned.   *)
(***************************************************************************)
THEOREM NoLeak == Spec => []NoLockLeak
  BY TypeOKInductive, AccountedForInductive, PTL DEF Spec

-------------------------------------------------------------------------------
(* Nobody inside loses the directory without a reason *)

(***************************************************************************)
(* Until a lock is broken, who is inside made the directory.               *)
(***************************************************************************)
CreatorInside == ~broken => \A p \in Procs : pc[p] \in Inside => creator = p

LEMMA CreatorInsideInductive ==
    /\ Init => CreatorInside
    /\ TypeOK /\ CreatorInside /\ [Next]_vars => CreatorInside'
<1> USE NoProcAssumption DEF CreatorInside, Inside
<1>1. Init => CreatorInside
  BY DEF Init
<1>2. ASSUME TypeOK, CreatorInside, [Next]_vars PROVE CreatorInside'
  <2> USE <1>2 DEF TypeOK, Goto, dirVars, procVars, historyVars
  <2>1. ASSUME NEW p \in Procs, Start(p) PROVE CreatorInside'
    BY <2>1 DEF Start
  <2>2. ASSUME NEW p \in Procs, Mkdir(p) PROVE CreatorInside'
    BY <2>2 DEF Mkdir
  <2>3. ASSUME NEW p \in Procs, MkdirExists(p) PROVE CreatorInside'
    BY <2>3 DEF MkdirExists
  <2>4. ASSUME NEW p \in Procs, MkdirError(p) PROVE CreatorInside'
    BY <2>4 DEF MkdirError
  <2>5. ASSUME NEW p \in Procs, TakeTime(p) PROVE CreatorInside'
    BY <2>5 DEF TakeTime
  <2>6. ASSUME NEW p \in Procs, OpenTs(p) PROVE CreatorInside'
    BY <2>6 DEF OpenTs
  <2>7. ASSUME NEW p \in Procs, WriteTs(p) PROVE CreatorInside'
    BY <2>7 DEF WriteTs
  <2>8. ASSUME NEW p \in Procs, Unlock(p) PROVE CreatorInside'
    BY <2>8 DEF Unlock
  <2>9. ASSUME NEW p \in Procs, UnlockUnlink(p) PROVE CreatorInside'
    BY <2>9 DEF UnlockUnlink, RemoveEntries
  <2>10. ASSUME NEW p \in Procs, UnlockRmdir(p) PROVE CreatorInside'
    BY <2>10 DEF UnlockRmdir, RemoveDir, InsideProcs
  <2>11. ASSUME NEW p \in Procs, BreakUnlink(p) PROVE CreatorInside'
    BY <2>11 DEF BreakUnlink, RemoveEntries
  <2>12. ASSUME NEW p \in Procs, BreakRmdir(p) PROVE CreatorInside'
    BY <2>12 DEF BreakRmdir, RemoveDir, InsideProcs
  <2>13. ASSUME NEW p \in Procs, ReadTs(p) PROVE CreatorInside'
    BY <2>13 DEF ReadTs, JudgedStale, TimeRead
  <2>14. ASSUME NEW p \in Procs, Stat(p) PROVE CreatorInside'
    BY <2>14 DEF Stat, JudgedLive, TimeRead
  <2>15. ASSUME NEW p \in Procs, Since(p) PROVE CreatorInside'
    BY <2>15 DEF Since, JudgedStale, JudgedLive, OlderThanStale
  <2>16. ASSUME NEW p \in Procs, TimedOut(p) PROVE CreatorInside'
    BY <2>16 DEF TimedOut
  <2>17. ASSUME NEW p \in Procs, Retry(p) PROVE CreatorInside'
    BY <2>17 DEF Retry
  <2>18. ASSUME NEW p \in Procs, Crash(p) PROVE CreatorInside'
    BY <2>18 DEF Crash
  <2>19. CASE Tick
    BY <2>19 DEF Tick
  <2>20. CASE UNCHANGED vars
    BY <2>20 DEF vars
  <2> QED
    BY <2>1, <2>2, <2>3, <2>4, <2>5, <2>6, <2>7, <2>8, <2>9,
       <2>10, <2>11, <2>12, <2>13, <2>14, <2>15, <2>16, <2>17, <2>18, <2>19, <2>20
    DEF Next, Step
<1> QED
  BY <1>1, <1>2

(***************************************************************************)
(* Until a lock is broken, every time a process can read off the directory *)
(* is at least as late as the moment the directory was made: the time Lock *)
(* takes for ts is taken by the directory's own maker.                     *)
(***************************************************************************)
TsBelongs ==
    /\ creator = NoProc => ts = "absent"
    /\ ts = "absent" => writers = {}
    /\ creator # NoProc => mtime <= made

StampAfterMade ==
    ~broken =>
       /\ ts = "stamped" => stamp <= made
       /\ \A p \in Procs : pc[p] \in {"open", "write"} => now[p] <= made

TimesAfterMade == TsBelongs /\ StampAfterMade

LEMMA TimesAfterMadeInductive ==
    /\ Init => TimesAfterMade
    /\ TypeOK /\ CreatorInside /\ TimesAfterMade /\ [Next]_vars => TimesAfterMade'
<1> USE NoProcAssumption DEF TimesAfterMade, TsBelongs, StampAfterMade
<1>1. Init => TimesAfterMade
  BY DEF Init
<1>2. ASSUME TypeOK, CreatorInside, TimesAfterMade, [Next]_vars PROVE TimesAfterMade'
  <2> USE <1>2, TimeAssumption
      DEF TypeOK, Ages, CreatorInside, Inside, Goto, dirVars, procVars, historyVars
  <2>1. ASSUME NEW p \in Procs, Start(p) PROVE TimesAfterMade'
    BY <2>1 DEF Start
  <2>2. ASSUME NEW p \in Procs, Mkdir(p) PROVE TimesAfterMade'
    BY <2>2 DEF Mkdir
  <2>3. ASSUME NEW p \in Procs, MkdirExists(p) PROVE TimesAfterMade'
    BY <2>3 DEF MkdirExists
  <2>4. ASSUME NEW p \in Procs, MkdirError(p) PROVE TimesAfterMade'
    BY <2>4 DEF MkdirError
  <2>5. ASSUME NEW p \in Procs, TakeTime(p) PROVE TimesAfterMade'
    BY <2>5 DEF TakeTime
  <2>6. ASSUME NEW p \in Procs, OpenTs(p) PROVE TimesAfterMade'
    BY <2>6 DEF OpenTs
  <2>7. ASSUME NEW p \in Procs, WriteTs(p) PROVE TimesAfterMade'
    BY <2>7 DEF WriteTs
  <2>8. ASSUME NEW p \in Procs, Unlock(p) PROVE TimesAfterMade'
    BY <2>8 DEF Unlock
  <2>9. ASSUME NEW p \in Procs, UnlockUnlink(p) PROVE TimesAfterMade'
    <3>1. CASE creator = NoProc
      BY <2>9, <3>1 DEF UnlockUnlink
    <3>2. CASE creator # NoProc
      BY <2>9, <3>2 DEF UnlockUnlink, RemoveEntries
    <3> QED
      BY <3>1, <3>2
  <2>10. ASSUME NEW p \in Procs, UnlockRmdir(p) PROVE TimesAfterMade'
    BY <2>10 DEF UnlockRmdir, RemoveDir, InsideProcs
  <2>11. ASSUME NEW p \in Procs, BreakUnlink(p) PROVE TimesAfterMade'
    <3>1. CASE creator = NoProc
      BY <2>11, <3>1 DEF BreakUnlink
    <3>2. CASE creator # NoProc
      BY <2>11, <3>2 DEF BreakUnlink, RemoveEntries
    <3> QED
      BY <3>1, <3>2
  <2>12. ASSUME NEW p \in Procs, BreakRmdir(p) PROVE TimesAfterMade'
    BY <2>12 DEF BreakRmdir, RemoveDir, InsideProcs
  <2>13. ASSUME NEW p \in Procs, ReadTs(p) PROVE TimesAfterMade'
    BY <2>13 DEF ReadTs, JudgedStale, TimeRead
  <2>14. ASSUME NEW p \in Procs, Stat(p) PROVE TimesAfterMade'
    BY <2>14 DEF Stat, JudgedLive, TimeRead
  <2>15. ASSUME NEW p \in Procs, Since(p) PROVE TimesAfterMade'
    BY <2>15 DEF Since, JudgedStale, JudgedLive, OlderThanStale
  <2>16. ASSUME NEW p \in Procs, TimedOut(p) PROVE TimesAfterMade'
    BY <2>16 DEF TimedOut
  <2>17. ASSUME NEW p \in Procs, Retry(p) PROVE TimesAfterMade'
    BY <2>17 DEF Retry
  <2>18. ASSUME NEW p \in Procs, Crash(p) PROVE TimesAfterMade'
    BY <2>18 DEF Crash
  <2>19. CASE Tick
    BY <2>19 DEF Tick, Aged
  <2>20. CASE UNCHANGED vars
    BY <2>20 DEF vars
  <2> QED
    BY <2>1, <2>2, <2>3, <2>4, <2>5, <2>6, <2>7, <2>8, <2>9,
       <2>10, <2>11, <2>12, <2>13, <2>14, <2>15, <2>16, <2>17, <2>18, <2>19, <2>20
    DEF Next, Step
<1> QED
  BY <1>1, <1>2

(***************************************************************************)
(* A remover that is not late removes its own directory (Unlock) or one    *)
(* that is overdue by now (Lock, unless it judged by a torn ts); what a    *)
(* waiter that is not late compares with the clock is a time of the        *)
(* present directory.                                                      *)
(***************************************************************************)
OwnDirectory(p) == pc[p] \in Removing => creator = p
PresentTime(p) == pc[p] = "since" => creator # NoProc /\ read[p] <= made
OverdueDirectory(p) ==
    pc[p] \in Breaking /\ verdict[p] # "torn"
      => creator # NoProc /\ made > StaleDuration

RemoversInTime ==
    ~broken => \A p \in Procs \ outdated :
                  OwnDirectory(p) /\ PresentTime(p) /\ OverdueDirectory(p)

ReasonInv == TypeOK /\ CreatorInside /\ TimesAfterMade /\ RemoversInTime

LEMMA RemoversInTimeInductive ==
    /\ Init => RemoversInTime
    /\ ReasonInv /\ [Next]_vars => RemoversInTime'
<1> USE NoProcAssumption
    DEF RemoversInTime, OwnDirectory, PresentTime, OverdueDirectory, Removing,
        Breaking, Inside
<1>1. Init => RemoversInTime
  BY DEF Init
<1>2. ASSUME ReasonInv, [Next]_vars PROVE RemoversInTime'
  <2> USE <1>2, TimeAssumption
      DEF ReasonInv, CreatorInside, TimesAfterMade, TsBelongs, StampAfterMade,
          TypeOK, Ages, Goto, dirVars, procVars, historyVars
  <2>1. ASSUME NEW p \in Procs, Start(p) PROVE RemoversInTime'
    BY <2>1 DEF Start
  <2>2. ASSUME NEW p \in Procs, Mkdir(p) PROVE RemoversInTime'
    BY <2>2 DEF Mkdir
  <2>3. ASSUME NEW p \in Procs, MkdirExists(p) PROVE RemoversInTime'
    BY <2>3 DEF MkdirExists
  <2>4. ASSUME NEW p \in Procs, MkdirError(p) PROVE RemoversInTime'
    BY <2>4 DEF MkdirError
  <2>5. ASSUME NEW p \in Procs, TakeTime(p) PROVE RemoversInTime'
    BY <2>5 DEF TakeTime
  <2>6. ASSUME NEW p \in Procs, OpenTs(p) PROVE RemoversInTime'
    BY <2>6 DEF OpenTs
  <2>7. ASSUME NEW p \in Procs, WriteTs(p) PROVE RemoversInTime'
    BY <2>7 DEF WriteTs
  <2>8. ASSUME NEW p \in Procs, Unlock(p) PROVE RemoversInTime'
    BY <2>8 DEF Unlock
  <2>9. ASSUME NEW p \in Procs, UnlockUnlink(p) PROVE RemoversInTime'
    BY <2>9 DEF UnlockUnlink, RemoveEntries
  <2>10. ASSUME NEW p \in Procs, UnlockRmdir(p) PROVE RemoversInTime'
    BY <2>10 DEF UnlockRmdir, RemoveDir, Removers, InsideProcs
  <2>11. ASSUME NEW p \in Procs, BreakUnlink(p) PROVE RemoversInTime'
    BY <2>11 DEF BreakUnlink, RemoveEntries
  <2>12. ASSUME NEW p \in Procs, BreakRmdir(p) PROVE RemoversInTime'
    BY <2>12 DEF BreakRmdir, RemoveDir, Removers, InsideProcs
  <2>13. ASSUME NEW p \in Procs, ReadTs(p) PROVE RemoversInTime'
    BY <2>13 DEF ReadTs, JudgedStale, TimeRead
  <2>14. ASSUME NEW p \in Procs, Stat(p) PROVE RemoversInTime'
    BY <2>14 DEF Stat, JudgedLive, TimeRead
  <2>15. ASSUME NEW p \in Procs, Since(p) PROVE RemoversInTime'
    BY <2>15 DEF Since, JudgedStale, JudgedLive, OlderThanStale
  <2>16. ASSUME NEW p \in Procs, TimedOut(p) PROVE RemoversInTime'
    BY <2>16 DEF TimedOut
  <2>17. ASSUME NEW p \in Procs, Retry(p) PROVE RemoversInTime'
    BY <2>17 DEF Retry
  <2>18. ASSUME NEW p \in Procs, Crash(p) PROVE RemoversInTime'
    BY <2>18 DEF Crash
  <2>19. CASE Tick
    BY <2>19 DEF Tick, Aged
  <2>20. CASE UNCHANGED vars
    BY <2>20 DEF vars
  <2> QED
    BY <2>1, <2>2, <2>3, <2>4, <2>5, <2>6, <2>7, <2>8, <2>9,
       <2>10, <2>11, <2>12, <2>13, <2>14, <2>15, <2>16, <2>17, <2>18, <2>19, <2>20
    DEF Next, Step
<1> QED
  BY <1>1, <1>2

LEMMA ReasonStep ==
    ReasonInv /\ [Next]_vars => (broken' # broken => RemovedForAReason)
<1> SUFFICES ASSUME ReasonInv, [Next]_vars, broken' # broken
             PROVE  RemovedForAReason
  OBVIOUS
<1>1. PICK p \in Procs : UnlockRmdir(p) \/ BreakRmdir(p)
  BY DEF Next, Step, vars, dirVars, historyVars, Start, Mkdir, MkdirExists,
         MkdirError, TakeTime, OpenTs, WriteTs, Unlock, UnlockUnlink,
         BreakUnlink, ReadTs, Stat, Since, TimedOut, Retry, Crash, Tick
<1>2. RemoveDir(p) /\ p \in Removers /\ pc'[p] # pc[p]
  BY <1>1 DEF UnlockRmdir, BreakRmdir, Goto, Removers, Removing, Breaking,
              ReasonInv, TypeOK
<1>3. creator # NoProc /\ creator \in InsideProcs /\ ~broken
  BY <1>2 DEF RemoveDir, ReasonInv, TypeOK
<1>4. CASE p \in outdated
  BY <1>2, <1>4 DEF RemovedForAReason
<1>5. CASE p \notin outdated /\ UnlockRmdir(p)
  <2>1. creator = p
    BY <1>3, <1>5 DEF ReasonInv, RemoversInTime, OwnDirectory, UnlockRmdir, Removing
  <2> QED
    BY <1>3, <1>5, <2>1 DEF InsideProcs, UnlockRmdir, Inside
<1>6. CASE p \notin outdated /\ BreakRmdir(p)
  <2>1. verdict[p] = "torn" \/ made > StaleDuration
    BY <1>3, <1>6 DEF ReasonInv, RemoversInTime, OverdueDirectory, BreakRmdir, Breaking
  <2> QED
    BY <1>2, <2>1 DEF RemovedForAReason
<1> QED
  BY <1>1, <1>4, <1>5, <1>6

(***************************************************************************)
(* The first process inside that loses its directory loses it because the  *)
(* directory is overdue, or to one of the races RemovedForAReason names:   *)
(* no other interleaving of Lock, Unlock and crashes breaks a lock.        *)
(***************************************************************************)
THEOREM NoBreakWithoutReason == Spec => BreakHasReason
<1>1. Init => ReasonInv
  BY TypeOKInductive, CreatorInsideInductive, TimesAfterMadeInductive,
     RemoversInTimeInductive
  DEF ReasonInv
<1>2. ReasonInv /\ [Next]_vars => ReasonInv'
  BY TypeOKInductive, CreatorInsideInductive, TimesAfterMadeInductive,
     RemoversInTimeInductive
  DEF ReasonInv
<1> QED
  BY <1>1, <1>2, ReasonStep, PTL DEF Spec, BreakHasReason
=============================================================================
