------------------------------- MODULE FileLock -------------------------------
(***************************************************************************)
(* The mkdir lock of internal/state/lock.go, at the grain of the system    *)
(* calls it makes.  Processes are runs of portless-docker and requests of  *)
(* the proxy daemon: all of them share ~/.portless-docker/state.lock.      *)
(*                                                                         *)
(* os.Mkdir, os.WriteFile and os.RemoveAll belong to Go's library: Mkdir   *)
(* is one step, WriteFile is open(O_CREAT|O_TRUNC) and then write,         *)
(* RemoveAll unlinks the entries and then the directory, by path.  Reading *)
(* a file or its time and reading the clock are steps of their own.        *)
(*                                                                         *)
(* Every point in time is kept as its age, the ticks passed since then: 0  *)
(* is now, and all ages past the longest duration the code compares with   *)
(* are one.                                                                *)
(***************************************************************************)
EXTENDS Integers

CONSTANTS Procs,          \* the processes that call Lock
          NoProc,         \* the creator of a directory that does not exist
          LockTimeout,    \* lockTimeout, in ticks
          StaleDuration   \* staleDuration, in ticks

ASSUME NoProcAssumption == NoProc \notin Procs
ASSUME TimeAssumption ==
    /\ LockTimeout \in Nat
    /\ StaleDuration \in Nat

VARIABLES
    (* The lock directory *)
    creator,   \* whose os.Mkdir made it, NoProc when it does not exist
    mtime,     \* the age of its modification time
    ts,        \* the file ts in it: "absent", "torn" (unparsable) or "stamped"
    stamp,     \* the age of the time a stamped ts holds
    writers,   \* the processes whose WriteFile has the present ts open
    (* The processes *)
    pc,
    waited,    \* the age of Lock's call, which its local deadline counts from
    now,       \* the age of the time Lock took for ts and has not written yet
    read,      \* the age of the time isStale has read and not judged yet
    (* Observation only: no guard reads these, only history *)
    made,      \* the age of the present directory
    verdict,   \* why a process decided to remove the lock it waits for
    outdated,  \* processes that judge by, or remove, a directory gone since
    broken,    \* has the directory of a process inside been removed?
    crashed    \* has any process ever died inside Lock or Unlock?

dirVars == <<creator, mtime, ts, stamp, writers, made>>
historyVars == <<verdict, outdated, broken, crashed>>
procVars == <<waited, now, read>>
vars == <<dirVars, pc, procVars, historyVars>>

-------------------------------------------------------------------------------
(* Control points *)

Inside == {"now", "open", "write", "critical"}  \* Lock has made the directory
Removing == {"unlink", "rmdir"}               \* in Unlock's RemoveAll
Breaking == {"breakUnlink", "breakRmdir"}     \* in Lock's RemoveAll
Looking == {"mkdir", "readTs", "stat", "since", "wait"}
Resting == {"idle", "failed"}
PC == Inside \cup Removing \cup Breaking \cup Looking \cup Resting

Goto(p, l) == pc' = [pc EXCEPT ![p] = l]

InsideProcs == {p \in Procs : pc[p] \in Inside}
Removers == {p \in Procs : pc[p] \in Removing \cup Breaking}

-------------------------------------------------------------------------------
(* Ages *)

\* A tick later: past limit one age is as good as another.
Aged(age, limit) == IF age > limit THEN age ELSE age + 1

\* The next definition with >= for >.
AsOldAsStale(age) == age >= StaleDuration

OlderThanStale(age) == age > StaleDuration

WaitedTooLong(age) == age > LockTimeout

-------------------------------------------------------------------------------
Init ==
    /\ creator = NoProc
    /\ mtime = 0
    /\ ts = "absent"
    /\ stamp = 0
    /\ writers = {}
    /\ pc = [p \in Procs |-> "idle"]
    /\ waited = [p \in Procs |-> 0]
    /\ now = [p \in Procs |-> 0]
    /\ read = [p \in Procs |-> 0]
    /\ made = 0
    /\ verdict = [p \in Procs |-> "none"]
    /\ outdated = {}
    /\ broken = FALSE
    /\ crashed = FALSE

\* The next definition with twice lockTimeout to go.
StartTwice(p) ==
    /\ pc[p] \in Resting
    /\ waited' = [waited EXCEPT ![p] = -LockTimeout]
    /\ Goto(p, "mkdir")
    /\ UNCHANGED <<dirVars, now, read, historyVars>>

\* Lock is called: its deadline is lockTimeout away.
Start(p) ==
    /\ pc[p] \in Resting
    /\ Goto(p, "mkdir")
    /\ UNCHANGED <<dirVars, procVars, historyVars>>

Mkdir(p) ==
    /\ pc[p] = "mkdir"
    /\ creator = NoProc
    /\ creator' = p
    /\ mtime' = 0
    /\ ts' = "absent"
    /\ stamp' = 0
    /\ writers' = {}
    /\ made' = 0
    /\ waited' = [waited EXCEPT ![p] = 0]
    /\ Goto(p, "now")
    /\ UNCHANGED <<now, read, historyVars>>

\* The next definition with os.MkdirAll, which accepts a directory that exists.
MkdirExistsAccepted(p) ==
    /\ pc[p] = "mkdir"
    /\ creator # NoProc
    /\ Goto(p, "now")
    /\ UNCHANGED <<dirVars, procVars, historyVars>>

MkdirExists(p) ==
    /\ pc[p] = "mkdir"
    /\ creator # NoProc
    /\ Goto(p, "readTs")
    /\ UNCHANGED <<dirVars, procVars, historyVars>>

\* Mkdir fails with anything but EEXIST: Lock returns an error at once.
MkdirError(p) ==
    /\ pc[p] = "mkdir"
    /\ waited' = [waited EXCEPT ![p] = 0]
    /\ Goto(p, "idle")
    /\ UNCHANGED <<dirVars, now, read, historyVars>>

\* time.Now() is an argument of WriteFile: it is taken before the file is open.
TakeTime(p) ==
    /\ pc[p] = "now"
    /\ now' = [now EXCEPT ![p] = 0]
    /\ Goto(p, "open")
    /\ UNCHANGED <<dirVars, waited, read, historyVars>>

\* WriteFile opens ts in whatever directory is there, creating or truncating
\* it; its error is ignored, so without a directory Lock still succeeds.
OpenTs(p) ==
    /\ pc[p] = "open"
    /\ IF creator = NoProc
         THEN /\ Goto(p, "critical")
              /\ now' = [now EXCEPT ![p] = 0]
              /\ UNCHANGED dirVars
         ELSE /\ ts' = "torn"
              /\ stamp' = 0
              /\ writers' = writers \cup {p}
              /\ mtime' = IF ts = "absent" THEN 0 ELSE mtime
              /\ Goto(p, "write")
              /\ UNCHANGED <<creator, made, now>>
    /\ UNCHANGED <<waited, read, historyVars>>

\* The write reaches the present ts only if that is still the file p opened.
\* Two writers of one file leave the later text, or a mixture of both: the
\* texts differ in length (RFC3339Nano drops trailing zeros).
WriteTs(p) ==
    /\ pc[p] = "write"
    /\ IF p \in writers
         THEN /\ \/ ts' = "stamped" /\ stamp' = now[p]
                 \/ ts = "stamped" /\ ts' = "torn" /\ stamp' = 0
              /\ writers' = writers \ {p}
         ELSE UNCHANGED <<ts, stamp, writers>>
    /\ now' = [now EXCEPT ![p] = 0]
    /\ Goto(p, "critical")
    /\ UNCHANGED <<creator, mtime, made, waited, read, historyVars>>

\* The caller is done and calls Unlock.
Unlock(p) ==
    /\ pc[p] = "critical"
    /\ Goto(p, "unlink")
    /\ UNCHANGED <<dirVars, procVars, historyVars>>

-------------------------------------------------------------------------------
(* os.RemoveAll, in two steps; Unlock then returns, Lock tries again. *)

RemoveEntries ==
    /\ ts' = "absent"
    /\ stamp' = 0
    /\ writers' = {}
    /\ mtime' = IF ts = "absent" THEN mtime ELSE 0
    /\ UNCHANGED <<creator, made>>

\* Removing a directory that holds a file fails, and RemoveAll's error is
\* ignored.  Whoever was going to remove the directory, or to judge it by a
\* time read in it, is late from now on.
RemoveDir(p) ==
    IF creator # NoProc /\ ts = "absent"
      THEN /\ creator' = NoProc
           /\ mtime' = 0
           /\ made' = 0
           /\ outdated' = (outdated \cup Removers \cup
                             {q \in Procs : pc[q] = "since"}) \ {p}
           /\ broken' = (broken \/ creator \in InsideProcs)
           /\ UNCHANGED <<ts, stamp, writers>>
      ELSE /\ outdated' = outdated \ {p}
           /\ UNCHANGED <<dirVars, broken>>

UnlockUnlink(p) ==
    /\ pc[p] = "unlink"
    /\ IF creator = NoProc
         THEN /\ Goto(p, "idle")
              /\ outdated' = outdated \ {p}
              /\ UNCHANGED dirVars
         ELSE /\ Goto(p, "rmdir")
              /\ RemoveEntries
              /\ UNCHANGED outdated
    /\ UNCHANGED <<procVars, verdict, broken, crashed>>

\* The next definition without the removal of the directory itself.
UnlockRmdirKept(p) ==
    /\ pc[p] = "rmdir"
    /\ Goto(p, "idle")
    /\ outdated' = outdated \ {p}
    /\ UNCHANGED <<dirVars, procVars, verdict, broken, crashed>>

UnlockRmdir(p) ==
    /\ pc[p] = "rmdir"
    /\ RemoveDir(p)
    /\ Goto(p, "idle")
    /\ UNCHANGED <<procVars, verdict, crashed>>

BreakUnlink(p) ==
    /\ pc[p] = "breakUnlink"
    /\ IF creator = NoProc
         THEN /\ Goto(p, "mkdir")
              /\ verdict' = [verdict EXCEPT ![p] = "none"]
              /\ outdated' = outdated \ {p}
              /\ UNCHANGED dirVars
         ELSE /\ Goto(p, "breakRmdir")
              /\ RemoveEntries
              /\ UNCHANGED <<verdict, outdated>>
    /\ UNCHANGED <<procVars, broken, crashed>>

\* The deadline is not looked at before the next round.
BreakRmdir(p) ==
    /\ pc[p] = "breakRmdir"
    /\ RemoveDir(p)
    /\ Goto(p, "mkdir")
    /\ verdict' = [verdict EXCEPT ![p] = "none"]
    /\ UNCHANGED <<procVars, crashed>>

-------------------------------------------------------------------------------
(* isStale *)

JudgedStale(p, why) ==
    /\ verdict' = [verdict EXCEPT ![p] = why]
    /\ Goto(p, "breakUnlink")
    /\ UNCHANGED outdated

JudgedLive(p) ==
    /\ outdated' = outdated \ {p}
    /\ Goto(p, "wait")
    /\ UNCHANGED verdict

\* A time has been read; the clock has not.
TimeRead(p, age) ==
    /\ read' = [read EXCEPT ![p] = age]
    /\ Goto(p, "since")
    /\ UNCHANGED <<verdict, outdated>>

\* os.ReadFile, and time.Parse of what it read.
ReadTs(p) ==
    /\ pc[p] = "readTs"
    /\ \/ ts = "absent" /\ Goto(p, "stat") /\ UNCHANGED <<read, verdict, outdated>>
       \/ ts = "torn" /\ JudgedStale(p, "torn") /\ UNCHANGED read
       \/ ts = "stamped" /\ TimeRead(p, stamp)
    /\ UNCHANGED <<dirVars, waited, now, broken, crashed>>

\* The next definition taking a directory without ts for a fresh one.
StatIgnored(p) ==
    /\ pc[p] = "stat"
    /\ JudgedLive(p)
    /\ UNCHANGED <<dirVars, procVars, broken, crashed>>

Stat(p) ==
    /\ pc[p] = "stat"
    /\ IF creator = NoProc
         THEN JudgedLive(p) /\ UNCHANGED read
         ELSE TimeRead(p, mtime)
    /\ UNCHANGED <<dirVars, waited, now, broken, crashed>>

\* time.Since of the time read, whatever became of the directory.
Since(p) ==
    /\ pc[p] = "since"
    /\ IF OlderThanStale(read[p]) THEN JudgedStale(p, "old") ELSE JudgedLive(p)
    /\ read' = [read EXCEPT ![p] = 0]
    /\ UNCHANGED <<dirVars, waited, now, broken, crashed>>

-------------------------------------------------------------------------------
TimedOut(p) ==
    /\ pc[p] = "wait"
    /\ WaitedTooLong(waited[p])
    /\ waited' = [waited EXCEPT ![p] = 0]
    /\ Goto(p, "failed")
    /\ UNCHANGED <<dirVars, now, read, historyVars>>

\* The next definition with the deadline set anew in every round.
RetryRenewed(p) ==
    /\ pc[p] = "wait"
    /\ ~WaitedTooLong(waited[p])
    /\ waited' = [waited EXCEPT ![p] = 0]
    /\ Goto(p, "mkdir")
    /\ UNCHANGED <<dirVars, now, read, historyVars>>

\* Sleep for lockRetry (less than a tick) and try again.
Retry(p) ==
    /\ pc[p] = "wait"
    /\ ~WaitedTooLong(waited[p])
    /\ Goto(p, "mkdir")
    /\ UNCHANGED <<dirVars, procVars, historyVars>>

\* The process dies: nothing it holds is released.
Crash(p) ==
    /\ pc[p] \notin Resting
    /\ Goto(p, "idle")
    /\ waited' = [waited EXCEPT ![p] = 0]
    /\ now' = [now EXCEPT ![p] = 0]
    /\ read' = [read EXCEPT ![p] = 0]
    /\ writers' = writers \ {p}
    /\ verdict' = [verdict EXCEPT ![p] = "none"]
    /\ outdated' = outdated \ {p}
    /\ crashed' = TRUE
    /\ UNCHANGED <<creator, mtime, ts, stamp, made, broken>>

\* Everything that is a time gets a tick older.
Tick ==
    /\ mtime' = IF creator = NoProc THEN mtime ELSE Aged(mtime, StaleDuration)
    /\ made' = IF creator = NoProc THEN made ELSE Aged(made, StaleDuration)
    /\ stamp' = IF ts = "stamped" THEN Aged(stamp, StaleDuration) ELSE stamp
    /\ waited' = [p \in Procs |-> IF pc[p] \in Looking \cup Breaking
                                    THEN Aged(waited[p], LockTimeout)
                                    ELSE waited[p]]
    /\ now' = [p \in Procs |-> IF pc[p] \in {"open", "write"}
                                 THEN Aged(now[p], StaleDuration)
                                 ELSE now[p]]
    /\ read' = [p \in Procs |-> IF pc[p] = "since"
                                  THEN Aged(read[p], StaleDuration)
                                  ELSE read[p]]
    /\ UNCHANGED <<creator, ts, writers, pc, historyVars>>

\* The steps Lock and Unlock take by themselves once they are called.
Step(p) ==
    \/ Mkdir(p) \/ MkdirExists(p) \/ TakeTime(p) \/ OpenTs(p) \/ WriteTs(p)
    \/ UnlockUnlink(p) \/ UnlockRmdir(p)
    \/ ReadTs(p) \/ Stat(p) \/ Since(p) \/ BreakUnlink(p) \/ BreakRmdir(p)
    \/ TimedOut(p) \/ Retry(p)

Next ==
    \/ \E p \in Procs :
         Start(p) \/ Step(p) \/ Unlock(p) \/ MkdirError(p) \/ Crash(p)
    \/ Tick

Spec == Init /\ [][Next]_vars

\* Lock and Unlock run on by themselves and time passes.  Nothing makes a
\* caller call Lock or Unlock, makes Mkdir fail, or keeps a process alive.
FairSpec ==
    /\ Spec
    /\ WF_vars(Tick)
    /\ \A p \in Procs : WF_vars(Step(p))

-------------------------------------------------------------------------------
(* Properties *)

Ages == 0 .. StaleDuration + 1
Waits == 0 .. LockTimeout + 1

(***************************************************************************)
(* Type correctness of the lock directory and of every process's locals.   *)
(***************************************************************************)
TypeOK ==
    /\ creator \in Procs \cup {NoProc}
    /\ mtime \in Ages
    /\ ts \in {"absent", "torn", "stamped"}
    /\ stamp \in Ages
    /\ writers \subseteq Procs
    /\ pc \in [Procs -> PC]
    /\ waited \in [Procs -> Waits]
    /\ now \in [Procs -> Ages]
    /\ read \in [Procs -> Ages]
    /\ made \in Ages
    /\ verdict \in [Procs -> {"none", "torn", "old"}]
    /\ outdated \subseteq Procs
    /\ broken \in BOOLEAN
    /\ crashed \in BOOLEAN

(***************************************************************************)
(* The lock of lock.go is a BreakableLock: every step of the mkdir         *)
(* protocol is one of its steps or changes nothing it can see.             *)
(***************************************************************************)
Abstract == INSTANCE BreakableLock WITH holder <- creator, inside <- InsideProcs
ImplementsBreakableLock == Abstract!LockSpec

(***************************************************************************)
(* Two processes are past Lock together only after the directory of a      *)
(* process that was past Lock has been removed: mkdir excludes, whatever   *)
(* becomes of ts, of processes that died and of removals cut in half.      *)
(***************************************************************************)
ExclusiveUntilBroken == ~broken => \A p, q \in InsideProcs : p = q

(***************************************************************************)
(* While no process has died, the lock directory does not outlive the      *)
(* calls that use it, even when Unlock's RemoveAll finds a ts somebody     *)
(* else just put there and fails without anyone noticing (lock.go:62).     *)
(***************************************************************************)
NoLockLeak ==
    (~crashed /\ \A p \in Procs : pc[p] \in Resting) => creator = NoProc

(***************************************************************************)
(* The first time a process inside loses its directory, there is a reason: *)
(* the directory is older than staleDuration, or whoever removes it had    *)
(* found a half-written ts (lock.go:78-81), or is late: it was going to    *)
(* remove an earlier directory (lock.go:47-48 and 62 remove by path), or   *)
(* compared a time it had read in one with the clock when that directory   *)
(* was gone (lock.go:68-83).  So a holder that finishes within             *)
(* staleDuration has only those races to fear.                             *)
(***************************************************************************)
RemovedForAReason ==
    \/ made > StaleDuration
    \/ \E q \in Removers :
          /\ pc'[q] # pc[q]
          /\ q \in outdated \/ verdict[q] = "torn"

BreakHasReason == [][broken' # broken => RemovedForAReason]_vars

(***************************************************************************)
(* What lock.go:65 and spec.md:478 say: a lock is removed by force only    *)
(* when it is older than staleDuration.                                    *)
(***************************************************************************)
OnlyOverdueBroken == [][broken' # broken => made > StaleDuration]_vars

(***************************************************************************)
(* Lock succeeds, returns an error or dies with its process, in spite of   *)
(* everything other processes do with the directory but one thing: a call  *)
(* may go on for ever, past its deadline, if it finds a lock stale or half *)
(* written and removes it again and again (lock.go:47-49), while others    *)
(* take the lock again and again.                                          *)
(***************************************************************************)
EndlessRemoval(p) ==
    /\ []<>(pc[p] = "breakUnlink")
    /\ []<>(\E q \in Procs \ {p} : pc[q] = "now")

LockReturns ==
    \A p \in Procs :
      \/ EndlessRemoval(p)
      \/ pc[p] = "mkdir" ~> pc[p] \in {"critical"} \cup Resting

(***************************************************************************)
(* A lock left behind by a process that died stands in the way of a call   *)
(* that starts when it is overdue only until that call removes it: the     *)
(* call does not time out over it, unless another removal is cut short and *)
(* makes the directory look young again.                                   *)
(***************************************************************************)
Leftover ==
    /\ creator # NoProc
    /\ \A p \in Procs : pc[p] \notin Inside \cup Removing

Overdue == (IF ts = "stamped" THEN stamp ELSE mtime) > StaleDuration

LeftoverIsCleared ==
    \A p \in Procs :
      (Leftover /\ Overdue /\ pc[p] = "mkdir")
        ~> (~Leftover \/ ~Overdue \/ pc[p] = "idle")
=============================================================================
