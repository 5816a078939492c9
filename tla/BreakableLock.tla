---------------------------- MODULE BreakableLock ----------------------------
(***************************************************************************)
(* What internal/state/lock.go promises to the code that runs between      *)
(* Lock and Unlock: acquisitions are exclusive as long as no process has   *)
(* removed the lock of a process that is still inside.  The lock knows no  *)
(* owner, so after the first such removal nothing is promised any more.    *)
(*                                                                         *)
(* FileLock implements this specification step by step, and StateStore is  *)
(* built on it.                                                            *)
(***************************************************************************)
EXTENDS TLAPS

CONSTANTS Procs,   \* the processes that use the lock
          NoProc   \* the holder of a lock nobody has taken

ASSUME NoProcAssumption == NoProc \notin Procs

VARIABLES holder,  \* the process whose acquisition made the present lock
          inside,  \* the processes between Lock's success and Unlock's start
          broken   \* has the lock of a process inside ever been removed?

lockVars == <<holder, inside, broken>>

LockTypeOK ==
    /\ holder \in Procs \cup {NoProc}
    /\ inside \subseteq Procs
    /\ broken \in BOOLEAN

LockInit ==
    /\ holder = NoProc
    /\ inside = {}
    /\ broken = FALSE

Acquire(p) ==
    /\ p \notin inside
    /\ holder = NoProc
    /\ holder' = p
    /\ inside' = inside \cup {p}
    /\ UNCHANGED broken

\* p reaches Unlock, or dies: either way it is no longer inside, and the lock
\* itself is still there.
Leave(p) ==
    /\ p \in inside
    /\ inside' = inside \ {p}
    /\ UNCHANGED <<holder, broken>>

\* The lock of a process that is no longer inside goes away.
Free ==
    /\ holder \notin inside
    /\ holder' = NoProc
    /\ UNCHANGED <<inside, broken>>

\* The lock of a process that is still inside goes away.
Break ==
    /\ holder \in inside
    /\ holder' = NoProc
    /\ broken' = TRUE
    /\ UNCHANGED inside

LockNext ==
    \/ \E p \in Procs : Acquire(p) \/ Leave(p)
    \/ Free
    \/ Break

LockSpec == LockInit /\ [][LockNext]_lockVars

(***************************************************************************)
(* Two processes are inside together only after a lock was broken: the     *)
(* exclusive access WithLock (state.go:140) needs to not lose updates.     *)
(***************************************************************************)
Exclusive == ~broken => \A p, q \in inside : p = q

(***************************************************************************)
(* Exclusive is not inductive: it must be known that the one process       *)
(* inside is the holder, so that nobody can acquire beside it.             *)
(***************************************************************************)
HolderInside == ~broken => inside \subseteq {holder}

-------------------------------------------------------------------------------
(* Exclusion, proved for every set of processes. *)

LockInv == LockTypeOK /\ HolderInside

(***************************************************************************)
(* HolderInside is what makes Exclusive inductive: a process can acquire   *)
(* only when the holder is NoProc, and then nobody is inside.              *)
(***************************************************************************)
LEMMA LockInvInductive ==
    /\ LockInit => LockInv
    /\ LockInv /\ [LockNext]_lockVars => LockInv'
    /\ LockInv => Exclusive
<1> USE NoProcAssumption DEF LockInv, LockTypeOK, HolderInside
<1>1. LockInit => LockInv
  BY DEF LockInit
<1>2. LockInv /\ [LockNext]_lockVars => LockInv'
  <2> SUFFICES ASSUME LockInv, [LockNext]_lockVars PROVE LockInv'
    OBVIOUS
  <2>1. ASSUME NEW p \in Procs, Acquire(p) PROVE LockInv'
    BY <2>1 DEF Acquire
  <2>2. ASSUME NEW p \in Procs, Leave(p) PROVE LockInv'
    BY <2>2 DEF Leave
  <2>3. CASE Free
    BY <2>3 DEF Free
  <2>4. CASE Break
    BY <2>4 DEF Break
  <2>5. CASE UNCHANGED lockVars
    BY <2>5 DEF lockVars
  <2> QED
    BY <2>1, <2>2, <2>3, <2>4, <2>5 DEF LockNext
<1>3. LockInv => Exclusive
  BY DEF Exclusive
<1> QED
  BY <1>1, <1>2, <1>3

(***************************************************************************)
(* A lock without owners still excludes until the first time the lock of a *)
(* process inside is removed.                                              *)
(***************************************************************************)
THEOREM LockIsExclusive == LockSpec => []Exclusive
  BY LockInvInductive, PTL DEF LockSpec
=============================================================================
