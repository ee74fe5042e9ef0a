-------------------------- MODULE SVFSPythonProofs --------------------------
(***************************************************************************)
(* For any number of threads, calls and IDs: no wrapper of cSVFS uses a     *)
(* file that is gone.  The argument is that of a lock: a thread that has    *)
(* found a file has the lock, and so has a thread that removes one.         *)
(***************************************************************************)
EXTENDS SVFSPython, TLAPS

\* What the proof needs of the types: which functions there are.
Shape ==
    /\ at \in [Thread -> Place]
    /\ DOMAIN job = Thread
    /\ \A t \in Thread :
        DOMAIN job[t] = {"name", "id", "step", "rested", "size", "file", "calls"}

\* A thread that is past the lock has it.
HasLock(t) ==
    \/ at[t] = "regain"
    \/ at[t] \in {"inside", "away"} /\ job[t].name \in Locks
LockOwned == \A t \in Thread : HasLock(t) => lock = t

\* A thread has found a file only in a wrapper that locks, and is still in it.
FoundInside ==
    \A t \in Thread :
        job[t].step = "found" =>
            job[t].name \in {"file", "need_many"} /\ at[t] \in {"inside", "away"}

IInv == Shape /\ LockOwned /\ FoundInside /\ FileOutlivesUse

LEMMA InitIInv == FSInit => IInv
  BY DEF FSInit, LockInit, NoJob, IInv, Shape, LockOwned, FoundInside, FileOutlivesUse,
         HasLock, Place

\* A thread that has found a file keeps the others from being in a wrapper that locks.
LEMMA Alone ==
  ASSUME IInv, NEW s \in Thread, job[s].step = "found",
         NEW t \in Thread, HasLock(t)
  PROVE  t = s
  BY DEF IInv, LockOwned, FoundInside, HasLock, Locks

LEMMA StepStart ==
  ASSUME IInv, NEW t \in Thread, NEW name \in Wrapper, NEW id \in Id,
         Start(t, name, id)
  PROVE  IInv'
  BY ThreadAssumption
  DEF IInv, Shape, LockOwned, FoundInside, FileOutlivesUse, HasLock, Place,
      svfs_keys, svfs_has, svfs_at, Start, Enter

LEMMA StepGetGIL ==
  ASSUME IInv, NEW t \in Thread, GetGIL(t)
  PROVE  IInv'
  BY DEF IInv, Shape, LockOwned, FoundInside, FileOutlivesUse, HasLock, Place,
      svfs_keys, svfs_has, svfs_at, GetGIL, TakeGIL

LEMMA StepAcquireLock ==
  ASSUME IInv, NEW t \in Thread, AcquireLock(t)
  PROVE  IInv'
  BY ThreadAssumption
  DEF IInv, Shape, LockOwned, FoundInside, FileOutlivesUse, HasLock, Place,
      svfs_keys, svfs_has, svfs_at,
      AcquireLock, TryLock, Wait, GetLock

LEMMA StepHandOver ==
  ASSUME IInv, NEW t \in Thread, HandOver(t)
  PROVE  IInv'
  BY DEF IInv, Shape, LockOwned, FoundInside, FileOutlivesUse, HasLock, Place,
      svfs_keys, svfs_has, svfs_at, HandOver, GoAway

LEMMA StepWork ==
  ASSUME IInv, NEW t \in Thread, Work(t)
  PROVE  IInv'
<1> USE DEF IInv, Shape, LockOwned, FoundInside, FileOutlivesUse, HasLock, Place,
      svfs_keys, svfs_has, svfs_at, In
<1>1. CASE insert(t)
  BY <1>1 DEF insert, svfs_insert, Done, lockVars
<1>2. CASE remove(t)
  <2>1. HasLock(t) /\ job[t].step = "parse"
    BY <1>2 DEF remove, Locks
  <2>2. \A s \in Thread : job[s].step # "found"
    BY <2>1, Alone
  <2> QED BY <1>2, <2>2 DEF remove, svfs_remove, Done, lockVars
<1>3. CASE at_id(t)
  BY <1>3 DEF at_id, lockVars
<1>4. CASE UseFile(t)
  BY <1>4 DEF UseFile, Done, lockVars
<1>5. CASE Query(t)
  BY <1>5 DEF Query, Done, lockVars
<1>6. CASE keys(t)
  BY <1>6 DEF keys, Done, lockVars
<1>7. CASE lru_punt_all(t)
  BY <1>7 DEF lru_punt_all, Done, lockVars
<1>8. CASE Return(t)
  BY <1>8, ThreadAssumption DEF Return, Leave, NoJob
<1> QED BY <1>1, <1>2, <1>3, <1>4, <1>5, <1>6, <1>7, <1>8 DEF Work

LEMMA StepIInv == IInv /\ [FSNext]_fsVars => IInv'
<1>1. ASSUME IInv, FSNext PROVE IInv'
  BY <1>1, StepStart, StepGetGIL, StepAcquireLock, StepHandOver, StepWork DEF FSNext
<1>2. ASSUME IInv, UNCHANGED fsVars PROVE IInv'
  BY <1>2 DEF fsVars, lockVars, IInv, Shape, LockOwned, FoundInside, FileOutlivesUse,
      svfs_keys, svfs_has, svfs_at, HasLock
<1> QED BY <1>1, <1>2

\* A wrapper of cSVFS never uses a file that another thread has removed or replaced
\* since it found it.
THEOREM FilesOutliveUse == FSSpec => []FileOutlivesUse
<1>1. IInv => FileOutlivesUse
  BY DEF IInv
<1> QED BY <1>1, InitIInv, StepIInv, PTL DEF FSSpec

=============================================================================
