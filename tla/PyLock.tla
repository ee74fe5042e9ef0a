------------------------------- MODULE PyLock -------------------------------
(***************************************************************************)
(* How Python threads enter one wrapper object (cSVF or cSVFS): the GIL,    *)
(* and the lock of the object that AcquireLockSVF and AcquireLockSVFS take  *)
(* and release.                                                             *)
(*                                                                          *)
(* A wrapper runs with the GIL.  It may lose it while it holds the lock:    *)
(* converting an argument or building a tuple can run Python code           *)
(* (__index__, a finalizer), and Python code gives the GIL away.  This is   *)
(* why the wrappers need a lock of their own.                               *)
(***************************************************************************)
EXTENDS Naturals

CONSTANTS
    Thread,
    NoThread,
    MaxCalls        \* bound: how many calls each thread makes

ASSUME ThreadAssumption == NoThread \notin Thread /\ MaxCalls \in [Thread -> Nat]

VARIABLES
    gil,            \* the thread in a wrapper that holds the GIL
    lock,           \* the thread that holds the lock of the object
    at              \* where each thread is, see Place

lockVars == <<gil, lock, at>>

\* "python": in Python code outside the object; "enter": in a wrapper, before its
\* lock; "wait": blocked on the lock; "regain": has the lock, needs the GIL;
\* "inside": in the wrapper proper; "away": in Python code run by the wrapper.
Place == {"python", "enter", "wait", "regain", "inside", "away"}

LockInit == gil = NoThread /\ lock = NoThread /\ at = [t \in Thread |-> "python"]

\* The interpreter gives the GIL to a thread that waits for it in a wrapper.
TakeGIL(t) ==
    /\ gil = NoThread /\ at[t] \in {"regain", "away"}
    /\ gil' = t
    /\ at' = [at EXCEPT ![t] = "inside"]
    /\ UNCHANGED lock

\* A thread gets the GIL and calls a wrapper; those that never lock go straight in.
Enter(t, locks) ==
    /\ gil = NoThread /\ at[t] = "python"
    /\ gil' = t
    /\ at' = [at EXCEPT ![t] = IF locks THEN "enter" ELSE "inside"]
    /\ UNCHANGED lock

\* The lock is free: NOWAIT_LOCK succeeds.
TryLock(t) ==
    /\ at[t] = "enter" /\ lock = NoThread
    /\ lock' = t
    /\ at' = [at EXCEPT ![t] = "inside"]
    /\ UNCHANGED gil

\* It is not: Py_BEGIN_ALLOW_THREADS, then WAIT_LOCK.
WaitWithGIL(t) ==
    /\ at[t] = "enter" /\ lock # NoThread
    /\ at' = [at EXCEPT ![t] = "wait"]
    /\ UNCHANGED <<gil, lock>>

Wait(t) ==
    /\ at[t] = "enter" /\ lock # NoThread
    /\ gil' = NoThread
    /\ at' = [at EXCEPT ![t] = "wait"]
    /\ UNCHANGED lock

\* WAIT_LOCK returns.  Py_END_ALLOW_THREADS is TakeGIL from "regain".
GetLock(t) ==
    /\ at[t] = "wait" /\ lock = NoThread
    /\ lock' = t
    /\ at' = [at EXCEPT ![t] = "regain"]
    /\ UNCHANGED gil

\* The wrapper runs Python code, which loses the GIL.
GoAway(t) ==
    /\ gil = t /\ at[t] = "inside"
    /\ gil' = NoThread
    /\ at' = [at EXCEPT ![t] = "away"]
    /\ UNCHANGED lock

\* The wrapper returns: the destructor releases the lock.  Back in Python code the
\* thread may lose the GIL at any moment.
LeaveUnlocked(t) ==
    /\ gil = t /\ at[t] = "inside"
    /\ gil' = NoThread /\ lock' = NoThread
    /\ at' = [at EXCEPT ![t] = "python"]

Leave(t) ==
    /\ gil = t /\ at[t] = "inside"
    /\ gil' = NoThread
    /\ lock' = IF lock = t THEN NoThread ELSE lock
    /\ at' = [at EXCEPT ![t] = "python"]

=============================================================================
