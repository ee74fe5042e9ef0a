----------------------------- MODULE SVFThreads -----------------------------
(***************************************************************************)
(* A SparseVirtualFile that the threads of a C++ program share, in the debug *)
(* build of CMakeLists.txt: SVF_THREAD_SAFE and DEBUG are defined, so each   *)
(* public method locks m_mutex and SVF_ASSERT(integrity() == ERROR_NONE)     *)
(* aborts the program when it fails.  Almost every method evaluates that     *)
(* assertion before it locks.  The plain assert()s of arguments and of loop  *)
(* positions are left out.                                                  *)
(***************************************************************************)
EXTENDS SparseVirtualFile

CONSTANTS Thread, NoThread

VARIABLES
    m_mutex,        \* the thread that holds the mutex, NoThread (no member of Thread) if it is free
    thread          \* where each thread is, and in which method

threadsVars == <<vars, m_mutex, thread>>

\* "out": in no method; "entry": at the assertion a method begins with; "lock":
\* waits for the mutex; "inside": has it; "running": its method has begun;
\* "failed_entry", "failed_inside": an assertion failed before, or under, the mutex.
Places == {"out", "entry", "lock", "inside", "running", "failed_entry", "failed_inside"}

\* "need" stands for need, need_many and block_touches, which assert under the mutex
\* as well, "has" for has, blocks and the others that only read.
Methods == {"write", "read", "erase", "clear", "lru_punt", "need", "has"}

\* Those that assert once more before they return.
AssertsLast == {"write", "clear"}

\* abort() ends the program.
Aborted == \E t \in Thread : thread[t].at \in {"failed_entry", "failed_inside"}

Go(t, place) == thread' = [thread EXCEPT ![t].at = place]

\* SVF_ASSERT(integrity() == ERROR_NONE): on to place, or the end.  integrity() takes
\* no mutex and reads what the thread inside has written so far.
SVF_ASSERT(t, place, failed) == Go(t, IF integrity THEN place ELSE failed)

\* Every method but read() asserts first.
Enter(t, method) ==
    /\ thread[t].at = "out"
    /\ thread' = [thread EXCEPT ![t] =
            [at |-> IF method = "read" THEN "lock" ELSE "entry", method |-> method]]
    /\ UNCHANGED <<vars, m_mutex>>

AssertEntry(t) ==
    /\ thread[t].at = "entry"
    /\ SVF_ASSERT(t, "lock", "failed_entry")
    /\ UNCHANGED <<vars, m_mutex>>

\* std::lock_guard, constructed.
Lock(t) ==
    /\ thread[t].at = "lock" /\ m_mutex = NoThread
    /\ m_mutex' = t
    /\ Go(t, "inside")
    /\ UNCHANGED vars

\* What the assertions under the mutex, if the method has any, let through: its
\* step, that is the call up to its return or its loop, or abort().
Asserted(t, asserts, step) ==
    IF asserts /\ ~integrity
    THEN Go(t, "failed_inside") /\ UNCHANGED vars
    ELSE Go(t, "running") /\ step

Has(t, method) == thread[t].at = "inside" /\ thread[t].method = method

\* Lines 179 and 314: a write that coalesces asserts, one that inserts does not.
BeginWrite(t) ==
    /\ Has(t, "write")
    /\ \E f \in Files, fpos \in Pos : \E len \in MinLen .. MaxPos - fpos :
            Asserted(t, ~IsNewBlock(fpos, len), write(fpos, Fetch(f, fpos, len)))

\* Line 507.
BeginRead(t) ==
    /\ Has(t, "read")
    /\ \E fpos \in Pos : \E len \in 0 .. MaxPos - fpos :
            Asserted(t, TRUE, read(fpos, len) \/ readThrows(fpos, len))

\* Line 882.
BeginErase(t) ==
    /\ Has(t, "erase")
    /\ \E fpos \in Pos : Asserted(t, TRUE, erase(fpos) \/ eraseThrows(fpos))

BeginClear(t) == Has(t, "clear") /\ Asserted(t, FALSE, clear)

\* Line 990, when there is something to punt.
BeginPunt(t) ==
    /\ Has(t, "lru_punt")
    /\ \E bound \in 0 .. MaxBound : Asserted(t, MustPunt(bound), lru_punt(bound))

\* Lines 590 and 990.
BeginQuery(t) ==
    \/ Has(t, "need") /\ Asserted(t, TRUE, UNCHANGED vars)
    \/ Has(t, "has") /\ Asserted(t, FALSE, UNCHANGED vars)

Begin(t) ==
    /\ BeginWrite(t) \/ BeginRead(t) \/ BeginErase(t) \/ BeginClear(t) \/ BeginPunt(t) \/ BeginQuery(t)
    /\ UNCHANGED m_mutex

\* One iteration of the loop the method is in.  That of lru_punt erases a block, and
\* line 882 asserts before each.
Run(t) ==
    /\ thread[t].at = "running"
    /\ Asserted(t, pc = "lru_punt" /\ PuntsMore, Loop)
    /\ UNCHANGED m_mutex

\* std::lock_guard, destructed, also by an exception.
Return(t) ==
    /\ thread[t].at = "running" /\ pc = "idle"
    /\ IF thread[t].method \in AssertsLast /\ ret = "ok"
       THEN SVF_ASSERT(t, "out", "failed_inside")
       ELSE Go(t, "out")
    /\ m_mutex' = NoThread
    /\ UNCHANGED vars

ThreadsInit ==
    /\ Init
    /\ m_mutex = NoThread
    /\ thread = [t \in Thread |-> [at |-> "out", method |-> "has"]]

ThreadStep(t) ==
    \/ \E method \in Methods : Enter(t, method)
    \/ AssertEntry(t) \/ Lock(t) \/ Begin(t) \/ Run(t) \/ Return(t)

ThreadsNext == ~Aborted /\ \E t \in Thread : ThreadStep(t)

ThreadsSpec == ThreadsInit /\ [][ThreadsNext]_threadsVars

(***************************************************************************)
(* Properties                                                               *)
(***************************************************************************)

\* The assertion at the start of a method (svf.cpp:453 and the like) never fails
\* for a thread that comes in while another one is inside.
EntryAssertsHold == \A t \in Thread : thread[t].at # "failed_entry"

\* No integrity assertion that is evaluated under the mutex fails, whatever the
\* other threads have done before: at the start of a method, before each block that
\* lru_punt erases, and at the end (svf.cpp:507, 882, 492).
LockedAssertsHold == \A t \in Thread : thread[t].at # "failed_inside"

=============================================================================
