-------------------------- MODULE SVFThreadsProofs --------------------------
(***************************************************************************)
(* For any number of C++ threads and files of any length: the integrity     *)
(* assertions that are evaluated under the mutex hold, also those before    *)
(* each block that lru_punt erases.  The writes are those of IntegrityHolds: *)
(* none joins a gap, is empty or meets a difference.                        *)
(***************************************************************************)
EXTENDS SVFThreads, SparseVirtualFileIntegrityProofs

Shape == thread \in [Thread -> [at : Places, method : Methods]]

\* A thread past the lock has it, and a loop is under way only in a thread that runs.
MutexOwned == \A t \in Thread : thread[t].at \in {"inside", "running"} => m_mutex = t
LoopRuns   == pc # "idle" => m_mutex \in Thread /\ thread[m_mutex].at = "running"

ThreadsInv == FileInv /\ Shape /\ MutexOwned /\ LoopRuns /\ LockedAssertsHold

LEMMA InitThreadsInv == ThreadsInit => ThreadsInv
<1> SUFFICES ASSUME ThreadsInit PROVE ThreadsInv
  OBVIOUS
<1>1. FileInv /\ pc = "idle"
  BY FileInit DEF ThreadsInit, Init
<1> QED
  BY <1>1 DEF ThreadsInit, ThreadsInv, Shape, MutexOwned, LoopRuns, LockedAssertsHold, Places, Methods

\* integrity() holds where a method begins and where lru_punt goes on, so that an
\* assertion there lets the step through.
LEMMA PassedBegin ==
    ASSUME integrity, NEW t \in Thread, Begin(t)
    PROVE  /\ thread[t].at = "inside" /\ m_mutex' = m_mutex
           /\ thread' = [thread EXCEPT ![t].at = "running"]
           /\ [Next]_vars
<1> USE DEF Asserted, Go, Has
<1>1. m_mutex' = m_mutex
  BY DEF Begin
<1>2. CASE BeginWrite(t)
  BY <1>1, <1>2 DEF BeginWrite, Next, Call
<1>3. CASE BeginRead(t)
  BY <1>1, <1>3 DEF BeginRead, Next, Call
<1>4. CASE BeginErase(t)
  BY <1>1, <1>4 DEF BeginErase, Next, Call
<1>5. CASE BeginClear(t)
  BY <1>1, <1>5 DEF BeginClear, Next, Call
<1>6. CASE BeginPunt(t)
  BY <1>1, <1>6 DEF BeginPunt, Next, Call
<1>7. CASE BeginQuery(t)
  BY <1>1, <1>7 DEF BeginQuery
<1> QED
  BY <1>2, <1>3, <1>4, <1>5, <1>6, <1>7 DEF Begin

LEMMA PassedRun ==
    ASSUME pc = "lru_punt" => integrity, NEW t \in Thread, Run(t)
    PROVE  /\ thread[t].at = "running" /\ m_mutex' = m_mutex
           /\ thread' = [thread EXCEPT ![t].at = "running"]
           /\ Loop
BY DEF Run, Asserted, Go

LEMMA StepThreads ==
    ASSUME NoThread \notin Thread, AllowGapJoin = FALSE, MinLen = 1, Agreed,
           ThreadsInv, NEW t \in Thread, ThreadStep(t)
    PROVE  ThreadsInv'
<1> USE DEF Shape, MutexOwned, LoopRuns, LockedAssertsHold, Places, Methods
<1>1. FileInv /\ Shape /\ MutexOwned /\ LoopRuns /\ LockedAssertsHold
  BY DEF ThreadsInv
<1>2. UNCHANGED vars => FileInv' /\ pc' = pc
  <2> SUFFICES ASSUME UNCHANGED vars PROVE FileInv' /\ pc' = pc
    OBVIOUS
  <2>1. [Next]_vars
    OBVIOUS
  <2>2. pc' = pc
    BY DEF vars
  <2> QED
    BY <1>1, <2>1, <2>2, FileNext
<1>3. pc = "idle" => integrity
  BY <1>1, SoundIntegrity DEF FileInv, Integrity
<1>4. ASSUME NEW method \in Methods, Enter(t, method)
      PROVE  ThreadsInv'
  <2>1. /\ thread[t].at = "out" /\ UNCHANGED vars /\ m_mutex' = m_mutex
        /\ thread' = [thread EXCEPT ![t] =
                [at |-> IF method = "read" THEN "lock" ELSE "entry", method |-> method]]
    BY <1>4 DEF Enter
  <2> QED
    BY <1>1, <1>2, <2>1 DEF ThreadsInv
<1>5. CASE AssertEntry(t)
  <2>1. /\ thread[t].at = "entry" /\ UNCHANGED vars /\ m_mutex' = m_mutex
        /\ \E place \in {"lock", "failed_entry"} : thread' = [thread EXCEPT ![t].at = place]
    BY <1>5 DEF AssertEntry, SVF_ASSERT, Go
  <2> QED
    BY <1>1, <1>2, <2>1 DEF ThreadsInv
<1>6. CASE Lock(t)
  <2>1. /\ thread[t].at = "lock" /\ m_mutex = NoThread /\ m_mutex' = t
        /\ UNCHANGED vars /\ thread' = [thread EXCEPT ![t].at = "inside"]
    BY <1>6 DEF Lock, Go
  <2>2. pc = "idle" /\ \A s \in Thread : thread[s].at \notin {"inside", "running"}
    BY <1>1, <2>1
  <2> QED
    BY <1>1, <1>2, <2>1, <2>2 DEF ThreadsInv
\* The thread inside is alone, so that no loop is under way.
<1>7. thread[t].at = "inside" => pc = "idle"
  BY <1>1
<1>8. pc = "lru_punt" => integrity
  BY <1>1, SoundWhole DEF FileInv
<1>9. CASE Begin(t)
  <2>1. integrity
    BY <1>3, <1>7, <1>9 DEF Begin, BeginWrite, BeginRead, BeginErase, BeginClear, BeginPunt,
                            BeginQuery, Has
  <2>2. /\ thread[t].at = "inside" /\ m_mutex' = m_mutex /\ [Next]_vars
        /\ thread' = [thread EXCEPT ![t].at = "running"]
    BY <1>9, <2>1, PassedBegin
  <2>3. FileInv'
    BY <1>1, <2>2, FileNext
  <2> QED
    BY <1>1, <2>2, <2>3 DEF ThreadsInv
<1>10. CASE Run(t)
  <2>1. /\ thread[t].at = "running" /\ Loop /\ m_mutex' = m_mutex
        /\ thread' = [thread EXCEPT ![t].at = "running"]
    BY <1>8, <1>10, PassedRun
  <2>2. FileInv'
    BY <1>1, <2>1, FileNext DEF Next
  <2> QED
    BY <1>1, <2>1, <2>2 DEF ThreadsInv
<1>11. CASE Return(t)
  <2>1. /\ thread[t].at = "running" /\ pc = "idle" /\ m_mutex' = NoThread /\ UNCHANGED vars
        /\ thread' = [thread EXCEPT ![t].at = "out"]
    BY <1>3, <1>11 DEF Return, SVF_ASSERT, Go
  <2>2. \A s \in Thread \ {t} : thread[s].at \notin {"inside", "running"}
    BY <1>1, <2>1
  <2> QED
    BY <1>1, <1>2, <2>1, <2>2 DEF ThreadsInv
<1> QED
  BY <1>4, <1>5, <1>6, <1>9, <1>10, <1>11 DEF ThreadStep

\* No integrity assertion under the mutex fails, whatever the other threads have done
\* before: each call leaves the file as it must be and each is alone.  A write that
\* joins a gap, an empty one or one that meets a difference could leave it otherwise
\* (runs gap, keys and diff_lost), and is excluded.
THEOREM AssertionsUnderMutexHold ==
    ASSUME NoThread \notin Thread, AllowGapJoin = FALSE, MinLen = 1, Agreed
    PROVE  ThreadsSpec => []LockedAssertsHold
<1>1. ThreadsInv => LockedAssertsHold
  BY DEF ThreadsInv
<1>2. ThreadsInv /\ [ThreadsNext]_threadsVars => ThreadsInv'
  <2>1. CASE ThreadsNext
    BY <2>1, StepThreads DEF ThreadsNext
  <2>2. ASSUME ThreadsInv, UNCHANGED threadsVars
        PROVE  ThreadsInv'
    <3>1. [Next]_vars /\ pc' = pc /\ m_mutex' = m_mutex /\ thread' = thread
      BY <2>2 DEF threadsVars, vars
    <3>2. FileInv'
      BY <2>2, <3>1, FileNext DEF ThreadsInv
    <3> QED
      BY <2>2, <3>1, <3>2 DEF ThreadsInv, Shape, MutexOwned, LoopRuns, LockedAssertsHold
  <2> QED
    BY <2>1, <2>2
<1> QED
  BY <1>1, <1>2, InitThreadsInv, PTL DEF ThreadsSpec

=============================================================================
