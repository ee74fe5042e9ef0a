--------------------------- MODULE SVFPythonProofs ---------------------------
(***************************************************************************)
(* For any number of threads, calls, files and bytes: the wrappers of cSVF  *)
(* that lock exclude each other, and no wrapper meets the C++ object in the *)
(* middle of another thread's call, although some wrappers never lock.  The *)
(* argument is about two owners: who has the lock, and who has the GIL.     *)
(* On it rests the second part: __setstate__ has the object for itself, and *)
(* restores the bytes of the pickle.                                        *)
(***************************************************************************)
EXTENDS SVFPython, SparseVirtualFileRefinementProofs

\* What the proof needs of the types: which functions there are.
Shape ==
    /\ at \in [Thread -> Place]
    /\ DOMAIN call = Thread
    /\ \A t \in Thread :
        DOMAIN call[t] = {"name", "begun", "rested", "calls", "todo", "got"}

\* A thread that is past the lock has it, a thread that runs in a wrapper has the GIL.
HasLock(t) ==
    \/ at[t] = "regain"
    \/ at[t] \in {"inside", "away"} /\ call[t].name \in Locks
LockOwned == \A t \in Thread : HasLock(t) => lock = t
GILOwned  == \A t \in Thread : at[t] \in {"enter", "inside"} => gil = t

\* A C++ call is under way only in the thread that has the GIL, in a wrapper that has
\* made such a call.
CallInside ==
    pc # "idle" =>
        /\ gil \in Thread
        /\ at[gil] = "inside" /\ call[gil].begun
        /\ call[gil].name \in {"write", "change", "setstate"}

PyInv == Shape /\ LockOwned /\ GILOwned /\ CallInside

LEMMA InitPyInv == PyInit => PyInv
  BY DEF PyInit, LockInit, Init, NoCall, PyInv, Shape, LockOwned, GILOwned, CallInside,
         HasLock, Place

LEMMA StepStart ==
  ASSUME PyInv, NEW t \in Thread, NEW name \in Locks \cup Unlocked, Start(t, name)
  PROVE  PyInv'
<1>1. /\ Shape /\ LockOwned /\ GILOwned /\ CallInside
      /\ gil = NoThread /\ at[t] = "python" /\ gil' = t /\ lock' = lock /\ pc' = pc
      /\ at' = [at EXCEPT ![t] = IF name \in Locks THEN "enter" ELSE "inside"]
      /\ call' = [call EXCEPT ![t].name = name]
  BY DEF PyInv, Start, Enter, vars
<1>2. Shape'
  BY <1>1 DEF Shape, Place
<1>3. LockOwned'
  BY <1>1 DEF LockOwned, HasLock, Shape
<1>4. \A s \in Thread : at[s] \notin {"enter", "inside"}
  BY <1>1, ThreadAssumption DEF GILOwned
<1>5. GILOwned'
  BY <1>1, <1>4 DEF GILOwned, Shape
<1>6. CallInside'
  BY <1>1, ThreadAssumption DEF CallInside
<1> QED
  BY <1>2, <1>3, <1>5, <1>6 DEF PyInv

\* A step of the thread that has the GIL, in the wrapper proper, that stays there.
LEMMA StepInside ==
  ASSUME PyInv, NEW t \in Thread, at[t] = "inside", gil = t, UNCHANGED lockVars,
         Shape', call'[t].name = call[t].name,
         \A s \in Thread \ {t} : call'[s] = call[s],
         pc' = "idle" \/ (call'[t].begun /\ call[t].name \in {"write", "change", "setstate"})
  PROVE  PyInv'
  BY DEF PyInv, LockOwned, GILOwned, CallInside, HasLock, lockVars

\* A thread leaves a wrapper when no C++ call is under way.
LEMMA StepFinish ==
  ASSUME PyInv, NEW t \in Thread, Finish(t), pc' = "idle"
  PROVE  PyInv'
<1>1. /\ Shape /\ LockOwned /\ GILOwned
      /\ gil = t /\ at[t] = "inside" /\ gil' = NoThread
      /\ lock' = IF lock = t THEN NoThread ELSE lock
      /\ at' = [at EXCEPT ![t] = "python"]
      /\ call' = [call EXCEPT ![t] = NoCall(@.calls + 1)]
  BY DEF PyInv, Finish, Leave
<1>2. Shape'
  BY <1>1 DEF Shape, Place, NoCall
<1>3. LockOwned'
  BY <1>1 DEF LockOwned, HasLock, Shape
<1>4. \A s \in Thread \ {t} : at[s] \notin {"enter", "inside"}
  BY <1>1 DEF GILOwned
<1>5. GILOwned'
  BY <1>1, <1>4 DEF GILOwned, Shape
<1>6. CallInside'
  BY DEF CallInside
<1> QED
  BY <1>2, <1>3, <1>5, <1>6 DEF PyInv

LEMMA StepSetState ==
  ASSUME PyInv, NEW t \in Thread, SetState(t)
  PROVE  PyInv'
<1>1. /\ Shape /\ \A s \in Thread : at[s] = "python"
      /\ gil' = t /\ lock' = lock /\ at' = [at EXCEPT ![t] = "inside"] /\ pc' = "idle"
      /\ call' = [call EXCEPT ![t] = [@ EXCEPT !.name = "setstate", !.begun = TRUE,
                                               !.todo = pickle]]
  BY DEF PyInv, SetState, Enter, NewObject
<1>2. Shape'
  BY <1>1 DEF Shape, Place
<1>3. LockOwned'
  BY <1>1 DEF LockOwned, HasLock, Shape, Locks
<1>4. GILOwned' /\ CallInside'
  BY <1>1 DEF GILOwned, CallInside, Shape
<1> QED
  BY <1>2, <1>3, <1>4 DEF PyInv

LEMMA StepGetGIL ==
  ASSUME PyInv, NEW t \in Thread, GetGIL(t)
  PROVE  PyInv'
<1>1. /\ Shape /\ LockOwned /\ GILOwned /\ CallInside
      /\ gil = NoThread /\ at[t] \in {"regain", "away"} /\ gil' = t /\ lock' = lock
      /\ at' = [at EXCEPT ![t] = "inside"] /\ call' = call /\ pc' = pc
  BY DEF PyInv, GetGIL, TakeGIL, vars
<1>2. Shape' /\ LockOwned'
  BY <1>1 DEF Shape, Place, LockOwned, HasLock
<1>3. \A s \in Thread : at[s] \notin {"enter", "inside"}
  BY <1>1, ThreadAssumption DEF GILOwned
<1>4. GILOwned'
  BY <1>1, <1>3 DEF GILOwned, Shape
<1>5. CallInside'
  BY <1>1, ThreadAssumption DEF CallInside
<1> QED
  BY <1>2, <1>4, <1>5 DEF PyInv

LEMMA StepAcquireLock ==
  ASSUME PyInv, NEW t \in Thread, AcquireLock(t)
  PROVE  PyInv'
<1>1. /\ Shape /\ LockOwned /\ GILOwned /\ CallInside /\ call' = call /\ pc' = pc
      /\ TryLock(t) \/ Wait(t) \/ GetLock(t)
  BY DEF PyInv, AcquireLock, vars
<1>2. CASE TryLock(t)
  <2>1. /\ at[t] = "enter" /\ lock = NoThread /\ lock' = t /\ gil' = gil
        /\ at' = [at EXCEPT ![t] = "inside"]
    BY <1>2 DEF TryLock
  <2>2. \A s \in Thread : ~HasLock(s)
    BY <1>1, <2>1, ThreadAssumption DEF LockOwned
  <2> QED
    BY <1>1, <2>1, <2>2 DEF PyInv, Shape, Place, LockOwned, HasLock, GILOwned, CallInside
<1>3. CASE Wait(t)
  <2>1. /\ at[t] = "enter" /\ gil' = NoThread /\ lock' = lock /\ at' = [at EXCEPT ![t] = "wait"]
    BY <1>3 DEF Wait
  <2>2. gil = t /\ pc = "idle"
    BY <1>1, <2>1 DEF GILOwned, CallInside
  <2>3. \A s \in Thread \ {t} : at[s] \notin {"enter", "inside"}
    BY <1>1, <2>2 DEF GILOwned
  <2> QED
    BY <1>1, <2>1, <2>2, <2>3 DEF PyInv, Shape, Place, LockOwned, HasLock, GILOwned, CallInside
<1>4. CASE GetLock(t)
  <2>1. /\ at[t] = "wait" /\ lock = NoThread /\ lock' = t /\ gil' = gil
        /\ at' = [at EXCEPT ![t] = "regain"]
    BY <1>4 DEF GetLock
  <2>2. \A s \in Thread : ~HasLock(s)
    BY <1>1, <2>1, ThreadAssumption DEF LockOwned
  <2> QED
    BY <1>1, <2>1, <2>2 DEF PyInv, Shape, Place, LockOwned, HasLock, GILOwned, CallInside
<1> QED
  BY <1>1, <1>2, <1>3, <1>4

LEMMA StepHandOver ==
  ASSUME PyInv, NEW t \in Thread, HandOver(t)
  PROVE  PyInv'
<1>1. /\ Shape /\ LockOwned /\ GILOwned /\ pc' = "idle"
      /\ gil = t /\ at[t] = "inside" /\ gil' = NoThread /\ lock' = lock
      /\ at' = [at EXCEPT ![t] = "away"] /\ call' = [call EXCEPT ![t].rested = TRUE]
  BY DEF PyInv, HandOver, MayRest, GoAway, vars
<1>2. Shape' /\ LockOwned'
  BY <1>1 DEF Shape, Place, LockOwned, HasLock
<1>3. \A s \in Thread \ {t} : at[s] \notin {"enter", "inside"}
  BY <1>1 DEF GILOwned
<1> QED
  BY <1>1, <1>2, <1>3 DEF PyInv, Shape, GILOwned, CallInside

LEMMA StepWork ==
  ASSUME PyInv, NEW t \in Thread, Work(t)
  PROVE  PyInv'
<1>1. Shape /\ CallInside
  BY DEF PyInv
\* A C++ call begins.
<1>2. ASSUME NEW name \in Locks \cup Unlocked, Before(t, name), Begun(t),
             name \in {"write", "change"} \/ UNCHANGED vars
      PROVE  PyInv'
  <2>1. /\ at[t] = "inside" /\ gil = t /\ call[t].name = name /\ UNCHANGED lockVars
        /\ call' = [call EXCEPT ![t] = [@ EXCEPT !.begun = TRUE, !.rested = FALSE]]
    BY <1>2 DEF Before, Begun
  <2>2. /\ Shape' /\ call'[t].name = name /\ call'[t].begun
        /\ \A s \in Thread \ {t} : call'[s] = call[s]
    BY <1>1, <2>1 DEF Shape, lockVars
  <2>3. UNCHANGED vars => pc' = "idle"
    BY <1>1, <1>2, <2>1 DEF CallInside, Before, vars
  <2> QED
    BY <1>2, <2>1, <2>2, <2>3, StepInside
<1>3. CASE \E f \in Files, fpos \in Pos : \E len \in MinLen .. MaxPos - fpos :
                Write(t, fpos, Fetch(f, fpos, len))
  BY <1>2, <1>3 DEF Write, Locks
<1>4. CASE Change(t) \/ Punt(t)
  BY <1>2, <1>4 DEF Change, Punt, Locks
<1>5. CASE List(t) \/ Query(t)
  BY <1>2, <1>5 DEF List, Query, Locks, Unlocked
<1>6. CASE Run(t)
  <2>1. /\ at[t] = "inside" /\ gil = t /\ call[t].begun
        /\ call[t].name \in {"write", "change", "setstate"}
        /\ UNCHANGED lockVars /\ call' = call
    BY <1>6 DEF Run, After
  <2>2. Shape'
    BY <1>1, <2>1 DEF Shape, lockVars
  <2> QED
    BY <2>1, <2>2, StepInside
<1>7. CASE Return(t) \/ Loaded(t)
  BY <1>7, StepFinish DEF Return, Loaded, vars
<1>8. CASE GetState(t)
  <2>1. /\ at[t] = "inside" /\ gil = t /\ call[t].name = "getstate" /\ UNCHANGED lockVars
        /\ ~call[t].begun /\ pc' = pc
        /\ call' = [call EXCEPT ![t] = [@ EXCEPT !.begun = TRUE, !.rested = FALSE,
                                                 !.todo = blocks]]
    BY <1>8 DEF GetState, Before, vars
  <2>2. /\ Shape' /\ call'[t].name = call[t].name
        /\ \A s \in Thread \ {t} : call'[s] = call[s]
    BY <1>1, <2>1 DEF Shape, lockVars
  <2>3. pc' = "idle"
    BY <1>1, <2>1 DEF CallInside
  <2> QED
    BY <2>1, <2>2, <2>3, StepInside
<1>9. CASE ReadBlock(t)
  <2> DEFINE block == Head(call[t].todo)
  <2>1. /\ at[t] = "inside" /\ gil = t /\ UNCHANGED lockVars /\ pc' = "idle"
        /\ call' = [call EXCEPT ![t] = [@ EXCEPT !.rested = FALSE,
                        !.todo = Tail(call[t].todo),
                        !.got = Append(call[t].got, <<block[1], Bytes(block[1], block[2])>>)]]
    BY <1>9 DEF ReadBlock, After, read
  <2>2. /\ Shape' /\ call'[t].name = call[t].name
        /\ \A s \in Thread \ {t} : call'[s] = call[s]
    BY <1>1, <2>1 DEF Shape, lockVars
  <2> QED
    BY <2>1, <2>2, StepInside
<1>10. CASE ReadBlockFails(t)
  BY <1>10, StepFinish DEF ReadBlockFails, readThrows
<1>11. CASE Pickled(t)
  <2>1. gil = t /\ call[t].name = "getstate" /\ pc' = pc /\ Finish(t)
    BY <1>11 DEF Pickled, After, vars
  <2>2. pc = "idle"
    BY <1>1, <2>1 DEF CallInside
  <2> QED
    BY <2>1, <2>2, StepFinish
<1>12. CASE PlayBack(t)
  <2>1. /\ at[t] = "inside" /\ gil = t /\ call[t].name = "setstate" /\ call[t].begun
        /\ UNCHANGED lockVars /\ call' = [call EXCEPT ![t].todo = Tail(@)]
    BY <1>12 DEF PlayBack, After
  <2>2. /\ Shape' /\ call'[t].name = call[t].name /\ call'[t].begun
        /\ \A s \in Thread \ {t} : call'[s] = call[s]
    BY <1>1, <2>1 DEF Shape, lockVars
  <2> QED
    BY <2>1, <2>2, StepInside
<1> QED
  BY <1>3, <1>4, <1>5, <1>6, <1>7, <1>8, <1>9, <1>10, <1>11, <1>12 DEF Work

LEMMA StepPyInv == PyInv /\ [PyNext]_pyVars => PyInv'
<1>1. ASSUME PyInv, PyNext PROVE PyInv'
  BY <1>1, StepStart, StepSetState, StepGetGIL, StepAcquireLock, StepWork, StepHandOver
  DEF PyNext
<1>2. ASSUME PyInv, UNCHANGED pyVars PROVE PyInv'
  BY <1>2 DEF pyVars, vars, lockVars, PyInv, Shape, LockOwned, GILOwned, CallInside, HasLock
<1> QED
  BY <1>1, <1>2

\* The wrappers that take the lock exclude each other from lock to unlock, also while
\* one of them is away in Python code or waits for the GIL with the lock in its hand.
THEOREM LockedCallsExcludeEachOther == PySpec => []LockedCallsExclude
<1>1. PyInv => LockedCallsExclude
  BY DEF PyInv, LockOwned, HasLock, LockedCallsExclude
<1> QED
  BY <1>1, InitPyInv, StepPyInv, PTL DEF PySpec

\* No wrapper, locking or not, begins while another thread is in the middle of a C++
\* call: the GIL is kept from the begin of a C++ call to its end.
THEOREM ObjectNeverTorn == PySpec => []NeverMeetsTornObject
<1>1. PyInv => NeverMeetsTornObject
  BY DEF PyInv, CallInside, NeverMeetsTornObject, Before
<1> QED
  BY <1>1, InitPyInv, StepPyInv, PTL DEF PySpec

(***************************************************************************)
(* Pickling.  A pickle lists chunks, <<file position, bytes>>, and while it *)
(* is made the blocks still to be read, <<file position, length>>.          *)
(***************************************************************************)
GoodList(list) ==
    /\ list \in Seq(Nat \X Nat)
    /\ \A i \in DOMAIN list : list[i][1] \in Pos /\ list[i][2] \in 1 .. MaxPos - list[i][1]

GoodChunk(chunk) ==
    /\ chunk \in Nat \X Seq(Byte)
    /\ chunk[1] \in Pos /\ Len(chunk[2]) \in 1 .. MaxPos - chunk[1]
    /\ RightAt(TheFile, chunk[1], chunk[2])

GoodChunks(chunks) ==
    /\ chunks \in Seq(Nat \X Seq(Byte))
    /\ \A i \in DOMAIN chunks : GoodChunk(chunks[i])

ChunkSpan(chunk) == Span(chunk[1], chunk[1] + Len(chunk[2]))
ChunkSpans(chunks) == UNION {ChunkSpan(chunks[i]) : i \in DOMAIN chunks}

\* The bytes of the file at the positions S.
Copy(S) == [q \in S |-> TheFile[q]]

LEMMA TailIndex ==
    ASSUME NEW T, NEW s \in Seq(T), s # <<>>
    PROVE  /\ Tail(s) \in Seq(T) /\ Head(s) \in T
           /\ 1 \in DOMAIN s /\ Head(s) = s[1]
           /\ \A i \in DOMAIN Tail(s) : i + 1 \in DOMAIN s /\ Tail(s)[i] = s[i + 1]
           /\ \A j \in DOMAIN s : j # 1 => j - 1 \in DOMAIN Tail(s) /\ Tail(s)[j - 1] = s[j]
<1> DEFINE n == Len(s)
           t == Tail(s)
<1>1. n \in Nat \ {0} /\ DOMAIN s = 1 .. n
  BY EmptySeq, LenProperties
<1>2. /\ Head(s) = s[1] /\ t \in Seq(T) /\ Len(t) = n - 1
      /\ \A i \in 1 .. n - 1 : t[i] = s[i + 1]
  BY HeadTailProperties
<1> HIDE DEF n, t
<1>3. DOMAIN t = 1 .. n - 1
  BY <1>2, LenProperties
<1>4. 1 \in 1 .. n /\ \A i \in 1 .. n - 1 : i + 1 \in 1 .. n
  BY <1>1
<1>5. \A j \in 1 .. n : j # 1 => j - 1 \in 1 .. n - 1 /\ t[j - 1] = s[j]
  <2> SUFFICES ASSUME NEW j \in 1 .. n, j # 1 PROVE j - 1 \in 1 .. n - 1 /\ t[j - 1] = s[j]
    OBVIOUS
  <2>1. j - 1 \in 1 .. n - 1 /\ (j - 1) + 1 = j
    BY <1>1
  <2> QED
    BY <1>2, <2>1
<1>6. s[1] \in T
  BY <1>1, <1>4, ElementOfSeq
<1> QED
  BY <1>1, <1>2, <1>3, <1>4, <1>5, <1>6 DEF t

LEMMA ListTail ==
    ASSUME NEW list, GoodList(list), list # <<>>
    PROVE  /\ GoodList(Tail(list))
           /\ Head(list)[1] \in Pos /\ Head(list)[2] \in 1 .. MaxPos - Head(list)[1]
<1> DEFINE t == Tail(list)
<1>1. /\ t \in Seq(Nat \X Nat) /\ 1 \in DOMAIN list /\ Head(list) = list[1]
      /\ \A i \in DOMAIN t : i + 1 \in DOMAIN list /\ t[i] = list[i + 1]
      /\ \A j \in DOMAIN list : j # 1 => j - 1 \in DOMAIN t /\ t[j - 1] = list[j]
  BY TailIndex DEF GoodList
<1> HIDE DEF t
<1>2. GoodList(t) /\ Head(list)[1] \in Pos /\ Head(list)[2] \in 1 .. MaxPos - Head(list)[1]
  BY <1>1 DEF GoodList
<1> QED
  BY <1>1, <1>2 DEF t

LEMMA ChunkTail ==
    ASSUME NEW chunks, GoodChunks(chunks), chunks # <<>>
    PROVE  /\ GoodChunks(Tail(chunks)) /\ GoodChunk(Head(chunks))
           /\ ChunkSpans(chunks) = ChunkSpan(Head(chunks)) \cup ChunkSpans(Tail(chunks))
<1> DEFINE t == Tail(chunks)
<1>1. /\ t \in Seq(Nat \X Seq(Byte)) /\ 1 \in DOMAIN chunks /\ Head(chunks) = chunks[1]
      /\ \A i \in DOMAIN t : i + 1 \in DOMAIN chunks /\ t[i] = chunks[i + 1]
      /\ \A j \in DOMAIN chunks : j # 1 => j - 1 \in DOMAIN t /\ t[j - 1] = chunks[j]
  BY TailIndex DEF GoodChunks
<1> HIDE DEF t
<1>2. GoodChunks(t) /\ GoodChunk(Head(chunks))
  BY <1>1 DEF GoodChunks
<1>3. ChunkSpans(chunks) \subseteq ChunkSpan(chunks[1]) \cup ChunkSpans(t)
  BY <1>1 DEF ChunkSpans
<1>4. ChunkSpan(chunks[1]) \cup ChunkSpans(t) \subseteq ChunkSpans(chunks)
  BY <1>1 DEF ChunkSpans
<1> QED
  BY <1>1, <1>2, <1>3, <1>4 DEF t

LEMMA ChunkAppend ==
    ASSUME NEW chunks, GoodChunks(chunks), NEW chunk, GoodChunk(chunk)
    PROVE  /\ GoodChunks(Append(chunks, chunk))
           /\ ChunkSpans(Append(chunks, chunk)) = ChunkSpans(chunks) \cup ChunkSpan(chunk)
<1> DEFINE n == Len(chunks)
           t == Append(chunks, chunk)
<1>1. /\ chunks \in Seq(Nat \X Seq(Byte)) /\ chunk \in Nat \X Seq(Byte)
  BY DEF GoodChunks, GoodChunk
<1>2. /\ t \in Seq(Nat \X Seq(Byte)) /\ Len(t) = n + 1 /\ n \in Nat
      /\ \A i \in 1 .. n : t[i] = chunks[i]
      /\ t[n + 1] = chunk
  BY <1>1, AppendProperties, LenProperties
<1>3. DOMAIN chunks = 1 .. n /\ DOMAIN t = 1 .. n + 1
  BY <1>1, <1>2, LenProperties
<1> HIDE DEF n, t
<1>4. \A i \in 1 .. n + 1 : i \in 1 .. n \/ i = n + 1
  BY <1>2
<1>5. n + 1 \in 1 .. n + 1 /\ \A i \in 1 .. n : i \in 1 .. n + 1
  BY <1>2
<1>6. GoodChunks(t)
  BY <1>2, <1>3, <1>4 DEF GoodChunks
<1>7. ChunkSpans(t) \subseteq ChunkSpans(chunks) \cup ChunkSpan(chunk)
  BY <1>2, <1>3, <1>4 DEF ChunkSpans
<1>8. ChunkSpans(chunks) \subseteq ChunkSpans(t) /\ ChunkSpan(chunk) \subseteq ChunkSpans(t)
  BY <1>2, <1>3, <1>5 DEF ChunkSpans
<1> QED
  BY <1>6, <1>7, <1>8 DEF t

LEMMA NoChunks == GoodChunks(<<>>) /\ ChunkSpans(<<>>) = {}
<1>1. <<>> \in Seq(Nat \X Seq(Byte)) /\ DOMAIN <<>> = {}
  OBVIOUS
<1> QED
  BY <1>1 DEF GoodChunks, ChunkSpans

\* Whichever chunk a byte is taken from, it is the byte of the file there.
LEMMA ChunksCopy ==
    ASSUME NEW chunks, GoodChunks(chunks)
    PROVE  BytesOf(chunks) = Copy(ChunkSpans(chunks))
<1> DEFINE LastPos(i) == chunks[i][1] + Len(chunks[i][2]) - 1
           Which(q) == CHOOSE i \in DOMAIN chunks : chunks[i][1] <= q /\ q <= LastPos(i)
<1>1. \A i \in DOMAIN chunks :
        /\ GoodChunk(chunks[i]) /\ chunks[i][1] \in Nat /\ Len(chunks[i][2]) \in Nat
        /\ ChunkSpan(chunks[i]) = chunks[i][1] .. LastPos(i)
  BY BoundsAssumption DEF GoodChunks, GoodChunk, Pos, ChunkSpan, Span
<1>2. ChunkSpans(chunks) = UNION {chunks[i][1] .. LastPos(i) : i \in DOMAIN chunks}
  BY <1>1 DEF ChunkSpans
<1>3. ASSUME NEW q \in ChunkSpans(chunks)
      PROVE  chunks[Which(q)][2][q - chunks[Which(q)][1] + 1] = TheFile[q]
  <2>1. PICK j \in DOMAIN chunks : q \in chunks[j][1] .. LastPos(j)
    BY <1>2, <1>3
  <2>2. q \in Nat /\ chunks[j][1] <= q /\ q <= LastPos(j)
    BY <1>1, <2>1
  <2>3. /\ Which(q) \in DOMAIN chunks /\ chunks[Which(q)][1] <= q /\ q <= LastPos(Which(q))
    BY <2>2
  <2> DEFINE i == Which(q)
             a == chunks[i][1]
             d == chunks[i][2]
  <2> HIDE DEF Which, i
  <2>4. i \in DOMAIN chunks /\ a <= q /\ q <= a + Len(d) - 1
    BY <2>3 DEF i
  <2>5. RightAt(TheFile, a, d) /\ a \in Nat /\ Len(d) \in Nat
    BY <1>1, <2>4 DEF GoodChunk
  <2> HIDE DEF a, d
  <2>6. q - a + 1 \in 1 .. Len(d) /\ a + (q - a + 1) - 1 = q
    BY <2>2, <2>4, <2>5
  <2>7. d[q - a + 1] = TheFile[q]
    BY <2>5, <2>6 DEF RightAt
  <2> QED
    BY <2>7 DEF a, d, i
<1>4. BytesOf(chunks) = [q \in UNION {chunks[i][1] .. LastPos(i) : i \in DOMAIN chunks} |->
            chunks[Which(q)][2][q - chunks[Which(q)][1] + 1]]
  BY DEF BytesOf
<1> HIDE DEF Which, LastPos
<1> QED
  BY <1>2, <1>3, <1>4 DEF Copy
(***************************************************************************)
(* The list of blocks, in map order                                         *)
(***************************************************************************)
InOrderly(s) ==
    \E e \in Bijection(1 .. Cardinality(s), s) :
        \A i, j \in DOMAIN e : i < j => e[i] < e[j]

\* The largest element is put after the others.
LEMMA LargestAfter ==
    ASSUME NEW s, IsFiniteSet(s), s \subseteq Nat, NEW z \in s, \A y \in s : y <= z,
           InOrderly(s \ {z})
    PROVE  InOrderly(s)
<1> DEFINE r == s \ {z}
           n == Cardinality(s)
<1>1. Cardinality(r) = n - 1 /\ n - 1 \in Nat /\ n \in Nat
  <2>1. IsFiniteSet(r) /\ Cardinality(r) = n - 1
    BY FS_RemoveElement
  <2> QED
    BY <2>1, FS_CardinalityType
<1>2. PICK e \in Bijection(1 .. n - 1, r) : \A i, j \in DOMAIN e : i < j => e[i] < e[j]
  BY <1>1 DEF InOrderly
<1>3. /\ e \in [1 .. n - 1 -> r] /\ DOMAIN e = 1 .. n - 1
      /\ \A i, j \in 1 .. n - 1 : e[i] = e[j] => i = j
      /\ \A x \in r : \E i \in 1 .. n - 1 : e[i] = x
  BY <1>2 DEF Bijection, Injection, Surjection, IsInjective
<1> DEFINE g == [i \in 1 .. n |-> IF i = n THEN z ELSE e[i]]
<1> HIDE DEF n, r
<1>4. /\ \A i \in 1 .. n : i # n => i \in 1 .. n - 1
      /\ \A i \in 1 .. n - 1 : i \in 1 .. n /\ i # n
      /\ n \in 1 .. n
  BY <1>1
<1>5. DOMAIN g = 1 .. n /\ g[n] = z /\ \A i \in 1 .. n - 1 : g[i] = e[i] /\ g[i] \in r
  BY <1>3, <1>4
<1>6. \A x \in r : x \in s /\ x \in Nat /\ x < z
  BY DEF r
<1> HIDE DEF g
<1>7. \A i, j \in 1 .. n : i < j => g[i] < g[j]
  <2> SUFFICES ASSUME NEW i \in 1 .. n, NEW j \in 1 .. n, i < j PROVE g[i] < g[j]
    OBVIOUS
  <2>1. i \in 1 .. n - 1 /\ (j = n \/ j \in 1 .. n - 1)
    BY <1>1
  <2> QED
    BY <1>2, <1>3, <1>5, <1>6, <2>1
<1>8. \A i \in 1 .. n : g[i] \in Nat /\ g[i] \in s
  BY <1>4, <1>5, <1>6
<1>9. \A i, j \in 1 .. n : g[i] = g[j] => i = j
  BY <1>1, <1>7, <1>8
<1>10. \A x \in s : \E i \in 1 .. n : g[i] = x
  <2>1. \A x \in s : x = z \/ x \in r
    BY DEF r
  <2> QED
    BY <1>3, <1>4, <1>5, <2>1
<1>11. g \in [1 .. n -> s]
  BY <1>5, <1>8 DEF g
<1>12. g \in Bijection(1 .. n, s)
  BY <1>5, <1>9, <1>10, <1>11 DEF Bijection, Injection, Surjection, IsInjective
<1> QED
  BY <1>5, <1>7, <1>12 DEF InOrderly, n

LEMMA InOrderType ==
    ASSUME NEW n \in Nat, NEW s, s \subseteq 0 .. n
    PROVE  /\ Cardinality(s) \in Nat
           /\ InOrder(s) \in [1 .. Cardinality(s) -> s]
           /\ \A x \in s : \E i \in 1 .. Cardinality(s) : InOrder(s)[i] = x
<1> DEFINE D == 0 .. n
           G == {u \in SUBSET D : InOrderly(u)}
<1>1. \A u \in SUBSET D : IsFiniteSet(u)
  <2>1. IsFiniteSet(D)
    BY FS_Interval
  <2> HIDE DEF D
  <2> QED
    BY <2>1, FS_Subset
<1>2. {} \in G
  <2>1. Cardinality({}) = 0 /\ 1 .. 0 = {}
    BY FS_EmptySet
  <2> DEFINE e == [i \in {} |-> 0]
  <2>2. e \in Bijection({}, {}) /\ DOMAIN e = {}
    BY DEF Bijection, Injection, Surjection, IsInjective
  <2> HIDE DEF e
  <2>3. InOrderly({})
    BY <2>1, <2>2 DEF InOrderly
  <2> QED
    BY <2>3
<1>3. \A u \in SUBSET D : u # {} /\ u \ {Largest(u)} \in G => u \in G
  <2> SUFFICES ASSUME NEW u \in SUBSET D, u # {}, InOrderly(u \ {Largest(u)}) PROVE InOrderly(u)
    OBVIOUS
  <2>1. Largest(u) \in u /\ \A y \in u : y <= Largest(u)
    BY LargestIn
  <2>2. u \subseteq Nat /\ IsFiniteSet(u)
    BY <1>1
  <2> QED
    BY <2>1, <2>2, LargestAfter
<1> HIDE DEF G
<1>4. s \in G
  BY <1>2, <1>3, LargestLast
<1>5. PICK e \in Bijection(1 .. Cardinality(s), s) : \A i, j \in DOMAIN e : i < j => e[i] < e[j]
  BY <1>4 DEF G, InOrderly
<1>6. InOrder(s) \in Bijection(1 .. Cardinality(s), s)
  BY <1>5 DEF InOrder
<1>7. Cardinality(s) \in Nat
  BY <1>1, FS_CardinalityType
<1> QED
  BY <1>6, <1>7 DEF Bijection, Injection, Surjection

\* The list has a block's position and length in each place.
LEMMA BlocksListed ==
    ASSUME ImplInv
    PROVE  GoodList(blocks)
<1> DEFINE n == Cardinality(Starts)
           order == InOrder(Starts)
<1>1. Sound(m_svf) /\ Starts = DOMAIN m_svf
  BY DEF ImplInv, FileInv, BlockInv, Starts
<1>2. \A s \in Starts : /\ s \in Pos /\ s \in Nat /\ Len(m_svf[s].data) \in Nat
                        /\ Len(m_svf[s].data) \in 1 .. MaxPos - s
                        /\ End(m_svf, s) = s + Len(m_svf[s].data)
  <2> SUFFICES ASSUME NEW s \in Starts
               PROVE  /\ s \in Pos /\ s \in Nat /\ Len(m_svf[s].data) \in Nat
                      /\ Len(m_svf[s].data) \in 1 .. MaxPos - s
                      /\ End(m_svf, s) = s + Len(m_svf[s].data)
    OBVIOUS
  <2>1. /\ s \in Pos /\ s \in Nat /\ Len(m_svf[s].data) \in Nat /\ Len(m_svf[s].data) > 0
        /\ End(m_svf, s) = s + Len(m_svf[s].data) /\ End(m_svf, s) <= MaxPos
    BY <1>1, SoundBlock
  <2>2. MaxPos \in Nat
    BY BoundsAssumption
  <2> QED
    BY <2>1, <2>2
<1>3. Starts \subseteq 0 .. MaxPos /\ MaxPos \in Nat
  BY <1>2, BoundsAssumption DEF Pos
<1>4. /\ n \in Nat /\ order \in [1 .. n -> Starts]
      /\ \A s \in Starts : \E i \in 1 .. n : order[i] = s
  BY <1>3, InOrderType
<1>5. blocks = [i \in 1 .. n |-> <<order[i], Len(m_svf[order[i]].data)>>]
  BY <1>4 DEF blocks
<1> HIDE DEF n, order
<1>6. \A i \in 1 .. n : order[i] \in Starts
  BY <1>4
<1>7. \A i \in 1 .. n : <<order[i], Len(m_svf[order[i]].data)>> \in Nat \X Nat
  BY <1>2, <1>6
<1>8. blocks \in [1 .. n -> Nat \X Nat] /\ DOMAIN blocks = 1 .. n
  BY <1>5, <1>7
<1>9. blocks \in Seq(Nat \X Nat)
  BY <1>4, <1>8, SeqDef
<1>10. \A i \in 1 .. n : blocks[i][1] = order[i] /\ blocks[i][2] = Len(m_svf[order[i]].data)
  BY <1>5
<1> QED
  BY <1>2, <1>6, <1>8, <1>9, <1>10 DEF GoodList

(***************************************************************************)
(* What one read of __getstate__ returns                                    *)
(***************************************************************************)
LEMMA ReadRight ==
    ASSUME Files = {TheFile}, ImplInv, NEW fpos \in Pos, NEW len \in 1 .. MaxPos - fpos,
           CanRead(fpos, len)
    PROVE  GoodChunk(<<fpos, Bytes(fpos, len)>>) /\ Len(Bytes(fpos, len)) = len
<1> DEFINE s == Locate(fpos)
           d == m_svf[s].data
           n == fpos - s
           rest == Drop(d, n)
           b == Take(rest, len)
<1>1. Sound(m_svf) /\ Content(TheFile)
  BY DEF ImplInv, FileInv, BlockInv, ContentInv
<1>2. s \in Starts /\ s <= fpos /\ EndInSize(fpos - s, len) <= Len(d)
  BY DEF CanRead
<1>3. s \in Nat /\ d \in Seq(Byte) /\ Len(d) \in Nat /\ RightAt(TheFile, s, d)
  BY <1>1, <1>2, SoundBlock DEF Content, RightBlocks, Starts
<1>4. fpos \in Nat /\ len \in Nat /\ fpos + len <= MaxPos /\ MaxPos \in Nat
      /\ SizeMod \in Nat /\ SizeMod > MaxPos
  BY BoundsAssumption DEF Pos
<1> HIDE DEF s, d
<1>a. fpos - s + len \in 0 .. SizeMod - 1
  BY <1>2, <1>3, <1>4
<1>b. EndInSize(fpos - s, len) = fpos - s + len
  BY <1>4, <1>a DEF EndInSize
<1>5. n \in 0 .. Len(d) /\ n \in Nat /\ n <= Len(d) /\ s + n = fpos /\ len <= Len(d) - n
  BY <1>2, <1>3, <1>4, <1>b
<1> HIDE DEF n
<1>6. rest \in Seq(Byte) /\ Len(rest) = Len(d) - n
  BY <1>3, <1>5, DropType
<1>7. RightAt(TheFile, fpos, rest)
  <2>1. RightAt(TheFile, s + n, rest)
    BY <1>3, <1>5, RightDrop
  <2> QED
    BY <1>5, <2>1
<1> HIDE DEF rest
<1>8. len \in 0 .. Len(rest)
  BY <1>3, <1>4, <1>5, <1>6
<1>9. b \in Seq(Byte) /\ Len(b) = len
  BY <1>6, <1>8, TakeType
<1>10. RightAt(TheFile, fpos, b)
  BY <1>4, <1>6, <1>7, <1>8, RightTake
<1>11. Bytes(fpos, len) = b
  BY DEF Bytes, b, rest, n, d, s
<1> HIDE DEF b
<1>12. <<fpos, b>> \in Nat \X Seq(Byte)
  BY <1>4, <1>9
<1> QED
  BY <1>9, <1>10, <1>11, <1>12 DEF GoodChunk
(***************************************************************************)
(* The inductive invariant.  What __getstate__ has read are bytes of the    *)
(* file; while a pickle is loaded, what the new object holds and what is    *)
(* still to be written is what the pickle holds.                            *)
(***************************************************************************)
OneVersion == AllowGapJoin = FALSE /\ MinLen = 1 /\ Files = {TheFile}

PickleMade == GoodChunks(pickle)

\* A thread's call: not begun outside a wrapper, ...
NotBegun(t) ==
    /\ at[t] = "python" => ~call[t].begun
    /\ ~call[t].begun => call[t].got = <<>>

\* ... in the middle of __getstate__ ...
MakesPickle(t) ==
    call[t].name = "getstate" /\ call[t].begun =>
        GoodList(call[t].todo) /\ GoodChunks(call[t].got)

\* ... and of __setstate__.
LoadsPickle(t) ==
    call[t].name = "setstate" =>
        /\ at[t] = "inside" /\ call[t].begun /\ pc # "lru_punt"
        /\ GoodChunks(call[t].todo)
        /\ ChunkSpans(pickle) = Kept \cup ChunkSpans(call[t].todo)

ThreadOK(t) == NotBegun(t) /\ MakesPickle(t) /\ LoadsPickle(t)

PickleInv == PyInv /\ ImplInv /\ PickleMade /\ \A t \in Thread : ThreadOK(t)

StepOf(t) ==
    \/ \E name \in Locks \cup Unlocked : Start(t, name)
    \/ SetState(t)
    \/ GetGIL(t) \/ AcquireLock(t) \/ Work(t) \/ HandOver(t)

(***************************************************************************)
(* The object                                                               *)
(***************************************************************************)
LEMMA NewObjectEmpty == Init => ImplInv /\ Kept = {}
<1> SUFFICES ASSUME Init PROVE ImplInv /\ Kept = {}
  OBVIOUS
<1>1. ImplInv
  BY FileInit DEF ImplInv, FrameEmpty, Init, NoWrite
<1>2. Covered(m_svf) = {}
  BY DEF Init, Covered
<1>3. Kept = {}
  BY <1>2, KeptBlocks DEF Kept, NoWrite, Init
<1> QED
  BY <1>1, <1>3

LEMMA NewObjectEmptyNext == (Init => ImplInv /\ Kept = {})'
<1>1. Init => ImplInv /\ Kept = {}
  BY NewObjectEmpty
<1> QED
  BY <1>1, PTL

LEMMA NewObjectMade ==
    ASSUME NewObject
    PROVE  ImplInv' /\ Kept' = {}
<1>1. Init'
  BY DEF NewObject, Init
<1> QED
  BY <1>1, NewObjectEmptyNext

LEMMA ImplNext ==
    ASSUME OneVersion, ImplInv, [Next]_vars
    PROVE  ImplInv'
<1>1. Agreed /\ TypeInv /\ FileInv /\ FrameEmpty
  BY DEF OneVersion, Agreed, ImplInv, FileInv
<1> QED
  BY <1>1, FileNext, FrameEmptyNext DEF ImplInv, OneVersion

\* A C++ call that goes on holds what it held, unless it punts.
LEMMA KeptLoop ==
    ASSUME OneVersion, ImplInv, Loop, pc # "lru_punt"
    PROVE  Kept' = Kept /\ pc' # "lru_punt"
<1>1. Agreed /\ TypeInv /\ BlockInv /\ FileInv /\ FrameEmpty
  BY DEF OneVersion, Agreed, ImplInv, FileInv
<1>2. \/ NewAppendOldTail \/ NewAppendOldRest \/ NewAppendOldContinue
      \/ AppendRest \/ AppendCoalesce \/ AppendEnd
  BY <1>1, NothingThrown DEF Loop, PuntBlock, PuntEnd
<1>3. Kept' = Kept
  BY <1>1, <1>2, KeptNewAppendOld, KeptAppendRest, KeptAppendCoalesce, KeptAppendEnd
<1>4. pc' = "idle" \/ pc' = pc
  BY <1>2 DEF NewAppendOldTail, NewAppendOldRest, NewAppendOldContinue, AppendRest,
              AppendCoalesce, AppendEnd, EndWrite
<1> QED
  BY <1>3, <1>4

\* Writing back a chunk of a pickle is a write of the file's bytes, and holds them.
LEMMA WriteChunk ==
    ASSUME OneVersion, ImplInv, NEW chunk, GoodChunk(chunk), write(chunk[1], chunk[2])
    PROVE  Next /\ Kept' = Kept \cup ChunkSpan(chunk) /\ pc' # "lru_punt"
<1> DEFINE q == chunk[1]
           d == chunk[2]
           n == Len(d)
           f == TheFile
<1>1. /\ q \in Pos /\ d \in Seq(Byte) /\ n \in 1 .. MaxPos - q /\ RightAt(f, q, d)
      /\ write(q, d)
  BY DEF GoodChunk
<1>2. f \in Files /\ Files = {f} /\ AllowGapJoin = FALSE /\ MinLen = 1
  BY DEF OneVersion
<1>3. FileInv /\ TypeInv /\ BlockInv /\ FrameEmpty
  BY DEF ImplInv, FileInv
<1>4. ChunkSpan(chunk) = Span(q, q + n)
  BY DEF ChunkSpan
<1> HIDE DEF f, q, d, n
<1>5. n \in 0 .. MaxPos - q /\ n \in MinLen .. MaxPos - q /\ n > 0 /\ q + n <= MaxPos
  BY <1>1, <1>2, BoundsAssumption DEF Pos
<1>6. Len(d) = n
  BY DEF n
<1>7. d = Fetch(f, q, n)
  <2>1. /\ Fetch(f, q, n) \in Seq(Byte) /\ Len(Fetch(f, q, n)) = n
        /\ RightAt(f, q, Fetch(f, q, n))
    BY <1>1, <1>2, <1>5, FetchType, RightFetch
  <2> QED
    BY <1>1, <1>6, <2>1, RightEqual
<1>8. write(q, Fetch(f, q, n))
  BY <1>1, <1>7
<1>9. Next
  BY <1>1, <1>2, <1>5, <1>8 DEF Next, Call
<1>10. ret' = "ok"
  BY <1>1, <1>2, <1>3, <1>8, WriteAgrees
<1>11. (ret' = "diff" /\ Kept' = Kept) \/ Stored(q, Len(d))
  BY <1>1, <1>2, <1>3, <1>5, <1>6, KeptWrite
<1>12. Kept' = Kept \cup ChunkSpan(chunk)
  BY <1>4, <1>6, <1>10, <1>11 DEF Stored
<1>13. pc' # "lru_punt"
  BY <1>1 DEF write, _write_new_block, BeginNewAppendOld, BeginAppendNewToOld
<1> QED
  BY <1>9, <1>12, <1>13

\* Every step of a thread is a step of the object, or none, but for SetState.
LEMMA ObjectStep ==
    ASSUME OneVersion, PickleInv, NEW t \in Thread, StepOf(t), ~SetState(t)
    PROVE  [Next]_vars
<1>1. ThreadOK(t) /\ ImplInv
  BY DEF PickleInv
<1>2. CASE GetGIL(t) \/ AcquireLock(t) \/ HandOver(t) \/ \E name \in Locks \cup Unlocked : Start(t, name)
  BY <1>2 DEF GetGIL, AcquireLock, HandOver, Start
<1>3. ASSUME NEW f \in Files, NEW fpos \in Pos, NEW len \in MinLen .. MaxPos - fpos,
             Write(t, fpos, Fetch(f, fpos, len))
      PROVE  [Next]_vars
  BY <1>3 DEF Write, Next, Call
<1>4. CASE Change(t)
  <2>1. \A fpos \in Pos : 1 \in 0 .. MaxPos - fpos
    BY BoundsAssumption DEF Pos
  <2> QED
    BY <1>4, <2>1 DEF Change, Next, Call
<1>5. CASE Punt(t)
  BY <1>5 DEF Punt, Next, Call
<1>6. CASE List(t) \/ Query(t) \/ Return(t) \/ GetState(t) \/ Pickled(t) \/ Loaded(t)
  BY <1>6 DEF List, Query, Return, GetState, Pickled, Loaded
<1>7. CASE Run(t)
  BY <1>7 DEF Run, Next
<1>8. CASE ReadBlock(t) \/ ReadBlockFails(t)
  <2> DEFINE block == Head(call[t].todo)
  <2>1. /\ GoodList(call[t].todo) /\ call[t].todo # <<>>
        /\ read(block[1], block[2]) \/ readThrows(block[1], block[2])
    BY <1>1, <1>8 DEF ReadBlock, ReadBlockFails, After, ThreadOK, MakesPickle
  <2>2. block[1] \in Pos /\ block[2] \in 1 .. MaxPos - block[1]
    BY <2>1, ListTail
  <2> HIDE DEF block
  <2>3. block[2] \in 0 .. MaxPos - block[1]
    BY <2>2, BoundsAssumption DEF Pos
  <2> QED
    BY <2>1, <2>2, <2>3 DEF Next, Call
<1>9. CASE PlayBack(t)
  <2>1. /\ GoodChunks(call[t].todo) /\ call[t].todo # <<>>
        /\ write(Head(call[t].todo)[1], Head(call[t].todo)[2])
    BY <1>1, <1>9 DEF PlayBack, After, ThreadOK, LoadsPickle
  <2> QED
    BY <1>1, <2>1, ChunkTail, WriteChunk
<1> QED
  BY <1>2, <1>3, <1>4, <1>5, <1>6, <1>7, <1>8, <1>9 DEF StepOf, Work
(***************************************************************************)
(* The other threads                                                        *)
(***************************************************************************)
\* A step changes the call and the place of one thread.
LEMMA OneThread ==
    ASSUME PyInv, NEW t \in Thread, StepOf(t), NEW s \in Thread, s # t
    PROVE  call'[s] = call[s] /\ at'[s] = at[s]
<1>1. Shape
  BY DEF PyInv
<1>2. CASE \E name \in Locks \cup Unlocked : Start(t, name)
  BY <1>1, <1>2 DEF Start, Enter, Shape
<1>3. CASE SetState(t)
  BY <1>1, <1>3 DEF SetState, Enter, Shape
<1>4. CASE GetGIL(t)
  BY <1>1, <1>4 DEF GetGIL, TakeGIL, Shape
<1>5. CASE AcquireLock(t)
  BY <1>1, <1>5 DEF AcquireLock, TryLock, Wait, GetLock, Shape
<1>6. CASE HandOver(t)
  BY <1>1, <1>6 DEF HandOver, GoAway, Shape
<1>7. CASE Begun(t)
  BY <1>1, <1>7 DEF Begun, lockVars, Shape
<1>8. CASE Finish(t)
  BY <1>1, <1>8 DEF Finish, Leave, Shape
<1>9. CASE Run(t) \/ GetState(t) \/ ReadBlock(t) \/ PlayBack(t)
  BY <1>1, <1>9 DEF Run, GetState, ReadBlock, PlayBack, lockVars, Shape
<1>10. Work(t) => Begun(t) \/ Finish(t) \/ Run(t) \/ GetState(t) \/ ReadBlock(t) \/ PlayBack(t)
  BY DEF Work, Write, Change, Punt, List, Query, Return, ReadBlockFails, Pickled, Loaded
<1> QED
  BY <1>2, <1>3, <1>4, <1>5, <1>6, <1>7, <1>8, <1>9, <1>10 DEF StepOf

\* Only the thread that has the GIL changes the object or the pickle, and while it is
\* inside a wrapper the others can only take the lock.
LEMMA LoaderAlone ==
    ASSUME PyInv, NEW t \in Thread, StepOf(t), NEW s \in Thread, s # t, at[s] = "inside"
    PROVE  UNCHANGED <<vars, pickle>>
<1>1. gil = s /\ gil # NoThread /\ gil # t
  BY ThreadAssumption DEF PyInv, GILOwned
<1>2. ~(\E name \in Locks \cup Unlocked : Start(t, name)) /\ ~SetState(t)
  BY <1>1 DEF Start, SetState, Enter
<1>3. ~GetGIL(t) /\ ~HandOver(t)
  BY <1>1 DEF GetGIL, TakeGIL, HandOver, GoAway
<1>4. ~Work(t)
  BY <1>1 DEF Work, Write, Change, Punt, List, Query, Run, Return, GetState, ReadBlock,
              ReadBlockFails, Pickled, PlayBack, Loaded, Before, After, Finish, Leave
<1>5. AcquireLock(t)
  BY <1>2, <1>3, <1>4 DEF StepOf
<1> QED
  BY <1>5 DEF AcquireLock, vars

LEMMA OthersOK ==
    ASSUME PyInv, NEW t \in Thread, StepOf(t), NEW s \in Thread, s # t, ThreadOK(s)
    PROVE  ThreadOK(s)'
<1>1. call'[s] = call[s] /\ at'[s] = at[s]
  BY OneThread
<1>2. NotBegun(s)' /\ MakesPickle(s)'
  BY <1>1 DEF ThreadOK, NotBegun, MakesPickle
<1>3. LoadsPickle(s)'
  <2> SUFFICES ASSUME call[s].name = "setstate" PROVE LoadsPickle(s)'
    BY <1>1 DEF LoadsPickle
  <2>1. /\ at[s] = "inside" /\ call[s].begun /\ pc # "lru_punt"
        /\ GoodChunks(call[s].todo)
        /\ ChunkSpans(pickle) = Kept \cup ChunkSpans(call[s].todo)
    BY DEF ThreadOK, LoadsPickle
  <2>2. UNCHANGED <<vars, pickle>>
    BY <2>1, LoaderAlone
  <2>3. pc' = pc /\ pickle' = pickle /\ Kept' = Kept
    BY <2>2 DEF vars, Kept
  <2> QED
    BY <1>1, <2>1, <2>3 DEF LoadsPickle
<1> QED
  BY <1>2, <1>3 DEF ThreadOK

(***************************************************************************)
(* The thread that makes the step                                           *)
(***************************************************************************)
\* Outside the wrapper proper only the name of the call is set.
LEMMA OwnLock ==
    ASSUME PickleInv, NEW t \in Thread,
           \/ \E name \in Locks \cup Unlocked : Start(t, name)
           \/ GetGIL(t) \/ AcquireLock(t) \/ HandOver(t)
    PROVE  ThreadOK(t)' /\ pickle' = pickle
<1>1. Shape /\ ThreadOK(t)
  BY DEF PickleInv, PyInv
<1>2. ASSUME NEW name \in Locks \cup Unlocked, Start(t, name)
      PROVE  ThreadOK(t)' /\ pickle' = pickle
  <2>1. /\ at[t] = "python" /\ name # "setstate" /\ pickle' = pickle
        /\ call'[t] = [call[t] EXCEPT !.name = name]
    BY <1>1, <1>2 DEF Start, Enter, Shape
  <2>2. ~call[t].begun /\ call[t].got = <<>>
    BY <1>1, <2>1 DEF ThreadOK, NotBegun
  <2>3. call'[t].name = name /\ ~call'[t].begun /\ call'[t].got = <<>>
    BY <1>1, <2>1, <2>2 DEF Shape
  <2> QED
    BY <2>1, <2>3 DEF ThreadOK, NotBegun, MakesPickle, LoadsPickle
<1>3. CASE GetGIL(t) \/ AcquireLock(t)
  <2>1. /\ UNCHANGED <<call, pickle>> /\ at[t] # "inside" /\ at'[t] # "python"
    BY <1>1, <1>3 DEF GetGIL, TakeGIL, AcquireLock, TryLock, Wait, GetLock, Shape
  <2>2. call[t].name # "setstate"
    BY <1>1, <2>1 DEF ThreadOK, LoadsPickle
  <2> QED
    BY <1>1, <2>1, <2>2 DEF ThreadOK, NotBegun, MakesPickle, LoadsPickle
<1>4. CASE HandOver(t)
  <2>1. /\ call[t].name # "setstate" /\ pickle' = pickle /\ at'[t] = "away"
        /\ call'[t] = [call[t] EXCEPT !.rested = TRUE]
    BY <1>1, <1>4 DEF HandOver, MayRest, GoAway, Shape
  <2>2. /\ call'[t].name = call[t].name /\ call'[t].begun = call[t].begun
        /\ call'[t].todo = call[t].todo /\ call'[t].got = call[t].got
    BY <1>1, <2>1 DEF Shape
  <2> QED
    BY <1>1, <2>1, <2>2 DEF ThreadOK, NotBegun, MakesPickle, LoadsPickle
<1> QED
  BY <1>2, <1>3, <1>4

\* A C++ call begins, or its wrapper returns.
LEMMA OwnBegun ==
    ASSUME PickleInv, NEW t \in Thread, Begun(t), NEW name \in Locks \cup {"query"},
           Before(t, name)
    PROVE  ThreadOK(t)' /\ pickle' = pickle
<1>1. Shape
  BY DEF PickleInv, PyInv
<1>2. /\ at'[t] = "inside" /\ pickle' = pickle /\ call[t].name = name
      /\ call'[t] = [call[t] EXCEPT !.begun = TRUE, !.rested = FALSE]
  BY <1>1 DEF Begun, Before, lockVars, Shape
<1>3. call'[t].name = name /\ call'[t].begun
  BY <1>1, <1>2 DEF Shape
<1>4. name # "getstate" /\ name # "setstate"
  BY DEF Locks
<1> QED
  BY <1>2, <1>3, <1>4 DEF ThreadOK, NotBegun, MakesPickle, LoadsPickle

LEMMA OwnFinish ==
    ASSUME PickleInv, NEW t \in Thread, Finish(t)
    PROVE  ThreadOK(t)'
<1>1. call'[t] = NoCall(call[t].calls + 1)
  BY DEF Finish, PickleInv, PyInv, Shape
<1> QED
  BY <1>1 DEF ThreadOK, NotBegun, MakesPickle, LoadsPickle, NoCall

LEMMA OwnRun ==
    ASSUME OneVersion, PickleInv, NEW t \in Thread, Run(t)
    PROVE  ThreadOK(t)' /\ pickle' = pickle
<1>1. /\ ThreadOK(t) /\ ImplInv /\ at[t] = "inside" /\ Loop
      /\ UNCHANGED <<at, call, pickle>>
  BY DEF PickleInv, Run, After, lockVars
<1>2. pc # "lru_punt" => Kept' = Kept /\ pc' # "lru_punt"
  BY <1>1, KeptLoop
<1> QED
  BY <1>1, <1>2 DEF ThreadOK, NotBegun, MakesPickle, LoadsPickle

(***************************************************************************)
(* Pickling, step by step                                                   *)
(***************************************************************************)
LEMMA OwnGetState ==
    ASSUME OneVersion, PickleInv, NEW t \in Thread, GetState(t)
    PROVE  ThreadOK(t)' /\ pickle' = pickle
<1>1. Shape /\ ThreadOK(t) /\ ImplInv
  BY DEF PickleInv, PyInv
<1>2. /\ at[t] = "inside" /\ call[t].name = "getstate" /\ ~call[t].begun
      /\ at'[t] = "inside" /\ pickle' = pickle
      /\ call'[t] = [call[t] EXCEPT !.begun = TRUE, !.rested = FALSE,
                                    !.todo = blocks]
  BY <1>1 DEF GetState, Before, lockVars, Shape
<1>3. call[t].got = <<>>
  BY <1>1, <1>2 DEF ThreadOK, NotBegun
<1>4. /\ call'[t].name = "getstate" /\ call'[t].begun /\ call'[t].got = <<>>
      /\ call'[t].todo = blocks
  BY <1>1, <1>2, <1>3 DEF Shape
<1>5. GoodList(blocks)
  BY <1>1, BlocksListed
<1>6. GoodList(call'[t].todo) /\ GoodChunks(call'[t].got)
  BY <1>4, <1>5, NoChunks
<1> QED
  BY <1>2, <1>4, <1>6 DEF ThreadOK, NotBegun, MakesPickle, LoadsPickle

LEMMA OwnReadBlock ==
    ASSUME OneVersion, PickleInv, NEW t \in Thread, ReadBlock(t)
    PROVE  ThreadOK(t)' /\ pickle' = pickle
<1> DEFINE todo  == call[t].todo
           got   == call[t].got
           block == Head(todo)
           chunk == <<block[1], Bytes(block[1], block[2])>>
<1>1. Shape /\ ThreadOK(t) /\ ImplInv
  BY DEF PickleInv, PyInv
<1>2. /\ at[t] = "inside" /\ call[t].name = "getstate" /\ call[t].begun /\ todo # <<>>
      /\ read(block[1], block[2]) /\ at'[t] = "inside" /\ pickle' = pickle
      /\ call'[t] = [call[t] EXCEPT !.rested = FALSE, !.todo = Tail(todo),
                                    !.got = Append(got, chunk)]
  BY <1>1 DEF ReadBlock, After, lockVars, Shape
<1>3. GoodList(todo) /\ GoodChunks(got)
  BY <1>1, <1>2 DEF ThreadOK, MakesPickle
<1>4. /\ call'[t].name = "getstate" /\ call'[t].begun
      /\ call'[t].todo = Tail(todo) /\ call'[t].got = Append(got, chunk)
  BY <1>1, <1>2 DEF Shape
<1>5. GoodList(Tail(todo)) /\ block[1] \in Pos /\ block[2] \in 1 .. MaxPos - block[1]
  BY <1>2, <1>3, ListTail
<1>6. CanRead(block[1], block[2])
  BY <1>2 DEF read
<1> HIDE DEF todo, got, block
<1>7. GoodChunk(chunk)
  BY <1>1, <1>5, <1>6, ReadRight DEF OneVersion
<1> HIDE DEF chunk
<1>8. GoodChunks(Append(got, chunk))
  BY <1>3, <1>7, ChunkAppend
<1>9. GoodList(call'[t].todo) /\ GoodChunks(call'[t].got)
  BY <1>4, <1>5, <1>8
<1> QED
  BY <1>2, <1>4, <1>9 DEF ThreadOK, NotBegun, MakesPickle, LoadsPickle

LEMMA MadePickled ==
    ASSUME PickleInv, NEW t \in Thread, Pickled(t)
    PROVE  PickleMade'
<1>1. call[t].name = "getstate" /\ call[t].begun /\ pickle' = call[t].got
  BY DEF Pickled, After
<1> QED
  BY <1>1 DEF PickleInv, ThreadOK, MakesPickle, PickleMade

\* The new object holds nothing yet.
LEMMA OwnSetState ==
    ASSUME PickleInv, NEW t \in Thread, SetState(t)
    PROVE  ThreadOK(t)' /\ pickle' = pickle
<1>1. Shape /\ PickleMade
  BY DEF PickleInv, PyInv
<1>2. /\ NewObject /\ at'[t] = "inside" /\ pickle' = pickle /\ pc' = "idle"
      /\ call'[t] = [call[t] EXCEPT !.name = "setstate", !.begun = TRUE,
                                    !.todo = pickle]
  BY <1>1 DEF SetState, Enter, NewObject, Shape
<1>3. call'[t].name = "setstate" /\ call'[t].begun /\ call'[t].todo = pickle
  BY <1>1, <1>2 DEF Shape
<1>4. Kept' = {}
  BY <1>2, NewObjectMade
<1>5. ChunkSpans(pickle) = Kept' \cup ChunkSpans(pickle)
  BY <1>4
<1> QED
  BY <1>1, <1>2, <1>3, <1>5 DEF ThreadOK, NotBegun, MakesPickle, LoadsPickle, PickleMade

LEMMA OwnPlayBack ==
    ASSUME OneVersion, PickleInv, NEW t \in Thread, PlayBack(t)
    PROVE  ThreadOK(t)' /\ pickle' = pickle
<1> DEFINE todo  == call[t].todo
           chunk == Head(todo)
<1>1. Shape /\ ThreadOK(t) /\ ImplInv
  BY DEF PickleInv, PyInv
<1>2. /\ at[t] = "inside" /\ call[t].name = "setstate" /\ call[t].begun /\ todo # <<>>
      /\ write(chunk[1], chunk[2]) /\ at'[t] = "inside" /\ pickle' = pickle
      /\ call'[t] = [call[t] EXCEPT !.todo = Tail(todo)]
  BY <1>1 DEF PlayBack, After, lockVars, Shape
<1>3. GoodChunks(todo) /\ ChunkSpans(pickle) = Kept \cup ChunkSpans(todo)
  BY <1>1, <1>2 DEF ThreadOK, LoadsPickle
<1>4. call'[t].name = "setstate" /\ call'[t].begun /\ call'[t].todo = Tail(todo)
  BY <1>1, <1>2 DEF Shape
<1>5. /\ GoodChunks(Tail(todo)) /\ GoodChunk(chunk)
      /\ ChunkSpans(todo) = ChunkSpan(chunk) \cup ChunkSpans(Tail(todo))
  BY <1>2, <1>3, ChunkTail
<1>6. Kept' = Kept \cup ChunkSpan(chunk) /\ pc' # "lru_punt"
  BY <1>1, <1>2, <1>5, WriteChunk
<1> HIDE DEF todo, chunk
<1>7. Kept' \cup ChunkSpans(Tail(todo)) = Kept \cup ChunkSpans(todo)
  BY <1>5, <1>6
<1>8. ChunkSpans(pickle') = Kept' \cup ChunkSpans(call'[t].todo) /\ GoodChunks(call'[t].todo)
  BY <1>2, <1>3, <1>4, <1>5, <1>7
<1> QED
  BY <1>2, <1>4, <1>6, <1>8 DEF ThreadOK, NotBegun, MakesPickle, LoadsPickle
(***************************************************************************)
(* The invariant holds                                                      *)
(***************************************************************************)
LEMMA OwnOK ==
    ASSUME OneVersion, PickleInv, NEW t \in Thread, StepOf(t)
    PROVE  ThreadOK(t)' /\ PickleMade'
<1>1. PickleMade /\ (pickle' = pickle => PickleMade')
  BY DEF PickleInv, PickleMade
<1>2. CASE \/ \E name \in Locks \cup Unlocked : Start(t, name)
           \/ GetGIL(t) \/ AcquireLock(t) \/ HandOver(t)
  BY <1>1, <1>2, OwnLock
<1>3. CASE SetState(t)
  BY <1>1, <1>3, OwnSetState
<1>4. CASE Run(t) \/ GetState(t) \/ ReadBlock(t) \/ PlayBack(t)
  BY <1>1, <1>4, OwnRun, OwnGetState, OwnReadBlock, OwnPlayBack
<1>5. ASSUME NEW name \in Locks \cup {"query"}, Before(t, name), Begun(t)
      PROVE  ThreadOK(t)' /\ PickleMade'
  BY <1>1, <1>5, OwnBegun
<1>6. CASE Pickled(t)
  BY <1>6, MadePickled, OwnFinish DEF Pickled
<1>7. CASE Return(t) \/ ReadBlockFails(t) \/ Loaded(t)
  BY <1>1, <1>7, OwnFinish DEF Return, ReadBlockFails, Loaded
<1>8. \/ \E f \in Files, fpos \in Pos : \E len \in MinLen .. MaxPos - fpos :
            Write(t, fpos, Fetch(f, fpos, len))
      \/ Change(t) \/ Punt(t) \/ List(t) \/ Query(t)
      => \E name \in Locks \cup {"query"} : Before(t, name) /\ Begun(t)
  BY DEF Write, Change, Punt, List, Query, Locks
<1> QED
  BY <1>2, <1>3, <1>4, <1>5, <1>6, <1>7, <1>8 DEF StepOf, Work

LEMMA PickleInit ==
    ASSUME OneVersion
    PROVE  PyInit => PickleInv
<1> SUFFICES ASSUME PyInit PROVE PickleInv
  OBVIOUS
<1>1. /\ Init /\ pickle = <<>>
      /\ call = [t \in Thread |-> NoCall(0)]
  BY DEF PyInit
<1>2. PyInv /\ ImplInv
  BY <1>1, InitPyInv, NewObjectEmpty
<1>3. PickleMade
  BY <1>1, NoChunks DEF PickleMade
<1>4. \A t \in Thread : ThreadOK(t)
  BY <1>1 DEF ThreadOK, NotBegun, MakesPickle, LoadsPickle, NoCall
<1> QED
  BY <1>2, <1>3, <1>4 DEF PickleInv

LEMMA PickleNext ==
    ASSUME OneVersion
    PROVE  PickleInv /\ [PyNext]_pyVars => PickleInv'
<1> SUFFICES ASSUME PickleInv, [PyNext]_pyVars PROVE PickleInv'
  OBVIOUS
<1>1. PyInv'
  BY StepPyInv DEF PickleInv
<1>2. ASSUME NEW t \in Thread, StepOf(t)
      PROVE  PickleInv'
  <2>1. ImplInv'
    <3>1. CASE SetState(t)
      BY <3>1, NewObjectMade DEF SetState
    <3>2. CASE ~SetState(t)
      BY <1>2, <3>2, ObjectStep, ImplNext DEF PickleInv
    <3> QED
      BY <3>1, <3>2
  <2>2. ThreadOK(t)' /\ PickleMade'
    BY <1>2, OwnOK
  <2>3. ASSUME NEW s \in Thread
        PROVE  ThreadOK(s)'
    BY <1>2, <2>2, OthersOK DEF PickleInv
  <2> QED
    BY <1>1, <2>1, <2>2, <2>3 DEF PickleInv
<1>3. CASE UNCHANGED pyVars
  <2>1. UNCHANGED <<vars, call, pickle, at>> /\ Kept' = Kept
    BY <1>3 DEF pyVars, lockVars, vars, Kept
  <2>2. ImplInv'
    BY <2>1, ImplNext DEF PickleInv
  <2>3. PickleMade' /\ \A t \in Thread : ThreadOK(t)'
    BY <2>1 DEF PickleInv, PickleMade, ThreadOK, NotBegun, MakesPickle, LoadsPickle, vars
  <2> QED
    BY <1>1, <2>2, <2>3 DEF PickleInv
<1> QED
  BY <1>2, <1>3 DEF PyNext, StepOf

\* The object __setstate__ leaves behind holds exactly the bytes of the pickle and
\* passes integrity(), although its writes coalesce the blocks again: nobody else can
\* reach the object between two of them.
THEOREM LoadedObjectHoldsPickle ==
    ASSUME AllowGapJoin = FALSE, MinLen = 1, NEW f, Files = {f}
    PROVE  PySpec => LoadRestores
<1>1. OneVersion
  BY DEF OneVersion, TheFile
<1>2. ASSUME PickleInv, NEW t \in Thread, Loaded(t)
      PROVE  Held = BytesOf(pickle) /\ integrity
  <2>1. call[t].name = "setstate" /\ call[t].todo = <<>> /\ pc = "idle"
    BY <1>2 DEF Loaded, After
  <2>2. ChunkSpans(pickle) = Kept /\ GoodChunks(pickle) /\ ImplInv
    BY <1>2, <2>1, NoChunks DEF PickleInv, PickleMade, ThreadOK, LoadsPickle
  <2>3. Held = Copy(Kept)
    BY <1>1, <2>2, HeldIsTheFile DEF OneVersion, HeldRight, Copy
  <2>4. integrity
    BY <2>1, <2>2, SoundIntegrity DEF ImplInv, FileInv, Integrity
  <2> QED
    BY <2>2, <2>3, <2>4, ChunksCopy
<1>3. PickleInv => [\A t \in Thread : Loaded(t) => Held = BytesOf(pickle) /\ integrity]_pyVars
  BY <1>2
<1>4. PyInit => PickleInv
  BY <1>1, PickleInit
<1>5. PickleInv /\ [PyNext]_pyVars => PickleInv'
  BY <1>1, PickleNext
<1> QED
  BY <1>3, <1>4, <1>5, PTL DEF PySpec, LoadRestores

=============================================================================
