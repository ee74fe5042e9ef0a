------------------------------ MODULE SVFPython ------------------------------
(***************************************************************************)
(* A cSVF object that several Python threads share (src/cp/_cSVF.cpp): its  *)
(* wrappers, which of them lock, and pickling.  A thread never gives up the *)
(* GIL in a C++ call, where no Python code runs (MayRest).  That no other   *)
(* thread meets a call half-way then follows from the GIL and the lock, and *)
(* is checked: a loop of SparseVirtualFile goes on while its thread is      *)
(* inside, and other threads come in where the two let them.                *)
(***************************************************************************)
EXTENDS SparseVirtualFile, Functions, PyLock

VARIABLES
    call,       \* each thread's call, see NoCall
    pickle      \* the blocks of the last pickle made

pyVars == <<vars, lockVars, call, pickle>>

\* name: the wrapper; begun: its C++ call has started; rested: it has run Python
\* code since its last step; todo, got: the blocks __getstate__ or __setstate__ has
\* still to do, and those it has read.
NoCall(n) == [name |-> "none", begun |-> FALSE, rested |-> FALSE, calls |-> n,
              todo |-> <<>>, got |-> <<>>]

\* The wrappers that take the lock, by what their C++ call does, and those that
\* do not: has_data and the counters, and pickling.
Locks == {"write", "change", "list"}
Unlocked == {"query", "getstate", "setstate"}

\* Thread t is in wrapper name and holds the GIL, before and after its C++ call
\* has begun.
Before(t, name) == at[t] = "inside" /\ gil = t /\ call[t].name = name /\ ~call[t].begun
After(t, name)  == at[t] = "inside" /\ gil = t /\ call[t].name = name /\ call[t].begun

Start(t, name) ==
    /\ call[t].calls < MaxCalls[t]
    /\ name # "setstate"
    /\ Enter(t, name \in Locks)
    /\ call' = [call EXCEPT ![t].name = name]
    /\ UNCHANGED <<vars, pickle>>

Begun(t) ==
    /\ call' = [call EXCEPT ![t] = [@ EXCEPT !.begun = TRUE, !.rested = FALSE]]
    /\ UNCHANGED <<lockVars, pickle>>

\* The wrapper returns to its caller.
Finish(t) == Leave(t) /\ call' = [call EXCEPT ![t] = NoCall(@.calls + 1)]

\* cSVF.write: an empty write is ignored.
Write(t, fpos, data) ==
    /\ Before(t, "write")
    /\ IF data = <<>> THEN UNCHANGED vars ELSE write(fpos, data)
    /\ Begun(t)

\* cSVF.read, erase and clear.  A read of one byte stands for all: longer ones differ
\* in the bytes they count.
Change(t) ==
    /\ Before(t, "change")
    /\ \/ \E fpos \in Pos : read(fpos, 1) \/ readThrows(fpos, 1)
       \/ \E fpos \in Pos : erase(fpos) \/ eraseThrows(fpos)
       \/ clear
    /\ Begun(t)

\* cSVF.lru_punt.
Punt(t) ==
    /\ Before(t, "change")
    /\ \E bound \in 0 .. MaxBound : lru_punt(bound)
    /\ Begun(t)

\* blocks, block_touches, need and need_many copy what they list.
List(t) == Before(t, "list") /\ UNCHANGED vars /\ Begun(t)

\* has_data and the counters only read.
Query(t) == Before(t, "query") /\ UNCHANGED vars /\ Begun(t)

\* A C++ call goes on.
Run(t) ==
    /\ \E name \in {"write", "change", "setstate"} : After(t, name)
    /\ Loop
    /\ UNCHANGED <<lockVars, call, pickle>>

Return(t) ==
    /\ \E name \in Locks \cup {"query"} : After(t, name)
    /\ pc = "idle"
    /\ Finish(t)
    /\ UNCHANGED <<vars, pickle>>

\* A wrapper can lose the GIL when it converts arguments or builds a result, never
\* in its C++ call.  __setstate__ only handles what pickle made.
MayRestAlways(t) == ~call[t].rested /\ call[t].name # "setstate"
MayRest(t) == ~call[t].rested /\ call[t].name # "setstate" /\ pc = "idle"

HandOver(t) ==
    /\ MayRest(t)
    /\ GoAway(t)
    /\ call' = [call EXCEPT ![t].rested = TRUE]
    /\ UNCHANGED <<vars, pickle>>

(***************************************************************************)
(* Pickling                                                                 *)
(***************************************************************************)
\* The elements of S in the order of the map.
InOrder(S) ==
    CHOOSE s \in Bijection(1 .. Cardinality(S), S) :
        \A i, j \in DOMAIN s : i < j => s[i] < s[j]

\* The blocks in map order, as <<file position, length>>.
blocks ==
    LET starts == InOrder(Starts)
    IN [i \in DOMAIN starts |-> <<starts[i], Len(m_svf[starts[i]].data)>>]

\* __getstate__ lists the blocks ...
GetState(t) ==
    /\ Before(t, "getstate")
    /\ call' = [call EXCEPT ![t] = [@ EXCEPT !.begun = TRUE, !.rested = FALSE,
                                             !.todo = blocks]]
    /\ UNCHANGED <<vars, lockVars, pickle>>

\* ... reads one after the other, which touches them (a block may have become part
\* of a larger one meanwhile) ...
Bytes(fpos, len) == Take(Drop(m_svf[Locate(fpos)].data, fpos - Locate(fpos)), len)

ReadBlock(t) ==
    /\ After(t, "getstate") /\ call[t].todo # <<>>
    /\ LET block == Head(call[t].todo)
       IN /\ read(block[1], block[2])
          /\ call' = [call EXCEPT ![t] = [@ EXCEPT !.rested = FALSE,
                        !.todo = Tail(call[t].todo),
                        !.got = Append(call[t].got, <<block[1], Bytes(block[1], block[2])>>)]]
    /\ UNCHANGED <<lockVars, pickle>>

\* ... fails if another thread has removed one of them ...
ReadBlockFails(t) ==
    /\ After(t, "getstate") /\ call[t].todo # <<>>
    /\ readThrows(Head(call[t].todo)[1], Head(call[t].todo)[2])
    /\ Finish(t)
    /\ UNCHANGED pickle

\* ... and returns the dict.
Pickled(t) ==
    /\ After(t, "getstate") /\ call[t].todo = <<>>
    /\ pickle' = call[t].got
    /\ Finish(t)
    /\ UNCHANGED vars

\* __setstate__ throws the C++ object away and makes a new one, nobody else is
\* using it, ...
SameObject == UNCHANGED vars
NewObject ==
    /\ m_svf' = [s \in {} |-> 0] /\ m_bytes_total' = 0 /\ m_block_touch' = 0
    /\ stats' = ZeroStats /\ pc' = "idle" /\ w' = NoWrite /\ p' = NoPunt /\ ret' = "ok"

SetState(t) ==
    /\ \A s \in Thread : at[s] = "python"
    /\ call[t].calls < MaxCalls[t] /\ pickle # <<>>
    /\ Enter(t, FALSE)
    /\ NewObject
    /\ call' = [call EXCEPT ![t] = [@ EXCEPT !.name = "setstate", !.begun = TRUE,
                                             !.todo = pickle]]
    /\ UNCHANGED pickle

\* ... and writes the blocks to it.
PlayBack(t) ==
    /\ After(t, "setstate") /\ call[t].todo # <<>>
    /\ write(Head(call[t].todo)[1], Head(call[t].todo)[2])
    /\ call' = [call EXCEPT ![t].todo = Tail(@)]
    /\ UNCHANGED <<lockVars, pickle>>

Loaded(t) ==
    /\ After(t, "setstate") /\ call[t].todo = <<>> /\ pc = "idle"
    /\ Finish(t)
    /\ UNCHANGED <<vars, pickle>>

(***************************************************************************)
(* Specification                                                            *)
(***************************************************************************)
PyInit ==
    /\ Init /\ LockInit
    /\ call = [t \in Thread |-> NoCall(0)]
    /\ pickle = <<>>

\* Waiting for the GIL and the lock.
GetGIL(t) == TakeGIL(t) /\ UNCHANGED <<vars, call, pickle>>
AcquireLock(t) == (TryLock(t) \/ Wait(t) \/ GetLock(t)) /\ UNCHANGED <<vars, call, pickle>>

Work(t) ==
    \/ \E f \in Files, fpos \in Pos : \E len \in MinLen .. MaxPos - fpos :
            Write(t, fpos, Fetch(f, fpos, len))
    \/ Change(t) \/ Punt(t) \/ List(t) \/ Query(t) \/ Run(t) \/ Return(t)
    \/ GetState(t) \/ ReadBlock(t) \/ ReadBlockFails(t) \/ Pickled(t)
    \/ PlayBack(t) \/ Loaded(t)

PyNext ==
    \E t \in Thread :
        \/ \E name \in Locks \cup Unlocked : Start(t, name)
        \/ SetState(t)
        \/ GetGIL(t) \/ AcquireLock(t) \/ Work(t) \/ HandOver(t)

PySpec == PyInit /\ [][PyNext]_pyVars

(***************************************************************************)
(* Properties                                                               *)
(***************************************************************************)

\* No wrapper meets the object in the middle of another thread's C++ call, also
\* those that take no lock: their "torn" reads would be silent.
NeverMeetsTornObject ==
    \A t \in Thread : \A name \in Locks \cup Unlocked : Before(t, name) => pc = "idle"

\* The wrappers that lock exclude each other from lock to unlock, also when one
\* of them has lost the GIL ("each API call atomic", tech_notes.rst:512).
LockedCallsExclude ==
    \A s, t \in Thread :
        /\ call[s].name \in Locks /\ at[s] \in {"inside", "away", "regain"}
        /\ call[t].name \in Locks /\ at[t] \in {"inside", "away", "regain"}
        => s = t

\* The bytes of a list of blocks.
BytesOf(bs) ==
    LET LastPos(i) == bs[i][1] + Len(bs[i][2]) - 1
        Which(q) == CHOOSE i \in DOMAIN bs : bs[i][1] <= q /\ q <= LastPos(i)
    IN [q \in UNION {bs[i][1] .. LastPos(i) : i \in DOMAIN bs} |->
            bs[Which(q)][2][q - bs[Which(q)][1] + 1]]

\* The object made from a pickle holds exactly the bytes of its blocks, and is sound:
\* also when the original had blocks that were not coalesced (_cSVF.cpp:1376).
LoadRestores ==
    [][\A t \in Thread : Loaded(t) => Held = BytesOf(pickle) /\ integrity]_pyVars

=============================================================================
