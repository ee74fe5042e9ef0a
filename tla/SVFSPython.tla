----------------------------- MODULE SVFSPython -----------------------------
(***************************************************************************)
(* A cSVFS object that several Python threads share (src/cp/_cSVFS.cpp) and *)
(* the SparseVirtualFileSystem inside it (src/cpp/svfs.cpp): files are      *)
(* inserted and removed while other threads look for them and use them.     *)
(* What a file holds is the subject of SparseVirtualFile and SVFPython: here *)
(* a file is known by the insertion that made it.                           *)
(***************************************************************************)
EXTENDS FiniteSets, PyLock

CONSTANT Id                 \* the IDs of the files

VARIABLES
    m_svfs,                 \* the files: ID -> number of the insertion that made it
    births,                 \* how many files have been made
    job                     \* each thread's call, see NoJob

fsVars == <<m_svfs, births, lockVars, job>>

NoFile == 0

(***************************************************************************)
(* SparseVirtualFileSystem                                                  *)
(***************************************************************************)
svfs_keys == DOMAIN m_svfs
svfs_size == Cardinality(svfs_keys)
svfs_has(id) == id \in svfs_keys
svfs_at(id) == m_svfs[id]

\* A new file, or an exception when there is one of this ID.
svfs_insert(id) ==
    IF svfs_has(id)
    THEN UNCHANGED <<m_svfs, births>>
    ELSE /\ births' = births + 1
         /\ m_svfs' = [i \in svfs_keys \cup {id} |->
                        IF i = id THEN births + 1 ELSE svfs_at(i)]

\* Destroys the file, or an exception when there is none.
svfs_remove(id) ==
    /\ m_svfs' = [i \in svfs_keys \ {id} |-> svfs_at(i)]
    /\ UNCHANGED births

(***************************************************************************)
(* The wrappers                                                             *)
(***************************************************************************)

\* name: the wrapper; id: its argument; step: "parse", "found" (it has a reference
\* to the file) or "done"; rested: it has run Python code in this step; size: the
\* length of the list keys() has made; file: the file found; calls: calls made.
NoJob(n) == [name |-> "none", id |-> CHOOSE i \in Id : TRUE, step |-> "parse",
             rested |-> FALSE, size |-> 0, file |-> NoFile, calls |-> n]

\* "file" is each of the wrappers that use one file (has_data, write, read, erase,
\* need, blocks, block_touches, lru_punt, the counters and times), need_many apart;
\* "total" is each of those that look at all.
Wrapper == {"insert", "remove", "file", "need_many", "keys", "lru_punt_all", "has", "total"}

\* The wrappers that take the lock.
LocksNotRemove == {"insert", "file", "need_many", "keys", "lru_punt_all"}
Locks == {"insert", "remove", "file", "need_many", "keys", "lru_punt_all"}

\* Thread t is in wrapper name at this step of it, and holds the GIL.
In(t, name, step) ==
    at[t] = "inside" /\ gil = t /\ job[t].name = name /\ job[t].step = step

\* keys() makes its list before it takes the lock.
Start(t, name, id) ==
    /\ job[t].calls < MaxCalls[t]
    /\ Enter(t, name \in Locks)
    /\ job' = [job EXCEPT ![t] = [@ EXCEPT !.name = name, !.id = id,
                    !.size = IF name = "keys" THEN svfs_size ELSE 0]]
    /\ UNCHANGED <<m_svfs, births>>

Done(t) ==
    /\ job' = [job EXCEPT ![t] = [@ EXCEPT !.step = "done", !.rested = FALSE]]
    /\ UNCHANGED lockVars

insert(t) == In(t, "insert", "parse") /\ svfs_insert(job[t].id) /\ Done(t)

remove(t) == In(t, "remove", "parse") /\ svfs_remove(job[t].id) /\ Done(t)

\* A wrapper that uses one file: has(id), then at(id) gives a reference; without the
\* file an IndexError.
at_id(t) ==
    /\ \E name \in {"file", "need_many"} : In(t, name, "parse")
    /\ job' = [job EXCEPT ![t] =
            IF svfs_has(@.id)
            THEN [@ EXCEPT !.step = "found", !.file = svfs_at(job[t].id), !.rested = FALSE]
            ELSE [@ EXCEPT !.step = "done", !.rested = FALSE]]
    /\ UNCHANGED <<m_svfs, births, lockVars>>

\* It uses the reference and is left with copies of what it lists.
UseFile(t) ==
    /\ \E name \in {"file", "need_many"} : In(t, name, "found")
    /\ Done(t)
    /\ UNCHANGED <<m_svfs, births>>

\* keys() fills its list.  A place beyond its end is undefined: here it goes on.
keys(t) == In(t, "keys", "parse") /\ Done(t) /\ UNCHANGED <<m_svfs, births>>

\* has, total_size_of, total_bytes, total_blocks and __len__ only read.
Query(t) ==
    /\ \E name \in {"has", "total"} : In(t, name, "parse")
    /\ Done(t)
    /\ UNCHANGED <<m_svfs, births>>

\* lru_punt_all punts every file, by ID.
lru_punt_all(t) ==
    /\ In(t, "lru_punt_all", "parse")
    /\ Done(t)
    /\ UNCHANGED <<m_svfs, births>>

Return(t) ==
    /\ \E name \in Wrapper : In(t, name, "done")
    /\ Leave(t)
    /\ job' = [job EXCEPT ![t] = NoJob(@.calls + 1)]
    /\ UNCHANGED <<m_svfs, births>>

\* A wrapper can lose the GIL when it converts its arguments or builds its result.
\* Between at(id) and the use of the reference only need_many does: it converts its
\* list there.
MayRest(t) == ~job[t].rested /\ (job[t].step = "found" => job[t].name = "need_many")

HandOver(t) ==
    /\ MayRest(t)
    /\ GoAway(t)
    /\ job' = [job EXCEPT ![t].rested = TRUE]
    /\ UNCHANGED <<m_svfs, births>>

FSInit ==
    /\ m_svfs = [i \in {} |-> NoFile] /\ births = 0
    /\ LockInit
    /\ job = [t \in Thread |-> NoJob(0)]

GetGIL(t) == TakeGIL(t) /\ UNCHANGED <<m_svfs, births, job>>
AcquireLock(t) == (TryLock(t) \/ Wait(t) \/ GetLock(t)) /\ UNCHANGED <<m_svfs, births, job>>

Work(t) ==
    \/ insert(t) \/ remove(t)
    \/ at_id(t) \/ UseFile(t)
    \/ keys(t) \/ Query(t) \/ lru_punt_all(t)
    \/ Return(t)

FSNext ==
    \E t \in Thread :
        \/ \E name \in Wrapper, id \in Id : Start(t, name, id)
        \/ GetGIL(t) \/ AcquireLock(t) \/ Work(t) \/ HandOver(t)

\* A thread in a wrapper gets the GIL and the lock when nobody has them any more, and
\* a thread that has what it needs runs on.
FSFairness ==
    \A t \in Thread :
        WF_fsVars(GetGIL(t)) /\ WF_fsVars(AcquireLock(t)) /\ WF_fsVars(Work(t))

FSSpec == FSInit /\ [][FSNext]_fsVars /\ FSFairness

(***************************************************************************)
(* Properties                                                               *)
(***************************************************************************)

\* A wrapper never uses a file that another thread has removed, or removed and
\* inserted again, since it found it (_cSVFS.cpp, between at() and the use of the
\* reference): need_many runs Python code in between.
FileOutlivesUse ==
    \A t \in Thread :
        job[t].step = "found" =>
            svfs_has(job[t].id) /\ svfs_at(job[t].id) = job[t].file

\* The list that keys() returns has exactly one place for every ID.
KeysFit ==
    \A t \in Thread : In(t, "keys", "parse") => job[t].size = svfs_size

\* Every call returns: a thread that waits for the lock does not keep the GIL from
\* the one that has it, and every exit releases both.
WrappersReturn == \A t \in Thread : at[t] # "python" ~> at[t] = "python"

=============================================================================
