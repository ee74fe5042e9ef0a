# svfsc: a verification project

`svfsc` caches parts of remote files. A *sparse virtual file* (SVF) holds
blocks of bytes of one remote file. A caller asks `has(fpos, len)`; if the
answer is no it asks `need()` what to fetch, fetches it, `write()`s it and
`read()`s. `lru_punt()` keeps the cache small. A *sparse virtual file system*
(SVFS) is a map from an id to an SVF. Both are C++ classes with CPython
wrappers.

This directory holds TLA+ models of that code, the TLC configurations that
check them on small instances, and proofs that TLAPS checks for every instance.
Paths below are relative to the repository.

## 1. Inventory

| component | source | state | operations | model |
|---|---|---|---|---|
| `SparseVirtualFile` | `src/cpp/svf.{h,cpp}` | `m_svf`: ordered map block start → (data, touch); `m_bytes_total`; `m_block_touch`; eight reporting counters | `write`, `read`, `erase`, `clear`, `lru_punt`, `has`, `need`, `need_many`, `block_touches`, `integrity` | `SparseVirtualFile`, `SVFNeed` |
| what it promises | docs, header comments | which bytes of the remote file are held | store, drop a stretch, drop all | `SparseFile` |
| requests for data | `svf.cpp` `need`, `need_many`, `_minimise_seek_reads`; wrappers in `_cSVF.cpp` | none of their own | the two calls | `SVFNeed`, `SVFNeedCalls` |
| callers of one file | `src/cpy/simulator.py` `Client`, `Server` | each thread's position in its loop, its demand, what is left to fetch | the steps of `Client.run`, `Server.get` | `SVFClient` |
| C++ threads that share a file, debug build | `svf.cpp`, `svf.h:192-198`, `CMakeLists.txt:6-11` | `m_mutex`, where each thread is | enter, assert, lock, run, return | `SVFThreads` |
| `SparseVirtualFileSystem` | `src/cpp/svfs.{h,cpp}` | unordered map id → SVF, configuration | `insert`, `remove`, `at`, `has`, `keys`, totals | `SVFSPython` |
| Python wrapper of one file, `cSVF` | `src/cp/_cSVF.cpp` | pointer to the C++ object, a Python lock | one wrapper per method, `__getstate__`, `__setstate__` | `PyLock`, `SVFPython` |
| Python wrapper of the file system, `cSVFS` | `src/cp/_cSVFS.cpp` | pointer to the C++ object, a Python lock | one wrapper per method | `PyLock`, `SVFSPython` |
| module start, dates | `src/cp/cSVFS.cpp`, `svfs_util.*` | none | | no: nothing changes state |
| simulator network, examples | `Communications`, `sim_examples.py` | clock, recorded reads | | no: timing and data |
| tests, timing programs | `main.cpp`, `src/cpp/cpp_svfs.*`, `tests/` | | | read as documentation |
| Doxygen output | `docs/Sphinx/source/ref/doxygen/doxygen_html` | none | | no: generated, not part of the program |

**Interaction.** Every public method of an SVF takes the object's mutex from
start to end in the CMake build (`CMakeLists.txt:6-7`), so calls on one file are
atomic; *sequences* of calls are not. The build of `setup.py` undefines those
mutexes (`setup.py:41-42`): there calls are atomic because of the GIL and of a
lock in each wrapper object that is waited for with the GIL released. Some
wrappers take that lock, some do not. The remote file and the transport are
outside the repository.

**What is hard.**

* `write()` has three shapes (new block; new block that swallows old ones; old
  block that grows over the following ones) and two hand-written loops that
  coalesce blocks, move positions and lengths, add to `m_bytes_total` in six
  places and may throw half-way.
* `lru_punt()` orders blocks by a 32-bit touch counter and works on a list made
  before its loop.
* `need()` walks gaps and blocks with the same kind of arithmetic, and greedy
  lengths make its pieces overlap.
* Several threads run the has / need / write / read sequence on one object, and
  any thread may punt in between.
* The remote file may change: new data then differs from data held.
* A wrapper loses the GIL where it runs Python code (`__index__` of an argument,
  a finalizer during an allocation), with the lock of the object or without it.
* A pickle is read block by block while other threads change the object.

**What makes each part correct.** SVF: blocks are not empty, not adjacent, do
not overlap and are correctly counted; each byte sits at its position; `has` is
true exactly of held ranges; touches are distinct and punting follows them;
every loop ends. `need`: covers all that is missing, nothing more unless
greedy, and agrees with `has`. Callers: the sequence succeeds, every demand is
served. SVFS: no file is used after it was removed; `keys` and the totals are
those of one moment.

## 2. Plan

Order of work, the most important behaviour first.

1. `SparseFile`, `SparseVirtualFile`: the object, its invariants, the
   refinement. *Done.*
2. `SVFNeed`, `SVFNeedCalls`: need and need_many. *Done.*
3. `SVFClient`: threads that share an object. *Done.*
4. `SparseVirtualFileProofs`: type correctness, touches, punting order and bound.
   *Done.*
5. `PyLock`, `SVFPython`: the wrapper lock and the GIL, the calls of `cSVF`,
   pickling. *Done.*
6. `SVFSPython`, `SVFSPythonProofs`: files inserted and removed while others use
   them, `keys()`. *Done.*
7. `SparseVirtualFileIntegrityProofs`: the blocks, `has()`, the bytes in place
   and the accounts. `SparseVirtualFileRefinementProofs`: the step simulation of
   `SparseFile`. `SVFPythonProofs`: the lock of a wrapper. *Done.*
8. `SVFThreads`, `SVFThreadsProofs`: C++ threads and the assertions of the debug
   build, before the mutex and under it. *Done.*
9. The ends of the number ranges: the largest range `has` can be asked, the unsigned
   difference in the second loop of `write`. *Done*; what happens beyond them is in
   section 4.
10. `SVFNeedProofs`: what `need` and `need_many` answer. `SVFClientProofs`: the
    sequence of calls of a client, and what punting does to it. Pickling in
    `SVFPythonProofs`. *Done.*

Not started: a `SparseVirtualFileSystem` shared by C++ threads; what a pickle
loses (configuration and the order of touches). Every safety property of a passing
run has a theorem, under the assumptions of section 5.

The abstract specification is `SparseFile`; a file system is a plain map of them,
known by their ids, and states nothing more about a file.

## 3. The models

### SparseVirtualFile

One variable per field (`m_svf`, `m_bytes_total`, `m_block_touch`, `stats` for
the eight counters), `ret` for how the last call ended, and `pc`, `w`, `p` for
the method that is in the middle of a loop and its locals. A method without a
loop is one action. `write` chooses its branch as `svf.cpp:458-485` does:

* `_write_new_block` is one action;
* `BeginNewAppendOld`, then one of `NewAppendOldThrow / Tail / Rest / Continue`
  per block swallowed (`svf.cpp:178-262`);
* `BeginAppendNewToOld`, then `AppendRest / Throw / Coalesce / End`
  (`svf.cpp:312-408`).

`lru_punt` takes the list of touches, then `PuntBlock` per block and `PuntEnd`.
The loops are split into steps so that what a loop leaves behind half-way is
visible to the invariants; no other call starts before the loop is over, which
is the mutex (or the GIL, see `SVFPython`).

Taken as it is in the code: only the first byte that overlaps decides whether a
difference throws (`_throw_diff`), in the second loop it is compared with the
first byte of the base block (`svf.cpp:375`); the length compared there is an
unsigned difference and `memcmp` may read beyond a block, which is either
outcome (`AppendMemcmp`); `integrity()` never detects equal touches because the
set it looks in is never filled. The build is the one `setup.py` ships, with
`NDEBUG`: assertions are empty.

Where numbers keep their width: `has` and `read` add a length in `size_t`
(`EndInSize`), line 371 of the second loop and `erase` subtract in `size_t`
(`SizeSub`), the touch is a `uint32_t` (`NextTouch`). All other sums are of
positions in the file, at most `MaxPos`, and are taken to fit; so are those of `need`.

Left out: times of the last access, MD5 of a block, scrubbing of memory.

### SparseFile

`held`, a partial function from positions to bytes. Storing sets a range, and
erasing or punting drops a maximal held stretch. That blocks *are* maximal
stretches is what "blocks are coalesced where possible" means to a caller. The
refinement mapping is `Held`: bytes in the map, bytes already moved to the block
being built, and bytes still to be stored, so that a write takes effect at its
first step and each loop step is a stutter.

### SVFNeed and SVFNeedCalls

The walk of `need` is a fold over the blocks after the position, largest start
last, which is map order. Before the walk a request that ends before the first block
is listed whole, and of any other the part that the block at its start holds is
dropped (`DropHeldHead`, `svf.cpp:598-616`). No run asks for 0 bytes. `_minimise_seek_reads` and the loop of `need_many`
are folds over their lists; `std::sort` is a choice of an ordered permutation.
`SVFNeedCalls` starts from *every* content of the file and asks `need` for one
request, `need_many` for a list of up to `MaxReads` of them in any order, equal
and overlapping ones included, with every greedy length.

### SVFClient

Client threads run the steps of `Client.run`; each call on the file is an
action of `SparseVirtualFile` and `Continue` finishes the loop a call has
entered. `Setups` is the set of programs a run looks at: which clients run, what
they may demand, and the bounds with which another thread calls `lru_punt` at any
moment, if there is such a thread; the initial state chooses one. The server returns
as many bytes as were asked for, as `Server.get` does, so demands leave room
for the longest greedy read.

### SVFThreads

`SparseVirtualFile` with `m_mutex` and any number of C++ threads, in the debug
build: `SVF_ASSERT(integrity() == ERROR_NONE)` is a real assertion there
(`svf.h:192-198`) and ends the program when it fails. `Enter`, `AssertEntry`,
`Lock`, `Begin`, `Run`, `Return` are the parts of a method: every one but `read`
asserts *before* it locks (`svf.cpp:453` and 455). Under the mutex there are
assertions

* where a write that coalesces begins (179, 314), and `read` (507), `erase`
  (882), `need` (590), and the list of touches `lru_punt` starts from (990);
* before each block `lru_punt` erases (1033, which calls 882): `Run`;
* where `write` (492) and `clear` (870) end: `Return`.

The plain `assert()`s of arguments and loop positions are left out. An assertion without the mutex reads the
map while another thread changes it, which is a data race; the model lets it see
the map between two iterations of the other thread's loop, one of the outcomes.

### PyLock

The GIL, the lock of one object, and where each thread is. `Enter` is the call of
a wrapper; `TryLock`, `Wait` and `GetLock` are the constructor of `AcquireLockSVF`
and `AcquireLockSVFS`, `Leave` its destructor. `GoAway` is Python code run inside
a wrapper, after which the thread has to get the GIL again (`TakeGIL`). A thread
does not call the same object from there: the lock is not recursive and the
thread would wait for itself, which is listed as a hazard and not modelled.

### SVFPython

`SparseVirtualFile` with threads that enter through `PyLock`. A wrapper may lose
the GIL before its C++ call and after it, never in it: no Python code runs in the
C++ methods and none of them releases the GIL. That is a fact of the code which
the guard of `MayRest` assumes. What is checked is what follows from it: `Run`
goes on with a loop of the object, other threads are let in wherever the GIL and
the lock allow it, and none meets the object half-way.
Pickling is `GetState`, then `ReadBlock` for each block listed, with the GIL lost
between two reads, then `Pickled`; another thread may have removed a block
(`ReadBlockFails`). `MCSVFPickle` adds a variable which remembers what the object
held at each moment of the call. `SetState` makes a new object and `PlayBack` writes the
blocks to it; the new object takes the place of the old one in the model.

### SVFSPython

The map of files, each known by the insertion that made it, so that a file
removed and inserted again is another one. A wrapper that uses one file is
`at_id`, then `UseFile`. Only `need_many` runs Python code between the two:
it converts its list when it already has the reference.

## 4. Runs

| run | question | bounds |
|---|---|---|
| `stable` | Do the blocks stay disjoint, apart, counted and in place, do the comparisons of a write stay inside the blocks, is `has` exact, does punting reach its bound, is `SparseFile` implemented? One version of the file, no writes from inside a gap up to a block. | 5 positions, 4 touches |
| `anyclient` | With any caller, two versions of the file, empty writes: are touches distinct, is punting oldest first, does every call return? | 5 positions, 3 touches |
| `need` | Are `need` and `need_many` exact, in order, consistent with `has`, and no longer when greedy? | 7 positions, greedy 0..3, all lists of 1 or 2 requests |
| `sequence` | Can the has / need / write / read sequence of one thread fail because of another? | 2 clients, 2 demands each, any demand, greedy 0 or 2, 7 positions |
| `served` | With page-aligned demands and no restriction on writes, is every demand served? May punting come at any moment without harm to a demand that was wholly missing? | 2 clients that demand any of four 2-byte pages, or 1 client that demands anything in the first 5 bytes and a thread that punts with bound 0 or 2; 3 demands each, 8 positions |
| `python` | Two threads share a `cSVF`. Does a wrapper ever meet it half-way through the call of another? Is what is loaded from a pickle the bytes in it, and sound? | 4 calls of one thread, 1 of the other, 4 positions |
| `filesystem` | Three threads share a `cSVFS`. Is a file still there when it is used? Does every call return? | 1 ID, 2 calls of one thread, 1 of the others |

Five positions hold three blocks with gaps, a write over all of them, a write
that begins in one and ends in the next, and a tail. Four touches are four
writes or reads, with erasures and punts between them at will; three writes make
three blocks and the fourth coalesces them all. Seven positions are needed so that
a request can span two whole blocks and end in a third. `SizeMod` and
`TouchMod` stand for 2^64 and 2^32 and are larger than any count reached, except
that `stable` has `SizeMod = 16`, so that `has` is asked for ranges of every length
up to the largest end a `size_t` can hold. In `served` it takes four pages for a write to start inside a gap
and reach a block: pages 0 and 3 are held, page 2 is written. In `sequence` the two clients are symmetric;
symmetry is used with an invariant only. In `python` four calls are
two writes that leave two blocks, one that makes a pickle and one that loads
it, and the call of the other thread may come between any two of its steps. In
`filesystem` the calls are enough to insert a file, find it, remove it and
insert it again; a second ID would add nothing, as files do not interact.

The runs that are expected to find a violation show that the code does not do
what a comment or a document says:

| run | what happens |
|---|---|
| `gap` | Bytes 0, then 3, are held; a demand for 2..3 asks `need`, gets byte 2, writes it: it becomes a block of its own, adjacent to byte 3, since `write` (`svf.cpp:478`) does not look at the block after it. `has(2, 2)` stays false. `tech_notes.rst:693` says the sequence always succeeds; `simulator.py:160` asserts it. |
| `keys` | `keys()` makes its list for the number of files at that moment, waits for the lock, and fills it with the files there are then (`_cSVFS.cpp:241-242`). |
| `assert_torn` | A thread is in the middle of a write that coalesces; another thread calls any method but `read`, whose first line checks `integrity()` before it locks, and the debug build aborts (`svf.cpp:453`, 455). `README.rst:28` says it is thread safe. Two threads, 4 positions, 3 touches. |
| `diff_lost` | A difference exception loses bytes that were held (`svf.cpp:208`, `_cSVF.cpp:391`). |
| `pickle_mixed` | `__getstate__` reads its blocks one by one without the lock (`_cSVF.cpp:1254`). The GIL can be lost between two reads, where an allocation starts a garbage collection that runs Python code. Another thread then erases a block and writes bytes of a newer version of the file there: the pickle has bytes of both versions, which were never held together. `tech_notes.rst:512` says each API call is atomic. Two threads, 3 and 2 calls, 3 positions, two versions. |

The `gap` violation is the reason for the constant `AllowGapJoin`: with it
`FALSE` callers do not write from inside a gap up to a block, and everything
else holds. `served` shows a discipline under which callers need not care, with
four pages: clients that demand whole pages of one size. Pages that are adjacent may
then stay blocks of their own, but no demand ever spans two of them.

Other disagreements, which are not runs:

* Whether data differs is decided by the first byte compared (`svf.cpp:90`); data
  that differs after it is accepted, against `svf.h:270`.
* `has(fpos, len)` with `fpos + len` at or beyond 2^64 is true when the sum wraps
  around to a position that is held, for instance `has(1, 2^64 - 1)` when byte 1 is
  (`svf.cpp:70`).
* After 2^32 writes and reads two blocks can share a touch, and `block_touches()`, from
  which `lru_punt` works, forgets one (`svf.cpp:993`).
* Once a write from inside a gap has covered a block without coalescing it (bytes 0,
  then 3, then 2 to 4), a write that grows the covering block (2 to 5) goes on to the
  covered one from beyond its end: the difference at `svf.cpp:371` wraps around and
  `memcmp` reads past that block, which line 367 takes to lie ahead.
* A greedy length that does not exceed the length asked for is not a minimum
  (`svf.cpp:670`), though `svf.cpp:563` says so: with byte 0 held, `need(0, 2, 2)` is one
  piece of one byte.
* `README.rst:23` says no punting is implemented, `lru_punt` is.
* `svf.h:254` says a smaller touch is younger, `svf.h:470` and the code that it is
  older.
* `integrity()` cannot report equal touches.
* A difference exception may leave an object for which `integrity()` fails
  (`svf.cpp:208`, `375`), which the next write of a debug build asserts.
* `cSVFS.write` passes on an empty write, which `cSVF.write` refuses, and the result is
  an empty block.

**Fairness.** `WF_vars(Loop)`: the thread that holds the mutex is in a loop that
neither waits nor does I/O, so it is scheduled until it returns. In `SVFClient`
each client thread is fair as well, as threads of one process are; nothing is
assumed of the punting thread. In `SVFSPython` a thread inside a wrapper gets the
GIL and the lock when they are free, and runs on when it has them: the
interpreter switches threads, and calls are bounded, so a thread waits for
finitely many others. `SVFPython` has safety properties only. `CHECK_DEADLOCK FALSE` where clients stop after
`MaxDemands` demands and threads after `MaxCalls` calls.

## 5. Proofs

All for every value of the constants that satisfies the assumptions named in
`SparseVirtualFile.tla`, hence for files of any size, any set of versions, any
caller, unless the last column says more.

| theorem | statement | further assumption |
|---|---|---|
| `TypeCorrect` | `Spec => []TypeOK` | none |
| `DistinctTouches` | `Spec => []TouchesDistinct` | `MaxTouch < TouchMod`: the counter has not wrapped |
| `PuntsOldest` | `Spec => PuntsOldestFirst` | the same |
| `PuntBound` | `Spec => PuntReachesBound` | the same |
| `IntegrityHolds` | `Spec => []Integrity` | `AllowGapJoin = FALSE`, `MinLen = 1`, `Agreed`: nothing is compared or there is one version of the file |
| `HasIsExact` | `Spec => []HasIffHeld` | the same |
| `ComparisonInsideBlock` | `Spec => []ComparesInsideBlock` | the same |
| `BytesAreAccounted` | `Spec => []BytesAccounted` | the same |
| `BlocksHoldTheFile` | `Spec => []HoldsFile` | `AllowGapJoin = FALSE`, `MinLen = 1`, one version of the file |
| `BlocksImplementSparseFile` | `Spec => ImplementsSparseFile` | the same |
| `LockedCallsExcludeEachOther` | `PySpec => []LockedCallsExclude` | none |
| `ObjectNeverTorn` | `PySpec => []NeverMeetsTornObject` | none |
| `NeedCovers` | `NeedSpec => []NeedCoversMissing` | none |
| `NeedMinimal` | `NeedSpec => []NeedIsMinimal` | none |
| `NeedAgrees` | `NeedSpec => []NeedAgreesWithHas` | none |
| `NeedReadsFew` | `NeedSpec => []GreedyReadsFewer` | none |
| `SequenceAlwaysSucceeds` | `ClientSpec => []SequenceSucceeds` | those of `BlocksHoldTheFile`, and nobody punts |
| `PuntNeverTakesFreshData` | `ClientSpec => []PuntSparesFreshData` | those of `BlocksHoldTheFile`, and `MaxTouch < TouchMod` |
| `LoadedObjectHoldsPickle` | `PySpec => LoadRestores` | those of `BlocksHoldTheFile` |
| `AssertionsUnderMutexHold` | `ThreadsSpec => []LockedAssertsHold` | those of `IntegrityHolds`, and `NoThread` is no thread |
| `FilesOutliveUse` | `FSSpec => []FileOutlivesUse` | none |

*TypeCorrect.* The type invariant alone is not inductive: the loops address
blocks that have to exist. `TypeOK` says so of the blocks a write in progress
needs, and `TypeInv` adds that a punt's list points to different blocks for
different touches, so that no block is punted twice. One lemma per action.

*DistinctTouches.* `TouchInv`: every touch is less than the counter and no two are
equal; a touch reserved by a write that swallows blocks belongs to no block; a
write that grows a block has not taken its touch yet, so the counter is still
below `MaxTouch`. Without the assumption the theorem is
false, two blocks may have the same touch.

*PuntsOldest, PuntBound.* `PuntInv` says what the list means in the middle of
the loop: it is exactly the inverse of the touches of the blocks still in the
map. So the smallest touch in the list is the oldest block, and when the list
is exhausted so is the map, which the loop's own test prevents.

*FilesOutliveUse*, for any number of threads, calls and IDs. `FileOutlivesUse` is
not inductive: nothing in it says why no thread removes the file. `LockOwned`
says that a thread past the lock has it, `FoundInside` that a thread with a
reference is in a wrapper that locks; so the thread that removes a file and the
one that uses it would both have the lock.

*IntegrityHolds, HasIsExact.* `Integrity` speaks of the state between calls and
says nothing of a loop half-way, so it is not inductive. `BlockInv` is: the map is
`Sound` at every step (blocks not empty, a gap between any two), and the loop that
builds a new block satisfies `NewAppendOldFrame` (what was moved ends where what is
left begins, every block still in the map starts after that point, and the first of
them is met by the new data), the other loop `AppendNewToOldFrame` (what is left
begins where the base block ends). The counter is the number of bytes in the map
plus those moved. The three assumptions are needed, and runs show why: a write from
inside a gap breaks `Sound` (`gap`), an empty write leaves an empty block, and a
difference exception throws away a block half built (`diff_lost`).

*ComparisonInsideBlock.* In the loop that grows a block, the next block starts
exactly where the gap before it ends: no block starts before the base block's end
(`Sound`), and what is left of the data begins there (`AppendNewToOldFrame`). So
the part to compare begins at the start of the next block and the unsigned difference
of line 371 cannot wrap around. When `Sound` fails it can, see section 4.

*BytesAreAccounted* adds `Accounted`: a write in progress has added to
`m_bytes_total` at most the data it has passed (its length less what is left), and
a punt in progress has removed no more than was reported as erased.

*BlocksHoldTheFile.* `Content` says of the map *and of the locals of a write* that
each byte is the file's at that position, so no comparison finds a difference
(`NothingThrown`), which closes the circle: no exception, no broken block.

*BlocksImplementSparseFile.* With one version of the file what is held is that
version restricted to the positions held (`HeldIsTheFile`), so each step has only
to be followed in the set `Kept`: blocks, bytes moved, bytes still to store. A
write adds its range at its first step; each step of a loop leaves `Kept` as it is
(one lemma for each way a loop goes on); erasing and punting take out a stretch,
by `Sound` a maximal one; `clear` takes all; the rest stutters. Every step of
`Spec` is then a step of `SparseFile` or a stutter. With two
versions of the file the refinement is neither checked nor proved: which version
a held byte is of then depends on where the blocks were.

*LockedCallsExcludeEachOther, ObjectNeverTorn.* `PyInv`: the thread past the lock
owns it; a thread in a C++ method has the GIL; the object is in a loop only while
one thread is inside the call that began it.

*AssertionsUnderMutexHold.* `FileInv` (all of the above) holds of the file because
only the thread with the mutex changes it, and when a thread has just taken the
mutex the file is idle. Inside a loop integrity holds between two steps
unless the loop has counted bytes it has yet to put into the map (`SoundWhole`);
`lru_punt` has no such bytes, so the assertion before each of its erasures holds.
The assumptions matter: a write from inside a gap up to a block, an empty write, or a
difference exception leaves an object for which `integrity()` fails, and then
the assertions under the mutex fail as well. With them the assertions before the
mutex can still fail, which `assert_torn` shows. `LockedAssertsHold` is proved and
has no run of its own.

*NeedCovers, NeedMinimal, NeedAgrees, NeedReadsFew.* `NeedInv`: the map is `Sound`,
and the last answer is right (`Answers`): it covers what was asked for and is not
held, is `Apart`, is no more than that without a greedy length, and has few and
long pieces with one. Every content, any number of requests (`MaxReads`) and any
greedy length. The work is in the lemmas about the three loops. A fold is a choice of
a recursive function; each fold is shown once to be a sequence of accumulators, one
per element (`NeedFold`, `MinimiseFold`, `EachFold`), and induction along it is a
set of indices with 0 in it that is closed under + 1 (lemma `UpTo`, from the
smallest counterexample). `WalkStep` says what one block does to
`need`: what is on the list is exactly what is missing before the position reached.
`CollectStep` says what one request does to `_minimise_seek_reads`: the last piece
reaches no further than what was asked for, or is as long as the greedy length.
`SortExists` shows that `Sorted` chooses something.

*SequenceAlwaysSucceeds.* `SequenceSucceeds` says nothing of how a client gets from
one call to the next. `Provided` does: while a client fetches, each byte of its
demand is held or on the list it has still to fetch, and when it is about to read,
each byte is held. Another thread's write only adds to what is held (`Kept`
grows in every step, half-way through a coalescing loop too), so it takes
nothing from a client. What `need` answers is enough by `NeedAnswers`, and
`has` is true of what is held by `SoundHas`. The run `gap` shows why no write may
start inside a gap and reach a block, `served` what punting does.

*PuntNeverTakesFreshData*, for a thread that punts at any moment down to any bound. The
property relates the touch of the block just written to those of all the others,
through both loops of `write` and through `lru_punt`. `Spared` says of a client that was
told to fetch exactly its demand: it still has to, or what it wrote is `Fresh`.
`Fresh` follows the data: in the loop that builds a block from what it swallows it
lies at the start of that block, whose touch is reserved and exceeds all in the
map; in the loop that extends a block it begins inside that block or at its end;
when the write has returned, the demand begins in the block touched last
(`Newest`). There is at least one older block whenever `PuntBlock` erases one, since it never erases
the last one left, and by `PuntInv` it erases the oldest. The demand begins in a
block and is held as a whole, so by `Sound` it lies in that block (`InOneBlock`) and
`read` finds it. The theorem takes `AllowGapJoin = FALSE` since `Sound` does;
the run `served` checks the property without that restriction on a small instance.

*LoadedObjectHoldsPickle.* `PickleInv` adds to `PyInv`: what a thread has read for a
pickle, and the last pickle, are bytes of the file. In a thread that loads
(`LoadsPickle`): the bytes of the new object and of the chunks still to write are
together those of the pickle, so when no chunk is left the object holds the pickle,
and it is `Sound`, although the writes have coalesced blocks. This needs that nobody
else changes the object: the loader keeps the GIL (`LoaderAlone`). That a pickle is
what was held at one moment is false, see run `pickle_mixed`.

**The assumptions.** `AllowGapJoin = FALSE`: run `gap` shows what
happens otherwise. `MinLen = 1`: `cSVF.write` refuses empty data (`cSVFS.write` does
not, see section 4). One version of the file: `diff_lost`. `SetupsAssumption`
says that demands leave room for the longest greedy read, because the remote file
of the simulator has no end, and that there is a greedy length to choose.

**Only model-checked.** `CallsReturn`, `EveryPageServed`, `WrappersReturn`: liveness,
which the prover does not do. `PuntSparesFreshData` where writes may start inside a gap
and reach a block: `Sound`, on which its proof rests, fails there.

## 6. Not modelled

* A `SparseVirtualFileSystem` shared by C++ threads: `at()` (`svfs.cpp:103`) takes
  no mutex and hands out a reference another thread may remove. Nothing in the
  class says who has to prevent it, so there is no claim to check; in the Python
  build the wrapper's lock does, which is proved.
* Python code that calls an object from inside one of its wrappers: the lock is not
  recursive (`_cSVFS.cpp:112-117`), the thread waits for itself.
* The clock, the MD5 of a block, parsing errors of the wrappers, the simulator's
  network delays: no property depends on them.
* `docs/Sphinx/source/ref/doxygen/doxygen_html`: Doxygen's output. It holds all the
  JavaScript of the repository, which is the generator's search and menu code and
  index data; it is no part of svfsc, whose implementation is C++ and C.

## 7. Reading order

`SparseFile.tla`, `SparseVirtualFile.tla`, `SVFNeed.tla`, `SVFNeedCalls.tla`,
`SVFClient.tla`, `SVFThreads.tla`, `PyLock.tla`, `SVFPython.tla`, `SVFSPython.tla`, then the
`MC...` modules, which give the constants small values, and the `...Proofs.tla`. Right before some definitions stands a
variant that nothing uses: a plausible mistake in that code, which a property
is known to notice.
