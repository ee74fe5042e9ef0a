------------------------- MODULE SparseVirtualFile -------------------------
(***************************************************************************)
(* The class SVFS::SparseVirtualFile (src/cpp/svf.h, src/cpp/svf.cpp): an   *)
(* in-memory cache of parts of a remote file.  The state is the ordered map *)
(* m_svf from a block's first file position to the block, and counters.     *)
(*                                                                          *)
(* Every call is atomic.  In the CMake build a public method holds m_mutex   *)
(* from start to end; in the build of setup.py that mutex is compiled out   *)
(* and the lock of the Python object and the GIL take its place.  pc says   *)
(* which method owns the lock in the middle of one of the three loops that  *)
(* change the map; pc = "idle" when no call is in progress.  One step of a  *)
(* loop is one iteration of the code's loop, that is one existing block.    *)
(*                                                                          *)
(* assert() is empty, as in the build of setup.py (NDEBUG).  Data the       *)
(* properties tell apart: a byte is a member of Byte, the remote file is a  *)
(* function from file positions to bytes.                                   *)
(***************************************************************************)
EXTENDS Integers, Sequences, FiniteSets

CONSTANTS
    Byte,             \* what a byte of the remote file can be
    MaxPos,           \* bound: file positions are 0 .. MaxPos - 1
    Files,            \* the versions of the remote file a caller may write
    compare_for_diff, \* SparseVirtualFileConfig::compare_for_diff
    MinLen,           \* shortest write: 1 through cSVF.write, 0 through cSVFS.write
    AllowGapJoin,     \* may a caller write from inside a gap up to a block
    MaxBound,         \* bound: lru_punt is called with 0 .. MaxBound
    MaxTouch,         \* bound: no write or read starts from this touch on
    TouchMod,         \* 2^32, the modulus of t_block_touch
    SizeMod           \* 2^64, the modulus of size_t

Pos == 0 .. MaxPos - 1

ASSUME BoundsAssumption ==
    /\ MaxPos \in Nat /\ MaxBound \in Nat /\ MaxTouch \in Nat
    /\ MinLen \in {0, 1}
    /\ TouchMod \in Nat \ {0}
    /\ SizeMod \in Nat /\ SizeMod > MaxPos

ASSUME FilesAssumption == Files \subseteq [Pos -> Byte]

ASSUME FlagsAssumption == compare_for_diff \in BOOLEAN /\ AllowGapJoin \in BOOLEAN

VARIABLES
    m_svf,          \* block start -> [data, block_touch]
    m_bytes_total,
    m_block_touch,
    stats,          \* the reporting counters, see StatNames
    pc,             \* the loop in progress, "idle" when the lock is free
    w,              \* locals of a write in progress
    p,              \* locals of an lru_punt in progress
    ret             \* how the last call ended: "ok" or the exception thrown

vars == <<m_svf, m_bytes_total, m_block_touch, stats, pc, w, p, ret>>

Block == [data : Seq(Byte), block_touch : Nat]

StatNames == {"count_write", "bytes_write", "count_read", "bytes_read",
              "blocks_erased", "bytes_erased", "blocks_punted", "bytes_punted"}

ZeroStats == [n \in StatNames |-> 0]

\* No write is in progress.
NoWrite == [start |-> 0, len |-> 0, fpos |-> 0, data |-> <<>>,
            new |-> <<>>, touch |-> 0]

\* No punt is in progress.
NoPunt == [touches |-> [t \in {} |-> 0], bound |-> 0, removed |-> 0]

(***************************************************************************)
(* Helpers.  Here and below a definition that nothing uses, defined right   *)
(* before the one it resembles, is a plausible mistake in that one: the     *)
(* properties are checked to notice it.                                     *)
(***************************************************************************)
Smallest(S) == CHOOSE x \in S : \A y \in S : x <= y
Largest(S)  == CHOOSE x \in S : \A y \in S : y <= x
Lesser(a, b) == IF a <= b THEN a ELSE b

\* The first n bytes of d, and d without them.
Take(d, n) == SubSeq(d, 1, n)
Drop(d, n) == SubSeq(d, n + 1, Len(d))

\* a - b in size_t.
SizeSubNothing(a, b) == a
SizeSub(a, b) == (a - b) % SizeMod

\* m_block_touch++ in uint32_t.
NextTouchSticky == m_block_touch
NextTouch == IF m_block_touch + 1 = TouchMod THEN 0 ELSE m_block_touch + 1

\* std::map::erase and std::map::insert.
Without(m, s)    == [t \in DOMAIN m \ {s} |-> m[t]]
With(m, s, d, t) == [u \in DOMAIN m \cup {s} |->
                        IF u = s THEN [data |-> d, block_touch |-> t] ELSE m[u]]

Starts == DOMAIN m_svf

\* _file_position_immediatly_after_block, _file_position_immediatly_after_end
AfterBlock(s) == s + Len(m_svf[s].data)
AfterEnd == IF Starts = {} THEN 0 ELSE AfterBlock(Largest(Starts))

\* Iterator found by upper_bound(fpos) and then --iter unless it is begin().
Locate(fpos) ==
    IF \E s \in Starts : s <= fpos
    THEN Largest({s \in Starts : s <= fpos})
    ELSE Smallest(Starts)

\* The block that follows s in the map (std::next, or what erase() returns).
Following(s) == {t \in Starts : t > s}

(***************************************************************************)
(* Queries: has(), and what integrity() checks                              *)
(***************************************************************************)
\* A position, or an offset, and a length added in size_t: wraps around near 2^64.
EndInSize(fpos, len) == (fpos + len) % SizeMod

has_strictly(fpos, len) ==
    /\ Starts # {}
    /\ fpos >= Locate(fpos)
    /\ EndInSize(fpos, len) < AfterBlock(Locate(fpos))

has(fpos, len) ==
    /\ Starts # {}
    /\ fpos >= Locate(fpos)
    /\ EndInSize(fpos, len) <= AfterBlock(Locate(fpos))

\* The bytes held, one element for each byte of each block.
Cells(m) == UNION {{s} \X (1 .. Len(m[s].data)) : s \in DOMAIN m}

NoEmptyBlock == \A s \in Starts : m_svf[s].data # <<>>
NoAdjacentBlocks == \A s, t \in Starts : s < t => AfterBlock(s) # t
NoOverlap == \A s, t \in Starts : s < t => AfterBlock(s) <= t
ByteCountMatches == m_bytes_total = Cardinality(Cells(m_svf))

\* integrity() == ERROR_NONE (the test for duplicate touches is never true).
integrity == NoEmptyBlock /\ NoAdjacentBlocks /\ NoOverlap /\ ByteCountMatches

(***************************************************************************)
(* write()                                                                  *)
(***************************************************************************)

\* Line 469: does a block starting at first, after fpos, meet the new data?
MeetsNewOpen(first, fpos, len) == first < fpos + len
MeetsNew(first, fpos, len) == first <= fpos + len

\* Line 478: is fpos clear of the block at s, with at least one byte between?
BeyondBlockOrAtEnd(fpos, s) == fpos >= AfterBlock(s)
BeyondBlock(fpos, s) == fpos > AfterBlock(s)

\* The branches of write() that end in _write_new_block.
IsNewBlock(fpos, len) ==
    \/ Starts = {}
    \/ fpos > AfterEnd
    \/ Locate(fpos) > fpos /\ ~MeetsNew(Locate(fpos), fpos, len)
    \/ Locate(fpos) <= fpos /\ BeyondBlock(fpos, Locate(fpos))

\* The write starts between two blocks and reaches the second one.  write()
\* does not look at the second block in this case.
JoinsGap(fpos, len) ==
    /\ Starts # {}
    /\ Locate(fpos) <= fpos
    /\ BeyondBlock(fpos, Locate(fpos))
    /\ \E s \in Following(fpos) : s <= fpos + len

\* The bytes of version f of the remote file at fpos.
Fetch(f, fpos, len) == [i \in 1 .. len |-> f[fpos + i - 1]]

\* Lines 486 to 490: the end of every successful write.
CountWrite(len) ==
    stats' = [stats EXCEPT !["count_write"] = @ + 1, !["bytes_write"] = @ + len]

_write_new_block(fpos, data) ==
    /\ m_svf' = With(m_svf, fpos, data, m_block_touch)
    /\ m_block_touch' = NextTouch
    /\ m_bytes_total' = m_bytes_total + Len(data)
    /\ CountWrite(Len(data))
    /\ ret' = "ok"
    /\ UNCHANGED <<pc, w, p>>

\* Entry of _write_new_append_old, up to its loop.
BeginNewAppendOld(fpos, data) ==
    /\ pc' = "new_append_old"
    /\ w' = [start |-> fpos, len |-> Len(data), fpos |-> fpos, data |-> data,
             new |-> <<>>, touch |-> m_block_touch]
    /\ m_block_touch' = NextTouch
    /\ ret' = "ok"
    /\ UNCHANGED <<m_svf, m_bytes_total, stats, p>>

\* Entry of _write_append_new_to_old: the data that falls on the base block is
\* compared (the first byte only decides whether to throw) and not copied.
BeginAppendNewToOld(base, fpos, data) ==
    LET old  == m_svf[base].data
        idx  == fpos - base
        n    == Lesser(Len(data), Len(old) - idx)
        diff == Take(data, n) # SubSeq(old, idx + 1, idx + n)
    IN /\ IF compare_for_diff /\ diff /\ data[1] # old[idx + 1]
          THEN ret' = "diff" /\ UNCHANGED <<pc, w>>
          ELSE /\ pc' = "append_new_to_old"
               /\ w' = [start |-> base, len |-> Len(data), fpos |-> fpos + n,
                        data |-> Drop(data, n), new |-> <<>>, touch |-> 0]
               /\ ret' = "ok"
       /\ UNCHANGED <<m_svf, m_bytes_total, m_block_touch, stats, p>>

write(fpos, data) ==
    /\ pc = "idle"
    /\ m_block_touch < MaxTouch
    /\ JoinsGap(fpos, Len(data)) => AllowGapJoin
    /\ IF IsNewBlock(fpos, Len(data))
       THEN _write_new_block(fpos, data)
       ELSE IF Locate(fpos) > fpos
            THEN BeginNewAppendOld(fpos, data)
            ELSE BeginAppendNewToOld(Locate(fpos), fpos, data)

(***************************************************************************)
(* What one iteration of either coalescing loop works with.  The iterator   *)
(* is the block after the start of the block being built: the loops erase   *)
(* each block they have copied.                                             *)
(***************************************************************************)
NextBlock == Smallest(Following(w.start))
NextData  == m_svf[NextBlock].data

\* Bytes of new data before the next block, and the new data after them.
Gap == IF w.fpos < NextBlock THEN Lesser(Len(w.data), NextBlock - w.fpos) ELSE 0
DataAtNext == Drop(w.data, Gap)

\* The write leaves its loop normally.
EndWrite ==
    /\ CountWrite(w.len)
    /\ pc' = "idle"
    /\ w' = NoWrite
    /\ ret' = "ok"

\* The write leaves its loop with an ExceptionSparseVirtualFileDiff.
ThrowDiff ==
    /\ ret' = "diff"
    /\ pc' = "idle"
    /\ w' = NoWrite
    /\ UNCHANGED stats

(***************************************************************************)
(* The loop of _write_new_append_old                                        *)
(***************************************************************************)
\* New data that falls on the next block, and what is left after it.
Delta == Lesser(Len(DataAtNext), Len(NextData))
DataAfterNext == Drop(DataAtNext, Delta)

\* _throw_diff looks only at the first byte: a difference further on is not
\* reported and the new data wins.
NewAppendOldDiffers ==
    /\ compare_for_diff
    /\ Take(NextData, Delta) # Take(DataAtNext, Delta)
    /\ DataAtNext[1] # NextData[1]

\* new_value.data at the end of the iteration.
NewValue == w.new \o Take(w.data, Gap + Delta)

\* What the next block holds beyond the new data.
NextTailWhole == NextData
NextTailLost  == <<>>
NextTail == Drop(NextData, Delta)

\* The next block ends after the new data: copy its tail and stop.
NextOutlastsNew == AfterBlock(NextBlock) > w.start + w.len

\* Another block meets the new data: go round again.  Otherwise copy the rest
\* of the new data and stop.
FurtherBlock ==
    /\ Following(NextBlock) # {}
    /\ MeetsNew(Smallest(Following(NextBlock)), w.fpos + Gap + Delta, Len(DataAfterNext))

\* The bytes that were added before the exception stay in m_bytes_total, the
\* blocks already copied into new_value are gone with it.
NewAppendOldThrow ==
    /\ pc = "new_append_old"
    /\ NewAppendOldDiffers
    /\ m_bytes_total' = m_bytes_total + Gap
    /\ ThrowDiff
    /\ UNCHANGED <<m_svf, m_block_touch, p>>

NewAppendOldTail ==
    /\ pc = "new_append_old"
    /\ ~NewAppendOldDiffers
    /\ NextOutlastsNew
    /\ m_svf' = With(Without(m_svf, NextBlock), w.start, NewValue \o NextTail, w.touch)
    /\ m_bytes_total' = m_bytes_total + Gap
    /\ EndWrite
    /\ UNCHANGED <<m_block_touch, p>>

NewAppendOldRest ==
    /\ pc = "new_append_old"
    /\ ~NewAppendOldDiffers
    /\ ~NextOutlastsNew /\ ~FurtherBlock
    /\ m_svf' = With(Without(m_svf, NextBlock), w.start, NewValue \o DataAfterNext, w.touch)
    /\ m_bytes_total' = m_bytes_total + Gap + Len(DataAfterNext)
    /\ EndWrite
    /\ UNCHANGED <<m_block_touch, p>>

NewAppendOldContinueUnerased ==
    /\ pc = "new_append_old"
    /\ ~NewAppendOldDiffers
    /\ ~NextOutlastsNew /\ FurtherBlock
    /\ m_bytes_total' = m_bytes_total + Gap
    /\ w' = [w EXCEPT !.fpos = @ + Gap + Delta, !.data = DataAfterNext, !.new = NewValue]
    /\ UNCHANGED <<m_svf, m_block_touch, stats, pc, p, ret>>

NewAppendOldContinue ==
    /\ pc = "new_append_old"
    /\ ~NewAppendOldDiffers
    /\ ~NextOutlastsNew /\ FurtherBlock
    /\ m_svf' = Without(m_svf, NextBlock)
    /\ m_bytes_total' = m_bytes_total + Gap
    /\ w' = [w EXCEPT !.fpos = @ + Gap + Delta, !.data = DataAfterNext, !.new = NewValue]
    /\ UNCHANGED <<m_block_touch, stats, pc, p, ret>>

(***************************************************************************)
(* The loop of _write_append_new_to_old                                     *)
(***************************************************************************)
BaseData  == m_svf[w.start].data
BaseTouch == m_svf[w.start].block_touch

\* Line 370.  When the next block ends before fpos the difference wraps around
\* and all the remaining data is taken for an overlap.
AppendCheckAll == Len(DataAtNext)
AppendCheck == Lesser(Len(DataAtNext), SizeSub(AfterBlock(NextBlock), w.fpos + Gap))

\* Outcomes of memcmp(next, new, n) # 0.  Beyond the end of the next block the
\* bytes compared are not the block's: either outcome is possible.
AppendMemcmp ==
    IF AppendCheck <= Len(NextData)
    THEN {Take(NextData, AppendCheck) # Take(DataAtNext, AppendCheck)}
    ELSE BOOLEAN

\* The base block with the new data up to the next block.
GrownBase == BaseData \o Take(w.data, Gap)

\* Line 375 hands the base block to _throw_diff, so the byte that decides is the
\* first byte of the base block.
AppendThrows(differs) ==
    compare_for_diff /\ differs /\ DataAtNext[1] # GrownBase[1]

\* Does the loop go past line 361 to a next block?
ReachesNext ==
    /\ Following(w.start) # {}
    /\ DataAtNext # <<>> \/ w.fpos + Gap >= NextBlock

\* No block follows, or the data ends before it: append all that is left.
AppendRest ==
    /\ pc = "append_new_to_old"
    /\ w.data # <<>>
    /\ ~ReachesNext
    /\ m_svf' = With(m_svf, w.start, BaseData \o w.data, BaseTouch)
    /\ m_bytes_total' = m_bytes_total + Len(w.data)
    /\ w' = [w EXCEPT !.fpos = @ + Len(w.data), !.data = <<>>]
    /\ UNCHANGED <<m_block_touch, stats, pc, p, ret>>

\* The base block has already grown up to the next block when the exception is
\* thrown.
AppendThrow ==
    /\ pc = "append_new_to_old"
    /\ w.data # <<>> /\ ReachesNext
    /\ \E differs \in AppendMemcmp : AppendThrows(differs)
    /\ m_svf' = With(m_svf, w.start, GrownBase, BaseTouch)
    /\ m_bytes_total' = m_bytes_total + Gap
    /\ ThrowDiff
    /\ UNCHANGED <<m_block_touch, p>>

\* The next block is coalesced into the base block: the new data that falls on
\* it, then its own tail once the new data is exhausted.
AppendCoalesce ==
    /\ pc = "append_new_to_old"
    /\ w.data # <<>> /\ ReachesNext
    /\ \E differs \in AppendMemcmp : ~AppendThrows(differs)
    /\ LET n    == AppendCheck
           tail == IF n = Len(DataAtNext) THEN Drop(NextData, n) ELSE <<>>
           grown == GrownBase \o Take(DataAtNext, n) \o tail
       IN /\ m_svf' = With(Without(m_svf, NextBlock), w.start, grown, BaseTouch)
          /\ w' = [w EXCEPT !.fpos = @ + Gap + n, !.data = Drop(DataAtNext, n)]
    /\ m_bytes_total' = m_bytes_total + Gap
    /\ UNCHANGED <<m_block_touch, stats, pc, p, ret>>

\* The data is exhausted: touch the base block and finish write().
AppendEnd ==
    /\ pc = "append_new_to_old"
    /\ w.data = <<>>
    /\ m_svf' = With(m_svf, w.start, BaseData, m_block_touch)
    /\ m_block_touch' = NextTouch
    /\ EndWrite
    /\ UNCHANGED <<m_bytes_total, p>>

(***************************************************************************)
(* read(), erase(), clear(), lru_punt()                                     *)
(***************************************************************************)
\* read() succeeds: some block starts at or before fpos and holds the bytes
\* (line 525 adds in size_t).
CanRead(fpos, len) ==
    \E s \in Starts : /\ s <= fpos
                      /\ s = Locate(fpos)
                      /\ EndInSize(fpos - s, len) <= Len(m_svf[s].data)

read(fpos, len) ==
    /\ pc = "idle"
    /\ m_block_touch < MaxTouch
    /\ CanRead(fpos, len)
    /\ m_svf' = [m_svf EXCEPT ![Locate(fpos)].block_touch = m_block_touch]
    /\ m_block_touch' = NextTouch
    /\ stats' = [stats EXCEPT !["count_read"] = @ + 1, !["bytes_read"] = @ + len]
    /\ ret' = "ok"
    /\ UNCHANGED <<m_bytes_total, pc, w, p>>

readThrows(fpos, len) ==
    /\ pc = "idle"
    /\ ~CanRead(fpos, len)
    /\ ret' = "read"
    /\ UNCHANGED <<m_svf, m_bytes_total, m_block_touch, stats, pc, w, p>>

\* The state change of _erase_no_lock for a block that exists, with the number
\* of blocks punted by it.
_erase_no_lock(s, punted) ==
    LET n == Len(m_svf[s].data)
    IN /\ m_svf' = Without(m_svf, s)
       /\ m_bytes_total' = SizeSub(m_bytes_total, n)
       /\ stats' = [stats EXCEPT !["blocks_erased"] = @ + 1,
                                 !["bytes_erased"] = @ + n,
                                 !["blocks_punted"] = @ + punted]

erase(fpos) ==
    /\ pc = "idle"
    /\ fpos \in Starts
    /\ _erase_no_lock(fpos, 0)
    /\ ret' = "ok"
    /\ UNCHANGED <<m_block_touch, pc, w, p>>

eraseThrows(fpos) ==
    /\ pc = "idle"
    /\ fpos \notin Starts
    /\ ret' = "erase"
    /\ UNCHANGED <<m_svf, m_bytes_total, m_block_touch, stats, pc, w, p>>

clear ==
    /\ pc = "idle"
    /\ m_svf' = [s \in {} |-> 0]
    /\ m_bytes_total' = 0
    /\ m_block_touch' = 0
    /\ stats' = ZeroStats
    /\ ret' = "ok"
    /\ UNCHANGED <<pc, w, p>>

\* _block_touches_no_lock: of two blocks with one touch the later one stays.
block_touches_by_position == [s \in Starts |-> s]
block_touches ==
    [t \in {m_svf[s].block_touch : s \in Starts} |->
        Largest({s \in Starts : m_svf[s].block_touch = t})]

lru_punt(bound) ==
    /\ pc = "idle"
    /\ pc' = "lru_punt"
    /\ p' = [touches |-> block_touches, bound |-> bound, removed |-> 0]
    /\ ret' = "ok"
    /\ UNCHANGED <<m_svf, m_bytes_total, m_block_touch, stats, w>>

\* Line 1030 and 1033: is the cache too large, with a block to spare?
MustPuntLast(bound) == Cardinality(Starts) > 0 /\ m_bytes_total >= bound
MustPuntAbove(bound) == Cardinality(Starts) > 1 /\ m_bytes_total > bound
MustPunt(bound) == Cardinality(Starts) > 1 /\ m_bytes_total >= bound

PuntsMore == DOMAIN p.touches # {} /\ MustPunt(p.bound)

PuntBlockAgain ==
    /\ pc = "lru_punt"
    /\ PuntsMore
    /\ LET s == p.touches[Smallest(DOMAIN p.touches)]
       IN _erase_no_lock(s, 1) /\ p' = [p EXCEPT !.removed = @ + Len(m_svf[s].data)]
    /\ UNCHANGED <<m_block_touch, pc, w, ret>>

PuntBlock ==
    /\ pc = "lru_punt"
    /\ PuntsMore
    /\ LET t == Smallest(DOMAIN p.touches)
           s == p.touches[t]
       IN /\ _erase_no_lock(s, 1)
          /\ p' = [p EXCEPT !.touches = Without(@, t), !.removed = @ + Len(m_svf[s].data)]
    /\ UNCHANGED <<m_block_touch, pc, w, ret>>

PuntEnd ==
    /\ pc = "lru_punt"
    /\ ~PuntsMore
    /\ stats' = [stats EXCEPT !["bytes_punted"] = @ + p.removed]
    /\ pc' = "idle"
    /\ p' = NoPunt
    /\ UNCHANGED <<m_svf, m_bytes_total, m_block_touch, w, ret>>

(***************************************************************************)
(* Specification                                                            *)
(***************************************************************************)
Init ==
    /\ m_svf = [s \in {} |-> 0]
    /\ m_bytes_total = 0
    /\ m_block_touch = 0
    /\ stats = ZeroStats
    /\ pc = "idle"
    /\ w = NoWrite
    /\ p = NoPunt
    /\ ret = "ok"

\* A caller starts a method.
Call ==
    \/ \E f \in Files, fpos \in Pos : \E len \in MinLen .. MaxPos - fpos :
            write(fpos, Fetch(f, fpos, len))
    \/ \E fpos \in Pos : \E len \in 0 .. MaxPos - fpos :
            read(fpos, len) \/ readThrows(fpos, len)
    \/ \E fpos \in Pos : erase(fpos) \/ eraseThrows(fpos)
    \/ clear
    \/ \E bound \in 0 .. MaxBound : lru_punt(bound)

\* The method that holds the lock goes on.
Loop ==
    \/ NewAppendOldThrow \/ NewAppendOldTail \/ NewAppendOldRest \/ NewAppendOldContinue
    \/ AppendRest \/ AppendThrow \/ AppendCoalesce \/ AppendEnd
    \/ PuntBlock \/ PuntEnd

Next == Call \/ Loop

\* The method that holds the lock is scheduled until it returns.
Spec == Init /\ [][Next]_vars /\ WF_vars(Loop)

(***************************************************************************)
(* Properties                                                               *)
(***************************************************************************)

WriteFrame == [start : Nat, len : Nat, fpos : Nat, data : Seq(Byte),
               new : Seq(Byte), touch : Nat]

\* Type invariant.  While a write extends a block, or a punt runs, the block the
\* code's iterator points to is in the map.
TypeOK ==
    /\ Starts \subseteq Pos
    /\ \A s \in Starts : m_svf[s] \in Block
    /\ m_bytes_total \in Nat
    /\ m_block_touch \in 0 .. TouchMod - 1
    /\ stats \in [StatNames -> Nat]
    /\ pc \in {"idle", "new_append_old", "append_new_to_old", "lru_punt"}
    /\ w \in WriteFrame
    /\ DOMAIN p = {"touches", "bound", "removed"}
    /\ DOMAIN p.touches \subseteq Nat /\ p.bound \in Nat /\ p.removed \in Nat
    /\ \A t \in DOMAIN p.touches : p.touches[t] \in Starts
    /\ pc = "new_append_old" => w.start \in Pos /\ Following(w.start) # {}
    /\ pc = "append_new_to_old" => w.start \in Starts
    /\ ret \in {"ok", "diff", "read", "erase"}

\* No two blocks have the same touch and every touch is in the past, also the one
\* a write in progress has reserved: block_touches() then lists every block and
\* lru_punt() can find the oldest one (assert at svf.cpp:994).
TouchesDistinct ==
    /\ \A s \in Starts : m_svf[s].block_touch < m_block_touch
    /\ \A s, t \in Starts : s # t => m_svf[s].block_touch # m_svf[t].block_touch
    /\ pc = "new_append_old" =>
            /\ w.touch < m_block_touch
            /\ \A s \in Starts : m_svf[s].block_touch # w.touch

\* Between calls integrity() returns ERROR_NONE: no block is empty, adjacent to or
\* overlapping another, and m_bytes_total is the number of bytes held.
Integrity == pc = "idle" => integrity

\* Every byte held is the byte of the remote file at its position (all callers
\* write the same version of the file), so that no coalescing misplaces data.
HoldsFile ==
    \A f \in Files, s \in Starts : \A i \in 1 .. Len(m_svf[s].data) :
        s + i - 1 \in Pos /\ m_svf[s].data[i] = f[s + i - 1]

\* The positions of the bytes in the map.
HeldPos == UNION {s .. AfterBlock(s) - 1 : s \in Starts}

\* has() is true exactly of the ranges all of whose bytes are held, however the
\* bytes came in: a range is never split over two blocks.  It can be asked of any
\* range whose end a size_t can hold, far beyond the bytes that can be held.
HasIffHeld ==
    pc = "idle" => \A fpos \in Pos : \A len \in 1 .. SizeMod - 1 - fpos :
                        has(fpos, len) <=> fpos .. fpos + len - 1 \subseteq HeldPos

\* A write that grows a block compares, and takes for an overlap, no more bytes than
\* the next block has: the unsigned difference of line 371 has not wrapped around, and
\* memcmp does not read beyond the block.
ComparesInsideBlock ==
    pc = "append_new_to_old" /\ w.data # <<>> /\ ReachesNext => AppendCheck <= Len(NextData)

\* Bytes are counted once: the bytes held and the bytes erased were all written,
\* and what was punted is part of what was erased.
BytesAccounted ==
    pc = "idle" =>
        /\ m_bytes_total + stats["bytes_erased"] <= stats["bytes_write"]
        /\ stats["bytes_punted"] <= stats["bytes_erased"]
        /\ stats["blocks_punted"] <= stats["blocks_erased"]

\* lru_punt() removes the blocks in the order in which they were last touched:
\* the block removed was touched before every block that stays.
PuntsOldestFirst ==
    [][pc = "lru_punt" =>
        \A s \in Starts \ DOMAIN m_svf' : \A t \in DOMAIN m_svf' :
            m_svf[s].block_touch < m_svf[t].block_touch]_vars

\* When lru_punt() returns the cache is smaller than the bound or has one block
\* left, and it never removes the last block.
PuntReachesBound ==
    [][/\ pc = "lru_punt" /\ pc' = "idle" => m_bytes_total < p.bound \/ Cardinality(Starts) <= 1
       /\ pc = "lru_punt" /\ Starts # {} => DOMAIN m_svf' # {}]_vars

\* Every call returns: the coalescing loops and the punting loop terminate.
CallsReturn == pc # "idle" ~> pc = "idle"

\* What documentation and assertions claim and the code does not do ----------

\* "only new data up to this point will be written" (_cSVF.cpp:391): what a write
\* had copied before it found a difference is still held after it.
DiffKeepsHeldBytes ==
    [][pc = "new_append_old" /\ ret' = "diff" =>
        w.start .. w.start + Len(w.new) - 1 \subseteq HeldPos']_vars

\* Refinement ------------------------------------------------------------------

\* The bytes a caller can rely on: what is in the map, what a write in progress
\* has moved to its new block, and what it still has to store.
Held ==
    LET Moved   == w.start .. w.start + Len(w.new) - 1
        Pending == w.fpos .. w.fpos + Len(w.data) - 1
    IN [q \in HeldPos \cup Moved \cup Pending |->
            IF q \in Pending THEN w.data[q - w.fpos + 1]
            ELSE IF q \in Moved THEN w.new[q - w.start + 1]
            ELSE LET s == CHOOSE s \in Starts : q \in s .. AfterBlock(s) - 1
                 IN m_svf[s].data[q - s + 1]]

SF == INSTANCE SparseFile WITH held <- Held

\* The blocks, the coalescing and the counters implement the plain partial copy
\* of the file: a write stores its bytes at once, an erase or a punt drops whole
\* stretches, a read changes nothing.
ImplementsSparseFile == SF!Spec

=============================================================================
