------------------------------ MODULE SVFNeed ------------------------------
(***************************************************************************)
(* need() and need_many() of SparseVirtualFile: what has to be fetched so   *)
(* that a read can succeed, as lists of <<file position, length>>.  They    *)
(* change no state; the loops over the ordered map are folds over the       *)
(* sequence of its blocks.                                                  *)
(***************************************************************************)
EXTENDS SparseVirtualFile, SequencesExt

Larger(a, b) == IF a >= b THEN a ELSE b

(***************************************************************************)
(* _minimise_seek_reads                                                     *)
(***************************************************************************)
_amount_to_read_exact(len, greedy) == len
_amount_to_read(len, greedy) == Larger(len, greedy)

EndOf(seek) == seek[1] + seek[2]

\* Line 756: does the next seek start clear of the last one collected?
StartsClearOrTouches(seek, last) == seek[1] >= EndOf(last)
StartsClear(seek, last) == seek[1] > EndOf(last)

ExtendedNot(last, seek) == last
Extended(last, seek) == <<last[1], Larger(last[2], EndOf(seek) - last[1])>>

\* One more seek: a piece of its own, or the last piece grows over it.
Collect(new, seek, greedy) ==
    IF new = <<>> \/ StartsClear(seek, new[Len(new)])
    THEN Append(new, <<seek[1], _amount_to_read(seek[2], greedy)>>)
    ELSE [new EXCEPT ![Len(new)] = Extended(@, seek)]

_minimise_seek_reads(seek_reads, greedy) ==
    FoldLeft(LAMBDA new, seek : Collect(new, seek, greedy), <<>>, seek_reads)

(***************************************************************************)
(* _need_no_lock                                                            *)
(***************************************************************************)
\* The request before the walk: one that ends before the first block is listed, if it
\* is empty too; of any other the part that the block at or before its start holds is
\* dropped.
KeepHeldHead(fpos, len) == [fpos |-> fpos, len |-> len, need |-> <<>>]
DropHeldHead(fpos, len) ==
    LET last == IF Starts # {} /\ Locate(fpos) <= fpos THEN AfterBlock(Locate(fpos)) ELSE 0
    IN IF \A s \in Starts : fpos < s /\ fpos + len <= s
       THEN [fpos |-> fpos + len, len |-> 0, need |-> <<<<fpos, len>>>>]
       ELSE IF fpos < last
       THEN [fpos |-> Lesser(fpos + len, last), len |-> len - Lesser(len, last - fpos), need |-> <<>>]
       ELSE [fpos |-> fpos, len |-> len, need |-> <<>>]

\* The walk over the block that starts at first.
NeedStep(first, acc) ==
    LET end   == AfterBlock(first)
        gap   == IF acc.fpos < first THEN first - acc.fpos ELSE 0
        found == IF gap > 0 THEN Append(acc.need, <<acc.fpos, gap>>) ELSE acc.need
    IN IF acc.len = 0 THEN acc
       ELSE IF acc.fpos + acc.len <= first
       THEN [fpos |-> acc.fpos + acc.len, len |-> 0, need |-> Append(acc.need, <<acc.fpos, acc.len>>)]
       ELSE IF acc.fpos + acc.len <= end
       THEN [fpos |-> acc.fpos + acc.len, len |-> 0, need |-> found]
       ELSE [fpos |-> acc.fpos + gap + (end - first),
             len  |-> SizeSub(acc.len - gap, end - first),
             need |-> found]

\* The walk over all the blocks after fpos in map order: the largest comes last.
Walked(fpos, len) ==
    MapThenFoldSet(NeedStep, DropHeldHead(fpos, len), LAMBDA s : s, Largest, Following(fpos))

\* The list before it is made greedy.
Missing(fpos, len) ==
    LET walked == Walked(fpos, len)
    IN IF walked.len = 0 THEN walked.need
       ELSE Append(walked.need, <<walked.fpos, walked.len>>)

need(fpos, len, greedy) ==
    IF Starts = {} THEN <<<<fpos, Larger(greedy, len)>>>>
    ELSE LET missing == Missing(fpos, len)
         IN IF greedy > len /\ missing # <<>>
            THEN _minimise_seek_reads(missing, greedy)
            ELSE missing

\* std::sort on pairs: the same pairs in an order in which none is before the one
\* that precedes it.
ReadBefore(a, b) == a[1] < b[1] \/ (a[1] = b[1] /\ a[2] < b[2])
Sorted(reads) ==
    CHOOSE s \in {[i \in DOMAIN reads |-> reads[o[i]]] : o \in Bijection(DOMAIN reads, DOMAIN reads)} :
        \A i, j \in DOMAIN reads : i < j => ~ReadBefore(s[j], s[i])

\* What need() lists for each request, one after the other.
NeedOfEach(seek_reads) ==
    FoldLeft(LAMBDA all, r : all \o need(r[1], r[2], 0), <<>>, seek_reads)

need_many(seek_reads, greedy) ==
    LET sorted == Sorted(seek_reads)
    IN _minimise_seek_reads(IF Starts = {} THEN sorted ELSE NeedOfEach(sorted), greedy)

=============================================================================
