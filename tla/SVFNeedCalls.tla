---------------------------- MODULE SVFNeedCalls ----------------------------
(***************************************************************************)
(* Calls of need() and need_many() on a sparse virtual file that holds any  *)
(* part of its file, and what their answers must be.                        *)
(***************************************************************************)
EXTENDS SVFNeed

CONSTANTS
    MaxGreedy,      \* bound: greedy lengths are 0 .. MaxGreedy
    MaxReads        \* bound: need_many() is asked for 1 .. MaxReads ranges

ASSUME GreedyAssumption == MaxGreedy \in Nat /\ MaxReads \in Nat

VARIABLE asked          \* the last call: its requests, greedy length and answer

needVars == <<vars, asked>>

(***************************************************************************)
(* Callers ask for anything of a file in any state it can be in between two *)
(* calls: any set of positions can be held, its stretches are the blocks.   *)
(***************************************************************************)
Requests == {r \in Pos \X (1 .. MaxPos) : r[1] + r[2] <= MaxPos}

\* The blocks of version f when exactly the positions S are held.
BlocksOf(S, f) ==
    LET End(s) == Smallest({e \in s .. MaxPos : e \notin S})
    IN [s \in {q \in S : q - 1 \notin S} |->
            [data |-> Fetch(f, s, End(s) - s), block_touch |-> s]]

NeedInit ==
    /\ \E f \in Files, S \in SUBSET Pos :
            m_svf = BlocksOf(S, f) /\ m_bytes_total = Cardinality(S)
    /\ m_block_touch = MaxPos
    /\ stats = ZeroStats /\ pc = "idle" /\ w = NoWrite /\ p = NoPunt /\ ret = "ok"
    /\ asked = [reads |-> <<>>, greedy |-> 0, answer |-> <<>>]

AskNeed(r, greedy) ==
    asked' = [reads |-> <<r>>, greedy |-> greedy, answer |-> need(r[1], r[2], greedy)]

AskNeedMany(reads, greedy) ==
    asked' = [reads |-> reads, greedy |-> greedy, answer |-> need_many(reads, greedy)]

NeedNext ==
    /\ asked.reads = <<>>
    /\ \/ \E r \in Requests, greedy \in 0 .. MaxGreedy : AskNeed(r, greedy)
       \/ \E n \in 1 .. MaxReads, greedy \in 0 .. MaxGreedy :
            \E reads \in [1 .. n -> Requests] : AskNeedMany(reads, greedy)
    /\ UNCHANGED vars

NeedSpec == NeedInit /\ [][NeedNext]_needVars

(***************************************************************************)
(* Properties                                                               *)
(***************************************************************************)
Piece(seek) == seek[1] .. EndOf(seek) - 1
Listed(reads) == UNION {Piece(reads[i]) : i \in DOMAIN reads}

\* In order, none empty, with at least one byte between two of them.
Apart(reads) ==
    /\ \A i \in DOMAIN reads : reads[i][2] > 0
    /\ \A i \in 1 .. Len(reads) - 1 : EndOf(reads[i]) < reads[i + 1][1]

Asked == asked.reads # <<>>
Wanted == Listed(asked.reads) \ HeldPos

\* need() and need_many() cover every byte asked for that is not held, in order
\* and in separate pieces, also when requests overlap, come unsorted or are greedy.
NeedCoversMissing == Asked => Wanted \subseteq Listed(asked.answer) /\ Apart(asked.answer)

\* Without a greedy length nothing more is listed than the bytes that are missing.
NeedIsMinimal == Asked /\ asked.greedy = 0 => Listed(asked.answer) = Wanted

\* need() of a range lists nothing if and only if has() is true of it, greedy or
\* not: nothing is fetched twice, and nothing that has() denies is forgotten.
NeedAgreesWithHas ==
    \A r \in Requests : asked.reads = <<r>> =>
        (has(r[1], r[2]) <=> asked.answer = <<>>)

\* Where the stretches of consecutive positions of S start.
StretchStarts(S) == {q \in S : q - 1 \notin S}

\* There are never more pieces than stretches of missing bytes, however requests
\* overlap and however greedy, and a greedy length that exceeds every request is
\* the least length of a piece.
GreedyReadsFewer ==
    Asked =>
        /\ Len(asked.answer) <= Cardinality(StretchStarts(Wanted))
        /\ (\A i \in DOMAIN asked.reads : asked.reads[i][2] < asked.greedy) =>
                \A i \in DOMAIN asked.answer : asked.answer[i][2] >= asked.greedy

=============================================================================
