---------------------------- MODULE MCSVFPython ----------------------------
(* Small instances of SVFPython for TLC. *)
EXTENDS SVFPython

CONSTANTS t1, t2

MCOneFile == {[q \in Pos |-> q]}

\* The remote file, and the one that takes its place.
MCTwoFiles == {[q \in Pos |-> q], [q \in Pos |-> q + MaxPos]}

\* One thread makes most of the calls, the other comes in between them.
MCCalls == [t \in Thread |-> IF t = t1 THEN 4 ELSE 1]

\* One thread writes two blocks and makes a pickle, the other removes a block and
\* writes another one.
MCTwoCalls == [t \in Thread |-> IF t = t1 THEN 3 ELSE 2]

=============================================================================
