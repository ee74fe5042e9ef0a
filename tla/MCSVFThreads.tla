---------------------------- MODULE MCSVFThreads ----------------------------
(* Small instances of SVFThreads for TLC. *)
EXTENDS SVFThreads

CONSTANTS t1, t2

MCOneFile == {[q \in Pos |-> q]}

=============================================================================
