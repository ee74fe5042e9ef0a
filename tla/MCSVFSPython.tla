---------------------------- MODULE MCSVFSPython ----------------------------
(* Small instances of SVFSPython for TLC. *)
EXTENDS SVFSPython

CONSTANTS t1, t2, t3

\* One thread comes back once, to find what the others have left.
MCCalls == [t \in Thread |-> IF t = t1 THEN 2 ELSE 1]

=============================================================================
