----------------------------- MODULE MCSVFNeedCalls -----------------------------
(* Small instances of SVFNeedCalls for TLC. *)
EXTENDS SVFNeedCalls

MCOneFile == {[q \in Pos |-> q]}

=============================================================================
