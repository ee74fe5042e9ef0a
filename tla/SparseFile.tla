----------------------------- MODULE SparseFile -----------------------------
(***************************************************************************)
(* What a sparse virtual file promises its callers, without blocks: a       *)
(* partial copy of the remote file.  A stretch is a maximal run of          *)
(* positions that are held; erasing and punting remove whole stretches,     *)
(* which is what "blocks are coalesced where possible" means to a caller.   *)
(***************************************************************************)
EXTENDS Integers

CONSTANTS Byte, MaxPos, Files

VARIABLE held       \* file position -> byte, for the positions held

Positions == 0 .. MaxPos - 1

\* The bytes of file f at fpos .. fpos + len - 1 are stored.
Store(f, fpos, len) ==
    held' = [q \in DOMAIN held \cup (fpos .. fpos + len - 1) |->
                IF q \in fpos .. fpos + len - 1 THEN f[q] ELSE held[q]]

\* a .. b is a stretch: held throughout, and neither neighbour is held.
IsStretch(a, b) ==
    /\ a .. b \subseteq DOMAIN held
    /\ a - 1 \notin DOMAIN held
    /\ b + 1 \notin DOMAIN held

\* One stretch is dropped: erase(), or one block of lru_punt().
DropStretch(a, b) ==
    /\ IsStretch(a, b)
    /\ held' = [q \in DOMAIN held \ (a .. b) |-> held[q]]

\* Everything is dropped: clear().
DropAll == held' = [q \in {} |-> 0]

Init == held = [q \in {} |-> 0]

Next ==
    \/ \E f \in Files, fpos \in Positions : \E len \in 1 .. MaxPos - fpos : Store(f, fpos, len)
    \/ \E a \in Positions : \E b \in a .. MaxPos - 1 : DropStretch(a, b)
    \/ DropAll

Spec == Init /\ [][Next]_held

=============================================================================
