------------------------ MODULE MCSparseVirtualFile ------------------------
(* Small instances of SparseVirtualFile for TLC. *)
EXTENDS SparseVirtualFile

\* A remote file whose bytes are all different, so that a misplaced byte shows.
MCFile == [q \in Pos |-> q]

MCOneFile == {MCFile}

\* The remote file has been rewritten: bytes 1 and 3 differ, and byte 3 of the new
\* version is byte 0 of both.
MCRewritten == [q \in Pos |-> IF q = 1 THEN 9 ELSE IF q = 3 THEN 0 ELSE q]

MCTwoFiles == {MCFile, MCRewritten}

=============================================================================
