---------------------------- MODULE MCSVFClient ----------------------------
(* Small instances of SVFClient for TLC. *)
EXTENDS SVFClient

CONSTANTS c1, c2

MCOneFile == {[q \in Pos |-> q]}

MCGreedyOrNot == {0, 2}
MCNotGreedy == {0}

\* Every range that leaves room for a greedy read.
AnyDemand == {d \in Pos \X (1 .. MaxPos) :
                    \A g \in GreedyLengths : d[1] + d[2] + g <= MaxPos}

\* Four pages of two bytes: when the first and the last are held the third one starts
\* in a gap and reaches up to a block.
Pages == {<<0, 2>>, <<2, 2>>, <<4, 2>>, <<6, 2>>}

\* Clients that demand anything, nobody punts.
MCAnyDemand == {[clients |-> Client, demands |-> AnyDemand, punting |-> {}]}

\* Two clients that demand pages and nobody who punts, or one client that demands
\* anything in the first five bytes and a thread that punts.
MCPagesOrPunting ==
    {[clients |-> Client, demands |-> Pages, punting |-> {}],
     [clients |-> {c1}, demands |-> {d \in AnyDemand : d[1] + d[2] <= 5}, punting |-> {0, 2}]}

MCSymmetry == Permutations(Client)

=============================================================================
