---------------------- MODULE SparseVirtualFileProofs ----------------------
(***************************************************************************)
(* Theorems about SparseVirtualFile, for every value of its constants.      *)
(***************************************************************************)
EXTENDS SparseVirtualFile, TLAPS, FiniteSetTheorems, SequenceTheorems, WellFoundedInduction

(***************************************************************************)
(* Smallest and largest elements                                            *)
(***************************************************************************)
LEMMA SmallestIn ==
    ASSUME NEW S, S \subseteq Nat, S # {}
    PROVE  Smallest(S) \in S /\ \A y \in S : Smallest(S) <= y
<1>1. IsWellFoundedOn(OpToRel(<, Nat), Nat)
  BY NatLessThanWellFounded
<1>2. PICK x \in S : \A y \in S : ~(<<y, x>> \in OpToRel(<, Nat))
  BY <1>1, WFMin
<1>3. \A y \in S : ~(y < x)
  BY <1>2 DEF OpToRel
<1>4. \A y \in S : x <= y
  BY <1>3
<1> QED
  BY <1>4 DEF Smallest

LEMMA LargestIn ==
    ASSUME NEW S, S # {}, NEW n \in Nat, S \subseteq 0 .. n
    PROVE  Largest(S) \in S /\ \A y \in S : y <= Largest(S)
<1> DEFINE T == {n - x : x \in S}
<1>0. \A x \in S : x \in 0 .. n /\ n - x \in Nat
  OBVIOUS
<1>1. T \subseteq Nat /\ T # {}
  BY <1>0
<1>2. Smallest(T) \in T /\ \A y \in T : Smallest(T) <= y
  BY <1>1, SmallestIn
<1>3. PICK x \in S : Smallest(T) = n - x
  BY <1>2
<1>4. \A y \in S : n - x <= n - y
  BY <1>2, <1>3
<1>5. \A y \in S : y <= x
  BY <1>0, <1>4
<1> QED
  BY <1>5 DEF Largest

\* Induction on the smallest counterexample.
LEMMA UpTo ==
    ASSUME NEW n \in Nat, NEW T, 0 \in T, \A i \in 0 .. n - 1 : i \in T => i + 1 \in T
    PROVE  \A i \in 0 .. n : i \in T
<1> DEFINE S == {i \in 0 .. n : i \notin T}
<1> SUFFICES ASSUME S # {} PROVE FALSE
  OBVIOUS
<1>1. Smallest(S) \in S /\ \A y \in S : Smallest(S) <= y
  BY SmallestIn
<1> DEFINE x == Smallest(S)
<1>2. x \in 0 .. n /\ x \notin T /\ x # 0
  BY <1>1
<1>3. x - 1 \in 0 .. n - 1 /\ x - 1 \notin S
  BY <1>1, <1>2
<1> HIDE DEF x
<1>4. x - 1 \in T
  BY <1>3
<1> QED
  BY <1>2, <1>3, <1>4

\* A property of {} that passes from a set without its largest element to the set
\* holds of every set.
LEMMA LargestLast ==
    ASSUME NEW n \in Nat, NEW D, D \subseteq 0 .. n, NEW G, {} \in G,
           \A s \in SUBSET D : s # {} /\ s \ {Largest(s)} \in G => s \in G
    PROVE  \A s \in SUBSET D : s \in G
<1> DEFINE Below(k) == {x \in D : x < k}
           T == {k \in 0 .. n + 1 : SUBSET Below(k) \subseteq G}
<1>1. 0 \in T
  <2>1. \A x \in D : ~(x < 0)
    OBVIOUS
  <2>2. Below(0) = {}
    BY <2>1
  <2> QED
    BY <2>2
<1>2. ASSUME NEW k \in 0 .. n, k \in T
      PROVE  k + 1 \in T
  <2>1. ASSUME NEW s \in SUBSET Below(k + 1), s # {} PROVE s \in G
    <3>1. s \subseteq 0 .. n /\ \A x \in s : x < k + 1
      BY <2>1
    <3>2. Largest(s) \in s /\ \A y \in s : y <= Largest(s)
      BY <2>1, <3>1, LargestIn
    <3>3. \A y \in s : y \in Nat /\ y < k + 1
      BY <3>1
    <3> DEFINE z == Largest(s)
    <3> HIDE DEF z, T, Below
    <3>4. \A y \in s \ {z} : y < k
      <4> SUFFICES ASSUME NEW y \in s, y # z PROVE y < k
        OBVIOUS
      <4>1. y \in Nat /\ z \in Nat /\ y <= z /\ z < k + 1
        BY <3>2, <3>3 DEF z
      <4>2. k \in Nat
        OBVIOUS
      <4> QED
        BY <4>1, <4>2
    <3>5. s \ {Largest(s)} \in SUBSET Below(k)
      BY <3>4 DEF z, Below
    <3>6. s \ {Largest(s)} \in G
      BY <1>2, <3>5 DEF T
    <3> QED
      BY <2>1, <3>6 DEF Below
  <2> QED
    BY <2>1
<1>3. n + 1 \in T
  <2> HIDE DEF T
  <2>1. \A k \in 0 .. (n + 1) - 1 : k \in T => k + 1 \in T
    BY <1>2
  <2> QED
    BY <1>1, <2>1, UpTo
<1>4. D \subseteq Below(n + 1)
  OBVIOUS
<1> QED
  BY <1>3, <1>4

(***************************************************************************)
(* Sequences of bytes                                                       *)
(***************************************************************************)
LEMMA TakeType ==
    ASSUME NEW d \in Seq(Byte), NEW n \in 0 .. Len(d)
    PROVE  /\ Take(d, n) \in Seq(Byte)
           /\ Len(Take(d, n)) = n
           /\ \A i \in 1 .. n : Take(d, n)[i] = d[i]
<1>1. n \in Nat /\ Len(d) \in Nat
  BY LenProperties
<1>2. \A i \in 1 .. n : d[i] \in Byte
  BY <1>1, ElementOfSeq
<1>3. /\ SubSeq(d, 1, n) \in Seq(Byte)
      /\ Len(SubSeq(d, 1, n)) = IF 1 <= n THEN n - 1 + 1 ELSE 0
      /\ \A i \in 1 .. n - 1 + 1 : SubSeq(d, 1, n)[i] = d[1 + i - 1]
  BY <1>1, <1>2, SubSeqProperties
<1> QED
  BY <1>1, <1>3 DEF Take

LEMMA DropType ==
    ASSUME NEW d \in Seq(Byte), NEW n \in Nat
    PROVE  /\ Drop(d, n) \in Seq(Byte)
           /\ Len(Drop(d, n)) = IF n <= Len(d) THEN Len(d) - n ELSE 0
           /\ \A i \in 1 .. Len(d) - n : Drop(d, n)[i] = d[n + i]
<1>1. Len(d) \in Nat
  BY LenProperties
<1>2. \A i \in n + 1 .. Len(d) : d[i] \in Byte
  BY <1>1, ElementOfSeq
<1>3. /\ SubSeq(d, n + 1, Len(d)) \in Seq(Byte)
      /\ Len(SubSeq(d, n + 1, Len(d))) = IF n + 1 <= Len(d) THEN Len(d) - (n + 1) + 1 ELSE 0
      /\ \A i \in 1 .. Len(d) - (n + 1) + 1 : SubSeq(d, n + 1, Len(d))[i] = d[n + 1 + i - 1]
  BY <1>1, <1>2, SubSeqProperties
<1> QED
  BY <1>1, <1>3 DEF Drop

LEMMA ConcatType ==
    ASSUME NEW d \in Seq(Byte), NEW e \in Seq(Byte)
    PROVE  /\ d \o e \in Seq(Byte)
           /\ Len(d \o e) = Len(d) + Len(e)
           /\ \A i \in 1 .. Len(d) + Len(e) :
                (d \o e)[i] = IF i <= Len(d) THEN d[i] ELSE e[i - Len(d)]
BY ConcatProperties

LEMMA FetchType ==
    ASSUME NEW f \in Files, NEW fpos \in Pos, NEW len \in 0 .. MaxPos - fpos
    PROVE  /\ Fetch(f, fpos, len) \in Seq(Byte)
           /\ Len(Fetch(f, fpos, len)) = len
           /\ \A i \in 1 .. len : Fetch(f, fpos, len)[i] = f[fpos + i - 1]
<1>1. f \in [Pos -> Byte] /\ len \in Nat
  BY FilesAssumption, BoundsAssumption DEF Pos
<1>2. \A i \in 1 .. len : fpos + i - 1 \in Pos
  BY BoundsAssumption DEF Pos
<1>3. Fetch(f, fpos, len) \in [1 .. len -> Byte]
  BY <1>1, <1>2 DEF Fetch
<1>4. Fetch(f, fpos, len) \in Seq(Byte)
  BY <1>1, <1>3, SeqDef
<1>5. Len(Fetch(f, fpos, len)) = len
  BY <1>1, <1>3, <1>4, LenProperties
<1> QED
  BY <1>4, <1>5 DEF Fetch

(***************************************************************************)
(* The map                                                                  *)
(***************************************************************************)
BlocksOK(m) == DOMAIN m \subseteq Pos /\ \A s \in DOMAIN m : m[s] \in Block

LEMMA WithType ==
    ASSUME NEW m, BlocksOK(m), NEW s \in Pos, NEW d \in Seq(Byte), NEW t \in Nat
    PROVE  /\ BlocksOK(With(m, s, d, t))
           /\ DOMAIN With(m, s, d, t) = DOMAIN m \cup {s}
           /\ s \in DOMAIN With(m, s, d, t)
BY DEF BlocksOK, With, Block

LEMMA WithoutType ==
    ASSUME NEW m, BlocksOK(m), NEW s
    PROVE  /\ BlocksOK(Without(m, s))
           /\ DOMAIN Without(m, s) = DOMAIN m \ {s}
           /\ \A u \in DOMAIN m \ {s} : Without(m, s)[u] = m[u]
BY DEF BlocksOK, Without

LEMMA BlockType ==
    ASSUME BlocksOK(m_svf), NEW s \in Starts
    PROVE  /\ s \in Nat
           /\ m_svf[s].data \in Seq(Byte)
           /\ Len(m_svf[s].data) \in Nat
           /\ m_svf[s].block_touch \in Nat
           /\ AfterBlock(s) \in Nat
           /\ AfterBlock(s) = s + Len(m_svf[s].data)
<1>1. s \in Nat /\ m_svf[s] \in Block
  BY BoundsAssumption DEF BlocksOK, Starts, Pos
<1>2. m_svf[s].data \in Seq(Byte) /\ m_svf[s].block_touch \in Nat
  BY <1>1 DEF Block
<1>3. Len(m_svf[s].data) \in Nat
  BY <1>2, LenProperties
<1> QED
  BY <1>1, <1>2, <1>3 DEF AfterBlock

\* Locate finds a block of the map, the last one that starts at or before fpos if
\* there is one, otherwise the first of all.
LEMMA LocateType ==
    ASSUME BlocksOK(m_svf), Starts # {}, NEW fpos \in Nat
    PROVE  /\ Locate(fpos) \in Starts
           /\ Locate(fpos) <= fpos => \A s \in Starts : s <= fpos => s <= Locate(fpos)
           /\ Locate(fpos) > fpos => \A s \in Starts : Locate(fpos) <= s
<1>1. Starts \subseteq Nat
  BY BoundsAssumption DEF BlocksOK, Starts, Pos
<1> DEFINE Before == {s \in Starts : s <= fpos}
<1>2. CASE \E s \in Starts : s <= fpos
  <2>0. \A s \in Before : s \in Starts /\ s \in Nat /\ s <= fpos
    BY <1>1
  <2>1. Before # {} /\ Before \subseteq 0 .. fpos
    <3>1. Before # {}
      BY <1>2
    <3> QED
      BY <2>0, <3>1
  <2>2. Largest(Before) \in Before /\ \A s \in Before : s <= Largest(Before)
    BY <2>1, LargestIn
  <2>3. Locate(fpos) = Largest(Before)
    BY <1>2 DEF Locate
  <2>4. \A s \in Starts : s <= fpos => s \in Before
    OBVIOUS
  <2>5. Locate(fpos) \in Before /\ \A s \in Before : s <= Locate(fpos)
    BY <2>2, <2>3
  <2> HIDE DEF Before
  <2> QED
    BY <1>1, <2>0, <2>4, <2>5
<1>3. CASE ~ \E s \in Starts : s <= fpos
  <2>1. Smallest(Starts) \in Starts /\ \A s \in Starts : Smallest(Starts) <= s
    BY <1>1, SmallestIn
  <2>2. Locate(fpos) = Smallest(Starts)
    BY <1>3 DEF Locate
  <2> QED
    BY <1>1, <1>3, <2>1, <2>2
<1> QED
  BY <1>2, <1>3

\* A loop's next block is the first of the blocks after the one being built.
LEMMA NextBlockType ==
    ASSUME BlocksOK(m_svf), Following(w.start) # {}
    PROVE  /\ NextBlock \in Starts
           /\ NextBlock > w.start
           /\ \A s \in Following(w.start) : NextBlock <= s
<1>1. Following(w.start) \subseteq Nat
  BY BoundsAssumption DEF BlocksOK, Starts, Pos, Following
<1>2. /\ NextBlock \in Following(w.start)
      /\ \A s \in Following(w.start) : NextBlock <= s
  BY <1>1, SmallestIn DEF NextBlock
<1> QED
  BY <1>2 DEF Following

(***************************************************************************)
(* Type correctness.  TypeOK alone is not inductive: PuntBlock needs to     *)
(* know that two entries of p.touches are two different blocks, which they  *)
(* are because each entry leads to the block with that touch.               *)
(***************************************************************************)
PuntFrameOK ==
    /\ pc # "lru_punt" => p = NoPunt
    /\ \A t \in DOMAIN p.touches : m_svf[p.touches[t]].block_touch = t

TypeInv == TypeOK /\ PuntFrameOK

LEMMA TypeInvBlocks == TypeInv => BlocksOK(m_svf)
BY DEF TypeInv, TypeOK, BlocksOK, Starts

LEMMA CountersType ==
    ASSUME TypeInv
    PROVE  /\ NextTouch \in 0 .. TouchMod - 1
           /\ m_block_touch \in Nat
           /\ \A n \in Nat : SizeSub(m_bytes_total, n) \in Nat
<1>1. m_block_touch \in 0 .. TouchMod - 1 /\ m_bytes_total \in Nat
  BY DEF TypeInv, TypeOK
<1>2. \A n \in Nat : m_bytes_total - n \in Int /\ SizeMod \in Nat \ {0}
  BY <1>1, BoundsAssumption
<1> QED
  BY <1>1, <1>2, BoundsAssumption DEF NextTouch, SizeSub

LEMMA TypeInit == Init => TypeInv
<1> SUFFICES ASSUME Init PROVE TypeInv
  OBVIOUS
<1>1. ZeroStats \in [StatNames -> Nat]
  BY DEF ZeroStats
<1>2. NoWrite \in WriteFrame
  BY DEF NoWrite, WriteFrame
<1>3. /\ DOMAIN NoPunt = {"touches", "bound", "removed"}
      /\ NoPunt.bound = 0 /\ NoPunt.removed = 0 /\ DOMAIN NoPunt.touches = {}
  BY DEF NoPunt
<1> QED
  BY <1>1, <1>2, <1>3, BoundsAssumption
  DEF Init, TypeInv, TypeOK, PuntFrameOK, Starts

\* Between calls no punt is in progress.
LEMMA IdlePunt ==
    ASSUME TypeInv, pc # "lru_punt"
    PROVE  /\ p = NoPunt
           /\ DOMAIN p = {"touches", "bound", "removed"}
           /\ DOMAIN p.touches = {} /\ p.bound \in Nat /\ p.removed \in Nat
BY DEF TypeInv, TypeOK, PuntFrameOK, NoPunt

LEMMA CountWriteType ==
    ASSUME TypeInv, NEW n \in Nat, CountWrite(n)
    PROVE  stats' \in [StatNames -> Nat]
BY DEF TypeInv, TypeOK, CountWrite, StatNames

LEMMA TypeWrite ==
    ASSUME TypeInv, NEW fpos \in Pos, NEW data \in Seq(Byte), write(fpos, data)
    PROVE  TypeInv'
<1>1. /\ fpos \in Nat /\ Len(data) \in Nat
      /\ BlocksOK(m_svf) /\ pc = "idle"
  BY TypeInvBlocks, LenProperties, BoundsAssumption DEF write, Pos
<1>2. /\ p = NoPunt /\ DOMAIN p = {"touches", "bound", "removed"}
      /\ DOMAIN p.touches = {} /\ p.bound \in Nat /\ p.removed \in Nat
  BY <1>1, IdlePunt
<1>3. CASE _write_new_block(fpos, data)
  <2>1. /\ m_svf' = With(m_svf, fpos, data, m_block_touch)
        /\ m_block_touch' = NextTouch
        /\ m_bytes_total' = m_bytes_total + Len(data)
        /\ CountWrite(Len(data)) /\ ret' = "ok" /\ UNCHANGED <<pc, w, p>>
    BY <1>3 DEF _write_new_block
  <2>2. BlocksOK(m_svf')
    BY <1>1, <2>1, CountersType, WithType
  <2>3. stats' \in [StatNames -> Nat]
    BY <1>1, <2>1, CountWriteType
  <2>4. m_bytes_total' \in Nat /\ m_block_touch' \in 0 .. TouchMod - 1
    BY <1>1, <2>1, CountersType DEF TypeInv, TypeOK
  <2>5. TypeOK'
    BY <1>1, <1>2, <2>1, <2>2, <2>3, <2>4 DEF TypeInv, TypeOK, BlocksOK, Starts
  <2> QED
    BY <1>2, <2>1, <2>5 DEF TypeInv, PuntFrameOK
<1>4. CASE /\ ~IsNewBlock(fpos, Len(data)) /\ Locate(fpos) > fpos
           /\ BeginNewAppendOld(fpos, data)
  <2>1. Locate(fpos) \in Following(fpos)
    BY <1>1, <1>4, LocateType DEF IsNewBlock, Following
  <2>2. /\ pc' = "new_append_old" /\ ret' = "ok" /\ m_block_touch' = NextTouch
        /\ w' = [start |-> fpos, len |-> Len(data), fpos |-> fpos, data |-> data,
                 new |-> <<>>, touch |-> m_block_touch]
        /\ UNCHANGED <<m_svf, m_bytes_total, stats, p>>
    BY <1>4 DEF BeginNewAppendOld
  <2>3. w' \in WriteFrame /\ w'.start = fpos
    BY <1>1, <2>2, CountersType, EmptySeq DEF WriteFrame
  <2>4. Following(w.start)' # {}
    BY <2>1, <2>2, <2>3 DEF Following, Starts
  <2> QED
    BY <1>1, <1>2, <2>2, <2>3, <2>4, CountersType
    DEF TypeInv, TypeOK, PuntFrameOK, Starts
<1>5. CASE /\ ~IsNewBlock(fpos, Len(data)) /\ ~(Locate(fpos) > fpos)
           /\ BeginAppendNewToOld(Locate(fpos), fpos, data)
  <2> DEFINE base == Locate(fpos)
             old  == m_svf[base].data
             idx  == fpos - base
             n    == Lesser(Len(data), Len(old) - idx)
             diff == Take(data, n) # SubSeq(old, idx + 1, idx + n)
  <2>1. base \in Starts /\ ~BeyondBlock(fpos, base)
    BY <1>1, <1>5, LocateType, BlockType, SMTT(30) DEF IsNewBlock
  <2>2. /\ base \in Nat /\ base <= fpos /\ Len(old) \in Nat
        /\ fpos <= base + Len(old)
    BY <1>1, <1>5, <2>1, BlockType DEF BeyondBlock
  <2>3. n \in Nat
    BY <1>1, <2>2 DEF Lesser
  <2>4. UNCHANGED <<m_svf, m_bytes_total, m_block_touch, stats, p>>
    BY <1>5 DEF BeginAppendNewToOld
  <2>5. CASE ret' = "diff" /\ UNCHANGED <<pc, w>>
    BY <1>1, <1>2, <2>4, <2>5 DEF TypeInv, TypeOK, PuntFrameOK, Starts
  <2>6. CASE /\ pc' = "append_new_to_old" /\ ret' = "ok"
             /\ w' = [start |-> base, len |-> Len(data), fpos |-> fpos + n,
                      data |-> Drop(data, n), new |-> <<>>, touch |-> 0]
    <3> HIDE DEF n, base
    <3>0. Drop(data, n) \in Seq(Byte) /\ <<>> \in Seq(Byte) /\ fpos + n \in Nat
      <4>1. Drop(data, n) \in Seq(Byte)
        BY <2>3, DropType
      <4>2. fpos + n \in Nat
        BY <1>1, <2>3
      <4> QED
        BY <4>1, <4>2, EmptySeq
    <3>1. w' \in WriteFrame /\ w'.start = base
      BY <1>1, <2>2, <2>6, <3>0 DEF WriteFrame
    <3> QED
      BY <1>1, <1>2, <2>1, <2>4, <2>6, <3>1 DEF TypeInv, TypeOK, PuntFrameOK, Starts
  <2>7. \/ ret' = "diff" /\ UNCHANGED <<pc, w>>
        \/ /\ pc' = "append_new_to_old" /\ ret' = "ok"
           /\ w' = [start |-> base, len |-> Len(data), fpos |-> fpos + n,
                    data |-> Drop(data, n), new |-> <<>>, touch |-> 0]
    BY <1>5 DEF BeginAppendNewToOld
  <2> QED
    BY <2>5, <2>6, <2>7
<1> QED
  BY <1>3, <1>4, <1>5 DEF write

(***************************************************************************)
(* One iteration of either coalescing loop                                  *)
(***************************************************************************)
LEMMA FrameType ==
    ASSUME TypeInv
    PROVE  /\ w.start \in Nat /\ w.len \in Nat /\ w.fpos \in Nat /\ w.touch \in Nat
           /\ w.data \in Seq(Byte) /\ w.new \in Seq(Byte)
           /\ Len(w.data) \in Nat /\ Len(w.new) \in Nat
<1>1. w \in WriteFrame
  BY DEF TypeInv, TypeOK
<1>2. /\ w.start \in Nat /\ w.len \in Nat /\ w.fpos \in Nat /\ w.touch \in Nat
      /\ w.data \in Seq(Byte) /\ w.new \in Seq(Byte)
  BY <1>1 DEF WriteFrame
<1> QED
  BY <1>2, LenProperties

LEMMA IterationType ==
    ASSUME TypeInv, Following(w.start) # {}
    PROVE  /\ NextBlock \in Starts /\ NextBlock \in Nat /\ NextBlock > w.start
           /\ \A s \in Following(w.start) : NextBlock <= s
           /\ NextData \in Seq(Byte) /\ Len(NextData) \in Nat
           /\ Gap \in 0 .. Len(w.data)
           /\ DataAtNext \in Seq(Byte) /\ Len(DataAtNext) = Len(w.data) - Gap
<1>1. BlocksOK(m_svf)
  BY TypeInvBlocks
<1>2. /\ NextBlock \in Starts /\ NextBlock > w.start
      /\ \A s \in Following(w.start) : NextBlock <= s
  BY <1>1, NextBlockType
<1>3. NextBlock \in Nat /\ NextData \in Seq(Byte) /\ Len(NextData) \in Nat
  BY <1>1, <1>2, BlockType DEF NextData
<1>4. Gap \in 0 .. Len(w.data)
  BY <1>3, FrameType DEF Gap, Lesser
<1>5. DataAtNext \in Seq(Byte) /\ Len(DataAtNext) = Len(w.data) - Gap
  <2>1. Gap \in Nat /\ Gap <= Len(w.data) /\ Len(w.data) \in Nat
    BY <1>4, FrameType
  <2>2. /\ Drop(w.data, Gap) \in Seq(Byte)
        /\ Len(Drop(w.data, Gap)) = IF Gap <= Len(w.data) THEN Len(w.data) - Gap ELSE 0
    BY <2>1, FrameType, DropType
  <2> QED
    BY <2>1, <2>2 DEF DataAtNext
<1> QED
  BY <1>2, <1>3, <1>4, <1>5

LEMMA NewAppendOldType ==
    ASSUME TypeInv, pc = "new_append_old"
    PROVE  /\ Following(w.start) # {} /\ w.start \in Pos
           /\ Gap \in Nat /\ Delta \in Nat /\ Len(DataAfterNext) \in Nat
           /\ Delta \in 0 .. Len(DataAtNext) /\ Delta <= Len(NextData)
           /\ DataAfterNext \in Seq(Byte) /\ Len(DataAfterNext) = Len(DataAtNext) - Delta
           /\ NewValue \in Seq(Byte) /\ Len(NewValue) = Len(w.new) + (Gap + Delta)
           /\ NextTail \in Seq(Byte) /\ Len(NextTail) = Len(NextData) - Delta
<1>1. Following(w.start) # {} /\ w.start \in Pos
  BY DEF TypeInv, TypeOK
<1>2. /\ Len(w.data) \in Nat /\ Gap \in Nat /\ Len(DataAtNext) \in Nat
      /\ Len(w.data) = Gap + Len(DataAtNext) /\ Len(NextData) \in Nat
  <2>1. /\ Gap \in 0 .. Len(w.data) /\ Len(NextData) \in Nat
        /\ Len(DataAtNext) = Len(w.data) - Gap
    BY <1>1, IterationType
  <2>2. Len(w.data) \in Nat
    BY FrameType
  <2> QED
    BY <2>1, <2>2
<1>3. Delta \in 0 .. Len(DataAtNext) /\ Delta \in Nat /\ Delta <= Len(NextData)
  BY <1>2 DEF Delta, Lesser
<1>4. /\ DataAfterNext \in Seq(Byte) /\ Len(DataAfterNext) = Len(DataAtNext) - Delta
      /\ NextTail \in Seq(Byte) /\ Len(NextTail) = Len(NextData) - Delta
  BY <1>1, <1>2, <1>3, DropType, IterationType DEF DataAfterNext, NextTail
<1>5. Len(DataAfterNext) \in Nat
  BY <1>4, LenProperties
<1>6. NewValue \in Seq(Byte) /\ Len(NewValue) = Len(w.new) + (Gap + Delta)
  <2>1. Gap + Delta \in 0 .. Len(w.data)
    BY <1>2, <1>3
  <2>2. Take(w.data, Gap + Delta) \in Seq(Byte) /\ Len(Take(w.data, Gap + Delta)) = Gap + Delta
    BY <2>1, FrameType, TakeType
  <2>3. /\ w.new \o Take(w.data, Gap + Delta) \in Seq(Byte)
        /\ Len(w.new \o Take(w.data, Gap + Delta)) = Len(w.new) + (Gap + Delta)
    BY <2>2, FrameType, ConcatType
  <2> QED
    BY <2>3, Zenon DEF NewValue
<1> QED
  BY <1>1, <1>2, <1>3, <1>4, <1>5, <1>6

LEMMA ThrowDiffType ==
    ASSUME TypeInv, ThrowDiff, pc # "lru_punt", UNCHANGED p,
           BlocksOK(m_svf'), m_bytes_total' \in Nat, m_block_touch' \in 0 .. TouchMod - 1
    PROVE  TypeInv'
<1>1. NoWrite \in WriteFrame
  BY DEF NoWrite, WriteFrame
<1>2. /\ DOMAIN p = {"touches", "bound", "removed"}
      /\ p = NoPunt /\ DOMAIN p.touches = {} /\ p.bound \in Nat /\ p.removed \in Nat
  BY IdlePunt
<1>3. /\ ret' = "diff" /\ pc' = "idle" /\ w' = NoWrite
      /\ stats' = stats /\ stats \in [StatNames -> Nat]
  BY DEF ThrowDiff, TypeInv, TypeOK
<1>4. TypeOK'
  BY <1>1, <1>2, <1>3 DEF TypeOK, BlocksOK, Starts
<1> QED
  BY <1>2, <1>3, <1>4 DEF TypeInv, PuntFrameOK

LEMMA EndWriteType ==
    ASSUME TypeInv, EndWrite, pc # "lru_punt", UNCHANGED p,
           BlocksOK(m_svf'), m_bytes_total' \in Nat, m_block_touch' \in 0 .. TouchMod - 1
    PROVE  TypeInv'
<1>1. NoWrite \in WriteFrame
  BY DEF NoWrite, WriteFrame
<1>2. /\ DOMAIN p = {"touches", "bound", "removed"}
      /\ p = NoPunt /\ DOMAIN p.touches = {} /\ p.bound \in Nat /\ p.removed \in Nat
  BY IdlePunt
<1>3. /\ ret' = "ok" /\ pc' = "idle" /\ w' = NoWrite /\ stats' \in [StatNames -> Nat]
  BY FrameType, CountWriteType DEF EndWrite
<1>4. TypeOK'
  BY <1>1, <1>2, <1>3 DEF TypeOK, BlocksOK, Starts
<1> QED
  BY <1>2, <1>3, <1>4 DEF TypeInv, PuntFrameOK

LEMMA TypeNewAppendOld ==
    ASSUME TypeInv,
           \/ NewAppendOldThrow \/ NewAppendOldTail
           \/ NewAppendOldRest \/ NewAppendOldContinue
    PROVE  TypeInv'
<1>1. pc = "new_append_old" /\ BlocksOK(m_svf)
  BY TypeInvBlocks
  DEF NewAppendOldThrow, NewAppendOldTail, NewAppendOldRest, NewAppendOldContinue
<1>2. /\ m_bytes_total \in Nat /\ m_block_touch \in 0 .. TouchMod - 1
      /\ Gap \in Nat /\ Len(DataAfterNext) \in Nat /\ w.touch \in Nat /\ w.start \in Pos
      /\ NewValue \in Seq(Byte) /\ DataAfterNext \in Seq(Byte) /\ NextTail \in Seq(Byte)
  <2>1. m_bytes_total \in Nat /\ m_block_touch \in 0 .. TouchMod - 1
    BY DEF TypeInv, TypeOK
  <2> QED
    BY <1>1, <2>1, NewAppendOldType, FrameType
<1>3. /\ BlocksOK(Without(m_svf, NextBlock))
      /\ \A d \in Seq(Byte) : BlocksOK(With(Without(m_svf, NextBlock), w.start, d, w.touch))
  BY <1>1, <1>2, WithoutType, WithType
<1>4. CASE NewAppendOldThrow
  <2>1. /\ m_bytes_total' = m_bytes_total + Gap /\ ThrowDiff
        /\ UNCHANGED <<m_svf, m_block_touch, p>>
    BY <1>4 DEF NewAppendOldThrow
  <2>2. m_bytes_total' \in Nat /\ BlocksOK(m_svf') /\ m_block_touch' \in 0 .. TouchMod - 1
    BY <1>1, <1>2, <2>1
  <2> QED
    BY <1>1, <2>1, <2>2, ThrowDiffType
<1>5. CASE NewAppendOldTail
  <2>1. /\ m_svf' = With(Without(m_svf, NextBlock), w.start, NewValue \o NextTail, w.touch)
        /\ m_bytes_total' = m_bytes_total + Gap /\ EndWrite
        /\ UNCHANGED <<m_block_touch, p>>
    BY <1>5 DEF NewAppendOldTail
  <2>2. NewValue \o NextTail \in Seq(Byte)
    BY <1>2, ConcatType
  <2>3. m_bytes_total' \in Nat /\ BlocksOK(m_svf') /\ m_block_touch' \in 0 .. TouchMod - 1
    <3>1. m_bytes_total' \in Nat /\ m_block_touch' \in 0 .. TouchMod - 1
      BY <1>2, <2>1
    <3> QED
      BY <1>3, <2>1, <2>2, <3>1
  <2> QED
    BY <1>1, <2>1, <2>3, EndWriteType
<1>6. CASE NewAppendOldRest
  <2>1. /\ m_svf' = With(Without(m_svf, NextBlock), w.start, NewValue \o DataAfterNext, w.touch)
        /\ m_bytes_total' = m_bytes_total + Gap + Len(DataAfterNext) /\ EndWrite
        /\ UNCHANGED <<m_block_touch, p>>
    BY <1>6 DEF NewAppendOldRest
  <2>2. NewValue \o DataAfterNext \in Seq(Byte)
    BY <1>2, ConcatType
  <2>3. m_bytes_total' \in Nat /\ BlocksOK(m_svf') /\ m_block_touch' \in 0 .. TouchMod - 1
    <3>1. m_bytes_total' \in Nat /\ m_block_touch' \in 0 .. TouchMod - 1
      BY <1>2, <2>1
    <3> QED
      BY <1>3, <2>1, <2>2, <3>1
  <2> QED
    BY <1>1, <2>1, <2>3, EndWriteType
<1>7. CASE NewAppendOldContinue
  <2>1. /\ FurtherBlock
        /\ m_svf' = Without(m_svf, NextBlock) /\ m_bytes_total' = m_bytes_total + Gap
        /\ w' = [w EXCEPT !.fpos = @ + Gap + Delta, !.data = DataAfterNext, !.new = NewValue]
        /\ UNCHANGED <<m_block_touch, stats, pc, p, ret>>
    BY <1>7 DEF NewAppendOldContinue
  <2>2. m_bytes_total' \in Nat /\ BlocksOK(m_svf') /\ m_block_touch' \in 0 .. TouchMod - 1
    BY <1>2, <1>3, <2>1
  <2>3. w.fpos + Gap + Delta \in Nat
    <3>1. w.fpos \in Nat /\ Gap \in Nat /\ Delta \in Nat
      BY <1>1, FrameType, NewAppendOldType
    <3> QED
      BY <3>1
  <2>4. w' \in WriteFrame /\ w'.start = w.start
    BY <1>2, <2>1, <2>3 DEF WriteFrame, TypeInv, TypeOK
  <2>5. Following(w.start)' # {}
    <3>1. PICK s \in Following(NextBlock) : TRUE
      BY <2>1 DEF FurtherBlock
    <3>2. s \in Starts \ {NextBlock} /\ s > w.start
      <4>1. s \in Starts /\ s > NextBlock
        BY <3>1 DEF Following
      <4>2. NextBlock > w.start /\ NextBlock \in Nat /\ w.start \in Nat
        BY <1>1, NewAppendOldType, IterationType, FrameType
      <4>3. s \in Nat
        BY <1>1, <4>1, BlockType
      <4> QED
        BY <4>1, <4>2, <4>3
    <3>3. Starts' = Starts \ {NextBlock}
      BY <1>1, <2>1, WithoutType DEF Starts
    <3> QED
      BY <2>4, <3>2, <3>3 DEF Following
  <2>6. /\ DOMAIN p = {"touches", "bound", "removed"}
        /\ p = NoPunt /\ DOMAIN p.touches = {} /\ p.bound \in Nat /\ p.removed \in Nat
    BY <1>1, IdlePunt
  <2>7. TypeOK'
    BY <1>1, <1>2, <2>1, <2>2, <2>4, <2>5, <2>6 DEF TypeInv, TypeOK, BlocksOK, Starts
  <2> QED
    BY <2>1, <2>6, <2>7 DEF TypeInv, PuntFrameOK
<1> QED
  BY <1>4, <1>5, <1>6, <1>7

LEMMA AppendType ==
    ASSUME TypeInv, pc = "append_new_to_old"
    PROVE  /\ w.start \in Starts /\ w.start \in Pos
           /\ BaseData \in Seq(Byte) /\ BaseTouch \in Nat
           /\ Following(w.start) # {} =>
                /\ Gap \in Nat
                /\ GrownBase \in Seq(Byte) /\ Len(GrownBase) = Len(BaseData) + Gap
                /\ AppendCheck \in 0 .. Len(DataAtNext)
<1>1. w.start \in Starts /\ w.start \in Pos /\ m_bytes_total \in Nat
  BY DEF TypeInv, TypeOK
<1>2. BaseData \in Seq(Byte) /\ BaseTouch \in Nat
  BY <1>1, TypeInvBlocks, BlockType DEF BaseData, BaseTouch
<1>3. ASSUME Following(w.start) # {}
      PROVE  /\ Gap \in Nat
             /\ GrownBase \in Seq(Byte) /\ Len(GrownBase) = Len(BaseData) + Gap
             /\ AppendCheck \in 0 .. Len(DataAtNext)
  <2>1. /\ NextBlock \in Starts /\ Gap \in 0 .. Len(w.data) /\ Len(w.data) \in Nat
        /\ Gap \in Nat /\ DataAtNext \in Seq(Byte)
    BY <1>3, IterationType, FrameType
  <2>2. Take(w.data, Gap) \in Seq(Byte) /\ Len(Take(w.data, Gap)) = Gap
    BY <2>1, FrameType, TakeType
  <2>3. GrownBase \in Seq(Byte) /\ Len(GrownBase) = Len(BaseData) + Gap
    <3>1. /\ BaseData \o Take(w.data, Gap) \in Seq(Byte)
          /\ Len(BaseData \o Take(w.data, Gap)) = Len(BaseData) + Len(Take(w.data, Gap))
      BY <1>2, <2>2, ConcatType
    <3> QED
      BY <2>2, <3>1, Zenon DEF GrownBase
  <2>4. Len(DataAtNext) \in Nat
    BY <2>1, LenProperties
  <2>5. SizeSub(AfterBlock(NextBlock), w.fpos + Gap) \in Nat
    <3>1. AfterBlock(NextBlock) \in Nat /\ w.fpos + Gap \in Nat
      BY <2>1, TypeInvBlocks, BlockType, FrameType
    <3>2. AfterBlock(NextBlock) - (w.fpos + Gap) \in Int /\ SizeMod \in Nat \ {0}
      BY <3>1, BoundsAssumption
    <3> QED
      BY <3>2 DEF SizeSub
  <2>6. AppendCheck \in 0 .. Len(DataAtNext)
    BY <2>4, <2>5 DEF AppendCheck, Lesser
  <2> QED
    BY <2>1, <2>3, <2>6
<1> QED
  BY <1>1, <1>2, <1>3

\* A step of the loop that leaves the write in it.
LEMMA AppendStayType ==
    ASSUME TypeInv, pc = "append_new_to_old", BlocksOK(m_svf'),
           w.start \in DOMAIN m_svf', m_bytes_total' \in Nat,
           NEW f \in Nat, NEW d \in Seq(Byte), w' = [w EXCEPT !.fpos = f, !.data = d],
           UNCHANGED <<m_block_touch, stats, pc, p, ret>>
    PROVE  TypeInv'
<1>1. w' \in WriteFrame /\ w'.start = w.start
  BY DEF WriteFrame, TypeInv, TypeOK
<1>2. /\ DOMAIN p = {"touches", "bound", "removed"}
      /\ p = NoPunt /\ DOMAIN p.touches = {} /\ p.bound \in Nat /\ p.removed \in Nat
  BY IdlePunt
<1>3. TypeOK'
  BY <1>1, <1>2 DEF TypeInv, TypeOK, BlocksOK, Starts
<1> QED
  BY <1>2, <1>3 DEF TypeInv, PuntFrameOK

LEMMA TypeAppendNewToOld ==
    ASSUME TypeInv, AppendRest \/ AppendThrow \/ AppendCoalesce \/ AppendEnd
    PROVE  TypeInv'
<1>1. pc = "append_new_to_old" /\ BlocksOK(m_svf)
  BY TypeInvBlocks DEF AppendRest, AppendThrow, AppendCoalesce, AppendEnd
<1>2. /\ m_bytes_total \in Nat /\ m_block_touch \in 0 .. TouchMod - 1
      /\ w.start \in Starts /\ w.start \in Pos /\ BaseData \in Seq(Byte) /\ BaseTouch \in Nat
      /\ w.data \in Seq(Byte) /\ Len(w.data) \in Nat /\ w.fpos \in Nat
  <2>1. m_bytes_total \in Nat /\ m_block_touch \in 0 .. TouchMod - 1
    BY DEF TypeInv, TypeOK
  <2> QED
    BY <1>1, <2>1, AppendType, FrameType
<1>3. CASE AppendRest
  <2>1. /\ m_svf' = With(m_svf, w.start, BaseData \o w.data, BaseTouch)
        /\ m_bytes_total' = m_bytes_total + Len(w.data)
        /\ w' = [w EXCEPT !.fpos = @ + Len(w.data), !.data = <<>>]
        /\ UNCHANGED <<m_block_touch, stats, pc, p, ret>>
    BY <1>3 DEF AppendRest
  <2>2. BaseData \o w.data \in Seq(Byte) /\ <<>> \in Seq(Byte)
    BY <1>2, ConcatType, EmptySeq
  <2>3. BlocksOK(m_svf') /\ w.start \in DOMAIN m_svf'
    <3> DEFINE grown == BaseData \o w.data
    <3> HIDE DEF grown
    <3>1. grown \in Seq(Byte)
      BY <2>2 DEF grown
    <3>2. /\ BlocksOK(With(m_svf, w.start, grown, BaseTouch))
          /\ w.start \in DOMAIN With(m_svf, w.start, grown, BaseTouch)
      BY <1>1, <1>2, <3>1, WithType
    <3> QED
      BY <2>1, <3>2 DEF grown
  <2>4. m_bytes_total' \in Nat /\ w.fpos + Len(w.data) \in Nat
    BY <1>2, <2>1
  <2>5. w' = [w EXCEPT !.fpos = w.fpos + Len(w.data), !.data = <<>>]
    BY <2>1
  <2> QED
    BY <1>1, <2>1, <2>2, <2>3, <2>4, <2>5, AppendStayType
<1>4. CASE AppendThrow
  <2>1. /\ m_svf' = With(m_svf, w.start, GrownBase, BaseTouch) /\ Following(w.start) # {}
        /\ m_bytes_total' = m_bytes_total + Gap /\ ThrowDiff /\ UNCHANGED <<m_block_touch, p>>
    BY <1>4 DEF AppendThrow, ReachesNext
  <2>2. GrownBase \in Seq(Byte) /\ Gap \in Nat
    BY <1>1, <2>1, AppendType
  <2>3. BlocksOK(m_svf')
    <3>1. BlocksOK(With(m_svf, w.start, GrownBase, BaseTouch))
      BY <1>1, <1>2, <2>2, WithType
    <3> QED
      BY <2>1, <3>1
  <2>4. m_bytes_total' \in Nat /\ m_block_touch' \in 0 .. TouchMod - 1
    BY <1>2, <2>1, <2>2
  <2> QED
    BY <1>1, <2>1, <2>3, <2>4, ThrowDiffType
<1>5. CASE AppendCoalesce
  <2> DEFINE n    == AppendCheck
             tail == IF n = Len(DataAtNext) THEN Drop(NextData, n) ELSE <<>>
             grown == GrownBase \o Take(DataAtNext, n) \o tail
  <2>1. /\ m_svf' = With(Without(m_svf, NextBlock), w.start, grown, BaseTouch)
        /\ w' = [w EXCEPT !.fpos = @ + Gap + n, !.data = Drop(DataAtNext, n)]
        /\ Following(w.start) # {} /\ m_bytes_total' = m_bytes_total + Gap
        /\ UNCHANGED <<m_block_touch, stats, pc, p, ret>>
    BY <1>5 DEF AppendCoalesce, ReachesNext
  <2>2. GrownBase \in Seq(Byte) /\ Gap \in Nat /\ n \in 0 .. Len(DataAtNext)
    BY <1>1, <2>1, AppendType
  <2>3. DataAtNext \in Seq(Byte) /\ NextData \in Seq(Byte) /\ NextBlock > w.start
    BY <2>1, IterationType
  <2>4. n \in Nat
    BY <2>2
  <2> HIDE DEF n
  <2>5. Take(DataAtNext, n) \in Seq(Byte) /\ Drop(DataAtNext, n) \in Seq(Byte)
    BY <2>2, <2>3, <2>4, TakeType, DropType
  <2>6. tail \in Seq(Byte)
    BY <2>3, <2>4, DropType, EmptySeq
  <2> HIDE DEF tail
  <2>7. grown \in Seq(Byte)
    BY <2>2, <2>5, <2>6, ConcatType
  <2> HIDE DEF grown
  <2>8. BlocksOK(m_svf') /\ w.start \in DOMAIN m_svf'
    <3>1. BlocksOK(Without(m_svf, NextBlock))
      BY <1>1, WithoutType
    <3>2. /\ BlocksOK(With(Without(m_svf, NextBlock), w.start, grown, BaseTouch))
          /\ w.start \in DOMAIN With(Without(m_svf, NextBlock), w.start, grown, BaseTouch)
      BY <1>2, <2>7, <3>1, WithType
    <3> QED
      BY <2>1, <3>2
  <2>9. m_bytes_total' \in Nat /\ w.fpos + Gap + n \in Nat
    <3>1. Gap \in Nat /\ n \in Nat /\ m_bytes_total' = m_bytes_total + Gap
      BY <2>1, <2>2, <2>4
    <3>2. m_bytes_total \in Nat /\ w.fpos \in Nat
      BY <1>2
    <3> QED
      BY <3>1, <3>2
  <2>10. w' = [w EXCEPT !.fpos = w.fpos + Gap + n, !.data = Drop(DataAtNext, n)]
    BY <2>1
  <2> QED
    BY <1>1, <2>1, <2>5, <2>8, <2>9, <2>10, AppendStayType
<1>6. CASE AppendEnd
  <2>1. /\ m_svf' = With(m_svf, w.start, BaseData, m_block_touch)
        /\ m_block_touch' = NextTouch /\ EndWrite /\ UNCHANGED <<m_bytes_total, p>>
    BY <1>6 DEF AppendEnd
  <2>2. BlocksOK(m_svf')
    BY <1>1, <1>2, <2>1, WithType, CountersType
  <2> QED
    BY <1>1, <1>2, <2>1, <2>2, EndWriteType, CountersType
<1> QED
  BY <1>3, <1>4, <1>5, <1>6

(***************************************************************************)
(* The other methods                                                        *)
(***************************************************************************)
LEMMA EraseStatsType ==
    ASSUME TypeInv, NEW n \in Nat, NEW punted \in {0, 1},
           stats' = [stats EXCEPT !["blocks_erased"] = @ + 1,
                                  !["bytes_erased"] = @ + n,
                                  !["blocks_punted"] = @ + punted]
    PROVE  stats' \in [StatNames -> Nat]
<1>1. stats \in [StatNames -> Nat]
  BY DEF TypeInv, TypeOK
<1>2. DOMAIN stats' = StatNames
  BY <1>1
<1>3. \A x \in StatNames : stats'[x] \in Nat
  BY <1>1 DEF StatNames
<1> QED
  BY <1>1, <1>2, <1>3

LEMMA TypeReadErase ==
    ASSUME TypeInv, NEW fpos \in Pos, NEW len \in 0 .. MaxPos - fpos,
           \/ read(fpos, len) \/ readThrows(fpos, len)
           \/ erase(fpos) \/ eraseThrows(fpos)
    PROVE  TypeInv'
<1>1. /\ BlocksOK(m_svf) /\ pc = "idle" /\ pc' = "idle" /\ w' = w /\ p' = p
      /\ len \in Nat /\ fpos \in Nat
  BY TypeInvBlocks, BoundsAssumption DEF read, readThrows, erase, eraseThrows, Pos
<1>2. /\ DOMAIN p = {"touches", "bound", "removed"}
      /\ p = NoPunt /\ DOMAIN p.touches = {} /\ p.bound \in Nat /\ p.removed \in Nat
  BY <1>1, IdlePunt
<1>3. SUFFICES /\ BlocksOK(m_svf') /\ m_bytes_total' \in Nat
               /\ m_block_touch' \in 0 .. TouchMod - 1
               /\ stats' \in [StatNames -> Nat] /\ ret' \in {"ok", "diff", "read", "erase"}
  <2>1. w \in WriteFrame
    BY DEF TypeInv, TypeOK
  <2>2. TypeOK'
    BY <1>1, <1>2, <1>3, <2>1 DEF TypeOK, BlocksOK, Starts
  <2> QED
    BY <1>1, <1>2, <2>2 DEF TypeInv, PuntFrameOK
<1>4. CASE read(fpos, len)
  <2>1. /\ m_svf' = [m_svf EXCEPT ![Locate(fpos)].block_touch = m_block_touch]
        /\ m_block_touch' = NextTouch /\ ret' = "ok" /\ m_bytes_total' = m_bytes_total
        /\ stats' = [stats EXCEPT !["count_read"] = @ + 1, !["bytes_read"] = @ + len]
    BY <1>4 DEF read
  <2>2. stats' \in [StatNames -> Nat]
    BY <1>1, <2>1 DEF TypeInv, TypeOK, StatNames
  <2>3. m_block_touch \in Nat /\ NextTouch \in 0 .. TouchMod - 1 /\ m_bytes_total \in Nat
    BY CountersType DEF TypeInv, TypeOK
  <2>4. BlocksOK(m_svf')
    BY <1>1, <2>1, <2>3 DEF BlocksOK, Block
  <2> QED
    BY <2>1, <2>2, <2>3, <2>4
<1>5. CASE erase(fpos)
  <2>1. /\ fpos \in Starts /\ m_svf' = Without(m_svf, fpos)
        /\ m_bytes_total' = SizeSub(m_bytes_total, Len(m_svf[fpos].data))
        /\ stats' = [stats EXCEPT !["blocks_erased"] = @ + 1,
                                  !["bytes_erased"] = @ + Len(m_svf[fpos].data),
                                  !["blocks_punted"] = @ + 0]
        /\ ret' = "ok" /\ m_block_touch' = m_block_touch
    BY <1>5 DEF erase, _erase_no_lock
  <2>2. Len(m_svf[fpos].data) \in Nat
    BY <1>1, <2>1, BlockType
  <2>3. stats' \in [StatNames -> Nat]
    BY <2>1, <2>2, EraseStatsType
  <2>4. m_bytes_total' \in Nat /\ BlocksOK(m_svf')
    BY <1>1, <2>1, <2>2, CountersType, WithoutType
  <2> QED
    BY <2>1, <2>3, <2>4 DEF TypeInv, TypeOK
<1>6. CASE readThrows(fpos, len) \/ eraseThrows(fpos)
  BY <1>1, <1>6 DEF readThrows, eraseThrows, TypeInv, TypeOK
<1> QED
  BY <1>4, <1>5, <1>6

\* block_touches leads from each touch to a block with that touch.
LEMMA BlockTouchesType ==
    ASSUME BlocksOK(m_svf)
    PROVE  /\ DOMAIN block_touches = {m_svf[s].block_touch : s \in Starts}
           /\ DOMAIN block_touches \subseteq Nat
           /\ \A t \in DOMAIN block_touches :
                block_touches[t] \in Starts /\ m_svf[block_touches[t]].block_touch = t
<1>1. DOMAIN block_touches = {m_svf[s].block_touch : s \in Starts}
  BY DEF block_touches
<1>2. DOMAIN block_touches \subseteq Nat
  BY <1>1, BlockType
<1>3. ASSUME NEW t \in DOMAIN block_touches
      PROVE  block_touches[t] \in Starts /\ m_svf[block_touches[t]].block_touch = t
  <2> DEFINE Same == {s \in Starts : m_svf[s].block_touch = t}
  <2>1. Same # {}
    BY <1>1, <1>3
  <2>2. Same \subseteq 0 .. MaxPos /\ MaxPos \in Nat
    BY BoundsAssumption DEF BlocksOK, Starts, Pos
  <2>3. Largest(Same) \in Same
    <3> HIDE DEF Same
    <3> QED
      BY <2>1, <2>2, LargestIn
  <2>4. block_touches[t] = Largest(Same)
    BY <1>1, <1>3 DEF block_touches
  <2> QED
    BY <2>3, <2>4
<1> QED
  BY <1>1, <1>2, <1>3

LEMMA TypePunt ==
    ASSUME TypeInv,
           \/ \E bound \in 0 .. MaxBound : lru_punt(bound)
           \/ PuntBlock \/ PuntEnd
    PROVE  TypeInv'
<1>1. /\ BlocksOK(m_svf) /\ w \in WriteFrame /\ ret \in {"ok", "diff", "read", "erase"}
      /\ m_bytes_total \in Nat /\ m_block_touch \in 0 .. TouchMod - 1
      /\ stats \in [StatNames -> Nat]
      /\ DOMAIN p = {"touches", "bound", "removed"} /\ DOMAIN p.touches \subseteq Nat
      /\ p.bound \in Nat /\ p.removed \in Nat
      /\ \A t \in DOMAIN p.touches : p.touches[t] \in Starts
      /\ \A t \in DOMAIN p.touches : m_svf[p.touches[t]].block_touch = t
  BY TypeInvBlocks DEF TypeInv, TypeOK, PuntFrameOK
<1>2. CASE \E bound \in 0 .. MaxBound : lru_punt(bound)
  <2>1. PICK bound \in 0 .. MaxBound : lru_punt(bound)
    BY <1>2
  <2>2. /\ pc' = "lru_punt" /\ ret' = "ok"
        /\ p' = [touches |-> block_touches, bound |-> bound, removed |-> 0]
        /\ UNCHANGED <<m_svf, m_bytes_total, m_block_touch, stats, w>>
    BY <2>1 DEF lru_punt
  <2>3. bound \in Nat
    BY BoundsAssumption
  <2>4. TypeOK'
    BY <1>1, <2>2, <2>3, BlockTouchesType DEF TypeOK, BlocksOK, Starts
  <2> QED
    BY <1>1, <2>2, <2>4, BlockTouchesType DEF TypeInv, PuntFrameOK
<1>3. CASE PuntBlock
  <2> DEFINE t == Smallest(DOMAIN p.touches)
             s == p.touches[t]
             n == Len(m_svf[s].data)
  <2>1. /\ pc = "lru_punt" /\ PuntsMore /\ m_svf' = Without(m_svf, s)
        /\ m_bytes_total' = SizeSub(m_bytes_total, n)
        /\ stats' = [stats EXCEPT !["blocks_erased"] = @ + 1,
                                  !["bytes_erased"] = @ + n,
                                  !["blocks_punted"] = @ + 1]
        /\ p' = [p EXCEPT !.touches = Without(@, t), !.removed = @ + n]
        /\ UNCHANGED <<m_block_touch, pc, w, ret>>
    BY <1>3 DEF PuntBlock, _erase_no_lock
  <2>2. t \in DOMAIN p.touches
    BY <1>1, <2>1, SmallestIn DEF PuntsMore
  <2>3. s \in Starts /\ n \in Nat
    BY <1>1, <2>2, BlockType
  <2> HIDE DEF t, s, n
  <2>4. /\ BlocksOK(m_svf') /\ DOMAIN m_svf' = Starts \ {s}
        /\ \A u \in Starts \ {s} : m_svf'[u] = m_svf[u]
    BY <1>1, <2>1, WithoutType DEF Starts
  <2>5. m_bytes_total' \in Nat /\ stats' \in [StatNames -> Nat]
    BY <2>1, <2>3, CountersType, EraseStatsType
  <2>6. /\ DOMAIN p' = {"touches", "bound", "removed"}
        /\ DOMAIN p'.touches = DOMAIN p.touches \ {t}
        /\ \A v \in DOMAIN p.touches \ {t} : p'.touches[v] = p.touches[v]
        /\ p'.bound = p.bound /\ p'.removed = p.removed + n
    BY <1>1, <2>1 DEF Without
  <2>7. \A v \in DOMAIN p.touches \ {t} : p.touches[v] # s
    BY <1>1, <2>2 DEF s
  <2>8. \A v \in DOMAIN p'.touches :
            p'.touches[v] \in Starts \ {s} /\ m_svf[p'.touches[v]].block_touch = v
    BY <1>1, <2>6, <2>7
  <2>9. p'.removed \in Nat
    BY <1>1, <2>3, <2>6
  <2>10. TypeOK'
    BY <1>1, <2>1, <2>4, <2>5, <2>6, <2>8, <2>9 DEF TypeOK, BlocksOK, Starts
  <2>11. PuntFrameOK'
    BY <2>1, <2>4, <2>8 DEF PuntFrameOK
  <2> QED
    BY <2>10, <2>11 DEF TypeInv
<1>4. CASE PuntEnd
  <2>1. /\ pc' = "idle" /\ p' = NoPunt
        /\ stats' = [stats EXCEPT !["bytes_punted"] = @ + p.removed]
        /\ UNCHANGED <<m_svf, m_bytes_total, m_block_touch, w, ret>>
    BY <1>4 DEF PuntEnd
  <2>2. stats' \in [StatNames -> Nat]
    BY <1>1, <2>1 DEF StatNames
  <2>3. /\ DOMAIN p' = {"touches", "bound", "removed"}
        /\ DOMAIN p'.touches = {} /\ p'.bound \in Nat /\ p'.removed \in Nat
    BY <2>1 DEF NoPunt
  <2>4. TypeOK'
    BY <1>1, <2>1, <2>2, <2>3 DEF TypeOK, BlocksOK, Starts
  <2> QED
    BY <2>1, <2>3, <2>4 DEF TypeInv, PuntFrameOK
<1> QED
  BY <1>2, <1>3, <1>4

LEMMA TypeNext == TypeInv /\ [Next]_vars => TypeInv'
<1> SUFFICES ASSUME TypeInv, [Next]_vars PROVE TypeInv'
  OBVIOUS
<1>1. CASE UNCHANGED vars
  BY <1>1 DEF vars, TypeInv, TypeOK, PuntFrameOK, Starts, Following
<1>2. ASSUME NEW f \in Files, NEW fpos \in Pos, NEW len \in MinLen .. MaxPos - fpos,
             write(fpos, Fetch(f, fpos, len))
      PROVE  TypeInv'
  <2>1. len \in 0 .. MaxPos - fpos
    BY BoundsAssumption DEF Pos
  <2> QED
    BY <1>2, <2>1, FetchType, TypeWrite
<1>3. ASSUME NEW fpos \in Pos, NEW len \in 0 .. MaxPos - fpos,
             read(fpos, len) \/ readThrows(fpos, len)
      PROVE  TypeInv'
  BY <1>3, TypeReadErase
<1>4. ASSUME NEW fpos \in Pos, erase(fpos) \/ eraseThrows(fpos)
      PROVE  TypeInv'
  <2>1. 0 \in 0 .. MaxPos - fpos
    BY BoundsAssumption DEF Pos
  <2> QED
    BY <1>4, <2>1, TypeReadErase
<1>5. CASE clear
  <2>1. /\ BlocksOK(m_svf') /\ ZeroStats \in [StatNames -> Nat] /\ w \in WriteFrame
    BY <1>5 DEF clear, BlocksOK, ZeroStats, TypeInv, TypeOK
  <2>2. /\ DOMAIN p = {"touches", "bound", "removed"}
        /\ p = NoPunt /\ DOMAIN p.touches = {} /\ p.bound \in Nat /\ p.removed \in Nat
    BY <1>5, IdlePunt DEF clear
  <2>3. TypeOK'
    BY <1>5, <2>1, <2>2, BoundsAssumption DEF clear, TypeOK, BlocksOK, Starts
  <2> QED
    BY <1>5, <2>2, <2>3 DEF clear, TypeInv, PuntFrameOK
<1>6. CASE (\E bound \in 0 .. MaxBound : lru_punt(bound)) \/ PuntBlock \/ PuntEnd
  BY <1>6, TypePunt
<1>7. CASE NewAppendOldThrow \/ NewAppendOldTail \/ NewAppendOldRest \/ NewAppendOldContinue
  BY <1>7, TypeNewAppendOld
<1>8. CASE AppendRest \/ AppendThrow \/ AppendCoalesce \/ AppendEnd
  BY <1>8, TypeAppendNewToOld
<1> QED
  BY <1>1, <1>2, <1>3, <1>4, <1>5, <1>6, <1>7, <1>8 DEF Next, Call, Loop

\* The type invariant holds whatever the callers do: also with difference
\* exceptions, empty writes, overlapping blocks and counters that wrap around.
THEOREM TypeCorrect == Spec => []TypeOK
<1>1. TypeInv => TypeOK
  BY DEF TypeInv
<1> QED
  BY <1>1, TypeInit, TypeNext, PTL DEF Spec

(***************************************************************************)
(* The age of blocks and lru_punt().  These theorems hold as long as the    *)
(* touch counter does not wrap around, which is an assumption of each: no   *)
(* write or read starts from touch MaxTouch on.                             *)
(***************************************************************************)

(***************************************************************************)
(* Maps whose blocks have distinct touches below n                          *)
(***************************************************************************)
Distinct(m, n) ==
    /\ \A s \in DOMAIN m : m[s].block_touch < n
    /\ \A s, t \in DOMAIN m : s # t => m[s].block_touch # m[t].block_touch

LEMMA DistinctMore ==
    ASSUME NEW m, BlocksOK(m), NEW n \in Nat, Distinct(m, n)
    PROVE  Distinct(m, n + 1)
<1>1. \A s \in DOMAIN m : m[s].block_touch \in Nat
  BY DEF BlocksOK, Block
<1> QED
  BY <1>1 DEF Distinct

LEMMA DistinctWithout ==
    ASSUME NEW m, NEW n, Distinct(m, n), NEW s
    PROVE  Distinct(Without(m, s), n)
BY DEF Distinct, Without

\* A block gets touch t, which no other block has.
LEMMA DistinctWith ==
    ASSUME NEW m, NEW n \in Nat, Distinct(m, n), NEW s, NEW d, NEW t \in Nat, t < n,
           \A u \in DOMAIN m \ {s} : m[u].block_touch # t
    PROVE  Distinct(With(m, s, d, t), n)
BY DEF Distinct, With

(***************************************************************************)
(* The touches stay distinct                                                *)
(***************************************************************************)
TouchInv ==
    /\ Distinct(m_svf, m_block_touch)
    /\ pc = "new_append_old" =>
            w.touch < m_block_touch /\ \A s \in Starts : m_svf[s].block_touch # w.touch
    /\ pc = "append_new_to_old" => m_block_touch < MaxTouch

LEMMA TouchInit == Init => TouchInv
BY DEF Init, TouchInv, Distinct

LEMMA TouchCounts ==
    ASSUME TypeInv, MaxTouch < TouchMod, m_block_touch < MaxTouch
    PROVE  NextTouch = m_block_touch + 1
<1>1. m_block_touch \in Nat /\ MaxTouch \in Nat /\ TouchMod \in Nat
  BY CountersType, BoundsAssumption
<1> QED
  BY <1>1 DEF NextTouch

LEMMA TouchWrite ==
    ASSUME TypeInv, TouchInv, MaxTouch < TouchMod,
           NEW fpos \in Pos, NEW data \in Seq(Byte), write(fpos, data)
    PROVE  TouchInv'
<1>1. /\ BlocksOK(m_svf) /\ m_block_touch \in Nat /\ Distinct(m_svf, m_block_touch)
      /\ NextTouch = m_block_touch + 1 /\ m_block_touch < MaxTouch /\ pc = "idle"
  BY TypeInvBlocks, CountersType, TouchCounts DEF write, TouchInv
<1>2. \A s \in Starts : m_svf[s].block_touch # m_block_touch
  BY <1>1, BlockType DEF Distinct, Starts
<1>3. Distinct(m_svf, m_block_touch + 1)
  BY <1>1, DistinctMore
<1>4. CASE _write_new_block(fpos, data)
  <2>1. Distinct(With(m_svf, fpos, data, m_block_touch), m_block_touch + 1)
    BY <1>1, <1>2, <1>3, DistinctWith DEF Starts
  <2> QED
    BY <1>1, <1>4, <2>1 DEF _write_new_block, TouchInv
<1>5. CASE BeginNewAppendOld(fpos, data)
  <2>1. /\ w'.touch = m_block_touch /\ m_block_touch' = m_block_touch + 1
        /\ m_svf' = m_svf /\ pc' = "new_append_old"
    BY <1>1, <1>5 DEF BeginNewAppendOld
  <2> QED
    BY <1>1, <1>2, <1>3, <2>1 DEF TouchInv, Starts
<1>6. CASE BeginAppendNewToOld(Locate(fpos), fpos, data)
  <2>1. /\ UNCHANGED <<m_svf, m_block_touch>>
        /\ pc' = "idle" \/ pc' = "append_new_to_old"
    BY <1>1, <1>6 DEF BeginAppendNewToOld
  <2> QED
    BY <1>1, <2>1 DEF TouchInv
<1> QED
  BY <1>4, <1>5, <1>6 DEF write

LEMMA TouchNewAppendOld ==
    ASSUME TypeInv, TouchInv,
           \/ NewAppendOldThrow \/ NewAppendOldTail
           \/ NewAppendOldRest \/ NewAppendOldContinue
    PROVE  TouchInv'
<1>1. /\ pc = "new_append_old" /\ m_block_touch' = m_block_touch /\ m_block_touch \in Nat
      /\ w.touch \in Nat
  BY CountersType, FrameType
  DEF NewAppendOldThrow, NewAppendOldTail, NewAppendOldRest, NewAppendOldContinue
<1>2. /\ Distinct(m_svf, m_block_touch) /\ w.touch < m_block_touch
      /\ \A s \in Starts : m_svf[s].block_touch # w.touch
  BY <1>1 DEF TouchInv
<1> DEFINE rest == Without(m_svf, NextBlock)
<1>3. /\ Distinct(rest, m_block_touch)
      /\ DOMAIN rest \subseteq Starts
      /\ \A s \in DOMAIN rest : rest[s].block_touch # w.touch
  BY <1>2, DistinctWithout DEF Without, Starts
<1>4. CASE NewAppendOldThrow
  BY <1>1, <1>2, <1>4 DEF NewAppendOldThrow, ThrowDiff, TouchInv
<1>5. CASE NewAppendOldTail \/ NewAppendOldRest
  <2>1. PICK d : m_svf' = With(rest, w.start, d, w.touch) /\ pc' = "idle"
    BY <1>5 DEF NewAppendOldTail, NewAppendOldRest, EndWrite
  <2> HIDE DEF rest
  <2>2. Distinct(With(rest, w.start, d, w.touch), m_block_touch)
    BY <1>1, <1>2, <1>3, DistinctWith
  <2> QED
    BY <1>1, <2>1, <2>2 DEF TouchInv
<1>6. CASE NewAppendOldContinue
  <2>1. m_svf' = rest /\ w'.touch = w.touch /\ pc' = pc
    BY <1>6 DEF NewAppendOldContinue, TypeInv, TypeOK, WriteFrame
  <2> QED
    BY <1>1, <1>2, <1>3, <2>1 DEF TouchInv, Starts
<1> QED
  BY <1>4, <1>5, <1>6

LEMMA TouchAppendNewToOld ==
    ASSUME TypeInv, TouchInv, MaxTouch < TouchMod,
           AppendRest \/ AppendThrow \/ AppendCoalesce \/ AppendEnd
    PROVE  TouchInv'
<1>1. /\ pc = "append_new_to_old" /\ BlocksOK(m_svf) /\ m_block_touch \in Nat
      /\ w.start \in Starts /\ BaseTouch \in Nat /\ m_block_touch < MaxTouch
  BY TypeInvBlocks, CountersType, AppendType
  DEF AppendRest, AppendThrow, AppendCoalesce, AppendEnd, TouchInv
<1>2. Distinct(m_svf, m_block_touch)
  BY DEF TouchInv
<1>3. /\ BaseTouch < m_block_touch
      /\ \A u \in Starts \ {w.start} : m_svf[u].block_touch # BaseTouch
  BY <1>1, <1>2 DEF Distinct, BaseTouch, Starts
<1>4. CASE AppendRest \/ AppendThrow
  <2>1. PICK d : m_svf' = With(m_svf, w.start, d, BaseTouch)
    BY <1>4 DEF AppendRest, AppendThrow
  <2>2. Distinct(With(m_svf, w.start, d, BaseTouch), m_block_touch)
    BY <1>1, <1>2, <1>3, DistinctWith DEF Starts
  <2>3. m_block_touch' = m_block_touch /\ pc' \in {"idle", "append_new_to_old"}
    BY <1>1, <1>4 DEF AppendRest, AppendThrow, ThrowDiff
  <2> QED
    BY <1>1, <2>1, <2>2, <2>3 DEF TouchInv
<1>5. CASE AppendCoalesce
  <2>1. PICK d : m_svf' = With(Without(m_svf, NextBlock), w.start, d, BaseTouch)
    BY <1>5 DEF AppendCoalesce
  <2>2. /\ Distinct(Without(m_svf, NextBlock), m_block_touch)
        /\ \A u \in DOMAIN Without(m_svf, NextBlock) \ {w.start} :
                Without(m_svf, NextBlock)[u].block_touch # BaseTouch
    BY <1>2, <1>3, DistinctWithout DEF Without, Starts
  <2>3. Distinct(With(Without(m_svf, NextBlock), w.start, d, BaseTouch), m_block_touch)
    BY <1>1, <1>3, <2>2, DistinctWith
  <2>4. m_block_touch' = m_block_touch /\ pc' = pc
    BY <1>5 DEF AppendCoalesce
  <2> QED
    BY <1>1, <2>1, <2>3, <2>4 DEF TouchInv
<1>6. CASE AppendEnd
  <2>1. /\ m_svf' = With(m_svf, w.start, BaseData, m_block_touch) /\ pc' = "idle"
        /\ m_block_touch' = m_block_touch + 1
    BY <1>1, <1>6, TouchCounts DEF AppendEnd, EndWrite
  <2>2. \A u \in Starts : m_svf[u].block_touch # m_block_touch
    BY <1>1, <1>2, BlockType DEF Distinct, Starts
  <2>3. Distinct(With(m_svf, w.start, BaseData, m_block_touch), m_block_touch + 1)
    BY <1>1, <1>2, <2>2, DistinctMore, DistinctWith DEF Starts
  <2> QED
    BY <2>1, <2>3 DEF TouchInv
<1> QED
  BY <1>4, <1>5, <1>6

LEMMA TouchRead ==
    ASSUME TypeInv, TouchInv, MaxTouch < TouchMod,
           NEW fpos \in Pos, NEW len, read(fpos, len)
    PROVE  TouchInv'
<1>1. /\ BlocksOK(m_svf) /\ m_block_touch \in Nat /\ Distinct(m_svf, m_block_touch)
      /\ NextTouch = m_block_touch + 1 /\ pc = "idle" /\ pc' = "idle"
  BY TypeInvBlocks, CountersType, TouchCounts DEF read, TouchInv
<1>2. /\ m_svf' = [m_svf EXCEPT ![Locate(fpos)].block_touch = m_block_touch]
      /\ m_block_touch' = m_block_touch + 1
  BY <1>1 DEF read
<1>3. \A s \in Starts : m_svf[s].block_touch \in Nat /\ m_svf[s].block_touch < m_block_touch
  BY <1>1, BlockType DEF Distinct, Starts
<1>4. \A s \in Starts : m_svf'[s].block_touch =
            IF s = Locate(fpos) THEN m_block_touch ELSE m_svf[s].block_touch
  BY <1>1, <1>2 DEF BlocksOK, Block, Starts
<1>5. DOMAIN m_svf' = Starts
  BY <1>2 DEF Starts
<1>6. Distinct(m_svf', m_block_touch')
  BY <1>1, <1>2, <1>3, <1>4, <1>5 DEF Distinct, Starts
<1> QED
  BY <1>1, <1>6 DEF TouchInv

\* A step that only removes blocks, or removes none.
LEMMA TouchFewer ==
    ASSUME TypeInv, TouchInv, pc \in {"idle", "lru_punt"},
           \/ \E fpos \in Pos : erase(fpos) \/ eraseThrows(fpos)
           \/ \E fpos \in Pos, len \in Nat : readThrows(fpos, len)
           \/ clear \/ \E bound \in 0 .. MaxBound : lru_punt(bound)
           \/ PuntBlock \/ PuntEnd
    PROVE  TouchInv'
<1>1. /\ pc' \in {"idle", "lru_punt"} /\ Distinct(m_svf, m_block_touch)
      /\ \/ m_svf' = m_svf /\ m_block_touch' = m_block_touch
         \/ m_block_touch' = m_block_touch /\ \E s : m_svf' = Without(m_svf, s)
         \/ m_svf' = [s \in {} |-> 0]
  BY DEF erase, eraseThrows, readThrows, clear, lru_punt, PuntBlock, PuntEnd,
         _erase_no_lock, TouchInv
<1>2. Distinct(m_svf', m_block_touch')
  <2>1. CASE m_svf' = [s \in {} |-> 0]
    BY <2>1 DEF Distinct
  <2>2. CASE m_block_touch' = m_block_touch /\ \E s : m_svf' = Without(m_svf, s)
    BY <1>1, <2>2, DistinctWithout
  <2> QED
    BY <1>1, <2>1, <2>2
<1> QED
  BY <1>1, <1>2 DEF TouchInv

LEMMA TouchNext ==
    ASSUME MaxTouch < TouchMod, TypeInv, TouchInv, [Next]_vars
    PROVE  TouchInv'
<1>1. CASE UNCHANGED vars
  BY <1>1 DEF vars, TouchInv, Distinct, Starts
<1>2. ASSUME NEW f \in Files, NEW fpos \in Pos, NEW len \in MinLen .. MaxPos - fpos,
             write(fpos, Fetch(f, fpos, len))
      PROVE  TouchInv'
  <2>1. len \in 0 .. MaxPos - fpos
    BY BoundsAssumption DEF Pos
  <2> QED
    BY <1>2, <2>1, FetchType, TouchWrite
<1>3. ASSUME NEW fpos \in Pos, NEW len \in 0 .. MaxPos - fpos,
             read(fpos, len) \/ readThrows(fpos, len)
      PROVE  TouchInv'
  <2>1. len \in Nat
    BY BoundsAssumption DEF Pos
  <2>2. CASE read(fpos, len)
    BY <2>2, TouchRead
  <2>3. CASE readThrows(fpos, len)
    BY <2>1, <2>3, TouchFewer DEF readThrows
  <2> QED
    BY <1>3, <2>2, <2>3
<1>4. CASE \/ \E fpos \in Pos : erase(fpos) \/ eraseThrows(fpos)
           \/ clear \/ \E bound \in 0 .. MaxBound : lru_punt(bound)
           \/ PuntBlock \/ PuntEnd
  <2>1. pc \in {"idle", "lru_punt"}
    BY <1>4 DEF erase, eraseThrows, clear, lru_punt, PuntBlock, PuntEnd
  <2> QED
    BY <1>4, <2>1, TouchFewer
<1>5. CASE NewAppendOldThrow \/ NewAppendOldTail \/ NewAppendOldRest \/ NewAppendOldContinue
  BY <1>5, TouchNewAppendOld
<1>6. CASE AppendRest \/ AppendThrow \/ AppendCoalesce \/ AppendEnd
  BY <1>6, TouchAppendNewToOld
<1> QED
  BY <1>1, <1>2, <1>3, <1>4, <1>5, <1>6 DEF Next, Call, Loop

\* No two blocks ever have the same touch, and every touch is older than the next:
\* block_touches() lists every block (assert at svf.cpp:994).
THEOREM DistinctTouches ==
    ASSUME MaxTouch < TouchMod
    PROVE  Spec => []TouchesDistinct
<1>1. TouchInv => TouchesDistinct
  BY DEF TouchInv, Distinct, TouchesDistinct, Starts
<1>2. TypeInv /\ TouchInv /\ [Next]_vars => TypeInv' /\ TouchInv'
  BY TypeNext, TouchNext
<1> QED
  BY <1>1, <1>2, TypeInit, TouchInit, PTL DEF Spec

(***************************************************************************)
(* lru_punt()                                                               *)
(***************************************************************************)
\* p.touches lists exactly the blocks that are in the map, by their touch.
PuntComplete ==
    pc = "lru_punt" =>
        /\ DOMAIN p.touches = {m_svf[s].block_touch : s \in Starts}
        /\ \A s \in Starts : p.touches[m_svf[s].block_touch] = s

PuntInv == TypeInv /\ TouchInv /\ PuntComplete

LEMMA PuntSteps == pc = "lru_punt" /\ Next => PuntBlock \/ PuntEnd
BY DEF Next, Call, Loop, write, read, readThrows, erase, eraseThrows, clear, lru_punt,
       NewAppendOldThrow, NewAppendOldTail, NewAppendOldRest, NewAppendOldContinue,
       AppendRest, AppendThrow, AppendCoalesce, AppendEnd

\* A punt begins only by a call of lru_punt.
LEMMA PuntBegins ==
    pc # "lru_punt" /\ pc' = "lru_punt" /\ Next => \E bound \in 0 .. MaxBound : lru_punt(bound)
BY DEF Next, Call, Loop, write, _write_new_block, BeginNewAppendOld, BeginAppendNewToOld,
       read, readThrows, erase, eraseThrows, clear, ThrowDiff, EndWrite,
       NewAppendOldThrow, NewAppendOldTail, NewAppendOldRest, NewAppendOldContinue,
       AppendRest, AppendThrow, AppendCoalesce, AppendEnd, PuntBlock, PuntEnd

\* The block a step of the loop removes is the one with the smallest touch.
LEMMA PuntBlockStep ==
    ASSUME PuntInv, PuntBlock
    PROVE  \E s \in Starts :
              /\ m_svf' = Without(m_svf, s)
              /\ p'.touches = Without(p.touches, m_svf[s].block_touch)
              /\ \A u \in Starts \ {s} : m_svf[s].block_touch < m_svf[u].block_touch
<1> DEFINE t == Smallest(DOMAIN p.touches)
           s == p.touches[t]
<1>1. /\ DOMAIN p.touches \subseteq Nat /\ DOMAIN p.touches # {} /\ pc = "lru_punt"
      /\ \A v \in DOMAIN p.touches : p.touches[v] \in Starts
      /\ \A v \in DOMAIN p.touches : m_svf[p.touches[v]].block_touch = v
      /\ DOMAIN p.touches = {m_svf[u].block_touch : u \in Starts}
  BY DEF PuntInv, TypeInv, TypeOK, PuntFrameOK, PuntComplete, PuntBlock, PuntsMore
<1>2. t \in DOMAIN p.touches /\ \A v \in DOMAIN p.touches : t <= v
  BY <1>1, SmallestIn
<1>3. m_svf' = Without(m_svf, s) /\ p'.touches = Without(p.touches, t)
  BY DEF PuntBlock, _erase_no_lock, PuntInv, TypeInv, TypeOK
<1> HIDE DEF t, s
<1>4. s \in Starts /\ m_svf[s].block_touch = t
  BY <1>1, <1>2 DEF s
<1>5. \A u \in Starts \ {s} : m_svf[u].block_touch # t
  BY <1>4 DEF PuntInv, TouchInv, Distinct, Starts
<1>6. \A u \in Starts \ {s} : m_svf[u].block_touch \in Nat /\ t <= m_svf[u].block_touch
  BY <1>1, <1>2
<1>7. t \in Nat
  BY <1>1, <1>2
<1>8. \A u \in Starts \ {s} : t < m_svf[u].block_touch
  BY <1>5, <1>6, <1>7
<1> QED
  BY <1>3, <1>4, <1>8

LEMMA PuntNext ==
    ASSUME MaxTouch < TouchMod, PuntInv, [Next]_vars
    PROVE  PuntInv'
<1>1. TypeInv' /\ TouchInv'
  BY TypeNext, TouchNext DEF PuntInv
<1>2. SUFFICES ASSUME Next, pc' = "lru_punt" PROVE PuntComplete'
  BY <1>1 DEF PuntInv, PuntComplete, vars, Starts
<1>3. CASE pc = "lru_punt"
  <2>1. PuntBlock
    BY <1>2, <1>3, PuntSteps DEF PuntEnd
  <2>2. PICK s \in Starts :
            /\ m_svf' = Without(m_svf, s)
            /\ p'.touches = Without(p.touches, m_svf[s].block_touch)
            /\ \A u \in Starts \ {s} : m_svf[s].block_touch < m_svf[u].block_touch
    BY <2>1, PuntBlockStep
  <2>3. /\ Starts' = Starts \ {s}
        /\ \A u \in Starts \ {s} : m_svf'[u] = m_svf[u]
    BY <2>2 DEF Without, Starts
  <2>4. \A u \in Starts \ {s} : m_svf[u].block_touch # m_svf[s].block_touch
    BY <2>2 DEF PuntInv, TouchInv, Distinct, Starts
  <2>5. /\ DOMAIN p.touches = {m_svf[u].block_touch : u \in Starts}
        /\ \A u \in Starts : p.touches[m_svf[u].block_touch] = u
    BY <1>3 DEF PuntInv, PuntComplete
  <2>6. /\ DOMAIN p'.touches = DOMAIN p.touches \ {m_svf[s].block_touch}
        /\ \A v \in DOMAIN p'.touches : p'.touches[v] = p.touches[v]
    BY <2>2 DEF Without
  <2>7. DOMAIN p'.touches = {m_svf[u].block_touch : u \in Starts \ {s}}
    BY <2>4, <2>5, <2>6
  <2>8. \A u \in Starts \ {s} : p'.touches[m_svf[u].block_touch] = u
    BY <2>5, <2>6, <2>7
  <2> QED
    BY <2>3, <2>7, <2>8 DEF PuntComplete
<1>4. CASE pc # "lru_punt"
  <2>1. p'.touches = block_touches /\ m_svf' = m_svf
    BY <1>2, <1>4, PuntBegins DEF lru_punt
  <2>2. BlocksOK(m_svf)
    BY TypeInvBlocks DEF PuntInv
  <2>3. \A s \in Starts : block_touches[m_svf[s].block_touch] = s
    BY <2>2, BlockTouchesType DEF PuntInv, TouchInv, Distinct, Starts
  <2> QED
    BY <2>1, <2>2, <2>3, BlockTouchesType DEF PuntComplete, Starts
<1> QED
  BY <1>3, <1>4

LEMMA PuntInit == Init => PuntInv
BY TypeInit, TouchInit DEF PuntInv, PuntComplete, Init

LEMMA PuntStepOldest ==
    ASSUME PuntInv, [Next]_vars, pc = "lru_punt",
           NEW s \in Starts \ DOMAIN m_svf', NEW t \in DOMAIN m_svf'
    PROVE  m_svf[s].block_touch < m_svf[t].block_touch
<1>1. PuntBlock
  BY PuntSteps DEF PuntEnd, vars, Starts
<1>2. PICK u \in Starts :
          /\ m_svf' = Without(m_svf, u)
          /\ \A v \in Starts \ {u} : m_svf[u].block_touch < m_svf[v].block_touch
  BY <1>1, PuntBlockStep
<1> QED
  BY <1>2 DEF Without, Starts

\* lru_punt() removes blocks in the order in which they were last touched.
THEOREM PuntsOldest ==
    ASSUME MaxTouch < TouchMod
    PROVE  Spec => PuntsOldestFirst
<1>1. PuntInv /\ [Next]_vars => PuntInv'
  BY PuntNext
<1>2. PuntInv /\ [Next]_vars =>
        [pc = "lru_punt" =>
            \A s \in Starts \ DOMAIN m_svf' : \A t \in DOMAIN m_svf' :
                m_svf[s].block_touch < m_svf[t].block_touch]_vars
  BY PuntStepOldest
<1> QED
  BY <1>1, <1>2, PuntInit, PTL DEF Spec, PuntsOldestFirst

LEMMA StartsFinite ==
    ASSUME BlocksOK(m_svf)
    PROVE  IsFiniteSet(Starts) /\ Cardinality(Starts) \in Nat
<1>1. IsFiniteSet(0 .. MaxPos - 1) /\ Starts \in SUBSET (0 .. MaxPos - 1)
  BY FS_Interval, BoundsAssumption DEF BlocksOK, Starts, Pos
<1> QED
  BY <1>1, FS_Subset, FS_CardinalityType

LEMMA PuntStepBound ==
    ASSUME PuntInv, [Next]_vars, pc = "lru_punt"
    PROVE  /\ pc' = "idle" => m_bytes_total < p.bound \/ Cardinality(Starts) <= 1
           /\ Starts # {} => DOMAIN m_svf' # {}
<1>1. /\ IsFiniteSet(Starts) /\ Cardinality(Starts) \in Nat
      /\ m_bytes_total \in Nat /\ p.bound \in Nat
  BY TypeInvBlocks, StartsFinite DEF PuntInv, TypeInv, TypeOK
<1>2. CASE UNCHANGED vars
  BY <1>2 DEF vars, Starts
<1>3. CASE PuntEnd
  <2>1. CASE DOMAIN p.touches = {}
    <3>1. Starts = {}
      BY <2>1 DEF PuntInv, PuntComplete
    <3> QED
      BY <3>1, FS_EmptySet
  <2>2. CASE ~MustPunt(p.bound)
    <3>1. Cardinality(Starts) <= 1 \/ m_bytes_total < p.bound
      BY <1>1, <2>2 DEF MustPunt
    <3>2. m_svf' = m_svf
      BY <1>3 DEF PuntEnd
    <3> QED
      BY <3>1, <3>2 DEF Starts
  <2> QED
    BY <1>3, <2>1, <2>2 DEF PuntEnd, PuntsMore
<1>4. CASE PuntBlock
  <2>1. pc' = "lru_punt" /\ Cardinality(Starts) > 1
    BY <1>4 DEF PuntBlock, PuntsMore, MustPunt
  <2>2. PICK s \in Starts : m_svf' = Without(m_svf, s)
    BY <1>4, PuntBlockStep
  <2>3. DOMAIN m_svf' = Starts \ {s}
    BY <2>2 DEF Without, Starts
  <2>4. ASSUME DOMAIN m_svf' = {} PROVE FALSE
    <3>1. Starts = {s}
      BY <2>3, <2>4
    <3> QED
      BY <2>1, <3>1, FS_Singleton
  <2> QED
    BY <2>1, <2>4
<1> QED
  BY <1>2, <1>3, <1>4, PuntSteps

\* When lru_punt() returns the cache is below the bound or has one block left, and
\* the last block is never removed.
THEOREM PuntBound ==
    ASSUME MaxTouch < TouchMod
    PROVE  Spec => PuntReachesBound
<1>1. PuntInv /\ [Next]_vars => PuntInv'
  BY PuntNext
<1>2. PuntInv /\ [Next]_vars =>
        [/\ pc = "lru_punt" /\ pc' = "idle" => m_bytes_total < p.bound \/ Cardinality(Starts) <= 1
         /\ pc = "lru_punt" /\ Starts # {} => DOMAIN m_svf' # {}]_vars
  BY PuntStepBound
<1> QED
  BY <1>1, <1>2, PuntInit, PTL DEF Spec, PuntReachesBound

=============================================================================
