------------------ MODULE SparseVirtualFileIntegrityProofs ------------------
(***************************************************************************)
(* Theorems about the blocks: they stay apart, not empty and counted, each  *)
(* byte at its position, has() is exact and bytes are accounted for, for    *)
(* files of any length and any calls of callers that agree on one version   *)
(* of the file and do not write from inside a gap up to a block.            *)
(***************************************************************************)
EXTENDS SparseVirtualFileProofs

(***************************************************************************)
(* Maps of blocks that are not empty and have a gap between any two         *)
(***************************************************************************)
End(m, s) == s + Len(m[s].data)

Sound(m) ==
    /\ BlocksOK(m)
    /\ \A s \in DOMAIN m : m[s].data # <<>> /\ End(m, s) <= MaxPos
    /\ \A s, t \in DOMAIN m : s < t => End(m, s) < t

LEMMA SoundBlock ==
    ASSUME NEW m, Sound(m), NEW s \in DOMAIN m
    PROVE  /\ s \in Pos /\ s \in Nat /\ s < MaxPos
           /\ m[s].data \in Seq(Byte) /\ m[s].block_touch \in Nat
           /\ Len(m[s].data) \in Nat /\ Len(m[s].data) > 0
           /\ End(m, s) \in Nat /\ End(m, s) = s + Len(m[s].data)
           /\ s < End(m, s) /\ End(m, s) <= MaxPos
<1>1. s \in Pos /\ m[s] \in Block
  BY DEF Sound, BlocksOK
<1>2. s \in Nat /\ s < MaxPos
  BY <1>1, BoundsAssumption DEF Pos
<1>3. m[s].data \in Seq(Byte) /\ m[s].block_touch \in Nat /\ m[s].data # <<>>
  BY <1>1 DEF Block, Sound
<1>4. Len(m[s].data) \in Nat \ {0}
  BY <1>3, EmptySeq
<1> QED
  BY <1>1, <1>2, <1>3, <1>4 DEF End, Sound

LEMMA SoundWithout ==
    ASSUME NEW m, Sound(m), NEW s
    PROVE  Sound(Without(m, s))
<1>1. /\ BlocksOK(Without(m, s)) /\ DOMAIN Without(m, s) = DOMAIN m \ {s}
      /\ \A u \in DOMAIN m \ {s} : Without(m, s)[u] = m[u]
  BY WithoutType DEF Sound
<1> QED
  BY <1>1 DEF Sound, End

LEMMA WithBlocks ==
    ASSUME NEW m, NEW s, NEW d, NEW t
    PROVE  /\ DOMAIN With(m, s, d, t) = DOMAIN m \cup {s}
           /\ With(m, s, d, t)[s].data = d
           /\ With(m, s, d, t)[s].block_touch = t
           /\ \A u \in DOMAIN m \ {s} : With(m, s, d, t)[u] = m[u]
BY DEF With

LEMMA SoundWith ==
    ASSUME NEW m, Sound(m), NEW s \in Pos, NEW d \in Seq(Byte), NEW t \in Nat,
           Len(d) > 0, s + Len(d) <= MaxPos,
           \A u \in DOMAIN m \ {s} : u < s => End(m, u) < s,
           \A u \in DOMAIN m \ {s} : s < u => s + Len(d) < u
    PROVE  Sound(With(m, s, d, t))
<1> DEFINE n == With(m, s, d, t)
<1>1. /\ DOMAIN n = DOMAIN m \cup {s} /\ n[s].data = d
      /\ \A u \in DOMAIN m \ {s} : n[u] = m[u]
  BY DEF With
<1>2. BlocksOK(n)
  BY WithType DEF Sound
<1> HIDE DEF n
<1>3. End(n, s) = s + Len(d) /\ \A u \in DOMAIN m \ {s} : End(n, u) = End(m, u)
  BY <1>1 DEF End
<1>4. d # <<>>
  BY EmptySeq
<1>5. \A u \in DOMAIN n : n[u].data # <<>> /\ End(n, u) <= MaxPos
  BY <1>1, <1>3, <1>4 DEF Sound
<1>6. \A u, v \in DOMAIN n : u < v => End(n, u) < v
  <2>1. \A u \in DOMAIN n : u \in Nat
    BY <1>2, BoundsAssumption DEF BlocksOK, Pos
  <2>2. \A u, v \in DOMAIN m : u < v => End(m, u) < v
    BY DEF Sound
  <2>3. ASSUME NEW u \in DOMAIN n, NEW v \in DOMAIN n, u < v
        PROVE  End(n, u) < v
    <3>1. CASE u = s
      <4>2. v # s
        BY <2>1, <2>3, <3>1
      <4>1. v \in DOMAIN m \ {s}
        BY <1>1, <2>3, <4>2
      <4> QED
        BY <1>3, <2>3, <3>1, <4>1
    <3>2. CASE u # s
      BY <1>1, <1>3, <2>2, <2>3, <3>2
    <3> QED
      BY <3>1, <3>2
  <2> QED
    BY <2>3
<1> QED
  BY <1>2, <1>5, <1>6 DEF Sound, n

LEMMA SoundEmpty == Sound([s \in {} |-> 0])
BY DEF Sound, BlocksOK

(***************************************************************************)
(* How many bytes a map holds                                               *)
(***************************************************************************)
Size(m) == Cardinality(Cells(m))

\* The bytes of one block.
Column(s, n) == {s} \X (1 .. n)

LEMMA ColumnSize ==
    ASSUME NEW s, NEW n \in Nat
    PROVE  IsFiniteSet(Column(s, n)) /\ Cardinality(Column(s, n)) = n
<1>1. IsFiniteSet({s}) /\ Cardinality({s}) = 1
  BY FS_Singleton
<1>2. IsFiniteSet(1 .. n) /\ Cardinality(1 .. n) = n
  BY FS_Interval
<1>3. IsFiniteSet(Column(s, n)) /\ Cardinality(Column(s, n)) = Cardinality({s}) * Cardinality(1 .. n)
  BY <1>1, <1>2, FS_Product DEF Column
<1> QED
  BY <1>1, <1>2, <1>3

\* Two bytes at one position are the same byte.
LEMMA SameCell ==
    ASSUME NEW a \in Nat, NEW b \in Nat, NEW n \in Nat, NEW k \in Nat,
           NEW i \in 1 .. n, NEW j \in 1 .. k, a + i - 1 = b + j - 1,
           a < b => a + n < b, b < a => b + k < a
    PROVE  a = b /\ i = j
OBVIOUS

\* A sound map holds at most the bytes of the file: each is at its own position.
LEMMA SizeBound ==
    ASSUME NEW m, Sound(m)
    PROVE  IsFiniteSet(Cells(m)) /\ Size(m) \in Nat /\ Size(m) <= MaxPos
<1> DEFINE f == [c \in Cells(m) |-> c[1] + c[2] - 1]
<1>1. ASSUME NEW c \in Cells(m)
      PROVE  /\ c[1] \in DOMAIN m /\ c[2] \in 1 .. Len(m[c[1]].data)
             /\ c = <<c[1], c[2]>>
  <2>1. PICK s \in DOMAIN m : c \in {s} \X (1 .. Len(m[s].data))
    BY DEF Cells
  <2> QED
    BY <2>1
<1>2. ASSUME NEW c \in Cells(m)
      PROVE  f[c] \in 0 .. MaxPos - 1
  BY <1>1, SoundBlock, BoundsAssumption, SMTT(30)
<1>3. ASSUME NEW c \in Cells(m), NEW e \in Cells(m), f[c] = f[e]
      PROVE  c = e
  <2>1. /\ c[1] \in DOMAIN m /\ e[1] \in DOMAIN m
        /\ c[2] \in 1 .. Len(m[c[1]].data) /\ e[2] \in 1 .. Len(m[e[1]].data)
        /\ c[1] + c[2] - 1 = e[1] + e[2] - 1
    BY <1>1, <1>3
  <2>2. /\ c[1] \in Nat /\ e[1] \in Nat
        /\ End(m, c[1]) = c[1] + Len(m[c[1]].data) /\ End(m, e[1]) = e[1] + Len(m[e[1]].data)
        /\ Len(m[c[1]].data) \in Nat /\ Len(m[e[1]].data) \in Nat
    BY <2>1, SoundBlock
  <2>3. /\ c[1] < e[1] => c[1] + Len(m[c[1]].data) < e[1]
        /\ e[1] < c[1] => e[1] + Len(m[e[1]].data) < c[1]
    BY <2>1, <2>2 DEF Sound
  <2>4. c[1] = e[1] /\ c[2] = e[2]
    <3> DEFINE a == c[1]
               i == c[2]
               n == Len(m[c[1]].data)
               b == e[1]
               j == e[2]
               k == Len(m[e[1]].data)
    <3>1. /\ a \in Nat /\ b \in Nat /\ n \in Nat /\ k \in Nat /\ i \in 1 .. n /\ j \in 1 .. k
          /\ a + i - 1 = b + j - 1 /\ (a < b => a + n < b) /\ (b < a => b + k < a)
      BY <2>1, <2>2, <2>3
    <3> HIDE DEF a, i, n, b, j, k
    <3>2. a = b /\ i = j
      BY <3>1, SameCell
    <3> QED
      BY <3>2 DEF a, i, b, j
  <2> QED
    BY <1>1, <2>4
<1>4. f \in Injection(Cells(m), 0 .. MaxPos - 1)
  BY <1>2, <1>3 DEF Injection, IsInjective
<1>5. IsFiniteSet(0 .. MaxPos - 1) /\ Cardinality(0 .. MaxPos - 1) = MaxPos
  BY FS_Interval, BoundsAssumption
<1>6. IsFiniteSet(Cells(m)) /\ Cardinality(Cells(m)) <= MaxPos
  BY <1>4, <1>5, FS_Injection
<1> QED
  BY <1>6, FS_CardinalityType DEF Size

\* A block more, or a block less.
LEMMA SizeWithout ==
    ASSUME NEW m, Sound(m), NEW s \in DOMAIN m
    PROVE  Size(Without(m, s)) = Size(m) - Len(m[s].data)
<1> DEFINE c == Column(s, Len(m[s].data))
           rest == Cells(Without(m, s))
<1>1. Cells(m) = rest \cup c /\ rest \cap c = {}
  BY DEF Cells, Without, Column
<1>2. IsFiniteSet(rest) /\ IsFiniteSet(c) /\ Cardinality(c) = Len(m[s].data)
  BY SoundWithout, SizeBound, SoundBlock, ColumnSize
<1>3. Cardinality(rest \cup c) = Cardinality(rest) + Cardinality(c) - Cardinality({})
  BY <1>1, <1>2, FS_Union
<1>4. Cardinality(rest) \in Nat /\ Len(m[s].data) \in Nat /\ Cardinality({}) = 0
  BY <1>2, FS_CardinalityType, SoundBlock, FS_EmptySet
<1> HIDE DEF c, rest
<1>5. Cardinality(Cells(m)) = Cardinality(rest) + Len(m[s].data)
  BY <1>1, <1>2, <1>3, <1>4
<1>6. Cardinality(rest) = Cardinality(Cells(m)) - Len(m[s].data)
  BY <1>4, <1>5
<1> QED
  BY <1>6 DEF Size, rest

LEMMA SizeWith ==
    ASSUME NEW m, Sound(m), NEW s, s \notin DOMAIN m, NEW d \in Seq(Byte), NEW t
    PROVE  Size(With(m, s, d, t)) = Size(m) + Len(d)
<1> DEFINE c == Column(s, Len(d))
<1>1. Cells(With(m, s, d, t)) = Cells(m) \cup c /\ Cells(m) \cap c = {}
  <2> DEFINE n == With(m, s, d, t)
  <2>1. /\ DOMAIN n = DOMAIN m \cup {s} /\ n[s].data = d
        /\ \A u \in DOMAIN m : n[u] = m[u]
    BY DEF With
  <2> HIDE DEF n
  <2>2. Cells(n) = Cells(m) \cup c
    BY <2>1 DEF Cells, Column
  <2>3. Cells(m) \cap c = {}
    BY DEF Cells, Column
  <2> QED
    BY <2>2, <2>3 DEF n
<1>2. Len(d) \in Nat
  BY LenProperties
<1>3. IsFiniteSet(Cells(m)) /\ IsFiniteSet(c) /\ Cardinality(c) = Len(d)
  BY <1>2, SizeBound, ColumnSize
<1> HIDE DEF c
<1>4. Cardinality(Cells(m) \cup c) = Cardinality(Cells(m)) + Cardinality(c) - Cardinality({})
  BY <1>1, <1>3, FS_Union
<1>5. Cardinality(Cells(m)) \in Nat /\ Cardinality({}) = 0
  BY <1>3, FS_CardinalityType, FS_EmptySet
<1>6. Cardinality(Cells(m) \cup c) = Cardinality(Cells(m)) + Len(d)
  BY <1>2, <1>3, <1>4, <1>5
<1> QED
  BY <1>1, <1>6 DEF Size

\* The block at s is replaced.
LEMMA SizeReplace ==
    ASSUME NEW m, Sound(m), NEW s \in DOMAIN m, NEW d \in Seq(Byte), NEW t
    PROVE  Size(With(m, s, d, t)) = Size(m) - Len(m[s].data) + Len(d)
<1>1. s \notin DOMAIN Without(m, s) /\ Sound(Without(m, s))
  BY SoundWithout DEF Without
<1>2. With(m, s, d, t) = With(Without(m, s), s, d, t)
  BY DEF With, Without
<1>3. Size(With(Without(m, s), s, d, t)) = Size(Without(m, s)) + Len(d)
  BY <1>1, SizeWith
<1>4. Size(Without(m, s)) = Size(m) - Len(m[s].data)
  BY SizeWithout
<1> QED
  BY <1>2, <1>3, <1>4

(***************************************************************************)
(* The inductive invariant.  In the loop of _write_new_append_old the new   *)
(* block starts before all that are left and meets the first of them, and   *)
(* the bytes moved to it are counted already; in the other loop the data    *)
(* that is left goes on where the base block ends.                          *)
(***************************************************************************)
NewAppendOldFrame ==
    /\ w.fpos = w.start + Len(w.new)
    /\ w.fpos + Len(w.data) = w.start + w.len
    /\ w.len > 0 /\ w.start + w.len <= MaxPos
    /\ \A s \in Starts : w.fpos < s
    /\ \E s \in Starts : s <= w.start + w.len

AppendNewToOldFrame ==
    /\ w.data # <<>> => w.fpos = AfterBlock(w.start)
    /\ w.fpos + Len(w.data) <= MaxPos

BlockInv ==
    /\ Sound(m_svf)
    /\ pc = "new_append_old" => NewAppendOldFrame
    /\ pc = "append_new_to_old" => AppendNewToOldFrame
    /\ m_bytes_total = IF pc = "new_append_old" THEN Size(m_svf) + Len(w.new) ELSE Size(m_svf)

LEMMA BlockInit == Init => BlockInv
<1> SUFFICES ASSUME Init PROVE BlockInv
  OBVIOUS
<1>1. m_svf = [s \in {} |-> 0] /\ m_bytes_total = 0 /\ pc = "idle"
  BY DEF Init
<1>2. Cells(m_svf) = {}
  BY <1>1 DEF Cells
<1>3. Size(m_svf) = 0
  BY <1>2, FS_EmptySet DEF Size
<1> QED
  BY <1>1, <1>3, SoundEmpty DEF BlockInv

(***************************************************************************)
(* write() starts                                                           *)
(***************************************************************************)
LEMMA NewBlockApart ==
    ASSUME Sound(m_svf), NEW fpos \in Pos, NEW n \in Nat, n > 0,
           IsNewBlock(fpos, n), ~JoinsGap(fpos, n)
    PROVE  \A u \in Starts : \/ u < fpos /\ End(m_svf, u) < fpos
                             \/ fpos + n < u
<1>1. fpos \in Nat /\ BlocksOK(m_svf) /\ MaxPos \in Nat
  BY BoundsAssumption DEF Pos, Sound
<1>2. \A u \in Starts : /\ u \in Nat /\ u < MaxPos /\ u < End(m_svf, u) /\ End(m_svf, u) \in Nat
                        /\ AfterBlock(u) = End(m_svf, u)
  BY SoundBlock DEF Starts, AfterBlock, End
<1>3. \A u, v \in Starts : u < v => End(m_svf, u) < v
  BY DEF Sound, Starts
<1>4. CASE Starts = {}
  BY <1>4
<1>5. CASE Starts # {} /\ fpos > AfterEnd
  <2> DEFINE last == Largest(Starts)
  <2>1. Starts \subseteq 0 .. MaxPos
    BY <1>1, <1>2
  <2>2. last \in Starts /\ \A u \in Starts : u <= last
    BY <1>1, <1>5, <2>1, LargestIn
  <2>3. AfterEnd = AfterBlock(last)
    BY <1>5 DEF AfterEnd
  <2> HIDE DEF last
  <2>4. End(m_svf, last) < fpos
    BY <1>1, <1>2, <1>5, <2>2, <2>3
  <2>5. ASSUME NEW u \in Starts PROVE u < fpos /\ End(m_svf, u) < fpos
    <3>1. CASE u = last
      BY <1>1, <1>2, <2>2, <2>4, <3>1
    <3>2. CASE u # last
      BY <1>1, <1>2, <1>3, <2>2, <2>4, <3>2
    <3> QED
      BY <3>1, <3>2
  <2> QED
    BY <2>5
<1>6. CASE Starts # {} /\ Locate(fpos) > fpos /\ ~MeetsNew(Locate(fpos), fpos, n)
  <2>1. Locate(fpos) \in Starts /\ \A u \in Starts : Locate(fpos) <= u
    BY <1>1, <1>6, LocateType
  <2>2. fpos + n < Locate(fpos)
    BY <1>1, <1>2, <1>6, <2>1 DEF MeetsNew
  <2> QED
    BY <1>1, <1>2, <2>1, <2>2
<1>7. CASE Starts # {} /\ Locate(fpos) <= fpos /\ BeyondBlock(fpos, Locate(fpos))
  <2>1. /\ Locate(fpos) \in Starts /\ End(m_svf, Locate(fpos)) < fpos
        /\ \A u \in Starts : u <= fpos => u <= Locate(fpos)
    BY <1>1, <1>2, <1>7, LocateType DEF BeyondBlock
  <2>2. \A u \in Following(fpos) : ~(u <= fpos + n)
    BY <1>7 DEF JoinsGap
  <2>3. ASSUME NEW u \in Starts, u <= fpos PROVE u < fpos /\ End(m_svf, u) < fpos
    <3>1. CASE u = Locate(fpos)
      BY <1>1, <1>2, <2>1, <3>1
    <3>2. CASE u # Locate(fpos)
      BY <1>1, <1>2, <1>3, <2>1, <2>3, <3>2
    <3> QED
      BY <3>1, <3>2
  <2>4. ASSUME NEW u \in Starts, ~(u <= fpos) PROVE fpos + n < u
    BY <1>1, <1>2, <2>2, <2>4 DEF Following
  <2> QED
    BY <2>3, <2>4
<1> QED
  BY <1>4, <1>5, <1>6, <1>7 DEF IsNewBlock

LEMMA BlockWrite ==
    ASSUME TypeInv, BlockInv, AllowGapJoin = FALSE, NEW fpos \in Pos,
           NEW data \in Seq(Byte), Len(data) > 0, fpos + Len(data) <= MaxPos,
           write(fpos, data)
    PROVE  BlockInv'
<1>1. /\ fpos \in Nat /\ Len(data) \in Nat /\ BlocksOK(m_svf) /\ pc = "idle"
      /\ Sound(m_svf) /\ m_bytes_total = Size(m_svf) /\ m_block_touch \in Nat
      /\ ~JoinsGap(fpos, Len(data))
  BY LenProperties, BoundsAssumption, CountersType, TypeInvBlocks DEF write, Pos, BlockInv
<1>2. CASE IsNewBlock(fpos, Len(data)) /\ _write_new_block(fpos, data)
  <2>1. \A u \in Starts : \/ u < fpos /\ End(m_svf, u) < fpos
                          \/ fpos + Len(data) < u
    BY <1>1, <1>2, NewBlockApart
  <2>2. fpos \notin Starts
    BY <1>1, <2>1
  <2>3. /\ \A u \in DOMAIN m_svf \ {fpos} : u < fpos => End(m_svf, u) < fpos
        /\ \A u \in DOMAIN m_svf \ {fpos} : fpos < u => fpos + Len(data) < u
    BY <1>1, <2>1, SoundBlock DEF Starts
  <2>4. Sound(With(m_svf, fpos, data, m_block_touch))
    BY <1>1, <2>3, SoundWith
  <2>5. Size(With(m_svf, fpos, data, m_block_touch)) = Size(m_svf) + Len(data)
    BY <1>1, <2>2, SizeWith DEF Starts
  <2> QED
    BY <1>1, <1>2, <2>4, <2>5 DEF _write_new_block, BlockInv
<1>3. CASE /\ ~IsNewBlock(fpos, Len(data)) /\ Locate(fpos) > fpos
           /\ BeginNewAppendOld(fpos, data)
  <2>1. Starts # {} /\ Locate(fpos) <= fpos + Len(data)
    BY <1>3 DEF IsNewBlock, MeetsNew
  <2>2. Locate(fpos) \in Starts /\ \A s \in Starts : s \in Nat /\ Locate(fpos) <= s
    BY <1>1, <1>3, <2>1, LocateType, SoundBlock DEF Starts
  <2>3. \A s \in Starts : fpos < s
    BY <1>1, <1>3, <2>2
  <2>4. /\ pc' = "new_append_old" /\ m_svf' = m_svf /\ m_bytes_total' = m_bytes_total
        /\ w'.start = fpos /\ w'.len = Len(data) /\ w'.fpos = fpos /\ w'.data = data /\ w'.new = <<>>
    BY <1>3 DEF BeginNewAppendOld
  <2>5. Len(w'.new) = 0
    BY <2>4, EmptySeq
  <2>6. NewAppendOldFrame'
    BY <1>1, <2>1, <2>2, <2>3, <2>4, <2>5 DEF NewAppendOldFrame, Starts
  <2>7. m_bytes_total' = Size(m_svf') + Len(w'.new)
    BY <1>1, <2>4, <2>5, SizeBound
  <2> QED
    BY <1>1, <2>4, <2>6, <2>7 DEF BlockInv
<1>4. CASE /\ ~IsNewBlock(fpos, Len(data)) /\ ~(Locate(fpos) > fpos)
           /\ BeginAppendNewToOld(Locate(fpos), fpos, data)
  <2> DEFINE base == Locate(fpos)
             old  == m_svf[base].data
             idx  == fpos - base
             n    == Lesser(Len(data), Len(old) - idx)
             diff == Take(data, n) # SubSeq(old, idx + 1, idx + n)
  <2>1. base \in Starts /\ ~BeyondBlock(fpos, base)
    <3>1. Starts # {}
      BY <1>4 DEF IsNewBlock
    <3>2. base \in Starts /\ base \in Nat
      BY <1>1, <3>1, LocateType, BlockType
    <3>3. base <= fpos
      BY <1>1, <1>4, <3>2
    <3> QED
      BY <1>4, <3>2, <3>3 DEF IsNewBlock
  <2>2. /\ base \in Nat /\ base <= fpos /\ Len(old) \in Nat
        /\ fpos <= base + Len(old) /\ AfterBlock(base) = base + Len(old)
    BY <1>1, <1>4, <2>1, BlockType DEF BeyondBlock
  <2>3. n \in Nat /\ n <= Len(data) /\ (n < Len(data) => fpos + n = base + Len(old))
    BY <1>1, <2>2, SMTT(30) DEF Lesser
  <2>4. UNCHANGED <<m_svf, m_bytes_total, m_block_touch, stats, p>>
    BY <1>4 DEF BeginAppendNewToOld
  <2>5. CASE ret' = "diff" /\ UNCHANGED <<pc, w>>
    BY <1>1, <2>4, <2>5 DEF BlockInv, NewAppendOldFrame, AppendNewToOldFrame, Starts
  <2>6. CASE /\ pc' = "append_new_to_old" /\ ret' = "ok"
             /\ w' = [start |-> base, len |-> Len(data), fpos |-> fpos + n,
                      data |-> Drop(data, n), new |-> <<>>, touch |-> 0]
    <3> HIDE DEF n, base
    <3>1. Drop(data, n) \in Seq(Byte) /\ Len(Drop(data, n)) = Len(data) - n
      BY <1>1, <2>3, DropType
    <3>2. Drop(data, n) # <<>> => n < Len(data)
      BY <1>1, <2>3, <3>1, EmptySeq
    <3>3. w'.start = base /\ w'.fpos = fpos + n /\ w'.data = Drop(data, n)
      BY <2>6
    <3>4. AfterBlock(w.start)' = base + Len(old)
      BY <2>4, <3>3 DEF AfterBlock
    <3>5. AppendNewToOldFrame'
      BY <1>1, <2>3, <3>1, <3>2, <3>3, <3>4 DEF AppendNewToOldFrame
    <3> QED
      BY <1>1, <2>4, <2>6, <3>5 DEF BlockInv
  <2>7. \/ ret' = "diff" /\ UNCHANGED <<pc, w>>
        \/ /\ pc' = "append_new_to_old" /\ ret' = "ok"
           /\ w' = [start |-> base, len |-> Len(data), fpos |-> fpos + n,
                    data |-> Drop(data, n), new |-> <<>>, touch |-> 0]
    BY <1>4 DEF BeginAppendNewToOld
  <2> QED
    BY <2>5, <2>6, <2>7
<1> QED
  BY <1>2, <1>3, <1>4 DEF write

(***************************************************************************)
(* The loop of _write_new_append_old                                        *)
(***************************************************************************)
\* Where the iteration stands: the gap reaches the next block, and either that
\* block outlasts the new data or all of it is overwritten.
LEMMA NewAppendOldBlocks ==
    ASSUME TypeInv, BlockInv, pc = "new_append_old"
    PROVE  /\ Sound(m_svf) /\ BlocksOK(m_svf)
           /\ NextBlock \in Starts /\ \A s \in Starts : s \in Nat /\ NextBlock <= s
           /\ End(m_svf, NextBlock) = AfterBlock(NextBlock)
           /\ \A s \in Starts \ {NextBlock} : AfterBlock(NextBlock) < s
           /\ AfterBlock(NextBlock) <= MaxPos
           /\ Len(NextData) > 0
<1>1. Sound(m_svf) /\ BlocksOK(m_svf) /\ Following(w.start) # {} /\ w.start \in Pos
  BY TypeInvBlocks, NewAppendOldType DEF BlockInv
<1>2. w.start \in Nat /\ w.fpos \in Nat /\ Len(w.new) \in Nat
  BY FrameType
<1>3. w.fpos = w.start + Len(w.new) /\ \A s \in Starts : w.fpos < s
  BY DEF BlockInv, NewAppendOldFrame
<1>4. /\ NextBlock \in Starts /\ NextBlock \in Nat
      /\ \A s \in Following(w.start) : NextBlock <= s
  BY <1>1, IterationType
<1>5. \A s \in Starts : s \in Nat
  BY <1>1, BlockType
<1>6. \A s \in Starts : s \in Following(w.start)
  BY <1>2, <1>3, <1>5 DEF Following
<1>7. \A s \in Starts : s \in Nat /\ NextBlock <= s
  BY <1>4, <1>5, <1>6
<1>8. End(m_svf, NextBlock) = AfterBlock(NextBlock)
  BY DEF AfterBlock, End
<1>9. /\ \A s \in Starts : NextBlock < s => End(m_svf, NextBlock) < s
      /\ End(m_svf, NextBlock) <= MaxPos /\ Len(NextData) > 0
  BY <1>1, <1>4, SoundBlock DEF Sound, Starts, NextData
<1>10. \A s \in Starts \ {NextBlock} : NextBlock < s
  BY <1>4, <1>7
<1> QED
  BY <1>1, <1>4, <1>7, <1>8, <1>9, <1>10

LEMMA NewAppendOldNumbers ==
    ASSUME TypeInv, BlockInv, pc = "new_append_old"
    PROVE  /\ w.start \in Nat /\ w.start \in Pos /\ w.len \in Nat /\ w.fpos \in Nat
           /\ NextBlock \in Nat /\ Gap \in Nat /\ Delta \in Nat
           /\ Len(w.new) \in Nat /\ Len(NextData) \in Nat /\ Len(DataAtNext) \in Nat
           /\ w.start + w.len <= MaxPos /\ MaxPos \in Nat
           /\ w.start < NextBlock /\ w.fpos < NextBlock
           /\ w.fpos + Gap = NextBlock
           /\ w.fpos = w.start + Len(w.new)
           /\ NextBlock + Len(DataAtNext) = w.start + w.len
           /\ Len(NewValue) = Len(w.new) + (Gap + Delta)
           /\ Len(DataAfterNext) = Len(DataAtNext) - Delta
           /\ Len(NextTail) = Len(NextData) - Delta
           /\ Delta <= Len(DataAtNext) /\ Delta <= Len(NextData)
           /\ AfterBlock(NextBlock) = NextBlock + Len(NextData)
           /\ NextOutlastsNew => Delta = Len(DataAtNext)
           /\ ~NextOutlastsNew => Delta = Len(NextData)
<1>1. Following(w.start) # {} /\ w.start \in Pos /\ NewAppendOldFrame /\ BlocksOK(m_svf)
  BY TypeInvBlocks, NewAppendOldType DEF BlockInv
<1>2. /\ w.start \in Nat /\ w.len \in Nat /\ w.fpos \in Nat
      /\ Len(w.data) \in Nat /\ Len(w.new) \in Nat /\ MaxPos \in Nat
  BY FrameType, BoundsAssumption
<1>3. /\ w.fpos = w.start + Len(w.new) /\ w.fpos + Len(w.data) = w.start + w.len
      /\ w.start + w.len <= MaxPos
  BY <1>1 DEF NewAppendOldFrame
<1>4. /\ NextBlock \in Starts /\ NextBlock \in Nat
      /\ Len(NextData) \in Nat
      /\ Len(DataAtNext) = Len(w.data) - Gap
  BY <1>1, IterationType, LenProperties
<1>5. w.fpos < NextBlock /\ w.start < NextBlock
  <2>1. w.fpos < NextBlock
    BY <1>1, <1>4 DEF NewAppendOldFrame
  <2> QED
    BY <1>2, <1>3, <1>4, <2>1
<1>6. NextBlock <= w.start + w.len
  <2>1. PICK s \in Starts : s <= w.start + w.len
    BY <1>1 DEF NewAppendOldFrame
  <2>2. s \in Nat /\ NextBlock <= s
    BY NewAppendOldBlocks
  <2> QED
    BY <1>2, <1>4, <2>1, <2>2
<1>7. Gap = NextBlock - w.fpos
  <2>1. NextBlock - w.fpos <= Len(w.data)
    BY <1>2, <1>3, <1>4, <1>6
  <2> QED
    BY <1>2, <1>4, <1>5, <2>1 DEF Gap, Lesser
<1>8. Len(DataAtNext) = w.start + w.len - NextBlock
  <2> DEFINE y == Len(DataAtNext)
             x == Len(w.data)
             g == Gap
             b == NextBlock
             q == w.fpos
             a == w.start
             l == w.len
  <2>1. y = x - g /\ g = b - q /\ q + x = a + l
    BY <1>3, <1>4, <1>7
  <2>2. b \in Nat /\ q \in Nat /\ a \in Nat /\ l \in Nat /\ x \in Nat
    BY <1>2, <1>4
  <2> HIDE DEF y, x, g, b, q, a, l
  <2>3. y = a + l - b
    BY <2>1, <2>2
  <2> QED
    BY <2>3 DEF y, a, l, b
<1>9. Len(DataAtNext) \in Nat /\ NextBlock + Len(DataAtNext) = w.start + w.len
  BY <1>2, <1>4, <1>6, <1>8, SMTT(30)
<1>10. /\ Gap \in Nat /\ Delta \in Nat
       /\ Len(NewValue) = Len(w.new) + (Gap + Delta)
       /\ Len(DataAfterNext) = Len(DataAtNext) - Delta
       /\ Len(NextTail) = Len(NextData) - Delta
  BY NewAppendOldType
<1>11. AfterBlock(NextBlock) = NextBlock + Len(NextData)
  BY DEF AfterBlock, NextData
<1>12. /\ Delta <= Len(DataAtNext) /\ Delta <= Len(NextData)
       /\ NextOutlastsNew => Delta = Len(DataAtNext)
       /\ ~NextOutlastsNew => Delta = Len(NextData)
  BY <1>2, <1>4, <1>9, <1>11 DEF NextOutlastsNew, Delta, Lesser
<1>13. w.fpos + Gap = NextBlock
  BY <1>2, <1>4, <1>7
<1> QED
  BY <1>1, <1>2, <1>3, <1>4, <1>5, <1>9, <1>10, <1>11, <1>12, <1>13

\* How long the pieces of the new block are together.
LEMMA NewAppendOldSums ==
    ASSUME TypeInv, BlockInv, pc = "new_append_old"
    PROVE  /\ w.start + Len(NewValue) = NextBlock + Delta
           /\ w.fpos + Gap + Delta = w.start + Len(NewValue)
           /\ w.fpos + Gap + Delta + Len(DataAfterNext) = w.start + w.len
           /\ w.start + w.len \in Nat
           /\ NextOutlastsNew =>
                /\ Len(NewValue) + Len(NextTail) = Len(w.new) + Gap + Len(NextData)
                /\ w.start + (Len(NewValue) + Len(NextTail)) = AfterBlock(NextBlock)
           /\ ~NextOutlastsNew =>
                /\ Len(NewValue) + Len(DataAfterNext) =
                        Len(w.new) + Gap + Len(NextData) + Len(DataAfterNext)
                /\ w.start + (Len(NewValue) + Len(DataAfterNext)) = w.start + w.len
                /\ w.fpos + Gap + Delta = AfterBlock(NextBlock)
           /\ Len(w.new) + Gap + Len(NextData) >= Len(NextData)
           /\ Len(DataAfterNext) \in Nat
<1> DEFINE a == w.start
           l == w.len
           q == w.fpos
           b == NextBlock
           g == Gap
           e == Delta
           r == Len(w.new)
           x == Len(NextData)
           y == Len(DataAtNext)
           v == Len(NewValue)
           z == Len(DataAfterNext)
           u == Len(NextTail)
           end == AfterBlock(NextBlock)
           out == NextOutlastsNew
<1>1. /\ a \in Nat /\ l \in Nat /\ q \in Nat /\ b \in Nat /\ g \in Nat /\ e \in Nat
      /\ r \in Nat /\ x \in Nat /\ y \in Nat
  BY NewAppendOldNumbers
<1>2. q + g = b /\ q = a + r /\ b + y = a + l /\ v = r + (g + e) /\ z = y - e /\ u = x - e
      /\ end = b + x /\ e <= y
  BY NewAppendOldNumbers
<1>3. (out => e = y) /\ (~out => e = x)
  BY NewAppendOldNumbers
<1> HIDE DEF a, l, q, b, g, e, r, x, y, v, z, u, end, out
<1>4. a + v = b + e /\ q + g + e = a + v /\ q + g + e + z = a + l /\ a + l \in Nat
      /\ r + g + x >= x /\ z \in Nat
  BY <1>1, <1>2
<1>5. v + u = r + g + x /\ a + (v + u) = end
  BY <1>1, <1>2
<1>6. e = x => v + z = r + g + x + z /\ a + (v + z) = a + l /\ q + g + e = end
  BY <1>1, <1>2
<1> QED
  BY <1>3, <1>4, <1>5, <1>6 DEF a, l, q, b, g, e, r, x, y, v, z, u, end, out

\* The new block is inserted in place of the next one and ends where that block or
\* the new data ends.
LEMMA NewAppendOldInsert ==
    ASSUME TypeInv, BlockInv, pc = "new_append_old", NEW d \in Seq(Byte),
           Len(d) > 0, w.start + Len(d) <= MaxPos,
           \A s \in Starts \ {NextBlock} : w.start + Len(d) < s
    PROVE  /\ Sound(With(Without(m_svf, NextBlock), w.start, d, w.touch))
           /\ Size(With(Without(m_svf, NextBlock), w.start, d, w.touch)) =
                Size(m_svf) - Len(NextData) + Len(d)
<1> DEFINE rest == Without(m_svf, NextBlock)
<1>1. /\ w.start \in Pos /\ w.start \in Nat /\ w.touch \in Nat
      /\ w.start < NextBlock /\ NextBlock \in Nat
  BY NewAppendOldNumbers, FrameType
<1>2. /\ NextBlock \in Starts /\ Sound(m_svf)
      /\ \A s \in Starts : s \in Nat /\ w.start < s
  <2>1. \A s \in Starts : s \in Nat /\ NextBlock <= s
    BY NewAppendOldBlocks
  <2> QED
    BY <1>1, <2>1, NewAppendOldBlocks
<1>3. Sound(rest) /\ DOMAIN rest = Starts \ {NextBlock}
  BY <1>2, SoundWithout DEF Starts, Without
<1>4. Size(rest) = Size(m_svf) - Len(NextData)
  BY <1>2, SizeWithout DEF Starts, NextData
<1> HIDE DEF rest
<1>5. w.start \notin DOMAIN rest
  <2>1. \A s \in Starts : s # w.start
    BY <1>1, <1>2
  <2> QED
    BY <1>3, <2>1
<1>6. /\ \A u \in DOMAIN rest \ {w.start} : u < w.start => End(rest, u) < w.start
      /\ \A u \in DOMAIN rest \ {w.start} : w.start < u => w.start + Len(d) < u
  <2>1. \A u \in Starts \ {NextBlock} : ~(u < w.start)
    BY <1>1, <1>2
  <2> QED
    BY <1>3, <2>1
<1>7. Sound(With(rest, w.start, d, w.touch))
  BY <1>1, <1>3, <1>6, SoundWith
<1>8. Size(With(rest, w.start, d, w.touch)) = Size(rest) + Len(d)
  BY <1>3, <1>5, SizeWith
<1> QED
  BY <1>4, <1>7, <1>8 DEF rest

\* No further block meets the new data: what follows the next block starts after it.
LEMMA NoFurtherBlock ==
    ASSUME TypeInv, BlockInv, pc = "new_append_old", ~NextOutlastsNew, ~FurtherBlock,
           NEW s \in Starts \ {NextBlock}
    PROVE  w.start + w.len < s
<1> DEFINE next == Smallest(Following(NextBlock))
<1>1. NextBlock \in Nat /\ \A u \in Starts : u \in Nat /\ NextBlock <= u
  BY NewAppendOldNumbers, NewAppendOldBlocks
<1>2. s \in Following(NextBlock) /\ Following(NextBlock) \subseteq Nat
  BY <1>1 DEF Following
<1>3. next \in Nat /\ next <= s /\ s \in Nat
  BY <1>2, SmallestIn
<1>4. ~MeetsNew(next, w.fpos + Gap + Delta, Len(DataAfterNext))
  BY <1>2 DEF FurtherBlock
<1> HIDE DEF next
<1>5. ~(next <= w.fpos + Gap + Delta + Len(DataAfterNext))
  BY <1>4 DEF MeetsNew
<1>6. w.fpos + Gap + Delta + Len(DataAfterNext) = w.start + w.len
  BY NewAppendOldSums
<1>7. w.start + w.len \in Nat
  BY NewAppendOldSums
<1> QED
  BY <1>3, <1>5, <1>6, <1>7

LEMMA NewAppendOldTailBlocks ==
    ASSUME TypeInv, BlockInv, NewAppendOldTail
    PROVE  BlockInv'
<1> DEFINE d == NewValue \o NextTail
<1>1. /\ m_svf' = With(Without(m_svf, NextBlock), w.start, d, w.touch)
      /\ m_bytes_total' = m_bytes_total + Gap
      /\ pc = "new_append_old" /\ pc' = "idle" /\ NextOutlastsNew
  BY DEF NewAppendOldTail, EndWrite
<1>2. d \in Seq(Byte) /\ Len(d) = Len(NewValue) + Len(NextTail)
  BY <1>1, NewAppendOldType, ConcatType
<1> HIDE DEF d
<1>3. Len(d) = Len(w.new) + Gap + Len(NextData) /\ w.start + Len(d) = AfterBlock(NextBlock)
  BY <1>1, <1>2, NewAppendOldSums
<1>4. Len(d) \in Nat /\ Len(d) >= Len(NextData) /\ Len(NextData) \in Nat
  <2>1. Len(d) >= Len(NextData) /\ Len(NextData) \in Nat
    BY <1>1, <1>3, NewAppendOldSums, NewAppendOldNumbers
  <2> QED
    BY <1>2, <2>1, LenProperties
<1>5. Len(d) > 0 /\ w.start + Len(d) <= MaxPos
      /\ \A s \in Starts \ {NextBlock} : w.start + Len(d) < s
  <2>1. Len(NextData) > 0
    BY <1>1, NewAppendOldBlocks
  <2>2. Len(d) > 0
    BY <1>4, <2>1
  <2> QED
    BY <1>1, <1>3, <2>2, NewAppendOldBlocks
<1>6. Sound(m_svf') /\ Size(m_svf') = Size(m_svf) - Len(NextData) + Len(d)
  BY <1>1, <1>2, <1>5, NewAppendOldInsert
<1>7. m_bytes_total = Size(m_svf) + Len(w.new) /\ Size(m_svf) \in Nat
  BY <1>1, SizeBound DEF BlockInv
<1>8. Gap \in Nat /\ Len(w.new) \in Nat /\ Len(NextData) \in Nat
  BY <1>1, NewAppendOldNumbers
<1>9. m_bytes_total' = Size(m_svf')
  BY <1>1, <1>3, <1>6, <1>7, <1>8
<1> QED
  BY <1>1, <1>6, <1>9 DEF BlockInv

LEMMA NewAppendOldRestBlocks ==
    ASSUME TypeInv, BlockInv, NewAppendOldRest
    PROVE  BlockInv'
<1> DEFINE d == NewValue \o DataAfterNext
<1>1. /\ m_svf' = With(Without(m_svf, NextBlock), w.start, d, w.touch)
      /\ m_bytes_total' = m_bytes_total + Gap + Len(DataAfterNext)
      /\ pc = "new_append_old" /\ pc' = "idle" /\ ~NextOutlastsNew /\ ~FurtherBlock
  BY DEF NewAppendOldRest, EndWrite
<1>2. d \in Seq(Byte) /\ Len(d) = Len(NewValue) + Len(DataAfterNext)
  BY <1>1, NewAppendOldType, ConcatType
<1> HIDE DEF d
<1>3. /\ Len(d) = Len(w.new) + Gap + Len(NextData) + Len(DataAfterNext)
      /\ w.start + Len(d) = w.start + w.len
  BY <1>1, <1>2, NewAppendOldSums
<1>4. w.start + Len(d) <= MaxPos
  BY <1>1, <1>3, NewAppendOldNumbers
<1>5. Len(d) > 0 /\ \A s \in Starts \ {NextBlock} : w.start + Len(d) < s
  <2>1. Len(NextData) > 0 /\ Len(NextData) \in Nat
    BY <1>1, NewAppendOldBlocks, NewAppendOldNumbers
  <2>2. Len(w.new) \in Nat /\ Gap \in Nat /\ Len(DataAfterNext) \in Nat
    BY <1>1, NewAppendOldNumbers, NewAppendOldSums
  <2>3. Len(d) > 0
    BY <1>3, <2>1, <2>2
  <2> QED
    BY <1>1, <1>3, <2>3, NoFurtherBlock
<1>6. Sound(m_svf') /\ Size(m_svf') = Size(m_svf) - Len(NextData) + Len(d)
  BY <1>1, <1>2, <1>4, <1>5, NewAppendOldInsert
<1>7. m_bytes_total = Size(m_svf) + Len(w.new) /\ Size(m_svf) \in Nat
  BY <1>1, SizeBound DEF BlockInv
<1>8. Gap \in Nat /\ Len(w.new) \in Nat /\ Len(NextData) \in Nat /\ Len(DataAfterNext) \in Nat
  BY <1>1, NewAppendOldNumbers, NewAppendOldSums
<1>9. m_bytes_total' = Size(m_svf')
  BY <1>1, <1>3, <1>6, <1>7, <1>8, SMTT(30)
<1> QED
  BY <1>1, <1>6, <1>9 DEF BlockInv

LEMMA NewAppendOldContinueBlocks ==
    ASSUME TypeInv, BlockInv, NewAppendOldContinue
    PROVE  BlockInv'
<1>1. /\ m_svf' = Without(m_svf, NextBlock) /\ m_bytes_total' = m_bytes_total + Gap
      /\ w' = [w EXCEPT !.fpos = @ + Gap + Delta, !.data = DataAfterNext, !.new = NewValue]
      /\ pc = "new_append_old" /\ pc' = pc /\ ~NextOutlastsNew /\ FurtherBlock
  BY DEF NewAppendOldContinue
<1>2. /\ w'.start = w.start /\ w'.len = w.len /\ w'.fpos = w.fpos + Gap + Delta
      /\ w'.data = DataAfterNext /\ w'.new = NewValue
  BY <1>1 DEF TypeInv, TypeOK, WriteFrame
<1>3. Starts' = Starts \ {NextBlock} /\ Sound(m_svf')
  BY <1>1, SoundWithout, NewAppendOldBlocks DEF Starts, Without
<1>4. w'.fpos = AfterBlock(NextBlock)
  BY <1>1, <1>2, NewAppendOldSums
<1>5. \A s \in Starts' : w'.fpos < s
  BY <1>1, <1>3, <1>4, NewAppendOldBlocks
<1>6. \E s \in Starts' : s <= w.start + w.len
  <2> DEFINE next == Smallest(Following(NextBlock))
  <2>1. Following(NextBlock) # {} /\ MeetsNew(next, w.fpos + Gap + Delta, Len(DataAfterNext))
    BY <1>1 DEF FurtherBlock
  <2>2. Following(NextBlock) \subseteq Nat
    BY <1>1, NewAppendOldBlocks DEF Following
  <2>3. next \in Following(NextBlock)
    BY <2>1, <2>2, SmallestIn
  <2> HIDE DEF next
  <2>4. next \in Starts /\ next > NextBlock /\ next \in Nat /\ NextBlock \in Nat
    BY <1>1, <2>2, <2>3, NewAppendOldNumbers DEF Following
  <2>5. next \in Starts'
    BY <1>3, <2>4
  <2>6. next <= w.fpos + Gap + Delta + Len(DataAfterNext)
    BY <2>1 DEF MeetsNew
  <2>7. w.fpos + Gap + Delta + Len(DataAfterNext) = w.start + w.len
    BY <1>1, NewAppendOldSums
  <2> QED
    BY <2>5, <2>6, <2>7
<1>7. /\ w.fpos + Gap + Delta = w.start + Len(NewValue)
      /\ w.fpos + Gap + Delta + Len(DataAfterNext) = w.start + w.len
  BY <1>1, NewAppendOldSums
<1>8. w.len > 0 /\ w.start + w.len <= MaxPos
  BY <1>1 DEF BlockInv, NewAppendOldFrame
<1>9. NewAppendOldFrame'
  BY <1>2, <1>5, <1>6, <1>7, <1>8 DEF NewAppendOldFrame
<1>10. Size(m_svf') = Size(m_svf) - Len(NextData)
  BY <1>1, SizeWithout, NewAppendOldBlocks DEF Starts, NextData
<1>11. m_bytes_total = Size(m_svf) + Len(w.new) /\ Size(m_svf) \in Nat
  BY <1>1, SizeBound DEF BlockInv
<1>12. /\ Gap \in Nat /\ Len(w.new) \in Nat /\ Len(NextData) \in Nat
       /\ Len(NewValue) = Len(w.new) + (Gap + Len(NextData))
  BY <1>1, NewAppendOldNumbers
<1>13. m_bytes_total' = Size(m_svf') + Len(w'.new)
  BY <1>1, <1>2, <1>10, <1>11, <1>12
<1> QED
  BY <1>1, <1>3, <1>9, <1>13 DEF BlockInv

(***************************************************************************)
(* The loop of _write_append_new_to_old                                     *)
(***************************************************************************)
LEMMA AppendNumbers ==
    ASSUME TypeInv, BlockInv, pc = "append_new_to_old", w.data # <<>>
    PROVE  /\ w.start \in Starts /\ w.start \in Pos /\ w.start \in Nat /\ w.fpos \in Nat
           /\ Len(w.data) \in Nat /\ Len(w.data) > 0 /\ Len(BaseData) \in Nat /\ Len(BaseData) > 0
           /\ w.fpos = w.start + Len(BaseData) /\ w.fpos + Len(w.data) <= MaxPos
           /\ MaxPos \in Nat
<1>1. w.start \in Starts /\ w.start \in Pos
  BY AppendType
<1>2. w.fpos = AfterBlock(w.start) /\ w.fpos + Len(w.data) <= MaxPos /\ Sound(m_svf)
  BY DEF BlockInv, AppendNewToOldFrame
<1>3. Len(BaseData) \in Nat /\ Len(BaseData) > 0
  BY <1>1, <1>2, SoundBlock DEF BaseData, Starts
<1>4. w.start \in Nat /\ w.fpos \in Nat /\ Len(w.data) \in Nat /\ Len(w.data) > 0 /\ MaxPos \in Nat
  BY FrameType, BoundsAssumption, EmptySeq
<1> QED
  BY <1>1, <1>2, <1>3, <1>4 DEF AfterBlock, BaseData

LEMMA AppendNextBlock ==
    ASSUME TypeInv, BlockInv, pc = "append_new_to_old", w.data # <<>>, Following(w.start) # {}
    PROVE  /\ NextBlock \in Starts /\ NextBlock \in Nat /\ w.start < NextBlock
           /\ \A s \in Starts : w.start < s => NextBlock <= s
           /\ w.fpos < NextBlock
           /\ Len(NextData) \in Nat /\ Len(NextData) > 0
           /\ AfterBlock(NextBlock) = NextBlock + Len(NextData)
           /\ AfterBlock(NextBlock) = End(m_svf, NextBlock)
           /\ AfterBlock(NextBlock) <= MaxPos
           /\ \A s \in Starts : NextBlock < s => AfterBlock(NextBlock) < s
           /\ Gap \in Nat /\ Len(DataAtNext) \in Nat /\ Len(DataAtNext) = Len(w.data) - Gap
           /\ Gap = Lesser(Len(w.data), NextBlock - w.fpos)
<1>1. /\ NextBlock \in Starts /\ NextBlock \in Nat /\ w.start < NextBlock
      /\ \A s \in Following(w.start) : NextBlock <= s
      /\ Gap \in 0 .. Len(w.data) /\ Len(DataAtNext) = Len(w.data) - Gap
  <2>1. NextBlock > w.start /\ w.start \in Nat
    BY IterationType, FrameType
  <2> QED
    BY <2>1, IterationType
<1>2. Sound(m_svf) /\ w.start \in Starts /\ w.fpos = End(m_svf, w.start)
  BY AppendNumbers DEF BlockInv, AppendNewToOldFrame, AfterBlock, End
<1>3. w.fpos < NextBlock
  BY <1>1, <1>2 DEF Sound, Starts
<1>4. /\ Len(NextData) \in Nat /\ Len(NextData) > 0
      /\ AfterBlock(NextBlock) = NextBlock + Len(NextData)
      /\ AfterBlock(NextBlock) = End(m_svf, NextBlock)
      /\ AfterBlock(NextBlock) <= MaxPos
      /\ \A s \in Starts : NextBlock < s => AfterBlock(NextBlock) < s
  BY <1>1, <1>2, SoundBlock DEF Sound, Starts, NextData, AfterBlock, End
<1>5. \A s \in Starts : w.start < s => NextBlock <= s
  <2>1. \A s \in Starts : s \in Nat
    BY <1>2, SoundBlock DEF Starts
  <2> QED
    BY <1>1, <2>1, FrameType DEF Following
<1>6. Gap \in Nat /\ Len(DataAtNext) \in Nat
  <2>1. Len(w.data) \in Nat
    BY FrameType
  <2> QED
    BY <1>1, <2>1
<1>7. Gap = Lesser(Len(w.data), NextBlock - w.fpos)
  BY <1>3 DEF Gap
<1> QED
  BY <1>1, <1>3, <1>4, <1>5, <1>6, <1>7

\* A difference that fits in size_t is what the subtraction gives: nothing wraps.
LEMMA SubFits ==
    ASSUME NEW a \in Nat, NEW b \in Nat, b <= a, a - b < SizeMod
    PROVE  SizeSub(a, b) = a - b
<1> DEFINE d == a - b
<1>1. d \in Nat /\ d < SizeMod /\ SizeMod \in Nat
  BY BoundsAssumption
<1> HIDE DEF d
<1>2. d % SizeMod = d
  BY <1>1
<1> QED
  BY <1>2 DEF SizeSub, d

\* A next block the loop reaches starts where the gap ends, and the subtraction in
\* size_t does not wrap around.
LEMMA AppendReaches ==
    ASSUME TypeInv, BlockInv, pc = "append_new_to_old", w.data # <<>>, ReachesNext
    PROVE  /\ w.fpos + Gap = NextBlock
           /\ AppendCheck = Lesser(Len(DataAtNext), Len(NextData))
           /\ AppendCheck \in Nat
           /\ AppendCheck <= Len(DataAtNext) /\ AppendCheck <= Len(NextData)
           /\ AppendCheck # Len(DataAtNext) => AppendCheck = Len(NextData)
<1>1. Following(w.start) # {} /\ (DataAtNext # <<>> \/ w.fpos + Gap >= NextBlock)
  BY DEF ReachesNext
<1>2. /\ NextBlock \in Nat /\ w.fpos < NextBlock /\ Len(NextData) \in Nat
      /\ AfterBlock(NextBlock) = NextBlock + Len(NextData) /\ AfterBlock(NextBlock) <= MaxPos
      /\ Gap \in Nat /\ Len(DataAtNext) \in Nat /\ Len(DataAtNext) = Len(w.data) - Gap
      /\ Gap = Lesser(Len(w.data), NextBlock - w.fpos)
  BY <1>1, AppendNextBlock
<1>3. w.fpos \in Nat /\ Len(w.data) \in Nat /\ DataAtNext \in Seq(Byte)
  BY <1>1, FrameType, IterationType
<1>4. DataAtNext # <<>> => Len(DataAtNext) # 0
  BY <1>3, EmptySeq
<1>5. w.fpos + Gap = NextBlock
  BY <1>1, <1>2, <1>3, <1>4 DEF Lesser
<1>6. AfterBlock(NextBlock) - (w.fpos + Gap) = Len(NextData)
  BY <1>2, <1>5
<1>7. Len(NextData) < SizeMod /\ SizeMod \in Nat
  BY <1>2, BoundsAssumption
<1>8. SizeSub(AfterBlock(NextBlock), w.fpos + Gap) = Len(NextData)
  <2>1. AfterBlock(NextBlock) \in Nat /\ w.fpos + Gap \in Nat
        /\ w.fpos + Gap <= AfterBlock(NextBlock)
    BY <1>2, <1>3, <1>5
  <2> QED
    BY <2>1, <1>6, <1>7, SubFits
<1> QED
  BY <1>2, <1>5, <1>8 DEF AppendCheck, Lesser

\* The base block may be replaced by one that ends before the next.
LEMMA ReplaceBase ==
    ASSUME NEW m, Sound(m), NEW s \in DOMAIN m, NEW d \in Seq(Byte), NEW t \in Nat,
           Len(d) > 0, s + Len(d) <= MaxPos, \A u \in DOMAIN m : s < u => s + Len(d) < u
    PROVE  Sound(With(m, s, d, t)) /\ Size(With(m, s, d, t)) = Size(m) - Len(m[s].data) + Len(d)
<1>1. \A u \in DOMAIN m \ {s} : u < s => End(m, u) < s
  BY DEF Sound
<1>2. s \in Pos
  BY SoundBlock
<1> QED
  BY <1>1, <1>2, SoundWith, SizeReplace

LEMMA AppendRestBlocks ==
    ASSUME TypeInv, BlockInv, AppendRest
    PROVE  BlockInv'
<1> DEFINE d == BaseData \o w.data
<1>1. /\ pc = "append_new_to_old" /\ w.data # <<>> /\ ~ReachesNext
      /\ m_svf' = With(m_svf, w.start, d, BaseTouch)
      /\ m_bytes_total' = m_bytes_total + Len(w.data)
      /\ w' = [w EXCEPT !.fpos = @ + Len(w.data), !.data = <<>>] /\ pc' = pc
  BY DEF AppendRest
<1>2. d \in Seq(Byte) /\ Len(d) = Len(BaseData) + Len(w.data)
  BY <1>1, AppendType, FrameType, ConcatType
<1> HIDE DEF d
<1>3. /\ w.start + Len(d) = w.fpos + Len(w.data) /\ Len(d) > 0 /\ w.start + Len(d) <= MaxPos
  BY <1>1, <1>2, AppendNumbers
<1>4. \A u \in Starts : w.start < u => w.start + Len(d) < u
  <2>1. SUFFICES ASSUME NEW u \in Starts, w.start < u
                 PROVE  w.fpos + Len(w.data) < u
    BY <1>3
  <2>2. w.fpos \in Nat /\ Len(w.data) \in Nat /\ w.start \in Nat /\ u \in Nat
    BY FrameType, SoundBlock DEF BlockInv, Starts
  <2>3. u \in Following(w.start)
    BY <2>1, <2>2 DEF Following
  <2>4. DataAtNext = <<>> /\ ~(w.fpos + Gap >= NextBlock)
    BY <1>1, <2>3 DEF ReachesNext
  <2>5. Len(DataAtNext) = 0
    BY <2>4, EmptySeq
  <2>6. /\ NextBlock \in Nat /\ NextBlock <= u /\ Gap \in Nat
        /\ Len(DataAtNext) = Len(w.data) - Gap
    BY <1>1, <2>1, <2>3, AppendNextBlock
  <2> QED
    BY <2>2, <2>4, <2>5, <2>6
<1>5. Sound(m_svf) /\ w.start \in Starts /\ BaseTouch \in Nat
  BY <1>1, AppendType DEF BlockInv
<1>6. Sound(m_svf') /\ Size(m_svf') = Size(m_svf) - Len(BaseData) + Len(d)
  BY <1>1, <1>2, <1>3, <1>4, <1>5, ReplaceBase DEF Starts, BaseData
<1>7. m_bytes_total = Size(m_svf) /\ Size(m_svf) \in Nat
  BY <1>1, SizeBound DEF BlockInv
<1>8. Len(BaseData) \in Nat /\ Len(w.data) \in Nat
  BY <1>1, AppendNumbers
<1>9. m_bytes_total' = Size(m_svf')
  BY <1>1, <1>2, <1>6, <1>7, <1>8
<1>10. w'.data = <<>> /\ w'.fpos = w.fpos + Len(w.data)
  BY <1>1 DEF TypeInv, TypeOK, WriteFrame
<1>11. w'.fpos + Len(w'.data) <= MaxPos
  <2>1. Len(w'.data) = 0
    BY <1>10, EmptySeq
  <2> QED
    BY <1>1, <1>10, <2>1, AppendNumbers
<1> QED
  BY <1>1, <1>6, <1>9, <1>10, <1>11 DEF BlockInv, AppendNewToOldFrame

LEMMA AppendCoalesceBlocks ==
    ASSUME TypeInv, BlockInv, AppendCoalesce
    PROVE  BlockInv'
<1> DEFINE n     == AppendCheck
           tail  == IF n = Len(DataAtNext) THEN Drop(NextData, n) ELSE <<>>
           grown == GrownBase \o Take(DataAtNext, n) \o tail
           rest  == Without(m_svf, NextBlock)
<1>1. /\ pc = "append_new_to_old" /\ w.data # <<>> /\ ReachesNext /\ pc' = pc
      /\ m_svf' = With(rest, w.start, grown, BaseTouch)
      /\ w' = [w EXCEPT !.fpos = @ + Gap + n, !.data = Drop(DataAtNext, n)]
      /\ m_bytes_total' = m_bytes_total + Gap
  BY DEF AppendCoalesce
<1>2. Following(w.start) # {}
  BY <1>1 DEF ReachesNext
<1>3. /\ n \in Nat /\ n <= Len(DataAtNext) /\ n <= Len(NextData)
      /\ n # Len(DataAtNext) => n = Len(NextData)
      /\ w.fpos + Gap = NextBlock
  BY <1>1, AppendReaches
<1>4. /\ DataAtNext \in Seq(Byte) /\ Len(DataAtNext) \in Nat
      /\ NextData \in Seq(Byte) /\ Len(NextData) \in Nat /\ Len(NextData) > 0
      /\ Gap \in Nat /\ GrownBase \in Seq(Byte) /\ Len(GrownBase) = Len(BaseData) + Gap
      /\ Len(BaseData) \in Nat
  BY <1>1, <1>2, IterationType, AppendNextBlock, AppendType, AppendNumbers
<1> HIDE DEF n
<1>5. /\ Take(DataAtNext, n) \in Seq(Byte) /\ Len(Take(DataAtNext, n)) = n
      /\ Drop(DataAtNext, n) \in Seq(Byte) /\ Len(Drop(DataAtNext, n)) = Len(DataAtNext) - n
      /\ tail \in Seq(Byte) /\ n + Len(tail) = Len(NextData)
  <2>1. /\ Take(DataAtNext, n) \in Seq(Byte) /\ Len(Take(DataAtNext, n)) = n
    BY <1>3, <1>4, TakeType
  <2>2. /\ Drop(DataAtNext, n) \in Seq(Byte) /\ Len(Drop(DataAtNext, n)) = Len(DataAtNext) - n
        /\ Drop(NextData, n) \in Seq(Byte) /\ Len(Drop(NextData, n)) = Len(NextData) - n
    BY <1>3, <1>4, DropType
  <2>3. <<>> \in Seq(Byte) /\ Len(<<>>) = 0
    OBVIOUS
  <2> QED
    BY <1>3, <1>4, <2>1, <2>2, <2>3
<1> HIDE DEF tail
<1>6. grown \in Seq(Byte) /\ Len(grown) = Len(BaseData) + Gap + Len(NextData)
  <2>1. /\ GrownBase \o Take(DataAtNext, n) \in Seq(Byte)
        /\ Len(GrownBase \o Take(DataAtNext, n)) = Len(GrownBase) + n
    BY <1>4, <1>5, ConcatType
  <2>2. grown \in Seq(Byte) /\ Len(grown) = Len(GrownBase) + n + Len(tail)
    BY <1>5, <2>1, ConcatType
  <2>3. Len(tail) \in Nat /\ n + Len(tail) = Len(NextData) /\ n \in Nat
    BY <1>3, <1>5, LenProperties
  <2>4. Len(GrownBase) = Len(BaseData) + Gap /\ Len(BaseData) \in Nat /\ Gap \in Nat
    BY <1>4
  <2> HIDE DEF grown
  <2>5. Len(grown) = Len(BaseData) + Gap + Len(NextData)
    BY <2>2, <2>3, <2>4
  <2> QED
    BY <2>2, <2>5
<1> HIDE DEF grown
<1>7. w.start + Len(grown) = AfterBlock(NextBlock) /\ Len(grown) > 0
  <2>1. w.fpos = w.start + Len(BaseData) /\ w.start \in Nat
    BY <1>1, AppendNumbers
  <2>2. AfterBlock(NextBlock) = NextBlock + Len(NextData) /\ w.fpos + Gap = NextBlock
    BY <1>1, <1>2, <1>3, AppendNextBlock
  <2>3. Len(BaseData) \in Nat /\ Gap \in Nat /\ Len(NextData) \in Nat /\ Len(NextData) > 0
    BY <1>4
  <2>4. Len(grown) = Len(BaseData) + Gap + Len(NextData)
    BY <1>6
  <2> QED
    BY <2>1, <2>2, <2>3, <2>4
<1>8. /\ Sound(m_svf) /\ NextBlock \in Starts /\ w.start \in Starts /\ w.start < NextBlock
      /\ w.start \in Nat /\ BaseTouch \in Nat
  BY <1>1, <1>2, AppendNextBlock, AppendType, FrameType DEF BlockInv
<1>9. /\ Sound(rest) /\ DOMAIN rest = Starts \ {NextBlock} /\ w.start \in DOMAIN rest
      /\ rest[w.start].data = BaseData
  <2>1. NextBlock \in Nat
    BY <1>1, <1>2, AppendNextBlock
  <2>2. w.start # NextBlock
    BY <1>8, <2>1
  <2> QED
    BY <1>8, <2>2, SoundWithout DEF Starts, Without, BaseData
<1>10. Size(rest) = Size(m_svf) - Len(NextData)
  BY <1>8, SizeWithout DEF Starts, NextData
<1>11. w.start + Len(grown) <= MaxPos /\ \A u \in DOMAIN rest : w.start < u => w.start + Len(grown) < u
  <2>1. AfterBlock(NextBlock) <= MaxPos
    BY <1>1, <1>2, AppendNextBlock
  <2>2. ASSUME NEW u \in Starts \ {NextBlock}, w.start < u
        PROVE  AfterBlock(NextBlock) < u
    <3>1. NextBlock <= u /\ NextBlock \in Nat /\ u \in Nat
      BY <1>1, <1>2, <1>8, <2>2, AppendNextBlock, SoundBlock DEF Starts
    <3>2. NextBlock < u
      BY <2>2, <3>1
    <3> QED
      BY <1>1, <1>2, <3>2, AppendNextBlock
  <2> QED
    BY <1>7, <1>9, <2>1, <2>2
<1> HIDE DEF rest
<1>12. Sound(m_svf') /\ Size(m_svf') = Size(rest) - Len(BaseData) + Len(grown)
  BY <1>1, <1>6, <1>7, <1>8, <1>9, <1>11, ReplaceBase
<1>13. m_bytes_total = Size(m_svf) /\ Size(m_svf) \in Nat
  BY <1>1, <1>8, SizeBound DEF BlockInv
<1>14. m_bytes_total' = Size(m_svf')
  BY <1>1, <1>4, <1>6, <1>10, <1>12, <1>13
<1>15. w'.data = Drop(DataAtNext, n) /\ w'.fpos = w.fpos + Gap + n /\ w'.start = w.start
  BY <1>1 DEF TypeInv, TypeOK, WriteFrame
<1>16. AfterBlock(w.start)' = AfterBlock(NextBlock)
  <2>1. m_svf'[w.start].data = grown
    BY <1>1 DEF With
  <2> QED
    BY <1>7, <1>15, <2>1 DEF AfterBlock
<1>17. w'.data # <<>> => w'.fpos = AfterBlock(w.start)'
  <2>1. SUFFICES ASSUME w'.data # <<>> PROVE w'.fpos = AfterBlock(NextBlock)
    BY <1>16
  <2>2. Len(w'.data) # 0
    BY <1>5, <1>15, <2>1, EmptySeq
  <2>3. n = Len(NextData)
    BY <1>3, <1>4, <1>5, <1>15, <2>2, SMTT(30)
  <2>4. AfterBlock(NextBlock) = NextBlock + Len(NextData)
    BY <1>1, <1>2, AppendNextBlock
  <2> QED
    BY <1>3, <1>15, <2>3, <2>4
<1>18. w'.fpos + Len(w'.data) <= MaxPos
  <2>1. w.fpos + Len(w.data) <= MaxPos /\ Len(w.data) \in Nat /\ w.fpos \in Nat /\ MaxPos \in Nat
    BY <1>1, AppendNumbers
  <2>2. Len(DataAtNext) = Len(w.data) - Gap
    BY <1>1, <1>2, AppendNextBlock
  <2>3. Len(w'.data) = Len(DataAtNext) - n /\ w'.fpos = w.fpos + Gap + n
    BY <1>5, <1>15
  <2>4. n \in Nat /\ Gap \in Nat
    BY <1>3, <1>4
  <2> DEFINE f == w.fpos
             l == Len(w.data)
             g == Gap
  <2>5. f \in Nat /\ l \in Nat /\ g \in Nat /\ f + l <= MaxPos /\ MaxPos \in Nat
    BY <2>1, <2>4
  <2>6. w'.fpos = f + g + n /\ Len(w'.data) = (l - g) - n
    BY <2>2, <2>3
  <2> HIDE DEF f, l, g
  <2>7. (f + g + n) + ((l - g) - n) <= MaxPos
    BY <2>4, <2>5
  <2> QED
    BY <2>6, <2>7
<1> QED
  BY <1>1, <1>12, <1>14, <1>17, <1>18 DEF BlockInv, AppendNewToOldFrame

LEMMA AppendEndBlocks ==
    ASSUME TypeInv, BlockInv, AppendEnd
    PROVE  BlockInv'
<1>1. /\ pc = "append_new_to_old" /\ pc' = "idle" /\ m_bytes_total' = m_bytes_total
      /\ m_svf' = With(m_svf, w.start, BaseData, m_block_touch)
  BY DEF AppendEnd, EndWrite
<1>2. /\ Sound(m_svf) /\ w.start \in Starts /\ BaseData \in Seq(Byte) /\ m_block_touch \in Nat
  BY <1>1, AppendType, CountersType DEF BlockInv
<1>3. /\ w.start + Len(BaseData) = End(m_svf, w.start) /\ Len(BaseData) > 0
      /\ Len(BaseData) \in Nat /\ End(m_svf, w.start) <= MaxPos
      /\ \A u \in Starts : w.start < u => End(m_svf, w.start) < u
  BY <1>2, SoundBlock DEF Starts, BaseData, Sound
<1>4. Sound(m_svf') /\ Size(m_svf') = Size(m_svf) - Len(BaseData) + Len(BaseData)
  BY <1>1, <1>2, <1>3, ReplaceBase DEF Starts, BaseData
<1>5. m_bytes_total = Size(m_svf) /\ Size(m_svf) \in Nat
  BY <1>1, <1>2, SizeBound DEF BlockInv
<1>6. m_bytes_total' = Size(m_svf')
  BY <1>1, <1>3, <1>4, <1>5
<1> QED
  BY <1>1, <1>4, <1>6 DEF BlockInv

(***************************************************************************)
(* read(), erase(), clear() and lru_punt()                                  *)
(***************************************************************************)
LEMMA SameData ==
    ASSUME NEW m, NEW n, Sound(m), BlocksOK(n), DOMAIN n = DOMAIN m,
           \A s \in DOMAIN m : n[s].data = m[s].data
    PROVE  Sound(n) /\ Size(n) = Size(m)
<1>1. Sound(n)
  BY DEF Sound, End
<1>2. Cells(n) = Cells(m)
  BY DEF Cells
<1> QED
  BY <1>1, <1>2 DEF Size

LEMMA BlockRead ==
    ASSUME TypeInv, BlockInv, NEW fpos \in Pos, NEW len, read(fpos, len)
    PROVE  BlockInv'
<1> DEFINE s == Locate(fpos)
<1>1. /\ pc = "idle" /\ pc' = pc /\ m_bytes_total' = m_bytes_total /\ s \in Starts
      /\ m_svf' = [m_svf EXCEPT ![s].block_touch = m_block_touch]
  BY DEF read, CanRead
<1> HIDE DEF s
<1>2. m_block_touch \in Nat /\ BlocksOK(m_svf) /\ Sound(m_svf) /\ m_bytes_total = Size(m_svf)
  BY <1>1, CountersType, TypeInvBlocks DEF BlockInv
<1>3. /\ DOMAIN m_svf' = DOMAIN m_svf /\ BlocksOK(m_svf')
      /\ \A u \in DOMAIN m_svf : m_svf'[u].data = m_svf[u].data
  BY <1>1, <1>2 DEF BlocksOK, Block, Starts
<1>4. Sound(m_svf') /\ Size(m_svf') = Size(m_svf)
  BY <1>2, <1>3, SameData
<1> QED
  BY <1>1, <1>2, <1>4 DEF BlockInv

\* A block erased takes its bytes out of m_bytes_total, which does not wrap around.
LEMMA BlockErased ==
    ASSUME TypeInv, BlockInv, pc \in {"idle", "lru_punt"}, NEW s \in Starts, NEW punted,
           _erase_no_lock(s, punted)
    PROVE  /\ Sound(m_svf') /\ m_bytes_total' = Size(m_svf')
           /\ m_bytes_total = m_bytes_total' + Len(m_svf[s].data)
           /\ Len(m_svf[s].data) \in Nat
<1>1. /\ m_svf' = Without(m_svf, s) /\ m_bytes_total' = SizeSub(m_bytes_total, Len(m_svf[s].data))
  BY DEF _erase_no_lock
<1>2. Sound(m_svf) /\ m_bytes_total = Size(m_svf)
  BY DEF BlockInv
<1>3. Sound(m_svf') /\ Size(m_svf') = Size(m_svf) - Len(m_svf[s].data)
  BY <1>1, <1>2, SoundWithout, SizeWithout DEF Starts
<1>4. /\ Size(m_svf') \in Nat /\ Size(m_svf') <= MaxPos /\ Size(m_svf) \in Nat
      /\ Len(m_svf[s].data) \in Nat /\ SizeMod \in Nat /\ MaxPos < SizeMod /\ MaxPos \in Nat
  BY <1>2, <1>3, SizeBound, SoundBlock, BoundsAssumption DEF Starts
<1>5. SizeSub(m_bytes_total, Len(m_svf[s].data)) = Size(m_svf) - Len(m_svf[s].data)
  <2>1. /\ Len(m_svf[s].data) <= Size(m_svf)
        /\ Size(m_svf) - Len(m_svf[s].data) < SizeMod
    BY <1>3, <1>4
  <2> QED
    BY <1>2, <1>4, <2>1, SubFits
<1> QED
  BY <1>1, <1>2, <1>3, <1>4, <1>5

LEMMA BlockFewer ==
    ASSUME TypeInv, BlockInv,
           \/ \E fpos \in Pos : erase(fpos) \/ eraseThrows(fpos)
           \/ \E fpos \in Pos, len \in Nat : readThrows(fpos, len)
           \/ clear \/ \E bound \in 0 .. MaxBound : lru_punt(bound)
           \/ PuntBlock \/ PuntEnd
    PROVE  BlockInv'
<1>1. CASE \E fpos \in Pos : erase(fpos)
  <2>1. PICK fpos \in Pos : erase(fpos)
    BY <1>1
  <2>2. pc = "idle" /\ pc' = pc /\ fpos \in Starts /\ _erase_no_lock(fpos, 0)
    BY <2>1 DEF erase
  <2> QED
    BY <2>2, BlockErased DEF BlockInv
<1>2. CASE \/ \E fpos \in Pos : eraseThrows(fpos)
           \/ \E fpos \in Pos, len \in Nat : readThrows(fpos, len)
           \/ \E bound \in 0 .. MaxBound : lru_punt(bound)
           \/ PuntEnd
  <2>1. /\ UNCHANGED <<m_svf, m_bytes_total>> /\ pc \in {"idle", "lru_punt"}
        /\ pc' \in {"idle", "lru_punt"}
    BY <1>2 DEF eraseThrows, readThrows, lru_punt, PuntEnd
  <2> QED
    BY <2>1 DEF BlockInv
<1>3. CASE clear
  <2>1. m_svf' = [s \in {} |-> 0] /\ m_bytes_total' = 0 /\ pc' = "idle"
    BY <1>3 DEF clear
  <2>2. Cells(m_svf') = {}
    BY <2>1 DEF Cells
  <2>3. Size(m_svf') = 0
    BY <2>2, FS_EmptySet DEF Size
  <2> QED
    BY <2>1, <2>3, SoundEmpty DEF BlockInv
<1>4. CASE PuntBlock
  <2> DEFINE t == Smallest(DOMAIN p.touches)
             s == p.touches[t]
  <2>1. pc = "lru_punt" /\ pc' = pc /\ PuntsMore /\ _erase_no_lock(s, 1)
    BY <1>4 DEF PuntBlock
  <2>2. DOMAIN p.touches \subseteq Nat /\ DOMAIN p.touches # {}
        /\ \A v \in DOMAIN p.touches : p.touches[v] \in Starts
    BY <2>1 DEF PuntsMore, TypeInv, TypeOK
  <2>3. s \in Starts
    BY <2>2, SmallestIn
  <2> QED
    BY <2>1, <2>3, BlockErased DEF BlockInv
<1> QED
  BY <1>1, <1>2, <1>3, <1>4

LEMMA BlockNext ==
    ASSUME TypeInv, BlockInv, AllowGapJoin = FALSE, MinLen = 1, [Next]_vars,
           ~NewAppendOldThrow, ~AppendThrow
    PROVE  BlockInv'
<1>1. CASE UNCHANGED vars
  BY <1>1 DEF vars, BlockInv, NewAppendOldFrame, AppendNewToOldFrame, Starts, AfterBlock
<1>2. ASSUME NEW f \in Files, NEW fpos \in Pos, NEW len \in MinLen .. MaxPos - fpos,
             write(fpos, Fetch(f, fpos, len))
      PROVE  BlockInv'
  <2>1. len \in 0 .. MaxPos - fpos /\ len > 0 /\ fpos + len <= MaxPos
    BY BoundsAssumption DEF Pos
  <2> QED
    BY <1>2, <2>1, FetchType, BlockWrite
<1>3. CASE \/ \E fpos \in Pos : erase(fpos) \/ eraseThrows(fpos)
           \/ \E fpos \in Pos, len \in Nat : readThrows(fpos, len)
           \/ clear \/ \E bound \in 0 .. MaxBound : lru_punt(bound)
           \/ PuntBlock \/ PuntEnd
  BY <1>3, BlockFewer
<1>4. ASSUME NEW fpos \in Pos, NEW len \in 0 .. MaxPos - fpos,
             read(fpos, len) \/ readThrows(fpos, len)
      PROVE  BlockInv'
  <2>1. len \in Nat
    BY BoundsAssumption DEF Pos
  <2> QED
    BY <1>3, <1>4, <2>1, BlockRead
<1>5. CASE \/ NewAppendOldTail \/ NewAppendOldRest \/ NewAppendOldContinue
           \/ AppendRest \/ AppendCoalesce \/ AppendEnd
  BY <1>5, NewAppendOldTailBlocks, NewAppendOldRestBlocks, NewAppendOldContinueBlocks,
     AppendRestBlocks, AppendCoalesceBlocks, AppendEndBlocks
<1> QED
  BY <1>1, <1>2, <1>3, <1>4, <1>5 DEF Next, Call, Loop

(***************************************************************************)
(* Callers that agree on one version of the file: every byte is the byte of *)
(* the file at its position, in the map and in the locals of a write.       *)
(***************************************************************************)
\* d holds the bytes of f from position q on.
RightAt(f, q, d) == \A i \in 1 .. Len(d) : d[i] = f[q + i - 1]

LEMMA RightTake ==
    ASSUME NEW f, NEW q \in Nat, NEW d \in Seq(Byte), RightAt(f, q, d), NEW n \in 0 .. Len(d)
    PROVE  RightAt(f, q, Take(d, n))
<1>1. Len(d) \in Nat
  BY LenProperties
<1> QED
  BY <1>1, TakeType DEF RightAt

LEMMA RightDrop ==
    ASSUME NEW f, NEW q \in Nat, NEW d \in Seq(Byte), RightAt(f, q, d), NEW n \in 0 .. Len(d)
    PROVE  RightAt(f, q + n, Drop(d, n))
<1>1. Len(d) \in Nat
  BY LenProperties
<1>2. /\ Len(Drop(d, n)) = Len(d) - n
      /\ \A i \in 1 .. Len(d) - n : Drop(d, n)[i] = d[n + i]
  BY <1>1, DropType
<1> SUFFICES ASSUME NEW i \in 1 .. Len(d) - n PROVE Drop(d, n)[i] = f[q + n + i - 1]
  BY <1>2 DEF RightAt
<1>3. d[n + i] = f[q + (n + i) - 1]
  <2>1. n + i \in 1 .. Len(d)
    BY <1>1
  <2> QED
    BY <2>1 DEF RightAt
<1>4. q + (n + i) - 1 = q + n + i - 1
  BY <1>1
<1> QED
  BY <1>2, <1>3, <1>4

LEMMA RightConcat ==
    ASSUME NEW f, NEW q \in Nat, NEW d \in Seq(Byte), NEW e \in Seq(Byte),
           RightAt(f, q, d), RightAt(f, q + Len(d), e)
    PROVE  RightAt(f, q, d \o e)
<1>1. Len(d) \in Nat /\ Len(e) \in Nat
  BY LenProperties
<1>2. /\ Len(d \o e) = Len(d) + Len(e)
      /\ \A i \in 1 .. Len(d) + Len(e) : (d \o e)[i] = IF i <= Len(d) THEN d[i] ELSE e[i - Len(d)]
  BY ConcatType
<1> SUFFICES ASSUME NEW i \in 1 .. Len(d) + Len(e) PROVE (d \o e)[i] = f[q + i - 1]
  BY <1>2 DEF RightAt
<1>3. CASE i <= Len(d)
  BY <1>1, <1>2, <1>3 DEF RightAt
<1>4. CASE ~(i <= Len(d))
  <2>1. i - Len(d) \in 1 .. Len(e) /\ q + Len(d) + (i - Len(d)) - 1 = q + i - 1
    BY <1>1, <1>4
  <2>2. e[i - Len(d)] = f[q + Len(d) + (i - Len(d)) - 1]
    BY <2>1 DEF RightAt
  <2> QED
    BY <1>2, <1>4, <2>1, <2>2
<1> QED
  BY <1>3, <1>4

\* Two copies of one stretch of the file are equal.
LEMMA RightEqual ==
    ASSUME NEW f, NEW q, NEW d \in Seq(Byte), NEW e \in Seq(Byte), Len(d) = Len(e),
           RightAt(f, q, d), RightAt(f, q, e)
    PROVE  d = e
BY SeqEqual DEF RightAt

LEMMA RightFetch ==
    ASSUME NEW f \in Files, NEW fpos \in Pos, NEW len \in 0 .. MaxPos - fpos
    PROVE  RightAt(f, fpos, Fetch(f, fpos, len))
BY FetchType DEF RightAt

RightBlocks(f, m) == \A s \in DOMAIN m : RightAt(f, s, m[s].data)

LEMMA RightWithout ==
    ASSUME NEW f, NEW m, RightBlocks(f, m), NEW s
    PROVE  RightBlocks(f, Without(m, s))
BY DEF RightBlocks, Without

LEMMA RightWith ==
    ASSUME NEW f, NEW m, RightBlocks(f, m), NEW s, NEW d, RightAt(f, s, d), NEW t
    PROVE  RightBlocks(f, With(m, s, d, t))
BY DEF RightBlocks, With

Content(f) ==
    /\ RightBlocks(f, m_svf)
    /\ pc = "new_append_old" => RightAt(f, w.fpos, w.data) /\ RightAt(f, w.start, w.new)
    /\ pc = "append_new_to_old" => RightAt(f, w.fpos, w.data)

\* The data of one iteration of _write_new_append_old.
LEMMA NewAppendOldContent ==
    ASSUME TypeInv, BlockInv, pc = "new_append_old", NEW f, Content(f)
    PROVE  /\ RightAt(f, NextBlock, NextData) /\ RightAt(f, NextBlock, DataAtNext)
           /\ RightAt(f, w.start, NewValue)
           /\ RightAt(f, w.start + Len(NewValue), NextTail)
           /\ RightAt(f, w.start + Len(NewValue), DataAfterNext)
<1>1. /\ Gap \in Nat /\ Delta \in Nat /\ NextBlock \in Nat /\ w.start \in Nat /\ w.fpos \in Nat
      /\ Len(w.new) \in Nat
      /\ w.fpos + Gap = NextBlock /\ w.fpos = w.start + Len(w.new)
      /\ Len(NewValue) = Len(w.new) + (Gap + Delta)
      /\ Delta <= Len(DataAtNext) /\ Delta <= Len(NextData)
      /\ Len(DataAtNext) \in Nat /\ Len(NextData) \in Nat
  BY NewAppendOldNumbers
<1>2. /\ w.data \in Seq(Byte) /\ w.new \in Seq(Byte) /\ Len(w.data) \in Nat
      /\ NextData \in Seq(Byte) /\ DataAtNext \in Seq(Byte)
      /\ Len(DataAtNext) = Len(w.data) - Gap /\ Gap <= Len(w.data)
  <2>1. Following(w.start) # {}
    BY NewAppendOldType
  <2> QED
    BY <2>1, FrameType, IterationType
<1>3. RightAt(f, w.fpos, w.data) /\ RightAt(f, w.start, w.new)
  BY DEF Content
<1>4. RightAt(f, NextBlock, NextData)
  BY NewAppendOldBlocks DEF Content, RightBlocks, NextData, Starts
<1>5. RightAt(f, NextBlock, DataAtNext)
  BY <1>1, <1>2, <1>3, RightDrop DEF DataAtNext
<1>6. RightAt(f, w.start, NewValue)
  <2>1. Gap + Delta \in 0 .. Len(w.data)
    BY <1>1, <1>2
  <2>2. /\ RightAt(f, w.fpos, Take(w.data, Gap + Delta))
        /\ Take(w.data, Gap + Delta) \in Seq(Byte)
    BY <1>1, <1>2, <1>3, <2>1, RightTake, TakeType
  <2> QED
    BY <1>1, <1>2, <1>3, <2>2, RightConcat DEF NewValue
<1>7. RightAt(f, NextBlock + Delta, NextTail) /\ RightAt(f, NextBlock + Delta, DataAfterNext)
  <2>1. Delta \in 0 .. Len(NextData) /\ Delta \in 0 .. Len(DataAtNext) /\ NextBlock \in Nat
    BY <1>1
  <2>2. NextData \in Seq(Byte) /\ DataAtNext \in Seq(Byte)
    BY <1>2
  <2>3. RightAt(f, NextBlock + Delta, Drop(NextData, Delta))
    BY <1>4, <2>1, <2>2, RightDrop
  <2>4. RightAt(f, NextBlock + Delta, Drop(DataAtNext, Delta))
    BY <1>5, <2>1, <2>2, RightDrop
  <2> QED
    BY <2>3, <2>4 DEF NextTail, DataAfterNext
<1>8. w.start + Len(NewValue) = NextBlock + Delta
  BY NewAppendOldSums
<1> QED
  BY <1>4, <1>5, <1>6, <1>7, <1>8

LEMMA NewAppendOldNoThrow ==
    ASSUME TypeInv, BlockInv, pc = "new_append_old", NEW f, Content(f)
    PROVE  ~NewAppendOldDiffers
<1>1. /\ Delta \in Nat /\ NextBlock \in Nat /\ Delta <= Len(DataAtNext) /\ Delta <= Len(NextData)
      /\ Len(DataAtNext) \in Nat /\ Len(NextData) \in Nat
  BY NewAppendOldNumbers
<1>2. NextData \in Seq(Byte) /\ DataAtNext \in Seq(Byte)
  BY NewAppendOldType, IterationType
<1>3. /\ Take(NextData, Delta) \in Seq(Byte) /\ Take(DataAtNext, Delta) \in Seq(Byte)
      /\ Len(Take(NextData, Delta)) = Len(Take(DataAtNext, Delta))
  BY <1>1, <1>2, TakeType
<1>4. RightAt(f, NextBlock, Take(NextData, Delta)) /\ RightAt(f, NextBlock, Take(DataAtNext, Delta))
  BY <1>1, <1>2, NewAppendOldContent, RightTake
<1>5. Take(NextData, Delta) = Take(DataAtNext, Delta)
  BY <1>3, <1>4, RightEqual
<1> QED
  BY <1>5 DEF NewAppendOldDiffers

\* The data of one iteration of _write_append_new_to_old.
LEMMA AppendContent ==
    ASSUME TypeInv, BlockInv, pc = "append_new_to_old", w.data # <<>>, NEW f, Content(f)
    PROVE  /\ RightAt(f, w.start, BaseData) /\ RightAt(f, w.start + Len(BaseData), w.data)
           /\ ReachesNext =>
                /\ RightAt(f, NextBlock, NextData) /\ RightAt(f, NextBlock, DataAtNext)
                /\ RightAt(f, w.start, GrownBase) /\ w.start + Len(GrownBase) = NextBlock
<1>1. /\ w.start \in Starts /\ w.start \in Nat /\ w.fpos \in Nat /\ Len(w.data) \in Nat
      /\ w.fpos = w.start + Len(BaseData) /\ Len(BaseData) \in Nat
  BY AppendNumbers
<1>2. RightAt(f, w.start, BaseData) /\ RightAt(f, w.fpos, w.data) /\ w.data \in Seq(Byte)
  BY <1>1, FrameType DEF Content, RightBlocks, BaseData, Starts
<1>3. ASSUME ReachesNext
      PROVE  /\ RightAt(f, NextBlock, NextData) /\ RightAt(f, NextBlock, DataAtNext)
             /\ RightAt(f, w.start, GrownBase) /\ w.start + Len(GrownBase) = NextBlock
  <2>1. Following(w.start) # {} /\ w.fpos + Gap = NextBlock
    BY <1>3, AppendReaches DEF ReachesNext
  <2>2. /\ NextBlock \in Starts /\ Gap \in 0 .. Len(w.data) /\ BaseData \in Seq(Byte)
        /\ Len(GrownBase) = Len(BaseData) + Gap
    BY <2>1, IterationType, AppendType
  <2>3. RightAt(f, NextBlock, NextData)
    BY <2>2 DEF Content, RightBlocks, NextData, Starts
  <2>4. RightAt(f, NextBlock, DataAtNext)
    BY <1>1, <1>2, <2>1, <2>2, RightDrop DEF DataAtNext
  <2>5. RightAt(f, w.fpos, Take(w.data, Gap)) /\ Take(w.data, Gap) \in Seq(Byte)
    BY <1>1, <1>2, <2>2, RightTake, TakeType
  <2>6. RightAt(f, w.start, GrownBase)
    BY <1>1, <1>2, <2>2, <2>5, RightConcat DEF GrownBase
  <2>7. w.start + Len(GrownBase) = NextBlock
    BY <1>1, <2>1, <2>2
  <2> QED
    BY <2>3, <2>4, <2>6, <2>7
<1> QED
  BY <1>1, <1>2, <1>3

LEMMA AppendNoThrow ==
    ASSUME TypeInv, BlockInv, pc = "append_new_to_old", w.data # <<>>, ReachesNext,
           NEW f, Content(f)
    PROVE  AppendMemcmp = {FALSE}
<1>1. /\ AppendCheck \in Nat /\ AppendCheck <= Len(DataAtNext) /\ AppendCheck <= Len(NextData)
  BY AppendReaches
<1>2. /\ NextData \in Seq(Byte) /\ DataAtNext \in Seq(Byte) /\ NextBlock \in Nat
      /\ Len(DataAtNext) \in Nat /\ Len(NextData) \in Nat
  BY IterationType, LenProperties DEF ReachesNext
<1>3. /\ Take(NextData, AppendCheck) \in Seq(Byte) /\ Take(DataAtNext, AppendCheck) \in Seq(Byte)
      /\ Len(Take(NextData, AppendCheck)) = Len(Take(DataAtNext, AppendCheck))
  BY <1>1, <1>2, TakeType
<1>4. /\ RightAt(f, NextBlock, Take(NextData, AppendCheck))
      /\ RightAt(f, NextBlock, Take(DataAtNext, AppendCheck))
  BY <1>1, <1>2, AppendContent, RightTake
<1>5. Take(NextData, AppendCheck) = Take(DataAtNext, AppendCheck)
  BY <1>3, <1>4, RightEqual
<1> QED
  BY <1>1, <1>5 DEF AppendMemcmp

LEMMA ContentWrite ==
    ASSUME TypeInv, NEW f \in Files, Content(f), NEW fpos \in Pos, NEW len \in 1 .. MaxPos - fpos,
           write(fpos, Fetch(f, fpos, len))
    PROVE  Content(f)'
<1> DEFINE data == Fetch(f, fpos, len)
<1>1. /\ data \in Seq(Byte) /\ Len(data) = len /\ RightAt(f, fpos, data)
      /\ fpos \in Nat /\ len \in Nat /\ RightBlocks(f, m_svf) /\ pc = "idle"
  <2>1. len \in 0 .. MaxPos - fpos /\ fpos \in Nat /\ len \in Nat
    BY BoundsAssumption DEF Pos
  <2> QED
    BY <2>1, FetchType, RightFetch DEF Content, write
<1> HIDE DEF data
<1>2. CASE _write_new_block(fpos, data)
  BY <1>1, <1>2, RightWith DEF _write_new_block, Content
<1>3. CASE BeginNewAppendOld(fpos, data)
  <2>1. /\ pc' = "new_append_old" /\ m_svf' = m_svf
        /\ w'.start = fpos /\ w'.fpos = fpos /\ w'.data = data /\ w'.new = <<>>
    BY <1>3 DEF BeginNewAppendOld
  <2>2. RightAt(f, fpos, <<>>)
    BY DEF RightAt
  <2> QED
    BY <1>1, <2>1, <2>2 DEF Content
<1>4. CASE /\ Starts # {} /\ Locate(fpos) <= fpos /\ ~BeyondBlock(fpos, Locate(fpos))
           /\ BeginAppendNewToOld(Locate(fpos), fpos, data)
  <2> DEFINE base == Locate(fpos)
             old  == m_svf[base].data
             idx  == fpos - base
             n    == Lesser(Len(data), Len(old) - idx)
  <2>0. base \in Starts
    BY <1>1, <1>4, TypeInvBlocks, LocateType
  <2>1. /\ base \in Nat /\ base <= fpos /\ Len(old) \in Nat /\ fpos <= base + Len(old)
    BY <1>1, <1>4, <2>0, TypeInvBlocks, BlockType DEF BeyondBlock
  <2>2. n \in 0 .. Len(data)
    BY <1>1, <2>1 DEF Lesser
  <2>3. m_svf' = m_svf
        /\ \/ pc' = pc
           \/ pc' = "append_new_to_old" /\ w'.fpos = fpos + n /\ w'.data = Drop(data, n)
    BY <1>4 DEF BeginAppendNewToOld
  <2> HIDE DEF n
  <2>4. RightAt(f, fpos + n, Drop(data, n))
    BY <1>1, <2>2, RightDrop
  <2> QED
    BY <1>1, <2>3, <2>4 DEF Content
<1>5. \/ _write_new_block(fpos, data) \/ BeginNewAppendOld(fpos, data)
      \/ /\ Starts # {} /\ Locate(fpos) <= fpos /\ ~BeyondBlock(fpos, Locate(fpos))
         /\ BeginAppendNewToOld(Locate(fpos), fpos, data)
  <2>1. write(fpos, data)
    BY DEF data
  <2>2. Starts # {} => Locate(fpos) \in Nat
    BY <1>1, TypeInvBlocks, LocateType, BlockType
  <2>3. \/ _write_new_block(fpos, data) \/ BeginNewAppendOld(fpos, data)
        \/ /\ ~IsNewBlock(fpos, Len(data)) /\ ~(Locate(fpos) > fpos)
           /\ BeginAppendNewToOld(Locate(fpos), fpos, data)
    BY <2>1 DEF write
  <2> QED
    BY <1>1, <2>2, <2>3 DEF IsNewBlock
<1> QED
  BY <1>2, <1>3, <1>4, <1>5

LEMMA ContentNewAppendOld ==
    ASSUME TypeInv, BlockInv, NEW f, Content(f),
           \/ NewAppendOldThrow \/ NewAppendOldTail
           \/ NewAppendOldRest \/ NewAppendOldContinue
    PROVE  Content(f)'
<1>1. pc = "new_append_old"
  BY DEF NewAppendOldThrow, NewAppendOldTail, NewAppendOldRest, NewAppendOldContinue
<1>2. /\ RightAt(f, w.start, NewValue)
      /\ RightAt(f, w.start + Len(NewValue), NextTail)
      /\ RightAt(f, w.start + Len(NewValue), DataAfterNext)
      /\ RightBlocks(f, m_svf)
  BY <1>1, NewAppendOldContent DEF Content
<1>3. /\ NewValue \in Seq(Byte) /\ NextTail \in Seq(Byte) /\ DataAfterNext \in Seq(Byte)
      /\ w.start \in Nat
  BY <1>1, NewAppendOldType, FrameType
<1>4. CASE NewAppendOldThrow
  BY <1>1, <1>4, NewAppendOldNoThrow DEF NewAppendOldThrow
<1>5. CASE NewAppendOldTail
  <2>1. RightAt(f, w.start, NewValue \o NextTail)
    BY <1>2, <1>3, RightConcat
  <2>2. /\ m_svf' = With(Without(m_svf, NextBlock), w.start, NewValue \o NextTail, w.touch)
        /\ pc' = "idle"
    BY <1>5 DEF NewAppendOldTail, EndWrite
  <2> QED
    BY <1>2, <2>1, <2>2, RightWithout, RightWith DEF Content
<1>6. CASE NewAppendOldRest
  <2>1. RightAt(f, w.start, NewValue \o DataAfterNext)
    BY <1>2, <1>3, RightConcat
  <2>2. /\ m_svf' = With(Without(m_svf, NextBlock), w.start, NewValue \o DataAfterNext, w.touch)
        /\ pc' = "idle"
    BY <1>6 DEF NewAppendOldRest, EndWrite
  <2> QED
    BY <1>2, <2>1, <2>2, RightWithout, RightWith DEF Content
<1>7. CASE NewAppendOldContinue
  <2>1. /\ m_svf' = Without(m_svf, NextBlock) /\ pc' = "new_append_old"
        /\ w' = [w EXCEPT !.fpos = @ + Gap + Delta, !.data = DataAfterNext, !.new = NewValue]
    BY <1>1, <1>7 DEF NewAppendOldContinue
  <2>2. /\ w'.start = w.start /\ w'.fpos = w.fpos + Gap + Delta
        /\ w'.data = DataAfterNext /\ w'.new = NewValue
    BY <2>1 DEF TypeInv, TypeOK, WriteFrame
  <2>3. w.fpos + Gap + Delta = w.start + Len(NewValue)
    BY <1>1, NewAppendOldSums
  <2> QED
    BY <1>2, <2>1, <2>2, <2>3, RightWithout DEF Content
<1> QED
  BY <1>4, <1>5, <1>6, <1>7

LEMMA ContentAppendNewToOld ==
    ASSUME TypeInv, BlockInv, NEW f, Content(f),
           AppendRest \/ AppendThrow \/ AppendCoalesce \/ AppendEnd
    PROVE  Content(f)'
<1>1. pc = "append_new_to_old" /\ RightBlocks(f, m_svf)
  BY DEF AppendRest, AppendThrow, AppendCoalesce, AppendEnd, Content
<1>2. w.start \in Nat /\ BaseData \in Seq(Byte) /\ w.data \in Seq(Byte)
  BY <1>1, AppendType, FrameType
<1>3. CASE AppendRest
  <2>1. RightAt(f, w.start, BaseData \o w.data)
    BY <1>1, <1>2, <1>3, AppendContent, RightConcat DEF AppendRest
  <2>2. /\ m_svf' = With(m_svf, w.start, BaseData \o w.data, BaseTouch) /\ pc' = pc
        /\ w' = [w EXCEPT !.fpos = @ + Len(w.data), !.data = <<>>]
    BY <1>3 DEF AppendRest
  <2>3. w'.data = <<>>
    BY <2>2 DEF TypeInv, TypeOK, WriteFrame
  <2>4. RightAt(f, w'.fpos, w'.data)
    BY <2>3 DEF RightAt
  <2> QED
    BY <1>1, <2>1, <2>2, <2>4, RightWith DEF Content
<1>4. CASE AppendThrow
  BY <1>1, <1>4, AppendNoThrow DEF AppendThrow, AppendThrows
<1>5. CASE AppendCoalesce
  <2> DEFINE n     == AppendCheck
             tail  == IF n = Len(DataAtNext) THEN Drop(NextData, n) ELSE <<>>
             first == GrownBase \o Take(DataAtNext, n)
  <2>1. /\ w.data # <<>> /\ ReachesNext /\ pc' = pc
        /\ m_svf' = With(Without(m_svf, NextBlock), w.start, first \o tail, BaseTouch)
        /\ w' = [w EXCEPT !.fpos = @ + Gap + n, !.data = Drop(DataAtNext, n)]
    BY <1>5 DEF AppendCoalesce
  <2>2. /\ n \in Nat /\ n <= Len(DataAtNext) /\ n <= Len(NextData) /\ w.fpos + Gap = NextBlock
        /\ DataAtNext \in Seq(Byte) /\ NextData \in Seq(Byte) /\ NextBlock \in Nat
        /\ Len(DataAtNext) \in Nat /\ Len(NextData) \in Nat
        /\ GrownBase \in Seq(Byte) /\ Len(GrownBase) \in Nat
    BY <1>1, <2>1, AppendReaches, IterationType, AppendType, LenProperties DEF ReachesNext
  <2>3. /\ RightAt(f, NextBlock, NextData) /\ RightAt(f, NextBlock, DataAtNext)
        /\ RightAt(f, w.start, GrownBase) /\ w.start + Len(GrownBase) = NextBlock
    BY <1>1, <2>1, AppendContent
  <2> HIDE DEF n
  <2>4. /\ Take(DataAtNext, n) \in Seq(Byte) /\ Len(Take(DataAtNext, n)) = n
        /\ RightAt(f, NextBlock, Take(DataAtNext, n))
    BY <2>2, <2>3, TakeType, RightTake
  <2>5. /\ first \in Seq(Byte) /\ Len(first) = Len(GrownBase) + n /\ RightAt(f, w.start, first)
    <3>1. GrownBase \in Seq(Byte) /\ RightAt(f, w.start, GrownBase) /\ w.start \in Nat
      BY <1>2, <2>2, <2>3
    <3>2. RightAt(f, w.start + Len(GrownBase), Take(DataAtNext, n))
      BY <2>3, <2>4
    <3>3. first \in Seq(Byte) /\ Len(first) = Len(GrownBase) + Len(Take(DataAtNext, n))
      BY <2>4, <3>1, ConcatType
    <3>4. RightAt(f, w.start, first)
      BY <2>4, <3>1, <3>2, RightConcat
    <3> QED
      BY <2>4, <3>3, <3>4
  <2>6. tail \in Seq(Byte) /\ RightAt(f, NextBlock + n, tail)
    <3>1. Drop(NextData, n) \in Seq(Byte) /\ RightAt(f, NextBlock + n, Drop(NextData, n))
      BY <2>2, <2>3, DropType, RightDrop
    <3>2. <<>> \in Seq(Byte) /\ RightAt(f, NextBlock + n, <<>>)
      BY DEF RightAt
    <3> QED
      BY <3>1, <3>2
  <2> HIDE DEF first, tail
  <2>7. w.start + Len(first) = NextBlock + n
    <3>1. Len(first) = Len(GrownBase) + n /\ w.start + Len(GrownBase) = NextBlock
      BY <2>3, <2>5
    <3>2. w.start \in Nat /\ Len(GrownBase) \in Nat /\ n \in Nat
      BY <1>2, <2>2
    <3> QED
      BY <3>1, <3>2
  <2>8. RightAt(f, w.start, first \o tail)
    BY <1>2, <2>5, <2>6, <2>7, RightConcat
  <2>9. RightAt(f, NextBlock + n, Drop(DataAtNext, n))
    <3>1. n \in 0 .. Len(DataAtNext) /\ NextBlock \in Nat /\ DataAtNext \in Seq(Byte)
      BY <2>2
    <3> QED
      BY <2>3, <3>1, RightDrop
  <2>10. w'.data = Drop(DataAtNext, n) /\ w'.fpos = NextBlock + n
    BY <2>1, <2>2 DEF TypeInv, TypeOK, WriteFrame
  <2> QED
    BY <1>1, <2>1, <2>8, <2>9, <2>10, RightWithout, RightWith DEF Content
<1>6. CASE AppendEnd
  <2>1. m_svf' = With(m_svf, w.start, BaseData, m_block_touch) /\ pc' = "idle"
    BY <1>6 DEF AppendEnd, EndWrite
  <2>2. RightAt(f, w.start, BaseData)
    BY <1>1, AppendType DEF RightBlocks, BaseData, Starts
  <2> QED
    BY <1>1, <2>1, <2>2, RightWith DEF Content
<1> QED
  BY <1>3, <1>4, <1>5, <1>6

LEMMA ContentRead ==
    ASSUME TypeInv, NEW f, Content(f), NEW fpos, NEW len, read(fpos, len)
    PROVE  Content(f)'
<1>1. /\ pc = "idle" /\ pc' = pc /\ Locate(fpos) \in Starts
      /\ m_svf' = [m_svf EXCEPT ![Locate(fpos)].block_touch = m_block_touch]
  BY DEF read, CanRead
<1>2. DOMAIN m_svf' = DOMAIN m_svf /\ \A u \in DOMAIN m_svf : m_svf'[u].data = m_svf[u].data
  BY <1>1, TypeInvBlocks DEF BlocksOK, Block, Starts
<1> QED
  BY <1>1, <1>2 DEF Content, RightBlocks

LEMMA ContentFewer ==
    ASSUME TypeInv, NEW f, Content(f),
           \/ \E fpos \in Pos : erase(fpos) \/ eraseThrows(fpos)
           \/ \E fpos \in Pos, len \in Nat : readThrows(fpos, len)
           \/ clear \/ \E bound \in 0 .. MaxBound : lru_punt(bound)
           \/ PuntBlock \/ PuntEnd
    PROVE  Content(f)'
<1>1. pc' \in {"idle", "lru_punt"}
  BY DEF erase, eraseThrows, readThrows, clear, lru_punt, PuntBlock, PuntEnd
<1>2. m_svf' = m_svf \/ (\E s : m_svf' = Without(m_svf, s)) \/ m_svf' = [s \in {} |-> 0]
  BY DEF erase, eraseThrows, readThrows, clear, lru_punt, PuntBlock, PuntEnd, _erase_no_lock
<1>3. RightBlocks(f, [s \in {} |-> 0])
  BY DEF RightBlocks
<1>4. RightBlocks(f, m_svf')
  BY <1>2, <1>3, RightWithout DEF Content
<1> QED
  BY <1>1, <1>4 DEF Content

LEMMA ContentNext ==
    ASSUME TypeInv, BlockInv, MinLen = 1, NEW f \in Files, Files = {f}, Content(f), [Next]_vars
    PROVE  Content(f)'
<1>1. CASE UNCHANGED vars
  BY <1>1 DEF vars, Content
<1>2. CASE \E g \in Files, fpos \in Pos : \E len \in MinLen .. MaxPos - fpos :
                write(fpos, Fetch(g, fpos, len))
  BY <1>2, ContentWrite
<1>3. CASE \/ \E fpos \in Pos : erase(fpos) \/ eraseThrows(fpos)
           \/ \E fpos \in Pos, len \in Nat : readThrows(fpos, len)
           \/ clear \/ \E bound \in 0 .. MaxBound : lru_punt(bound)
           \/ PuntBlock \/ PuntEnd
  BY <1>3, ContentFewer
<1>4. ASSUME NEW fpos \in Pos, NEW len \in 0 .. MaxPos - fpos,
             read(fpos, len) \/ readThrows(fpos, len)
      PROVE  Content(f)'
  <2>1. len \in Nat
    BY BoundsAssumption DEF Pos
  <2> QED
    BY <1>3, <1>4, <2>1, ContentRead
<1>5. CASE NewAppendOldThrow \/ NewAppendOldTail \/ NewAppendOldRest \/ NewAppendOldContinue
  BY <1>5, ContentNewAppendOld
<1>6. CASE AppendRest \/ AppendThrow \/ AppendCoalesce \/ AppendEnd
  BY <1>6, ContentAppendNewToOld
<1> QED
  BY <1>1, <1>2, <1>3, <1>4, <1>5, <1>6 DEF Next, Call, Loop

(***************************************************************************)
(* The inductive invariant as a whole.  Callers either agree on one version *)
(* of the file or do not ask for differences: no write is then cut short.   *)
(***************************************************************************)
Agreed == compare_for_diff = FALSE \/ \E f \in Files : Files = {f}

ContentInv == \A f \in Files : Files = {f} => Content(f)

FileInv == TypeInv /\ BlockInv /\ ContentInv

LEMMA NothingThrown ==
    ASSUME Agreed, FileInv
    PROVE  ~NewAppendOldThrow /\ ~AppendThrow
<1>1. CASE compare_for_diff = FALSE
  BY <1>1 DEF NewAppendOldThrow, NewAppendOldDiffers, AppendThrow, AppendThrows
<1>2. ASSUME NEW f \in Files, Files = {f}
      PROVE  ~NewAppendOldThrow /\ ~AppendThrow
  <2>1. TypeInv /\ BlockInv /\ Content(f)
    BY <1>2 DEF FileInv, ContentInv
  <2>2. ~NewAppendOldThrow
    BY <2>1, NewAppendOldNoThrow DEF NewAppendOldThrow
  <2>3. ~AppendThrow
    BY <2>1, AppendNoThrow DEF AppendThrow, AppendThrows
  <2> QED
    BY <2>2, <2>3
<1> QED
  BY <1>1, <1>2 DEF Agreed

LEMMA FileInit == Init => FileInv
<1> SUFFICES ASSUME Init PROVE FileInv
  OBVIOUS
<1>1. m_svf = [s \in {} |-> 0] /\ pc = "idle"
  BY DEF Init
<1>2. \A f : Content(f)
  BY <1>1 DEF Content, RightBlocks
<1> QED
  BY <1>2, TypeInit, BlockInit DEF FileInv, ContentInv

LEMMA FileNext ==
    ASSUME AllowGapJoin = FALSE, MinLen = 1, Agreed, FileInv, [Next]_vars
    PROVE  FileInv'
<1>1. TypeInv /\ BlockInv /\ ContentInv
  BY DEF FileInv
<1>2. TypeInv'
  BY <1>1, TypeNext
<1>3. BlockInv'
  BY <1>1, NothingThrown, BlockNext
<1>4. ContentInv'
  BY <1>1, ContentNext DEF ContentInv
<1> QED
  BY <1>2, <1>3, <1>4 DEF FileInv

\* integrity() returns ERROR_NONE between the steps of every loop but the one that
\* has counted bytes it has not written yet.
LEMMA SoundWhole ==
    ASSUME BlockInv, pc # "new_append_old"
    PROVE  integrity
<1>1. Sound(m_svf) /\ m_bytes_total = Size(m_svf)
  BY DEF BlockInv
<1>2. \A s, t \in Starts : s < t => AfterBlock(s) < t /\ AfterBlock(s) \in Nat /\ t \in Nat
  BY <1>1, SoundBlock DEF Sound, End, Starts, AfterBlock
<1>3. NoAdjacentBlocks /\ NoOverlap
  BY <1>2 DEF NoAdjacentBlocks, NoOverlap
<1>4. NoEmptyBlock /\ ByteCountMatches
  BY <1>1 DEF NoEmptyBlock, ByteCountMatches, Sound, Starts, Size
<1> QED
  BY <1>3, <1>4 DEF integrity

LEMMA SoundIntegrity == BlockInv => Integrity
BY SoundWhole DEF Integrity

\* Between calls integrity() returns ERROR_NONE, for files of any length and any
\* order of writes, reads, erases, clears and punts.  It takes writes of at least
\* one byte, none that starts inside a gap and reaches the block after it, and no
\* difference exception: what the runs gap, keys and diff_lost do otherwise.
THEOREM IntegrityHolds ==
    ASSUME AllowGapJoin = FALSE, MinLen = 1, Agreed
    PROVE  Spec => []Integrity
<1>1. FileInv => Integrity
  BY SoundIntegrity DEF FileInv
<1>2. FileInv /\ [Next]_vars => FileInv'
  BY FileNext
<1> QED
  BY <1>1, <1>2, FileInit, PTL DEF Spec

\* The comparison of line 371 stays inside the next block, for blocks of any size.
\* It takes the same writes as IntegrityHolds: one that starts inside a gap, or an
\* empty one, can leave a block that ends before fpos, and the difference wraps.
THEOREM ComparisonInsideBlock ==
    ASSUME AllowGapJoin = FALSE, MinLen = 1, Agreed
    PROVE  Spec => []ComparesInsideBlock
<1>1. FileInv => ComparesInsideBlock
  BY AppendReaches DEF FileInv, ComparesInsideBlock
<1>2. FileInv /\ [Next]_vars => FileInv'
  BY FileNext
<1> QED
  BY <1>1, <1>2, FileInit, PTL DEF Spec

LEMMA SoundHas ==
    ASSUME Sound(m_svf), NEW fpos \in Pos, NEW len \in 1 .. SizeMod - 1 - fpos
    PROVE  has(fpos, len) <=> fpos .. fpos + len - 1 \subseteq HeldPos
<1>1. /\ fpos \in Nat /\ len \in Nat /\ len > 0 /\ BlocksOK(m_svf)
      /\ EndInSize(fpos, len) = fpos + len
  <2>1. fpos \in Nat /\ SizeMod \in Nat
    BY BoundsAssumption DEF Pos
  <2>2. len \in Nat /\ len > 0 /\ fpos + len < SizeMod
    BY <2>1
  <2> QED
    BY <2>1, <2>2 DEF EndInSize, Sound
<1>2. \A s \in Starts : s \in Nat /\ AfterBlock(s) \in Nat /\ s < AfterBlock(s)
  BY SoundBlock DEF Starts, End, AfterBlock
<1>3. \A s, t \in Starts : s < t => AfterBlock(s) < t
  BY DEF Sound, Starts, End, AfterBlock
<1>4. ASSUME has(fpos, len)
      PROVE  fpos .. fpos + len - 1 \subseteq HeldPos
  <2> DEFINE s == Locate(fpos)
  <2>1. s \in Starts /\ s <= fpos /\ fpos + len <= AfterBlock(s)
    BY <1>1, <1>2, <1>4, LocateType DEF has
  <2> HIDE DEF s
  <2>2. fpos .. fpos + len - 1 \subseteq s .. AfterBlock(s) - 1
    BY <1>1, <1>2, <2>1
  <2> QED
    BY <2>1, <2>2 DEF HeldPos
<1>5. ASSUME fpos .. fpos + len - 1 \subseteq HeldPos
      PROVE  has(fpos, len)
  <2>1. \A q \in fpos .. fpos + len - 1 : \E s \in Starts : s <= q /\ q < AfterBlock(s)
    <3>1. SUFFICES ASSUME NEW q \in fpos .. fpos + len - 1
                   PROVE  \E s \in Starts : s <= q /\ q < AfterBlock(s)
      OBVIOUS
    <3>2. PICK s \in Starts : q \in s .. AfterBlock(s) - 1
      BY <1>5 DEF HeldPos
    <3> QED
      BY <1>1, <1>2, <3>2
  <2>2. PICK s \in Starts : s <= fpos /\ fpos < AfterBlock(s)
    BY <1>1, <2>1
  <2>3. Locate(fpos) = s
    <3>1. Locate(fpos) \in Starts /\ Locate(fpos) <= fpos /\ s <= Locate(fpos)
      BY <1>1, <1>2, <2>2, LocateType
    <3>2. ~(s < Locate(fpos))
      BY <1>1, <1>2, <1>3, <2>2, <3>1
    <3> QED
      BY <1>2, <3>1, <3>2
  <2>4. ASSUME fpos + len > AfterBlock(s) PROVE FALSE
    <3>1. AfterBlock(s) \in fpos .. fpos + len - 1
      BY <1>1, <1>2, <2>2, <2>4
    <3>2. PICK t \in Starts : t <= AfterBlock(s) /\ AfterBlock(s) < AfterBlock(t)
      BY <2>1, <3>1
    <3>3. CASE t < s
      BY <1>2, <1>3, <3>2, <3>3
    <3>4. CASE s < t
      BY <1>2, <1>3, <3>2, <3>4
    <3>5. CASE s = t
      BY <1>2, <3>2, <3>5
    <3> QED
      BY <1>2, <3>3, <3>4, <3>5
  <2>5. fpos + len <= AfterBlock(s)
    BY <1>1, <1>2, <2>4
  <2> QED
    BY <1>1, <2>2, <2>3, <2>5 DEF has
<1> QED
  BY <1>4, <1>5

\* has() is exact: it is true of a range whose end a size_t can hold if and only if
\* each of its bytes is in the map.
THEOREM HasIsExact ==
    ASSUME AllowGapJoin = FALSE, MinLen = 1, Agreed
    PROVE  Spec => []HasIffHeld
<1>1. FileInv => HasIffHeld
  BY SoundHas DEF FileInv, BlockInv, HasIffHeld
<1>2. FileInv /\ [Next]_vars => FileInv'
  BY FileNext
<1> QED
  BY <1>1, <1>2, FileInit, PTL DEF Spec

\* No write, coalescing or erase misplaces a byte: what is in the map is what the
\* file has at that position, also while a write or a punt is under way.
THEOREM BlocksHoldTheFile ==
    ASSUME AllowGapJoin = FALSE, MinLen = 1, NEW f, Files = {f}
    PROVE  Spec => []HoldsFile
<1>1. FileInv => HoldsFile
  <2> SUFFICES ASSUME FileInv, NEW s \in Starts, NEW i \in 1 .. Len(m_svf[s].data)
               PROVE  s + i - 1 \in Pos /\ m_svf[s].data[i] = f[s + i - 1]
    BY DEF HoldsFile
  <2>1. Content(f) /\ Sound(m_svf)
    BY DEF FileInv, ContentInv, BlockInv
  <2>2. m_svf[s].data[i] = f[s + i - 1]
    BY <2>1 DEF Content, RightBlocks, RightAt, Starts
  <2>3. s \in Nat /\ Len(m_svf[s].data) \in Nat /\ s + Len(m_svf[s].data) <= MaxPos
    BY <2>1, SoundBlock DEF Starts
  <2>4. s + i - 1 \in Pos
    BY <2>3, BoundsAssumption DEF Pos
  <2> QED
    BY <2>2, <2>4
<1>2. Agreed
  BY DEF Agreed
<1>3. FileInv /\ [Next]_vars => FileInv'
  BY <1>2, FileNext
<1> QED
  BY <1>1, <1>3, FileInit, PTL DEF Spec

(***************************************************************************)
(* The counters                                                             *)
(***************************************************************************)
Loops == {"new_append_old", "append_new_to_old"}

\* A write in progress has counted at most the new data it has passed.
Accounted ==
    /\ stats["blocks_punted"] <= stats["blocks_erased"]
    /\ stats["bytes_punted"] + p.removed <= stats["bytes_erased"]
    /\ pc \notin Loops => m_bytes_total + stats["bytes_erased"] <= stats["bytes_write"]
    /\ pc \in Loops =>
            m_bytes_total + stats["bytes_erased"] + Len(w.data) <= stats["bytes_write"] + w.len

LEMMA AccountTypes ==
    ASSUME TypeInv
    PROVE  /\ m_bytes_total \in Nat /\ p.removed \in Nat /\ w.len \in Nat /\ Len(w.data) \in Nat
           /\ stats["bytes_write"] \in Nat /\ stats["bytes_erased"] \in Nat
           /\ stats["bytes_punted"] \in Nat /\ stats["blocks_punted"] \in Nat
           /\ stats["blocks_erased"] \in Nat
           /\ DOMAIN stats = StatNames
           /\ pc # "lru_punt" => p.removed = 0
<1>1. stats \in [StatNames -> Nat] /\ m_bytes_total \in Nat /\ p.removed \in Nat
  BY DEF TypeInv, TypeOK
<1>2. pc # "lru_punt" => p.removed = 0
  BY DEF TypeInv, PuntFrameOK, NoPunt
<1> QED
  BY <1>1, <1>2, FrameType DEF StatNames

LEMMA AccountCountWrite ==
    ASSUME TypeInv, NEW n \in Nat, CountWrite(n)
    PROVE  /\ stats'["bytes_write"] = stats["bytes_write"] + n
           /\ stats'["bytes_erased"] = stats["bytes_erased"]
           /\ stats'["bytes_punted"] = stats["bytes_punted"]
           /\ stats'["blocks_punted"] = stats["blocks_punted"]
           /\ stats'["blocks_erased"] = stats["blocks_erased"]
BY AccountTypes DEF CountWrite, StatNames

\* The punt counters are as they were and nothing is erased.
AccountKept ==
    /\ stats'["bytes_erased"] = stats["bytes_erased"]
    /\ stats'["bytes_punted"] = stats["bytes_punted"]
    /\ stats'["blocks_punted"] = stats["blocks_punted"]
    /\ stats'["blocks_erased"] = stats["blocks_erased"]
    /\ p'.removed = p.removed

LEMMA AccountWrite ==
    ASSUME TypeInv, Accounted, NEW fpos \in Pos, NEW data \in Seq(Byte), write(fpos, data)
    PROVE  Accounted'
<1>1. Len(data) \in Nat /\ pc = "idle"
  BY LenProperties DEF write
<1>2. CASE _write_new_block(fpos, data)
  <2>1. /\ m_bytes_total' = m_bytes_total + Len(data) /\ pc' = "idle" /\ p' = p
        /\ CountWrite(Len(data))
    BY <1>1, <1>2 DEF _write_new_block
  <2> QED
    BY <1>1, <2>1, AccountTypes, AccountCountWrite DEF Accounted, Loops
<1>3. CASE BeginNewAppendOld(fpos, data)
  <2>1. /\ m_bytes_total' = m_bytes_total /\ stats' = stats /\ p' = p /\ pc' = "new_append_old"
        /\ w'.len = Len(data) /\ w'.data = data
    BY <1>3 DEF BeginNewAppendOld
  <2> QED
    BY <1>1, <2>1, AccountTypes DEF Accounted, Loops
<1>4. CASE BeginAppendNewToOld(Locate(fpos), fpos, data) /\ pc' = pc
  BY <1>1, <1>4 DEF BeginAppendNewToOld, Accounted, Loops
<1>5. CASE BeginAppendNewToOld(Locate(fpos), fpos, data) /\ pc' # pc /\ Starts # {}
           /\ Locate(fpos) <= fpos /\ ~BeyondBlock(fpos, Locate(fpos))
  <2> DEFINE base == Locate(fpos)
             old  == m_svf[base].data
             n    == Lesser(Len(data), Len(old) - (fpos - base))
  <2>0. fpos \in Nat /\ base \in Starts
    <3>1. fpos \in Nat
      BY BoundsAssumption DEF Pos
    <3> QED
      BY <1>5, <3>1, TypeInvBlocks, LocateType
  <2>1. base \in Nat /\ Len(old) \in Nat /\ base <= fpos /\ fpos <= base + Len(old)
    BY <1>5, <2>0, TypeInvBlocks, BlockType DEF BeyondBlock
  <2>2. n \in Nat /\ n <= Len(data)
    BY <1>1, <2>0, <2>1 DEF Lesser
  <2>3. /\ m_bytes_total' = m_bytes_total /\ stats' = stats /\ p' = p
        /\ pc' = "append_new_to_old" /\ w'.len = Len(data) /\ w'.data = Drop(data, n)
    BY <1>5 DEF BeginAppendNewToOld
  <2> HIDE DEF n
  <2>4. Len(w'.data) \in Nat /\ Len(w'.data) <= w'.len
    BY <1>1, <2>2, <2>3, DropType
  <2>5. m_bytes_total + stats["bytes_erased"] <= stats["bytes_write"]
    BY <1>1 DEF Accounted, Loops
  <2>6. m_bytes_total + stats["bytes_erased"] + Len(w'.data) <= stats["bytes_write"] + w'.len
    BY <1>1, <2>3, <2>4, <2>5, AccountTypes
  <2> QED
    BY <2>3, <2>6 DEF Accounted, Loops
<1>6. ~IsNewBlock(fpos, Len(data)) /\ ~(Locate(fpos) > fpos) =>
        Starts # {} /\ Locate(fpos) <= fpos /\ ~BeyondBlock(fpos, Locate(fpos))
  <2>1. fpos \in Nat /\ (Starts # {} => Locate(fpos) \in Nat)
    <3>1. fpos \in Nat
      BY BoundsAssumption DEF Pos
    <3> QED
      BY <3>1, TypeInvBlocks, LocateType, BlockType
  <2> QED
    BY <2>1 DEF IsNewBlock
<1> QED
  BY <1>2, <1>3, <1>4, <1>5, <1>6 DEF write

LEMMA AccountNewAppendOld ==
    ASSUME TypeInv, BlockInv, Accounted,
           NewAppendOldTail \/ NewAppendOldRest \/ NewAppendOldContinue
    PROVE  Accounted'
<1> DEFINE wr == stats["bytes_write"]
           er == stats["bytes_erased"]
           x  == Len(w.data)
           z  == Len(DataAfterNext)
<1>1. pc = "new_append_old"
  BY DEF NewAppendOldTail, NewAppendOldRest, NewAppendOldContinue
<1>2. /\ m_bytes_total \in Nat /\ wr \in Nat /\ er \in Nat /\ x \in Nat /\ w.len \in Nat
  BY AccountTypes
<1>3. Gap \in Nat /\ Delta \in Nat /\ z \in Nat /\ x = Gap + Delta + z
  <2>1. /\ Gap \in Nat /\ Delta \in Nat /\ Len(DataAtNext) \in Nat
        /\ z = Len(DataAtNext) - Delta /\ z \in Nat
    BY <1>1, NewAppendOldNumbers, NewAppendOldSums
  <2>2. Len(DataAtNext) = x - Gap
    BY <1>1, NewAppendOldType, IterationType
  <2> HIDE DEF x, z
  <2> QED
    BY <1>2, <2>1, <2>2
<1>4. m_bytes_total + er + x <= wr + w.len
  BY <1>1 DEF Accounted, Loops
<1>5. CASE NewAppendOldTail \/ NewAppendOldRest
  <2>1. /\ CountWrite(w.len) /\ pc' = "idle" /\ p' = p
        /\ m_bytes_total' = m_bytes_total + Gap \/ m_bytes_total' = m_bytes_total + Gap + z
    BY <1>5 DEF NewAppendOldTail, NewAppendOldRest, EndWrite
  <2>2. AccountKept /\ stats'["bytes_write"] = wr + w.len
    BY <1>2, <2>1, AccountCountWrite DEF AccountKept
  <2> HIDE DEF wr, er, x, z
  <2>3. m_bytes_total' + er <= wr + w.len
    BY <1>2, <1>3, <1>4, <2>1
  <2> QED
    BY <2>1, <2>2, <2>3 DEF AccountKept, Accounted, Loops, er
<1>6. CASE NewAppendOldContinue
  <2>1. /\ stats' = stats /\ p' = p /\ pc' = pc /\ m_bytes_total' = m_bytes_total + Gap
        /\ w' = [w EXCEPT !.fpos = @ + Gap + Delta, !.data = DataAfterNext, !.new = NewValue]
    BY <1>6 DEF NewAppendOldContinue
  <2>2. Len(w'.data) = z /\ w'.len = w.len
    BY <2>1 DEF TypeInv, TypeOK, WriteFrame
  <2> HIDE DEF wr, er, x, z
  <2>3. m_bytes_total' + er + z <= wr + w.len
    BY <1>2, <1>3, <1>4, <2>1
  <2> QED
    BY <1>1, <2>1, <2>2, <2>3 DEF Accounted, Loops, er, wr
<1> QED
  BY <1>5, <1>6

LEMMA AccountAppendNewToOld ==
    ASSUME TypeInv, BlockInv, Accounted, AppendRest \/ AppendCoalesce \/ AppendEnd
    PROVE  Accounted'
<1> DEFINE wr == stats["bytes_write"]
           er == stats["bytes_erased"]
           x  == Len(w.data)
<1>1. pc = "append_new_to_old"
  BY DEF AppendRest, AppendCoalesce, AppendEnd
<1>2. /\ m_bytes_total \in Nat /\ wr \in Nat /\ er \in Nat /\ x \in Nat /\ w.len \in Nat
  BY AccountTypes
<1>3. m_bytes_total + er + x <= wr + w.len
  BY <1>1 DEF Accounted, Loops
<1>4. CASE AppendRest
  <2>1. /\ stats' = stats /\ p' = p /\ pc' = pc /\ m_bytes_total' = m_bytes_total + x
        /\ w' = [w EXCEPT !.fpos = @ + Len(w.data), !.data = <<>>]
    BY <1>4 DEF AppendRest
  <2>2. w'.data = <<>> /\ w'.len = w.len
    BY <2>1 DEF TypeInv, TypeOK, WriteFrame
  <2>3. Len(w'.data) = 0
    BY <2>2, EmptySeq
  <2> HIDE DEF wr, er, x
  <2>4. m_bytes_total' + er + 0 <= wr + w.len
    BY <1>2, <1>3, <2>1
  <2> QED
    BY <1>1, <2>1, <2>2, <2>3, <2>4 DEF Accounted, Loops, er, wr
<1>5. CASE AppendCoalesce
  <2> DEFINE n == AppendCheck
  <2>1. /\ stats' = stats /\ p' = p /\ pc' = pc /\ m_bytes_total' = m_bytes_total + Gap
        /\ w' = [w EXCEPT !.fpos = @ + Gap + n, !.data = Drop(DataAtNext, n)]
        /\ w.data # <<>> /\ ReachesNext /\ Following(w.start) # {}
    BY <1>5 DEF AppendCoalesce, ReachesNext
  <2>2. /\ n \in Nat /\ n <= Len(DataAtNext) /\ DataAtNext \in Seq(Byte)
        /\ Gap \in Nat /\ Len(DataAtNext) = x - Gap /\ Len(DataAtNext) \in Nat
    BY <1>1, <2>1, AppendReaches, AppendNextBlock, IterationType
  <2> HIDE DEF n
  <2>3. Len(w'.data) = Len(DataAtNext) - n /\ w'.len = w.len
    <3>1. w'.data = Drop(DataAtNext, n) /\ w'.len = w.len
      BY <2>1 DEF TypeInv, TypeOK, WriteFrame
    <3> QED
      BY <2>2, <3>1, DropType
  <2> DEFINE y == Len(DataAtNext)
             v == Len(w'.data)
             g == Gap
             l == w.len
             total == m_bytes_total
             after == m_bytes_total'
  <2>4. v = y - n /\ y = x - g /\ after = total + g /\ total + er + x <= wr + l
    BY <1>3, <2>1, <2>2, <2>3
  <2>5. /\ y \in Nat /\ n \in Nat /\ g \in Nat /\ x \in Nat /\ wr \in Nat /\ er \in Nat
        /\ l \in Nat /\ total \in Nat
    BY <1>2, <2>2
  <2> HIDE DEF wr, er, x, y, v, g, l, total, after
  <2>6. after + er + v <= wr + l
    BY <2>4, <2>5
  <2> QED
    BY <1>1, <2>1, <2>3, <2>6 DEF Accounted, Loops, er, wr, v, l, after
<1>6. CASE AppendEnd
  <2>1. /\ CountWrite(w.len) /\ pc' = "idle" /\ p' = p /\ m_bytes_total' = m_bytes_total
    BY <1>6 DEF AppendEnd, EndWrite
  <2>2. AccountKept /\ stats'["bytes_write"] = wr + w.len
    BY <1>2, <2>1, AccountCountWrite DEF AccountKept
  <2> HIDE DEF wr, er, x
  <2>3. m_bytes_total' + er <= wr + w.len
    BY <1>2, <1>3, <2>1
  <2> QED
    BY <2>1, <2>2, <2>3 DEF AccountKept, Accounted, Loops, er
<1> QED
  BY <1>4, <1>5, <1>6

LEMMA AccountErased ==
    ASSUME TypeInv, BlockInv, Accounted, pc \in {"idle", "lru_punt"}, NEW s \in Starts,
           NEW punted \in {0, 1}, _erase_no_lock(s, punted), pc' = pc,
           p'.removed = p.removed + (IF punted = 1 THEN Len(m_svf[s].data) ELSE 0)
    PROVE  Accounted'
<1> DEFINE n == Len(m_svf[s].data)
<1>1. /\ stats' = [stats EXCEPT !["blocks_erased"] = @ + 1, !["bytes_erased"] = @ + n,
                                !["blocks_punted"] = @ + punted]
      /\ m_bytes_total = m_bytes_total' + n /\ n \in Nat /\ m_bytes_total' \in Nat
  <2>1. m_bytes_total' = Size(m_svf') /\ Sound(m_svf')
    BY BlockErased
  <2>2. m_bytes_total' \in Nat
    BY <2>1, SizeBound
  <2> QED
    BY <2>2, BlockErased DEF _erase_no_lock
<1> HIDE DEF n
<1>2. /\ stats'["blocks_erased"] = stats["blocks_erased"] + 1
      /\ stats'["bytes_erased"] = stats["bytes_erased"] + n
      /\ stats'["blocks_punted"] = stats["blocks_punted"] + punted
      /\ stats'["bytes_write"] = stats["bytes_write"]
      /\ stats'["bytes_punted"] = stats["bytes_punted"]
  BY <1>1, AccountTypes DEF StatNames
<1>3. m_bytes_total' + stats'["bytes_erased"] <= stats'["bytes_write"]
  <2>1. m_bytes_total + stats["bytes_erased"] <= stats["bytes_write"]
    BY DEF Accounted, Loops
  <2> QED
    BY <1>1, <1>2, <2>1, AccountTypes, SMTT(30)
<1>4. stats'["blocks_punted"] <= stats'["blocks_erased"]
  <2>1. stats["blocks_punted"] <= stats["blocks_erased"]
    BY DEF Accounted
  <2> QED
    BY <1>2, <2>1, AccountTypes
<1>5. stats'["bytes_punted"] + p'.removed <= stats'["bytes_erased"]
  <2>1. stats["bytes_punted"] + p.removed <= stats["bytes_erased"]
    BY DEF Accounted
  <2>2. p'.removed = p.removed + n \/ p'.removed = p.removed + 0
    BY AccountTypes DEF n
  <2>3. /\ stats'["bytes_punted"] = stats["bytes_punted"]
        /\ stats'["bytes_erased"] = stats["bytes_erased"] + n
    BY <1>2
  <2>4. n \in Nat /\ p.removed \in Nat /\ stats["bytes_punted"] \in Nat /\ stats["bytes_erased"] \in Nat
    BY <1>1, AccountTypes
  <2>5. stats["bytes_punted"] + p'.removed <= stats["bytes_erased"] + n
    <3>1. CASE p'.removed = p.removed + n
      BY <2>1, <2>4, <3>1
    <3>2. CASE p'.removed = p.removed + 0
      BY <2>1, <2>4, <3>2
    <3> QED
      BY <2>2, <3>1, <3>2
  <2> QED
    BY <2>3, <2>5
<1> QED
  BY <1>3, <1>4, <1>5 DEF Accounted, Loops

LEMMA AccountFewer ==
    ASSUME TypeInv, BlockInv, Accounted,
           \/ \E fpos \in Pos : erase(fpos) \/ eraseThrows(fpos)
           \/ \E fpos \in Pos, len \in Nat : read(fpos, len) \/ readThrows(fpos, len)
           \/ clear \/ \E bound \in 0 .. MaxBound : lru_punt(bound)
           \/ PuntBlock \/ PuntEnd
    PROVE  Accounted'
<1>1. ASSUME NEW fpos \in Pos, erase(fpos)
      PROVE  Accounted'
  <2>1. /\ pc = "idle" /\ pc' = pc /\ fpos \in Starts /\ _erase_no_lock(fpos, 0) /\ p' = p
    BY <1>1 DEF erase
  <2>2. p'.removed = p.removed + 0
    BY <2>1, AccountTypes
  <2> QED
    BY <2>1, <2>2, AccountErased
<1>2. CASE PuntBlock
  <2> DEFINE t == Smallest(DOMAIN p.touches)
             s == p.touches[t]
  <2>1. /\ pc = "lru_punt" /\ pc' = pc /\ PuntsMore /\ _erase_no_lock(s, 1)
        /\ p' = [p EXCEPT !.touches = Without(@, t), !.removed = @ + Len(m_svf[s].data)]
    BY <1>2 DEF PuntBlock
  <2>2. /\ DOMAIN p.touches \subseteq Nat /\ DOMAIN p.touches # {}
        /\ \A v \in DOMAIN p.touches : p.touches[v] \in Starts
        /\ DOMAIN p = {"touches", "bound", "removed"}
    BY <2>1 DEF PuntsMore, TypeInv, TypeOK
  <2>3. s \in Starts
    BY <2>2, SmallestIn
  <2> HIDE DEF s, t
  <2>4. p'.removed = p.removed + Len(m_svf[s].data)
    BY <2>1, <2>2
  <2> QED
    BY <2>1, <2>3, <2>4, AccountErased
<1>3. CASE PuntEnd
  <2>1. /\ pc' = "idle" /\ pc = "lru_punt" /\ m_bytes_total' = m_bytes_total /\ p'.removed = 0
        /\ stats' = [stats EXCEPT !["bytes_punted"] = @ + p.removed]
    BY <1>3 DEF PuntEnd, NoPunt
  <2>2. /\ stats'["bytes_punted"] = stats["bytes_punted"] + p.removed
        /\ stats'["bytes_erased"] = stats["bytes_erased"]
        /\ stats'["bytes_write"] = stats["bytes_write"]
        /\ stats'["blocks_punted"] = stats["blocks_punted"]
        /\ stats'["blocks_erased"] = stats["blocks_erased"]
    BY <2>1, AccountTypes DEF StatNames
  <2> QED
    BY <2>1, <2>2, AccountTypes DEF Accounted, Loops
<1>4. CASE clear
  <2>1. stats' = ZeroStats /\ m_bytes_total' = 0 /\ pc' = "idle" /\ p'.removed = 0
    BY <1>4, AccountTypes DEF clear
  <2>2. /\ stats'["bytes_punted"] = 0 /\ stats'["bytes_erased"] = 0 /\ stats'["bytes_write"] = 0
        /\ stats'["blocks_punted"] = 0 /\ stats'["blocks_erased"] = 0
    BY <2>1 DEF ZeroStats, StatNames
  <2> QED
    BY <2>1, <2>2 DEF Accounted, Loops
<1>5. CASE \/ \E fpos \in Pos : eraseThrows(fpos)
           \/ \E fpos \in Pos, len \in Nat : read(fpos, len) \/ readThrows(fpos, len)
           \/ \E bound \in 0 .. MaxBound : lru_punt(bound)
  <2>1. /\ pc \in {"idle"} /\ pc' \in {"idle", "lru_punt"} /\ m_bytes_total' = m_bytes_total
        /\ p' = p \/ p'.removed = 0
    BY <1>5 DEF eraseThrows, readThrows, read, lru_punt
  <2>2. p'.removed = p.removed
    BY <2>1, AccountTypes
  <2>3. AccountKept /\ stats'["bytes_write"] = stats["bytes_write"]
    BY <1>5, <2>2, AccountTypes DEF eraseThrows, readThrows, read, lru_punt, AccountKept, StatNames
  <2> QED
    BY <2>1, <2>3 DEF AccountKept, Accounted, Loops
<1> QED
  BY <1>1, <1>2, <1>3, <1>4, <1>5

LEMMA AccountNext ==
    ASSUME TypeInv, BlockInv, Accounted, [Next]_vars, ~NewAppendOldThrow, ~AppendThrow
    PROVE  Accounted'
<1>1. CASE UNCHANGED vars
  BY <1>1 DEF vars, Accounted
<1>2. ASSUME NEW f \in Files, NEW fpos \in Pos, NEW len \in MinLen .. MaxPos - fpos,
             write(fpos, Fetch(f, fpos, len))
      PROVE  Accounted'
  <2>1. len \in 0 .. MaxPos - fpos
    BY BoundsAssumption DEF Pos
  <2> QED
    BY <1>2, <2>1, FetchType, AccountWrite
<1>3. CASE \/ \E fpos \in Pos : erase(fpos) \/ eraseThrows(fpos)
           \/ \E fpos \in Pos, len \in Nat : read(fpos, len) \/ readThrows(fpos, len)
           \/ clear \/ \E bound \in 0 .. MaxBound : lru_punt(bound)
           \/ PuntBlock \/ PuntEnd
  BY <1>3, AccountFewer
<1>4. ASSUME NEW fpos \in Pos, NEW len \in 0 .. MaxPos - fpos,
             read(fpos, len) \/ readThrows(fpos, len)
      PROVE  Accounted'
  <2>1. len \in Nat
    BY BoundsAssumption DEF Pos
  <2> QED
    BY <1>3, <1>4, <2>1
<1>5. CASE NewAppendOldTail \/ NewAppendOldRest \/ NewAppendOldContinue
  BY <1>5, AccountNewAppendOld
<1>6. CASE AppendRest \/ AppendCoalesce \/ AppendEnd
  BY <1>6, AccountAppendNewToOld
<1> QED
  BY <1>1, <1>2, <1>3, <1>4, <1>5, <1>6 DEF Next, Call, Loop

\* A byte is counted once: what the map holds and what was erased was written, and
\* what was punted was erased, whatever overlapped, coalesced or was punted.
THEOREM BytesAreAccounted ==
    ASSUME AllowGapJoin = FALSE, MinLen = 1, Agreed
    PROVE  Spec => []BytesAccounted
<1>1. Init => Accounted
  <2> SUFFICES ASSUME Init PROVE Accounted
    OBVIOUS
  <2>1. m_bytes_total = 0 /\ stats = ZeroStats /\ pc = "idle" /\ p.removed = 0
    BY DEF Init, NoPunt
  <2>2. /\ stats["bytes_punted"] = 0 /\ stats["bytes_erased"] = 0 /\ stats["bytes_write"] = 0
        /\ stats["blocks_punted"] = 0 /\ stats["blocks_erased"] = 0
    BY <2>1 DEF ZeroStats, StatNames
  <2> QED
    BY <2>1, <2>2 DEF Accounted, Loops
<1>2. FileInv /\ Accounted /\ [Next]_vars => FileInv' /\ Accounted'
  <2> SUFFICES ASSUME FileInv, Accounted, [Next]_vars
               PROVE  FileInv' /\ Accounted'
    OBVIOUS
  <2>1. TypeInv /\ BlockInv /\ ~NewAppendOldThrow /\ ~AppendThrow
    BY NothingThrown DEF FileInv
  <2> QED
    BY <2>1, FileNext, AccountNext
<1>3. FileInv /\ Accounted => BytesAccounted
  <2> SUFFICES ASSUME FileInv, Accounted, pc = "idle"
               PROVE  /\ m_bytes_total + stats["bytes_erased"] <= stats["bytes_write"]
                      /\ stats["bytes_punted"] <= stats["bytes_erased"]
                      /\ stats["blocks_punted"] <= stats["blocks_erased"]
    BY DEF BytesAccounted
  <2>1. TypeInv
    BY DEF FileInv
  <2> QED
    BY <2>1, AccountTypes DEF Accounted, Loops
<1> QED
  BY <1>1, <1>2, <1>3, FileInit, PTL DEF Spec

=============================================================================
