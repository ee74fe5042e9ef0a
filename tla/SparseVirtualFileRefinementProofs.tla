----------------- MODULE SparseVirtualFileRefinementProofs -----------------
(***************************************************************************)
(* The blocks implement the plain partial copy of the file (SparseFile), for *)
(* files of any length.  When callers agree on one version of the file, what *)
(* is held is that version restricted to a set of positions, so that only    *)
(* the positions have to be followed through each step.                      *)
(***************************************************************************)
EXTENDS SparseVirtualFileIntegrityProofs

(***************************************************************************)
(* Positions covered by blocks                                              *)
(***************************************************************************)
Span(first, after) == first .. after - 1
Covered(m) == UNION {Span(s, End(m, s)) : s \in DOMAIN m}

\* Two stretches that meet are one.
LEMMA Joined ==
    ASSUME NEW a \in Nat, NEW b \in Nat, NEW c \in Nat, a <= b, b <= c
    PROVE  Span(a, b) \cup Span(b, c) = Span(a, c)
BY DEF Span

LEMMA Overlapped ==
    ASSUME NEW a \in Nat, NEW b \in Nat, NEW c \in Nat, NEW e \in Nat, a <= b, b <= c, b <= e
    PROVE  /\ c <= e => Span(b, e) \cup Span(a, c) = Span(a, e)
           /\ e <= c => Span(b, e) \cup Span(a, c) = Span(a, c)
BY DEF Span

\* The empty stretch.
LEMMA NoSpan ==
    ASSUME NEW a \in Nat
    PROVE  Span(a, a + 0) = {} /\ Span(a, a) = {}
BY DEF Span

LEMMA CoveredWithout ==
    ASSUME NEW m, Sound(m), NEW s \in DOMAIN m
    PROVE  /\ Covered(Without(m, s)) = Covered(m) \ Span(s, End(m, s))
           /\ Covered(m) = Covered(Without(m, s)) \cup Span(s, End(m, s))
<1> DEFINE n == Without(m, s)
<1>1. DOMAIN n = DOMAIN m \ {s} /\ \A u \in DOMAIN n : End(n, u) = End(m, u)
  BY DEF Without, End
<1> HIDE DEF n
<1>2. \A u \in DOMAIN m : u \in Nat /\ End(m, u) \in Nat /\ u < End(m, u)
  BY SoundBlock
<1>3. \A u, v \in DOMAIN m : u < v => End(m, u) < v
  BY DEF Sound
<1>4. ASSUME NEW u \in DOMAIN m \ {s}, NEW q \in Span(u, End(m, u))
      PROVE  q \notin Span(s, End(m, s))
  <2>1. CASE u < s
    BY <1>2, <1>3, <2>1 DEF Span
  <2>2. CASE s < u
    BY <1>2, <1>3, <2>2 DEF Span
  <2> QED
    BY <1>2, <2>1, <2>2
<1>5. Covered(m) = Covered(n) \cup Span(s, End(m, s))
  BY <1>1 DEF Covered
<1>6. Covered(n) \cap Span(s, End(m, s)) = {}
  BY <1>1, <1>4 DEF Covered
<1> QED
  BY <1>5, <1>6 DEF n

LEMMA CoveredWith ==
    ASSUME NEW m, NEW s \in Nat, s \notin DOMAIN m, NEW d, Len(d) \in Nat, NEW t
    PROVE  Covered(With(m, s, d, t)) = Covered(m) \cup Span(s, s + Len(d))
<1> DEFINE n == With(m, s, d, t)
<1> SUFFICES Covered(n) = Covered(m) \cup Span(s, s + Len(d))
  OBVIOUS
<1>1. /\ DOMAIN n = DOMAIN m \cup {s} /\ End(n, s) = s + Len(d)
      /\ \A u \in DOMAIN m : End(n, u) = End(m, u)
  BY DEF With, End
<1> HIDE DEF n
<1>2. Covered(n) = Covered(m) \cup Span(s, End(n, s))
  BY <1>1 DEF Covered
<1> QED
  BY <1>1, <1>2

\* A block that grows covers what it covered and what it has grown by.
LEMMA CoveredGrown ==
    ASSUME NEW m, Sound(m), NEW s \in DOMAIN m, NEW d \in Seq(Byte), NEW t,
           Len(d) >= Len(m[s].data)
    PROVE  Covered(With(m, s, d, t)) = Covered(m) \cup Span(s, s + Len(d))
<1> DEFINE rest == Without(m, s)
<1>1. s \notin DOMAIN rest /\ With(m, s, d, t) = With(rest, s, d, t)
  BY DEF Without, With
<1>2. Covered(With(rest, s, d, t)) = Covered(rest) \cup Span(s, s + Len(d))
  BY <1>1, CoveredWith, SoundBlock, LenProperties
<1>3. Covered(m) = Covered(rest) \cup Span(s, End(m, s))
  BY CoveredWithout
<1>4. Span(s, End(m, s)) \subseteq Span(s, s + Len(d))
  <2>1. s \in Nat /\ Len(m[s].data) \in Nat /\ Len(d) \in Nat /\ End(m, s) = s + Len(m[s].data)
    BY SoundBlock, LenProperties
  <2> QED
    BY <2>1 DEF Span
<1> HIDE DEF rest
<1> QED
  BY <1>1, <1>2, <1>3, <1>4

LEMMA CoveredSame ==
    ASSUME NEW m, NEW n, DOMAIN n = DOMAIN m, \A s \in DOMAIN m : n[s].data = m[s].data
    PROVE  Covered(n) = Covered(m)
BY DEF Covered, End

(***************************************************************************)
(* What is held, in one version of the file                                 *)
(***************************************************************************)
TheFile == CHOOSE f : Files = {f}

Moved   == w.start .. w.start + Len(w.new) - 1
Pending == w.fpos .. w.fpos + Len(w.data) - 1

\* The positions held by the blocks of m and a write with the locals v.
KeptOf(m, v) ==
    Covered(m) \cup Span(v.start, v.start + Len(v.new))
               \cup Span(v.fpos, v.fpos + Len(v.data))
Kept == KeptOf(m_svf, w)

\* The locals of a write are empty where they are not in use.
FrameEmpty ==
    /\ pc # "new_append_old" => w.new = <<>>
    /\ pc \notin Loops => w.data = <<>>

HeldRight == Held = [q \in Kept |-> TheFile[q]]

ImplInv == FileInv /\ FrameEmpty

LEMMA CoveredHeldPos == HeldPos = Covered(m_svf)
BY DEF HeldPos, Covered, Span, AfterBlock, End, Starts

LEMMA HeldIsTheFile == Files = {TheFile} /\ ImplInv => HeldRight
<1> SUFFICES ASSUME Files = {TheFile}, ImplInv PROVE HeldRight
  OBVIOUS
<1> DEFINE f == TheFile
<1>1. /\ TypeInv /\ BlockInv /\ Sound(m_svf) /\ Content(f) /\ FrameEmpty
  BY DEF ImplInv, FileInv, ContentInv, BlockInv
<1>2. w.start \in Nat /\ w.fpos \in Nat /\ Len(w.data) \in Nat /\ Len(w.new) \in Nat
  BY <1>1, FrameType
<1> HIDE DEF f
<1>3. ASSUME NEW q \in Pending PROVE w.data[q - w.fpos + 1] = f[q]
  <2>1. q \in Nat /\ q - w.fpos + 1 \in 1 .. Len(w.data) /\ w.fpos + (q - w.fpos + 1) - 1 = q
    BY <1>2, <1>3 DEF Pending
  <2>2. w.data # <<>>
    BY <1>2, <2>1
  <2>3. RightAt(f, w.fpos, w.data)
    BY <1>1, <2>2 DEF FrameEmpty, Content, Loops
  <2>4. w.data[q - w.fpos + 1] = f[w.fpos + (q - w.fpos + 1) - 1]
    BY <2>1, <2>3 DEF RightAt
  <2> QED
    BY <2>1, <2>4
<1>4. ASSUME NEW q \in Moved PROVE w.new[q - w.start + 1] = f[q]
  <2>1. q \in Nat /\ q - w.start + 1 \in 1 .. Len(w.new) /\ w.start + (q - w.start + 1) - 1 = q
    <3> DEFINE a == w.start
    <3> DEFINE n == Len(w.new)
    <3>1. a \in Nat /\ n \in Nat /\ q \in a .. a + n - 1
      BY <1>2, <1>4 DEF Moved
    <3> HIDE DEF a, n
    <3>2. q \in Nat /\ q - a + 1 \in 1 .. n /\ a + (q - a + 1) - 1 = q
      BY <3>1
    <3> QED
      BY <3>2 DEF a, n
  <2>2. w.new # <<>>
    BY <1>2, <2>1
  <2>3. RightAt(f, w.start, w.new)
    BY <1>1, <2>2 DEF FrameEmpty, Content
  <2>4. w.new[q - w.start + 1] = f[w.start + (q - w.start + 1) - 1]
    BY <2>1, <2>3 DEF RightAt
  <2> QED
    BY <2>1, <2>4
<1>5. ASSUME NEW s \in Starts, NEW q \in s .. AfterBlock(s) - 1
      PROVE  m_svf[s].data[q - s + 1] = f[q]
  <2>1. s \in Nat /\ Len(m_svf[s].data) \in Nat /\ AfterBlock(s) = s + Len(m_svf[s].data)
    BY <1>1, SoundBlock DEF Starts, AfterBlock
  <2>2. q - s + 1 \in 1 .. Len(m_svf[s].data) /\ s + (q - s + 1) - 1 = q
    BY <1>5, <2>1
  <2>3. RightAt(f, s, m_svf[s].data)
    BY <1>1 DEF Content, RightBlocks, Starts
  <2>4. m_svf[s].data[q - s + 1] = f[s + (q - s + 1) - 1]
    BY <2>2, <2>3 DEF RightAt
  <2> QED
    BY <2>2, <2>4
<1>6. Held = [q \in HeldPos \cup Moved \cup Pending |->
                IF q \in Pending THEN w.data[q - w.fpos + 1]
                ELSE IF q \in Moved THEN w.new[q - w.start + 1]
                ELSE LET s == CHOOSE s \in Starts : q \in s .. AfterBlock(s) - 1
                     IN m_svf[s].data[q - s + 1]]
  BY DEF Held, Moved, Pending
<1>7. ASSUME NEW q \in HeldPos
      PROVE  LET s == CHOOSE s \in Starts : q \in s .. AfterBlock(s) - 1
             IN m_svf[s].data[q - s + 1] = f[q]
  <2> DEFINE s == CHOOSE s \in Starts : q \in s .. AfterBlock(s) - 1
  <2>1. \E u \in Starts : q \in u .. AfterBlock(u) - 1
    BY <1>7 DEF HeldPos
  <2>2. s \in Starts /\ q \in s .. AfterBlock(s) - 1
    BY <2>1
  <2> HIDE DEF s
  <2>3. m_svf[s].data[q - s + 1] = f[q]
    BY <1>5, <2>2
  <2> QED
    BY <2>3 DEF s
<1>8. Held = [q \in HeldPos \cup Moved \cup Pending |-> f[q]]
  BY <1>3, <1>4, <1>6, <1>7
<1>9. Kept = HeldPos \cup Moved \cup Pending
  <2>1. Moved = Span(w.start, w.start + Len(w.new))
    BY <1>2 DEF Moved, Span
  <2>2. Pending = Span(w.fpos, w.fpos + Len(w.data))
    BY <1>2 DEF Pending, Span
  <2> QED
    BY <2>1, <2>2, CoveredHeldPos DEF Kept, KeptOf
<1> QED
  BY <1>8, <1>9 DEF HeldRight, f

(***************************************************************************)
(* The positions held after a step, one lemma for each part of the code     *)
(***************************************************************************)
Stored(fpos, len) == Kept' = Kept \cup Span(fpos, fpos + len)

\* Outside the loops nothing is held but the blocks.
LEMMA KeptBlocks ==
    ASSUME NEW m, NEW v, v.start \in Nat, v.fpos \in Nat, v.new = <<>>
    PROVE  /\ KeptOf(m, v) = Covered(m) \cup Span(v.fpos, v.fpos + Len(v.data))
           /\ v.data = <<>> => KeptOf(m, v) = Covered(m)
<1>1. Len(v.new) = 0 /\ (v.data = <<>> => Len(v.data) = 0)
  BY EmptySeq
<1>2. Span(v.start, v.start + 0) = {} /\ Span(v.fpos, v.fpos + 0) = {}
  BY NoSpan
<1> QED
  BY <1>1, <1>2 DEF KeptOf

LEMMA IdleKept ==
    ASSUME ImplInv, pc = "idle"
    PROVE  Kept = HeldPos
<1>1. w.start \in Nat /\ w.fpos \in Nat /\ w.new = <<>> /\ w.data = <<>>
  BY FrameType DEF ImplInv, FileInv, FrameEmpty, Loops
<1> QED
  BY <1>1, KeptBlocks, CoveredHeldPos DEF Kept

LEMMA KeptWrite ==
    ASSUME TypeInv, BlockInv, FrameEmpty, AllowGapJoin = FALSE, NEW fpos \in Pos,
           NEW data \in Seq(Byte), Len(data) > 0, fpos + Len(data) <= MaxPos,
           write(fpos, data)
    PROVE  (ret' = "diff" /\ Kept' = Kept) \/ Stored(fpos, Len(data))
<1>1. /\ fpos \in Nat /\ Len(data) \in Nat /\ pc = "idle" /\ Sound(m_svf)
      /\ ~JoinsGap(fpos, Len(data)) /\ w.new = <<>> /\ w.data = <<>>
      /\ w.start \in Nat /\ w.fpos \in Nat
  BY LenProperties, BoundsAssumption, FrameType DEF write, Pos, BlockInv, FrameEmpty, Loops
<1>2. Kept = Covered(m_svf)
  BY <1>1, KeptBlocks DEF Kept
<1>3. CASE IsNewBlock(fpos, Len(data)) /\ _write_new_block(fpos, data)
  <2>1. \A u \in Starts : \/ u < fpos /\ End(m_svf, u) < fpos
                          \/ fpos + Len(data) < u
    BY <1>1, <1>3, NewBlockApart
  <2>2. fpos \notin DOMAIN m_svf
    BY <1>1, <2>1 DEF Starts
  <2>3. m_svf' = With(m_svf, fpos, data, m_block_touch) /\ w' = w
    BY <1>3 DEF _write_new_block
  <2>4. Covered(m_svf') = Covered(m_svf) \cup Span(fpos, fpos + Len(data))
    BY <1>1, <2>2, <2>3, CoveredWith
  <2>5. Kept' = Covered(m_svf')
    BY <1>1, <2>3, KeptBlocks DEF Kept
  <2> QED
    BY <1>2, <2>4, <2>5 DEF Stored
<1>4. CASE BeginNewAppendOld(fpos, data)
  <2>1. m_svf' = m_svf /\ w'.start = fpos /\ w'.fpos = fpos /\ w'.new = <<>> /\ w'.data = data
    BY <1>4 DEF BeginNewAppendOld
  <2>2. Kept' = Covered(m_svf') \cup Span(w'.fpos, w'.fpos + Len(w'.data))
    BY <1>1, <2>1, KeptBlocks DEF Kept
  <2>3. Kept' = Covered(m_svf) \cup Span(fpos, fpos + Len(data))
    BY <2>1, <2>2
  <2> QED
    BY <1>2, <2>3 DEF Stored
<1>5. CASE /\ ~IsNewBlock(fpos, Len(data)) /\ ~(Locate(fpos) > fpos)
           /\ BeginAppendNewToOld(Locate(fpos), fpos, data)
  <2> DEFINE base == Locate(fpos)
             old  == m_svf[base].data
             n    == Lesser(Len(data), Len(old) - (fpos - base))
  <2>1. base \in Starts /\ ~BeyondBlock(fpos, base)
    <3>1. Starts # {}
      BY <1>5 DEF IsNewBlock
    <3>2. base \in Starts /\ base \in Nat
      BY <1>1, <3>1, LocateType, BlockType DEF Sound
    <3>3. base <= fpos
      BY <1>1, <1>5, <3>2
    <3> QED
      BY <1>5, <3>2, <3>3 DEF IsNewBlock
  <2>2. /\ base \in Nat /\ base <= fpos /\ Len(old) \in Nat
        /\ fpos <= base + Len(old) /\ End(m_svf, base) = base + Len(old)
    BY <1>1, <1>5, <2>1, SoundBlock DEF BeyondBlock, AfterBlock, Starts
  <2>3. n \in Nat /\ n <= Len(data) /\ fpos + n <= base + Len(old)
    BY <1>1, <2>2, SMTT(30) DEF Lesser
  <2>4. \/ ret' = "diff" /\ UNCHANGED <<m_svf, w>>
        \/ /\ m_svf' = m_svf
           /\ w' = [start |-> base, len |-> Len(data), fpos |-> fpos + n,
                    data |-> Drop(data, n), new |-> <<>>, touch |-> 0]
    BY <1>5 DEF BeginAppendNewToOld
  <2>5. CASE ret' = "diff" /\ UNCHANGED <<m_svf, w>>
    BY <2>5 DEF Kept
  <2>6. CASE /\ m_svf' = m_svf
             /\ w' = [start |-> base, len |-> Len(data), fpos |-> fpos + n,
                      data |-> Drop(data, n), new |-> <<>>, touch |-> 0]
    <3> HIDE DEF n, base
    <3>1. Len(Drop(data, n)) = Len(data) - n
      BY <1>1, <2>3, DropType
    <3>2. /\ w'.start \in Nat /\ w'.fpos = fpos + n /\ w'.fpos \in Nat
          /\ w'.data = Drop(data, n) /\ w'.new = <<>>
      BY <1>1, <2>2, <2>3, <2>6
    <3>3. Kept' = Covered(m_svf') \cup Span(w'.fpos, w'.fpos + Len(w'.data))
      BY <3>2, KeptBlocks DEF Kept
    <3>4. w'.fpos + Len(w'.data) = fpos + Len(data)
      BY <1>1, <2>3, <3>1, <3>2
    <3>5. Kept' = Covered(m_svf) \cup Span(fpos + n, fpos + Len(data))
      BY <2>6, <3>2, <3>3, <3>4
    <3>6. Span(fpos, fpos + n) \cup Span(fpos + n, fpos + Len(data)) = Span(fpos, fpos + Len(data))
      BY <1>1, <2>3, Joined
    <3>7. Span(fpos, fpos + n) \subseteq Span(base, End(m_svf, base))
      BY <1>1, <2>2, <2>3 DEF Span
    <3>8. Span(base, End(m_svf, base)) \subseteq Covered(m_svf)
      BY <2>1 DEF Covered, Starts
    <3> QED
      BY <1>2, <3>5, <3>6, <3>7, <3>8 DEF Stored
  <2> QED
    BY <2>4, <2>5, <2>6
<1> QED
  BY <1>3, <1>4, <1>5 DEF write

\* A write of bytes of the only version of the file never throws at its start.
LEMMA WriteAgrees ==
    ASSUME FileInv, NEW f \in Files, Files = {f}, NEW fpos \in Pos, NEW len \in 1 .. MaxPos - fpos,
           write(fpos, Fetch(f, fpos, len))
    PROVE  ret' = "ok"
<1> DEFINE data == Fetch(f, fpos, len)
<1>1. len \in 0 .. MaxPos - fpos /\ fpos \in Nat /\ len \in Nat /\ len > 0
  BY BoundsAssumption DEF Pos
<1>2. /\ data \in Seq(Byte) /\ Len(data) = len
      /\ \A i \in 1 .. len : data[i] = f[fpos + i - 1]
  BY <1>1, FetchType
<1> HIDE DEF data
<1>3. TypeInv /\ Sound(m_svf) /\ RightBlocks(f, m_svf)
  BY DEF FileInv, BlockInv, ContentInv, Content
<1>4. CASE _write_new_block(fpos, data) \/ BeginNewAppendOld(fpos, data)
  BY <1>4 DEF _write_new_block, BeginNewAppendOld
<1>5. CASE /\ ~IsNewBlock(fpos, len) /\ ~(Locate(fpos) > fpos)
           /\ BeginAppendNewToOld(Locate(fpos), fpos, data)
  <2> DEFINE base == Locate(fpos)
             old  == m_svf[base].data
             idx  == fpos - base
             n    == Lesser(Len(data), Len(old) - idx)
             diff == Take(data, n) # SubSeq(old, idx + 1, idx + n)
  <2>1. base \in Starts /\ base \in Nat /\ base <= fpos
    <3>1. Starts # {}
      BY <1>5 DEF IsNewBlock
    <3>2. base \in Starts /\ base \in Nat
      BY <1>1, <1>3, <3>1, LocateType, BlockType DEF Sound
    <3> QED
      BY <1>1, <1>5, <3>2
  <2>2. /\ old \in Seq(Byte) /\ Len(old) \in Nat /\ RightAt(f, base, old)
        /\ fpos <= base + Len(old)
    <3>1. ~BeyondBlock(fpos, base)
      BY <1>1, <1>5, <2>1 DEF IsNewBlock
    <3> QED
      BY <1>1, <1>3, <2>1, <3>1, SoundBlock, LenProperties DEF BeyondBlock, AfterBlock, Starts, RightBlocks, End
  <2>3. (diff /\ data[1] # old[idx + 1]) \/ ret' = "ok"
    BY <1>5 DEF BeginAppendNewToOld
  <2>4. ASSUME diff, data[1] # old[idx + 1]
        PROVE  FALSE
    <3>1. idx \in Nat /\ idx <= Len(old) /\ n \in Nat
      BY <1>1, <1>2, <2>1, <2>2 DEF Lesser
    <3>2. CASE idx = Len(old)
      <4>1. n = 0
        BY <1>1, <1>2, <2>2, <3>1, <3>2 DEF Lesser
      <4>2. Take(data, 0) = <<>>
        BY DEF Take
      <4>3. SubSeq(old, idx + 1, idx + 0) = <<>>
        BY <2>2, <3>1
      <4> HIDE DEF n, old, idx
      <4> QED
        BY <2>4, <4>1, <4>2, <4>3
    <3>3. CASE idx < Len(old)
      <4>1. idx + 1 \in 1 .. Len(old) /\ base + (idx + 1) - 1 = fpos
        BY <1>1, <2>1, <2>2, <3>1, <3>3, SMTT(30)
      <4>2. old[idx + 1] = f[base + (idx + 1) - 1]
        BY <2>2, <4>1 DEF RightAt
      <4>3. 1 \in 1 .. len /\ fpos + 1 - 1 = fpos
        BY <1>1
      <4>4. data[1] = f[fpos]
        BY <1>2, <4>3
      <4> QED
        BY <2>4, <4>1, <4>2, <4>4
    <3> QED
      BY <2>2, <3>1, <3>2, <3>3
  <2> HIDE DEF diff, idx, old
  <2> QED
    BY <2>3, <2>4
<1> QED
  BY <1>2, <1>4, <1>5 DEF write, data

\* In the loop of _write_new_append_old the bytes held outside the next block form
\* one stretch with those of the next block: from the start of the write to the
\* later of its end and the end of that block.
LEMMA KeptInNewAppendOld ==
    ASSUME TypeInv, BlockInv, pc = "new_append_old"
    PROVE  /\ NextOutlastsNew =>
                Kept = Covered(Without(m_svf, NextBlock)) \cup Span(w.start, AfterBlock(NextBlock))
           /\ ~NextOutlastsNew =>
                Kept = Covered(Without(m_svf, NextBlock)) \cup Span(w.start, w.start + w.len)
<1> DEFINE a == w.start
           q == w.fpos
           d == w.start + w.len
           b == NextBlock
           e == AfterBlock(NextBlock)
           rest == Covered(Without(m_svf, NextBlock))
<1>1. /\ Sound(m_svf) /\ NextBlock \in Starts /\ End(m_svf, NextBlock) = e
      /\ \E s \in Starts : s <= d
      /\ \A s \in Starts : s \in Nat /\ b <= s
  BY NewAppendOldBlocks DEF BlockInv, NewAppendOldFrame
<1>2. Covered(m_svf) = rest \cup Span(b, e)
  BY <1>1, CoveredWithout DEF Starts
<1>3. /\ a \in Nat /\ q \in Nat /\ d \in Nat /\ b \in Nat /\ e \in Nat
      /\ a <= q /\ q < b /\ b <= e
  <2>1. /\ w.start \in Nat /\ w.fpos \in Nat /\ w.len \in Nat /\ NextBlock \in Nat
        /\ Len(w.new) \in Nat /\ Len(NextData) \in Nat /\ w.fpos = w.start + Len(w.new)
        /\ w.fpos < NextBlock /\ AfterBlock(NextBlock) = NextBlock + Len(NextData)
    BY NewAppendOldNumbers
  <2> QED
    BY <2>1
<1>4. q = a + Len(w.new) /\ q + Len(w.data) = d
  BY DEF BlockInv, NewAppendOldFrame
<1>5. Kept = rest \cup Span(b, e) \cup Span(a, q) \cup Span(q, d)
  BY <1>2, <1>4 DEF Kept, KeptOf
<1>6. NextOutlastsNew <=> e > d
  BY DEF NextOutlastsNew
<1> HIDE DEF a, q, d, b, e, rest
<1>7. b <= d
  BY <1>1, <1>3
<1>8. Span(a, q) \cup Span(q, d) = Span(a, d)
  BY <1>3, <1>7, Joined
<1>9. /\ e > d => Span(b, e) \cup Span(a, d) = Span(a, e)
      /\ ~(e > d) => Span(b, e) \cup Span(a, d) = Span(a, d)
  BY <1>3, <1>7, Overlapped
<1>10. /\ NextOutlastsNew => Kept = rest \cup Span(a, e)
       /\ ~NextOutlastsNew => Kept = rest \cup Span(a, d)
  BY <1>5, <1>6, <1>8, <1>9
<1> QED
  BY <1>10 DEF a, d, e, rest

\* The new block of the write takes the place of the next block.
LEMMA CoveredInserted ==
    ASSUME TypeInv, BlockInv, pc = "new_append_old", NEW d, Len(d) \in Nat
    PROVE  Covered(With(Without(m_svf, NextBlock), w.start, d, w.touch)) =
                Covered(Without(m_svf, NextBlock)) \cup Span(w.start, w.start + Len(d))
<1>1. w.start \in Nat /\ \A s \in Starts : s \in Nat /\ NextBlock <= s
  BY NewAppendOldNumbers, NewAppendOldBlocks
<1>2. w.start < NextBlock /\ NextBlock \in Nat
  BY NewAppendOldNumbers
<1>3. w.start \notin DOMAIN Without(m_svf, NextBlock)
  BY <1>1, <1>2 DEF Without, Starts
<1> QED
  BY <1>1, <1>3, CoveredWith

LEMMA KeptNewAppendOld ==
    ASSUME TypeInv, BlockInv, NewAppendOldTail \/ NewAppendOldRest \/ NewAppendOldContinue
    PROVE  Kept' = Kept
<1> DEFINE rest == Without(m_svf, NextBlock)
<1>1. pc = "new_append_old"
  BY DEF NewAppendOldTail, NewAppendOldRest, NewAppendOldContinue
<1>2. /\ NewValue \in Seq(Byte) /\ NextTail \in Seq(Byte) /\ DataAfterNext \in Seq(Byte)
      /\ w \in WriteFrame
  BY <1>1, NewAppendOldType DEF TypeInv, TypeOK
<1> HIDE DEF rest
<1>3. CASE NewAppendOldTail
  <2> DEFINE d == NewValue \o NextTail
  <2>1. NextOutlastsNew /\ m_svf' = With(rest, w.start, d, w.touch) /\ w' = NoWrite
    BY <1>3 DEF NewAppendOldTail, EndWrite, rest
  <2>2. d \in Seq(Byte) /\ Len(d) = Len(NewValue) + Len(NextTail)
    BY <1>2, ConcatType
  <2>3. w.start + Len(d) = AfterBlock(NextBlock) /\ Len(d) \in Nat
    BY <1>1, <2>1, <2>2, NewAppendOldSums, LenProperties
  <2> HIDE DEF d
  <2>4. Covered(m_svf') = Covered(rest) \cup Span(w.start, AfterBlock(NextBlock))
    BY <1>1, <2>1, <2>3, CoveredInserted DEF rest
  <2>5. Kept' = Covered(m_svf')
    BY <2>1, KeptBlocks DEF Kept, NoWrite
  <2> QED
    BY <1>1, <2>1, <2>4, <2>5, KeptInNewAppendOld DEF rest
<1>4. CASE NewAppendOldRest
  <2> DEFINE d == NewValue \o DataAfterNext
  <2>1. ~NextOutlastsNew /\ m_svf' = With(rest, w.start, d, w.touch) /\ w' = NoWrite
    BY <1>4 DEF NewAppendOldRest, EndWrite, rest
  <2>2. d \in Seq(Byte) /\ Len(d) = Len(NewValue) + Len(DataAfterNext)
    BY <1>2, ConcatType
  <2>3. w.start + Len(d) = w.start + w.len /\ Len(d) \in Nat
    BY <1>1, <2>1, <2>2, NewAppendOldSums, LenProperties
  <2> HIDE DEF d
  <2>4. Covered(m_svf') = Covered(rest) \cup Span(w.start, w.start + w.len)
    BY <1>1, <2>1, <2>3, CoveredInserted DEF rest
  <2>5. Kept' = Covered(m_svf')
    BY <2>1, KeptBlocks DEF Kept, NoWrite
  <2> QED
    BY <1>1, <2>1, <2>4, <2>5, KeptInNewAppendOld DEF rest
<1>5. CASE NewAppendOldContinue
  <2>1. /\ ~NextOutlastsNew /\ m_svf' = rest
        /\ w' = [w EXCEPT !.fpos = @ + Gap + Delta, !.data = DataAfterNext, !.new = NewValue]
    BY <1>5 DEF NewAppendOldContinue, rest
  <2>2. /\ w'.start = w.start /\ w'.fpos = w.fpos + Gap + Delta
        /\ w'.data = DataAfterNext /\ w'.new = NewValue
    BY <1>2, <2>1 DEF WriteFrame
  <2> DEFINE a == w.start
             c == w.start + Len(NewValue)
             e == w.start + w.len
  <2>3. w'.fpos = c /\ w'.fpos + Len(w'.data) = e
    BY <1>1, <2>2, NewAppendOldSums
  <2>4. Kept' = Covered(rest) \cup Span(a, c) \cup Span(c, e)
    BY <2>1, <2>2, <2>3 DEF Kept, KeptOf
  <2>5. a \in Nat /\ c \in Nat /\ e \in Nat /\ a <= c /\ c <= e
    <3>1. Len(NewValue) \in Nat /\ Len(DataAfterNext) \in Nat /\ w.start \in Nat
      BY <1>1, <1>2, LenProperties, NewAppendOldNumbers
    <3>2. c + Len(DataAfterNext) = e
      BY <2>2, <2>3
    <3> QED
      BY <3>1, <3>2
  <2> HIDE DEF a, c, e
  <2>6. Span(a, c) \cup Span(c, e) = Span(a, e)
    BY <2>5, Joined
  <2>7. Kept' = Covered(rest) \cup Span(a, e)
    BY <2>4, <2>6
  <2> QED
    BY <1>1, <2>1, <2>7, KeptInNewAppendOld DEF rest, a, e
<1> QED
  BY <1>3, <1>4, <1>5

\* The base block of the other loop grows by data that was held already.
LEMMA KeptAppendRest ==
    ASSUME TypeInv, BlockInv, FrameEmpty, AppendRest
    PROVE  Kept' = Kept
<1> DEFINE d == BaseData \o w.data
<1> DEFINE a == w.start
<1> DEFINE q == w.fpos
<1> DEFINE e == w.fpos + Len(w.data)
<1>1. /\ pc = "append_new_to_old" /\ w.data # <<>>
      /\ m_svf' = With(m_svf, w.start, d, BaseTouch)
      /\ w' = [w EXCEPT !.fpos = @ + Len(w.data), !.data = <<>>]
  BY DEF AppendRest
<1>2. /\ w.start \in DOMAIN m_svf /\ a \in Nat /\ q \in Nat /\ Len(w.data) \in Nat
      /\ Len(BaseData) \in Nat /\ q = a + Len(BaseData) /\ w.new = <<>>
  BY <1>1, AppendNumbers DEF FrameEmpty, Starts
<1>3. d \in Seq(Byte) /\ Len(d) = Len(BaseData) + Len(w.data)
  BY <1>1, AppendType, FrameType, ConcatType
<1> HIDE DEF d
<1>4. w.start + Len(d) = e /\ Len(d) >= Len(m_svf[w.start].data) /\ e \in Nat /\ a <= q /\ q <= e
  <2> DEFINE x == Len(BaseData)
  <2> DEFINE y == Len(w.data)
  <2> DEFINE z == Len(d)
  <2>1. /\ a \in Nat /\ q \in Nat /\ x \in Nat /\ y \in Nat
        /\ q = a + x /\ z = x + y /\ e = q + y
    BY <1>2, <1>3
  <2> HIDE DEF a, q, e, x, y, z
  <2>2. a + z = e /\ z >= x /\ e \in Nat /\ a <= q /\ q <= e
    BY <2>1
  <2> QED
    BY <2>2 DEF a, x, z, BaseData
<1>5. Sound(m_svf)
  BY DEF BlockInv
<1>6. Covered(m_svf') = Covered(m_svf) \cup Span(a, e)
  <2>1. /\ w.start \in DOMAIN m_svf /\ d \in Seq(Byte)
        /\ Len(d) >= Len(m_svf[w.start].data)
    BY <1>2, <1>3, <1>4
  <2>2. Covered(With(m_svf, w.start, d, BaseTouch)) =
            Covered(m_svf) \cup Span(w.start, w.start + Len(d))
    BY <1>5, <2>1, CoveredGrown
  <2> QED
    BY <1>1, <1>4, <2>2
<1>7. w'.start \in Nat /\ w'.fpos \in Nat /\ w'.new = <<>> /\ w'.data = <<>>
  BY <1>1, <1>2 DEF TypeInv, TypeOK, WriteFrame
<1>8. Kept' = Covered(m_svf')
  BY <1>7, KeptBlocks DEF Kept
<1>9. Kept = Covered(m_svf) \cup Span(q, e)
  BY <1>2, KeptBlocks DEF Kept
<1>10. Span(a, q) \cup Span(q, e) = Span(a, e)
  BY <1>2, <1>4, Joined
<1>11. Span(a, q) \subseteq Covered(m_svf)
  BY <1>2 DEF Covered, End, BaseData
<1> HIDE DEF a, q, e
<1> QED
  BY <1>6, <1>8, <1>9, <1>10, <1>11

LEMMA KeptAppendEnd ==
    ASSUME TypeInv, BlockInv, FrameEmpty, AppendEnd
    PROVE  Kept' = Kept
<1>1. /\ pc = "append_new_to_old" /\ w.data = <<>> /\ w' = NoWrite
      /\ m_svf' = With(m_svf, w.start, BaseData, m_block_touch)
  BY DEF AppendEnd, EndWrite
<1>2. /\ w.start \in DOMAIN m_svf /\ w.start \in Nat /\ w.fpos \in Nat /\ w.new = <<>>
  BY <1>1, AppendType, FrameType DEF FrameEmpty, Starts
<1>3. DOMAIN m_svf' = DOMAIN m_svf /\ \A s \in DOMAIN m_svf : m_svf'[s].data = m_svf[s].data
  BY <1>1, <1>2 DEF With, BaseData
<1>4. Covered(m_svf') = Covered(m_svf)
  BY <1>3, CoveredSame
<1>5. Kept' = Covered(m_svf')
  BY <1>1, KeptBlocks DEF Kept, NoWrite
<1>6. Kept = Covered(m_svf)
  BY <1>1, <1>2, KeptBlocks DEF Kept
<1> QED
  BY <1>4, <1>5, <1>6

LEMMA KeptAppendCoalesce ==
    ASSUME TypeInv, BlockInv, FrameEmpty, AppendCoalesce
    PROVE  Kept' = Kept
<1> DEFINE n     == AppendCheck
           tail  == IF n = Len(DataAtNext) THEN Drop(NextData, n) ELSE <<>>
           grown == GrownBase \o Take(DataAtNext, n) \o tail
           rest  == Without(m_svf, NextBlock)
<1>1. /\ pc = "append_new_to_old" /\ w.data # <<>> /\ ReachesNext
      /\ m_svf' = With(rest, w.start, grown, BaseTouch)
      /\ w' = [w EXCEPT !.fpos = @ + Gap + n, !.data = Drop(DataAtNext, n)]
  BY DEF AppendCoalesce
<1>2. Following(w.start) # {} /\ Sound(m_svf)
  BY <1>1 DEF ReachesNext, BlockInv
<1>3. /\ n \in Nat /\ n <= Len(DataAtNext) /\ n <= Len(NextData)
      /\ n # Len(DataAtNext) => n = Len(NextData)
      /\ w.fpos + Gap = NextBlock
  BY <1>1, AppendReaches
<1>4. /\ DataAtNext \in Seq(Byte) /\ Len(DataAtNext) \in Nat
      /\ NextData \in Seq(Byte) /\ Len(NextData) \in Nat /\ Len(NextData) > 0
      /\ Gap \in Nat /\ GrownBase \in Seq(Byte) /\ Len(GrownBase) = Len(BaseData) + Gap
      /\ Len(BaseData) \in Nat
  BY <1>1, <1>2, IterationType, AppendNextBlock, AppendType, AppendNumbers
<1> HIDE DEF n
<1>5. /\ Take(DataAtNext, n) \in Seq(Byte) /\ Len(Take(DataAtNext, n)) = n
      /\ Drop(DataAtNext, n) \in Seq(Byte) /\ Len(Drop(DataAtNext, n)) = Len(DataAtNext) - n
      /\ tail \in Seq(Byte) /\ n + Len(tail) = Len(NextData)
  <2>1. /\ Take(DataAtNext, n) \in Seq(Byte) /\ Len(Take(DataAtNext, n)) = n
    BY <1>3, <1>4, TakeType
  <2>2. /\ Drop(DataAtNext, n) \in Seq(Byte) /\ Len(Drop(DataAtNext, n)) = Len(DataAtNext) - n
        /\ Drop(NextData, n) \in Seq(Byte) /\ Len(Drop(NextData, n)) = Len(NextData) - n
    BY <1>3, <1>4, DropType
  <2>3. <<>> \in Seq(Byte) /\ Len(<<>>) = 0
    OBVIOUS
  <2> QED
    BY <1>3, <1>4, <2>1, <2>2, <2>3
<1> HIDE DEF tail
<1>6. grown \in Seq(Byte) /\ Len(grown) = Len(GrownBase) + n + Len(tail)
  <2>1. /\ GrownBase \o Take(DataAtNext, n) \in Seq(Byte)
        /\ Len(GrownBase \o Take(DataAtNext, n)) = Len(GrownBase) + n
    BY <1>4, <1>5, ConcatType
  <2> QED
    BY <1>5, <2>1, ConcatType
<1> HIDE DEF grown
\* The base block a .. q, the next block b .. e, the end of the new data d and
\* what of it is still left, c .. d.
<1> DEFINE a == w.start
<1> DEFINE q == w.fpos
<1> DEFINE b == NextBlock
<1> DEFINE e == AfterBlock(NextBlock)
<1> DEFINE d == w.fpos + Len(w.data)
<1> DEFINE c == w.fpos + Gap + n
<1>7. /\ a \in Nat /\ q \in Nat /\ b \in Nat /\ e \in Nat /\ d \in Nat /\ c \in Nat
      /\ a <= q /\ q <= b /\ b <= e /\ b <= d /\ c <= d /\ c <= e /\ (c # d => c = e)
      /\ a + Len(grown) = e /\ q = a + Len(BaseData)
      /\ c + Len(Drop(DataAtNext, n)) = d /\ Len(grown) >= Len(BaseData)
  <2> DEFINE x == Len(BaseData)
  <2> DEFINE y == Len(w.data)
  <2> DEFINE z == Len(NextData)
  <2> DEFINE g == Gap
  <2> DEFINE k == Len(DataAtNext)
  <2> DEFINE t == Len(tail)
  <2> DEFINE u == Len(Drop(DataAtNext, n))
  <2> DEFINE v == Len(grown)
  <2> DEFINE h == Len(GrownBase)
  <2>1. a \in Nat /\ q \in Nat /\ x \in Nat /\ y \in Nat /\ q = a + x
    BY <1>1, AppendNumbers
  <2>2. /\ b \in Nat /\ z \in Nat /\ g \in Nat /\ k \in Nat
        /\ e = b + z /\ k = y - g /\ h = x + g
    BY <1>1, <1>2, <1>4, AppendNextBlock
  <2>3. t \in Nat /\ n + t = z /\ u = k - n
    BY <1>5, LenProperties
  <2>4. n \in Nat /\ n <= k /\ n <= z /\ (n # k => n = z) /\ q + g = b
    BY <1>3
  <2>5. v = h + n + t
    BY <1>6
  <2>6. d = q + y /\ c = q + g + n
    OBVIOUS
  <2> HIDE DEF a, q, b, e, d, c, x, y, z, g, k, t, u, v, h
  <2>7. /\ a \in Nat /\ q \in Nat /\ b \in Nat /\ e \in Nat /\ d \in Nat /\ c \in Nat
        /\ a <= q /\ q <= b /\ b <= e /\ b <= d /\ c <= d /\ c <= e /\ (c # d => c = e)
        /\ a + v = e /\ q = a + x /\ c + u = d /\ v >= x
    BY <2>1, <2>2, <2>3, <2>4, <2>5, <2>6
  <2> QED
    BY <2>7 DEF u, v, x
<1>8. /\ w'.start = a /\ w'.fpos = c /\ w'.data = Drop(DataAtNext, n) /\ w'.new = w.new
  BY <1>1 DEF TypeInv, TypeOK, WriteFrame
<1>9. w.new = <<>> /\ w.start \in DOMAIN m_svf /\ w.start # NextBlock /\ NextBlock \in DOMAIN m_svf
  <2>1. /\ w.start \in Starts /\ w.start \in Nat /\ NextBlock \in Starts
        /\ NextBlock \in Nat /\ w.start < NextBlock
    BY <1>1, <1>2, AppendNextBlock, AppendNumbers
  <2> QED
    BY <1>1, <2>1 DEF FrameEmpty, Starts
<1>10. /\ w.start \in DOMAIN rest /\ rest[w.start].data = BaseData /\ Sound(rest)
       /\ End(rest, w.start) = q
  BY <1>2, <1>7, <1>9, SoundWithout DEF Without, BaseData, End
<1>11. Covered(m_svf) = Covered(rest) \cup Span(b, e)
  <2>1. End(m_svf, NextBlock) = e
    BY DEF End, AfterBlock
  <2> QED
    BY <1>2, <1>9, <2>1, CoveredWithout
<1> HIDE DEF rest
<1>12. Covered(m_svf') = Covered(rest) \cup Span(a, e)
  <2>1. Len(grown) >= Len(rest[w.start].data)
    BY <1>7, <1>10
  <2>2. Covered(With(rest, w.start, grown, BaseTouch)) =
            Covered(rest) \cup Span(w.start, w.start + Len(grown))
    BY <1>6, <1>10, <2>1, CoveredGrown
  <2> QED
    BY <1>1, <1>7, <2>2
<1>13. Span(a, q) \subseteq Covered(rest)
  BY <1>10 DEF Covered
<1>14. Kept' = Covered(m_svf') \cup Span(c, d)
  <2>1. Kept' = Covered(m_svf') \cup Span(w'.fpos, w'.fpos + Len(w'.data))
    BY <1>7, <1>8, <1>9, KeptBlocks DEF Kept
  <2> QED
    BY <1>7, <1>8, <2>1
<1>15. Kept = Covered(m_svf) \cup Span(q, d)
  BY <1>7, <1>9, KeptBlocks DEF Kept
<1> HIDE DEF a, q, b, e, d, c
<1>16. Span(a, q) \cup Span(q, e) = Span(a, e)
  BY <1>7, Joined
<1>17. Span(q, e) \cup Span(c, d) = Span(b, e) \cup Span(q, d)
  BY <1>7 DEF Span
<1> QED
  BY <1>11, <1>12, <1>13, <1>14, <1>15, <1>16, <1>17

(***************************************************************************)
(* read(), erase(), clear() and lru_punt()                                  *)
(***************************************************************************)
LEMMA KeptRead ==
    ASSUME TypeInv, NEW fpos \in Pos, NEW len, read(fpos, len)
    PROVE  Kept' = Kept
<1> DEFINE s == Locate(fpos)
<1>1. /\ w' = w /\ s \in Starts
      /\ m_svf' = [m_svf EXCEPT ![s].block_touch = m_block_touch]
  BY DEF read, CanRead
<1> HIDE DEF s
<1>2. DOMAIN m_svf' = DOMAIN m_svf /\ \A u \in DOMAIN m_svf : m_svf'[u].data = m_svf[u].data
  BY <1>1, TypeInvBlocks DEF BlocksOK, Block, Starts
<1>3. Covered(m_svf') = Covered(m_svf)
  BY <1>2, CoveredSame
<1> QED
  BY <1>1, <1>3 DEF Kept, KeptOf

\* A block is a stretch: both its neighbours are missing.
Dropped(first, after) ==
    /\ first \in Pos /\ after \in Nat /\ first < after /\ after <= MaxPos
    /\ Span(first, after) \subseteq Kept
    /\ first - 1 \notin Kept /\ after \notin Kept
    /\ Kept' = Kept \ Span(first, after)

LEMMA KeptErased ==
    ASSUME TypeInv, BlockInv, FrameEmpty, pc \in {"idle", "lru_punt"}, NEW s \in Starts,
           m_svf' = Without(m_svf, s), w' = w
    PROVE  Dropped(s, AfterBlock(s))
<1>1. /\ Sound(m_svf) /\ s \in DOMAIN m_svf /\ AfterBlock(s) = End(m_svf, s)
      /\ w.start \in Nat /\ w.fpos \in Nat /\ w.new = <<>> /\ w.data = <<>>
  BY FrameType DEF BlockInv, FrameEmpty, Loops, Starts, AfterBlock, End
<1>2. Kept = Covered(m_svf) /\ Kept' = Covered(m_svf')
  BY <1>1, KeptBlocks DEF Kept
<1>3. Kept' = Kept \ Span(s, End(m_svf, s)) /\ Span(s, End(m_svf, s)) \subseteq Kept
  BY <1>1, <1>2, CoveredWithout
<1>4. \A u \in DOMAIN m_svf : u \in Nat /\ End(m_svf, u) \in Nat /\ u < End(m_svf, u)
  BY <1>1, SoundBlock
<1>5. \A u, v \in DOMAIN m_svf : u < v => End(m_svf, u) < v
  BY <1>1 DEF Sound
<1>6. ASSUME NEW u \in DOMAIN m_svf
      PROVE  s - 1 \notin Span(u, End(m_svf, u)) /\ End(m_svf, s) \notin Span(u, End(m_svf, u))
  <2>1. CASE u < s
    BY <1>1, <1>4, <1>5, <2>1 DEF Span
  <2>2. CASE s < u
    BY <1>1, <1>4, <1>5, <2>2 DEF Span
  <2>3. CASE u = s
    BY <1>1, <1>4, <2>3 DEF Span
  <2> QED
    BY <1>1, <1>4, <2>1, <2>2, <2>3
<1>7. s - 1 \notin Kept /\ End(m_svf, s) \notin Kept
  BY <1>2, <1>6 DEF Covered
<1> QED
  BY <1>1, <1>3, <1>7, SoundBlock DEF Dropped

LEMMA KeptFewer ==
    ASSUME TypeInv, BlockInv, FrameEmpty,
           \/ \E fpos \in Pos : erase(fpos) \/ eraseThrows(fpos)
           \/ \E fpos \in Pos, len \in Nat : readThrows(fpos, len)
           \/ clear \/ \E bound \in 0 .. MaxBound : lru_punt(bound)
           \/ PuntBlock \/ PuntEnd
    PROVE  \/ Kept' = Kept \/ Kept' = {}
           \/ \E first, after \in Nat : Dropped(first, after)
<1>1. ASSUME NEW s \in Starts, Dropped(s, AfterBlock(s))
      PROVE  \E first, after \in Nat : Dropped(first, after)
  <2>1. s \in Nat /\ AfterBlock(s) \in Nat
    BY <1>1, BoundsAssumption DEF Dropped, Pos
  <2> QED
    BY <1>1, <2>1
<1>2. CASE \E fpos \in Pos : erase(fpos)
  <2>1. PICK fpos \in Pos : erase(fpos)
    BY <1>2
  <2>2. pc = "idle" /\ fpos \in Starts /\ m_svf' = Without(m_svf, fpos) /\ w' = w
    BY <2>1 DEF erase, _erase_no_lock
  <2> QED
    BY <1>1, <2>2, KeptErased
<1>3. CASE \/ \E fpos \in Pos : eraseThrows(fpos)
           \/ \E fpos \in Pos, len \in Nat : readThrows(fpos, len)
           \/ \E bound \in 0 .. MaxBound : lru_punt(bound)
           \/ PuntEnd
  <2>1. UNCHANGED <<m_svf, w>>
    BY <1>3 DEF eraseThrows, readThrows, lru_punt, PuntEnd
  <2> QED
    BY <2>1 DEF Kept
<1>4. CASE clear
  <2>1. m_svf' = [s \in {} |-> 0] /\ w' = w /\ pc = "idle"
    BY <1>4 DEF clear
  <2>2. w.start \in Nat /\ w.fpos \in Nat /\ w.new = <<>> /\ w.data = <<>>
    BY <2>1, FrameType DEF FrameEmpty, Loops
  <2>3. Kept' = Covered(m_svf')
    BY <2>1, <2>2, KeptBlocks DEF Kept
  <2>4. Covered(m_svf') = {}
    BY <2>1 DEF Covered
  <2> QED
    BY <2>3, <2>4
<1>5. CASE PuntBlock
  <2> DEFINE t == Smallest(DOMAIN p.touches)
             s == p.touches[t]
  <2>1. pc = "lru_punt" /\ PuntsMore /\ m_svf' = Without(m_svf, s) /\ w' = w
    BY <1>5 DEF PuntBlock, _erase_no_lock
  <2>2. DOMAIN p.touches \subseteq Nat /\ DOMAIN p.touches # {}
        /\ \A v \in DOMAIN p.touches : p.touches[v] \in Starts
    BY <2>1 DEF PuntsMore, TypeInv, TypeOK
  <2>3. s \in Starts
    BY <2>2, SmallestIn
  <2> HIDE DEF s
  <2> QED
    BY <1>1, <2>1, <2>3, KeptErased
<1> QED
  BY <1>2, <1>3, <1>4, <1>5

(***************************************************************************)
(* Every step                                                               *)
(***************************************************************************)
LEMMA FrameEmptyNext ==
    ASSUME TypeInv, FrameEmpty, [Next]_vars
    PROVE  FrameEmpty'
<1>1. CASE \/ UNCHANGED vars \/ Call \/ PuntBlock \/ PuntEnd
  <2>1. CASE UNCHANGED <<pc, w>>
    BY <2>1 DEF FrameEmpty
  <2>2. ASSUME NEW fpos, NEW data, write(fpos, data)
        PROVE  FrameEmpty'
    BY <2>2 DEF write, _write_new_block, BeginNewAppendOld, BeginAppendNewToOld, FrameEmpty, Loops
  <2>3. CASE clear \/ PuntBlock \/ \E fpos \in Pos : erase(fpos) \/ eraseThrows(fpos)
    BY <2>1, <2>3 DEF clear, PuntBlock, erase, eraseThrows
  <2>4. CASE PuntEnd \/ \E bound \in 0 .. MaxBound : lru_punt(bound)
    BY <2>4 DEF PuntEnd, lru_punt, FrameEmpty, Loops
  <2>5. CASE \E fpos \in Pos : \E len \in 0 .. MaxPos - fpos : read(fpos, len) \/ readThrows(fpos, len)
    BY <2>1, <2>5 DEF read, readThrows
  <2> QED
    BY <1>1, <2>1, <2>2, <2>3, <2>4, <2>5 DEF Call, vars
<1>2. CASE NewAppendOldThrow \/ NewAppendOldTail \/ NewAppendOldRest \/ AppendThrow \/ AppendEnd
  BY <1>2 DEF NewAppendOldThrow, NewAppendOldTail, NewAppendOldRest, AppendThrow, AppendEnd,
              ThrowDiff, EndWrite, NoWrite, FrameEmpty
<1>3. CASE NewAppendOldContinue \/ AppendRest \/ AppendCoalesce
  <2>1. w \in WriteFrame /\ pc' = pc /\ pc \in Loops
    BY <1>3 DEF NewAppendOldContinue, AppendRest, AppendCoalesce, TypeInv, TypeOK, Loops
  <2>2. pc # "new_append_old" => w'.new = w.new
    BY <1>3, <2>1 DEF NewAppendOldContinue, AppendRest, AppendCoalesce, WriteFrame
  <2> QED
    BY <2>1, <2>2 DEF FrameEmpty
<1> QED
  BY <1>1, <1>2, <1>3 DEF Next, Loop

LEMMA KeptNext ==
    ASSUME TypeInv, BlockInv, FrameEmpty, AllowGapJoin = FALSE, MinLen = 1, [Next]_vars,
           ~NewAppendOldThrow, ~AppendThrow
    PROVE  \/ Kept' = Kept \/ Kept' = {}
           \/ \E fpos \in Pos : \E len \in 1 .. MaxPos - fpos : Stored(fpos, len)
           \/ \E first, after \in Nat : Dropped(first, after)
<1>1. CASE UNCHANGED vars
  BY <1>1 DEF vars, Kept
<1>2. ASSUME NEW f \in Files, NEW fpos \in Pos, NEW len \in MinLen .. MaxPos - fpos,
             write(fpos, Fetch(f, fpos, len))
      PROVE  Kept' = Kept \/ \E q \in Pos : \E n \in 1 .. MaxPos - q : Stored(q, n)
  <2>1. len \in 0 .. MaxPos - fpos /\ len \in 1 .. MaxPos - fpos /\ len > 0 /\ fpos + len <= MaxPos
    BY BoundsAssumption DEF Pos
  <2>2. Fetch(f, fpos, len) \in Seq(Byte) /\ Len(Fetch(f, fpos, len)) = len
    BY <2>1, FetchType
  <2>3. Kept' = Kept \/ Stored(fpos, len)
    BY <1>2, <2>1, <2>2, KeptWrite
  <2> QED
    BY <2>1, <2>3
<1>3. CASE \/ \E fpos \in Pos : erase(fpos) \/ eraseThrows(fpos)
           \/ \E fpos \in Pos, len \in Nat : readThrows(fpos, len)
           \/ clear \/ \E bound \in 0 .. MaxBound : lru_punt(bound)
           \/ PuntBlock \/ PuntEnd
  BY <1>3, KeptFewer
<1>4. ASSUME NEW fpos \in Pos, NEW len \in 0 .. MaxPos - fpos,
             read(fpos, len) \/ readThrows(fpos, len)
      PROVE  \/ Kept' = Kept
             \/ \E q \in Pos, n \in Nat : readThrows(q, n)
  <2>1. len \in Nat
    BY BoundsAssumption DEF Pos
  <2> QED
    BY <1>4, <2>1, KeptRead
<1>5. CASE \/ NewAppendOldTail \/ NewAppendOldRest \/ NewAppendOldContinue
           \/ AppendRest \/ AppendCoalesce \/ AppendEnd
  BY <1>5, KeptNewAppendOld, KeptAppendRest, KeptAppendCoalesce, KeptAppendEnd
<1> QED
  BY <1>1, <1>2, <1>3, <1>4, <1>5 DEF Next, Call, Loop

(***************************************************************************)
(* The theorem                                                              *)
(***************************************************************************)
\* What changes the positions held changes the partial copy of the file.
LEMMA HeldNext ==
    ASSUME Files = {TheFile}, AllowGapJoin = FALSE, MinLen = 1,
           ImplInv, HeldRight, HeldRight', [Next]_vars
    PROVE  [SF!Next]_Held
<1> DEFINE f == TheFile
<1>1. /\ DOMAIN Held = Kept /\ \A q \in Kept : Held[q] = f[q]
      /\ Held = [q \in Kept |-> f[q]] /\ Held' = [q \in Kept' |-> f[q]]
  BY DEF HeldRight
<1> HIDE DEF f
<1>2. CASE Kept' = Kept
  BY <1>1, <1>2
<1>3. CASE Kept' = {}
  <2>1. Held' = [q \in {} |-> 0]
    BY <1>1, <1>3
  <2> QED
    BY <2>1 DEF SF!Next, SF!DropAll
<1>4. ASSUME NEW fpos \in Pos, NEW len \in 1 .. MaxPos - fpos, Stored(fpos, len)
      PROVE  SF!Next
  <2>1. Kept' = Kept \cup (fpos .. fpos + len - 1)
    <3>1. fpos \in Nat /\ len \in Nat
      BY BoundsAssumption DEF Pos
    <3>2. Span(fpos, fpos + len) = fpos .. fpos + len - 1
      BY <3>1 DEF Span
    <3> QED
      BY <1>4, <3>2 DEF Stored
  <2>2. f \in Files
    BY DEF f
  <2>3. Held' = [q \in DOMAIN Held \cup (fpos .. fpos + len - 1) |->
                    IF q \in fpos .. fpos + len - 1 THEN f[q] ELSE Held[q]]
    BY <1>1, <2>1
  <2>4. SF!Store(f, fpos, len)
    BY <2>3 DEF SF!Store
  <2>5. fpos \in SF!Positions
    BY DEF SF!Positions, Pos
  <2> QED
    BY <2>2, <2>4, <2>5 DEF SF!Next
<1>5. ASSUME NEW first \in Nat, NEW after \in Nat, Dropped(first, after)
      PROVE  SF!Next
  <2>1. /\ first \in Pos /\ first < after /\ after <= MaxPos /\ MaxPos \in Nat
        /\ Span(first, after) \subseteq Kept /\ first - 1 \notin Kept /\ after \notin Kept
        /\ Kept' = Kept \ Span(first, after)
    BY <1>5, BoundsAssumption DEF Dropped
  <2>2. Span(first, after) = first .. after - 1 /\ after - 1 + 1 = after
    BY DEF Span
  <2>3. SF!IsStretch(first, after - 1)
    BY <1>1, <2>1, <2>2 DEF SF!IsStretch
  <2>4. Held' = [q \in DOMAIN Held \ (first .. after - 1) |-> Held[q]]
    BY <1>1, <2>1, <2>2
  <2>5. SF!DropStretch(first, after - 1)
    BY <2>3, <2>4 DEF SF!DropStretch
  <2>6. first \in SF!Positions /\ after - 1 \in first .. MaxPos - 1
    BY <2>1 DEF SF!Positions, Pos
  <2> QED
    BY <2>5, <2>6 DEF SF!Next
<1>6. TypeInv /\ BlockInv /\ FrameEmpty /\ ~NewAppendOldThrow /\ ~AppendThrow
  BY NothingThrown DEF ImplInv, FileInv, Agreed
<1> QED
  BY <1>2, <1>3, <1>4, <1>5, <1>6, KeptNext

\* The blocks, the coalescing in its two loops and the punting implement a partial
\* copy of the file: a write stores its bytes at once, what a loop moves is never
\* missing in between, an erase or a punt drops whole stretches and a read nothing.
THEOREM BlocksImplementSparseFile ==
    ASSUME AllowGapJoin = FALSE, MinLen = 1, NEW f, Files = {f}
    PROVE  Spec => ImplementsSparseFile
<1>1. Files = {TheFile} /\ Agreed
  BY DEF TheFile, Agreed
<1>2. Init => ImplInv
  BY FileInit DEF ImplInv, FrameEmpty, Init, NoWrite
<1>3. ImplInv /\ [Next]_vars => ImplInv'
  BY <1>1, FileNext, FrameEmptyNext DEF ImplInv, FileInv
<1>4. ImplInv => HeldRight
  BY <1>1, HeldIsTheFile
<1>5. Init => SF!Init
  <2> SUFFICES ASSUME Init PROVE SF!Init
    OBVIOUS
  <2>1. HeldRight /\ m_svf = [s \in {} |-> 0] /\ w = NoWrite
    BY <1>2, <1>4 DEF Init
  <2>2. Covered(m_svf) = {}
    BY <2>1 DEF Covered
  <2>3. Kept = {}
    BY <2>1, <2>2, KeptBlocks DEF Kept, NoWrite
  <2> QED
    BY <2>1, <2>3 DEF HeldRight, SF!Init
<1>6. HeldRight /\ HeldRight' /\ ImplInv /\ [Next]_vars => [SF!Next]_Held
  BY <1>1, HeldNext
<1> QED
  BY <1>2, <1>3, <1>4, <1>5, <1>6, PTL DEF Spec, ImplementsSparseFile, SF!Spec

=============================================================================
