---------------------------- MODULE SVFNeedProofs ----------------------------
(***************************************************************************)
(* Theorems about need() and need_many(), for files of any length, any      *)
(* content held and any list of requests.  Induction is on the smallest     *)
(* counterexample (SmallestIn); a fold is first shown to satisfy the        *)
(* equation that defines it.                                                *)
(***************************************************************************)
EXTENDS SVFNeedCalls, SparseVirtualFileIntegrityProofs

(***************************************************************************)
(* Folds                                                                    *)
(***************************************************************************)
\* What a fold that takes the largest element last is for each part of D.
IsFold(g, D, base, step) ==
    g = [s \in SUBSET D |->
            IF s = {} THEN base ELSE step[<<Largest(s), g[s \ {Largest(s)}]>>]]

LEMMA FoldExists ==
    ASSUME NEW n \in Nat, NEW D, D \subseteq 0 .. n, NEW A, NEW base \in A, NEW step,
           \A x \in D, a \in A : step[<<x, a>>] \in A
    PROVE  \E g : IsFold(g, D, base, step) /\ \A s \in SUBSET D : g[s] \in A
<1> USE DEF IsFold
<1> DEFINE Below(k) == {x \in D : x < k}
           Is(g, k) == /\ g = [s \in SUBSET Below(k) |->
                                IF s = {} THEN base ELSE step[<<Largest(s), g[s \ {Largest(s)}]>>]]
                       /\ \A s \in SUBSET Below(k) : g[s] \in A
           T == {k \in 0 .. n + 1 : \E g : Is(g, k)}
<1>1. 0 \in T
  <2> DEFINE g == [s \in SUBSET Below(0) |-> base]
  <2>1. \A s \in SUBSET Below(0) : s = {}
    OBVIOUS
  <2>2. Is(g, 0)
    BY <2>1
  <2> HIDE DEF Is
  <2> QED
    BY <2>2
<1>2. ASSUME NEW k \in 0 .. n, k \in T
      PROVE  k + 1 \in T
  <2>1. PICK g : Is(g, k)
    BY <1>2
  <2> DEFINE h == [s \in SUBSET Below(k + 1) |->
                    IF k \in s THEN step[<<k, g[s \ {k}]>>] ELSE g[s]]
  <2>2. \A s \in SUBSET Below(k + 1) : s \ {k} \in SUBSET Below(k)
    OBVIOUS
  <2>3. ASSUME NEW s \in SUBSET Below(k + 1), k \in s
        PROVE  /\ Largest(s) = k /\ s # {}
               /\ h[s] = step[<<Largest(s), h[s \ {Largest(s)}]>>] /\ h[s] \in A
    <3>0. s # {} /\ s \subseteq 0 .. n
      BY <2>3
    <3>1. Largest(s) \in s /\ \A y \in s : y <= Largest(s)
      BY <3>0, LargestIn
    <3>2. Largest(s) = k
      <4>1. \A y \in s : y \in Nat /\ y <= k
        BY <3>0
      <4>2. Largest(s) \in Nat /\ Largest(s) <= k
        BY <3>1, <4>1
      <4>3. k <= Largest(s)
        BY <2>3, <3>1
      <4> HIDE DEF Below, T
      <4> QED
        BY <4>2, <4>3
    <3>3. s \ {k} \in SUBSET Below(k) /\ s \ {k} \in SUBSET Below(k + 1) /\ k \in D
      BY <2>2, <2>3
    <3>4. h[s \ {k}] = g[s \ {k}] /\ g[s \ {k}] \in A
      BY <2>1, <3>3
    <3> QED
      BY <2>3, <3>2, <3>3, <3>4
  <2>4. ASSUME NEW s \in SUBSET Below(k + 1), k \notin s
        PROVE  /\ h[s] = IF s = {} THEN base ELSE step[<<Largest(s), h[s \ {Largest(s)}]>>]
               /\ h[s] \in A
    <3>1. s \in SUBSET Below(k)
      BY <2>2, <2>4
    <3>2. h[s] = g[s] /\ h[s \ {Largest(s)}] = g[s \ {Largest(s)}]
      BY <2>4
    <3> QED
      BY <2>1, <3>1, <3>2
  <2> HIDE DEF h
  <2>5. \A s \in SUBSET Below(k + 1) :
            /\ h[s] = IF s = {} THEN base ELSE step[<<Largest(s), h[s \ {Largest(s)}]>>]
            /\ h[s] \in A
    BY <2>3, <2>4
  <2>6. h = [s \in SUBSET Below(k + 1) |-> h[s]]
    BY DEF h
  <2>7. Is(h, k + 1)
    BY <2>5, <2>6
  <2> HIDE DEF Is
  <2> QED
    BY <2>7
<1>3. n + 1 \in T
  <2> HIDE DEF T
  <2>1. \A k \in 0 .. (n + 1) - 1 : k \in T => k + 1 \in T
    BY <1>2
  <2> QED
    BY <1>1, <2>1, UpTo
<1>4. Below(n + 1) = D
  <2>1. \A x \in D : x \in 0 .. n /\ x < n + 1
    OBVIOUS
  <2> QED
    BY <2>1
<1> QED
  BY <1>3, <1>4 DEF T

\* The folds of need() pick the largest start or the largest index.
LEMMA MaxIsLargest ==
    ASSUME NEW n \in Nat, NEW s, s # {}, s \subseteq 0 .. n
    PROVE  Max(s) = Largest(s)
<1>1. Largest(s) \in s /\ \A y \in s : y <= Largest(s)
  BY LargestIn
<1>2. \A x \in s : x \in Nat
  OBVIOUS
<1>3. \A y \in s : Largest(s) >= y
  BY <1>1, <1>2
<1>4. Max(s) \in s /\ \A y \in s : Max(s) >= y
  BY <1>1, <1>3 DEF Max
<1>5. Max(s) \in Nat /\ Largest(s) \in Nat
  BY <1>1, <1>2, <1>4
<1>6. Max(s) <= Largest(s) /\ Max(s) >= Largest(s)
  BY <1>1, <1>4
<1> QED
  BY <1>5, <1>6

Seeks == Seq(Nat \X Nat)
Walk  == [fpos : Nat, len : Nat, need : Seeks]

LEMMA NeedFold ==
    ASSUME NEW D, D \subseteq Pos, NEW base \in Walk,
           \A x \in D, a \in Walk : NeedStep(x, a) \in Walk
    PROVE  \E g : /\ g[{}] = base
                  /\ \A s \in SUBSET D :
                        /\ g[s] \in Walk
                        /\ s # {} => g[s] = NeedStep(Largest(s), g[s \ {Largest(s)}])
                  /\ MapThenFoldSet(NeedStep, base, LAMBDA s : s, Largest, D) = g[D]
<1> DEFINE step == [c \in D \X Walk |-> NeedStep(c[1], c[2])]
           Is(g) == g = [s \in SUBSET D |->
                            IF s = {} THEN base ELSE NeedStep(Largest(s), g[s \ {Largest(s)}])]
           f == CHOOSE g : Is(g)
<1>1. D \subseteq 0 .. MaxPos /\ MaxPos \in Nat
  BY BoundsAssumption DEF Pos
<1>2. \A x \in D, a \in Walk : step[<<x, a>>] = NeedStep(x, a)
  OBVIOUS
<1>3. PICK g : IsFold(g, D, base, step) /\ \A s \in SUBSET D : g[s] \in Walk
  <2>1. \A x \in D, a \in Walk : step[<<x, a>>] \in Walk
    BY <1>2
  <2> HIDE DEF step
  <2> QED
    BY <1>1, <2>1, FoldExists
<1>4. \A s \in SUBSET D : s # {} => Largest(s) \in D
  BY <1>1, LargestIn
<1>5. Is(g)
  <2>1. ASSUME NEW s \in SUBSET D, s # {}
        PROVE  step[<<Largest(s), g[s \ {Largest(s)}]>>] = NeedStep(Largest(s), g[s \ {Largest(s)}])
    BY <1>2, <1>3, <1>4, <2>1
  <2> HIDE DEF step
  <2>2. \A s \in SUBSET D :
            IF s = {} THEN g[s] = base ELSE g[s] = NeedStep(Largest(s), g[s \ {Largest(s)}])
    BY <1>3, <2>1 DEF IsFold
  <2>3. DOMAIN g = SUBSET D /\ g = [s \in DOMAIN g |-> g[s]]
    BY <1>3 DEF IsFold
  <2> QED
    BY <2>2, <2>3
<1>6. Is(f)
  BY <1>5
<1>7. f[{}] = base /\ \A s \in SUBSET D : s # {} => f[s] = NeedStep(Largest(s), f[s \ {Largest(s)}])
  BY <1>6
<1>8. \A s \in SUBSET D : f[s] \in Walk
  <2> HIDE DEF f
  <2> DEFINE G == {s \in SUBSET D : f[s] \in Walk}
  <2>1. {} \in G
    BY <1>7
  <2>2. ASSUME NEW s \in SUBSET D, s # {}, s \ {Largest(s)} \in G
        PROVE  s \in G
    BY <1>4, <1>7, <2>2
  <2> HIDE DEF G
  <2>3. \A s \in SUBSET D : s \in G
    BY <1>1, <2>1, <2>2, LargestLast
  <2> QED
    BY <2>3 DEF G
<1>9. MapThenFoldSet(NeedStep, base, LAMBDA s : s, Largest, D) = f[D]
  BY DEF MapThenFoldSet
<1> QED
  BY <1>7, <1>8, <1>9

(***************************************************************************)
(* Lists of pieces                                                          *)
(***************************************************************************)
LEMMA SeekAt ==
    ASSUME NEW s \in Seeks, NEW i \in DOMAIN s
    PROVE  /\ s[i] \in Nat \X Nat /\ s[i] = <<s[i][1], s[i][2]>>
           /\ s[i][1] \in Nat /\ s[i][2] \in Nat
           /\ EndOf(s[i]) \in Nat /\ EndOf(s[i]) = s[i][1] + s[i][2]
<1>1. s[i] \in Nat \X Nat
  BY LenProperties DEF Seeks
<1> QED
  BY <1>1 DEF EndOf

\* A position before a piece is before whatever is not before the piece's end.
LEMMA EndsBeyond ==
    ASSUME NEW q \in Nat, NEW first \in Nat, NEW size \in Nat, NEW end, NEW z \in Nat,
           end = first + size, q < first, end <= z
    PROVE  q < z
OBVIOUS

\* No position is before a piece and at or after one that the piece ends before.
LEMMA EndsBefore ==
    ASSUME NEW q \in Nat, NEW first \in Nat, NEW size \in Nat, NEW end, NEW next \in Nat,
           end = first + size, end < next, next <= q, q < first
    PROVE  FALSE
OBVIOUS

\* What is before a piece is before what comes after that piece.
LEMMA EndsAcross ==
    ASSUME NEW q \in Nat, NEW first \in Nat, NEW size \in Nat, NEW end, NEW next \in Nat,
           q < first, end = first + size, end < next
    PROVE  q < next
OBVIOUS

LEMMA SeekAppend ==
    ASSUME NEW s \in Seeks, NEW k \in Nat \X Nat
    PROVE  /\ Append(s, k) \in Seeks /\ Append(s, k) # <<>>
           /\ Len(s) \in Nat /\ DOMAIN s = 1 .. Len(s)
           /\ Len(Append(s, k)) = Len(s) + 1 /\ DOMAIN Append(s, k) = 1 .. Len(s) + 1
           /\ \A i \in 1 .. Len(s) : Append(s, k)[i] = s[i]
           /\ Append(s, k)[Len(s) + 1] = k
           /\ Listed(Append(s, k)) = Listed(s) \cup Piece(k)
<1> DEFINE t == Append(s, k)
           S == Nat \X Nat
<1>0. s \in Seq(S) /\ k \in S
  BY DEF Seeks
<1>1. /\ t \in Seeks /\ t # <<>> /\ Len(t) = Len(s) + 1
      /\ \A i \in 1 .. Len(s) : t[i] = s[i]
      /\ t[Len(s) + 1] = k
  <2> HIDE DEF S
  <2>1. t \in Seq(S) /\ t # <<>> /\ Len(t) = Len(s) + 1
    BY <1>0, AppendProperties
  <2>2. \A i \in 1 .. Len(s) : t[i] = s[i]
    BY <1>0, AppendProperties
  <2>3. t[Len(s) + 1] = k
    BY <1>0, AppendProperties
  <2> QED
    BY <2>1, <2>2, <2>3, Zenon DEF Seeks, S
<1>2. Len(s) \in Nat /\ DOMAIN s = 1 .. Len(s)
  BY LenProperties DEF Seeks
<1>3. DOMAIN t = 1 .. Len(s) + 1
  BY <1>1, LenProperties DEF Seeks
<1> HIDE DEF t
<1>4. Listed(t) = Listed(s) \cup Piece(k)
  <2>1. \A i \in 1 .. Len(s) + 1 : i \in 1 .. Len(s) \/ i = Len(s) + 1
    BY <1>2
  <2>2. Listed(t) \subseteq Listed(s) \cup Piece(k)
    BY <1>1, <1>2, <1>3, <2>1 DEF Listed
  <2>3. \A i \in 1 .. Len(s) : i \in DOMAIN t /\ Piece(t[i]) = Piece(s[i])
    BY <1>1, <1>2, <1>3
  <2>4. Len(s) + 1 \in DOMAIN t /\ Piece(t[Len(s) + 1]) = Piece(k)
    BY <1>1, <1>2, <1>3
  <2>5. Listed(s) \cup Piece(k) \subseteq Listed(t)
    BY <1>2, <2>3, <2>4 DEF Listed
  <2> QED
    BY <2>2, <2>5
<1> QED
  BY <1>1, <1>2, <1>3, <1>4 DEF t

LEMMA ApartAppend ==
    ASSUME NEW s \in Seeks, Apart(s), NEW k \in Nat \X Nat, k[2] > 0,
           \A i \in DOMAIN s : EndOf(s[i]) < k[1]
    PROVE  Apart(Append(s, k))
<1> DEFINE t == Append(s, k)
<1>1. /\ Len(s) \in Nat /\ DOMAIN s = 1 .. Len(s)
      /\ Len(t) = Len(s) + 1 /\ DOMAIN t = 1 .. Len(s) + 1
      /\ \A i \in 1 .. Len(s) : t[i] = s[i]
      /\ t[Len(s) + 1] = k
  BY SeekAppend
<1> HIDE DEF t
<1>2. \A i \in 1 .. Len(s) + 1 : i \in 1 .. Len(s) \/ i = Len(s) + 1
  BY <1>1
<1>3. \A i \in DOMAIN t : t[i][2] > 0
  BY <1>1, <1>2 DEF Apart
<1>0. Len(t) - 1 = Len(s)
  BY <1>1
<1>4. ASSUME NEW i \in 1 .. Len(s) PROVE EndOf(t[i]) < t[i + 1][1]
  <2>1. CASE i = Len(s)
    BY <1>1, <2>1
  <2>2. CASE i # Len(s)
    <3> DEFINE n == Len(s)
    <3>0. n \in Nat /\ i \in 1 .. n /\ i # n
      BY <1>1, <2>2
    <3> HIDE DEF n
    <3>1. i \in 1 .. n - 1 /\ i + 1 \in 1 .. n
      BY <3>0
    <3> QED
      BY <1>1, <3>0, <3>1 DEF Apart, n
  <2> QED
    BY <2>1, <2>2
<1> QED
  BY <1>0, <1>3, <1>4 DEF Apart, t

LEMMA NothingListed ==
    <<>> \in Seeks /\ Listed(<<>>) = {} /\ Apart(<<>>) /\ DOMAIN <<>> = {}
<1>1. <<>> \in Seeks /\ Len(<<>>) = 0 /\ DOMAIN <<>> = 1 .. 0
  BY EmptySeq, LenProperties DEF Seeks
<1>2. DOMAIN <<>> = {} /\ 1 .. Len(<<>>) - 1 = {}
  BY <1>1
<1> QED
  BY <1>1, <1>2 DEF Listed, Apart

\* A single seek is settled.
LEMMA OneSeek ==
    ASSUME NEW k \in Nat \X Nat, k[2] > 0
    PROVE  /\ <<k>> \in Seeks /\ Len(<<k>>) = 1 /\ DOMAIN <<k>> = 1 .. 1 /\ <<k>>[1] = k
           /\ Apart(<<k>>) /\ Listed(<<k>>) = Piece(k)
<1>1. <<k>> \in Seeks /\ Len(<<k>>) = 1 /\ DOMAIN <<k>> = 1 .. 1 /\ <<k>>[1] = k
  BY DEF Seeks
<1>2. 1 .. Len(<<k>>) - 1 = {} /\ \A i \in 1 .. 1 : i = 1
  BY <1>1
<1>3. Apart(<<k>>)
  BY <1>1, <1>2 DEF Apart
<1>4. Listed(<<k>>) = Piece(k)
  BY <1>1, <1>2 DEF Listed
<1> QED
  BY <1>1, <1>3, <1>4

(***************************************************************************)
(* The walk of need() over the blocks                                       *)
(***************************************************************************)
\* Where the walk is when it has passed the blocks T of those after from: what it
\* lists is what is missing up to fpos, in pieces apart.
Walking(from, to, T, a) ==
    /\ a \in Walk /\ a.fpos + a.len = to /\ from <= a.fpos
    /\ Apart(a.need) /\ Listed(a.need) = (from .. a.fpos - 1) \ HeldPos
    /\ \A i \in DOMAIN a.need :
            from <= a.need[i][1] /\ EndOf(a.need[i]) <= a.fpos
    /\ a.len > 0 =>
            /\ \A i \in DOMAIN a.need : EndOf(a.need[i]) < a.fpos
            /\ \A u \in Starts : u <= from \/ u \in T => AfterBlock(u) <= a.fpos
            /\ \A u \in Following(from) \ T : a.fpos < u

LEMMA StepType ==
    ASSUME Sound(m_svf), NEW x \in Starts, NEW a \in Walk
    PROVE  NeedStep(x, a) \in Walk
<1> DEFINE gap   == IF a.fpos < x THEN x - a.fpos ELSE 0
           found == IF gap > 0 THEN Append(a.need, <<a.fpos, gap>>) ELSE a.need
<1>1. x \in Nat /\ AfterBlock(x) \in Nat /\ x < AfterBlock(x)
  BY SoundBlock DEF Starts, End, AfterBlock
<1>2. a.fpos \in Nat /\ a.len \in Nat /\ a.need \in Seeks
  BY DEF Walk
<1>3. gap \in Nat
  BY <1>1, <1>2
<1>4. found \in Seeks
  BY <1>2, <1>3, SeekAppend
<1>5. Append(a.need, <<a.fpos, a.len>>) \in Seeks
  BY <1>2, SeekAppend
<1>6. a.fpos + gap + (AfterBlock(x) - x) \in Nat
  BY <1>1, <1>2, <1>3
<1>7. SizeSub(a.len - gap, AfterBlock(x) - x) \in Nat
  <2> DEFINE d == (a.len - gap) - (AfterBlock(x) - x)
  <2>1. d \in Int
    BY <1>1, <1>2, <1>3
  <2> HIDE DEF d
  <2>2. d % SizeMod \in Nat
    BY <2>1, BoundsAssumption
  <2> QED
    BY <2>2 DEF SizeSub, d
<1>8. a.fpos + a.len \in Nat
  BY <1>2
<1> HIDE DEF found
<1>9. NeedStep(x, a) \in {a} \cup
          {[fpos |-> a.fpos + a.len, len |-> 0, need |-> Append(a.need, <<a.fpos, a.len>>)],
           [fpos |-> a.fpos + a.len, len |-> 0, need |-> found],
           [fpos |-> a.fpos + gap + (AfterBlock(x) - x),
            len  |-> SizeSub(a.len - gap, AfterBlock(x) - x), need |-> found]}
  BY DEF NeedStep, found
<1> HIDE DEF gap
<1>10. [fpos |-> a.fpos + a.len, len |-> 0, need |-> Append(a.need, <<a.fpos, a.len>>)] \in Walk
  BY <1>5, <1>8 DEF Walk
<1>11. [fpos |-> a.fpos + a.len, len |-> 0, need |-> found] \in Walk
  BY <1>4, <1>8 DEF Walk
<1>12. [fpos |-> a.fpos + gap + (AfterBlock(x) - x),
        len  |-> SizeSub(a.len - gap, AfterBlock(x) - x), need |-> found] \in Walk
  BY <1>4, <1>6, <1>7 DEF Walk
<1> QED
  BY <1>9, <1>10, <1>11, <1>12

\* A piece of the walk that no block holds is listed.
\* The pieces are apart and list what is missing from first to before last.
Gathered(first, last, s) ==
    /\ s \in Seeks /\ Apart(s) /\ Listed(s) = (first .. last - 1) \ HeldPos
    /\ \A i \in DOMAIN s : first <= s[i][1] /\ EndOf(s[i]) <= last

LEMMA WalkFound ==
    ASSUME NEW from \in Nat, NEW to \in Nat, NEW T, NEW a, Walking(from, to, T, a), a.len > 0,
           NEW x \in Nat, a.fpos < x,
           \A q \in a.fpos .. x - 1 : q \notin HeldPos,
           NEW n, n = x - a.fpos
    PROVE  Gathered(from, x, Append(a.need, <<a.fpos, n>>))
<1> DEFINE k == <<a.fpos, n>>
           found == Append(a.need, k)
<1>1. a.fpos \in Nat /\ a.need \in Seeks /\ from <= a.fpos
  BY DEF Walking, Walk
<1>2. n \in Nat /\ n > 0 /\ a.fpos + n = x
  BY <1>1
<1>3. k \in Nat \X Nat /\ k[1] = a.fpos /\ k[2] = n
  BY <1>1, <1>2
<1>4. Piece(k) = a.fpos .. x - 1 /\ EndOf(k) = x
  BY <1>2, <1>3 DEF Piece, EndOf
<1> HIDE DEF k
<1>5. /\ found \in Seeks
      /\ Len(a.need) \in Nat /\ DOMAIN a.need = 1 .. Len(a.need)
      /\ DOMAIN found = 1 .. Len(a.need) + 1
      /\ \A i \in 1 .. Len(a.need) : found[i] = a.need[i]
      /\ found[Len(a.need) + 1] = k
      /\ Listed(found) = Listed(a.need) \cup Piece(k)
  BY <1>1, <1>3, SeekAppend
<1>6. Apart(found)
  BY <1>1, <1>2, <1>3, ApartAppend DEF Walking
<1> HIDE DEF found
<1>7. Listed(found) = (from .. x - 1) \ HeldPos
  <2>1. Listed(a.need) = (from .. a.fpos - 1) \ HeldPos
    BY DEF Walking
  <2>2. from .. x - 1 = (from .. a.fpos - 1) \cup (a.fpos .. x - 1)
    BY <1>1
  <2>3. Piece(k) \cap HeldPos = {}
    BY <1>4
  <2> QED
    BY <1>4, <1>5, <2>1, <2>2, <2>3
<1>8. ASSUME NEW i \in DOMAIN found
      PROVE  from <= found[i][1] /\ EndOf(found[i]) <= x
  <2>1. CASE i = Len(a.need) + 1
    BY <1>1, <1>3, <1>4, <1>5, <2>1
  <2>2. CASE i # Len(a.need) + 1
    <3>1. i \in 1 .. Len(a.need)
      BY <1>5, <2>2
    <3>2. from <= found[i][1] /\ EndOf(found[i]) < a.fpos /\ EndOf(found[i]) \in Nat
      BY <1>1, <1>5, <3>1, SeekAt DEF Walking
    <3> QED
      BY <1>1, <3>2
  <2> QED
    BY <2>1, <2>2
<1>9. /\ found \in Seeks /\ Apart(found) /\ Listed(found) = (from .. x - 1) \ HeldPos
      /\ \A i \in DOMAIN found : from <= found[i][1] /\ EndOf(found[i]) <= x
  BY <1>5, <1>6, <1>7, <1>8
<1> QED
  BY <1>9 DEF Gathered, found, k

LEMMA WalkStep ==
    ASSUME Sound(m_svf), NEW from \in Nat, NEW to \in Nat, to < SizeMod,
           NEW T, T \subseteq Following(from), NEW x \in Following(from) \ T,
           \A u \in T : u < x, \A u \in Following(from) \ T : x <= u,
           NEW a, Walking(from, to, T, a)
    PROVE  Walking(from, to, T \cup {x}, NeedStep(x, a))
<1> DEFINE gap   == IF a.fpos < x THEN x - a.fpos ELSE 0
           found == IF gap > 0 THEN Append(a.need, <<a.fpos, gap>>) ELSE a.need
           b     == NeedStep(x, a)
           last  == AfterBlock(x)
<1>1. x \in Starts /\ x \in Nat /\ last \in Nat /\ x < last /\ from < x
      /\ last = x + Len(m_svf[x].data) /\ Len(m_svf[x].data) \in Nat
  BY SoundBlock DEF Starts, End, AfterBlock, Following
<1>2. /\ a \in Walk /\ a.fpos \in Nat /\ a.len \in Nat /\ a.need \in Seeks
      /\ a.fpos + a.len = to /\ from <= a.fpos
  BY DEF Walking, Walk
<1>3. \A u \in Starts : u \in Nat /\ AfterBlock(u) \in Nat
  BY SoundBlock DEF Starts, End, AfterBlock
<1>4. \A u, v \in Starts : u < v => AfterBlock(u) < v
  BY DEF Sound, Starts, End, AfterBlock
<1>5. b \in Walk
  BY <1>1, <1>2, StepType
<1>6. CASE a.len = 0
  <2>1. b = a
    BY <1>6 DEF NeedStep
  <2>2. ~(a.len > 0)
    BY <1>6
  <2> QED
    BY <2>1, <2>2 DEF Walking
<1>7. CASE a.len > 0
  <2>1. a.fpos < x
    BY <1>7 DEF Walking
  <2>2. \A q \in Nat : a.fpos <= q /\ q < x => q \notin HeldPos
    <3> SUFFICES ASSUME NEW q \in Nat, a.fpos <= q, q < x, q \in HeldPos PROVE FALSE
      OBVIOUS
    <3>1. PICK u \in Starts : q \in u .. AfterBlock(u) - 1
      BY DEF HeldPos
    <3>2. u \in Nat /\ AfterBlock(u) \in Nat /\ u <= q /\ q < AfterBlock(u)
      BY <1>3, <3>1
    <3>3. CASE u <= from \/ u \in T
      BY <1>2, <1>7, <3>2, <3>3 DEF Walking
    <3>4. CASE ~(u <= from \/ u \in T)
      <4>1. u \in Following(from) \ T
        BY <3>1, <3>2, <3>4 DEF Following
      <4> QED
        BY <1>1, <3>2, <4>1
    <3> QED
      BY <3>3, <3>4
  <2>3. \A u \in Starts : u <= from \/ u \in T \cup {x} => AfterBlock(u) <= last
    <3> SUFFICES ASSUME NEW u \in Starts, u <= from \/ u \in T \/ u = x
                 PROVE  AfterBlock(u) <= last
      OBVIOUS
    <3>1. CASE u = x
      BY <1>1, <3>1
    <3>2. CASE u # x
      <4>1. AfterBlock(u) <= a.fpos
        BY <1>7, <3>2 DEF Walking
      <4> QED
        BY <1>1, <1>2, <1>3, <2>1, <4>1
    <3> QED
      BY <3>1, <3>2
  <2>4. \A u \in Following(from) \ (T \cup {x}) : last < u
    <3> SUFFICES ASSUME NEW u \in Following(from) \ T, u # x PROVE last < u
      OBVIOUS
    <3>1. u \in Starts /\ u \in Nat /\ x <= u
      BY <1>3 DEF Following
    <3>2. x < u
      BY <1>1, <3>1
    <3> QED
      BY <1>1, <1>4, <3>1, <3>2
  <2>5. CASE to <= x
    <3>0. a.len # 0 /\ a.fpos + a.len <= x
      BY <1>2, <1>7, <2>5
    <3> HIDE DEF found, gap
    <3>1. b = [fpos |-> to, len |-> 0, need |-> Append(a.need, <<a.fpos, a.len>>)]
      <4>1. b = [fpos |-> a.fpos + a.len, len |-> 0, need |-> Append(a.need, <<a.fpos, a.len>>)]
        BY <3>0 DEF NeedStep
      <4> QED
        BY <1>2, <4>1
    <3>2. a.fpos < to /\ a.len = to - a.fpos /\ \A q \in a.fpos .. to - 1 : q \notin HeldPos
      BY <1>1, <1>2, <1>7, <2>2, <2>5
    <3> HIDE DEF b
    <3>3. /\ Apart(b.need) /\ Listed(b.need) = (from .. to - 1) \ HeldPos
          /\ \A i \in DOMAIN b.need : from <= b.need[i][1] /\ EndOf(b.need[i]) <= to
      <4> DEFINE all == Append(a.need, <<a.fpos, a.len>>)
      <4>1. Gathered(from, to, all)
        BY <1>7, <3>2, WalkFound, Zenon
      <4> HIDE DEF all
      <4>2. b.need = all
        BY <3>1 DEF all
      <4> QED
        BY <4>1, <4>2 DEF Gathered
    <3>4. b.fpos = to /\ b.len = 0 /\ ~(b.len > 0) /\ b.fpos + b.len = to /\ from <= b.fpos
      BY <1>2, <3>1
    <3>5. Walking(from, to, T \cup {x}, b)
      BY <1>5, <3>3, <3>4 DEF Walking, b
    <3> QED
      BY <3>5 DEF b
  <2>6. CASE x < to
    <3>a. gap = x - a.fpos
      BY <2>1, Zenon
    <3>b. x - a.fpos > 0 /\ x - a.fpos \in Nat
      BY <1>1, <1>2, <2>1
    <3>c. gap > 0 /\ gap \in Nat
      BY <3>a, <3>b, Zenon
    <3>1. gap = x - a.fpos /\ gap > 0 /\ gap \in Nat /\ found = Append(a.need, <<a.fpos, gap>>)
      BY <3>a, <3>c, Zenon
    <3>2. a.fpos + gap = x
      BY <1>1, <1>2, <3>1
    <3>3. \A q \in a.fpos .. x - 1 : q \notin HeldPos
      BY <1>1, <1>2, <2>2
    <3> HIDE DEF found, gap
    <3>4. /\ found \in Seeks /\ Apart(found) /\ Listed(found) = (from .. x - 1) \ HeldPos
          /\ \A i \in DOMAIN found : from <= found[i][1] /\ EndOf(found[i]) <= x
      <4> DEFINE all == Append(a.need, <<a.fpos, gap>>)
      <4>0. x \in Nat /\ a.fpos < x /\ a.len > 0 /\ gap = x - a.fpos
        BY <1>1, <1>7, <2>1, <3>1
      <4>1. Gathered(from, x, all)
        BY <3>3, <4>0, WalkFound, Zenon
      <4> HIDE DEF all
      <4>2. found = all
        BY <3>1 DEF all
      <4> QED
        BY <4>1, <4>2 DEF Gathered
    <3>5. \A i \in DOMAIN found : EndOf(found[i]) \in Nat
      BY <3>4, SeekAt
    <3>6. x .. last - 1 \subseteq HeldPos
      BY <1>1 DEF HeldPos
    <3>7. CASE to <= last
      <4>0. a.len # 0 /\ ~(a.fpos + a.len <= x) /\ a.fpos + a.len <= last
        BY <1>1, <1>2, <1>7, <2>6, <3>7
      <4>1. b = [fpos |-> to, len |-> 0, need |-> found]
        <5>1. b = [fpos |-> a.fpos + a.len, len |-> 0, need |-> found]
          BY <4>0 DEF NeedStep, found, gap
        <5> QED
          BY <1>2, <5>1
      <4> HIDE DEF b
      <4>2. b.fpos = to /\ b.need = found /\ ~(b.len > 0) /\ b.fpos + b.len = to /\ from <= b.fpos
        BY <1>2, <4>1
      <4>3. Listed(found) = (from .. to - 1) \ HeldPos
        <5>1. from .. to - 1 = (from .. x - 1) \cup (x .. to - 1)
          BY <1>1, <2>6
        <5>2. x .. to - 1 \subseteq x .. last - 1
          BY <1>1, <3>7
        <5> QED
          BY <3>4, <3>6, <5>1, <5>2
      <4>4. \A i \in DOMAIN found : from <= found[i][1] /\ EndOf(found[i]) <= to
        BY <1>1, <2>6, <3>4, <3>5
      <4>5. Walking(from, to, T \cup {x}, b)
        BY <1>5, <3>4, <4>2, <4>3, <4>4 DEF Walking, b
      <4> QED
        BY <4>5 DEF b
    <3>8. CASE last < to
      <4>1. SizeSub(a.len - gap, last - x) = to - last
        <5> DEFINE f == a.fpos
                   l == a.len
                   c == l - gap
                   n == last - x
        <5>0. f \in Nat /\ l \in Nat /\ f + l = to /\ f + gap = x /\ gap \in Nat
          BY <1>2, <3>1, <3>2
        <5> HIDE DEF f, l, last, b
        <5>1. c = to - x /\ c \in Nat
          BY <1>1, <2>6, <5>0
        <5> HIDE DEF c
        <5>2. n \in Nat /\ n <= c /\ c - n = to - last
          BY <1>1, <3>8, <5>1
        <5> HIDE DEF n
        <5>3. c - n < SizeMod
          <6>1. to - last < SizeMod
            <7> DEFINE d == to - last
            <7>1. d \in Int /\ d <= to /\ SizeMod \in Nat
              BY <1>1, BoundsAssumption
            <7> HIDE DEF d
            <7>2. d < SizeMod
              BY <7>1
            <7> QED
              BY <7>2 DEF d
          <6> QED
            BY <5>2, <6>1
        <5>4. SizeSub(c, n) = to - last
          BY <5>1, <5>2, <5>3, SubFits
        <5> QED
          BY <5>4 DEF c, n, l
      <4>2. b = [fpos |-> a.fpos + gap + (last - x), len |-> SizeSub(a.len - gap, last - x), need |-> found]
        <5>1. a.len # 0 /\ ~(a.fpos + a.len <= x) /\ ~(a.fpos + a.len <= last)
          BY <1>1, <1>2, <1>7, <2>6, <3>8
        <5> QED
          BY <5>1 DEF NeedStep, found, gap
      <4>3. a.fpos + gap + (last - x) = last
        BY <1>1, <1>2, <3>1, <3>2
      <4> HIDE DEF b
      <4>4. b.fpos = last /\ b.need = found /\ b.len = to - last
        BY <4>1, <4>2, <4>3
      <4>5. b.fpos + b.len = to /\ from <= b.fpos
        BY <1>1, <4>4
      <4>6. Listed(found) = (from .. last - 1) \ HeldPos
        <5>1. from .. last - 1 = (from .. x - 1) \cup (x .. last - 1)
          BY <1>1
        <5> QED
          BY <3>4, <3>6, <5>1
      <4>7. \A i \in DOMAIN found : from <= found[i][1] /\ EndOf(found[i]) < last /\ EndOf(found[i]) <= last
        BY <1>1, <3>4, <3>5
      <4>8. Walking(from, to, T \cup {x}, b)
        BY <1>5, <2>3, <2>4, <3>4, <4>4, <4>5, <4>6, <4>7 DEF Walking, b
      <4> QED
        BY <4>8 DEF b
    <3> QED
      BY <1>1, <3>7, <3>8
  <2> QED
    BY <1>1, <2>5, <2>6
<1> QED
  BY <1>2, <1>6, <1>7

LEMMA WalkStart ==
    ASSUME Sound(m_svf), NEW from \in Nat, NEW len \in Nat, len > 0
    PROVE  Walking(from, from + len, {}, DropHeldHead(from, len))
<1> DEFINE before == \A s \in Starts : from < s /\ from + len <= s
           inside == Starts # {} /\ Locate(from) <= from
           last   == IF inside THEN AfterBlock(Locate(from)) ELSE 0
           a      == DropHeldHead(from, len)
           to     == from + len
<1>1. \A u \in Starts : u \in Nat /\ AfterBlock(u) \in Nat
  BY SoundBlock DEF Starts, End, AfterBlock
<1>2. \A u, v \in Starts : u < v => AfterBlock(u) < v
  BY DEF Sound, Starts, End, AfterBlock
<1>3. BlocksOK(m_svf) /\ to \in Nat
  BY DEF Sound
<1>6. CASE before
  <2> DEFINE k == <<from, len>>
  <2>1. a = [fpos |-> to, len |-> 0, need |-> <<k>>]
    BY <1>6 DEF DropHeldHead, before
  <2>2. k \in Nat \X Nat /\ k[2] > 0 /\ k[1] = from /\ EndOf(k) = to /\ Piece(k) = from .. to - 1
    BY DEF EndOf, Piece
  <2> HIDE DEF a, k
  <2>3. /\ <<k>> \in Seeks /\ DOMAIN <<k>> = 1 .. 1 /\ <<k>>[1] = k
        /\ Apart(<<k>>) /\ Listed(<<k>>) = from .. to - 1
    BY <2>2, OneSeek
  <2>4. (from .. to - 1) \cap HeldPos = {}
    <3> SUFFICES ASSUME NEW q \in from .. to - 1, q \in HeldPos PROVE FALSE
      OBVIOUS
    <3>1. PICK u \in Starts : q \in u .. AfterBlock(u) - 1
      BY DEF HeldPos
    <3>2. to <= u
      BY <1>6, <3>1 DEF before
    <3> QED
      BY <1>1, <1>3, <3>1, <3>2
  <2>5. a.fpos = to /\ a.len = 0 /\ a.need = <<k>> /\ a \in Walk
    BY <1>3, <2>1, <2>3 DEF Walk
  <2>6. \A i \in DOMAIN a.need : from <= a.need[i][1] /\ EndOf(a.need[i]) <= a.fpos
    BY <1>3, <2>2, <2>3, <2>5
  <2>7. Listed(a.need) = (from .. a.fpos - 1) \ HeldPos
    BY <2>3, <2>4, <2>5
  <2>8. a.fpos + a.len = to /\ from <= a.fpos /\ ~(a.len > 0)
    BY <1>3, <2>5 DEF to
  <2>9. Walking(from, to, {}, a)
    BY <2>3, <2>5, <2>6, <2>7, <2>8 DEF Walking
  <2> QED
    BY <2>9 DEF a, to
<1>4. CASE ~before /\ from < last
  <2> DEFINE s == Locate(from)
  <2>1. s \in Starts /\ s <= from /\ last = AfterBlock(s)
        /\ \A u \in Starts : u <= from => u <= s
    <3>1. inside
      BY <1>4
    <3> QED
      BY <1>3, <3>1, LocateType
  <2> HIDE DEF s, inside
  <2>2. a = [fpos |-> Lesser(from + len, last), len |-> len - Lesser(len, last - from), need |-> <<>>]
    BY <1>4 DEF DropHeldHead, inside, before
  <2> HIDE DEF a, last, before
  <2>3. s \in Nat /\ last \in Nat /\ last - from \in Nat
    BY <1>1, <1>4, <2>1
  <2>4. /\ a.fpos \in Nat /\ a.len \in Nat /\ a.need = <<>> /\ a.fpos + a.len = to /\ from <= a.fpos
        /\ a.fpos <= last /\ (a.len > 0 => a.fpos = last)
    BY <1>4, <2>2, <2>3 DEF Lesser
  <2>5. a \in Walk
    BY <2>2, <2>4, NothingListed DEF Walk
  <2>6. from .. a.fpos - 1 \subseteq HeldPos
    <3>1. from .. a.fpos - 1 \subseteq s .. AfterBlock(s) - 1
      BY <2>1, <2>3, <2>4
    <3> QED
      BY <2>1, <3>1 DEF HeldPos
  <2>7. \A u \in Starts : u <= from => AfterBlock(u) <= last
    <3> SUFFICES ASSUME NEW u \in Starts, u <= from PROVE AfterBlock(u) <= last
      OBVIOUS
    <3>1. u \in Nat /\ AfterBlock(u) \in Nat /\ u <= s
      BY <1>1, <2>1
    <3>2. CASE u = s
      BY <2>1, <2>3, <3>2
    <3>3. CASE u < s
      BY <1>1, <1>2, <2>1, <2>3, <3>1, <3>3
    <3> QED
      BY <2>3, <3>1, <3>2, <3>3
  <2>8. \A u \in Following(from) : last < u
    <3> SUFFICES ASSUME NEW u \in Starts, u > from PROVE last < u
      BY DEF Following
    <3>1. s < u
      BY <1>1, <2>1, <2>3
    <3> QED
      BY <1>2, <2>1, <3>1
  <2>9. Listed(a.need) = (from .. a.fpos - 1) \ HeldPos /\ Apart(a.need) /\ DOMAIN a.need = {}
    BY <2>4, <2>6, NothingListed
  <2>10. a.len > 0 => /\ \A u \in Starts : u <= from => AfterBlock(u) <= a.fpos
                      /\ \A u \in Following(from) : a.fpos < u
    BY <2>4, <2>7, <2>8
  <2>11. Walking(from, to, {}, a)
    BY <2>4, <2>5, <2>9, <2>10 DEF Walking
  <2> QED
    BY <2>11 DEF a
<1>5. CASE ~before /\ ~(from < last)
  <2>1. a = [fpos |-> from, len |-> len, need |-> <<>>]
    BY <1>5 DEF DropHeldHead, before
  <2> HIDE DEF a
  <2>2. a \in Walk /\ a.fpos = from /\ a.len = len /\ a.need = <<>>
    BY <2>1, NothingListed DEF Walk
  <2>3. \A u \in Starts : u <= from => AfterBlock(u) <= from
    <3> SUFFICES ASSUME NEW u \in Starts, u <= from PROVE AfterBlock(u) <= from
      OBVIOUS
    <3> DEFINE s == Locate(from)
    <3>1. u \in Nat /\ AfterBlock(u) \in Nat /\ Starts # {}
      BY <1>1
    <3>2. s \in Starts /\ s \in Nat
      BY <1>1, <1>3, <3>1, LocateType
    <3>3. s <= from
      <4> SUFFICES ASSUME s > from PROVE FALSE
        BY <3>2
      <4>1. s <= u
        BY <1>3, <3>1, LocateType
      <4> QED
        BY <3>1, <3>2, <4>1
    <3>4. u <= s /\ AfterBlock(s) \in Nat
      BY <1>1, <1>3, <3>1, <3>2, <3>3, LocateType
    <3>5. AfterBlock(s) <= from
      BY <1>5, <3>1, <3>3, <3>4
    <3> HIDE DEF s, last, inside
    <3>6. CASE u = s
      BY <3>5, <3>6
    <3>7. CASE u < s
      BY <1>2, <3>1, <3>2, <3>3, <3>7
    <3> QED
      BY <3>1, <3>2, <3>4, <3>6, <3>7
  <2>4. Listed(a.need) = (from .. a.fpos - 1) \ HeldPos /\ Apart(a.need) /\ DOMAIN a.need = {}
    <3>1. from .. from - 1 = {}
      OBVIOUS
    <3> QED
      BY <2>2, <3>1, NothingListed
  <2>5. \A u \in Following(from) : a.fpos < u
    BY <2>2 DEF Following
  <2>6. Walking(from, to, {}, a)
    BY <2>2, <2>3, <2>4, <2>5 DEF Walking
  <2> QED
    BY <2>6 DEF a
<1> QED
  BY <1>4, <1>5, <1>6

LEMMA WalkAll ==
    ASSUME Sound(m_svf), NEW from \in Nat, NEW len \in Nat, len > 0, from + len < SizeMod
    PROVE  Walking(from, from + len, Following(from), Walked(from, len))
<1> DEFINE D  == Following(from)
           to == from + len
           base == DropHeldHead(from, len)
<1>1. D \subseteq Starts /\ D \subseteq Pos /\ D \subseteq 0 .. MaxPos /\ MaxPos \in Nat /\ to \in Nat
  <2>1. D \subseteq Starts /\ D \subseteq Pos
    BY DEF Following, Sound, BlocksOK, Starts
  <2> QED
    BY <2>1, BoundsAssumption DEF Pos
<1>2. Walking(from, to, {}, base)
  BY WalkStart
<1>3. base \in Walk
  BY <1>2 DEF Walking
<1>4. \A x \in D, a \in Walk : NeedStep(x, a) \in Walk
  BY <1>1, StepType
<1> HIDE DEF base, D, to
<1>5. PICK g : /\ g[{}] = base
               /\ \A s \in SUBSET D :
                    /\ g[s] \in Walk
                    /\ s # {} => g[s] = NeedStep(Largest(s), g[s \ {Largest(s)}])
               /\ MapThenFoldSet(NeedStep, base, LAMBDA s : s, Largest, D) = g[D]
  BY <1>1, <1>3, <1>4, NeedFold
<1> DEFINE Prefix(s) == \A u \in s, v \in D : v < u => v \in s
           G == {s \in SUBSET D : Prefix(s) => Walking(from, to, s, g[s])}
<1>6. {} \in G
  BY <1>2, <1>5
<1>7. ASSUME NEW s \in SUBSET D, s # {}, s \ {Largest(s)} \in G
      PROVE  s \in G
  <2> DEFINE x == Largest(s)
             T == s \ {x}
  <2> SUFFICES ASSUME Prefix(s) PROVE Walking(from, to, s, g[s])
    OBVIOUS
  <2>1. x \in s /\ \A y \in s : y <= x
    BY <1>1, <1>7, LargestIn
  <2> HIDE DEF x
  <2>2. \A y \in D : y \in Nat
    BY <1>1
  <2>3. \A y \in T : y < x
    BY <2>1, <2>2
  <2>4. Prefix(T)
    <3> SUFFICES ASSUME NEW u \in T, NEW v \in D, v < u PROVE v \in T
      OBVIOUS
    <3>1. v \in s
      OBVIOUS
    <3>2. v # x
      BY <2>1, <2>2, <2>3
    <3> QED
      BY <3>1, <3>2
  <2>5. \A u \in D \ T : x <= u
    <3> SUFFICES ASSUME NEW u \in D \ T, ~(x <= u) PROVE FALSE
      OBVIOUS
    <3>1. u < x
      BY <2>1, <2>2
    <3>2. u \in s /\ u # x
      BY <2>1, <2>2, <3>1
    <3> QED
      BY <3>2
  <2>6. Walking(from, to, T, g[T])
    BY <1>7, <2>4 DEF x
  <2>7. Walking(from, to, T \cup {x}, NeedStep(x, g[T]))
    <3>1. T \subseteq D /\ x \in D \ T
      BY <2>1
    <3>2. to < SizeMod
      BY DEF to
    <3> HIDE DEF T, G
    <3> QED
      BY <1>1, <2>3, <2>5, <2>6, <3>1, <3>2, WalkStep DEF D
  <2>8. T \cup {x} = s /\ g[s] = NeedStep(x, g[T])
    BY <1>5, <1>7, <2>1 DEF x
  <2> QED
    BY <2>7, <2>8
<1>8. D \in G
  <2> HIDE DEF G
  <2>1. \A s \in SUBSET D : s \in G
    BY <1>1, <1>6, <1>7, LargestLast
  <2> QED
    BY <2>1
<1>9. Walking(from, to, D, g[D])
  BY <1>8
<1>10. Walked(from, len) = g[D]
  BY <1>5 DEF Walked, base, D
<1> QED
  BY <1>9, <1>10 DEF D, to

\* need() without a greedy length lists exactly the missing bytes of the range, in
\* pieces that are in order, not empty and not adjacent.
LEMMA NeedExact ==
    ASSUME Sound(m_svf), NEW from \in Nat, NEW len \in Nat, len > 0, from + len < SizeMod
    PROVE  /\ Missing(from, len) \in Seeks /\ Apart(Missing(from, len))
           /\ Listed(Missing(from, len)) = (from .. from + len - 1) \ HeldPos
           /\ \A i \in DOMAIN Missing(from, len) :
                /\ from <= Missing(from, len)[i][1]
                /\ EndOf(Missing(from, len)[i]) <= from + len
<1> DEFINE D  == Following(from)
           to == from + len
           a  == Walked(from, len)
           all == Missing(from, len)
<1>1. Walking(from, to, D, a) /\ to \in Nat
  BY WalkAll
<1> HIDE DEF a, to, D
<1>2. a.fpos \in Nat /\ a.len \in Nat /\ a.need \in Seeks /\ a.fpos + a.len = to /\ from <= a.fpos
  BY <1>1 DEF Walking, Walk
<1>3. CASE a.len = 0
  <2>1. all = a.need /\ a.fpos = to
    BY <1>1, <1>2, <1>3 DEF Missing, a
  <2> HIDE DEF all
  <2>2. all \in Seeks /\ Apart(all) /\ Listed(all) = (from .. to - 1) \ HeldPos
        /\ \A i \in DOMAIN all : from <= all[i][1] /\ EndOf(all[i]) <= to
    BY <1>1, <1>2, <2>1 DEF Walking
  <2> QED
    BY <2>2 DEF all, to
<1>4. CASE a.len > 0
  <2>1. all = Append(a.need, <<a.fpos, a.len>>)
    BY <1>2, <1>4 DEF Missing, a
  <2>2. a.fpos < to /\ a.len = to - a.fpos
    BY <1>1, <1>2, <1>4
  <2>3. \A q \in a.fpos .. to - 1 : q \notin HeldPos
    <3> SUFFICES ASSUME NEW q \in a.fpos .. to - 1, q \in HeldPos PROVE FALSE
      OBVIOUS
    <3>1. PICK u \in Starts : q \in u .. AfterBlock(u) - 1
      BY DEF HeldPos
    <3>2. u \in Nat /\ AfterBlock(u) \in Nat
      BY SoundBlock DEF Starts, End, AfterBlock
    <3>3. u <= from \/ u \in D
      BY <3>2 DEF D, Following
    <3>4. AfterBlock(u) <= a.fpos
      BY <1>1, <1>4, <3>3 DEF Walking
    <3> QED
      BY <1>1, <1>2, <3>1, <3>2, <3>4
  <2> DEFINE b == Append(a.need, <<a.fpos, a.len>>)
  <2>4. Gathered(from, to, b)
    BY <1>1, <1>4, <2>2, <2>3, WalkFound, Zenon
  <2>5. all = b
    BY <2>1
  <2> HIDE DEF all, b
  <2>6. all \in Seeks /\ Apart(all) /\ Listed(all) = (from .. to - 1) \ HeldPos
        /\ \A i \in DOMAIN all : from <= all[i][1] /\ EndOf(all[i]) <= to
    BY <2>4, <2>5 DEF Gathered
  <2> QED
    BY <2>6 DEF all, to
<1> QED
  BY <1>2, <1>3, <1>4

(***************************************************************************)
(* _minimise_seek_reads                                                     *)
(***************************************************************************)
\* A fold over 1 .. n takes the numbers one after the other.
LEMMA FoldInOrder ==
    ASSUME NEW n \in Nat, NEW base, NEW step, NEW f, IsFold(f, 1 .. n, base, step)
    PROVE  /\ f[1 .. 0] = base
           /\ \A i \in 1 .. n : f[1 .. i] = step[<<i, f[1 .. i - 1]>>]
<1>1. 1 .. 0 = {} /\ 1 .. 0 \in SUBSET (1 .. n)
  OBVIOUS
<1>2. ASSUME NEW i \in 1 .. n
      PROVE  f[1 .. i] = step[<<i, f[1 .. i - 1]>>]
  <2> DEFINE S == 1 .. i
  <2>1. i \in S /\ S \subseteq 0 .. n /\ S \in SUBSET (1 .. n) /\ i \in Nat /\ \A y \in S : y <= i
    OBVIOUS
  <2>2. S \ {i} = 1 .. i - 1
    OBVIOUS
  <2> HIDE DEF S
  <2>3. Largest(S) \in S /\ \A y \in S : y <= Largest(S)
    BY <2>1, LargestIn
  <2>4. Largest(S) = i
    <3> DEFINE z == Largest(S)
    <3>0. i \in Nat /\ \A y \in S : y \in Nat
      BY <2>1
    <3>1. z \in Nat /\ z <= i /\ i <= z
      BY <2>1, <2>3, <3>0
    <3> HIDE DEF z
    <3>2. z = i
      BY <2>1, <3>1
    <3> QED
      BY <3>2 DEF z
  <2>5. f[S] = step[<<Largest(S), f[S \ {Largest(S)}]>>]
    BY <2>1 DEF IsFold
  <2> QED
    BY <2>2, <2>4, <2>5 DEF S
<1> QED
  BY <1>1, <1>2 DEF IsFold

LEMMA CollectType ==
    ASSUME NEW new \in Seeks, NEW seek \in Nat \X Nat, NEW greedy \in Nat
    PROVE  Collect(new, seek, greedy) \in Seeks
<1>1. seek[1] \in Nat /\ seek[2] \in Nat
  OBVIOUS
<1>2. CASE new = <<>> \/ StartsClear(seek, new[Len(new)])
  <2>1. <<seek[1], _amount_to_read(seek[2], greedy)>> \in Nat \X Nat
    BY <1>1 DEF _amount_to_read, Larger
  <2> QED
    BY <1>2, <2>1, SeekAppend DEF Collect
<1>3. CASE ~(new = <<>> \/ StartsClear(seek, new[Len(new)]))
  <2> DEFINE n == Len(new)
             last == new[n]
  <2>1. n \in Nat /\ n > 0 /\ DOMAIN new = 1 .. n /\ n \in DOMAIN new
    BY <1>3, EmptySeq, LenProperties DEF Seeks
  <2>2. last[1] \in Nat /\ last[2] \in Nat
    BY <2>1, SeekAt
  <2> HIDE DEF last
  <2>3. Extended(last, seek) \in Nat \X Nat
    BY <1>1, <2>2 DEF Extended, EndOf, Larger
  <2>4. Collect(new, seek, greedy) = [new EXCEPT ![n] = Extended(last, seek)]
    BY <1>3 DEF Collect, last
  <2>5. new \in [1 .. n -> Nat \X Nat]
    BY LenProperties DEF Seeks
  <2>6. [new EXCEPT ![n] = Extended(last, seek)] \in [1 .. n -> Nat \X Nat]
    BY <2>3, <2>5
  <2> QED
    BY <2>1, <2>4, <2>6, SeqDef DEF Seeks
<1> QED
  BY <1>2, <1>3

\* What the loop has after each seek.
LEMMA MinimiseFold ==
    ASSUME NEW s \in Seeks, NEW greedy \in Nat
    PROVE  \E g : /\ g[0] = <<>>
                  /\ \A i \in 0 .. Len(s) : g[i] \in Seeks
                  /\ \A i \in 1 .. Len(s) : g[i] = Collect(g[i - 1], s[i], greedy)
                  /\ _minimise_seek_reads(s, greedy) = g[Len(s)]
<1> DEFINE n == Len(s)
           D == DOMAIN s
           step == [c \in D \X Seeks |-> Collect(c[2], s[c[1]], greedy)]
           Is(g) == g = [t \in SUBSET D |->
                            IF t = {} THEN <<>> ELSE Collect(g[t \ {Max(t)}], s[Max(t)], greedy)]
           f == CHOOSE g : Is(g)
<1>1. n \in Nat /\ D = 1 .. n /\ D \subseteq 0 .. n /\ \A x \in D : s[x] \in Nat \X Nat
  BY LenProperties DEF Seeks
<1>2. \A x \in D, a \in Seeks : step[<<x, a>>] = Collect(a, s[x], greedy) /\ step[<<x, a>>] \in Seeks
  BY <1>1, CollectType
<1>3. <<>> \in Seeks
  BY NothingListed
<1>4. \A t \in SUBSET D : t # {} => Max(t) = Largest(t) /\ Largest(t) \in t /\ Largest(t) \in D
  <2> SUFFICES ASSUME NEW t \in SUBSET D, t # {}
               PROVE  Max(t) = Largest(t) /\ Largest(t) \in t /\ Largest(t) \in D
    OBVIOUS
  <2>1. t \subseteq 0 .. n
    BY <1>1
  <2> HIDE DEF D, n
  <2> QED
    BY <1>1, <2>1, MaxIsLargest, LargestIn
<1>5. PICK g : IsFold(g, D, <<>>, step) /\ \A t \in SUBSET D : g[t] \in Seeks
  <2> HIDE DEF step, D, n
  <2> QED
    BY <1>1, <1>2, <1>3, FoldExists
<1>6. Is(g)
  <2> HIDE DEF step, D, n
  <2>1. ASSUME NEW t \in SUBSET D, t # {}
        PROVE  step[<<Largest(t), g[t \ {Largest(t)}]>>] = Collect(g[t \ {Max(t)}], s[Max(t)], greedy)
    BY <1>2, <1>4, <1>5, <2>1
  <2>2. \A t \in SUBSET D :
            IF t = {} THEN g[t] = <<>> ELSE g[t] = Collect(g[t \ {Max(t)}], s[Max(t)], greedy)
    BY <1>5, <2>1 DEF IsFold
  <2>3. DOMAIN g = SUBSET D /\ g = [t \in DOMAIN g |-> g[t]]
    BY <1>5 DEF IsFold
  <2> QED
    BY <2>2, <2>3
<1>7. Is(f)
  BY <1>6
<1>8. _minimise_seek_reads(s, greedy) = f[DOMAIN s]
  BY Zenon DEF _minimise_seek_reads, FoldLeft, MapThenFoldSet
<1> HIDE DEF f
<1>9. /\ f = [t \in SUBSET D |-> f[t]] /\ f[{}] = <<>>
      /\ \A t \in SUBSET D : t # {} => f[t] = Collect(f[t \ {Largest(t)}], s[Largest(t)], greedy)
  BY <1>4, <1>7
<1>10. \A t \in SUBSET D : f[t] \in Seeks
  <2> DEFINE G == {t \in SUBSET D : f[t] \in Seeks}
  <2>1. {} \in G
    BY <1>3, <1>9
  <2>2. ASSUME NEW t \in SUBSET D, t # {}, t \ {Largest(t)} \in G
        PROVE  t \in G
    <3> DEFINE x == Largest(t)
    <3>1. x \in D /\ s[x] \in Nat \X Nat /\ f[t \ {x}] \in Seeks
      BY <1>1, <1>4, <2>2
    <3>2. f[t] = Collect(f[t \ {x}], s[x], greedy)
      BY <1>9, <2>2
    <3> HIDE DEF x
    <3>3. f[t] \in Seeks
      BY <3>1, <3>2, CollectType
    <3> QED
      BY <3>3
  <2> HIDE DEF G, D, n
  <2>3. \A t \in SUBSET D : t \in G
    BY <1>1, <2>1, <2>2, LargestLast
  <2> QED
    BY <2>3 DEF G
<1>11. IsFold(f, D, <<>>, step)
  <2>1. \A t \in SUBSET D : t # {} => f[t] = step[<<Largest(t), f[t \ {Largest(t)}]>>]
    <3> HIDE DEF step, D, n
    <3> SUFFICES ASSUME NEW t \in SUBSET D, t # {}
                 PROVE  f[t] = step[<<Largest(t), f[t \ {Largest(t)}]>>]
      OBVIOUS
    <3> DEFINE x == Largest(t)
    <3>1. x \in D /\ t \ {x} \in SUBSET D
      BY <1>4
    <3>2. f[t \ {x}] \in Seeks
      BY <1>10, <3>1
    <3>3. f[t] = Collect(f[t \ {x}], s[x], greedy)
      BY <1>9
    <3> HIDE DEF x
    <3>4. f[t] = step[<<x, f[t \ {x}]>>]
      BY <1>2, <3>1, <3>2, <3>3
    <3> QED
      BY <3>4 DEF x
  <2> HIDE DEF step, D, n
  <2> QED
    BY <1>9, <2>1 DEF IsFold
<1> HIDE DEF step
<1>12. f[1 .. 0] = <<>> /\ \A i \in 1 .. n : f[1 .. i] = step[<<i, f[1 .. i - 1]>>]
  <2> HIDE DEF n
  <2> QED
    BY <1>1, <1>11, FoldInOrder
<1> DEFINE h == [i \in 0 .. n |-> f[1 .. i]]
<1>13. h[0] = <<>> /\ \A i \in 0 .. n : h[i] \in Seeks
  BY <1>1, <1>10, <1>12
<1>14. \A i \in 1 .. n : h[i] = Collect(h[i - 1], s[i], greedy)
  <2> SUFFICES ASSUME NEW i \in 1 .. n PROVE h[i] = Collect(h[i - 1], s[i], greedy)
    OBVIOUS
  <2>1. i \in 0 .. n /\ i - 1 \in 0 .. n /\ i \in D
    BY <1>1
  <2> QED
    BY <1>2, <1>12, <1>13, <2>1
<1>15. _minimise_seek_reads(s, greedy) = h[n]
  BY <1>1, <1>8
<1> QED
  BY <1>13, <1>14, <1>15

\* Each byte of a seek that comes before the start of an earlier one has been
\* sought already.
Settled(s) ==
    /\ \A i \in DOMAIN s : s[i][2] > 0
    /\ \A j \in DOMAIN s : \A i \in 1 .. j - 1 : \A q \in Piece(s[j]) :
            q < s[i][1] => \E k \in 1 .. j - 1 : q \in Piece(s[k])

\* A seek starts at q and no seek covers the byte before it.
StartsAtGap(s, n, q) ==
    /\ \E i \in 1 .. n : q = s[i][1]
    /\ \A j \in DOMAIN s : q - 1 \notin Piece(s[j])

\* The pieces new that the loop has made of the first n of the seeks s.
Collected(s, n, greedy, new) ==
    /\ new \in Seeks /\ Apart(new)
    /\ \A i \in 1 .. n : Piece(s[i]) \subseteq Listed(new)
    /\ greedy = 0 => \A q \in Listed(new) : \E i \in 1 .. n : q \in Piece(s[i])
    /\ \A i \in DOMAIN new : new[i][2] >= greedy
    /\ n > 0 => new # <<>>
    /\ \A i \in DOMAIN new : StartsAtGap(s, n, new[i][1])

LEMMA ApartOrder ==
    ASSUME NEW s \in Seeks, Apart(s)
    PROVE  \A j \in DOMAIN s : \A i \in 1 .. j - 1 : EndOf(s[i]) < s[j][1]
<1>1. Len(s) \in Nat /\ DOMAIN s = 1 .. Len(s)
  BY LenProperties DEF Seeks
<1> DEFINE n == Len(s)
           T == {k \in 0 .. n : \A j \in 1 .. k : \A i \in 1 .. j - 1 : EndOf(s[i]) < s[j][1]}
<1>2. 0 \in T
  BY <1>1
<1>3. ASSUME NEW k \in 0 .. n - 1, k \in T
      PROVE  k + 1 \in T
  <2>0. k \in Nat /\ k + 1 \in 1 .. n /\ k + 1 \in 0 .. n
    BY <1>1
  <2>1. ASSUME NEW i \in 1 .. k PROVE EndOf(s[i]) < s[k + 1][1]
    <3>1. k \in 1 .. n - 1 /\ k \in 1 .. n /\ i \in 1 .. n
      BY <1>1, <2>0
    <3>2. EndOf(s[k]) < s[k + 1][1] /\ s[k][2] > 0
      BY <1>1, <3>1 DEF Apart
    <3>3. /\ s[k][1] \in Nat /\ s[k][2] \in Nat /\ EndOf(s[k]) = s[k][1] + s[k][2]
          /\ EndOf(s[i]) \in Nat /\ s[k + 1][1] \in Nat
      BY <1>1, <2>0, <3>1, SeekAt
    <3>4. CASE i = k
      BY <3>2, <3>4
    <3>5. CASE i # k
      <4>1. i \in 1 .. k - 1 /\ k \in 1 .. k
        BY <2>0, <3>5
      <4>2. EndOf(s[i]) < s[k][1]
        BY <1>3, <4>1
      <4> QED
        <5>1. /\ EndOf(s[i]) \in Nat /\ s[k][1] \in Nat /\ s[k][2] \in Nat
              /\ s[k + 1][1] \in Nat
          BY <3>3, Zenon
        <5>2. EndOf(s[k]) = s[k][1] + s[k][2] /\ EndOf(s[k]) < s[k + 1][1]
          BY <3>2, <3>3, Zenon
        <5> QED
          BY <4>2, <5>1, <5>2, EndsAcross, Zenon
    <3> QED
      BY <3>4, <3>5
  <2>2. \A j \in 1 .. k + 1 : j \in 1 .. k \/ j = k + 1
    BY <2>0
  <2>3. (k + 1) - 1 = k
    BY <2>0
  <2>4. \A j \in 1 .. k + 1 : \A i \in 1 .. j - 1 : EndOf(s[i]) < s[j][1]
    BY <1>3, <2>1, <2>2, <2>3
  <2> QED
    BY <2>0, <2>4
<1>4. n \in T
  <2> HIDE DEF T, n
  <2>1. \A k \in 0 .. n - 1 : k \in T => k + 1 \in T
    BY <1>3
  <2>2. n \in Nat
    BY <1>1 DEF n
  <2> QED
    BY <1>2, <2>1, <2>2, UpTo
<1> QED
  BY <1>1, <1>4

LEMMA ApartSettled ==
    ASSUME NEW s \in Seeks, Apart(s)
    PROVE  Settled(s)
<1>1. Len(s) \in Nat /\ DOMAIN s = 1 .. Len(s)
  BY LenProperties DEF Seeks
<1> SUFFICES ASSUME NEW j \in DOMAIN s, NEW i \in 1 .. j - 1, NEW q \in Piece(s[j]), q < s[i][1]
             PROVE  FALSE
  BY DEF Settled, Apart
<1>2. j \in 1 .. Len(s) /\ i \in DOMAIN s
  BY <1>1
<1>3. /\ s[j][1] \in Nat /\ s[i][1] \in Nat /\ s[i][2] \in Nat /\ EndOf(s[i]) = s[i][1] + s[i][2]
      /\ EndOf(s[j]) \in Nat
  BY <1>2, SeekAt
<1>4. EndOf(s[i]) < s[j][1]
  BY ApartOrder
<1>5. q \in Nat /\ s[j][1] <= q
  BY <1>3 DEF Piece
<1> QED
  BY <1>3, <1>4, <1>5

LEMMA CollectStep ==
    ASSUME NEW s \in Seeks, Settled(s), NEW greedy \in Nat, NEW n \in 1 .. Len(s),
           NEW new, Collected(s, n - 1, greedy, new)
    PROVE  Collected(s, n, greedy, Collect(new, s[n], greedy))
<1> DEFINE seek == s[n]
           b    == Collect(new, seek, greedy)
           m    == Len(new)
           last == new[m]
<1>1. Len(s) \in Nat /\ DOMAIN s = 1 .. Len(s) /\ n \in DOMAIN s /\ n \in Nat /\ n > 0 /\ n - 1 \in Nat
  BY LenProperties DEF Seeks
<1>2. /\ seek \in Nat \X Nat /\ seek[1] \in Nat /\ seek[2] \in Nat /\ seek[2] > 0
      /\ EndOf(seek) = seek[1] + seek[2] /\ EndOf(seek) \in Nat
  BY <1>1, SeekAt DEF Settled
<1>3. /\ new \in Seeks /\ Apart(new) /\ m \in Nat /\ DOMAIN new = 1 .. m
  BY LenProperties DEF Seeks, Collected
<1>4. b \in Seeks
  BY <1>2, <1>3, CollectType
<1>5. \A i \in 1 .. n : i \in 1 .. n - 1 \/ i = n
  BY <1>1
<1>6. n \in 1 .. n /\ 1 .. n - 1 \subseteq 1 .. n
  BY <1>1
<1>7. CASE new = <<>> \/ StartsClear(seek, last)
  <2> DEFINE k == <<seek[1], _amount_to_read(seek[2], greedy)>>
  <2>1. /\ k \in Nat \X Nat /\ k[1] = seek[1] /\ k[2] = _amount_to_read(seek[2], greedy)
        /\ k[2] \in Nat /\ k[2] >= seek[2] /\ k[2] >= greedy /\ (greedy = 0 => k[2] = seek[2])
    BY <1>2 DEF _amount_to_read, Larger
  <2>2. b = Append(new, k)
    BY <1>7 DEF Collect
  <2> HIDE DEF k, b, seek, last
  <2>3. EndOf(k) = seek[1] + k[2]
    BY <2>1 DEF EndOf
  <2>4. Piece(seek) \subseteq Piece(k) /\ (greedy = 0 => Piece(k) = Piece(seek))
    BY <1>2, <2>1, <2>3 DEF Piece
  <2>5. /\ Len(b) = m + 1 /\ DOMAIN b = 1 .. m + 1 /\ b # <<>>
        /\ \A i \in 1 .. m : b[i] = new[i]
        /\ b[m + 1] = k
        /\ Listed(b) = Listed(new) \cup Piece(k)
    <3>1. new \in Seeks
      BY <1>3, Zenon
    <3>2. /\ Append(new, k) # <<>> /\ Len(Append(new, k)) = m + 1
          /\ DOMAIN Append(new, k) = 1 .. m + 1
          /\ \A i \in 1 .. m : Append(new, k)[i] = new[i]
          /\ Append(new, k)[m + 1] = k
          /\ Listed(Append(new, k)) = Listed(new) \cup Piece(k)
      BY <2>1, <3>1, SeekAppend, Zenon
    <3> QED
      BY <2>2, <3>2, Zenon
  <2>6. ASSUME NEW i \in DOMAIN new PROVE EndOf(new[i]) < k[1]
    <3>1. m \in DOMAIN new /\ i \in 1 .. m /\ new # <<>>
      <4>1. i \in 1 .. m
        BY <1>3
      <4>2. m \in 1 .. m
        BY <1>3, <4>1
      <4>3. DOMAIN <<>> = {}
        BY NothingListed
      <4> QED
        BY <1>3, <4>1, <4>2, <4>3
    <3>2. EndOf(last) < seek[1]
      BY <1>7, <3>1 DEF StartsClear
    <3>3. CASE i = m
      BY <2>1, <3>2, <3>3 DEF last
    <3>4. CASE i # m
      <4>1. i \in 1 .. m - 1
        BY <1>3, <3>1, <3>4
      <4>2. EndOf(new[i]) < last[1]
        BY <1>3, <3>1, <4>1, ApartOrder DEF last
      <4>3. last[1] \in Nat /\ last[2] \in Nat /\ EndOf(last) = last[1] + last[2] /\ EndOf(new[i]) \in Nat
        BY <1>3, <3>1, SeekAt DEF last
      <4> QED
        BY <1>2, <2>1, <3>2, <4>2, <4>3
    <3> QED
      BY <3>3, <3>4
  <2>7. Apart(b)
    <3>1. k[2] > 0
      BY <1>2, <2>1
    <3>2. Apart(Append(new, k))
      BY <1>3, <2>1, <2>6, <3>1, ApartAppend
    <3> QED
      BY <2>2, <3>2
  <2>8. \A j \in DOMAIN s : seek[1] - 1 \notin Piece(s[j])
    <3> DEFINE q == seek[1] - 1
               K == {j \in 1 .. Len(s) : q \in Piece(s[j])}
    <3> SUFFICES ASSUME K # {} PROVE FALSE
      BY <1>1
    <3>1. Smallest(K) \in K /\ \A y \in K : Smallest(K) <= y
      <4>1. K \subseteq Nat
        BY <1>1
      <4> HIDE DEF K
      <4> QED
        BY <4>1, SmallestIn
    <3>2. PICK j \in 1 .. Len(s) : q \in Piece(s[j]) /\ \A y \in K : j <= y
      BY <3>1
    <3>3. CASE j \in 1 .. n - 1
      <4>1. q \in Listed(new)
        BY <3>2, <3>3 DEF Collected
      <4>2. PICK i \in DOMAIN new : q \in Piece(new[i])
        BY <4>1 DEF Listed
      <4>3. EndOf(new[i]) < seek[1] /\ EndOf(new[i]) \in Nat
        BY <1>3, <2>1, <2>6, <4>2, SeekAt
      <4>4. new[i][1] \in Nat
        BY <1>3, SeekAt
      <4>5. q \in new[i][1] .. EndOf(new[i]) - 1
        BY <4>2 DEF Piece
      <4> HIDE DEF q
      <4>6. q < EndOf(new[i])
        BY <4>3, <4>4, <4>5
      <4> QED
        BY <1>2, <4>3, <4>6 DEF q
    <3>4. CASE j = n
      BY <1>2, <3>2, <3>4 DEF Piece, seek
    <3>5. CASE j > n
      <4>1. n \in 1 .. j - 1 /\ j \in DOMAIN s
        BY <1>1, <3>5
      <4>2. q < s[n][1]
        BY <1>2 DEF seek
      <4>3. PICK h \in 1 .. j - 1 : q \in Piece(s[h])
        BY <3>2, <4>1, <4>2 DEF Settled
      <4>4. h \in K /\ h < j
        BY <1>1, <4>3
      <4> QED
        BY <1>1, <3>2, <4>4
    <3> QED
      BY <1>1, <3>3, <3>4, <3>5
  <2>9. \A i \in 1 .. n : Piece(s[i]) \subseteq Listed(b)
    <3>1. \A i \in 1 .. n - 1 : Piece(s[i]) \subseteq Listed(b)
      BY <2>5 DEF Collected
    <3>2. Piece(s[n]) \subseteq Listed(b)
      BY <2>4, <2>5 DEF seek
    <3> QED
      BY <1>5, <3>1, <3>2
  <2>10. greedy = 0 => \A q \in Listed(b) : \E i \in 1 .. n : q \in Piece(s[i])
    BY <1>6, <2>4, <2>5 DEF Collected, seek
  <2>11. \A i \in DOMAIN b : b[i][2] >= greedy
    <3> SUFFICES ASSUME NEW i \in 1 .. m + 1 PROVE b[i][2] >= greedy
      BY <2>5
    <3>1. CASE i = m + 1
      BY <2>1, <2>5, <3>1
    <3>2. CASE i # m + 1
      <4>1. i \in 1 .. m
        BY <1>3, <3>2
      <4> QED
        BY <1>3, <2>5, <4>1 DEF Collected
    <3> QED
      BY <3>1, <3>2
  <2>12. \A i \in DOMAIN b : StartsAtGap(s, n, b[i][1])
    <3> SUFFICES ASSUME NEW i \in 1 .. m + 1 PROVE StartsAtGap(s, n, b[i][1])
      BY <2>5
    <3>1. CASE i = m + 1
      BY <1>6, <2>1, <2>5, <2>8, <3>1 DEF StartsAtGap, seek
    <3>2. CASE i # m + 1
      <4>1. i \in 1 .. m
        BY <1>3, <3>2
      <4>2. StartsAtGap(s, n - 1, new[i][1])
        BY <1>3, <4>1 DEF Collected
      <4> QED
        BY <1>6, <2>5, <4>1, <4>2 DEF StartsAtGap
    <3> QED
      BY <3>1, <3>2
  <2>13. Collected(s, n, greedy, b)
    BY <1>4, <2>5, <2>7, <2>9, <2>10, <2>11, <2>12 DEF Collected
  <2> QED
    BY <2>13 DEF b, seek
<1>8. CASE ~(new = <<>> \/ StartsClear(seek, last))
  <2> DEFINE k == Extended(last, seek)
  <2>1. m \in 1 .. m /\ m > 0 /\ m \in DOMAIN new
    BY <1>3, <1>8, EmptySeq DEF Seeks
  <2>2. /\ last \in Nat \X Nat /\ last[1] \in Nat /\ last[2] \in Nat /\ last[2] > 0 /\ last[2] >= greedy
        /\ EndOf(last) = last[1] + last[2] /\ EndOf(last) \in Nat
    BY <1>3, <2>1, SeekAt DEF Apart, Collected
  <2>3. seek[1] <= EndOf(last)
    BY <1>2, <1>8, <2>2 DEF StartsClear
  <2>4. b = [new EXCEPT ![m] = k]
    BY <1>8 DEF Collect
  <2> HIDE DEF last, seek, b, m
  <2>5. /\ k = <<last[1], Larger(last[2], EndOf(seek) - last[1])>>
        /\ k[1] = last[1] /\ k[2] = Larger(last[2], EndOf(seek) - last[1])
    BY DEF Extended
  <2>6. k[2] \in Nat /\ k[2] >= last[2] /\ k[2] > 0 /\ k[2] >= greedy
        /\ EndOf(k) = k[1] + k[2] /\ EndOf(k) >= EndOf(seek) /\ EndOf(k) >= EndOf(last)
        /\ (EndOf(k) = EndOf(last) \/ EndOf(k) = EndOf(seek))
    <3>1. EndOf(seek) \in Nat /\ greedy \in Nat
      BY <1>2
    <3>2. /\ last[1] \in Nat /\ last[2] \in Nat /\ last[2] > 0 /\ last[2] >= greedy
          /\ EndOf(last) = last[1] + last[2]
      BY <2>2, Zenon
    <3>3. EndOf(k) = k[1] + k[2]
      BY Zenon DEF EndOf
    <3> DEFINE x == last[1]
               y == last[2]
               z == EndOf(seek)
    <3> HIDE DEF x, y, z
    <3>4. /\ x \in Nat /\ y \in Nat /\ z \in Nat /\ greedy \in Nat
          /\ y > 0 /\ y >= greedy /\ EndOf(last) = x + y
      BY <3>1, <3>2, Zenon DEF x, y, z
    <3>5. k[1] = x /\ k[2] = Larger(y, z - x)
      BY <2>5, Zenon DEF x, y, z
    <3>6. CASE y >= z - x
      <4>1. k[2] = y
        BY <3>5, <3>6, Zenon DEF Larger
      <4> HIDE DEF k
      <4> QED
        BY <3>3, <3>4, <3>5, <3>6, <4>1 DEF y, z
    <3>7. CASE ~(y >= z - x)
      <4>1. k[2] = z - x
        BY <3>5, <3>7, Zenon DEF Larger
      <4> HIDE DEF k
      <4> QED
        BY <3>3, <3>4, <3>5, <3>7, <4>1 DEF y, z
    <3> QED
      BY <3>6, <3>7, Zenon
  <2> HIDE DEF k
  <2>7. /\ DOMAIN b = 1 .. m /\ b[m] = k /\ \A i \in 1 .. m : i # m => b[i] = new[i]
        /\ Len(b) = m
    <3>1. DOMAIN b = 1 .. m /\ b[m] = k /\ \A i \in 1 .. m : i # m => b[i] = new[i]
      BY <1>3, <2>1, <2>4
    <3>2. Len(b) \in Nat /\ DOMAIN b = 1 .. Len(b)
      BY <1>4, LenProperties DEF Seeks
    <3>3. Len(b) = m
      BY <1>3, <3>1, <3>2
    <3> QED
      BY <3>1, <3>3
  <2> DEFINE x == last[1]
             y == EndOf(last)
             u == seek[1]
             v == EndOf(seek)
             z == EndOf(k)
  <2>a. /\ x \in Nat /\ y \in Nat /\ u \in Nat /\ v \in Nat /\ z \in Nat
        /\ u <= y /\ z >= v /\ z >= y /\ (z = y \/ z = v)
    BY <1>2, <2>2, <2>3, <2>5, <2>6
  <2>b. Piece(k) = x .. z - 1 /\ Piece(last) = x .. y - 1 /\ Piece(seek) = u .. v - 1
    BY <2>5 DEF Piece
  <2> HIDE DEF x, y, u, v, z
  <2>8. Piece(k) \subseteq Piece(last) \cup Piece(seek)
    BY <2>a, <2>b
  <2>9. Piece(last) \subseteq Piece(k)
    BY <2>a, <2>b
  <2>10. \A q \in Piece(seek) : q \in Piece(k) \/ q < last[1]
    <3>1. \A q \in u .. v - 1 : q \in x .. z - 1 \/ q < x
      BY <2>a
    <3> QED
      BY <2>b, <3>1 DEF x
  <2>11. Listed(new) \subseteq Listed(b) /\ Piece(k) \subseteq Listed(b)
    <3>1. Piece(k) \subseteq Listed(b)
      BY <2>1, <2>7 DEF Listed
    <3>2. \A i \in 1 .. m : Piece(new[i]) \subseteq Listed(b)
      <4> SUFFICES ASSUME NEW i \in 1 .. m PROVE Piece(new[i]) \subseteq Listed(b)
        OBVIOUS
      <4>1. CASE i = m
        BY <2>9, <3>1, <4>1 DEF last
      <4>2. CASE i # m
        BY <2>7, <4>2 DEF Listed
      <4> QED
        BY <4>1, <4>2
    <3> QED
      BY <1>3, <3>1, <3>2 DEF Listed
  <2>12. Listed(b) \subseteq Listed(new) \cup Piece(seek)
    <3> SUFFICES ASSUME NEW i \in 1 .. m PROVE Piece(b[i]) \subseteq Listed(new) \cup Piece(seek)
      BY <2>7 DEF Listed
    <3>1. CASE i = m
      <4>1. Piece(last) \subseteq Listed(new)
        BY <2>1 DEF Listed, last
      <4> QED
        BY <2>7, <2>8, <3>1, <4>1
    <3>2. CASE i # m
      BY <1>3, <2>7, <3>2 DEF Listed
    <3> QED
      BY <3>1, <3>2
  <2>13. PICK i \in 1 .. n - 1 : last[1] = s[i][1]
    BY <2>1 DEF Collected, StartsAtGap, last
  <2>14. Piece(seek) \subseteq Listed(b)
    <3> SUFFICES ASSUME NEW q \in Piece(seek), q \notin Piece(k) PROVE q \in Listed(b)
      BY <2>11
    <3>1. q < s[i][1]
      BY <2>10, <2>13
    <3>2. PICK j \in 1 .. n - 1 : q \in Piece(s[j])
      BY <1>1, <2>13, <3>1 DEF Settled, seek
    <3>3. q \in Listed(new)
      BY <3>2 DEF Collected
    <3> QED
      BY <2>11, <3>3
  <2>15. Apart(b)
    <3>1. \A j \in DOMAIN b : b[j][2] > 0
      BY <1>3, <2>6, <2>7 DEF Apart
    <3>2. ASSUME NEW j \in 1 .. m - 1 PROVE EndOf(b[j]) < b[j + 1][1]
      <4>1. j \in 1 .. m /\ j # m /\ j + 1 \in 1 .. m
        BY <1>3
      <4>2. EndOf(new[j]) < new[j + 1][1]
        BY <1>3 DEF Apart, m
      <4>3. b[j] = new[j] /\ b[j + 1][1] = new[j + 1][1]
        BY <2>5, <2>7, <4>1 DEF last
      <4> QED
        BY <4>2, <4>3
    <3> QED
      BY <2>7, <3>1, <3>2 DEF Apart
  <2>16. \A j \in 1 .. n : Piece(s[j]) \subseteq Listed(b)
    <3>1. \A j \in 1 .. n - 1 : Piece(s[j]) \subseteq Listed(b)
      BY <2>11 DEF Collected
    <3>2. Piece(s[n]) \subseteq Listed(b)
      BY <2>14 DEF seek
    <3> QED
      BY <1>5, <3>1, <3>2
  <2>17. greedy = 0 => \A q \in Listed(b) : \E j \in 1 .. n : q \in Piece(s[j])
    BY <1>6, <2>12 DEF Collected, seek
  <2>18. \A j \in DOMAIN b : b[j][2] >= greedy
    BY <1>3, <2>6, <2>7 DEF Collected
  <2>19. b # <<>>
    <3>1. DOMAIN <<>> = {}
      BY NothingListed
    <3> QED
      BY <2>1, <2>7, <3>1
  <2>20. \A j \in DOMAIN b : StartsAtGap(s, n, b[j][1])
    <3> SUFFICES ASSUME NEW j \in 1 .. m PROVE StartsAtGap(s, n, b[j][1])
      BY <2>7
    <3>1. b[j][1] = new[j][1]
      BY <2>5, <2>7 DEF last
    <3>2. StartsAtGap(s, n - 1, new[j][1])
      BY <1>3 DEF Collected
    <3> QED
      BY <1>6, <3>1, <3>2 DEF StartsAtGap
  <2>21. Collected(s, n, greedy, b)
    BY <1>4, <2>15, <2>16, <2>17, <2>18, <2>19, <2>20 DEF Collected
  <2> QED
    BY <2>21 DEF b, seek
<1> QED
  BY <1>7, <1>8

\* _minimise_seek_reads of a settled list: the pieces of the answer are apart, cover
\* it, each starts a stretch of it, and they cover nothing else unless greedy.
LEMMA MinimiseExact ==
    ASSUME NEW s \in Seeks, Settled(s), NEW greedy \in Nat
    PROVE  LET new == _minimise_seek_reads(s, greedy) IN
           /\ new \in Seeks /\ Apart(new)
           /\ Listed(s) \subseteq Listed(new)
           /\ greedy = 0 => Listed(new) = Listed(s)
           /\ \A i \in DOMAIN new : new[i][2] >= greedy
           /\ new = <<>> <=> s = <<>>
           /\ \A i \in DOMAIN new : new[i][1] \in StretchStarts(Listed(s))
<1> DEFINE n == Len(s)
<1>1. n \in Nat /\ DOMAIN s = 1 .. n
  BY LenProperties DEF Seeks
<1>2. PICK g : /\ g[0] = <<>>
               /\ \A i \in 0 .. n : g[i] \in Seeks
               /\ \A i \in 1 .. n : g[i] = Collect(g[i - 1], s[i], greedy)
               /\ _minimise_seek_reads(s, greedy) = g[n]
  BY MinimiseFold
<1> DEFINE T == {i \in 0 .. n : Collected(s, i, greedy, g[i])}
<1>3. 0 \in T
  <2>1. Len(<<>>) = 0
    BY EmptySeq
  <2> QED
    BY <1>1, <1>2, <2>1, NothingListed DEF Collected
<1>4. ASSUME NEW i \in 0 .. n - 1, i \in T
      PROVE  i + 1 \in T
  <2>1. i + 1 \in 1 .. n /\ i + 1 \in 0 .. n /\ (i + 1) - 1 = i
    BY <1>1
  <2>2. Collected(s, (i + 1) - 1, greedy, g[i])
    BY <1>4, <2>1
  <2>3. Collected(s, i + 1, greedy, Collect(g[i], s[i + 1], greedy))
    BY <2>1, <2>2, CollectStep
  <2>4. g[i + 1] = Collect(g[i], s[i + 1], greedy)
    BY <1>2, <2>1
  <2> QED
    BY <2>1, <2>3, <2>4
<1>5. n \in T
  <2> HIDE DEF T, n
  <2>1. \A i \in 0 .. n - 1 : i \in T => i + 1 \in T
    BY <1>4
  <2>2. n \in Nat
    BY <1>1
  <2>3. \A i \in 0 .. n : i \in T
    BY <1>3, <2>1, <2>2, UpTo
  <2> QED
    BY <2>2, <2>3
<1> DEFINE new == _minimise_seek_reads(s, greedy)
<1>6. Collected(s, n, greedy, new)
  BY <1>2, <1>5
<1> HIDE DEF new
<1>7. Listed(s) \subseteq Listed(new)
  BY <1>1, <1>6 DEF Collected, Listed
<1>8. greedy = 0 => Listed(new) \subseteq Listed(s)
  BY <1>1, <1>6 DEF Collected, Listed
<1>9. new = <<>> <=> s = <<>>
  <2>1. s = <<>> => n = 0
    BY EmptySeq
  <2>2. s # <<>> => n > 0
    BY EmptySeq DEF Seeks
  <2>3. n = 0 => new = <<>>
    BY <1>1, <1>2, <1>6 DEF new
  <2> QED
    BY <1>1, <1>6, <2>1, <2>2, <2>3 DEF Collected
<1>10. /\ new \in Seeks /\ Apart(new)
       /\ \A i \in DOMAIN new : new[i][2] >= greedy
  BY <1>6 DEF Collected
<1>11. \A i \in DOMAIN new : new[i][1] \in StretchStarts(Listed(s))
  <2> SUFFICES ASSUME NEW i \in DOMAIN new PROVE new[i][1] \in StretchStarts(Listed(s))
    OBVIOUS
  <2>1. StartsAtGap(s, n, new[i][1])
    BY <1>6 DEF Collected
  <2>2. PICK j \in 1 .. n : new[i][1] = s[j][1]
    BY <2>1 DEF StartsAtGap
  <2>3. s[j][1] \in Piece(s[j])
    <3>1. s[j][1] \in Nat /\ s[j][2] \in Nat /\ EndOf(s[j]) = s[j][1] + s[j][2] /\ s[j][2] > 0
      BY <1>1, SeekAt DEF Settled
    <3> QED
      BY <3>1 DEF Piece
  <2>4. new[i][1] \in Listed(s) /\ new[i][1] - 1 \notin Listed(s)
    BY <1>1, <2>1, <2>2, <2>3 DEF Listed, StartsAtGap
  <2> QED
    BY <2>4 DEF StretchStarts
<1> QED
  BY <1>7, <1>8, <1>9, <1>10, <1>11 DEF new

(***************************************************************************)
(* need_many                                                                *)
(***************************************************************************)
\* The list found for the first n of the requests s.
Sought(s, n, all) ==
    /\ all \in Seeks /\ Settled(all)
    /\ \A q : q \in Listed(all) <=> q \notin HeldPos /\ \E i \in 1 .. n : q \in Piece(s[i])
    /\ \A k \in DOMAIN all : \E i \in 1 .. n : EndOf(all[k]) <= EndOf(s[i])
                                              /\ s[i][1] <= all[k][1]

\* Requests of a byte or more, a size_t can hold the end of.
InSize(s) == \A i \in DOMAIN s : s[i][2] > 0 /\ EndOf(s[i]) < SizeMod

InOrder(s) == \A i, j \in DOMAIN s : i < j => s[i][1] <= s[j][1]

LEMMA NeedMissing ==
    ASSUME Starts # {}, NEW from \in Nat, NEW len \in Nat
    PROVE  need(from, len, 0) = Missing(from, len)
BY DEF need

LEMMA SeekConcat ==
    ASSUME NEW s \in Seeks, NEW t \in Seeks
    PROVE  /\ s \o t \in Seeks
           /\ Len(s) \in Nat /\ DOMAIN s = 1 .. Len(s)
           /\ Len(t) \in Nat /\ DOMAIN t = 1 .. Len(t)
           /\ DOMAIN (s \o t) = 1 .. Len(s) + Len(t)
           /\ \A i \in 1 .. Len(s) : (s \o t)[i] = s[i]
           /\ \A i \in 1 .. Len(t) : (s \o t)[Len(s) + i] = t[i]
           /\ \A i \in 1 .. Len(s) + Len(t) :
                i \in 1 .. Len(s) \/ \E j \in 1 .. Len(t) : i = Len(s) + j
           /\ Listed(s \o t) = Listed(s) \cup Listed(t)
<1> DEFINE c == s \o t
           m == Len(s)
           n == Len(t)
<1>1. m \in Nat /\ DOMAIN s = 1 .. m /\ n \in Nat /\ DOMAIN t = 1 .. n
  BY LenProperties DEF Seeks
<1>2. c \in Seeks /\ Len(c) = m + n
      /\ \A i \in 1 .. m + n : c[i] = IF i <= m THEN s[i] ELSE t[i - m]
  BY ConcatProperties DEF Seeks
<1>3. DOMAIN c = 1 .. m + n
  BY <1>2, LenProperties DEF Seeks
<1> HIDE DEF c, m, n
<1>4. \A i \in 1 .. m : i \in 1 .. m + n /\ c[i] = s[i]
  BY <1>1, <1>2
<1>5. \A i \in 1 .. n : m + i \in 1 .. m + n /\ c[m + i] = t[i]
  <2> SUFFICES ASSUME NEW i \in 1 .. n PROVE m + i \in 1 .. m + n /\ c[m + i] = t[i]
    OBVIOUS
  <2>1. m + i \in 1 .. m + n /\ ~(m + i <= m) /\ (m + i) - m = i
    BY <1>1
  <2> QED
    BY <1>2, <2>1
<1>6. \A i \in 1 .. m + n : i \in 1 .. m \/ \E j \in 1 .. n : i = m + j
  <2> SUFFICES ASSUME NEW i \in 1 .. m + n, i \notin 1 .. m
               PROVE  \E j \in 1 .. n : i = m + j
    OBVIOUS
  <2>1. i - m \in 1 .. n /\ i = m + (i - m)
    BY <1>1
  <2> QED
    BY <2>1
<1>7. Listed(c) = Listed(s) \cup Listed(t)
  <2>1. Listed(s) \subseteq Listed(c)
    BY <1>1, <1>3, <1>4 DEF Listed
  <2>2. Listed(t) \subseteq Listed(c)
    BY <1>1, <1>3, <1>5 DEF Listed
  <2>3. Listed(c) \subseteq Listed(s) \cup Listed(t)
    <3> SUFFICES ASSUME NEW i \in 1 .. m + n PROVE Piece(c[i]) \subseteq Listed(s) \cup Listed(t)
      BY <1>3 DEF Listed
    <3>1. CASE i \in 1 .. m
      BY <1>1, <1>4, <3>1 DEF Listed
    <3>2. CASE i \notin 1 .. m
      <4>1. PICK j \in 1 .. n : i = m + j
        BY <1>6, <3>2
      <4> QED
        BY <1>1, <1>5, <4>1 DEF Listed
    <3> QED
      BY <3>1, <3>2
  <2> QED
    BY <2>1, <2>2, <2>3
<1> QED
  BY <1>1, <1>2, <1>3, <1>4, <1>5, <1>6, <1>7 DEF c, m, n

LEMMA SoughtStep ==
    ASSUME Sound(m_svf), Starts # {}, NEW s \in Seeks, InSize(s), InOrder(s),
           NEW n \in 1 .. Len(s), NEW all, Sought(s, n - 1, all)
    PROVE  Sought(s, n, all \o need(s[n][1], s[n][2], 0))
<1> DEFINE r    == s[n]
           more == need(r[1], r[2], 0)
           b    == all \o more
           m    == Len(all)
<1>1. Len(s) \in Nat /\ DOMAIN s = 1 .. Len(s) /\ n \in DOMAIN s /\ n \in Nat /\ n > 0
  BY LenProperties DEF Seeks
<1>2. /\ r[1] \in Nat /\ r[2] \in Nat /\ EndOf(r) = r[1] + r[2] /\ EndOf(r) < SizeMod
      /\ EndOf(r) \in Nat /\ r[2] > 0
  BY <1>1, SeekAt DEF InSize
<1>3. /\ more \in Seeks /\ Apart(more) /\ Listed(more) = Piece(r) \ HeldPos
      /\ \A i \in DOMAIN more : r[1] <= more[i][1] /\ EndOf(more[i]) <= EndOf(r)
  <2>1. more = Missing(r[1], r[2])
    BY <1>2, NeedMissing
  <2> HIDE DEF more, r
  <2>2. /\ more \in Seeks /\ Apart(more)
        /\ Listed(more) = (r[1] .. r[1] + r[2] - 1) \ HeldPos
        /\ \A i \in DOMAIN more : r[1] <= more[i][1] /\ EndOf(more[i]) <= r[1] + r[2]
    BY <1>2, <2>1, NeedExact
  <2> QED
    BY <1>2, <2>2 DEF Piece
<1> HIDE DEF more, r
<1>4. all \in Seeks /\ Settled(all)
  BY DEF Sought
<1>5. /\ b \in Seeks
      /\ m \in Nat /\ DOMAIN all = 1 .. m
      /\ Len(more) \in Nat /\ DOMAIN more = 1 .. Len(more)
      /\ DOMAIN b = 1 .. m + Len(more)
      /\ \A i \in 1 .. m : b[i] = all[i]
      /\ \A i \in 1 .. Len(more) : b[m + i] = more[i]
      /\ \A i \in 1 .. m + Len(more) :
            i \in 1 .. m \/ \E j \in 1 .. Len(more) : i = m + j
      /\ Listed(b) = Listed(all) \cup Listed(more)
  BY <1>3, <1>4, SeekConcat
<1> HIDE DEF b, m
<1>6. \A i \in 1 .. n : i \in 1 .. n - 1 \/ i = n
  BY <1>1
<1>7. n \in 1 .. n /\ 1 .. n - 1 \subseteq 1 .. n
  BY <1>1
<1>8. \A q : q \in Listed(b) <=> q \notin HeldPos /\ \E i \in 1 .. n : q \in Piece(s[i])
  <2>1. \A q : q \in Listed(all) <=> q \notin HeldPos /\ \E i \in 1 .. n - 1 : q \in Piece(s[i])
    BY DEF Sought
  <2>2. \A q : q \in Listed(more) <=> q \notin HeldPos /\ q \in Piece(s[n])
    BY <1>3 DEF r
  <2> QED
    BY <1>5, <1>6, <1>7, <2>1, <2>2
<1>9. ASSUME NEW k \in DOMAIN b
      PROVE  \E i \in 1 .. n : EndOf(b[k]) <= EndOf(s[i]) /\ s[i][1] <= b[k][1]
  <2>1. CASE k \in 1 .. m
    <3>1. b[k] = all[k] /\ k \in DOMAIN all
      BY <1>5, <2>1
    <3>2. PICK i \in 1 .. n - 1 : EndOf(all[k]) <= EndOf(s[i]) /\ s[i][1] <= all[k][1]
      BY <3>1 DEF Sought
    <3> QED
      BY <1>7, <3>1, <3>2
  <2>2. CASE k \notin 1 .. m
    <3>1. PICK j \in 1 .. Len(more) : k = m + j
      BY <1>5, <2>2
    <3>2. b[k] = more[j] /\ j \in DOMAIN more
      BY <1>5, <3>1
    <3> QED
      BY <1>3, <1>7, <3>2 DEF r
  <2> QED
    BY <2>1, <2>2
<1>10. \A i \in DOMAIN b : b[i][2] > 0
  <2> SUFFICES ASSUME NEW i \in DOMAIN b PROVE b[i][2] > 0
    OBVIOUS
  <2>1. CASE i \in 1 .. m
    BY <1>4, <1>5, <2>1 DEF Settled
  <2>2. CASE i \notin 1 .. m
    <3>1. PICK j \in 1 .. Len(more) : i = m + j
      BY <1>5, <2>2
    <3> QED
      BY <1>3, <1>5, <3>1 DEF Apart
  <2> QED
    BY <2>1, <2>2
<1>11. ASSUME NEW j \in DOMAIN b, NEW i \in 1 .. j - 1, NEW q \in Piece(b[j]), q < b[i][1]
       PROVE  \E k \in 1 .. j - 1 : q \in Piece(b[k])
  <2>1. CASE j \in 1 .. m
    <3>1. i \in 1 .. m /\ j \in DOMAIN all /\ 1 .. j - 1 \subseteq 1 .. m
      BY <1>5, <2>1
    <3>2. PICK k \in 1 .. j - 1 : q \in Piece(all[k])
      BY <1>4, <1>5, <1>11, <2>1, <3>1 DEF Settled
    <3> QED
      BY <1>5, <3>1, <3>2
  <2>2. CASE j \notin 1 .. m
    <3>1. PICK l \in 1 .. Len(more) : j = m + l
      BY <1>5, <2>2
    <3>2. b[j] = more[l] /\ l \in DOMAIN more
      BY <1>5, <3>1
    <3>3. q \in Listed(more) /\ q \in Piece(r) /\ q \notin HeldPos
      BY <1>3, <1>11, <3>2 DEF Listed
    <3>4. q \in Nat /\ r[1] <= q
      BY <1>2, <3>3 DEF Piece
    <3>5. 1 .. m \subseteq 1 .. j - 1
      BY <1>5, <3>1
    <3>6. CASE i \in 1 .. m
      <4>1. b[i] = all[i] /\ i \in DOMAIN all
        BY <1>5, <3>6
      <4>2. PICK a \in 1 .. n - 1 : EndOf(all[i]) <= EndOf(s[a]) /\ s[a][1] <= all[i][1]
        BY <4>1 DEF Sought
      <4>3. a \in DOMAIN s /\ a < n
        BY <1>1
      <4>4. s[a][1] <= r[1]
        BY <1>1, <4>3 DEF InOrder, r
      <4>5. /\ all[i][1] \in Nat /\ all[i][2] \in Nat /\ EndOf(all[i]) = all[i][1] + all[i][2]
            /\ s[a][1] \in Nat /\ EndOf(s[a]) \in Nat
        BY <1>4, <4>1, <4>3, SeekAt
      <4>6. s[a][1] <= q /\ q < EndOf(s[a])
        <5>1. s[a][1] <= q
          <6> DEFINE x == s[a][1]
                     y == r[1]
          <6>1. x \in Nat /\ y \in Nat /\ x <= y /\ y <= q /\ q \in Nat
            BY <1>2, <3>4, <4>4, <4>5
          <6> HIDE DEF x, y
          <6>2. x <= q
            BY <6>1
          <6> QED
            BY <6>2 DEF x
        <5>2. q < all[i][1]
          BY <1>11, <4>1
        <5>3. q < EndOf(s[a])
          BY <3>4, <4>2, <4>5, <5>2, EndsBeyond, Zenon
        <5> QED
          BY <5>1, <5>3
      <4>7. q \in Piece(s[a])
        BY <3>4, <4>5, <4>6 DEF Piece
      <4>8. q \in Listed(all)
        BY <3>3, <4>7 DEF Sought
      <4>9. PICK k \in 1 .. m : q \in Piece(all[k])
        BY <1>5, <4>8 DEF Listed
      <4> QED
        BY <1>5, <3>5, <4>9
    <3>7. CASE i \notin 1 .. m
      <4>1. i \in 1 .. m + Len(more)
        BY <1>5, <3>1
      <4>2. PICK h \in 1 .. Len(more) : i = m + h
        BY <1>5, <3>7, <4>1
      <4>3. h \in 1 .. l - 1 /\ b[i] = more[h] /\ h \in DOMAIN more
        BY <1>5, <3>1, <4>2
      <4>4. EndOf(more[h]) < more[l][1]
        BY <1>3, <3>2, <4>3, ApartOrder
      <4>5. more[h][1] \in Nat /\ more[h][2] \in Nat /\ EndOf(more[h]) = more[h][1] + more[h][2]
            /\ more[l][1] \in Nat /\ EndOf(more[l]) \in Nat
        BY <1>3, <3>2, <4>3, SeekAt
      <4>6. more[l][1] <= q
        BY <1>11, <3>2, <4>5 DEF Piece
      <4> QED
        <5>1. q < more[h][1]
          BY <1>11, <4>3
        <5> QED
          BY <3>4, <4>4, <4>5, <4>6, <5>1, EndsBefore, Zenon
    <3> QED
      BY <3>6, <3>7
  <2> QED
    BY <2>1, <2>2
<1>12. Settled(b)
  BY <1>10, <1>11 DEF Settled
<1>13. Sought(s, n, b)
  BY <1>5, <1>8, <1>9, <1>12 DEF Sought
<1> QED
  BY <1>13 DEF b, more, r

LEMMA EachFold ==
    ASSUME Sound(m_svf), Starts # {}, NEW s \in Seeks, InSize(s)
    PROVE  \E g : /\ g[0] = <<>>
                  /\ \A i \in 1 .. Len(s) : g[i] = g[i - 1] \o need(s[i][1], s[i][2], 0)
                  /\ NeedOfEach(s) = g[Len(s)]
<1> DEFINE n == Len(s)
           D == DOMAIN s
           step == [c \in D \X Seeks |-> c[2] \o need(s[c[1]][1], s[c[1]][2], 0)]
           Is(g) == g = [t \in SUBSET D |->
                            IF t = {} THEN <<>>
                            ELSE g[t \ {Max(t)}] \o need(s[Max(t)][1], s[Max(t)][2], 0)]
           f == CHOOSE g : Is(g)
<1>1. n \in Nat /\ D = 1 .. n /\ D \subseteq 0 .. n
  BY LenProperties DEF Seeks
<1>2. \A x \in D : need(s[x][1], s[x][2], 0) \in Seeks
  <2> SUFFICES ASSUME NEW x \in D PROVE need(s[x][1], s[x][2], 0) \in Seeks
    OBVIOUS
  <2>1. /\ s[x][1] \in Nat /\ s[x][2] \in Nat /\ s[x][1] + s[x][2] < SizeMod
        /\ s[x][2] > 0
    BY SeekAt DEF InSize
  <2> QED
    BY <2>1, NeedExact, NeedMissing
<1>a. \A x \in D, a \in Seeks : a \o need(s[x][1], s[x][2], 0) \in Seeks
  BY <1>2, SeekConcat
<1>b. \A x \in D, a \in Seeks :
        step[<<x, a>>] = a \o need(s[x][1], s[x][2], 0) /\ step[<<x, a>>] \in Seeks
  BY <1>a
<1>3. <<>> \in Seeks
  BY NothingListed
<1>4. \A t \in SUBSET D : t # {} => Max(t) = Largest(t) /\ Largest(t) \in t /\ Largest(t) \in D
  <2> SUFFICES ASSUME NEW t \in SUBSET D, t # {}
               PROVE  Max(t) = Largest(t) /\ Largest(t) \in t /\ Largest(t) \in D
    OBVIOUS
  <2>1. t \subseteq 0 .. n
    BY <1>1
  <2> HIDE DEF D, n
  <2> QED
    BY <1>1, <2>1, MaxIsLargest, LargestIn
<1>5. PICK g : IsFold(g, D, <<>>, step) /\ \A t \in SUBSET D : g[t] \in Seeks
  <2> HIDE DEF step, D, n
  <2> QED
    BY <1>1, <1>b, <1>3, FoldExists
<1>6. Is(g)
  <2> HIDE DEF step, D, n
  <2>1. ASSUME NEW t \in SUBSET D, t # {}
        PROVE  step[<<Largest(t), g[t \ {Largest(t)}]>>]
                = g[t \ {Max(t)}] \o need(s[Max(t)][1], s[Max(t)][2], 0)
    BY <1>b, <1>4, <1>5, <2>1
  <2>2. \A t \in SUBSET D :
            IF t = {} THEN g[t] = <<>>
            ELSE g[t] = g[t \ {Max(t)}] \o need(s[Max(t)][1], s[Max(t)][2], 0)
    BY <1>5, <2>1 DEF IsFold
  <2>3. DOMAIN g = SUBSET D /\ g = [t \in DOMAIN g |-> g[t]]
    BY <1>5 DEF IsFold
  <2> QED
    BY <2>2, <2>3
<1>7. Is(f)
  BY <1>6
<1>8. NeedOfEach(s) = f[DOMAIN s]
  BY Zenon DEF NeedOfEach, FoldLeft, MapThenFoldSet
<1> HIDE DEF f
<1>9. /\ f = [t \in SUBSET D |-> f[t]] /\ f[{}] = <<>>
      /\ \A t \in SUBSET D : t # {} =>
            f[t] = f[t \ {Largest(t)}] \o need(s[Largest(t)][1], s[Largest(t)][2], 0)
  BY <1>4, <1>7
<1>10. \A t \in SUBSET D : f[t] \in Seeks
  <2> DEFINE G == {t \in SUBSET D : f[t] \in Seeks}
  <2>1. {} \in G
    BY <1>3, <1>9
  <2>2. ASSUME NEW t \in SUBSET D, t # {}, t \ {Largest(t)} \in G
        PROVE  t \in G
    <3> DEFINE x == Largest(t)
    <3>1. x \in D /\ f[t \ {x}] \in Seeks
      BY <1>4, <2>2
    <3>2. f[t] = f[t \ {x}] \o need(s[x][1], s[x][2], 0)
      BY <1>9, <2>2
    <3> HIDE DEF x
    <3>3. f[t] \in Seeks
      BY <1>a, <3>1, <3>2
    <3> QED
      BY <3>3
  <2> HIDE DEF G, D, n
  <2>3. \A t \in SUBSET D : t \in G
    BY <1>1, <2>1, <2>2, LargestLast
  <2> QED
    BY <2>3 DEF G
<1>11. IsFold(f, D, <<>>, step)
  <2>1. \A t \in SUBSET D : t # {} => f[t] = step[<<Largest(t), f[t \ {Largest(t)}]>>]
    <3> HIDE DEF step, D, n
    <3> SUFFICES ASSUME NEW t \in SUBSET D, t # {}
                 PROVE  f[t] = step[<<Largest(t), f[t \ {Largest(t)}]>>]
      OBVIOUS
    <3> DEFINE x == Largest(t)
    <3>1. x \in D /\ t \ {x} \in SUBSET D
      BY <1>4
    <3>2. f[t \ {x}] \in Seeks
      BY <1>10, <3>1
    <3>3. f[t] = f[t \ {x}] \o need(s[x][1], s[x][2], 0)
      BY <1>9
    <3> HIDE DEF x
    <3>4. f[t] = step[<<x, f[t \ {x}]>>]
      BY <1>b, <3>1, <3>2, <3>3
    <3> QED
      BY <3>4 DEF x
  <2> HIDE DEF step, D, n
  <2> QED
    BY <1>9, <2>1 DEF IsFold
<1> HIDE DEF step
<1>12. f[1 .. 0] = <<>> /\ \A i \in 1 .. n : f[1 .. i] = step[<<i, f[1 .. i - 1]>>]
  <2> HIDE DEF n
  <2> QED
    BY <1>1, <1>11, FoldInOrder
<1> DEFINE h == [i \in 0 .. n |-> f[1 .. i]]
<1>13. h[0] = <<>> /\ \A i \in 0 .. n : h[i] \in Seeks
  BY <1>1, <1>10, <1>12
<1>14. \A i \in 1 .. n : h[i] = h[i - 1] \o need(s[i][1], s[i][2], 0)
  <2> SUFFICES ASSUME NEW i \in 1 .. n PROVE h[i] = h[i - 1] \o need(s[i][1], s[i][2], 0)
    OBVIOUS
  <2>1. i \in 0 .. n /\ i - 1 \in 0 .. n /\ i \in D
    BY <1>1
  <2> QED
    BY <1>b, <1>12, <1>13, <2>1
<1>15. NeedOfEach(s) = h[n]
  BY <1>1, <1>8
<1> QED
  BY <1>13, <1>14, <1>15

\* The lists that need() gives for requests in order, one after the other.
LEMMA EachExact ==
    ASSUME Sound(m_svf), Starts # {}, NEW s \in Seeks, InSize(s), InOrder(s)
    PROVE  /\ NeedOfEach(s) \in Seeks /\ Settled(NeedOfEach(s))
           /\ Listed(NeedOfEach(s)) = Listed(s) \ HeldPos
<1> DEFINE n == Len(s)
           all == NeedOfEach(s)
<1>1. n \in Nat /\ DOMAIN s = 1 .. n
  BY LenProperties DEF Seeks
<1>2. PICK g : /\ g[0] = <<>>
               /\ \A i \in 1 .. n : g[i] = g[i - 1] \o need(s[i][1], s[i][2], 0)
               /\ all = g[n]
  BY EachFold
<1> DEFINE T == {i \in 0 .. n : Sought(s, i, g[i])}
<1>3. 0 \in T
  <2>1. Settled(<<>>) /\ 1 .. 0 = {}
    BY NothingListed DEF Settled
  <2> QED
    BY <1>1, <1>2, <2>1, NothingListed DEF Sought
<1>4. ASSUME NEW i \in 0 .. n - 1, i \in T
      PROVE  i + 1 \in T
  <2>1. i + 1 \in 1 .. n /\ i + 1 \in 0 .. n /\ (i + 1) - 1 = i
    BY <1>1
  <2>2. Sought(s, (i + 1) - 1, g[i])
    BY <1>4, <2>1
  <2>3. Sought(s, i + 1, g[i] \o need(s[i + 1][1], s[i + 1][2], 0))
    BY <2>1, <2>2, SoughtStep
  <2>4. g[i + 1] = g[i] \o need(s[i + 1][1], s[i + 1][2], 0)
    BY <1>2, <2>1
  <2> QED
    BY <2>1, <2>3, <2>4
<1>5. n \in T
  <2> HIDE DEF T, n
  <2>1. \A i \in 0 .. n - 1 : i \in T => i + 1 \in T
    BY <1>4
  <2>2. n \in Nat
    BY <1>1
  <2>3. \A i \in 0 .. n : i \in T
    BY <1>3, <2>1, <2>2, UpTo
  <2> QED
    BY <2>2, <2>3
<1>6. Sought(s, n, all)
  BY <1>2, <1>5
<1> HIDE DEF all
<1>7. Listed(all) = Listed(s) \ HeldPos
  <2>1. \A q : q \in Listed(all) <=> q \notin HeldPos /\ q \in Listed(s)
    BY <1>1, <1>6 DEF Sought, Listed
  <2> QED
    BY <2>1
<1> QED
  BY <1>6, <1>7 DEF Sought, all

(***************************************************************************)
(* std::sort                                                                *)
(***************************************************************************)
\* o puts the pairs s in order.
Sorts(o, s) ==
    /\ o \in Bijection(DOMAIN s, DOMAIN s)
    /\ \A i, j \in DOMAIN s : i < j => ~ReadBefore(s[o[j]], s[o[i]])

\* Some pair of a list comes after no other.
LEMMA LastRead ==
    ASSUME NEW n \in Nat, NEW m \in Nat \ {0}, NEW s \in [1 .. m -> (0 .. n) \X (0 .. n)]
    PROVE  \E k \in 1 .. m : \A i \in 1 .. m : ~ReadBefore(s[k], s[i])
<1>1. \A i \in 1 .. m : s[i][1] \in 0 .. n /\ s[i][2] \in 0 .. n
  OBVIOUS
<1> DEFINE A == {s[i][1] : i \in 1 .. m}
           a == Largest(A)
           B == {s[i][2] : i \in {j \in 1 .. m : s[j][1] = a}}
           b == Largest(B)
<1>2. a \in A /\ \A y \in A : y <= a
  <2>1. A # {} /\ A \subseteq 0 .. n
    BY <1>1
  <2> HIDE DEF A
  <2> QED
    BY <2>1, LargestIn
<1> HIDE DEF a
<1>3. b \in B /\ \A y \in B : y <= b
  <2>0. PICK i \in 1 .. m : s[i][1] = a
    BY <1>2
  <2>1. B # {} /\ B \subseteq 0 .. n
    BY <1>1, <2>0
  <2> HIDE DEF B
  <2> QED
    BY <2>1, LargestIn
<1> HIDE DEF b
<1>4. PICK k \in 1 .. m : s[k][1] = a /\ s[k][2] = b
  BY <1>3
<1>5. ASSUME NEW i \in 1 .. m, ReadBefore(s[k], s[i]) PROVE FALSE
  <2>1. s[k][1] \in Nat /\ s[i][1] \in Nat /\ s[k][2] \in Nat /\ s[i][2] \in Nat
    BY <1>1
  <2>2. s[i][1] <= s[k][1]
    BY <1>2, <1>4
  <2>3. s[i][1] = s[k][1] => s[i][2] <= s[k][2]
    BY <1>3, <1>4
  <2> QED
    BY <1>5, <2>1, <2>2, <2>3 DEF ReadBefore
<1> QED
  BY <1>5

LEMMA SortExists ==
    ASSUME NEW n \in Nat, NEW m \in Nat
    PROVE  \A s \in [1 .. m -> (0 .. n) \X (0 .. n)] : \E o : Sorts(o, s)
<1> DEFINE R == (0 .. n) \X (0 .. n)
           T == {k \in 0 .. m : \A s \in [1 .. k -> R] : \E o : Sorts(o, s)}
<1>1. 0 \in T
  <2> SUFFICES ASSUME NEW s \in [1 .. 0 -> R] PROVE \E o : Sorts(o, s)
    OBVIOUS
  <2> DEFINE o == [i \in {} |-> 0]
  <2>1. DOMAIN s = {} /\ 1 .. 0 = {}
    OBVIOUS
  <2>2. o \in [{} -> {}]
    OBVIOUS
  <2> HIDE DEF o
  <2>3. Sorts(o, s)
    BY <2>1, <2>2 DEF Sorts, Bijection, Injection, Surjection, IsInjective
  <2> QED
    BY <2>3
<1>2. ASSUME NEW k \in 0 .. m - 1, k \in T
      PROVE  k + 1 \in T
  <2>1. k \in Nat /\ k + 1 \in 0 .. m /\ k + 1 \in Nat \ {0} /\ k + 1 \in 1 .. k + 1
    OBVIOUS
  <2>2. ASSUME NEW s \in [1 .. k + 1 -> R] PROVE \E o : Sorts(o, s)
    <3>1. PICK t \in 1 .. k + 1 : \A i \in 1 .. k + 1 : ~ReadBefore(s[t], s[i])
      BY <2>1, LastRead
    <3> DEFINE from(i) == IF i = t THEN k + 1 ELSE i
               u == [i \in 1 .. k |-> s[from(i)]]
    <3>2. \A i \in 1 .. k : from(i) \in 1 .. k + 1 /\ from(i) # t
      <4> SUFFICES ASSUME NEW i \in 1 .. k PROVE from(i) \in 1 .. k + 1 /\ from(i) # t
        OBVIOUS
      <4>1. i \in 1 .. k + 1 /\ i # k + 1
        BY <2>1
      <4> QED
        BY <2>1, <4>1
    <3>3. \A i, j \in 1 .. k : from(i) = from(j) => i = j
      <4> SUFFICES ASSUME NEW i \in 1 .. k, NEW j \in 1 .. k, from(i) = from(j) PROVE i = j
        OBVIOUS
      <4>1. i # k + 1 /\ j # k + 1
        BY <2>1
      <4> QED
        BY <4>1
    <3>4. \A q \in 1 .. k + 1 : q # t => \E i \in 1 .. k : from(i) = q
      <4> SUFFICES ASSUME NEW q \in 1 .. k + 1, q # t PROVE \E i \in 1 .. k : from(i) = q
        OBVIOUS
      <4>1. CASE q = k + 1
        <5>1. t \in 1 .. k
          BY <2>1, <4>1
        <5> QED
          BY <4>1, <5>1
      <4>2. CASE q # k + 1
        <5>1. q \in 1 .. k
          BY <2>1, <4>2
        <5> QED
          BY <5>1
      <4> QED
        BY <4>1, <4>2
    <3>5. u \in [1 .. k -> R]
      BY <3>2
    <3> HIDE DEF from
    <3>6. PICK v : Sorts(v, u)
      BY <1>2, <3>5
    <3>7. /\ v \in [1 .. k -> 1 .. k]
          /\ \A i, j \in 1 .. k : v[i] = v[j] => i = j
          /\ \A q \in 1 .. k : \E i \in 1 .. k : v[i] = q
          /\ \A i, j \in 1 .. k : i < j => ~ReadBefore(u[v[j]], u[v[i]])
      BY <3>6 DEF Sorts, Bijection, Injection, Surjection, IsInjective
    <3> DEFINE o == [i \in 1 .. k + 1 |-> IF i = k + 1 THEN t ELSE from(v[i])]
    <3>8. \A i \in 1 .. k + 1 : i = k + 1 \/ i \in 1 .. k
      BY <2>1
    <3>9. \A i \in 1 .. k : i \in 1 .. k + 1 /\ i # k + 1 /\ i < k + 1
      BY <2>1
    <3>10. /\ o[k + 1] = t
           /\ \A i \in 1 .. k : o[i] = from(v[i]) /\ v[i] \in 1 .. k /\ o[i] # t
      BY <2>1, <3>2, <3>7, <3>9
    <3>11. o \in [1 .. k + 1 -> 1 .. k + 1]
      BY <3>2, <3>7, <3>8
    <3> HIDE DEF o
    <3>12. \A i, j \in 1 .. k + 1 : o[i] = o[j] => i = j
      <4> SUFFICES ASSUME NEW i \in 1 .. k + 1, NEW j \in 1 .. k + 1, o[i] = o[j] PROVE i = j
        OBVIOUS
      <4>1. CASE i \in 1 .. k /\ j \in 1 .. k
        <5>1. v[i] \in 1 .. k /\ v[j] \in 1 .. k /\ from(v[i]) = from(v[j])
          BY <3>10, <4>1
        <5>2. v[i] = v[j]
          BY <3>3, <5>1
        <5> QED
          BY <3>7, <4>1, <5>2
      <4>2. CASE i = k + 1
        BY <3>8, <3>10, <4>2
      <4>3. CASE j = k + 1
        BY <3>8, <3>10, <4>3
      <4> QED
        BY <3>8, <4>1, <4>2, <4>3
    <3>13. \A q \in 1 .. k + 1 : \E i \in 1 .. k + 1 : o[i] = q
      <4> SUFFICES ASSUME NEW q \in 1 .. k + 1 PROVE \E i \in 1 .. k + 1 : o[i] = q
        OBVIOUS
      <4>1. CASE q = t
        BY <2>1, <3>10, <4>1
      <4>2. CASE q # t
        <5>1. PICK i \in 1 .. k : from(i) = q
          BY <3>4, <4>2
        <5>2. PICK j \in 1 .. k : v[j] = i
          BY <3>7
        <5> QED
          BY <3>9, <3>10, <5>1, <5>2
      <4> QED
        BY <4>1, <4>2
    <3>14. ASSUME NEW i \in 1 .. k + 1, NEW j \in 1 .. k + 1, i < j
           PROVE  ~ReadBefore(s[o[j]], s[o[i]])
      <4>0. i \in 1 .. k
        BY <2>1, <3>14
      <4>1. CASE j = k + 1
        BY <3>1, <3>10, <3>11, <4>1
      <4>2. CASE j \in 1 .. k
        <5>1. ~ReadBefore(u[v[j]], u[v[i]])
          BY <3>7, <3>14, <4>0, <4>2
        <5>2. u[v[j]] = s[o[j]] /\ u[v[i]] = s[o[i]]
          BY <3>10, <4>0, <4>2
        <5> QED
          BY <5>1, <5>2
      <4> QED
        BY <3>8, <4>1, <4>2
    <3>15. DOMAIN s = 1 .. k + 1
      OBVIOUS
    <3>16. Sorts(o, s)
      BY <3>11, <3>12, <3>13, <3>14, <3>15 DEF Sorts, Bijection, Injection, Surjection, IsInjective
    <3> QED
      BY <3>16
  <2> QED
    BY <2>1, <2>2
<1>3. m \in T
  <2> HIDE DEF T
  <2>1. \A k \in 0 .. m - 1 : k \in T => k + 1 \in T
    BY <1>2
  <2>2. \A k \in 0 .. m : k \in T
    BY <1>1, <2>1, UpTo
  <2> QED
    BY <2>2
<1> QED
  BY <1>3

\* What std::sort makes of a list: the same pairs, in order.
\* The m pairs of t are those of s, in order; the numbers in them are at most n.
InOrderOf(t, s, m, n) ==
    /\ t \in [1 .. m -> (0 .. n) \X (0 .. n)] /\ InOrder(t)
    /\ \A i \in 1 .. m : \E j \in 1 .. m : t[i] = s[j]
    /\ \A j \in 1 .. m : \E i \in 1 .. m : t[i] = s[j]

LEMMA SortedExact ==
    ASSUME NEW n \in Nat, NEW m \in Nat, NEW s \in [1 .. m -> (0 .. n) \X (0 .. n)]
    PROVE  InOrderOf(Sorted(s), s, m, n)
<1> DEFINE R == (0 .. n) \X (0 .. n)
           Of(o) == [i \in DOMAIN s |-> s[o[i]]]
           Perms == {[i \in DOMAIN s |-> s[o[i]]] : o \in Bijection(DOMAIN s, DOMAIN s)}
           Ok(c) == \A i, j \in DOMAIN s : i < j => ~ReadBefore(c[j], c[i])
<1>1. DOMAIN s = 1 .. m
  OBVIOUS
<1>2. PICK o : Sorts(o, s)
  BY SortExists
<1>3. Of(o) \in Perms /\ Ok(Of(o))
  BY <1>2 DEF Sorts
<1>4. Sorted(s) \in Perms /\ Ok(Sorted(s))
  <2>1. Sorted(s) = CHOOSE c \in Perms : Ok(c)
    BY DEF Sorted
  <2> HIDE DEF Ok, Perms
  <2> QED
    BY <1>3, <2>1
<1>5. PICK v \in Bijection(1 .. m, 1 .. m) : Sorted(s) = [i \in 1 .. m |-> s[v[i]]]
  BY <1>1, <1>4
<1>6. v \in [1 .. m -> 1 .. m] /\ \A q \in 1 .. m : \E i \in 1 .. m : v[i] = q
  BY DEF Bijection, Injection, Surjection
<1>7. Sorted(s) \in [1 .. m -> R]
  BY <1>5, <1>6
<1>8. InOrder(Sorted(s))
  <2> SUFFICES ASSUME NEW i \in 1 .. m, NEW j \in 1 .. m, i < j
               PROVE  Sorted(s)[i][1] <= Sorted(s)[j][1]
    BY <1>5 DEF InOrder
  <2> DEFINE a == Sorted(s)[i]
             b == Sorted(s)[j]
  <2>1. ~ReadBefore(b, a)
    BY <1>1, <1>4
  <2>2. a \in R /\ b \in R
    BY <1>7
  <2> HIDE DEF a, b
  <2>3. a[1] <= b[1]
    BY <2>1, <2>2 DEF ReadBefore
  <2> QED
    BY <2>3 DEF a, b
<1>9. /\ \A i \in 1 .. m : \E j \in 1 .. m : Sorted(s)[i] = s[j]
      /\ \A j \in 1 .. m : \E i \in 1 .. m : Sorted(s)[i] = s[j]
  <2>1. \A i \in 1 .. m : v[i] \in 1 .. m /\ Sorted(s)[i] = s[v[i]]
    BY <1>5, <1>6
  <2>2. \A j \in 1 .. m : \E i \in 1 .. m : Sorted(s)[i] = s[j]
    <3> SUFFICES ASSUME NEW j \in 1 .. m PROVE \E i \in 1 .. m : Sorted(s)[i] = s[j]
      OBVIOUS
    <3>1. PICK i \in 1 .. m : v[i] = j
      BY <1>6
    <3> QED
      BY <2>1, <3>1
  <2> QED
    BY <2>1, <2>2
<1> QED
  BY <1>7, <1>8, <1>9 DEF InOrderOf

(***************************************************************************)
(* The answers                                                              *)
(***************************************************************************)
LEMMA RequestType ==
    ASSUME NEW r \in Requests
    PROVE  /\ r = <<r[1], r[2]>> /\ r \in Nat \X Nat /\ r \in (0 .. MaxPos) \X (0 .. MaxPos)
           /\ r[1] \in Pos /\ r[1] \in Nat /\ r[2] \in Nat /\ r[2] > 0
           /\ EndOf(r) = r[1] + r[2] /\ r[1] + r[2] < SizeMod /\ r[1] + r[2] <= MaxPos
BY BoundsAssumption DEF Requests, Pos, EndOf

\* A piece of a list whose pieces are apart starts a stretch of what is listed.
LEMMA ApartStarts ==
    ASSUME NEW s \in Seeks, Apart(s), NEW i \in DOMAIN s
    PROVE  s[i][1] \in StretchStarts(Listed(s))
<1>1. Len(s) \in Nat /\ DOMAIN s = 1 .. Len(s)
  BY LenProperties DEF Seeks
<1>2. /\ s[i][1] \in Nat /\ s[i][2] \in Nat /\ s[i][2] > 0 /\ EndOf(s[i]) = s[i][1] + s[i][2]
  BY SeekAt DEF Apart
<1>3. s[i][1] \in Listed(s)
  BY <1>2 DEF Listed, Piece
<1>4. ASSUME NEW j \in DOMAIN s, s[i][1] - 1 \in Piece(s[j]) PROVE FALSE
  <2>1. s[j][1] \in Nat /\ s[j][2] \in Nat /\ EndOf(s[j]) \in Nat /\ EndOf(s[j]) = s[j][1] + s[j][2]
    BY SeekAt
  <2>2. s[j][1] <= s[i][1] - 1 /\ s[i][1] - 1 <= EndOf(s[j]) - 1
    BY <1>2, <1>4, <2>1 DEF Piece
  <2>3. CASE j < i
    <3>1. j \in 1 .. i - 1
      BY <1>1, <2>3
    <3>2. EndOf(s[j]) < s[i][1]
      BY <3>1, ApartOrder
    <3> QED
      BY <1>2, <2>1, <2>2, <3>2
  <2>4. CASE i < j
    <3>1. i \in 1 .. j - 1
      BY <1>1, <2>4
    <3>2. EndOf(s[i]) < s[j][1]
      BY <3>1, ApartOrder
    <3> QED
      BY <1>2, <2>1, <2>2, <3>2
  <2>5. CASE i = j
    BY <1>2, <2>2, <2>5
  <2> QED
    BY <1>1, <2>3, <2>4, <2>5
<1> QED
  BY <1>3, <1>4 DEF StretchStarts, Listed

\* What an answer to the requests reads owes: the missing bytes in pieces apart, no
\* others unless greedy, nothing if nothing is missing, and a start of a stretch of
\* missing bytes at each piece.
Answers(answer, reads, greedy) ==
    LET missing == Listed(reads) \ HeldPos
    IN /\ answer \in Seeks /\ Apart(answer)
       /\ missing \subseteq Listed(answer)
       /\ greedy = 0 => Listed(answer) = missing
       /\ answer = <<>> <=> missing = {}
       /\ \A i \in DOMAIN answer : answer[i][1] \in StretchStarts(missing)
       /\ (\A i \in DOMAIN reads : reads[i][2] < greedy) =>
                \A i \in DOMAIN answer : answer[i][2] >= greedy

LEMMA EmptyIffNothing ==
    ASSUME NEW s \in Seeks, \A i \in DOMAIN s : s[i][2] > 0
    PROVE  s = <<>> <=> Listed(s) = {}
<1>1. ASSUME s # <<>> PROVE Listed(s) # {}
  <2>1. Len(s) \in Nat \ {0} /\ DOMAIN s = 1 .. Len(s)
    BY <1>1, EmptySeq, LenProperties DEF Seeks
  <2>2. 1 \in DOMAIN s
    BY <2>1
  <2>3. s[1][1] \in Nat /\ s[1][2] \in Nat /\ s[1][2] > 0 /\ EndOf(s[1]) = s[1][1] + s[1][2]
    BY <2>2, SeekAt
  <2>4. s[1][1] \in Piece(s[1])
    BY <2>3 DEF Piece
  <2> QED
    BY <2>2, <2>4 DEF Listed
<1> QED
  BY <1>1, NothingListed

LEMMA NoBlocksHoldNothing ==
    ASSUME Starts = {}
    PROVE  HeldPos = {}
BY DEF HeldPos

LEMMA NeedAnswers ==
    ASSUME Sound(m_svf), NEW r \in Requests, NEW greedy \in Nat
    PROVE  Answers(need(r[1], r[2], greedy), <<r>>, greedy)
<1>1. /\ r = <<r[1], r[2]>> /\ r \in Nat \X Nat /\ r[1] \in Nat /\ r[2] \in Nat /\ r[2] > 0
      /\ EndOf(r) = r[1] + r[2] /\ r[1] + r[2] < SizeMod
  BY RequestType
<1>2. DOMAIN <<r>> = 1 .. 1 /\ <<r>>[1] = r /\ Listed(<<r>>) = Piece(r)
  BY <1>1, OneSeek
<1> DEFINE missing == Listed(<<r>>) \ HeldPos
           answer  == need(r[1], r[2], greedy)
<1>3. CASE Starts = {}
  <2> DEFINE k == <<r[1], Larger(greedy, r[2])>>
  <2>1. /\ k \in Nat \X Nat /\ k[1] = r[1] /\ k[2] = Larger(greedy, r[2]) /\ k[2] > 0
        /\ k[2] >= r[2] /\ k[2] >= greedy /\ (greedy = 0 => k[2] = r[2])
    BY <1>1 DEF Larger
  <2>2. answer = <<k>>
    BY <1>3 DEF need
  <2> HIDE DEF k, answer
  <2>3. /\ answer \in Seeks /\ Apart(answer) /\ Listed(answer) = Piece(k)
        /\ DOMAIN answer = 1 .. 1 /\ answer[1] = k
    BY <2>1, <2>2, OneSeek
  <2>4. missing = Piece(r)
    BY <1>2, <1>3, NoBlocksHoldNothing
  <2>5. Piece(r) = r[1] .. r[1] + r[2] - 1 /\ Piece(k) = r[1] .. r[1] + k[2] - 1
    BY <1>1, <2>1 DEF Piece, EndOf
  <2>6. /\ Piece(r) \subseteq Piece(k) /\ (greedy = 0 => Piece(k) = Piece(r))
        /\ r[1] \in Piece(r) /\ r[1] - 1 \notin Piece(r)
    BY <1>1, <2>1, <2>5
  <2>7. answer # <<>> /\ missing # {}
    <3>1. 1 \in DOMAIN answer /\ DOMAIN <<>> = {}
      BY <2>3, NothingListed
    <3> QED
      BY <2>4, <2>6, <3>1
  <2>8. \A i \in DOMAIN answer : i = 1 /\ answer[i] = k
    BY <2>3
  <2> HIDE DEF missing
  <2>9. \A i \in DOMAIN answer : answer[i][1] \in StretchStarts(missing)
    BY <2>1, <2>4, <2>6, <2>8 DEF StretchStarts
  <2>10. Answers(answer, <<r>>, greedy)
    BY <2>1, <2>3, <2>4, <2>6, <2>7, <2>8, <2>9 DEF Answers, missing
  <2> QED
    BY <2>10 DEF answer
<1>4. CASE Starts # {}
  <2> DEFINE all == Missing(r[1], r[2])
  <2>1. all \in Seeks /\ Apart(all) /\ Listed(all) = missing
    <3>1. all \in Seeks /\ Apart(all) /\ Listed(all) = (r[1] .. r[1] + r[2] - 1) \ HeldPos
      BY <1>1, NeedExact
    <3> QED
      BY <1>1, <1>2, <3>1 DEF Piece
  <2>2. answer = IF greedy > r[2] /\ all # <<>> THEN _minimise_seek_reads(all, greedy) ELSE all
    BY <1>4 DEF need
  <2> HIDE DEF all, answer, missing
  <2>3. all = <<>> <=> missing = {}
    BY <2>1, EmptyIffNothing DEF Apart
  <2>4. CASE greedy > r[2] /\ all # <<>>
    <3> DEFINE new == _minimise_seek_reads(all, greedy)
    <3>1. Settled(all)
      BY <2>1, ApartSettled
    <3>2. /\ new \in Seeks /\ Apart(new)
          /\ Listed(all) \subseteq Listed(new)
          /\ \A i \in DOMAIN new : new[i][2] >= greedy
          /\ new = <<>> <=> all = <<>>
          /\ \A i \in DOMAIN new : new[i][1] \in StretchStarts(Listed(all))
      BY <2>1, <3>1, MinimiseExact
    <3>3. answer = new /\ greedy # 0
      BY <1>1, <2>2, <2>4
    <3> HIDE DEF new
    <3>4. Answers(answer, <<r>>, greedy)
      BY <2>1, <2>3, <3>2, <3>3 DEF Answers, missing
    <3> QED
      BY <3>4 DEF answer
  <2>5. CASE ~(greedy > r[2] /\ all # <<>>)
    <3>1. answer = all
      BY <2>2, <2>5
    <3>2. \A i \in DOMAIN all : all[i][1] \in StretchStarts(missing)
      BY <2>1, ApartStarts
    <3>3. (\A i \in DOMAIN <<r>> : <<r>>[i][2] < greedy) => all = <<>>
      <4>1. ASSUME \A i \in DOMAIN <<r>> : <<r>>[i][2] < greedy PROVE r[2] < greedy
        BY <1>2, <4>1
      <4> QED
        BY <1>1, <2>5, <4>1
    <3>4. (\A i \in DOMAIN <<r>> : <<r>>[i][2] < greedy) => \A i \in DOMAIN all : all[i][2] >= greedy
      BY <3>3, NothingListed
    <3>5. Answers(answer, <<r>>, greedy)
      BY <2>1, <2>3, <3>1, <3>2, <3>4 DEF Answers, missing
    <3> QED
      BY <3>5 DEF answer
  <2> QED
    BY <2>4, <2>5
<1> QED
  BY <1>3, <1>4

LEMMA NeedManyAnswers ==
    ASSUME Sound(m_svf), NEW m \in Nat, NEW reads \in [1 .. m -> Requests], NEW greedy \in Nat
    PROVE  Answers(need_many(reads, greedy), reads, greedy)
<1> DEFINE s == Sorted(reads)
           R == (0 .. MaxPos) \X (0 .. MaxPos)
           asList == IF Starts = {} THEN s ELSE NeedOfEach(s)
           missing == Listed(reads) \ HeldPos
           answer == need_many(reads, greedy)
<1>1. reads \in [1 .. m -> R] /\ \A i \in 1 .. m : reads[i] \in Requests
  BY RequestType
<1>2. /\ s \in [1 .. m -> R] /\ InOrder(s)
      /\ \A i \in 1 .. m : \E j \in 1 .. m : s[i] = reads[j]
      /\ \A j \in 1 .. m : \E i \in 1 .. m : s[i] = reads[j]
  <2>1. MaxPos \in Nat /\ reads \in [1 .. m -> (0 .. MaxPos) \X (0 .. MaxPos)]
    BY <1>1, BoundsAssumption
  <2>2. InOrderOf(Sorted(reads), reads, m, MaxPos)
    BY <2>1, SortedExact, Zenon
  <2> QED
    BY <2>2 DEF InOrderOf
<1> HIDE DEF s
<1>3. DOMAIN s = 1 .. m /\ DOMAIN reads = 1 .. m /\ \A i \in 1 .. m : s[i] \in Requests
  BY <1>1, <1>2
<1>4. \A i \in 1 .. m : s[i] \in Nat \X Nat /\ s[i][2] > 0 /\ EndOf(s[i]) < SizeMod
                       /\ s[i][1] \in Nat /\ EndOf(s[i]) \in Nat
  <2> SUFFICES ASSUME NEW i \in 1 .. m
               PROVE  s[i] \in Nat \X Nat /\ s[i][2] > 0 /\ EndOf(s[i]) < SizeMod
                       /\ s[i][1] \in Nat /\ EndOf(s[i]) \in Nat
    OBVIOUS
  <2>1. s[i] \in Requests
    BY <1>3
  <2> DEFINE r == s[i]
  <2> HIDE DEF r
  <2>2. r \in Nat \X Nat /\ r[2] > 0 /\ EndOf(r) < SizeMod /\ r[1] \in Nat /\ EndOf(r) \in Nat
    BY <2>1, RequestType DEF r
  <2> QED
    BY <2>2 DEF r
<1>5. s \in Seeks /\ InSize(s)
  <2>1. s \in [1 .. m -> Nat \X Nat]
    BY <1>2, <1>4
  <2>2. s \in Seq(Nat \X Nat)
    BY <2>1, SeqDef
  <2> QED
    BY <1>3, <1>4, <2>2 DEF Seeks, InSize
<1>6. Listed(s) = Listed(reads)
  <2>1. Listed(s) \subseteq Listed(reads)
    BY <1>2, <1>3 DEF Listed
  <2>2. Listed(reads) \subseteq Listed(s)
    BY <1>2, <1>3 DEF Listed
  <2> QED
    BY <2>1, <2>2
<1>7. asList \in Seeks /\ Settled(asList) /\ Listed(asList) = missing
  <2>1. CASE Starts = {}
    <3>1. missing = Listed(s)
      BY <1>6, <2>1, NoBlocksHoldNothing
    <3>2. Settled(s)
      <4>1. ASSUME NEW j \in DOMAIN s, NEW i \in 1 .. j - 1, NEW q \in Piece(s[j]), q < s[i][1]
            PROVE  FALSE
        <5>1. j \in 1 .. m /\ i \in 1 .. m /\ i < j
          BY <1>3
        <5>2. s[i][1] <= s[j][1]
          BY <1>2, <1>3, <5>1 DEF InOrder
        <5>3. s[j][1] \in Nat /\ s[i][1] \in Nat /\ EndOf(s[j]) \in Nat
          BY <1>4, <5>1
        <5>4. q \in Nat /\ s[j][1] <= q
          BY <5>3 DEF Piece
        <5> QED
          BY <4>1, <5>2, <5>3, <5>4
      <4> QED
        BY <1>3, <1>4, <4>1 DEF Settled
    <3> QED
      BY <1>5, <2>1, <3>1, <3>2
  <2>2. CASE Starts # {}
    BY <1>2, <1>5, <1>6, <2>2, EachExact
  <2> QED
    BY <2>1, <2>2
<1>8. answer = _minimise_seek_reads(asList, greedy)
  BY DEF need_many, s
<1> HIDE DEF answer, asList, missing
<1> DEFINE new == _minimise_seek_reads(asList, greedy)
<1>9. /\ new \in Seeks /\ Apart(new)
      /\ Listed(asList) \subseteq Listed(new)
      /\ greedy = 0 => Listed(new) = Listed(asList)
      /\ \A i \in DOMAIN new : new[i][2] >= greedy
      /\ new = <<>> <=> asList = <<>>
      /\ \A i \in DOMAIN new : new[i][1] \in StretchStarts(Listed(asList))
  BY <1>7, MinimiseExact
<1> HIDE DEF new
<1>10. asList = <<>> <=> missing = {}
  BY <1>7, EmptyIffNothing DEF Settled
<1>11. answer = new
  BY <1>8 DEF new
<1>12. Answers(answer, reads, greedy)
  BY <1>7, <1>9, <1>10, <1>11 DEF Answers, missing
<1> QED
  BY <1>12 DEF answer

(***************************************************************************)
(* The state                                                                *)
(***************************************************************************)
\* Any part of the file held makes sound blocks.
LEMMA BlocksOfSound ==
    ASSUME NEW f \in Files, NEW S \in SUBSET Pos
    PROVE  Sound(BlocksOf(S, f))
<1> DEFINE end(s) == Smallest({e \in s .. MaxPos : e \notin S})
           D == {q \in S : q - 1 \notin S}
           m == BlocksOf(S, f)
<1>1. MaxPos \in Nat /\ \A q \in S : q \in Nat /\ q < MaxPos /\ q \in Pos
  BY BoundsAssumption DEF Pos
<1>2. ASSUME NEW s \in S
      PROVE  /\ end(s) \in Nat /\ s < end(s) /\ end(s) <= MaxPos
             /\ \A q \in s .. end(s) - 1 : q \in S
  <2> DEFINE E == {e \in s .. MaxPos : e \notin S}
  <2>0. s \in Nat /\ s < MaxPos /\ MaxPos \notin S
    BY <1>1
  <2>1. MaxPos \in E /\ E \subseteq Nat /\ \A e \in E : s <= e /\ e <= MaxPos /\ e \notin S
    BY <1>1, <2>0
  <2>2. Smallest(E) \in E /\ \A y \in E : Smallest(E) <= y
    <3> HIDE DEF E
    <3> QED
      BY <2>1, SmallestIn
  <2> DEFINE z == Smallest(E)
  <2>3. z \in Nat /\ s <= z /\ z <= MaxPos /\ z \notin S /\ z # s
    BY <2>1, <2>2
  <2>4. ASSUME NEW q \in s .. z - 1, q \notin S PROVE FALSE
    <3> HIDE DEF z
    <3>1. q \in s .. MaxPos /\ q < z
      BY <1>1, <2>0, <2>3
    <3>2. q \in E
      BY <2>4, <3>1
    <3> QED
      BY <1>1, <2>2, <2>3, <3>1, <3>2 DEF z
  <2>5. z = end(s)
    OBVIOUS
  <2> HIDE DEF z
  <2>6. z \in Nat /\ s < z /\ z <= MaxPos /\ \A q \in s .. z - 1 : q \in S
    BY <2>0, <2>3, <2>4
  <2> QED
    BY <2>5, <2>6
<1>3. m = [s \in D |-> [data |-> Fetch(f, s, end(s) - s), block_touch |-> s]]
  BY DEF BlocksOf
<1> HIDE DEF end, m
<1>4. ASSUME NEW s \in D
      PROVE  /\ m[s] \in Block /\ m[s].data # <<>> /\ End(m, s) = end(s)
  <2>1. s \in S /\ s \in Nat /\ s \in Pos
    BY <1>1
  <2> DEFINE n == end(s) - s
  <2>2. n \in 0 .. MaxPos - s /\ n > 0 /\ s + n = end(s)
    BY <1>1, <1>2, <2>1
  <2> HIDE DEF n
  <2>3. Fetch(f, s, n) \in Seq(Byte) /\ Len(Fetch(f, s, n)) = n
    BY <2>1, <2>2, FetchType
  <2>4. m[s] = [data |-> Fetch(f, s, n), block_touch |-> s]
    BY <1>3 DEF n
  <2>5. Fetch(f, s, n) # <<>>
    BY <2>2, <2>3, EmptySeq
  <2>6. m[s] \in Block /\ m[s].data # <<>>
    BY <2>1, <2>3, <2>4, <2>5 DEF Block
  <2>7. End(m, s) = end(s)
    BY <2>2, <2>3, <2>4 DEF End
  <2> QED
    BY <2>6, <2>7
<1>5. DOMAIN m = D
  BY <1>3
<1>6. BlocksOK(m)
  BY <1>1, <1>4, <1>5 DEF BlocksOK
<1>7. \A s \in DOMAIN m : m[s].data # <<>> /\ End(m, s) <= MaxPos
  BY <1>2, <1>4, <1>5
<1>8. ASSUME NEW s \in D, NEW t \in D, s < t
      PROVE  End(m, s) < t
  <2>1. s \in Nat /\ t \in Nat /\ t - 1 \notin S /\ end(s) \in Nat /\ s < end(s)
    BY <1>1, <1>2
  <2>2. SUFFICES ASSUME t <= end(s) PROVE FALSE
    BY <1>4, <2>1
  <2>3. t - 1 \in s .. end(s) - 1
    BY <1>8, <2>1, <2>2
  <2> QED
    BY <1>2, <2>1, <2>3
<1>9. Sound(m)
  BY <1>5, <1>6, <1>7, <1>8 DEF Sound
<1> QED
  BY <1>9 DEF m

\* The last call was answered by the file as it is.
Answered ==
    \/ asked.reads = <<>>
    \/ /\ \E n \in Nat : asked.reads \in [1 .. n -> Requests]
       /\ asked.greedy \in Nat
       /\ Answers(asked.answer, asked.reads, asked.greedy)

NeedInv == Sound(m_svf) /\ Answered

LEMMA NeedInvInit == NeedInit => NeedInv
<1> SUFFICES ASSUME NeedInit PROVE NeedInv
  OBVIOUS
<1>1. Sound(m_svf)
  BY BlocksOfSound DEF NeedInit
<1>2. Answered
  BY DEF NeedInit, Answered
<1> QED
  BY <1>1, <1>2 DEF NeedInv

LEMMA AnswersStays ==
    ASSUME m_svf' = m_svf, NEW answer, NEW reads, NEW greedy, Answers(answer, reads, greedy)
    PROVE  Answers(answer, reads, greedy)'
BY DEF Answers, HeldPos, Starts, AfterBlock

\* A call is answered by the file as it is, and the file stays as it is.
LEMMA AnsweredNext ==
    ASSUME m_svf' = m_svf, NEW n \in Nat, NEW reads \in [1 .. n -> Requests],
           NEW greedy \in Nat, NEW answer, Answers(answer, reads, greedy),
           asked' = [reads |-> reads, greedy |-> greedy, answer |-> answer]
    PROVE  Answered'
<1>1. asked'.reads = reads /\ asked'.greedy = greedy /\ asked'.answer = answer
  OBVIOUS
<1>2. \A a, r, g : Answers(a, r, g) => Answers(a, r, g)'
  BY AnswersStays
<1>3. Answers(asked.answer, asked.reads, asked.greedy)'
  BY <1>1, <1>2
<1> QED
  BY <1>1, <1>3 DEF Answered

LEMMA NeedInvNext == NeedInv /\ [NeedNext]_needVars => NeedInv'
<1> SUFFICES ASSUME NeedInv, [NeedNext]_needVars PROVE NeedInv'
  OBVIOUS
<1>1. m_svf' = m_svf /\ Sound(m_svf)
  BY DEF NeedInv, NeedNext, needVars, vars
<1>2. Sound(m_svf)'
  BY <1>1 DEF Sound, BlocksOK, End
<1>3. CASE UNCHANGED needVars
  <2>1. asked' = asked
    BY <1>3 DEF needVars
  <2>2. ASSUME Answers(asked.answer, asked.reads, asked.greedy)
        PROVE  Answers(asked.answer, asked.reads, asked.greedy)'
    <3>1. \A a, r, g : Answers(a, r, g) => Answers(a, r, g)'
      BY <1>1, AnswersStays
    <3> QED
      BY <2>1, <2>2, <3>1
  <2>3. Answered'
    BY <2>1, <2>2 DEF NeedInv, Answered
  <2> QED
    BY <1>2, <2>3 DEF NeedInv
<1>4. ASSUME NEW r \in Requests, NEW greedy \in 0 .. MaxGreedy, AskNeed(r, greedy)
      PROVE  Answered'
  <2> DEFINE answer == need(r[1], r[2], greedy)
             reads == <<r>>
  <2>1. greedy \in Nat
    BY GreedyAssumption
  <2>2. Answers(answer, reads, greedy)
    BY <1>1, <2>1, NeedAnswers
  <2>3. asked' = [reads |-> reads, greedy |-> greedy, answer |-> answer]
    BY <1>4 DEF AskNeed
  <2>4. reads \in [1 .. 1 -> Requests]
    OBVIOUS
  <2> HIDE DEF answer, reads
  <2> QED
    BY <1>1, <2>1, <2>2, <2>3, <2>4, AnsweredNext
<1>5. ASSUME NEW n \in 1 .. MaxReads, NEW greedy \in 0 .. MaxGreedy,
             NEW reads \in [1 .. n -> Requests], AskNeedMany(reads, greedy)
      PROVE  Answered'
  <2> DEFINE answer == need_many(reads, greedy)
  <2>1. greedy \in Nat /\ n \in Nat
    BY GreedyAssumption
  <2>2. Answers(answer, reads, greedy)
    BY <1>1, <2>1, NeedManyAnswers
  <2>3. asked' = [reads |-> reads, greedy |-> greedy, answer |-> answer]
    BY <1>5 DEF AskNeedMany
  <2> HIDE DEF answer
  <2> QED
    BY <1>1, <2>1, <2>2, <2>3, AnsweredNext
<1> QED
  BY <1>2, <1>3, <1>4, <1>5 DEF NeedInv, NeedNext

LEMMA NeedInvHolds == NeedSpec => []NeedInv
BY NeedInvInit, NeedInvNext, PTL DEF NeedSpec

\* Every byte that was asked for and is not held is in the answer of need() and of
\* need_many(), and its pieces are in order, not empty and not adjacent: for any
\* number of requests in any order, overlapping or not, and any greedy length.
THEOREM NeedCovers == NeedSpec => []NeedCoversMissing
<1>1. NeedInv => NeedCoversMissing
  BY DEF NeedInv, Answered, Answers, NeedCoversMissing, Asked, Wanted
<1> QED
  BY <1>1, NeedInvHolds, PTL

\* Without a greedy length the answer has no byte that is held or was not asked for.
THEOREM NeedMinimal == NeedSpec => []NeedIsMinimal
<1>1. NeedInv => NeedIsMinimal
  BY DEF NeedInv, Answered, Answers, NeedIsMinimal, Asked, Wanted
<1> QED
  BY <1>1, NeedInvHolds, PTL

\* The answer for a range is empty if and only if has() is true of the range.
THEOREM NeedAgrees == NeedSpec => []NeedAgreesWithHas
<1>1. NeedInv => NeedAgreesWithHas
  <2> SUFFICES ASSUME NeedInv, NEW r \in Requests, asked.reads = <<r>>
               PROVE  has(r[1], r[2]) <=> asked.answer = <<>>
    BY DEF NeedAgreesWithHas
  <2>1. /\ r \in Nat \X Nat /\ r[1] \in Pos /\ r[1] \in Nat /\ r[2] \in Nat /\ r[2] > 0
        /\ EndOf(r) = r[1] + r[2] /\ r[1] + r[2] < SizeMod
    BY RequestType
  <2>2. r[2] \in 1 .. SizeMod - 1 - r[1]
    BY <2>1, BoundsAssumption
  <2>3. has(r[1], r[2]) <=> r[1] .. r[1] + r[2] - 1 \subseteq HeldPos
    BY <2>1, <2>2, SoundHas DEF NeedInv
  <2>4. Piece(r) = r[1] .. r[1] + r[2] - 1 /\ Listed(<<r>>) = Piece(r)
    BY <2>1, OneSeek DEF Piece
  <2>5. asked.reads # <<>>
    <3>1. DOMAIN <<r>> = 1 .. 1 /\ DOMAIN <<>> = {} /\ 1 \in 1 .. 1
      BY <2>1, OneSeek, NothingListed
    <3> QED
      BY <3>1
  <2>6. asked.answer = <<>> <=> Listed(<<r>>) \ HeldPos = {}
    BY <2>5 DEF NeedInv, Answered, Answers
  <2> QED
    BY <2>3, <2>4, <2>6
<1> QED
  BY <1>1, NeedInvHolds, PTL

\* An answer has at most one piece for each stretch of missing bytes, and a greedy
\* length that exceeds every request is the least length of a piece.
THEOREM NeedReadsFew == NeedSpec => []GreedyReadsFewer
<1>1. NeedInv => GreedyReadsFewer
  <2> SUFFICES ASSUME NeedInv, Asked PROVE
        /\ Len(asked.answer) <= Cardinality(StretchStarts(Wanted))
        /\ (\A i \in DOMAIN asked.reads : asked.reads[i][2] < asked.greedy) =>
                \A i \in DOMAIN asked.answer : asked.answer[i][2] >= asked.greedy
    BY DEF GreedyReadsFewer
  <2>1. PICK n \in Nat : asked.reads \in [1 .. n -> Requests]
    BY DEF NeedInv, Answered, Asked
  <2> DEFINE a == asked.answer
             m == Len(a)
             S == StretchStarts(Wanted)
  <2>2. /\ a \in Seeks /\ Apart(a) /\ \A i \in DOMAIN a : a[i][1] \in S
        /\ (\A i \in DOMAIN asked.reads : asked.reads[i][2] < asked.greedy) =>
                \A i \in DOMAIN a : a[i][2] >= asked.greedy
    BY DEF NeedInv, Answered, Answers, Asked, Wanted
  <2>3. IsFiniteSet(S) /\ Cardinality(S) \in Nat
    <3>1. S \subseteq 0 .. MaxPos
      <4> SUFFICES ASSUME NEW q \in S PROVE q \in 0 .. MaxPos
        OBVIOUS
      <4>1. PICK i \in 1 .. n : q \in Piece(asked.reads[i])
        BY <2>1 DEF StretchStarts, Wanted, Listed
      <4> DEFINE r == asked.reads[i]
      <4>2. r \in Requests
        BY <2>1
      <4> HIDE DEF r
      <4>3. r[1] \in Nat /\ EndOf(r) \in Nat /\ EndOf(r) <= MaxPos /\ MaxPos \in Nat
        BY <4>2, RequestType, BoundsAssumption
      <4>4. q \in r[1] .. EndOf(r) - 1
        BY <4>1 DEF Piece, r
      <4> QED
        BY <4>3, <4>4
    <3>2. IsFiniteSet(0 .. MaxPos)
      BY BoundsAssumption, FS_Interval
    <3> QED
      BY <3>1, <3>2, FS_Subset, FS_CardinalityType
  <2> HIDE DEF a, S
  <2>4. m \in Nat /\ DOMAIN a = 1 .. m
    BY <2>2, LenProperties DEF Seeks
  <2>5. m <= Cardinality(S)
    <3> DEFINE h == [i \in 1 .. m |-> a[i][1]]
    <3>1. h \in [1 .. m -> S]
      BY <2>2, <2>4
    <3>2. ASSUME NEW i \in 1 .. m, NEW j \in 1 .. m, i < j PROVE h[i] # h[j]
      <4>1. i \in 1 .. j - 1
        BY <2>4, <3>2
      <4>2. EndOf(a[i]) < a[j][1]
        BY <2>2, <2>4, <4>1, ApartOrder
      <4>3. a[i][1] \in Nat /\ a[i][2] \in Nat /\ EndOf(a[i]) = a[i][1] + a[i][2] /\ a[j][1] \in Nat
        BY <2>2, <2>4, SeekAt
      <4> QED
        BY <4>2, <4>3
    <3> HIDE DEF h, m
    <3>3. \A i, j \in 1 .. m : h[i] = h[j] => i = j
      <4> SUFFICES ASSUME NEW i \in 1 .. m, NEW j \in 1 .. m, i # j PROVE h[i] # h[j]
        OBVIOUS
      <4>1. i < j \/ j < i
        BY <2>4
      <4> QED
        BY <3>2, <4>1
    <3>4. IsFiniteSet(1 .. m) /\ Cardinality(1 .. m) = m
      BY <2>4, FS_Interval
    <3>5. h \in Injection(1 .. m, S)
      BY <3>1, <3>3 DEF Injection, IsInjective
    <3>6. Cardinality(1 .. m) <= Cardinality(S)
      BY <2>3, <3>5, FS_Injection
    <3> QED
      BY <3>4, <3>6
  <2> QED
    BY <2>2, <2>5 DEF a, S
<1> QED
  BY <1>1, NeedInvHolds, PTL

=============================================================================
