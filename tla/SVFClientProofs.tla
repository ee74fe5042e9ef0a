-------------------------- MODULE SVFClientProofs --------------------------
(***************************************************************************)
(* The sequence has(), need(), write(), read() always succeeds, for any     *)
(* number of threads that share one file, files of any length, any demands  *)
(* and any greedy lengths, when nobody punts.  And punting at any moment    *)
(* does no harm to a demand of the only client none of which was held.      *)
(***************************************************************************)
EXTENDS SVFClient, SVFNeedProofs, SparseVirtualFileRefinementProofs

(***************************************************************************)
(* A greedy answer exceeds the demand by less than the greedy length        *)
(***************************************************************************)
Within(s, to) == \A i \in DOMAIN s : s[i][1] <= to /\ EndOf(s[i]) <= to

LEMMA CollectWithin ==
    ASSUME NEW new \in Seeks, NEW seek \in Nat \X Nat, NEW greedy \in Nat, NEW to \in Nat,
           EndOf(seek) <= to, Within(new, to + greedy)
    PROVE  Within(Collect(new, seek, greedy), to + greedy)
<1>1. /\ seek[1] \in Nat /\ seek[2] \in Nat /\ EndOf(seek) = seek[1] + seek[2]
      /\ seek[1] + seek[2] <= to
  BY DEF EndOf
<1>2. CASE new = <<>> \/ StartsClear(seek, new[Len(new)])
  <2> DEFINE k == <<seek[1], _amount_to_read(seek[2], greedy)>>
  <2>1. k \in Nat \X Nat /\ k[1] <= to + greedy /\ EndOf(k) <= to + greedy
    BY <1>1 DEF _amount_to_read, Larger, EndOf
  <2>2. Collect(new, seek, greedy) = Append(new, k)
    BY <1>2 DEF Collect
  <2> HIDE DEF k
  <2> DEFINE n == Len(new)
             t == Append(new, k)
  <2>3. /\ n \in Nat /\ DOMAIN new = 1 .. n /\ DOMAIN t = 1 .. n + 1
        /\ \A i \in 1 .. n : t[i] = new[i]
        /\ t[n + 1] = k
    BY <2>1, SeekAppend
  <2> HIDE DEF n, t
  <2>4. \A i \in DOMAIN t : i \in 1 .. n \/ i = n + 1
    BY <2>3
  <2>5. Within(t, to + greedy)
    BY <2>1, <2>3, <2>4 DEF Within
  <2> QED
    BY <2>2, <2>5 DEF t
<1>3. CASE ~(new = <<>> \/ StartsClear(seek, new[Len(new)]))
  <2> DEFINE n == Len(new)
             last == new[n]
             k == Extended(last, seek)
  <2>1. n \in DOMAIN new
    BY <1>3, EmptySeq, LenProperties DEF Seeks
  <2>2. /\ last[1] \in Nat /\ last[2] \in Nat /\ EndOf(last) = last[1] + last[2]
        /\ last[1] <= to + greedy /\ EndOf(last) <= to + greedy
    BY <2>1, SeekAt DEF Within
  <2> HIDE DEF last, n
  <2>3. k[1] <= to + greedy /\ EndOf(k) <= to + greedy
    BY <1>1, <2>2 DEF Extended, Larger, EndOf
  <2>4. Collect(new, seek, greedy) = [new EXCEPT ![n] = k]
    BY <1>3 DEF Collect, last, n
  <2> HIDE DEF k
  <2> QED
    BY <2>3, <2>4 DEF Within
<1> QED
  BY <1>2, <1>3

LEMMA MinimiseWithin ==
    ASSUME NEW s \in Seeks, NEW greedy \in Nat, NEW to \in Nat,
           \A i \in DOMAIN s : EndOf(s[i]) <= to
    PROVE  Within(_minimise_seek_reads(s, greedy), to + greedy)
<1> DEFINE n == Len(s)
<1>1. n \in Nat /\ DOMAIN s = 1 .. n
  BY LenProperties DEF Seeks
<1>2. PICK g : /\ g[0] = <<>>
               /\ \A i \in 0 .. n : g[i] \in Seeks
               /\ \A i \in 1 .. n : g[i] = Collect(g[i - 1], s[i], greedy)
               /\ _minimise_seek_reads(s, greedy) = g[n]
  BY MinimiseFold
<1> DEFINE T == {i \in 0 .. n : Within(g[i], to + greedy)}
<1>3. 0 \in T
  BY <1>1, <1>2, NothingListed DEF Within
<1>4. ASSUME NEW i \in 0 .. n - 1, i \in T
      PROVE  i + 1 \in T
  <2>1. i + 1 \in 1 .. n /\ i + 1 \in 0 .. n /\ (i + 1) - 1 = i /\ i \in 0 .. n
    BY <1>1
  <2>2. s[i + 1] \in Nat \X Nat /\ EndOf(s[i + 1]) <= to /\ g[i] \in Seeks
    BY <1>1, <1>2, <2>1, SeekAt
  <2>3. Within(Collect(g[i], s[i + 1], greedy), to + greedy)
    BY <1>4, <2>2, CollectWithin
  <2>4. g[i + 1] = Collect(g[i], s[i + 1], greedy)
    BY <1>2, <2>1
  <2> QED
    BY <2>1, <2>3, <2>4
<1>5. n \in T
  <2> HIDE DEF T, n
  <2>1. \A i \in 0 .. n - 1 : i \in T => i + 1 \in T
    BY <1>4
  <2>2. n \in Nat
    BY <1>1
  <2>3. \A i \in 0 .. n : i \in T
    BY <1>3, <2>1, <2>2, UpTo
  <2> QED
    BY <2>2, <2>3
<1> QED
  BY <1>2, <1>5

(***************************************************************************)
(* What a client may be in the middle of                                    *)
(***************************************************************************)
\* The reads of this list can be asked of the server and written.
Fetchable(todo) ==
    /\ todo \in Seeks
    /\ \A i \in DOMAIN todo : todo[i][1] \in Pos /\ todo[i][2] \in 1 .. MaxPos - todo[i][1]

LEMMA DemandType ==
    ASSUME NEW x \in Setups, NEW d \in x.demands
    PROVE  /\ d \in Requests /\ d[1] \in Pos /\ d[1] \in Nat /\ d[2] \in Nat
           /\ d[2] \in 0 .. MaxPos - d[1] /\ d[2] \in 1 .. SizeMod - 1 - d[1]
           /\ Piece(d) = d[1] .. d[1] + d[2] - 1
           /\ \A g \in GreedyLengths : g \in Nat /\ d[1] + d[2] + g <= MaxPos
<1>1. d \in Pos \X (1 .. MaxPos) /\ \A g \in GreedyLengths : d[1] + d[2] + g <= MaxPos
  BY SetupsAssumption
<1>2. MaxPos \in Nat /\ SizeMod \in Nat /\ SizeMod > MaxPos
  BY BoundsAssumption
<1>3. GreedyLengths # {} /\ \A g \in GreedyLengths : g \in Nat
  BY <1>2, SetupsAssumption
<1>4. d[1] \in Pos /\ d[1] \in Nat /\ d[2] \in Nat /\ d[2] > 0
  BY <1>1, <1>2 DEF Pos
<1>5. d[1] + d[2] <= MaxPos
  BY <1>1, <1>2, <1>3, <1>4
<1>6. d \in Requests
  BY <1>1, <1>5 DEF Requests
<1>7. Piece(d) = d[1] .. d[1] + d[2] - 1
  BY <1>4 DEF Piece, EndOf
<1> QED
  BY <1>1, <1>2, <1>3, <1>4, <1>5, <1>6, <1>7

\* What need() answers to a demand can be fetched, and is enough.
LEMMA AnswerFetchable ==
    ASSUME Sound(m_svf), NEW x \in Setups, NEW d \in x.demands, NEW greedy \in GreedyLengths
    PROVE  /\ Fetchable(need(d[1], d[2], greedy))
           /\ Piece(d) \subseteq HeldPos \cup Listed(need(d[1], d[2], greedy))
<1>1. /\ d \in Requests /\ d[1] \in Nat /\ d[2] \in Nat /\ greedy \in Nat
      /\ d[1] + d[2] + greedy <= MaxPos
  BY DemandType
<1>2. d[2] > 0 /\ d[1] + d[2] < SizeMod /\ EndOf(d) = d[1] + d[2] /\ d \in Nat \X Nat
  BY <1>1, RequestType
<1> DEFINE answer == need(d[1], d[2], greedy)
           to == d[1] + d[2]
<1>3. Answers(answer, <<d>>, greedy)
  BY <1>1, NeedAnswers
<1>4. Listed(<<d>>) = Piece(d)
  BY <1>2, OneSeek
<1>5. Within(answer, to + greedy)
  <2>1. to \in Nat
    BY <1>1
  <2>2. CASE Starts = {}
    <3> DEFINE k == <<d[1], Larger(greedy, d[2])>>
    <3>1. answer = <<k>>
      BY <2>2 DEF need
    <3>2. k[1] <= to + greedy /\ EndOf(k) <= to + greedy
      BY <1>1 DEF Larger, EndOf
    <3> QED
      BY <3>1, <3>2 DEF Within
  <2>3. CASE Starts # {}
    <3> DEFINE all == Missing(d[1], d[2])
    <3>1. /\ all \in Seeks
          /\ \A i \in DOMAIN all : d[1] <= all[i][1] /\ EndOf(all[i]) <= to
      BY <1>1, <1>2, NeedExact
    <3>2. answer = IF greedy > d[2] /\ all # <<>> THEN _minimise_seek_reads(all, greedy) ELSE all
      BY <2>3 DEF need
    <3> HIDE DEF all, to, answer
    <3>3. Within(_minimise_seek_reads(all, greedy), to + greedy)
      BY <1>1, <2>1, <3>1, MinimiseWithin
    <3>4. Within(all, to + greedy)
      <4> SUFFICES ASSUME NEW i \in DOMAIN all
                   PROVE  all[i][1] <= to + greedy /\ EndOf(all[i]) <= to + greedy
        BY DEF Within
      <4>1. all[i][1] \in Nat /\ all[i][2] \in Nat /\ EndOf(all[i]) = all[i][1] + all[i][2] /\ EndOf(all[i]) <= to
        BY <3>1, SeekAt
      <4> QED
        BY <1>1, <2>1, <4>1
    <3> QED
      BY <3>2, <3>3, <3>4
  <2> QED
    BY <2>2, <2>3
<1> HIDE DEF answer, to
<1>6. answer \in Seeks /\ Apart(answer) /\ Piece(d) \subseteq HeldPos \cup Listed(answer)
  BY <1>3, <1>4 DEF Answers
<1>7. ASSUME NEW i \in DOMAIN answer
      PROVE  answer[i][1] \in Pos /\ answer[i][2] \in 1 .. MaxPos - answer[i][1]
  <2>1. /\ answer[i][1] \in Nat /\ answer[i][2] \in Nat /\ answer[i][2] > 0
        /\ EndOf(answer[i]) = answer[i][1] + answer[i][2] /\ EndOf(answer[i]) <= to + greedy
    BY <1>5, <1>6, SeekAt DEF Apart, Within
  <2>2. answer[i][1] + answer[i][2] <= MaxPos /\ MaxPos \in Nat
    BY <1>1, <2>1, BoundsAssumption DEF to
  <2> QED
    BY <2>1, <2>2 DEF Pos
<1> QED
  BY <1>6, <1>7 DEF Fetchable, answer

(***************************************************************************)
(* The invariant                                                            *)
(***************************************************************************)
ClientState == [at : {"ready", "need", "read", "fetch", "failed"}, demand : Nat \X Nat,
                missed : Seeks, todo : Seeks, served : Nat]

\* Client state k in program x while the positions held are these: what it has
\* demanded is held, or on the list it is about to fetch.
Provided(k, x, held) ==
    /\ k.at # "failed"
    /\ k.at # "ready" => k.demand \in x.demands
    /\ k.at = "fetch" => Fetchable(k.todo) /\ Piece(k.demand) \subseteq held \cup Listed(k.todo)
    /\ k.at = "read" => Piece(k.demand) \subseteq held

ClientInv ==
    /\ ImplInv /\ pc # "lru_punt"
    /\ setup \in Setups
    /\ client \in [Client -> ClientState]
    /\ \A c \in Client : Provided(client[c], setup, Kept)

\* What the theorem takes of the callers: one version of the file, no write from
\* inside a gap up to a block, and nobody punts.
Orderly ==
    /\ AllowGapJoin = FALSE /\ MinLen = 1 /\ Files = {TheFile}
    /\ \A x \in Setups : x.punting = {}

LEMMA ProvidedMore ==
    ASSUME NEW k, NEW x, NEW held, NEW more, Provided(k, x, held), held \subseteq more
    PROVE  Provided(k, x, more)
BY DEF Provided

LEMMA FirstRead ==
    ASSUME NEW todo, Fetchable(todo), todo # <<>>
    PROVE  /\ Head(todo)[1] \in Pos /\ Head(todo)[2] \in 1 .. MaxPos - Head(todo)[1]
           /\ Fetchable(Tail(todo))
           /\ Listed(todo) = Piece(Head(todo)) \cup Listed(Tail(todo))
<1> DEFINE n == Len(todo)
           t == Tail(todo)
<1>1. todo \in Seeks /\ n \in Nat \ {0} /\ DOMAIN todo = 1 .. n
  BY EmptySeq, LenProperties DEF Fetchable, Seeks
<1>2. /\ Head(todo) = todo[1] /\ t \in Seeks /\ Len(t) = n - 1
      /\ \A i \in 1 .. n - 1 : t[i] = todo[i + 1]
  BY <1>1, HeadTailProperties DEF Seeks
<1> HIDE DEF n, t
<1>3. DOMAIN t = 1 .. n - 1
  BY <1>2, LenProperties DEF Seeks
<1>4. 1 \in 1 .. n /\ \A i \in 1 .. n - 1 : i + 1 \in 1 .. n
  BY <1>1
<1>5. \A j \in 1 .. n : j # 1 => j - 1 \in 1 .. n - 1 /\ todo[j] = t[j - 1]
  <2> SUFFICES ASSUME NEW j \in 1 .. n, j # 1 PROVE j - 1 \in 1 .. n - 1 /\ todo[j] = t[j - 1]
    OBVIOUS
  <2>1. j - 1 \in 1 .. n - 1 /\ (j - 1) + 1 = j
    BY <1>1
  <2> QED
    BY <1>2, <2>1
<1>6. Fetchable(t)
  BY <1>1, <1>2, <1>3, <1>4 DEF Fetchable
<1>7. Listed(todo) \subseteq Piece(todo[1]) \cup Listed(t)
  BY <1>1, <1>3, <1>5 DEF Listed
<1>8. Piece(todo[1]) \cup Listed(t) \subseteq Listed(todo)
  <2>1. Piece(todo[1]) \subseteq Listed(todo)
    BY <1>1, <1>4 DEF Listed
  <2>2. \A i \in DOMAIN t : i + 1 \in DOMAIN todo /\ t[i] = todo[i + 1]
    BY <1>1, <1>2, <1>3, <1>4
  <2>3. Listed(t) \subseteq Listed(todo)
    BY <2>2 DEF Listed
  <2> QED
    BY <2>1, <2>3
<1>9. todo[1][1] \in Pos /\ todo[1][2] \in 1 .. MaxPos - todo[1][1]
  BY <1>1, <1>4 DEF Fetchable
<1> QED
  BY <1>2, <1>6, <1>7, <1>8, <1>9 DEF t

(***************************************************************************)
(* The calls of a client                                                    *)
(***************************************************************************)
\* What has() is true of can be read.
LEMMA HasReads ==
    ASSUME Sound(m_svf), NEW fpos \in Pos, NEW len \in 1 .. SizeMod - 1 - fpos, has(fpos, len)
    PROVE  CanRead(fpos, len)
<1> DEFINE s == Locate(fpos)
<1>1. Starts # {} /\ fpos \in Nat /\ len \in Nat /\ fpos + len < SizeMod /\ SizeMod \in Nat
  BY BoundsAssumption DEF has, Pos
<1>2. s \in Starts /\ s <= fpos /\ (fpos + len) % SizeMod <= AfterBlock(s)
  <2>1. s \in Starts /\ s \in Nat
    BY <1>1, LocateType, BlockType DEF Sound
  <2> QED
    BY <1>1, <2>1 DEF has, EndInSize
<1>3. (fpos + len) % SizeMod = fpos + len
  BY <1>1
<1>4. s \in Nat /\ Len(m_svf[s].data) \in Nat /\ AfterBlock(s) = s + Len(m_svf[s].data)
  BY <1>2, SoundBlock DEF Starts, AfterBlock
<1> HIDE DEF s
<1>5. fpos - s + len <= Len(m_svf[s].data) /\ fpos - s + len \in 0 .. SizeMod - 1
  BY <1>1, <1>2, <1>3, <1>4
<1>6. EndInSize(fpos - s, len) = fpos - s + len
  BY <1>1, <1>5 DEF EndInSize
<1> QED
  BY <1>2, <1>5, <1>6 DEF CanRead, s

\* What is fetched and written is held, from the first step of the write on.
LEMMA WriteStores ==
    ASSUME ImplInv, NEW f \in Files, Files = {f}, AllowGapJoin = FALSE, NEW seek,
           seek[1] \in Pos, seek[2] \in 1 .. MaxPos - seek[1],
           write(seek[1], Fetch(f, seek[1], seek[2]))
    PROVE  ret' = "ok" /\ Piece(seek) \subseteq Kept'
<1> DEFINE data == Fetch(f, seek[1], seek[2])
<1>1. seek[2] \in 0 .. MaxPos - seek[1] /\ seek[2] > 0 /\ seek[1] + seek[2] <= MaxPos
  BY BoundsAssumption DEF Pos
<1>2. data \in Seq(Byte) /\ Len(data) = seek[2]
  BY <1>1, FetchType
<1>3. FileInv /\ TypeInv /\ BlockInv /\ FrameEmpty
  BY DEF ImplInv, FileInv
<1>4. ret' = "ok"
  BY <1>3, WriteAgrees
<1>5. Stored(seek[1], seek[2])
  <2>1. (ret' = "diff" /\ Kept' = Kept) \/ Stored(seek[1], Len(data))
    BY <1>1, <1>2, <1>3, KeptWrite
  <2> HIDE DEF data
  <2> QED
    BY <1>2, <1>4, <2>1
<1> QED
  BY <1>4, <1>5 DEF Stored, Piece, Span, EndOf

\* No step of this system takes away anything that is held.
LEMMA ClientKeeps ==
    ASSUME Orderly, ClientInv, [ClientNext]_clientVars
    PROVE  [Next]_vars /\ Kept \subseteq Kept' /\ pc' # "lru_punt" /\ setup' = setup
<1>1. /\ ImplInv /\ FileInv /\ TypeInv /\ BlockInv /\ FrameEmpty /\ pc # "lru_punt"
      /\ setup \in Setups /\ Files = {TheFile} /\ AllowGapJoin = FALSE /\ MinLen = 1
      /\ client \in [Client -> ClientState]
  BY DEF Orderly, ClientInv, ImplInv, FileInv
<1>2. ~NewAppendOldThrow /\ ~AppendThrow
  BY <1>1, NothingThrown DEF Agreed
<1>3. CASE UNCHANGED vars /\ setup' = setup
  BY <1>1, <1>3 DEF vars, Kept
<1>4. ASSUME Continue, setup' = setup
      PROVE  [Next]_vars /\ Kept \subseteq Kept' /\ pc' # "lru_punt" /\ setup' = setup
  <2>1. Loop
    BY <1>4 DEF Continue
  <2>2. ~PuntBlock /\ ~PuntEnd
    BY <1>1 DEF PuntBlock, PuntEnd
  <2>3. \/ NewAppendOldTail \/ NewAppendOldRest \/ NewAppendOldContinue
        \/ AppendRest \/ AppendCoalesce \/ AppendEnd
    BY <1>2, <2>1, <2>2 DEF Loop
  <2>4. Kept' = Kept
    BY <1>1, <2>3, KeptNewAppendOld, KeptAppendRest, KeptAppendCoalesce, KeptAppendEnd
  <2>5. pc' # "lru_punt"
    BY <1>1, <2>3 DEF NewAppendOldTail, NewAppendOldRest, NewAppendOldContinue,
                      AppendRest, AppendCoalesce, AppendEnd, EndWrite
  <2> QED
    BY <1>4, <2>1, <2>4, <2>5 DEF Next
<1>5. ASSUME NEW c \in Client, NEW f \in Files, GetAndWrite(c, f), setup' = setup
      PROVE  [Next]_vars /\ Kept \subseteq Kept' /\ pc' # "lru_punt" /\ setup' = setup
  <2> DEFINE seek == Head(client[c].todo)
  <2>1. /\ client[c].at = "fetch" /\ pc = "idle" /\ client[c].todo # <<>>
        /\ write(seek[1], Fetch(f, seek[1], seek[2]))
    BY <1>5 DEF GetAndWrite, At, get
  <2>2. Fetchable(client[c].todo)
    BY <2>1 DEF ClientInv, Provided
  <2>3. seek[1] \in Pos /\ seek[2] \in 1 .. MaxPos - seek[1]
    BY <2>1, <2>2, FirstRead
  <2> HIDE DEF seek
  <2>4. seek[2] \in MinLen .. MaxPos - seek[1] /\ seek[2] \in 0 .. MaxPos - seek[1]
        /\ seek[2] > 0 /\ seek[1] + seek[2] <= MaxPos
    BY <1>1, <2>3, BoundsAssumption DEF Pos
  <2>5. Next
    BY <2>1, <2>3, <2>4 DEF Next, Call
  <2>6. /\ Fetch(f, seek[1], seek[2]) \in Seq(Byte)
        /\ Len(Fetch(f, seek[1], seek[2])) = seek[2]
    BY <2>3, <2>4, FetchType
  <2>7. Kept \subseteq Kept'
    BY <1>1, <2>1, <2>3, <2>4, <2>6, KeptWrite DEF Stored
  <2>8. pc' # "lru_punt"
    BY <2>1 DEF write, _write_new_block, BeginNewAppendOld, BeginAppendNewToOld
  <2> QED
    BY <1>5, <2>5, <2>7, <2>8
<1>6. ASSUME NEW c \in Client, Read(c) \/ ReadFails(c), setup' = setup
      PROVE  [Next]_vars /\ Kept \subseteq Kept' /\ pc' # "lru_punt" /\ setup' = setup
  <2> DEFINE d == client[c].demand
  <2>1. client[c].at = "read" /\ pc = "idle" /\ (read(d[1], d[2]) \/ readThrows(d[1], d[2]))
    BY <1>6 DEF Read, ReadFails, At
  <2>2. d \in setup.demands
    BY <2>1 DEF ClientInv, Provided
  <2>3. d[1] \in Pos /\ d[2] \in 0 .. MaxPos - d[1]
    BY <1>1, <2>2, DemandType
  <2> HIDE DEF d
  <2>4. Next
    BY <2>1, <2>3 DEF Next, Call
  <2>5. Kept' = Kept
    <3>1. CASE read(d[1], d[2])
      BY <1>1, <2>3, <3>1, KeptRead
    <3>2. CASE readThrows(d[1], d[2])
      BY <3>2 DEF readThrows, Kept
    <3> QED
      BY <2>1, <3>1, <3>2
  <2>6. pc' = pc
    BY <2>1 DEF read, readThrows
  <2> QED
    BY <1>1, <1>6, <2>4, <2>5, <2>6
<1>7. ~Punt
  BY <1>1 DEF Punt, Orderly
<1>8. ASSUME NEW c \in Client, ClientStep(c), setup' = setup
      PROVE  [Next]_vars /\ Kept \subseteq Kept' /\ pc' # "lru_punt" /\ setup' = setup
  <2>1. ASSUME \/ \E d \in setup.demands : Demand(c, d)
               \/ \E greedy \in GreedyLengths : Need(c, greedy)
               \/ CheckHas(c)
        PROVE  UNCHANGED vars
    BY <2>1 DEF Demand, Need, CheckHas
  <2> QED
    BY <1>3, <1>5, <1>6, <1>8, <2>1 DEF ClientStep
<1> QED
  BY <1>3, <1>4, <1>7, <1>8 DEF ClientNext, clientVars

(***************************************************************************)
(* A client only changes its own state                                      *)
(***************************************************************************)
LEMMA OwnStep ==
    ASSUME Orderly, ClientInv, [ClientNext]_clientVars, NEW c \in Client, NEW k \in ClientState,
           client' = [client EXCEPT ![c] = k], Provided(k, setup, Kept')
    PROVE  /\ client' \in [Client -> ClientState]
           /\ \A e \in Client : Provided(client'[e], setup', Kept')
<1>1. /\ client \in [Client -> ClientState] /\ Kept \subseteq Kept' /\ setup' = setup
      /\ \A e \in Client : Provided(client[e], setup, Kept)
  BY ClientKeeps DEF ClientInv
<1>2. client' \in [Client -> ClientState] /\ client'[c] = k
  BY <1>1
<1>3. ASSUME NEW e \in Client, e # c
      PROVE  Provided(client'[e], setup', Kept')
  <2>1. client'[e] = client[e] /\ Provided(client[e], setup, Kept)
    BY <1>1, <1>3
  <2>2. Provided(client[e], setup, Kept')
    BY <1>1, <2>1, ProvidedMore
  <2> QED
    BY <1>1, <2>1, <2>2
<1> QED
  BY <1>1, <1>2, <1>3

LEMMA ClientStepProvides ==
    ASSUME Orderly, ClientInv, [ClientNext]_clientVars, NEW c \in Client, ClientStep(c)
    PROVE  \E k \in ClientState :
                client' = [client EXCEPT ![c] = k] /\ Provided(k, setup, Kept')
<1> DEFINE own == client[c]
           d   == client[c].demand
<1>1. /\ ImplInv /\ Sound(m_svf) /\ setup \in Setups /\ Kept \subseteq Kept'
      /\ own \in ClientState /\ Provided(own, setup, Kept)
      /\ client \in [Client -> ClientState] /\ Files = {TheFile}
  BY ClientKeeps DEF ClientInv, ImplInv, FileInv, BlockInv, Orderly
<1>2. <<>> \in Seeks
  BY NothingListed
<1>3. pc = "idle" => Kept = HeldPos
  BY <1>1, IdleKept
<1>4. \A e \in setup.demands : /\ e \in Requests /\ e[1] \in Pos /\ e[2] \in 0 .. MaxPos - e[1]
                               /\ e[2] \in 1 .. SizeMod - 1 - e[1]
                               /\ e \in Nat \X Nat /\ Piece(e) = e[1] .. e[1] + e[2] - 1
  BY <1>1, DemandType, RequestType
<1>5. \A e \in setup.demands : has(e[1], e[2]) <=> Piece(e) \subseteq HeldPos
  <2> SUFFICES ASSUME NEW e \in setup.demands
               PROVE  has(e[1], e[2]) <=> Piece(e) \subseteq HeldPos
    OBVIOUS
  <2> QED
    BY <1>1, <1>4, SoundHas
<1>6. ASSUME NEW e \in setup.demands, Demand(c, e)
      PROVE  \E k \in ClientState :
                client' = [client EXCEPT ![c] = k] /\ Provided(k, setup, Kept')
  <2> DEFINE k == [own EXCEPT !.demand = e, !.at = IF has(e[1], e[2]) THEN "read" ELSE "need"]
  <2>1. pc = "idle" /\ client' = [client EXCEPT ![c] = k]
    BY <1>6 DEF Demand, At
  <2>2. k \in ClientState /\ k.demand = e /\ k.at = IF has(e[1], e[2]) THEN "read" ELSE "need"
    BY <1>1, <1>4 DEF ClientState
  <2>3. k.at = "read" => Piece(e) \subseteq Kept'
    BY <1>1, <1>3, <1>5, <2>1, <2>2
  <2> HIDE DEF k
  <2>4. Provided(k, setup, Kept')
    BY <2>2, <2>3 DEF Provided
  <2> QED
    BY <2>1, <2>2, <2>4
<1>7. ASSUME NEW greedy \in GreedyLengths, Need(c, greedy)
      PROVE  \E k \in ClientState :
                client' = [client EXCEPT ![c] = k] /\ Provided(k, setup, Kept')
  <2> DEFINE answer == need(d[1], d[2], greedy)
             k == [own EXCEPT !.at = "fetch", !.missed = answer, !.todo = answer]
  <2>1. pc = "idle" /\ own.at = "need" /\ client' = [client EXCEPT ![c] = k]
    BY <1>7 DEF Need, At
  <2>2. d \in setup.demands
    BY <1>1, <2>1 DEF Provided
  <2>3. Fetchable(answer) /\ Piece(d) \subseteq HeldPos \cup Listed(answer)
    BY <1>1, <2>2, AnswerFetchable
  <2> HIDE DEF answer
  <2>4. /\ k \in ClientState /\ k.demand = d /\ k.at = "fetch" /\ k.todo = answer
    BY <1>1, <2>3 DEF ClientState, Fetchable
  <2>5. Piece(d) \subseteq Kept' \cup Listed(answer)
    BY <1>1, <1>3, <2>1, <2>3
  <2> HIDE DEF k, d
  <2>6. Provided(k, setup, Kept')
    BY <2>2, <2>3, <2>4, <2>5 DEF Provided
  <2> QED
    BY <2>1, <2>4, <2>6
<1>8. ASSUME NEW f \in Files, GetAndWrite(c, f)
      PROVE  \E k \in ClientState :
                client' = [client EXCEPT ![c] = k] /\ Provided(k, setup, Kept')
  <2> DEFINE todo == own.todo
             seek == Head(own.todo)
             k == [own EXCEPT !.at = "fetch", !.todo = Tail(own.todo)]
  <2>1. /\ pc = "idle" /\ own.at = "fetch" /\ todo # <<>> /\ client' = [client EXCEPT ![c] = k]
        /\ write(seek[1], Fetch(f, seek[1], seek[2]))
    BY <1>8 DEF GetAndWrite, At, Go, get
  <2>2. Fetchable(todo) /\ Piece(d) \subseteq Kept \cup Listed(todo) /\ d \in setup.demands
    BY <1>1, <2>1 DEF Provided
  <2>3. /\ seek[1] \in Pos /\ seek[2] \in 1 .. MaxPos - seek[1] /\ Fetchable(Tail(todo))
        /\ Listed(todo) = Piece(seek) \cup Listed(Tail(todo))
    BY <2>1, <2>2, FirstRead
  <2>4. k \in ClientState /\ k.demand = d /\ k.at = "fetch" /\ k.todo = Tail(todo)
    BY <1>1, <2>3 DEF ClientState, Fetchable
  <2>5. Piece(seek) \subseteq Kept'
    <3> HIDE DEF seek
    <3>1. ImplInv /\ Files = {f} /\ AllowGapJoin = FALSE
      BY <1>1 DEF Orderly
    <3> QED
      BY <2>1, <2>3, <3>1, WriteStores
  <2>6. Piece(d) \subseteq Kept' \cup Listed(Tail(todo))
    BY <1>1, <2>2, <2>3, <2>5
  <2> HIDE DEF k, d, todo
  <2>7. Provided(k, setup, Kept')
    BY <2>2, <2>3, <2>4, <2>6 DEF Provided
  <2> QED
    BY <2>1, <2>4, <2>7
<1>9. ASSUME CheckHas(c)
      PROVE  \E k \in ClientState :
                client' = [client EXCEPT ![c] = k] /\ Provided(k, setup, Kept')
  <2> DEFINE k == [own EXCEPT !.at = IF has(d[1], d[2]) THEN "read" ELSE "failed", !.todo = <<>>]
  <2>1. /\ pc = "idle" /\ own.at = "fetch" /\ own.todo = <<>>
        /\ client' = [client EXCEPT ![c] = k]
    BY <1>9 DEF CheckHas, At, Go
  <2>2. Piece(d) \subseteq Kept /\ d \in setup.demands
    BY <1>1, <2>1, NothingListed DEF Provided
  <2>3. has(d[1], d[2])
    BY <1>3, <1>5, <2>1, <2>2
  <2>4. k \in ClientState /\ k.demand = d /\ k.at = "read"
    BY <1>1, <1>2, <2>3 DEF ClientState
  <2> HIDE DEF k, d
  <2>5. Provided(k, setup, Kept')
    BY <1>1, <2>2, <2>4 DEF Provided
  <2> QED
    BY <2>1, <2>4, <2>5
<1>10. ASSUME Read(c)
       PROVE  \E k \in ClientState :
                client' = [client EXCEPT ![c] = k] /\ Provided(k, setup, Kept')
  <2> DEFINE k == [at |-> "ready", demand |-> NoDemand, missed |-> <<>>, todo |-> <<>>,
                   served |-> own.served + 1]
  <2>1. client' = [client EXCEPT ![c] = k]
    BY <1>10 DEF Read
  <2>2. k \in ClientState /\ k.at = "ready"
    BY <1>1, <1>2 DEF ClientState, NoDemand
  <2> HIDE DEF k
  <2>3. Provided(k, setup, Kept')
    BY <2>2 DEF Provided
  <2> QED
    BY <2>1, <2>2, <2>3
\* What is held can be read.
<1>11. ASSUME ReadFails(c)
       PROVE  FALSE
  <2>1. pc = "idle" /\ own.at = "read" /\ ~CanRead(d[1], d[2])
    BY <1>11 DEF ReadFails, At, readThrows
  <2>2. Piece(d) \subseteq Kept /\ d \in setup.demands
    BY <1>1, <2>1 DEF Provided
  <2>3. has(d[1], d[2])
    BY <1>3, <1>5, <2>1, <2>2
  <2>4. CanRead(d[1], d[2])
    BY <1>1, <1>4, <2>2, <2>3, HasReads
  <2> QED
    BY <2>1, <2>4
<1> QED
  BY <1>6, <1>7, <1>8, <1>9, <1>10, <1>11 DEF ClientStep

(***************************************************************************)
(* The theorem                                                              *)
(***************************************************************************)
LEMMA ClientInvInit == ClientInit => ClientInv
<1> SUFFICES ASSUME ClientInit PROVE ClientInv
  OBVIOUS
<1>1. Init /\ setup \in Setups
  BY DEF ClientInit
<1>2. ImplInv /\ pc # "lru_punt"
  BY <1>1, FileInit DEF ImplInv, FrameEmpty, Init, NoWrite
<1>3. <<>> \in Seeks
  BY NothingListed
<1> DEFINE k == [at |-> "ready", demand |-> NoDemand, missed |-> <<>>, todo |-> <<>>, served |-> 0]
<1>4. k \in ClientState /\ k.at = "ready"
  BY <1>3 DEF ClientState, NoDemand
<1>5. client = [c \in Client |-> k]
  BY DEF ClientInit
<1> HIDE DEF k
<1>6. client \in [Client -> ClientState] /\ \A c \in Client : Provided(client[c], setup, Kept)
  BY <1>4, <1>5 DEF Provided
<1> QED
  BY <1>1, <1>2, <1>6 DEF ClientInv

LEMMA ClientInvNext ==
    ASSUME Orderly
    PROVE  ClientInv /\ [ClientNext]_clientVars => ClientInv'
<1> SUFFICES ASSUME ClientInv, [ClientNext]_clientVars PROVE ClientInv'
  OBVIOUS
<1>1. [Next]_vars /\ Kept \subseteq Kept' /\ pc' # "lru_punt" /\ setup' = setup
  BY ClientKeeps
<1>2. ImplInv'
  <2>1. /\ AllowGapJoin = FALSE /\ MinLen = 1 /\ Agreed /\ FileInv /\ FrameEmpty /\ TypeInv
    BY DEF Orderly, Agreed, ClientInv, ImplInv, FileInv
  <2> QED
    BY <1>1, <2>1, FileNext, FrameEmptyNext DEF ImplInv
<1>3. /\ client' \in [Client -> ClientState]
      /\ \A e \in Client : Provided(client'[e], setup', Kept')
  <2>1. ASSUME NEW c \in Client, ClientStep(c)
        PROVE  /\ client' \in [Client -> ClientState]
               /\ \A e \in Client : Provided(client'[e], setup', Kept')
    BY <2>1, ClientStepProvides, OwnStep
  <2>2. CASE client' = client
    BY <1>1, <2>2, ProvidedMore DEF ClientInv
  <2> QED
    BY <2>1, <2>2 DEF ClientNext, Continue, Punt, clientVars
<1> QED
  BY <1>1, <1>2, <1>3 DEF ClientInv

\* Client.run never fails, neither at the has() after it has fetched everything nor
\* at the read: whatever several threads demand, with whatever greedy lengths, and
\* however they write over each other's data in between.  Nobody punts, and
\* no write starts inside a gap and reaches the block after it: run gap shows why.
THEOREM SequenceAlwaysSucceeds ==
    ASSUME AllowGapJoin = FALSE, MinLen = 1, NEW f, Files = {f},
           \A x \in Setups : x.punting = {}
    PROVE  ClientSpec => []SequenceSucceeds
<1>1. Orderly
  BY DEF Orderly, TheFile
<1>2. ClientInv => SequenceSucceeds
  BY DEF ClientInv, Provided, SequenceSucceeds, Failed
<1>3. ClientInv /\ [ClientNext]_clientVars => ClientInv'
  BY <1>1, ClientInvNext
<1> QED
  BY <1>2, <1>3, ClientInvInit, PTL DEF ClientSpec

(***************************************************************************)
(* Punting.  What a client has written since need() told it that nothing of *)
(* its demand was held sits in the block that was touched last, and before  *)
(* that in the block the write will touch last.                             *)
(***************************************************************************)
Newest(m, s) == \A t \in DOMAIN m \ {s} : m[t].block_touch < m[s].block_touch

Fresh(d) ==
    /\ Piece(d) \subseteq Kept
    /\ pc \in {"idle", "lru_punt"} =>
            \E s \in Starts : s <= d[1] /\ d[1] < AfterBlock(s) /\ Newest(m_svf, s)
    /\ pc = "new_append_old" =>
            w.start = d[1] /\ \A s \in Starts : m_svf[s].block_touch < w.touch
    /\ pc = "append_new_to_old" => w.start <= d[1] /\ d[1] <= AfterBlock(w.start)

\* What the theorem takes: one version of the file, no write from inside a gap up to
\* a block, and a touch counter that has not wrapped around.
Steady == AllowGapJoin = FALSE /\ MinLen = 1 /\ Files = {TheFile} /\ MaxTouch < TouchMod

\* A stretch that is held lies in one block.
LEMMA InOneBlock ==
    ASSUME NEW m, Sound(m), NEW a \in Nat, NEW b \in Nat, a < b, Span(a, b) \subseteq Covered(m),
           NEW s \in DOMAIN m, s <= a, a <= End(m, s)
    PROVE  a < End(m, s) /\ b <= End(m, s)
<1>1. \A u \in DOMAIN m : u \in Nat /\ End(m, u) \in Nat /\ u < End(m, u)
  BY SoundBlock
<1>2. \A u, v \in DOMAIN m : u < v => End(m, u) < v
  BY DEF Sound
<1>3. ASSUME NEW q \in Span(a, b) PROVE \E u \in DOMAIN m : u <= q /\ q < End(m, u)
  <2>1. PICK u \in DOMAIN m : q \in Span(u, End(m, u))
    BY <1>3 DEF Covered
  <2> QED
    BY <1>1, <2>1 DEF Span
<1>4. a < End(m, s)
  <2>1. SUFFICES ASSUME a = End(m, s) PROVE FALSE
    BY <1>1
  <2>2. a \in Span(a, b)
    BY DEF Span
  <2>3. PICK u \in DOMAIN m : u <= a /\ a < End(m, u)
    BY <1>3, <2>2
  <2> QED
    BY <1>1, <1>2, <2>1, <2>3
<1>5. b <= End(m, s)
  <2>1. SUFFICES ASSUME End(m, s) < b PROVE FALSE
    BY <1>1
  <2>2. End(m, s) \in Span(a, b)
    BY <1>1, <1>4, <2>1 DEF Span
  <2>3. PICK u \in DOMAIN m : u <= End(m, s) /\ End(m, s) < End(m, u)
    BY <1>3, <2>2
  <2>4. End(m, s) \in Nat /\ u \in Nat /\ End(m, u) \in Nat /\ s \in Nat
    BY <1>1
  <2>5. u = s \/ u < s \/ s < u
    BY <2>4
  <2> QED
    BY <1>1, <1>2, <2>3, <2>4, <2>5
<1> QED
  BY <1>4, <1>5

\* A demand that a client may have.
IsDemand(d) == \E x \in Setups : d \in x.demands

LEMMA DemandPiece ==
    ASSUME NEW d, IsDemand(d)
    PROVE  /\ d[1] \in Nat /\ d[2] \in Nat /\ d[2] > 0 /\ d[1] \in Pos
           /\ d[2] \in 1 .. MaxPos - d[1] /\ d[2] \in 0 .. MaxPos - d[1]
           /\ d[2] \in 1 .. SizeMod - 1 - d[1]
           /\ d \in Nat \X Nat
           /\ Piece(d) = Span(d[1], d[1] + d[2]) /\ Piece(d) = d[1] .. d[1] + d[2] - 1
<1>1. PICK x \in Setups : d \in x.demands
  BY DEF IsDemand
<1>2. /\ d \in Requests /\ d[1] \in Pos /\ d[1] \in Nat /\ d[2] \in Nat
      /\ d[2] \in 0 .. MaxPos - d[1] /\ d[2] \in 1 .. SizeMod - 1 - d[1]
      /\ Piece(d) = d[1] .. d[1] + d[2] - 1
  BY <1>1, DemandType
<1>3. d[2] > 0 /\ d \in Nat \X Nat
  BY <1>2, RequestType
<1>4. d[2] \in 1 .. MaxPos - d[1]
  BY <1>2, <1>3, BoundsAssumption
<1> QED
  BY <1>2, <1>3, <1>4 DEF Span

\* Fresh data can be read.
LEMMA FreshHas ==
    ASSUME ImplInv, pc = "idle", NEW d, IsDemand(d), Fresh(d)
    PROVE  has(d[1], d[2]) /\ CanRead(d[1], d[2])
<1>1. Kept = HeldPos /\ Sound(m_svf)
  BY IdleKept DEF ImplInv, FileInv, BlockInv
<1>2. d[1] \in Pos /\ d[2] \in 1 .. SizeMod - 1 - d[1] /\ Piece(d) = d[1] .. d[1] + d[2] - 1
  BY DemandPiece
<1>3. Piece(d) \subseteq HeldPos
  BY <1>1 DEF Fresh
<1>4. has(d[1], d[2])
  BY <1>1, <1>2, <1>3, SoundHas
<1> QED
  BY <1>1, <1>2, <1>4, HasReads

\* Writing the demand makes it fresh.
LEMMA FreshWrite ==
    ASSUME Steady, ImplInv, ImplInv', PuntInv, NEW d, IsDemand(d), NEW f \in Files,
           write(d[1], Fetch(f, d[1], d[2]))
    PROVE  Fresh(d)'
<1> DEFINE data == Fetch(f, d[1], d[2])
           base == Locate(d[1])
<1>1. /\ d[1] \in Nat /\ d[1] \in Pos /\ d[2] \in 1 .. MaxPos - d[1] /\ d[2] \in 0 .. MaxPos - d[1]
      /\ d[2] > 0 /\ d[2] \in Nat
  BY DemandPiece
<1>2. ret' = "ok" /\ Piece(d) \subseteq Kept'
  BY <1>1, WriteStores DEF Steady
<1>3. data \in Seq(Byte) /\ Len(data) = d[2]
  BY <1>1, FetchType
<1>4. /\ Distinct(m_svf, m_block_touch) /\ Sound(m_svf) /\ Sound(m_svf') /\ BlocksOK(m_svf)
      /\ TypeInv
  BY TypeInvBlocks DEF PuntInv, TouchInv, ImplInv, FileInv, BlockInv
<1> HIDE DEF data, base
<1>5. CASE _write_new_block(d[1], data)
  <2>1. m_svf' = With(m_svf, d[1], data, m_block_touch) /\ pc' = "idle"
    BY <1>4, <1>5 DEF _write_new_block, write
  <2>2. /\ DOMAIN m_svf' = Starts \cup {d[1]} /\ m_svf'[d[1]].block_touch = m_block_touch
        /\ \A s \in Starts \ {d[1]} : m_svf'[s] = m_svf[s]
    BY <2>1 DEF With, Starts
  <2>3. Newest(m_svf', d[1])
    BY <1>4, <2>2 DEF Newest, Distinct, Starts
  <2>4. d[1] < AfterBlock(d[1])'
    BY <1>4, <2>2, SoundBlock DEF AfterBlock, End
  <2> QED
    BY <1>1, <1>2, <2>1, <2>2, <2>3, <2>4 DEF Fresh, Starts
<1>6. CASE BeginNewAppendOld(d[1], data)
  <2>1. /\ pc' = "new_append_old" /\ w'.start = d[1] /\ w'.touch = m_block_touch
        /\ m_svf' = m_svf
    BY <1>6 DEF BeginNewAppendOld
  <2> QED
    BY <1>2, <1>4, <2>1 DEF Fresh, Distinct, Starts
<1>7. CASE /\ ~IsNewBlock(d[1], d[2]) /\ ~(base > d[1])
           /\ BeginAppendNewToOld(base, d[1], data)
  <2>1. pc' = "append_new_to_old" /\ w'.start = base /\ m_svf' = m_svf
    BY <1>2, <1>7 DEF BeginAppendNewToOld
  <2>2. Starts # {}
    BY <1>7 DEF IsNewBlock
  <2>3. base \in Nat /\ AfterBlock(base) \in Nat
    BY <1>1, <1>4, <2>2, LocateType, BlockType DEF base
  <2>4. base <= d[1] /\ d[1] <= AfterBlock(base)
    BY <1>1, <1>7, <2>3 DEF IsNewBlock, BeyondBlock, base
  <2> QED
    BY <1>2, <2>1, <2>4 DEF Fresh, AfterBlock
<1> QED
  BY <1>3, <1>5, <1>6, <1>7 DEF write, data, base

\* The first loop: the block it inserts starts where the demand starts, with the
\* touch the write has reserved.
LEMMA FreshNewAppendOld ==
    ASSUME Steady, ImplInv, ImplInv', NEW d, IsDemand(d), Fresh(d),
           NewAppendOldTail \/ NewAppendOldRest \/ NewAppendOldContinue
    PROVE  Fresh(d)'
<1>1. /\ pc = "new_append_old" /\ TypeInv /\ BlockInv /\ Sound(m_svf') /\ w \in WriteFrame
      /\ Piece(d) \subseteq Kept
      /\ w.start = d[1] /\ \A s \in Starts : m_svf[s].block_touch < w.touch
  BY DEF NewAppendOldTail, NewAppendOldRest, NewAppendOldContinue, ImplInv, FileInv,
         BlockInv, TypeInv, TypeOK, Fresh
<1>2. Kept' = Kept
  BY <1>1, KeptNewAppendOld
<1> DEFINE rest == Without(m_svf, NextBlock)
<1>3. DOMAIN rest \subseteq Starts /\ \A s \in DOMAIN rest : rest[s] = m_svf[s]
  BY DEF Without, Starts
<1> HIDE DEF rest
<1>4. CASE NewAppendOldContinue
  <2>1. /\ pc' = pc /\ m_svf' = rest /\ w'.start = w.start /\ w'.touch = w.touch
    BY <1>1, <1>4 DEF NewAppendOldContinue, rest, WriteFrame
  <2> QED
    BY <1>1, <1>2, <1>3, <2>1 DEF Fresh, Starts
<1>5. CASE NewAppendOldTail \/ NewAppendOldRest
  <2>1. PICK data : m_svf' = With(rest, w.start, data, w.touch) /\ pc' = "idle"
    BY <1>5 DEF NewAppendOldTail, NewAppendOldRest, EndWrite, rest
  <2>2. /\ DOMAIN m_svf' = DOMAIN rest \cup {d[1]} /\ m_svf'[d[1]].block_touch = w.touch
        /\ \A s \in DOMAIN rest \ {d[1]} : m_svf'[s] = m_svf[s]
    BY <1>1, <1>3, <2>1 DEF With
  <2>3. Newest(m_svf', d[1])
    BY <1>1, <1>3, <2>2 DEF Newest
  <2>4. d[1] < AfterBlock(d[1])'
    BY <1>1, <2>2, SoundBlock DEF AfterBlock, End
  <2>5. d[1] <= d[1]
    BY DemandPiece
  <2> QED
    BY <1>1, <1>2, <2>1, <2>2, <2>3, <2>4, <2>5 DEF Fresh, Starts
<1> QED
  BY <1>4, <1>5

\* The other loop: the block that grows over the demand is touched at the end.
LEMMA FreshAppend ==
    ASSUME Steady, ImplInv, ImplInv', PuntInv, NEW d, IsDemand(d), Fresh(d),
           AppendRest \/ AppendCoalesce \/ AppendEnd
    PROVE  Fresh(d)'
<1>1. /\ pc = "append_new_to_old" /\ TypeInv /\ BlockInv /\ FrameEmpty /\ Sound(m_svf)
      /\ Sound(m_svf') /\ w \in WriteFrame /\ Distinct(m_svf, m_block_touch)
      /\ Piece(d) \subseteq Kept /\ w.start <= d[1] /\ d[1] <= AfterBlock(w.start)
  BY DEF AppendRest, AppendCoalesce, AppendEnd, ImplInv, FileInv, BlockInv, TypeInv, TypeOK,
         PuntInv, TouchInv, Fresh
<1>2. Kept' = Kept
  BY <1>1, KeptAppendRest, KeptAppendCoalesce, KeptAppendEnd
<1>3. /\ w.start \in Starts /\ w.start \in Nat /\ BaseData \in Seq(Byte)
      /\ AfterBlock(w.start) = w.start + Len(BaseData)
      /\ Len(BaseData) \in Nat /\ Len(w.data) \in Nat /\ w.data \in Seq(Byte)
  BY <1>1, AppendType, FrameType, LenProperties DEF AfterBlock, BaseData
<1>4. d[1] \in Nat /\ d[2] \in Nat /\ d[2] > 0 /\ Piece(d) = Span(d[1], d[1] + d[2])
  BY DemandPiece
\* A base that has grown still reaches the demand.
<1>5. ASSUME NEW m, NEW data \in Seq(Byte), NEW t, m_svf' = With(m, w.start, data, t),
             Len(BaseData) <= Len(data), pc' = pc, w'.start = w.start
      PROVE  Fresh(d)'
  <2>1. AfterBlock(w.start)' = w.start + Len(data)
    BY <1>5 DEF With, AfterBlock
  <2>2. Len(data) \in Nat
    BY LenProperties
  <2>3. d[1] <= w.start + Len(data)
    BY <1>1, <1>3, <1>4, <1>5, <2>2
  <2> QED
    BY <1>1, <1>2, <1>5, <2>1, <2>3 DEF Fresh, AfterBlock
<1>6. CASE AppendRest
  <2> DEFINE data == BaseData \o w.data
  <2>1. m_svf' = With(m_svf, w.start, data, BaseTouch) /\ pc' = pc /\ w'.start = w.start
    BY <1>1, <1>6 DEF AppendRest, WriteFrame
  <2>2. data \in Seq(Byte) /\ Len(data) = Len(BaseData) + Len(w.data)
    BY <1>3, ConcatType
  <2> HIDE DEF data
  <2> QED
    BY <1>3, <1>5, <2>1, <2>2
<1>7. CASE AppendCoalesce
  <2> DEFINE n     == AppendCheck
             tail  == IF n = Len(DataAtNext) THEN Drop(NextData, n) ELSE <<>>
             grown == GrownBase \o Take(DataAtNext, n) \o tail
             rest  == Without(m_svf, NextBlock)
  <2>1. /\ w.data # <<>> /\ ReachesNext
        /\ m_svf' = With(rest, w.start, grown, BaseTouch) /\ pc' = pc /\ w'.start = w.start
    BY <1>1, <1>7 DEF AppendCoalesce, WriteFrame
  <2>2. Following(w.start) # {}
    BY <2>1 DEF ReachesNext
  <2>3. n \in Nat /\ n <= Len(DataAtNext) /\ n <= Len(NextData)
    BY <1>1, <2>1, AppendReaches
  <2>4. /\ DataAtNext \in Seq(Byte) /\ NextData \in Seq(Byte) /\ Gap \in Nat
        /\ GrownBase \in Seq(Byte) /\ Len(GrownBase) = Len(BaseData) + Gap
    BY <1>1, <2>2, IterationType, AppendType
  <2> HIDE DEF n
  <2>5. Take(DataAtNext, n) \in Seq(Byte) /\ tail \in Seq(Byte)
    <3>1. Take(DataAtNext, n) \in Seq(Byte) /\ Drop(NextData, n) \in Seq(Byte)
      BY <2>3, <2>4, TakeType, DropType
    <3>2. <<>> \in Seq(Byte)
      OBVIOUS
    <3> QED
      BY <3>1, <3>2
  <2> HIDE DEF tail
  <2>6. /\ grown \in Seq(Byte)
        /\ Len(grown) = Len(GrownBase) + Len(Take(DataAtNext, n)) + Len(tail)
    <3>1. /\ GrownBase \o Take(DataAtNext, n) \in Seq(Byte)
          /\ Len(GrownBase \o Take(DataAtNext, n)) = Len(GrownBase) + Len(Take(DataAtNext, n))
      BY <2>4, <2>5, ConcatType
    <3> QED
      BY <2>5, <3>1, ConcatType
  <2>7. Len(Take(DataAtNext, n)) \in Nat /\ Len(tail) \in Nat
    BY <2>5, LenProperties
  <2> HIDE DEF grown, rest
  <2>8. Len(BaseData) <= Len(grown)
    BY <1>3, <2>4, <2>6, <2>7
  <2> QED
    BY <1>5, <2>1, <2>6, <2>8
<1>8. CASE AppendEnd
  <2>1. PICK b \in Starts : b = w.start
    BY <1>3
  <2>2. /\ m_svf' = With(m_svf, b, BaseData, m_block_touch) /\ pc' = "idle" /\ w' = NoWrite
    BY <1>8, <2>1 DEF AppendEnd, EndWrite
  <2>3. /\ DOMAIN m_svf' = Starts /\ m_svf'[b].block_touch = m_block_touch
        /\ m_svf'[b].data = BaseData
        /\ \A s \in Starts \ {b} : m_svf'[s] = m_svf[s]
    BY <2>2 DEF With, Starts
  <2>4. Newest(m_svf', b)
    BY <1>1, <2>3 DEF Newest, Distinct, Starts
  <2>5. Kept' = Covered(m_svf')
    BY <2>2, KeptBlocks DEF Kept, NoWrite
  <2>6. d[1] < End(m_svf', b)
    <3>1. End(m_svf', b) = AfterBlock(b)
      BY <1>3, <2>1, <2>3 DEF End
    <3>2. d[1] < d[1] + d[2] /\ d[1] + d[2] \in Nat
      BY <1>4
    <3>3. Span(d[1], d[1] + d[2]) \subseteq Covered(m_svf')
      BY <1>1, <1>2, <1>4, <2>5
    <3> QED
      BY <1>1, <1>4, <2>1, <2>3, <3>1, <3>2, <3>3, InOneBlock
  <2>7. AfterBlock(b)' = End(m_svf', b) /\ b \in Starts'
    BY <2>3 DEF AfterBlock, End, Starts
  <2> QED
    BY <1>1, <1>2, <2>1, <2>2, <2>4, <2>6, <2>7 DEF Fresh
<1> QED
  BY <1>6, <1>7, <1>8

\* Punting removes the block touched first, never the only one.
LEMMA FreshPunt ==
    ASSUME Steady, ImplInv, PuntInv, NEW d, IsDemand(d), Fresh(d), PuntBlock
    PROVE  Fresh(d)'
<1>1. /\ pc = "lru_punt" /\ pc' = pc /\ w' = w /\ Cardinality(Starts) > 1
      /\ TypeInv /\ BlockInv /\ FrameEmpty /\ Sound(m_svf)
  BY DEF PuntBlock, PuntsMore, MustPunt, ImplInv, FileInv, BlockInv
<1>2. PICK s \in Starts :
            /\ m_svf' = Without(m_svf, s)
            /\ \A u \in Starts \ {s} : m_svf[s].block_touch < m_svf[u].block_touch
  BY PuntBlockStep
<1>3. PICK n \in Starts : n <= d[1] /\ d[1] < AfterBlock(n) /\ Newest(m_svf, n)
  BY <1>1 DEF Fresh
<1>4. \A u \in Starts : m_svf[u].block_touch \in Nat
  BY <1>1, SoundBlock DEF Starts
<1>5. n # s
  <2>1. SUFFICES ASSUME n = s PROVE FALSE
    OBVIOUS
  <2>2. PICK u \in Starts : u # s
    <3>1. Cardinality(Starts) > 1
      BY <1>1
    <3>2. SUFFICES ASSUME Starts = {s} PROVE FALSE
      BY <1>2
    <3> QED
      BY <3>1, <3>2, FS_Singleton
  <2>3. m_svf[s].block_touch < m_svf[u].block_touch /\ m_svf[u].block_touch < m_svf[s].block_touch
    BY <1>2, <1>3, <2>1, <2>2 DEF Newest, Starts
  <2> QED
    BY <1>4, <2>2, <2>3
<1>6. /\ Starts' = Starts \ {s} /\ DOMAIN m_svf' = Starts \ {s}
      /\ \A u \in Starts \ {s} : m_svf'[u] = m_svf[u]
  BY <1>2 DEF Without, Starts
<1>7. n \in Starts' /\ Newest(m_svf', n) /\ AfterBlock(n)' = AfterBlock(n)
  BY <1>3, <1>5, <1>6 DEF Newest, AfterBlock, Starts
<1>8. Kept' = Kept \ Span(s, AfterBlock(s))
  BY <1>1, <1>2, KeptErased DEF Dropped
<1>9. /\ d[1] \in Nat /\ d[2] \in Nat /\ d[2] > 0 /\ Piece(d) = Span(d[1], d[1] + d[2])
      /\ Piece(d) \subseteq Kept
  BY DemandPiece DEF Fresh
<1>10. Kept = Covered(m_svf)
  <2>1. w.start \in Nat /\ w.fpos \in Nat /\ w.new = <<>> /\ w.data = <<>>
    BY <1>1, FrameType DEF FrameEmpty, Loops
  <2> QED
    BY <2>1, KeptBlocks DEF Kept
<1>11. d[1] + d[2] <= End(m_svf, n)
  <2>1. d[1] < d[1] + d[2] /\ d[1] + d[2] \in Nat /\ d[1] <= End(m_svf, n)
    BY <1>1, <1>3, <1>9, SoundBlock DEF AfterBlock, End, Starts
  <2> QED
    BY <1>1, <1>3, <1>9, <1>10, <2>1, InOneBlock DEF Starts
<1>12. Piece(d) \cap Span(s, AfterBlock(s)) = {}
  <2>1. /\ n \in Nat /\ s \in Nat /\ End(m_svf, n) \in Nat /\ End(m_svf, s) \in Nat
        /\ AfterBlock(s) = End(m_svf, s)
        /\ (n < s => End(m_svf, n) < s) /\ (s < n => End(m_svf, s) < n)
    BY <1>1, SoundBlock DEF Sound, AfterBlock, End, Starts
  <2> QED
    BY <1>3, <1>5, <1>9, <1>11, <2>1 DEF Span
<1> QED
  BY <1>1, <1>3, <1>7, <1>8, <1>9, <1>12 DEF Fresh

LEMMA FreshNext ==
    ASSUME Steady, ImplInv, ImplInv', PuntInv, NEW d, IsDemand(d), Fresh(d),
           Loop \/ UNCHANGED vars \/ \E bound \in 0 .. MaxBound : lru_punt(bound)
    PROVE  Fresh(d)'
<1>1. ~NewAppendOldThrow /\ ~AppendThrow
  BY NothingThrown DEF Steady, ImplInv, Agreed
<1>2. CASE UNCHANGED <<m_svf, w>> /\ pc \in {"idle", "lru_punt"} /\ pc' \in {"idle", "lru_punt"}
  BY <1>2 DEF Fresh, Kept, Starts, AfterBlock
<1>3. CASE UNCHANGED vars
  BY <1>3 DEF Fresh, Kept, Starts, AfterBlock, vars
<1>4. CASE PuntEnd \/ \E bound \in 0 .. MaxBound : lru_punt(bound)
  BY <1>2, <1>4 DEF PuntEnd, lru_punt
<1> QED
  BY <1>1, <1>3, <1>4, FreshNewAppendOld, FreshAppend, FreshPunt DEF Loop

(***************************************************************************)
(* The invariant with a punting thread                                      *)
(***************************************************************************)
Asking(k, c, x) ==
    /\ k.at # "ready" => k.demand \in x.demands /\ c \in x.clients
    /\ k.at \in {"ready", "need"} => k.missed = <<>>
    /\ k.at = "fetch" => Fetchable(k.todo)

\* A client that has been told that all of its demand is missing has still to fetch
\* it, or has written it and finds it fresh.
Spared(k) ==
    k.missed = <<k.demand>> =>
        /\ k.at # "failed"
        /\ k.at = "fetch" => k.todo = <<k.demand>> \/ (k.todo = <<>> /\ Fresh(k.demand))
        /\ k.at = "read" => Fresh(k.demand)

PuntingInv ==
    /\ ImplInv /\ PuntInv
    /\ setup \in Setups
    /\ client \in [Client -> ClientState]
    /\ \A c \in Client : Asking(client[c], c, setup)
    /\ \A c \in Client : setup.clients = {c} => Spared(client[c])

\* A client state that is spared stays so while the other threads work.
LEMMA SparedStays ==
    ASSUME Steady, ImplInv, ImplInv', PuntInv, NEW x \in Setups, NEW c, NEW k, Asking(k, c, x),
           Spared(k), Loop \/ UNCHANGED vars \/ \E bound \in 0 .. MaxBound : lru_punt(bound)
    PROVE  Spared(k)'
<1> SUFFICES ASSUME k.missed = <<k.demand>>
             PROVE  Spared(k)'
  BY DEF Spared
<1>1. k.at # "ready"
  BY DEF Asking
<1>2. IsDemand(k.demand)
  BY <1>1 DEF Asking, IsDemand
<1>3. Fresh(k.demand) => Fresh(k.demand)'
  BY <1>2, FreshNext
<1> QED
  BY <1>3 DEF Spared

LEMMA PuntingCalls ==
    ASSUME Steady, PuntingInv, [ClientNext]_clientVars
    PROVE  /\ [Next]_vars /\ setup' = setup
           /\ \/ \E c \in Client : ClientStep(c) /\ c \in setup.clients
              \/ /\ client' = client
                 /\ Loop \/ UNCHANGED vars \/ \E bound \in 0 .. MaxBound : lru_punt(bound)
<1>1. /\ setup \in Setups /\ client \in [Client -> ClientState] /\ MinLen = 1
      /\ Files = {TheFile} /\ setup.punting \subseteq 0 .. MaxBound
      /\ \A c \in Client : Asking(client[c], c, setup)
  BY SetupsAssumption DEF PuntingInv, Steady
<1>2. ASSUME Punt
      PROVE  client' = client /\ Next /\ \E bound \in 0 .. MaxBound : lru_punt(bound)
  <2>1. PICK bound \in setup.punting : lru_punt(bound)
    BY <1>2 DEF Punt
  <2>2. bound \in 0 .. MaxBound
    BY <1>1
  <2> QED
    BY <1>2, <2>1, <2>2 DEF Punt, Next, Call
<1>3. ASSUME NEW c \in Client, ClientStep(c)
      PROVE  [Next]_vars /\ c \in setup.clients
  <2>1. CASE \/ \E d \in setup.demands : Demand(c, d)
             \/ \E greedy \in GreedyLengths : Need(c, greedy)
             \/ CheckHas(c)
    BY <1>1, <2>1 DEF Demand, Need, CheckHas, At, Asking
  <2>2. ASSUME NEW f \in Files, GetAndWrite(c, f)
        PROVE  [Next]_vars /\ c \in setup.clients
    <3> DEFINE seek == Head(client[c].todo)
    <3>1. /\ client[c].at = "fetch" /\ client[c].todo # <<>>
          /\ write(seek[1], Fetch(f, seek[1], seek[2]))
      BY <2>2 DEF GetAndWrite, At, get
    <3>2. Fetchable(client[c].todo) /\ c \in setup.clients
      BY <1>1, <3>1 DEF Asking
    <3>3. seek[1] \in Pos /\ seek[2] \in 1 .. MaxPos - seek[1]
      BY <3>1, <3>2, FirstRead
    <3> HIDE DEF seek
    <3> QED
      BY <1>1, <3>1, <3>2, <3>3 DEF Next, Call
  <2>3. ASSUME Read(c) \/ ReadFails(c)
        PROVE  [Next]_vars /\ c \in setup.clients
    <3> DEFINE d == client[c].demand
    <3>1. client[c].at = "read" /\ (read(d[1], d[2]) \/ readThrows(d[1], d[2]))
      BY <2>3 DEF Read, ReadFails, At
    <3>2. d \in setup.demands /\ c \in setup.clients
      BY <1>1, <3>1 DEF Asking
    <3>3. d[1] \in Pos /\ d[2] \in 0 .. MaxPos - d[1]
      BY <1>1, <3>2, DemandType
    <3> HIDE DEF d
    <3> QED
      BY <3>1, <3>2, <3>3 DEF Next, Call
  <2> QED
    BY <1>3, <2>1, <2>2, <2>3 DEF ClientStep
<1> QED
  BY <1>2, <1>3 DEF ClientNext, clientVars, Continue, Next

LEMMA ClientStepSpares ==
    ASSUME Steady, PuntingInv, ImplInv', NEW c \in Client, ClientStep(c)
    PROVE  \E k \in ClientState :
                /\ client' = [client EXCEPT ![c] = k]
                /\ Asking(k, c, setup)
                /\ setup.clients = {c} => Spared(k)'
<1>0. PICK own : own = client[c]
  OBVIOUS
<1> DEFINE d == own.demand
<1>1. /\ ImplInv /\ PuntInv /\ Sound(m_svf) /\ setup \in Setups
      /\ own \in ClientState /\ Asking(own, c, setup)
      /\ client \in [Client -> ClientState] /\ Files = {TheFile}
      /\ setup.clients = {c} => Spared(own)
  BY <1>0 DEF PuntingInv, ImplInv, FileInv, BlockInv, Steady
<1>2. <<>> \in Seeks
  BY NothingListed
<1>3. \A e \in setup.demands : e \in Nat \X Nat /\ IsDemand(e)
  BY <1>1, DemandType, RequestType DEF IsDemand
<1>4. ASSUME NEW e \in setup.demands, UNCHANGED vars, Fresh(e)
      PROVE  Fresh(e)'
  BY <1>1, <1>3, <1>4, FreshNext
<1>5. ASSUME NEW e \in setup.demands, Demand(c, e)
      PROVE  \E k \in ClientState :
                /\ client' = [client EXCEPT ![c] = k]
                /\ Asking(k, c, setup)
                /\ setup.clients = {c} => Spared(k)'
  <2>0. PICK k : k = [own EXCEPT !.demand = e, !.at = IF has(e[1], e[2]) THEN "read" ELSE "need"]
    OBVIOUS
  <2>1. own.at = "ready" /\ client' = [client EXCEPT ![c] = k] /\ c \in setup.clients
    BY <1>0, <1>5, <2>0 DEF Demand, At
  <2>2. k \in ClientState /\ k.demand = e /\ k.at \in {"read", "need"} /\ k.missed = own.missed
    BY <2>0, <1>1, <1>3 DEF ClientState
  <2>3. own.missed = <<>> /\ <<>> # <<e>>
    BY <1>1, <2>1 DEF Asking
  <2> QED
    BY <2>1, <2>2, <2>3 DEF Asking, Spared
<1>6. ASSUME NEW greedy \in GreedyLengths, Need(c, greedy)
      PROVE  \E k \in ClientState :
                /\ client' = [client EXCEPT ![c] = k]
                /\ Asking(k, c, setup)
                /\ setup.clients = {c} => Spared(k)'
  <2>0. PICK answer, k : /\ answer = need(d[1], d[2], greedy)
                         /\ k = [own EXCEPT !.at = "fetch", !.missed = answer, !.todo = answer]
    OBVIOUS
  <2>1. own.at = "need" /\ client' = [client EXCEPT ![c] = k]
    BY <1>0, <1>6, <2>0 DEF Need, At
  <2>2. d \in setup.demands /\ c \in setup.clients
    BY <1>1, <2>1 DEF Asking
  <2>3. Fetchable(answer)
    BY <1>1, <2>0, <2>2, AnswerFetchable
  <2>4. /\ k \in ClientState /\ k.demand = d /\ k.at = "fetch" /\ k.todo = answer
        /\ k.missed = answer
    BY <2>0, <1>1, <2>3 DEF ClientState, Fetchable
  <2> HIDE DEF d
  <2> QED
    BY <2>1, <2>2, <2>3, <2>4 DEF Asking, Spared
<1>7. ASSUME NEW f \in Files, GetAndWrite(c, f)
      PROVE  \E k \in ClientState :
                /\ client' = [client EXCEPT ![c] = k]
                /\ Asking(k, c, setup)
                /\ setup.clients = {c} => Spared(k)'
  <2> DEFINE todo == own.todo
             seek == Head(own.todo)
  <2>0. PICK k : k = [own EXCEPT !.at = "fetch", !.todo = Tail(own.todo)]
    OBVIOUS
  <2>1. /\ own.at = "fetch" /\ todo # <<>> /\ client' = [client EXCEPT ![c] = k]
        /\ write(seek[1], Fetch(f, seek[1], seek[2]))
    BY <1>0, <1>7, <2>0 DEF GetAndWrite, At, Go, get
  <2>2. Fetchable(todo) /\ d \in setup.demands /\ c \in setup.clients
    BY <1>1, <2>1 DEF Asking
  <2>3. Fetchable(Tail(todo))
    BY <2>1, <2>2, FirstRead
  <2>4. /\ k \in ClientState /\ k.demand = d /\ k.at = "fetch" /\ k.todo = Tail(todo)
        /\ k.missed = own.missed
    BY <2>0, <1>1, <2>3 DEF ClientState, Fetchable
  <2>5. ASSUME setup.clients = {c}, own.missed = <<d>>
        PROVE  Tail(todo) = <<>> /\ Fresh(d)'
    <3>1. todo = <<d>>
      BY <1>1, <2>1, <2>5 DEF Spared
    <3>2. seek = d /\ Tail(todo) = <<>>
      BY <3>1
    <3>3. IsDemand(d) /\ write(d[1], Fetch(f, d[1], d[2]))
      BY <1>3, <2>1, <2>2, <3>2
    <3> HIDE DEF d
    <3> QED
      BY <1>1, <3>2, <3>3, FreshWrite
  <2> HIDE DEF d, todo
  <2>7. Asking(k, c, setup)
    BY <2>2, <2>3, <2>4 DEF Asking
  <2>8. ASSUME setup.clients = {c} PROVE Spared(k)'
    BY <2>4, <2>5, <2>8 DEF Spared
  <2> QED
    BY <2>1, <2>4, <2>7, <2>8
<1>8. ASSUME CheckHas(c)
      PROVE  \E k \in ClientState :
                /\ client' = [client EXCEPT ![c] = k]
                /\ Asking(k, c, setup)
                /\ setup.clients = {c} => Spared(k)'
  <2>0. PICK k : k = [own EXCEPT !.at = IF has(d[1], d[2]) THEN "read" ELSE "failed", !.todo = <<>>]
    OBVIOUS
  <2>1. /\ pc = "idle" /\ own.at = "fetch" /\ own.todo = <<>> /\ UNCHANGED vars
        /\ client' = [client EXCEPT ![c] = k]
    BY <1>0, <1>8, <2>0 DEF CheckHas, At, Go
  <2>2. d \in setup.demands /\ c \in setup.clients
    BY <1>1, <2>1 DEF Asking
  <2>3. /\ k \in ClientState /\ k.demand = d /\ k.at \in {"read", "failed"}
        /\ k.missed = own.missed /\ (k.at = "failed" => ~has(d[1], d[2]))
    BY <2>0, <1>1, <1>2 DEF ClientState
  <2>4. ASSUME setup.clients = {c}, own.missed = <<d>>
        PROVE  has(d[1], d[2]) /\ Fresh(d)'
    <3>1. Fresh(d)
      BY <1>1, <2>1, <2>4 DEF Spared
    <3>2. has(d[1], d[2])
      BY <1>1, <1>3, <2>1, <2>2, <3>1, FreshHas
    <3> HIDE DEF d
    <3> QED
      BY <1>4, <2>1, <2>2, <3>1, <3>2
  <2> HIDE DEF d
  <2>5. Asking(k, c, setup)
    BY <2>2, <2>3 DEF Asking
  <2>6. ASSUME setup.clients = {c} PROVE Spared(k)'
    BY <2>3, <2>4, <2>6 DEF Spared
  <2> QED
    BY <2>1, <2>3, <2>5, <2>6
<1>9. ASSUME Read(c)
      PROVE  \E k \in ClientState :
                /\ client' = [client EXCEPT ![c] = k]
                /\ Asking(k, c, setup)
                /\ setup.clients = {c} => Spared(k)'
  <2>0. PICK k : k = [at |-> "ready", demand |-> NoDemand, missed |-> <<>>, todo |-> <<>>,
                      served |-> own.served + 1]
    OBVIOUS
  <2>1. client' = [client EXCEPT ![c] = k]
    BY <1>0, <1>9, <2>0 DEF Read
  <2>2. k \in ClientState /\ k.at = "ready" /\ k.missed = <<>>
    BY <2>0, <1>1, <1>2 DEF ClientState, NoDemand
  <2>3. <<>> # <<k.demand>>
    OBVIOUS
  <2> QED
    BY <2>1, <2>2, <2>3 DEF Asking, Spared
\* The read of fresh data does not fail, and of other data it may.
<1>10. ASSUME ReadFails(c)
       PROVE  \E k \in ClientState :
                /\ client' = [client EXCEPT ![c] = k]
                /\ Asking(k, c, setup)
                /\ setup.clients = {c} => Spared(k)'
  <2>0. PICK k : k = [own EXCEPT !.at = "failed", !.todo = <<>>]
    OBVIOUS
  <2>1. /\ pc = "idle" /\ own.at = "read" /\ ~CanRead(d[1], d[2])
        /\ client' = [client EXCEPT ![c] = k]
    BY <1>0, <1>10, <2>0 DEF ReadFails, At, readThrows, Go
  <2>2. d \in setup.demands /\ c \in setup.clients
    BY <1>1, <2>1 DEF Asking
  <2>3. k \in ClientState /\ k.demand = d /\ k.at = "failed" /\ k.missed = own.missed
    BY <2>0, <1>1, <1>2 DEF ClientState
  <2>4. ASSUME setup.clients = {c} PROVE own.missed # <<d>>
    <3>1. SUFFICES ASSUME own.missed = <<d>> PROVE FALSE
      OBVIOUS
    <3>2. Fresh(d)
      BY <1>1, <2>1, <2>4, <3>1 DEF Spared
    <3> QED
      BY <1>1, <1>3, <2>1, <2>2, <3>2, FreshHas
  <2> HIDE DEF d
  <2>5. Asking(k, c, setup)
    BY <2>2, <2>3 DEF Asking
  <2>6. ASSUME setup.clients = {c} PROVE Spared(k)'
    BY <2>3, <2>4, <2>6 DEF Spared
  <2> QED
    BY <2>1, <2>3, <2>5, <2>6
<1> QED
  BY <1>5, <1>6, <1>7, <1>8, <1>9, <1>10 DEF ClientStep

(***************************************************************************)
(* The theorem about punting                                                *)
(***************************************************************************)
LEMMA PuntingInvInit == ClientInit => PuntingInv
<1> SUFFICES ASSUME ClientInit PROVE PuntingInv
  OBVIOUS
<1>1. ImplInv /\ PuntInv /\ setup \in Setups
  BY ClientInvInit, PuntInit DEF ClientInit, ClientInv
<1>2. <<>> \in Seeks
  BY NothingListed
<1> DEFINE k == [at |-> "ready", demand |-> NoDemand, missed |-> <<>>, todo |-> <<>>, served |-> 0]
<1>3. k \in ClientState /\ k.at = "ready" /\ k.missed = <<>> /\ <<>> # <<k.demand>>
  BY <1>2 DEF ClientState, NoDemand
<1>4. client = [c \in Client |-> k]
  BY DEF ClientInit
<1> HIDE DEF k
<1>5. \A c \in Client : client[c] = k
  BY <1>4
<1>6. client \in [Client -> ClientState]
  BY <1>3, <1>4
<1>7. \A c \in Client : Asking(client[c], c, setup) /\ Spared(client[c])
  BY <1>3, <1>5 DEF Asking, Spared
<1> QED
  BY <1>1, <1>6, <1>7 DEF PuntingInv

LEMMA PuntingInvNext ==
    ASSUME Steady
    PROVE  PuntingInv /\ [ClientNext]_clientVars => PuntingInv'
<1> SUFFICES ASSUME PuntingInv, [ClientNext]_clientVars PROVE PuntingInv'
  OBVIOUS
<1>1. /\ ImplInv /\ PuntInv /\ setup \in Setups /\ client \in [Client -> ClientState]
      /\ \A c \in Client : Asking(client[c], c, setup)
      /\ \A c \in Client : setup.clients = {c} => Spared(client[c])
  BY DEF PuntingInv
<1>2. [Next]_vars /\ setup' = setup
  BY PuntingCalls
<1>3. ImplInv' /\ PuntInv'
  <2>1. /\ AllowGapJoin = FALSE /\ MinLen = 1 /\ Agreed /\ FileInv /\ FrameEmpty /\ TypeInv
    BY <1>1 DEF Steady, Agreed, ImplInv, FileInv
  <2>2. FileInv'
    BY <1>2, <2>1, FileNext
  <2>3. FrameEmpty'
    BY <1>2, <2>1, FrameEmptyNext
  <2>4. PuntInv'
    BY <1>1, <1>2, PuntNext DEF Steady
  <2> QED
    BY <2>2, <2>3, <2>4 DEF ImplInv
<1>4. ASSUME NEW c \in Client, ClientStep(c), c \in setup.clients
      PROVE  /\ client' \in [Client -> ClientState]
             /\ \A e \in Client : Asking(client'[e], e, setup')
             /\ \A e \in Client : setup'.clients = {e} => Spared(client[e])'
  <2>1. PICK k \in ClientState :
            /\ client' = [client EXCEPT ![c] = k]
            /\ Asking(k, c, setup)
            /\ setup.clients = {c} => Spared(k)'
    BY <1>3, <1>4, ClientStepSpares
  <2>2. /\ client' \in [Client -> ClientState] /\ client'[c] = k
        /\ \A e \in Client \ {c} : client'[e] = client[e]
    BY <1>1, <2>1
  <2>3. \A e \in Client : Asking(client'[e], e, setup')
    BY <1>1, <1>2, <2>1, <2>2
  <2>4. ASSUME NEW e \in Client, setup'.clients = {e}
        PROVE  Spared(client[e])'
    <3>1. e = c
      BY <1>2, <1>4, <2>4
    <3>2. Spared(k)' /\ client'[e] = k
      BY <1>2, <2>1, <2>2, <2>4, <3>1
    <3> QED
      BY <3>2 DEF Spared
  <2> QED
    BY <2>2, <2>3, <2>4
<1>5. ASSUME client' = client, Loop \/ UNCHANGED vars \/ \E bound \in 0 .. MaxBound : lru_punt(bound)
      PROVE  /\ client' \in [Client -> ClientState]
             /\ \A e \in Client : Asking(client'[e], e, setup')
             /\ \A e \in Client : setup'.clients = {e} => Spared(client[e])'
  <2>1. ASSUME NEW e \in Client, setup.clients = {e}
        PROVE  Spared(client[e])'
    <3>1. PICK k : k = client[e]
      OBVIOUS
    <3>2. Asking(k, e, setup) /\ Spared(k)
      BY <1>1, <2>1, <3>1
    <3>3. Spared(k)'
      BY <1>1, <1>3, <1>5, <3>2, SparedStays
    <3>4. client'[e] = k
      BY <1>5, <3>1
    <3> QED
      BY <3>3, <3>4 DEF Spared
  <2> QED
    BY <1>1, <1>2, <1>5, <2>1
<1>6. /\ client' \in [Client -> ClientState]
      /\ \A e \in Client : Asking(client'[e], e, setup')
      /\ \A e \in Client : setup'.clients = {e} => Spared(client[e])'
  BY <1>4, <1>5, PuntingCalls
<1> QED
  BY <1>1, <1>2, <1>3, <1>6 DEF PuntingInv

\* The only client of a file never misses what need() told it to fetch as a whole,
\* whatever another thread punts and whenever: what it writes is in the block touched
\* last, alone or coalesced with others, and that block is never punted.
THEOREM PuntNeverTakesFreshData ==
    ASSUME AllowGapJoin = FALSE, MinLen = 1, NEW f, Files = {f}, MaxTouch < TouchMod
    PROVE  ClientSpec => []PuntSparesFreshData
<1>1. Steady
  BY DEF Steady, TheFile
<1>2. PuntingInv => PuntSparesFreshData
  BY DEF PuntingInv, Spared, PuntSparesFreshData, Failed
<1>3. PuntingInv /\ [ClientNext]_clientVars => PuntingInv'
  BY <1>1, PuntingInvNext
<1> QED
  BY <1>2, <1>3, PuntingInvInit, PTL DEF ClientSpec

=============================================================================
