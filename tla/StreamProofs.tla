---------------------------- MODULE StreamProofs ----------------------------
(***************************************************************************)
(* The streams of tokens and of characters are cursors on their visible    *)
(* symbols, for sources, lookaheads and nested marks of any length.        *)
(***************************************************************************)
EXTENDS Streams, FiniteSetTheorems, SequenceTheorems, WellFoundedInduction, TLAPS

LEMMA LeastNatural ==
  ASSUME NEW S \in SUBSET Nat, S # {}
  PROVE  \E x \in S : \A y \in S : x <= y
  <1>1. \A x, y \in Nat : << y, x >> \in OpToRel(<, Nat) <=> y < x
    BY DEF OpToRel
  <1>2. PICK R : R = OpToRel(<, Nat)
    OBVIOUS
  <1>3. \A x, y \in Nat : << y, x >> \in R <=> y < x
    BY <1>1, <1>2, Zenon
  <1>4. IsWellFoundedOn(R, Nat)
    BY <1>2, NatLessThanWellFounded, Zenon
  <1>5. PICK x \in S : \A y \in S : ~ (<< y, x >> \in R)
    BY <1>4, WFMin
  <1>6. ASSUME NEW y \in S
        PROVE  x <= y
    <2>1. x \in Nat /\ y \in Nat /\ ~ (<< y, x >> \in R)
      BY <1>5
    <2>2. ~ (y < x)
      BY <1>3, <2>1
    <2>. QED
      BY <2>1, <2>2
  <1>. QED
    BY <1>6

LEMMA MinIs ==
  ASSUME NEW S \in SUBSET Int, NEW m \in S, \A y \in S : m <= y
  PROVE  B!Min(S) = m /\ U!Min(S) = m
  <1>1. \A x \in S : (\A y \in S : x <= y) => x = m
    OBVIOUS
  <1>. QED
    BY <1>1 DEF B!Min, U!Min

LEMMA MaxIs ==
  ASSUME NEW S \in SUBSET Int, NEW m \in S, \A y \in S : y <= m
  PROVE  B!Max(S) = m /\ U!Max(S) = m
  <1>1. \A x \in S : (\A y \in S : x >= y) => x = m
    OBVIOUS
  <1>. QED
    BY <1>1 DEF B!Max, U!Max

\* The smaller and the larger of two numbers.
LEMMA OfTwo ==
  ASSUME NEW a \in Int, NEW b \in Int
  PROVE  /\ B!Min({a, b}) = (IF a <= b THEN a ELSE b) /\ U!Min({a, b}) = (IF a <= b THEN a ELSE b)
         /\ B!Max({a, b}) = (IF a <= b THEN b ELSE a) /\ U!Max({a, b}) = (IF a <= b THEN b ELSE a)
  <1>. DEFINE S == {a, b}
  <1>1. S \in SUBSET Int /\ a \in S /\ b \in S
    OBVIOUS
  <1>2. CASE a <= b
    <2>1. (\A y \in S : a <= y) /\ (\A y \in S : y <= b)
      BY <1>2
    <2>. QED
      BY <1>1, <1>2, <2>1, MinIs, MaxIs
  <1>3. CASE ~ (a <= b)
    <2>1. (\A y \in S : b <= y) /\ (\A y \in S : y <= a)
      BY <1>3
    <2>. QED
      BY <1>1, <1>3, <2>1, MinIs, MaxIs
  <1>. QED
    BY <1>2, <1>3

LEMMA CountedAlike ==
  \A S : B!Cardinality(S) = Cardinality(S)
  BY Zenon DEF B!Cardinality, Cardinality

-----------------------------------------------------------------------------
(* The source: one end of file, at its end, and words of both channels.    *)

Source ==
  /\ eof \in Nat /\ eof <= MaxTokens
  /\ \A i \in 0 .. eof : B!TypeAt(source, i) = B!EOF <=> i = eof
  /\ \A i \in 0 .. eof : On(i) <=> B!ChannelAt(source, i) = B!DefaultChannel
  /\ On(eof)
  /\ reader # "buffered" => \A i \in 0 .. eof : On(i)

LEMMA SourcesEnd ==
  ASSUME NEW channels \in SUBSET {B!DefaultChannel, B!HiddenChannel}, source \in Sources(channels),
         reader # "buffered" => channels = {B!DefaultChannel}
  PROVE  Source
  <1>1. PICK w \in BoundedSeq(channels, MaxTokens) :
          source = Append([n \in 1 .. Len(w) |-> Word(w[n])], EndOfFile)
    BY DEF Sources
  <1>2. w \in Seq(channels) /\ Len(w) \in Nat /\ Len(w) <= MaxTokens
    BY StreamBounds DEF BoundedSeq, SeqOf, StreamBounds
  <1>. DEFINE words == [n \in 1 .. Len(w) |-> Word(w[n])]
              Kinds == {Word(c) : c \in channels} \cup {EndOfFile}
  <1>3. words \in Seq(Kinds) /\ Len(words) = Len(w) /\ \A n \in 1 .. Len(w) : words[n] = Word(w[n])
    BY <1>2
  <1>. HIDE DEF words, Kinds
  <1>4. /\ Len(source) = Len(w) + 1
        /\ source[Len(w) + 1] = EndOfFile
        /\ \A n \in 1 .. Len(w) : source[n] = Word(w[n])
    BY <1>1, <1>2, <1>3, AppendProperties DEF words, Kinds
  <1>5. eof = Len(w) /\ eof \in Nat /\ eof <= MaxTokens
    BY <1>2, <1>4 DEF eof, B!LastIndex
  <1>6. /\ B!TypeAt(source, eof) = B!EOF /\ B!ChannelAt(source, eof) = B!DefaultChannel
        /\ On(eof)
    BY <1>4, <1>5 DEF B!TypeAt, B!ChannelAt, On, B!OnChannel, EndOfFile
  <1>7. ASSUME NEW i \in 0 .. eof, i # eof
        PROVE  /\ B!TypeAt(source, i) # B!EOF
               /\ On(i) <=> B!ChannelAt(source, i) = B!DefaultChannel
               /\ reader # "buffered" => On(i)
    <2>1. i + 1 \in 1 .. Len(w)
      BY <1>2, <1>5, <1>7
    <2>2. source[i + 1] = Word(w[i + 1]) /\ w[i + 1] \in channels
      BY <1>2, <1>4, <2>1, ElementOfSeq
    <2>3. B!TypeAt(source, i) = "ID" /\ B!ChannelAt(source, i) = w[i + 1]
      BY <2>2 DEF B!TypeAt, B!ChannelAt, Word
    <2>4. On(i) <=> B!ChannelAt(source, i) = B!DefaultChannel
      BY <2>3 DEF On, B!OnChannel, B!EOF
    <2>5. reader # "buffered" => w[i + 1] = B!DefaultChannel
      BY <2>2
    <2>. QED
      BY <2>3, <2>4, <2>5 DEF B!EOF
  <1>. QED
    BY <1>5, <1>6, <1>7 DEF Source

-----------------------------------------------------------------------------
(* Ranks.                                                                  *)

Upto(i) == {j \in 0 .. i : On(j)}

LEMMA RankType ==
  ASSUME NEW i \in Int
  PROVE  Rank(i) \in Nat /\ IsFiniteSet(Upto(i)) /\ Rank(i) = Cardinality(Upto(i))
  <1>1. IsFiniteSet(0 .. i)
    BY FS_Interval
  <1>2. Upto(i) \in SUBSET (0 .. i)
    BY DEF Upto
  <1>3. IsFiniteSet(Upto(i))
    BY <1>1, <1>2, FS_Subset
  <1>4. Cardinality(Upto(i)) \in Nat
    BY <1>3, FS_CardinalityType
  <1>. QED
    BY <1>3, <1>4 DEF Rank, Upto

LEMMA RankStep ==
  ASSUME NEW i \in Nat
  PROVE  Rank(i) = IF On(i) THEN Rank(i - 1) + 1 ELSE Rank(i - 1)
  <1>1. i - 1 \in Int /\ i \in Int
    OBVIOUS
  <1>2. CASE On(i)
    <2>1. Upto(i) = Upto(i - 1) \cup {i} /\ i \notin Upto(i - 1)
      BY <1>2 DEF Upto
    <2>. QED
      BY <1>1, <1>2, <2>1, RankType, FS_AddElement
  <1>3. CASE ~ On(i)
    <2>1. Upto(i) = Upto(i - 1)
      BY <1>3 DEF Upto
    <2>. QED
      BY <1>1, <1>3, <2>1, RankType
  <1>. QED
    BY <1>2, <1>3

\* Without symbols between two tokens the rank stays.
LEMMA RankGap ==
  ASSUME NEW i \in Int, NEW j \in Int, -1 <= i, i <= j, \A n \in i + 1 .. j : ~ On(n)
  PROVE  Rank(i) = Rank(j)
  <1>1. Upto(i) = Upto(j)
    BY DEF Upto
  <1>. QED
    BY <1>1, RankType

LEMMA RankMonotonic ==
  ASSUME NEW i \in Int, NEW j \in Int, i <= j
  PROVE  Rank(i) <= Rank(j)
  <1>1. Upto(i) \in SUBSET Upto(j)
    BY DEF Upto
  <1>. QED
    BY <1>1, RankType, FS_Subset

LEMMA RankStrict ==
  ASSUME NEW i \in Int, NEW j \in Nat, i < j, On(j)
  PROVE  Rank(i) < Rank(j)
  <1>1. Rank(i) <= Rank(j - 1)
    BY RankMonotonic
  <1>2. Rank(i) \in Nat /\ Rank(j - 1) \in Nat
    BY RankType
  <1>. QED
    BY <1>1, <1>2, RankStep

LEMMA RankBefore == Rank(-1) = 0
  <1>1. Upto(-1) = {}
    BY DEF Upto
  <1>. QED
    BY <1>1, RankType, FS_EmptySet

\* The rank of a symbol tells which it is.
LEMMA RankTells ==
  ASSUME NEW i \in Nat, NEW j \in Nat, On(i), On(j), Rank(i) = Rank(j)
  PROVE  i = j
  <1>1. Rank(i) \in Nat /\ Rank(j) \in Nat
    BY RankType
  <1>2. ~ (i < j) /\ ~ (j < i)
    BY <1>1, RankStrict
  <1>. QED
    BY <1>2

-----------------------------------------------------------------------------
(* The visible symbols.                                                    *)

Total == Rank(eof)

\* There is a symbol of each rank.
LEMMA RankTaken ==
  ASSUME Source, NEW n \in 1 .. Total
  PROVE  \E i \in 0 .. eof : On(i) /\ Rank(i) = n
  <1>. DEFINE S == {i \in 0 .. eof : Rank(i) >= n}
  <1>1. eof \in Nat /\ eof \in Int /\ Total \in Nat /\ eof \in S
    BY RankType DEF Source, Total
  <1>6. S \in SUBSET Nat /\ S # {}
    BY <1>1
  <1>2. PICK i \in S : \A j \in S : i <= j
    <2>. HIDE DEF S
    <2>. QED
      BY <1>6, LeastNatural
  <1>3. i \in 0 .. eof /\ i \in Nat /\ Rank(i) >= n /\ Rank(i) \in Nat /\ Rank(i - 1) \in Nat
    BY <1>1, <1>2, RankType
  <1>4. Rank(i - 1) < n
    <2>1. CASE i = 0
      BY <2>1, RankBefore
    <2>2. CASE i # 0
      <3>1. i - 1 \in 0 .. eof
        BY <1>1, <1>3, <2>2
      <3>2. i - 1 \notin S
        BY <1>2, <1>3
      <3>. QED
        BY <1>1, <1>3, <3>1, <3>2
    <2>. QED
      BY <2>1, <2>2
  <1>5. On(i) /\ Rank(i) = n
    BY <1>3, <1>4, RankStep
  <1>. QED
    BY <1>3, <1>5

LEMMA VisibleAt ==
  ASSUME Source
  PROVE  /\ Total \in Nat /\ Total >= 1
         /\ Visible \in Seq(0 .. eof) /\ Len(Visible) = Total
         /\ \A n \in 1 .. Total : /\ Visible[n] \in 0 .. eof
                                 /\ On(Visible[n])
                                 /\ Rank(Visible[n]) = n
         /\ \A i \in 0 .. eof : On(i) => Rank(i) \in 1 .. Total /\ Visible[Rank(i)] = i
         /\ Visible[Total] = eof
  <1>. DEFINE At(n) == CHOOSE i \in 0 .. eof : On(i) /\ Rank(i) = n
  <1>1. eof \in Nat /\ eof \in Int /\ On(eof) /\ Total \in Nat
    BY RankType DEF Source, Total
  <1>2. ASSUME NEW i \in 0 .. eof, On(i)
        PROVE  Rank(i) \in 1 .. Total
    <2>1. Rank(i) \in Nat /\ Rank(i - 1) \in Nat /\ Rank(i) <= Total
      BY <1>1, RankType, RankMonotonic DEF Total
    <2>2. Rank(i) = Rank(i - 1) + 1
      BY <1>2, RankStep
    <2>. QED
      BY <1>1, <2>1, <2>2
  <1>3. \A n \in 1 .. Total : At(n) \in 0 .. eof /\ On(At(n)) /\ Rank(At(n)) = n
    BY RankTaken
  <1>4. \A n \in 1 .. Total : Visible[n] = At(n)
    BY DEF Visible, Total
  <1>5. Visible \in [1 .. Total -> 0 .. eof]
    BY <1>3 DEF Visible, Total
  <1>. HIDE DEF At
  <1>6. Visible \in Seq(0 .. eof) /\ Len(Visible) = Total
    <2>1. Visible \in Seq(0 .. eof)
      BY <1>1, <1>5, SeqDef
    <2>2. DOMAIN Visible = 1 .. Len(Visible) /\ DOMAIN Visible = 1 .. Total /\ Len(Visible) \in Nat
      BY <1>5, <2>1, LenProperties
    <2>3. \A a, b \in Nat : 1 .. a = 1 .. b => a = b
      <3>1. ASSUME NEW a \in Nat, NEW b \in Nat, 1 .. a = 1 .. b, a < b
            PROVE  FALSE
        <4>1. b \in 1 .. b /\ b \notin 1 .. a
          BY <3>1
        <4>. QED
          BY <3>1, <4>1
      <3>. QED
        BY <3>1
    <2>4. Len(Visible) = Total
      <3>. DEFINE l == Len(Visible)
      <3>1. l \in Nat /\ Total \in Nat /\ 1 .. l = 1 .. Total
        BY <1>1, <2>2
      <3>. HIDE DEF l
      <3>2. l = Total
        BY <2>3, <3>1, Zenon
      <3>. QED
        BY <3>2 DEF l
    <2>. QED
      BY <2>1, <2>4
  <1>7. \A i \in 0 .. eof : On(i) => Visible[Rank(i)] = i
    <2>1. ASSUME NEW i \in 0 .. eof, On(i)
          PROVE  Visible[Rank(i)] = i
      <3>. DEFINE v == Visible[Rank(i)]
      <3>1. v \in 0 .. eof /\ On(v) /\ Rank(v) = Rank(i)
        BY <1>2, <1>3, <1>4, <2>1
      <3>. QED
        BY <2>1, <3>1, RankTells
    <2>. QED
      BY <2>1
  <1>8. Total >= 1 /\ Visible[Total] = eof
    BY <1>1, <1>2, <1>7 DEF Total
  <1>. QED
    BY <1>1, <1>2, <1>3, <1>4, <1>6, <1>7, <1>8

\* Visible symbols are in the order of their ranks.
LEMMA VisibleOrdered ==
  ASSUME Source, NEW m \in 1 .. Total, NEW n \in 1 .. Total
  PROVE  m < n <=> Visible[m] < Visible[n]
  <1>1. /\ Visible[m] \in Nat /\ On(Visible[m]) /\ Rank(Visible[m]) = m
        /\ Visible[n] \in Nat /\ On(Visible[n]) /\ Rank(Visible[n]) = n
    BY VisibleAt DEF Source
  <1>2. Visible[m] < Visible[n] => m < n
    BY <1>1, RankStrict
  <1>3. ~ (Visible[m] < Visible[n]) => n <= m
    BY <1>1, RankMonotonic
  <1>. QED
    BY <1>2, <1>3

\* The first symbol from i on, or the end of file.
LEMMA NextOn ==
  ASSUME Source, NEW i \in Nat
  PROVE  LET next == B!nextTokenOnChannel(source, i)
         IN  /\ next \in 0 .. eof /\ On(next)
             /\ i <= eof => /\ i <= next
                            /\ \A j \in i .. next - 1 : ~ On(j)
                            /\ Rank(next) = Rank(i - 1) + 1
             /\ i > eof => next = eof
  <1>. DEFINE next == B!nextTokenOnChannel(source, i)
              S    == {j \in i .. B!LastIndex(source) : B!OnChannel(source, j)}
  <1>1. /\ eof \in Nat /\ On(eof)
        /\ i >= Len(source) <=> i > eof
    BY DEF Source, eof, B!LastIndex
  <1>2. next = IF i > eof THEN eof ELSE B!Min(S)
    BY <1>1 DEF B!nextTokenOnChannel, eof
  <1>3. S = {j \in i .. eof : On(j)}
    BY DEF eof, On
  <1>. HIDE DEF S, next
  <1>4. CASE i > eof
    BY <1>1, <1>2, <1>4 DEF next
  <1>5. CASE i <= eof
    <2>1. S \in SUBSET Nat /\ eof \in S
      BY <1>1, <1>3, <1>5
    <2>2. PICK m \in S : \A j \in S : m <= j
      BY <2>1, LeastNatural
    <2>3. next = m
      <3>1. S \in SUBSET Int
        BY <2>1
      <3>2. B!Min(S) = m
        BY <2>2, <3>1, MinIs
      <3>. QED
        BY <1>2, <1>5, <3>2, <1>1
    <2>4. m \in i .. eof /\ On(m)
      BY <1>3
    <2>5. \A j \in i .. m - 1 : ~ On(j)
      BY <1>1, <1>3, <2>2, <2>4
    <2>6. Rank(m) = Rank(m - 1) + 1
      BY <2>4, RankStep
    <2>7. Rank(i - 1) = Rank(m - 1)
      BY <2>4, <2>5, RankGap
    <2>. QED
      BY <1>1, <1>5, <2>3, <2>4, <2>5, <2>6, <2>7 DEF next
  <1>. QED
    BY <1>1, <1>4, <1>5

\* In ranks: one after that of what is before i.
LEMMA NextOnRank ==
  ASSUME Source, NEW p \in 0 .. eof, On(p)
  PROVE  LET next == B!nextTokenOnChannel(source, p + 1)
         IN  /\ next \in 0 .. eof /\ On(next)
             /\ p = eof => next = eof
             /\ p # eof => Rank(next) = Rank(p) + 1
  <1>1. p + 1 \in Nat /\ eof \in Nat /\ (p + 1) - 1 = p
    BY DEF Source
  <1>. QED
    BY <1>1, NextOn

-----------------------------------------------------------------------------
(* The buffered stream.                                                    *)

BufferType == [size : Nat, p : Nat, needSetup : BOOLEAN, fetchedEOF : BOOLEAN]

\* The end of file has been fetched when all tokens are in the buffer.
Filled(s) ==
  /\ s \in BufferType
  /\ s.size <= eof + 1
  /\ s.fetchedEOF <=> s.size = eof + 1

\* Once it is set up it stands at a symbol that has been fetched.
AtSymbol(s) == ~ s.needSetup /\ s.p \in 0 .. eof /\ On(s.p) /\ s.p < s.size

Buffer(s) == Filled(s) /\ (s.needSetup \/ AtSymbol(s))

\* fetch and sync make the buffer larger and change nothing else.
Grown(s, t) == Filled(t) /\ t.p = s.p /\ t.needSetup = s.needSetup /\ s.size <= t.size

LEMMA FetchGrows ==
  ASSUME Source, NEW s, Filled(s), NEW n \in Nat
  PROVE  LET t == B!fetch(source, s, n)
         IN  Grown(s, t) /\ (t.size = eof + 1 \/ t.size >= s.size + n)
  <1>. DEFINE t == B!fetch(source, s, n)
              size == B!Min({s.size + n, Len(source)})
  <1>1. eof \in Nat /\ Len(source) = eof + 1 /\ s \in BufferType /\ s.size \in Nat /\ s.size <= eof + 1
    BY DEF Source, Filled, BufferType, eof, B!LastIndex
  <1>2. size = IF s.size + n <= eof + 1 THEN s.size + n ELSE eof + 1
    BY <1>1, OfTwo
  <1>3. CASE s.fetchedEOF
    <2>1. t = s /\ s.size = eof + 1
      BY <1>3 DEF B!fetch, Filled
    <2>. QED
      BY <1>1, <2>1 DEF Grown
  <1>4. CASE ~ s.fetchedEOF
    <2>1. t = [s EXCEPT !.size = size, !.fetchedEOF = (size = eof + 1)]
      BY <1>1, <1>4 DEF B!fetch
    <2>. HIDE DEF size, t
    <2>2. size \in Nat /\ size <= eof + 1 /\ s.size <= size /\ (size = eof + 1 \/ size >= s.size + n)
      BY <1>1, <1>2
    <2>3. /\ t \in BufferType /\ t.size = size /\ t.p = s.p /\ t.needSetup = s.needSetup
          /\ t.fetchedEOF <=> size = eof + 1
      BY <1>1, <2>1, <2>2 DEF BufferType
    <2>. QED
      BY <2>2, <2>3 DEF Grown, Filled, t
  <1>. QED
    BY <1>3, <1>4

LEMMA SyncGrows ==
  ASSUME Source, NEW s, Filled(s), NEW i \in Int
  PROVE  LET t == B!sync(source, s, i)
         IN  Grown(s, t) /\ (t.size = eof + 1 \/ i < t.size) /\ (i < s.size => t = s)
  <1>. DEFINE t == B!sync(source, s, i)
  <1>1. s.size \in Nat
    BY DEF Filled, BufferType
  <1>2. CASE i < s.size
    BY <1>1, <1>2 DEF B!sync, Grown, Filled
  <1>3. CASE ~ (i < s.size)
    <2>1. i - s.size + 1 \in Nat /\ t = B!fetch(source, s, i - s.size + 1)
      BY <1>1, <1>3 DEF B!sync
    <2>2. Grown(s, t) /\ (t.size = eof + 1 \/ t.size >= s.size + (i - s.size + 1))
      BY <2>1, FetchGrows
    <2>3. t.size \in Nat
      BY <2>2 DEF Grown, Filled, BufferType
    <2>. QED
      BY <1>1, <1>3, <2>2, <2>3
  <1>. QED
    BY <1>2, <1>3

\* A stream stays where it is when it grows.
LEMMA GrownStays ==
  ASSUME NEW s, NEW t, Filled(s), AtSymbol(s), Grown(s, t), eof \in Nat
  PROVE  AtSymbol(t) /\ Filled(t) /\ t.p = s.p
  <1>1. s.size \in Nat /\ t.size \in Nat /\ s.p \in Nat
    BY DEF Filled, BufferType, Grown
  <1>. QED
    BY <1>1 DEF AtSymbol, Grown

LEMMA AdjustMoves ==
  ASSUME Source, NEW s, Filled(s), ~ s.needSetup, NEW i \in Nat
  PROVE  LET t == B!adjustSeekIndex(source, s, i)
         IN  Filled(t) /\ AtSymbol(t) /\ t.p = B!nextTokenOnChannel(source, i)
  <1>. DEFINE t    == B!adjustSeekIndex(source, s, i)
              next == B!nextTokenOnChannel(source, i)
              far  == B!Max({i, next})
              u    == B!sync(source, s, far)
  <1>1. eof \in Nat /\ next \in 0 .. eof /\ On(next)
    BY NextOn DEF Source
  <1>2. far \in Nat /\ next <= far
    BY <1>1, OfTwo
  <1>3. t = [u EXCEPT !.p = next]
    BY DEF B!adjustSeekIndex
  <1>. HIDE DEF next, far
  <1>4. Grown(s, u) /\ (u.size = eof + 1 \/ far < u.size)
    BY <1>2, SyncGrows
  <1>. HIDE DEF u, t
  <1>5. u \in BufferType /\ u.size \in Nat /\ ~ u.needSetup
    BY <1>4 DEF Grown, Filled, BufferType
  <1>6. t \in BufferType /\ t.size = u.size /\ t.p = next /\ ~ t.needSetup /\ t.fetchedEOF = u.fetchedEOF
    BY <1>1, <1>3, <1>5 DEF BufferType
  <1>7. next < u.size
    BY <1>1, <1>2, <1>4, <1>5
  <1>8. Filled(t)
    BY <1>4, <1>6 DEF Grown, Filled
  <1>. QED
    BY <1>1, <1>6, <1>7, <1>8 DEF AtSymbol, t, next

LEMMA InitReady ==
  ASSUME Source, NEW s, Buffer(s)
  PROVE  LET ready == B!lazyInit(source, s)
         IN  /\ Filled(ready) /\ AtSymbol(ready)
             /\ Rank(ready.p) = IF s.needSetup THEN 1 ELSE Rank(s.p)
             /\ ~ s.needSetup => ready = s
  <1>1. CASE s.needSetup
    <2>. DEFINE r == [s EXCEPT !.needSetup = FALSE]
                u == B!sync(source, r, 0)
                t == B!adjustSeekIndex(source, u, 0)
    <2>1. B!lazyInit(source, s) = t
      BY <1>1 DEF B!lazyInit, B!setup
    <2>. HIDE DEF t
    <2>2. /\ r \in BufferType /\ ~ r.needSetup /\ r.size = s.size /\ r.p = s.p
          /\ r.fetchedEOF = s.fetchedEOF
      BY DEF Buffer, Filled, BufferType
    <2>3. Filled(r)
      BY <2>2 DEF Buffer, Filled
    <2>. HIDE DEF r
    <2>4. Grown(r, u)
      BY <2>3, SyncGrows
    <2>. HIDE DEF u
    <2>5. Filled(u) /\ ~ u.needSetup
      BY <2>2, <2>4 DEF Grown
    <2>6. Filled(t) /\ AtSymbol(t) /\ t.p = B!nextTokenOnChannel(source, 0)
      BY <2>5, AdjustMoves DEF t
    <2>7. Rank(B!nextTokenOnChannel(source, 0)) = Rank(0 - 1) + 1
      BY NextOn DEF Source
    <2>8. Rank(t.p) = 1
      BY <2>6, <2>7, RankBefore
    <2>. QED
      BY <1>1, <2>1, <2>6, <2>8
  <1>2. CASE ~ s.needSetup
    BY <1>2 DEF B!lazyInit, Buffer
  <1>. QED
    BY <1>1, <1>2

\* Looking ahead n symbols.
Look(p, n) == IF Rank(p) + n - 1 <= Total THEN Rank(p) + n - 1 ELSE Total

LEMMA AheadIs ==
  ASSUME Source, NEW p \in 0 .. eof, On(p), NEW k \in Nat \ {0}
  PROVE  Look(p, k) \in 1 .. Total /\ B!Ahead(source, p, k) = Visible[Look(p, k)]
  <1>. DEFINE Next(i)  == IF i = eof THEN eof ELSE B!nextTokenOnChannel(source, i + 1)
              Steps(f) == f = [n \in 1 .. k |-> IF n = 1 THEN p ELSE Next(f[n - 1])]
              step     == CHOOSE f : Steps(f)
              seen     == [n \in 1 .. k |-> Visible[Look(p, n)]]
  <1>1. B!Ahead(source, p, k) = step[k]
    BY DEF B!Ahead, eof
  <1>2. Total \in Nat /\ Total >= 1 /\ Rank(p) \in 1 .. Total /\ Visible[Rank(p)] = p
    BY VisibleAt
  <1>3. \A n \in Nat \ {0} : Look(p, n) \in 1 .. Total
    BY <1>2 DEF Look
  <1>4. ASSUME NEW n \in 1 .. k, n # 1
        PROVE  Visible[Look(p, n)] = Next(Visible[Look(p, n - 1)])
    <2>. DEFINE i == Visible[Look(p, n - 1)]
    <2>1. n - 1 \in Nat \ {0} /\ n \in Nat \ {0}
      BY <1>4
    <2>2. Look(p, n - 1) \in 1 .. Total
      BY <1>3, <2>1
    <2>3. i \in 0 .. eof /\ On(i) /\ Rank(i) = Look(p, n - 1) /\ Visible[Total] = eof
      BY <2>2, VisibleAt
    <2>. HIDE DEF i
    <2>4. CASE i = eof
      <3>1. Look(p, n - 1) = Total
        BY <2>3, <2>4 DEF Total
      <3>2. Look(p, n) = Total
        BY <1>2, <2>1, <3>1 DEF Look
      <3>. QED
        BY <2>3, <2>4, <3>2 DEF i
    <2>5. CASE i # eof
      <3>. DEFINE next == B!nextTokenOnChannel(source, i + 1)
      <3>1. next \in 0 .. eof /\ On(next) /\ Rank(next) = Rank(i) + 1
        BY <2>3, <2>5, NextOnRank
      <3>2. Rank(next) \in 1 .. Total /\ Visible[Rank(next)] = next
        BY <3>1, VisibleAt
      <3>. HIDE DEF next
      <3>3. Look(p, n) = Rank(next)
        BY <1>2, <2>1, <2>3, <3>1, <3>2 DEF Look
      <3>. QED
        BY <2>5, <3>2, <3>3 DEF i, next
    <2>. QED
      BY <2>4, <2>5
  <1>5. Look(p, 1) = Rank(p)
    BY <1>2 DEF Look
  <1>. HIDE DEF Next
  <1>6. Steps(seen)
    <2>1. \A n \in 1 .. k : n # 1 => seen[n - 1] = Visible[Look(p, n - 1)]
      OBVIOUS
    <2>. QED
      BY <1>2, <1>4, <1>5, <2>1
  <1>7. ASSUME NEW f, Steps(f)
        PROVE  f[k] = seen[k]
    <2>. DEFINE S == {n \in 1 .. k : f[n] # seen[n]}
    <2>1. CASE S = {}
      <3>1. k \in 1 .. k /\ k \notin S
        BY <2>1
      <3>. QED
        BY <3>1
    <2>2. CASE S # {}
      <3>1. S \in SUBSET Nat
        OBVIOUS
      <3>2. PICK n \in S : \A m \in S : n <= m
        <4>. HIDE DEF S
        <4>. QED
          BY <2>2, <3>1, LeastNatural
      <3>3. n \in 1 .. k /\ f[n] # seen[n]
        OBVIOUS
      <3>4. n # 1
        BY <1>2, <1>5, <1>7, <3>3
      <3>5. n - 1 \in 1 .. k /\ n - 1 \notin S
        BY <3>2, <3>3, <3>4
      <3>6. f[n - 1] = seen[n - 1]
        BY <3>5
      <3>7. f[n] = Next(f[n - 1]) /\ seen[n] = Next(seen[n - 1])
        <4>1. f[n] = Next(f[n - 1])
          BY <1>7, <3>3, <3>4
        <4>2. seen[n] = Next(seen[n - 1])
          BY <1>4, <3>3, <3>4, <3>5
        <4>. QED
          BY <4>1, <4>2
      <3>. QED
        BY <3>3, <3>6, <3>7
    <2>. QED
      BY <2>1, <2>2
  <1>8. step[k] = seen[k]
    <2>. HIDE DEF Steps, seen
    <2>. QED
      BY <1>6, <1>7
  <1>. QED
    BY <1>1, <1>3, <1>8

LEMMA LTIs ==
  ASSUME Source, NEW s, Buffer(s), NEW k \in Nat \ {0}
  PROVE  LET ready == B!lazyInit(source, s)
             lt    == B!LT(source, s, k)
         IN  /\ lt.index = Visible[Look(ready.p, k)]
             /\ Filled(lt.stream) /\ AtSymbol(lt.stream) /\ lt.stream.p = ready.p
  <1>. DEFINE ready == B!lazyInit(source, s)
              index == B!Ahead(source, ready.p, k)
  <1>1. Filled(ready) /\ AtSymbol(ready)
    BY InitReady
  <1>. HIDE DEF ready
  <1>2. Look(ready.p, k) \in 1 .. Total /\ index = Visible[Look(ready.p, k)]
    BY <1>1, AheadIs DEF AtSymbol
  <1>3. index \in Int /\ eof \in Nat
    BY <1>2, VisibleAt DEF Source
  <1>4. B!LT(source, s, k) = [stream |-> B!sync(source, ready, index), index |-> index]
    BY DEF B!LT, ready
  <1>. HIDE DEF index
  <1>5. Grown(ready, B!sync(source, ready, index))
    BY <1>1, <1>3, SyncGrows
  <1>6. /\ Filled(B!sync(source, ready, index)) /\ AtSymbol(B!sync(source, ready, index))
        /\ B!sync(source, ready, index).p = ready.p
    BY <1>1, <1>3, <1>5, GrownStays
  <1>. QED
    BY <1>2, <1>4, <1>6 DEF ready

\* The end of file is what the test of consume sees.
LEMMA AtEOFIs ==
  ASSUME Source, NEW s, Buffer(s)
  PROVE  B!AtEOF(source, s) <=> B!lazyInit(source, s).p = eof
  <1>. DEFINE ready == B!lazyInit(source, s)
  <1>1. Filled(ready) /\ AtSymbol(ready) /\ (~ s.needSetup => ready = s)
    BY InitReady
  <1>2. ready.p \in 0 .. eof /\ On(ready.p) /\ eof \in Nat
    BY <1>1 DEF AtSymbol, Source
  <1>3. Rank(ready.p) \in 1 .. Total /\ Visible[Rank(ready.p)] = ready.p /\ Total \in Nat
    BY <1>2, VisibleAt
  <1>. HIDE DEF ready
  <1>4. B!LT(source, s, 1).index = ready.p
    <2>1. Look(ready.p, 1) = Rank(ready.p)
      BY <1>3 DEF Look
    <2>2. B!LT(source, s, 1).index = Visible[Look(ready.p, 1)]
      BY LTIs DEF ready
    <2>. QED
      BY <1>3, <2>1, <2>2
  <1>5. B!LA(source, s, 1) = B!EOF <=> ready.p = eof
    BY <1>2, <1>4 DEF B!LA, Source
  <1>6. ready.p = eof => s.needSetup \/ s.p >= (IF s.fetchedEOF THEN s.size - 1 ELSE s.size)
    <2>1. ASSUME ready.p = eof, ~ s.needSetup
          PROVE  s.p >= (IF s.fetchedEOF THEN s.size - 1 ELSE s.size)
      <3>1. s.p = eof /\ s.size \in Nat /\ s.size <= eof + 1 /\ s.p < s.size
        BY <1>1, <2>1 DEF AtSymbol, Filled, BufferType
      <3>2. s.size = eof + 1 /\ s.fetchedEOF
        BY <1>1, <1>2, <2>1, <3>1 DEF Filled
      <3>. QED
        BY <1>2, <3>1, <3>2
    <2>. QED
      BY <2>1
  <1>. QED
    BY <1>5, <1>6 DEF B!AtEOF, ready

LEMMA ConsumeMoves ==
  ASSUME Source, NEW s, Buffer(s), ~ B!AtEOF(source, s)
  PROVE  LET ready == B!lazyInit(source, s)
             t     == B!consume(source, s)
         IN  Filled(t) /\ AtSymbol(t) /\ Rank(t.p) = Rank(ready.p) + 1
  <1>. DEFINE ready == B!lazyInit(source, s)
              u     == B!sync(source, ready, ready.p + 1)
              t     == B!adjustSeekIndex(source, ready, ready.p + 1)
  <1>1. Filled(ready) /\ AtSymbol(ready) /\ ready.p # eof /\ eof \in Nat
    BY InitReady, AtEOFIs DEF Source
  <1>2. B!consume(source, s) = IF ready.p + 1 < u.size THEN t ELSE u
    BY DEF B!consume, B!advance
  <1>. HIDE DEF ready
  <1>3. ready.p \in 0 .. eof /\ On(ready.p) /\ ready.p + 1 \in Nat /\ ready.p + 1 <= eof /\ ~ ready.needSetup
    BY <1>1 DEF AtSymbol
  <1>4. u.size = eof + 1 \/ ready.p + 1 < u.size
    BY <1>1, <1>3, SyncGrows
  <1>. HIDE DEF u, t
  <1>5. B!consume(source, s) = t
    BY <1>1, <1>2, <1>3, <1>4
  <1>6. Filled(t) /\ AtSymbol(t) /\ t.p = B!nextTokenOnChannel(source, ready.p + 1)
    BY <1>1, <1>3, AdjustMoves DEF t
  <1>7. Rank(t.p) = Rank(ready.p) + 1
    BY <1>1, <1>3, <1>6, NextOnRank
  <1>. QED
    BY <1>5, <1>6, <1>7 DEF ready

\* The last symbol up to the i-th token.
LEMMA PreviousOn ==
  ASSUME Source, NEW s, NEW i \in 0 .. eof, s.size \in Nat, i < s.size, Rank(i) >= 1
  PROVE  Rank(i) \in 1 .. Total /\ B!previousTokenOnChannel(source, s, i) = Visible[Rank(i)]
  <1>. DEFINE on == {j \in 0 .. i : B!OnChannel(source, j)}
              v  == Visible[Rank(i)]
  <1>1. eof \in Nat /\ Rank(i) \in 1 .. Total
    <2>1. eof \in Nat /\ i \in Int /\ eof \in Int /\ i <= eof
      BY DEF Source
    <2>2. Rank(i) <= Total /\ Rank(i) \in Nat
      BY <2>1, RankMonotonic, RankType DEF Total
    <2>. QED
      BY <2>1, <2>2, VisibleAt
  <1>2. v \in 0 .. eof /\ On(v) /\ Rank(v) = Rank(i)
    BY <1>1, VisibleAt
  <1>3. on = {j \in 0 .. i : On(j)}
    BY DEF On
  <1>. HIDE DEF on, v
  <1>4. v <= i
    BY <1>1, <1>2, RankStrict, RankType
  <1>5. v \in on
    BY <1>2, <1>3, <1>4
  <1>6. ASSUME NEW j \in on
        PROVE  j <= v
    <2>1. j \in Nat /\ On(j) /\ j <= i /\ v \in Int /\ i \in Int /\ v \in Nat
      BY <1>2, <1>3
    <2>2. Rank(j) <= Rank(i)
      BY <2>1, RankMonotonic
    <2>3. v < j => Rank(v) < Rank(j)
      BY <2>1, RankStrict
    <2>4. Rank(v) \in Nat /\ Rank(j) \in Nat
      BY <2>1, RankType
    <2>. QED
      BY <1>2, <2>1, <2>2, <2>3, <2>4
  <1>7. on \in SUBSET Int /\ on # {}
    BY <1>3, <1>5
  <1>8. B!Max(on) = v
    BY <1>5, <1>6, <1>7, MaxIs
  <1>9. B!sync(source, s, i).size = s.size
    BY DEF B!sync
  <1>10. B!previousTokenOnChannel(source, s, i) = B!Max(on)
    BY <1>7, <1>9 DEF B!previousTokenOnChannel, on
  <1>. QED
    BY <1>1, <1>8, <1>10 DEF v

LEMMA LBIs ==
  ASSUME Source, NEW s, Filled(s), AtSymbol(s), NEW k \in Nat \ {0}, k < Rank(s.p)
  PROVE  Rank(s.p) - k \in 1 .. Total /\ B!LB(source, s, k) = Visible[Rank(s.p) - k]
  <1>. DEFINE R == Rank(s.p)
              Prev(i)  == B!previousTokenOnChannel(source, s, i - 1)
              Steps(f) == f = [n \in 0 .. k |-> IF n = 0 THEN s.p ELSE Prev(f[n - 1])]
              step     == CHOOSE f : Steps(f)
              seen     == [n \in 0 .. k |-> Visible[R - n]]
  <1>1. B!LB(source, s, k) = IF k = 0 \/ k > s.p THEN NoToken ELSE step[k]
    BY DEF B!LB
  <1>2. /\ eof \in Nat /\ s.p \in 0 .. eof /\ On(s.p) /\ s.p < s.size /\ s.size \in Nat
        /\ R \in 1 .. Total /\ Visible[R] = s.p /\ Total \in Nat
    BY VisibleAt DEF AtSymbol, Filled, BufferType, Source
  <1>3. \A n \in 0 .. k : R - n \in 1 .. Total
    BY <1>2
  <1>. HIDE DEF R
  <1>4. ASSUME NEW n \in 1 .. k
        PROVE  Visible[R - n] = Prev(Visible[R - (n - 1)])
    <2>. DEFINE v == Visible[R - (n - 1)]
    <2>1. n - 1 \in 0 .. k /\ R - (n - 1) \in 1 .. Total /\ R - n \in 1 .. Total /\ 1 \in 1 .. Total
      BY <1>2, <1>3
    <2>2. v \in 0 .. eof /\ On(v) /\ Rank(v) = R - (n - 1)
      BY <2>1, VisibleAt
    <2>3. Visible[R - n] \in 0 .. eof /\ Visible[R - n] < v
      BY <1>2, <2>1, VisibleAt, VisibleOrdered
    <2>4. v <= s.p
      <3>1. R - (n - 1) < R \/ R - (n - 1) = R
        BY <1>2
      <3>2. R - (n - 1) < R => v < Visible[R]
        BY <1>2, <2>1, VisibleOrdered
      <3>. QED
        BY <1>2, <2>2, <3>1, <3>2
    <2>. HIDE DEF v
    <2>5. v - 1 \in 0 .. eof /\ v \in Nat /\ v - 1 < s.size
      BY <1>2, <2>2, <2>3, <2>4
    <2>6. Rank(v - 1) = R - n
      <3>1. Rank(v) = Rank(v - 1) + 1 /\ Rank(v - 1) \in Nat
        BY <2>2, <2>5, RankStep, RankType
      <3>. QED
        BY <1>2, <2>2, <3>1
    <2>7. Rank(v - 1) >= 1
      BY <1>2, <2>1, <2>6
    <2>8. B!previousTokenOnChannel(source, s, v - 1) = Visible[R - n]
      BY <1>2, <2>5, <2>6, <2>7, PreviousOn
    <2>. QED
      BY <2>8 DEF v
  <1>. HIDE DEF Prev
  <1>5. \A n \in 1 .. k : seen[n - 1] = Visible[R - (n - 1)] /\ seen[n] = Visible[R - n]
    OBVIOUS
  <1>6. seen[0] = s.p
    BY <1>2
  <1>7. Steps(seen)
    <2>1. ASSUME NEW n \in 0 .. k
          PROVE  Visible[R - n] = IF n = 0 THEN s.p ELSE Prev(seen[n - 1])
      <3>1. n = 0 => Visible[R - n] = s.p
        BY <1>2
      <3>2. n # 0 => n \in 1 .. k
        OBVIOUS
      <3>3. n # 0 => Visible[R - n] = Prev(seen[n - 1])
        BY <1>4, <1>5, <3>2
      <3>. QED
        BY <3>1, <3>3
    <2>2. seen = [n \in 0 .. k |-> IF n = 0 THEN s.p ELSE Prev(seen[n - 1])]
      BY <2>1, Zenon
    <2>. QED
      BY <2>2
  <1>8. ASSUME NEW f, Steps(f)
        PROVE  f[k] = seen[k]
    <2>. DEFINE S == {n \in 0 .. k : f[n] # seen[n]}
    <2>1. CASE S = {}
      <3>1. k \in 0 .. k
        OBVIOUS
      <3>2. k \notin S
        BY <2>1
      <3>. QED
        BY <3>1, <3>2
    <2>2. CASE S # {}
      <3>1. S \in SUBSET Nat
        OBVIOUS
      <3>2. PICK n \in S : \A m \in S : n <= m
        <4>. HIDE DEF S
        <4>. QED
          BY <2>2, <3>1, LeastNatural
      <3>3. n \in 0 .. k /\ f[n] # seen[n]
        OBVIOUS
      <3>4. n # 0
        BY <1>6, <1>8, <3>3
      <3>5. n - 1 \in 0 .. k /\ n - 1 \notin S /\ n \in 1 .. k
        BY <3>2, <3>3, <3>4
      <3>6. f[n - 1] = seen[n - 1]
        BY <3>5
      <3>7. f[n] = Prev(f[n - 1])
        BY <1>8, <3>3, <3>4
      <3>8. seen[n] = Prev(seen[n - 1])
        BY <1>4, <1>5, <3>5
      <3>. QED
        BY <3>3, <3>6, <3>7, <3>8
    <2>. QED
      BY <2>1, <2>2
  <1>9. step[k] = seen[k]
    <2>. HIDE DEF Steps, seen
    <2>. QED
      BY <1>7, <1>8
  <1>10. ~ (k > s.p)
    <2>1. Rank(s.p) <= s.p + 1
      <3>1. Upto(s.p) \in SUBSET (0 .. s.p) /\ s.p \in Nat
        BY <1>2 DEF Upto
      <3>2. Cardinality(0 .. s.p) = s.p + 1 /\ IsFiniteSet(0 .. s.p)
        BY <3>1, FS_Interval
      <3>3. Cardinality(Upto(s.p)) <= Cardinality(0 .. s.p)
        BY <3>1, <3>2, FS_Subset
      <3>4. Rank(s.p) = Cardinality(Upto(s.p))
        BY <3>1, RankType
      <3>. QED
        BY <3>2, <3>3, <3>4
    <2>. QED
      BY <1>2, <2>1 DEF R
  <1>. QED
    BY <1>1, <1>3, <1>9, <1>10 DEF R

-----------------------------------------------------------------------------
(* Steps.                                                                  *)

LEMMA SameSource ==
  ASSUME source' = source
  PROVE  /\ eof' = eof
         /\ Visible' = Visible
         /\ \A i : Rank(i)' = Rank(i)
  <1>1. eof' = eof
    BY DEF eof, B!LastIndex
  <1>2. \A i : On(i)' = On(i)
    BY DEF On, B!OnChannel, B!TypeAt, B!ChannelAt
  <1>3. \A i : Rank(i)' = Rank(i)
    BY <1>2, Zenon DEF Rank
  <1>4. Visible' = Visible
    BY <1>1, <1>2, <1>3 DEF Visible
  <1>. QED
    BY <1>1, <1>3, <1>4

\* What the streams have in common: the source is not touched.
Reading(name) ==
  /\ Source /\ reader = name
  /\ source' = source /\ reader' = reader

LEMMA ReadingOn ==
  ASSUME NEW name, Reading(name)
  PROVE  /\ Source' /\ eof' = eof /\ Visible' = Visible
         /\ \A i : On(i)' = On(i)
         /\ \A i : Rank(i)' = Rank(i)
  <1>1. source' = source /\ reader' = reader
    BY DEF Reading
  <1>2. eof' = eof /\ Visible' = Visible /\ \A i : Rank(i)' = Rank(i)
    BY <1>1, SameSource
  <1>3. \A i : On(i)' = On(i)
    BY <1>1 DEF On, B!OnChannel, B!TypeAt, B!ChannelAt
  <1>4. Source'
    BY <1>1, <1>2, <1>3 DEF Reading, Source, B!TypeAt, B!ChannelAt
  <1>. QED
    BY <1>2, <1>3, <1>4

LEMMA BufferedPosition ==
  ASSUME Source, reader = "buffered", Buffer(stream)
  PROVE  LET ready == B!lazyInit(source, stream)
         IN  /\ Filled(ready) /\ AtSymbol(ready)
             /\ ready.p \in 0 .. eof /\ On(ready.p)
             /\ Position = Rank(ready.p)
             /\ Position \in 1 .. Total /\ Visible[Position] = ready.p
  <1>. DEFINE ready == B!lazyInit(source, stream)
  <1>1. /\ Filled(ready) /\ AtSymbol(ready)
        /\ Rank(ready.p) = IF stream.needSetup THEN 1 ELSE Rank(stream.p)
    BY InitReady
  <1>2. Position = Rank(ready.p)
    BY <1>1 DEF Position
  <1>3. ready.p \in 0 .. eof /\ On(ready.p)
    BY <1>1 DEF AtSymbol
  <1>. HIDE DEF ready
  <1>4. Rank(ready.p) \in 1 .. Total /\ Visible[Rank(ready.p)] = ready.p
    BY <1>3, VisibleAt
  <1>. QED
    BY <1>1, <1>2, <1>3, <1>4 DEF ready

LEMMA BufferedMoved ==
  ASSUME Reading("buffered"), Filled(stream'), AtSymbol(stream')
  PROVE  /\ Buffer(stream)'
         /\ Position' = Rank(stream'.p)
  <1>1. /\ eof' = eof /\ reader' = "buffered"
        /\ \A i : On(i)' = On(i)
        /\ \A i : Rank(i)' = Rank(i)
    BY ReadingOn DEF Reading
  <1>2. Buffer(stream)'
    BY <1>1 DEF Buffer, Filled, AtSymbol, BufferType
  <1>3. ~ stream'.needSetup
    BY DEF AtSymbol
  <1>4. Rank(stream.p)' = Rank(stream'.p)
    BY <1>1, Zenon DEF Rank
  <1>5. Position' = Rank(stream'.p)
    BY <1>1, <1>3, <1>4 DEF Position
  <1>. QED
    BY <1>2, <1>5

LEMMA LookAheadStep ==
  ASSUME Reading("buffered"), Buffer(stream), NEW k \in 1 .. MaxLook, LookAhead(k)
  PROVE  Buffer(stream)' /\ Cursor!LT(k)
  <1>. DEFINE ready == B!lazyInit(source, stream)
              lt    == B!LT(source, stream, k)
  <1>1. Source /\ reader = "buffered" /\ k \in Nat \ {0}
    BY StreamBounds DEF Reading, StreamBounds
  <1>2. Position = Rank(ready.p) /\ Position \in 1 .. Total /\ Len(Visible) = Total /\ Total \in Nat
    BY <1>1, BufferedPosition, VisibleAt
  <1>3. lt.index = Visible[Look(ready.p, k)] /\ Filled(lt.stream) /\ AtSymbol(lt.stream) /\ lt.stream.p = ready.p
    BY <1>1, LTIs
  <1>4. stream' = lt.stream /\ answer' = lt.index
    BY DEF LookAhead, Answered
  <1>. HIDE DEF ready, lt
  <1>5. Buffer(stream)' /\ Position' = Position
    BY <1>2, <1>3, <1>4, BufferedMoved
  <1>6. Look(ready.p, k) = Cursor!Smaller(Position + k - 1, Len(Visible))
    BY <1>1, <1>2 DEF Look, Cursor!Smaller
  <1>7. Visible' = Visible
    BY ReadingOn
  <1>. QED
    BY <1>3, <1>4, <1>5, <1>6, <1>7 DEF Cursor!LT

LEMMA LookBackStep ==
  ASSUME Reading("buffered"), Buffer(stream), NEW k \in 1 .. MaxLook, LookBack(k)
  PROVE  Buffer(stream)' /\ Cursor!LB(k)
  <1>. DEFINE ready == B!lazyInit(source, stream)
  <1>1. Source /\ reader = "buffered" /\ k \in Nat \ {0}
    BY StreamBounds DEF Reading, StreamBounds
  <1>2. /\ Position = Rank(ready.p) /\ Position \in 1 .. Total
        /\ Filled(ready) /\ AtSymbol(ready)
    BY <1>1, BufferedPosition
  <1>3. stream' = ready /\ answer' = B!LB(source, ready, k)
    BY DEF LookBack, Answered
  <1>. HIDE DEF ready
  <1>4. Buffer(stream)' /\ Position' = Position
    BY <1>2, <1>3, BufferedMoved
  <1>5. k < Position => B!LB(source, ready, k) = Visible[Position - k]
    BY <1>1, <1>2, LBIs
  <1>6. Visible' = Visible
    BY ReadingOn
  <1>. QED
    BY <1>3, <1>4, <1>5, <1>6 DEF Cursor!LB

LEMMA ConsumeStep ==
  ASSUME Reading("buffered"), Buffer(stream), Consume
  PROVE  Buffer(stream)' /\ Cursor!Consume
  <1>. DEFINE ready == B!lazyInit(source, stream)
  <1>1. Source /\ reader = "buffered" /\ Visible' = Visible
    BY ReadingOn DEF Reading
  <1>2. /\ Position = Rank(ready.p) /\ Position \in 1 .. Total /\ Visible[Position] = ready.p
        /\ Len(Visible) = Total /\ Total \in Nat /\ Visible[Total] = eof
        /\ Filled(ready) /\ AtSymbol(ready)
    BY <1>1, BufferedPosition, VisibleAt
  <1>3. B!AtEOF(source, stream) <=> ready.p = eof
    BY <1>1, AtEOFIs
  <1>4. ready.p = eof <=> Position = Total
    BY <1>2 DEF Total
  <1>5. CASE B!AtEOF(source, stream)
    <2>. DEFINE lt == B!LT(source, stream, 1)
    <2>1. stream' = lt.stream /\ answer' = CannotConsumeEOF
      BY <1>5 DEF Consume, Answered
    <2>2. Filled(lt.stream) /\ AtSymbol(lt.stream) /\ lt.stream.p = ready.p
      BY <1>1, LTIs
    <2>. HIDE DEF lt, ready
    <2>3. Buffer(stream)' /\ Position' = Position
      BY <1>2, <2>1, <2>2, BufferedMoved
    <2>. QED
      BY <1>1, <1>2, <1>3, <1>4, <1>5, <2>1, <2>3 DEF Cursor!Consume
  <1>6. CASE ~ B!AtEOF(source, stream)
    <2>. DEFINE t == B!consume(source, stream)
    <2>1. stream' = t /\ answer' = t.p
      BY <1>6 DEF Consume, Answered
    <2>2. Filled(t) /\ AtSymbol(t) /\ Rank(t.p) = Rank(ready.p) + 1
      BY <1>1, <1>6, ConsumeMoves
    <2>. HIDE DEF t, ready
    <2>3. Buffer(stream)' /\ Position' = Position + 1
      BY <1>2, <2>1, <2>2, BufferedMoved
    <2>4. Visible[Position + 1] = t.p
      <3>1. Visible[Rank(t.p)] = t.p
        BY <1>1, <2>2, VisibleAt DEF AtSymbol
      <3>. QED
        BY <1>2, <2>2, <3>1
    <2>. QED
      BY <1>1, <1>2, <1>3, <1>4, <1>6, <2>1, <2>3, <2>4 DEF Cursor!Consume
  <1>. QED
    BY <1>5, <1>6

\* A seek finds the first symbol that is not before the index.
LEMMA SoughtIs ==
  ASSUME Source, NEW i \in Nat, NEW c \in 1 .. Total, Visible[c] >= i,
         \A before \in 1 .. c - 1 : Visible[before] < i
  PROVE  c = CHOOSE m \in 1 .. Total : /\ Visible[m] >= i
                                      /\ \A before \in 1 .. m - 1 : Visible[before] < i
  <1>1. Total \in Nat /\ \A n \in 1 .. Total : Visible[n] \in Nat
    <2>1. Total \in Nat /\ \A n \in 1 .. Total : Visible[n] \in 0 .. eof
      BY VisibleAt
    <2>2. eof \in Nat
      BY DEF Source
    <2>. QED
      BY <2>1, <2>2
  <1>2. ASSUME NEW m \in 1 .. Total, Visible[m] >= i, \A before \in 1 .. m - 1 : Visible[before] < i
        PROVE  m = c
    <2>1. ~ (m < c)
      <3>1. m < c => m \in 1 .. c - 1
        BY <1>1
      <3>. QED
        BY <1>1, <1>2, <3>1
    <2>2. ~ (c < m)
      <3>1. c < m => c \in 1 .. m - 1
        BY <1>1
      <3>. QED
        BY <1>1, <1>2, <3>1
    <2>. QED
      BY <1>1, <2>1, <2>2
  <1>. QED
    BY <1>2

LEMMA CursorSeeks ==
  ASSUME Source, Visible' = Visible, NEW i \in Nat, NEW c \in 1 .. Total,
         i > eof => c = Total,
         i <= eof => Visible[c] >= i /\ \A before \in 1 .. c - 1 : Visible[before] < i,
         Position' = c, answer' = Visible[c]
  PROVE  Cursor!Seek(i)
  <1>1. Len(Visible) = Total /\ Total \in Nat /\ Visible[Total] = eof /\ eof \in Nat
    BY VisibleAt DEF Source
  <1>2. CASE i > eof
    BY <1>1, <1>2 DEF Cursor!Seek
  <1>3. CASE i <= eof
    <2>1. c = CHOOSE m \in 1 .. Total : /\ Visible[m] >= i
                                       /\ \A before \in 1 .. m - 1 : Visible[before] < i
      BY <1>3, SoughtIs
    <2>2. ~ (i > Visible[Len(Visible)])
      BY <1>1, <1>3
    <2>. QED
      BY <1>1, <2>1, <2>2 DEF Cursor!Seek
  <1>. QED
    BY <1>1, <1>2, <1>3

LEMMA SeekStep ==
  ASSUME Reading("buffered"), Buffer(stream), NEW i \in Nat, Seek(i)
  PROVE  Buffer(stream)' /\ Cursor!Seek(i)
  <1>. DEFINE ready == B!lazyInit(source, stream)
              t     == B!adjustSeekIndex(source, ready, i)
              next  == B!nextTokenOnChannel(source, i)
  <1>1. Source /\ reader = "buffered" /\ Visible' = Visible /\ eof \in Nat
    BY ReadingOn DEF Reading, Source
  <1>2. Filled(ready) /\ AtSymbol(ready)
    BY <1>1, BufferedPosition
  <1>3. stream' = t /\ answer' = t.p
    BY DEF Seek, Answered, B!seek
  <1>. HIDE DEF ready
  <1>4. Filled(t) /\ AtSymbol(t) /\ t.p = next
    BY <1>1, <1>2, AdjustMoves DEF AtSymbol
  <1>5. /\ next \in 0 .. eof /\ On(next)
        /\ i <= eof => /\ i <= next
                       /\ \A j \in i .. next - 1 : ~ On(j)
        /\ i > eof => next = eof
    BY <1>1, NextOn
  <1>. HIDE DEF t, next
  <1>6. Buffer(stream)' /\ Position' = Rank(next)
    BY <1>3, <1>4, BufferedMoved
  <1>7. Rank(next) \in 1 .. Total /\ Visible[Rank(next)] = next
    BY <1>1, <1>5, VisibleAt
  <1>8. ASSUME i <= eof, NEW before \in 1 .. Rank(next) - 1
        PROVE  Visible[before] < i
    <2>1. before \in 1 .. Total /\ before < Rank(next)
      <3>. DEFINE c == Rank(next)
      <3>1. c \in 1 .. Total /\ before \in 1 .. c - 1 /\ Total \in Nat
        BY <1>1, <1>7, VisibleAt
      <3>. HIDE DEF c
      <3>2. before \in 1 .. Total /\ before < c
        BY <3>1
      <3>. QED
        BY <3>2 DEF c
    <2>2. Visible[before] < next
      BY <1>1, <1>7, <2>1, VisibleOrdered
    <2>3. On(Visible[before]) /\ Visible[before] \in Nat
      BY <1>1, <2>1, VisibleAt
    <2>4. Visible[before] \notin i .. next - 1
      BY <1>5, <1>8, <2>3
    <2>. QED
      BY <1>1, <1>5, <2>2, <2>3, <2>4
  <1>9. i > eof => Rank(next) = Total
    BY <1>5 DEF Total
  <1>10. i <= eof => Visible[Rank(next)] >= i
    BY <1>1, <1>5, <1>7
  <1>11. answer' = Visible[Rank(next)]
    BY <1>3, <1>4, <1>7
  <1>12. Cursor!Seek(i)
    <2>. DEFINE c == Rank(next)
    <2>1. c \in 1 .. Total /\ Position' = c /\ answer' = Visible[c] /\ (i > eof => c = Total)
      BY <1>6, <1>7, <1>9, <1>11
    <2>2. i <= eof => Visible[c] >= i /\ \A before \in 1 .. c - 1 : Visible[before] < i
      BY <1>8, <1>10
    <2>. HIDE DEF c
    <2>. QED
      BY <1>1, <2>1, <2>2, CursorSeeks
  <1>. QED
    BY <1>6, <1>12

LEMMA CountStep ==
  ASSUME Reading("buffered"), Buffer(stream), Count
  PROVE  Buffer(stream)' /\ Cursor!Count
  <1>. DEFINE ready == B!lazyInit(source, stream)
              t     == B!fetch(source, ready, Len(source))
  <1>1. Source /\ reader = "buffered" /\ Visible' = Visible /\ Len(source) \in Nat /\ eof \in Nat
    BY ReadingOn DEF Reading, Source, eof, B!LastIndex
  <1>2. Position = Rank(ready.p) /\ Filled(ready) /\ AtSymbol(ready)
    BY <1>1, BufferedPosition
  <1>3. stream' = t /\ answer' = B!getNumberOfOnChannelTokens(source)
    BY DEF Count, Answered, B!fill
  <1>. HIDE DEF ready
  <1>4. Grown(ready, t)
    BY <1>1, <1>2, FetchGrows
  <1>. HIDE DEF t
  <1>5. Filled(t) /\ AtSymbol(t) /\ t.p = ready.p
    BY <1>1, <1>2, <1>4, GrownStays
  <1>6. Buffer(stream)' /\ Position' = Position
    BY <1>2, <1>3, <1>5, BufferedMoved
  <1>7. B!getNumberOfOnChannelTokens(source) = Total
    <2>1. {i \in 0 .. eof : B!ChannelAt(source, i) = B!DefaultChannel} = {i \in 0 .. eof : On(i)}
      BY <1>1 DEF Source
    <2>. QED
      BY <2>1, CountedAlike DEF B!getNumberOfOnChannelTokens, eof, Total, Rank
  <1>8. Len(Visible) = Total
    BY <1>1, VisibleAt
  <1>. QED
    BY <1>1, <1>3, <1>6, <1>7, <1>8 DEF Cursor!Count

LEMMA AskHiddenStep ==
  ASSUME Reading("buffered"), Buffer(stream), NEW i \in Nat, AskHidden(i)
  PROVE  Buffer(stream)' /\ UNCHANGED Cursor!vars
  <1>. DEFINE ready == B!lazyInit(source, stream)
              next  == B!nextTokenOnChannel(source, i + 1)
              t     == B!sync(source, ready, next)
  <1>1. Source /\ reader = "buffered" /\ Visible' = Visible /\ eof \in Nat
    BY ReadingOn DEF Reading, Source
  <1>2. Position = Rank(ready.p) /\ Filled(ready) /\ AtSymbol(ready)
    BY <1>1, BufferedPosition
  <1>3. stream' = t /\ answer' = answer
    BY DEF AskHidden
  <1>4. next \in Int
    BY <1>1, NextOn
  <1>. HIDE DEF ready, next
  <1>5. Grown(ready, t)
    BY <1>1, <1>2, <1>4, SyncGrows
  <1>. HIDE DEF t
  <1>6. Filled(t) /\ AtSymbol(t) /\ t.p = ready.p
    BY <1>1, <1>2, <1>5, GrownStays
  <1>7. Buffer(stream)' /\ Position' = Position
    BY <1>2, <1>3, <1>6, BufferedMoved
  <1>. QED
    BY <1>1, <1>3, <1>7 DEF Cursor!vars

LEMMA BufferedStep ==
  ASSUME Reading("buffered"), Buffer(stream), Buffered
  PROVE  Buffer(stream)' /\ [Cursor!Next]_Cursor!vars
  <1>1. CASE Consume
    BY <1>1, ConsumeStep DEF Cursor!Next
  <1>2. CASE Count
    BY <1>2, CountStep DEF Cursor!Next
  <1>3. CASE \E k \in 1 .. MaxLook : LookAhead(k)
    BY <1>3, LookAheadStep DEF Cursor!Next
  <1>4. CASE \E k \in 1 .. MaxLook : LookBack(k)
    BY <1>4, LookBackStep DEF Cursor!Next
  <1>5. CASE \E i \in 0 .. MaxTokens + 1 : Seek(i)
    <2>1. PICK i \in 0 .. MaxTokens + 1 : Seek(i)
      BY <1>5
    <2>2. i \in Nat
      OBVIOUS
    <2>. QED
      BY <2>1, <2>2, SeekStep DEF Cursor!Next
  <1>6. CASE \E i \in 0 .. MaxTokens + 1 : AskHidden(i)
    <2>1. PICK i \in 0 .. MaxTokens + 1 : AskHidden(i)
      BY <1>6
    <2>2. i \in Nat
      OBVIOUS
    <2>. QED
      BY <2>1, <2>2, AskHiddenStep
  <1>. QED
    BY <1>1, <1>2, <1>3, <1>4, <1>5, <1>6 DEF Buffered

-----------------------------------------------------------------------------
(* The unbuffered stream.  All tokens are symbols.                         *)

LEMMA AllVisible ==
  ASSUME Source, reader # "buffered"
  PROVE  /\ eof \in Nat /\ Total = eof + 1 /\ Len(Visible) = eof + 1
         /\ \A n \in 1 .. eof + 1 : Visible[n] = n - 1
  <1>1. eof \in Nat /\ \A i \in 0 .. eof : On(i)
    BY DEF Source
  <1>2. ASSUME NEW i \in 0 .. eof
        PROVE  Rank(i) = i + 1
    <2>1. Upto(i) = 0 .. i /\ i \in Nat
      BY <1>1 DEF Upto
    <2>2. Cardinality(0 .. i) = i + 1
      BY <2>1, FS_Interval
    <2>. QED
      BY <2>1, <2>2, RankType
  <1>3. Total = eof + 1
    BY <1>1, <1>2 DEF Total
  <1>4. ASSUME NEW n \in 1 .. eof + 1
        PROVE  Visible[n] = n - 1
    <2>1. n - 1 \in 0 .. eof /\ Rank(n - 1) = n
      BY <1>1, <1>2
    <2>. QED
      BY <1>1, <2>1, VisibleAt
  <1>. QED
    BY <1>1, <1>3, <1>4, VisibleAt

MaybeToken == Int \cup {NoToken}

WindowType ==
  [start : Nat, size : Nat, p : Nat, numMarkers : Nat,
   lastToken : MaybeToken, lastTokenBufferStart : MaybeToken]

\* The current token is in the window, which begins at the earliest mark at the
\* latest, and what was consumed since then is the token before.
Window(s, m) ==
  /\ s \in WindowType
  /\ s.p < s.size /\ s.start + s.size <= eof + 1
  /\ m \in Seq(Nat) /\ s.numMarkers = Len(m)
  /\ m # << >> => /\ s.start <= m[1] /\ m[1] <= s.start + s.p
                  /\ s.start + s.p > m[1] => s.lastToken = s.start + s.p - 1

IsWindow(t, start, size, p, numMarkers, lastToken, lastTokenBufferStart) ==
  /\ t \in WindowType
  /\ t.start = start /\ t.size = size /\ t.p = p /\ t.numMarkers = numMarkers
  /\ t.lastToken = lastToken /\ t.lastTokenBufferStart = lastTokenBufferStart

\* The records that the operations make of a window.
LEMMA MovedWindow ==
  ASSUME NEW s \in WindowType, NEW n \in Nat, NEW l \in MaybeToken
  PROVE  IsWindow([s EXCEPT !.p = n, !.lastToken = l],
                  s.start, s.size, n, s.numMarkers, l, s.lastTokenBufferStart)
  BY DEF WindowType, IsWindow

LEMMA MarkedWindow ==
  ASSUME NEW s \in WindowType, NEW n \in Nat, NEW l \in MaybeToken
  PROVE  IsWindow([s EXCEPT !.numMarkers = n, !.lastTokenBufferStart = l],
                  s.start, s.size, s.p, n, s.lastToken, l)
  BY DEF WindowType, IsWindow

LEMMA FlushedWindow ==
  ASSUME NEW s \in WindowType, NEW a \in Nat, NEW b \in Nat, NEW c \in Nat,
         NEW l \in MaybeToken, NEW m \in MaybeToken
  PROVE  IsWindow([s EXCEPT !.start = a, !.size = b, !.p = c, !.lastToken = l, !.lastTokenBufferStart = m],
                  a, b, c, s.numMarkers, l, m)
  <1>. DEFINE u1 == [s EXCEPT !.start = a]
              u2 == [u1 EXCEPT !.size = b]
              u3 == [u2 EXCEPT !.p = c]
              u4 == [u3 EXCEPT !.lastToken = l]
              u5 == [u4 EXCEPT !.lastTokenBufferStart = m]
  <1>1. [s EXCEPT !.start = a, !.size = b, !.p = c, !.lastToken = l, !.lastTokenBufferStart = m] = u5
    OBVIOUS
  <1>2. /\ u1 \in WindowType
        /\ u1.start = a /\ u1.size = s.size /\ u1.p = s.p
        /\ u1.numMarkers = s.numMarkers /\ u1.lastToken = s.lastToken /\ u1.lastTokenBufferStart = s.lastTokenBufferStart
    BY DEF WindowType
  <1>. HIDE DEF u1
  <1>3. /\ u2 \in WindowType
        /\ u2.start = a /\ u2.size = b /\ u2.p = s.p
        /\ u2.numMarkers = s.numMarkers /\ u2.lastToken = s.lastToken /\ u2.lastTokenBufferStart = s.lastTokenBufferStart
    BY <1>2 DEF WindowType
  <1>. HIDE DEF u2
  <1>4. /\ u3 \in WindowType
        /\ u3.start = a /\ u3.size = b /\ u3.p = c
        /\ u3.numMarkers = s.numMarkers /\ u3.lastToken = s.lastToken /\ u3.lastTokenBufferStart = s.lastTokenBufferStart
    BY <1>3 DEF WindowType
  <1>. HIDE DEF u3
  <1>5. /\ u4 \in WindowType
        /\ u4.start = a /\ u4.size = b /\ u4.p = c
        /\ u4.numMarkers = s.numMarkers /\ u4.lastToken = l /\ u4.lastTokenBufferStart = s.lastTokenBufferStart
    BY <1>4 DEF WindowType
  <1>. HIDE DEF u4
  <1>6. /\ u5 \in WindowType
        /\ u5.start = a /\ u5.size = b /\ u5.p = c
        /\ u5.numMarkers = s.numMarkers /\ u5.lastToken = l /\ u5.lastTokenBufferStart = m
    BY <1>5 DEF WindowType
  <1>. HIDE DEF u5
  <1>. QED
    BY <1>1, <1>6 DEF IsWindow

LEMMA ReleasedWindow ==
  ASSUME NEW s \in WindowType, NEW a \in Nat, NEW b \in Nat, NEW c \in Nat,
         NEW n \in Nat, NEW m \in MaybeToken
  PROVE  IsWindow([s EXCEPT !.numMarkers = n, !.lastTokenBufferStart = m, !.start = a, !.size = b, !.p = c],
                  a, b, c, n, s.lastToken, m)
  <1>. DEFINE u1 == [s EXCEPT !.numMarkers = n]
              u2 == [u1 EXCEPT !.lastTokenBufferStart = m]
              u3 == [u2 EXCEPT !.start = a]
              u4 == [u3 EXCEPT !.size = b]
              u5 == [u4 EXCEPT !.p = c]
  <1>1. [s EXCEPT !.numMarkers = n, !.lastTokenBufferStart = m, !.start = a, !.size = b, !.p = c] = u5
    OBVIOUS
  <1>2. /\ u1 \in WindowType
        /\ u1.start = s.start /\ u1.size = s.size /\ u1.p = s.p
        /\ u1.numMarkers = n /\ u1.lastToken = s.lastToken /\ u1.lastTokenBufferStart = s.lastTokenBufferStart
    BY DEF WindowType
  <1>. HIDE DEF u1
  <1>3. /\ u2 \in WindowType
        /\ u2.start = s.start /\ u2.size = s.size /\ u2.p = s.p
        /\ u2.numMarkers = n /\ u2.lastToken = s.lastToken /\ u2.lastTokenBufferStart = m
    BY <1>2 DEF WindowType
  <1>. HIDE DEF u2
  <1>4. /\ u3 \in WindowType
        /\ u3.start = a /\ u3.size = s.size /\ u3.p = s.p
        /\ u3.numMarkers = n /\ u3.lastToken = s.lastToken /\ u3.lastTokenBufferStart = m
    BY <1>3 DEF WindowType
  <1>. HIDE DEF u3
  <1>5. /\ u4 \in WindowType
        /\ u4.start = a /\ u4.size = b /\ u4.p = s.p
        /\ u4.numMarkers = n /\ u4.lastToken = s.lastToken /\ u4.lastTokenBufferStart = m
    BY <1>4 DEF WindowType
  <1>. HIDE DEF u4
  <1>6. /\ u5 \in WindowType
        /\ u5.start = a /\ u5.size = b /\ u5.p = c
        /\ u5.numMarkers = n /\ u5.lastToken = s.lastToken /\ u5.lastTokenBufferStart = m
    BY <1>5 DEF WindowType
  <1>. HIDE DEF u5
  <1>. QED
    BY <1>1, <1>6 DEF IsWindow

LEMMA FillIs ==
  ASSUME NEW s \in WindowType, NEW n \in Nat, eof \in Nat, s.start + s.size <= eof + 1
  PROVE  LET t == U!fill(eof, s, n)
         IN  /\ t = [s EXCEPT !.size = t.size]
             /\ t \in WindowType
             /\ t.size = IF s.start + s.size + n <= eof + 1 THEN s.size + n ELSE eof - s.start + 1
  <1>1. s.start \in Nat /\ s.size \in Nat
    BY DEF WindowType
  <1>2. U!Min({s.size + n, eof - s.start + 1}) =
          IF s.size + n <= eof - s.start + 1 THEN s.size + n ELSE eof - s.start + 1
    <2>. DEFINE a == s.size + n
                b == eof - s.start + 1
    <2>1. a \in Int /\ b \in Int
      BY <1>1
    <2>. HIDE DEF a, b
    <2>2. U!Min({a, b}) = IF a <= b THEN a ELSE b
      BY <2>1, OfTwo
    <2>. QED
      BY <2>2 DEF a, b
  <1>. DEFINE size == U!Min({s.size + n, eof - s.start + 1})
              t    == U!fill(eof, s, n)
  <1>3. t = [s EXCEPT !.size = size]
    BY DEF U!fill
  <1>4. size \in Nat /\ size = IF s.start + s.size + n <= eof + 1 THEN s.size + n ELSE eof - s.start + 1
    BY <1>1, <1>2
  <1>. HIDE DEF size, t
  <1>5. t.size = size /\ t \in WindowType
    BY <1>3, <1>4 DEF WindowType
  <1>. QED
    BY <1>3, <1>4, <1>5 DEF t

\* What sync does: it fetches what is missing of the `want' tokens from the
\* current one on.
Synced(s, want, t) ==
  /\ t \in WindowType /\ t.start + t.size <= eof + 1 /\ s.size <= t.size
  /\ t.start = s.start /\ t.p = s.p /\ t.numMarkers = s.numMarkers
  /\ t.lastToken = s.lastToken /\ t.lastTokenBufferStart = s.lastTokenBufferStart
  /\ s.p + want <= s.size => t.size = s.size
  /\ s.p + want > s.size =>
       t.size = IF s.start + s.p + want <= eof + 1 THEN s.p + want ELSE eof - s.start + 1

LEMMA SyncIs ==
  ASSUME NEW s \in WindowType, NEW want \in Nat, eof \in Nat, s.start + s.size <= eof + 1
  PROVE  Synced(s, want, U!sync(eof, s, want))
  <1>. DEFINE n == U!Max({0, s.p + want - s.size})
              t == U!fill(eof, s, n)
  <1>1. s.start \in Nat /\ s.size \in Nat /\ s.p \in Nat
    BY DEF WindowType
  <1>2. n = IF 0 <= s.p + want - s.size THEN s.p + want - s.size ELSE 0
    <2>. DEFINE b == s.p + want - s.size
    <2>1. 0 \in Int /\ b \in Int
      BY <1>1
    <2>. HIDE DEF b
    <2>2. U!Max({0, b}) = IF 0 <= b THEN b ELSE 0
      BY <2>1, OfTwo
    <2>. QED
      BY <2>2 DEF b
  <1>3. U!sync(eof, s, want) = t
    BY DEF U!sync
  <1>. HIDE DEF n
  <1>4. n \in Nat
    BY <1>1, <1>2
  <1>5. /\ t = [s EXCEPT !.size = t.size]
        /\ t \in WindowType
        /\ t.size = IF s.start + s.size + n <= eof + 1 THEN s.size + n ELSE eof - s.start + 1
    BY <1>4, FillIs
  <1>. HIDE DEF t
  <1>6. /\ t.start = s.start /\ t.p = s.p /\ t.numMarkers = s.numMarkers
        /\ t.lastToken = s.lastToken /\ t.lastTokenBufferStart = s.lastTokenBufferStart
    BY <1>5 DEF WindowType
  <1>7. t.start + t.size <= eof + 1 /\ s.size <= t.size
    BY <1>1, <1>4, <1>5, <1>6
  <1>8. s.p + want <= s.size => t.size = s.size
    BY <1>1, <1>2, <1>5
  <1>9. s.p + want > s.size =>
                  t.size = IF s.start + s.p + want <= eof + 1 THEN s.p + want ELSE eof - s.start + 1
    BY <1>1, <1>2, <1>5
  <1>. QED
    BY <1>3, <1>5, <1>6, <1>7, <1>8, <1>9 DEF Synced

LEMMA WindowPosition ==
  ASSUME Source, reader = "unbuffered", Window(stream, marks)
  PROVE  /\ eof \in Nat
         /\ Position = stream.start + stream.p + 1 /\ Position \in 1 .. eof + 1
         /\ stream.start \in Nat /\ stream.p \in Nat /\ stream.size \in Nat
  <1>1. stream.start \in Nat /\ stream.p \in Nat /\ stream.size \in Nat
    BY DEF Window, WindowType
  <1>2. eof \in Nat
    BY DEF Source
  <1>3. Position = stream.start + stream.p + 1
    BY DEF Position, U!index
  <1>. QED
    BY <1>1, <1>2, <1>3 DEF Window

LEMMA WindowMoved ==
  ASSUME Reading("unbuffered"), Window(stream', marks')
  PROVE  Window(stream, marks)' /\ Position' = stream'.start + stream'.p + 1
  <1>1. eof' = eof /\ reader' = "unbuffered"
    BY ReadingOn DEF Reading
  <1>. QED
    BY <1>1 DEF Window, WindowType, Position, U!index

LEMMA TokenAheadStep ==
  ASSUME Reading("unbuffered"), Window(stream, marks), NEW k \in 1 .. MaxLook, TokenAhead(k)
  PROVE  Window(stream, marks)' /\ Cursor!LT(k)
  <1>. DEFINE t == U!sync(eof, stream, k)
  <1>1. Source /\ reader = "unbuffered" /\ Visible' = Visible /\ k \in Nat \ {0}
    BY ReadingOn, StreamBounds DEF Reading, StreamBounds
  <1>2. /\ eof \in Nat
        /\ Position = stream.start + stream.p + 1 /\ Position \in 1 .. eof + 1
        /\ stream.start \in Nat /\ stream.p \in Nat /\ stream.size \in Nat
        /\ stream \in WindowType /\ stream.p < stream.size /\ stream.start + stream.size <= eof + 1
    BY <1>1, WindowPosition DEF Window
  <1>3. Len(Visible) = eof + 1 /\ \A n \in 1 .. eof + 1 : Visible[n] = n - 1
    BY <1>1, AllVisible
  <1>4. /\ stream' = t /\ marks' = marks
        /\ answer' = U!Min({stream.start + stream.p + k - 1, t.start + t.size - 1})
    BY DEF TokenAhead, Answered, U!LT, U!LastInWindow
  <1>5. Synced(stream, k, t)
    BY <1>1, <1>2, SyncIs
  <1>. HIDE DEF t
  <1>6. t.start = stream.start /\ t.p = stream.p /\ t.size \in Nat
    BY <1>5 DEF Synced, WindowType
  <1>7. Window(t, marks)
    BY <1>2, <1>5, <1>6 DEF Window, Synced
  <1>8. Window(stream, marks)' /\ Position' = Position
    BY <1>2, <1>4, <1>6, <1>7, WindowMoved
  <1>9. answer' = IF stream.start + stream.p + k <= eof + 1 THEN stream.start + stream.p + k - 1 ELSE eof
    <2>. DEFINE a == stream.start + stream.p + k - 1
                b == t.start + t.size - 1
    <2>1. a \in Int /\ b \in Int
      BY <1>1, <1>2, <1>6
    <2>2. answer' = U!Min({a, b})
      BY <1>4
    <2>. HIDE DEF a, b
    <2>3. answer' = IF a <= b THEN a ELSE b
      BY <2>1, <2>2, OfTwo
    <2>. QED
      BY <1>1, <1>2, <1>5, <1>6, <2>3 DEF a, b, Synced
  <1>. DEFINE at == Cursor!Smaller(Position + k - 1, Len(Visible))
  <1>10. at \in 1 .. eof + 1 /\ at = IF Position + k - 1 < eof + 1 THEN Position + k - 1 ELSE eof + 1
    <2>1. /\ Position \in 1 .. eof + 1 /\ eof \in Nat /\ k \in Nat \ {0}
          /\ Len(Visible) = eof + 1
      BY <1>1, <1>2, <1>3
    <2>2. at = IF Position + k - 1 < eof + 1 THEN Position + k - 1 ELSE eof + 1
      BY <2>1 DEF Cursor!Smaller
    <2>. HIDE DEF at
    <2>. QED
      BY <2>1, <2>2
  <1>. HIDE DEF at
  <1>11. Visible[at] = at - 1
    BY <1>3, <1>10
  <1>12. answer' = Visible[at]
    <2>. DEFINE i == stream.start + stream.p
    <2>1. i \in Nat /\ Position = i + 1 /\ answer' = IF i + k <= eof + 1 THEN i + k - 1 ELSE eof
      BY <1>2, <1>9
    <2>. HIDE DEF i
    <2>2. answer' = at - 1
      BY <1>1, <1>2, <1>10, <2>1
    <2>. QED
      BY <1>11, <2>2
  <1>. QED
    BY <1>1, <1>8, <1>12 DEF Cursor!LT, at

LEMMA ConsumeTokenStep ==
  ASSUME Reading("unbuffered"), Window(stream, marks), ConsumeToken
  PROVE  Window(stream, marks)' /\ Cursor!Consume
  <1>. DEFINE i == stream.start + stream.p
  <1>1. Source /\ reader = "unbuffered" /\ Visible' = Visible
    BY ReadingOn DEF Reading
  <1>2. /\ eof \in Nat
        /\ Position = i + 1 /\ Position \in 1 .. eof + 1
        /\ stream.start \in Nat /\ stream.p \in Nat /\ stream.size \in Nat
        /\ stream \in WindowType /\ stream.p < stream.size /\ stream.start + stream.size <= eof + 1
    BY <1>1, WindowPosition DEF Window
  <1>3. Len(Visible) = eof + 1 /\ \A n \in 1 .. eof + 1 : Visible[n] = n - 1
    BY <1>1, AllVisible
  <1>4. U!LT(eof, stream, 1).index = i
    <2>. DEFINE t == U!sync(eof, stream, 1)
                b == t.start + t.size - 1
    <2>1. Synced(stream, 1, t)
      <3>1. 1 \in Nat
        OBVIOUS
      <3>. QED
        BY <1>2, <3>1, SyncIs
    <2>2. U!LT(eof, stream, 1).index = U!Min({i + 1 - 1, b})
      BY DEF U!LT, U!LastInWindow
    <2>. HIDE DEF t
    <2>3. t.start = stream.start /\ t.size \in Nat /\ stream.size <= t.size
      BY <2>1 DEF WindowType, Synced
    <2>4. b \in Int /\ i \in Int /\ i + 1 - 1 = i /\ i <= b
      BY <1>2, <2>1, <2>3
    <2>. HIDE DEF b, i
    <2>. QED
      BY <2>2, <2>4, OfTwo
  <1>5. CASE i = eof
    <2>1. stream' = stream /\ marks' = marks /\ answer' = CannotConsumeEOF
      BY <1>4, <1>5 DEF ConsumeToken, Answered
    <2>2. Window(stream, marks)' /\ Position' = Position
      BY <1>2, <2>1, WindowMoved
    <2>. QED
      BY <1>1, <1>2, <1>3, <1>5, <2>1, <2>2 DEF Cursor!Consume
  <1>6. CASE i # eof
    <2>. DEFINE moved == IF U!Flush(stream)
                         THEN [stream EXCEPT !.start = i + 1, !.size = 0, !.p = 0,
                                             !.lastToken = i, !.lastTokenBufferStart = i]
                         ELSE [stream EXCEPT !.p = @ + 1, !.lastToken = i]
                t == U!sync(eof, moved, 1)
    <2>1. i \in Nat /\ i < eof
      BY <1>2, <1>6
    <2>13. i \in MaybeToken
      BY <2>1 DEF MaybeToken
    <2>2. U!consume(eof, stream) = t
      BY DEF U!consume, U!index
    <2>3. stream' = t /\ marks' = marks /\ answer' = t.start + t.p
      BY <1>4, <1>6, <2>2 DEF ConsumeToken, Answered, U!index
    <2>4. /\ moved \in WindowType /\ moved.start + moved.p = i + 1 /\ moved.lastToken = i
          /\ moved.start + moved.size <= eof + 1 /\ moved.p <= moved.size
          /\ moved.numMarkers = stream.numMarkers
          /\ marks # << >> => moved.start = stream.start
      <3>1. CASE U!Flush(stream)
        <4>1. moved = [stream EXCEPT !.start = i + 1, !.size = 0, !.p = 0,
                                             !.lastToken = i, !.lastTokenBufferStart = i]
          BY <3>1
        <4>2. marks = << >>
          <5>1. Len(marks) = 0 /\ marks \in Seq(Nat)
            BY <3>1 DEF U!Flush, Window
          <5>. QED
            BY <5>1, EmptySeq
        <4>. HIDE DEF moved, i
        <4>3. /\ moved \in WindowType /\ moved.start = i + 1 /\ moved.p = 0 /\ moved.size = 0
              /\ moved.lastToken = i /\ moved.numMarkers = stream.numMarkers
          <5>. DEFINE a == i + 1
          <5>1. a \in Nat /\ 0 \in Nat /\ stream \in WindowType
            BY <1>2, <2>1
          <5>2. moved = [stream EXCEPT !.start = a, !.size = 0, !.p = 0, !.lastToken = i, !.lastTokenBufferStart = i]
            BY <4>1
          <5>. HIDE DEF a
          <5>3. IsWindow(moved, a, 0, 0, stream.numMarkers, i, i)
            BY <2>13, <5>1, <5>2, FlushedWindow, Zenon
          <5>. QED
            BY <5>3 DEF IsWindow, a
        <4>. QED
          BY <1>2, <2>1, <4>2, <4>3
      <3>2. CASE ~ U!Flush(stream)
        <4>1. moved = [stream EXCEPT !.p = stream.p + 1, !.lastToken = i]
          BY <3>2
        <4>. HIDE DEF moved
        <4>2. /\ moved \in WindowType /\ moved.start = stream.start /\ moved.p = stream.p + 1
              /\ moved.size = stream.size
              /\ moved.lastToken = i /\ moved.numMarkers = stream.numMarkers
          <5>. DEFINE a == stream.p + 1
          <5>1. a \in Nat /\ stream \in WindowType
            BY <1>2
          <5>. HIDE DEF i
          <5>2. moved = [stream EXCEPT !.p = a, !.lastToken = i]
            BY <4>1
          <5>. HIDE DEF a
          <5>3. IsWindow(moved, stream.start, stream.size, a, stream.numMarkers, i, stream.lastTokenBufferStart)
            BY <2>13, <5>1, <5>2, MovedWindow, Zenon
          <5>. QED
            BY <5>3 DEF IsWindow, a
        <4>. QED
          BY <1>2, <4>2
      <3>. QED
        BY <3>1, <3>2
    <2>. HIDE DEF moved, i
    <2>5. Synced(moved, 1, t)
      <3>1. 1 \in Nat
        OBVIOUS
      <3>. QED
        BY <1>2, <2>4, <3>1, SyncIs
    <2>. HIDE DEF t
    <2>6. /\ t \in WindowType /\ t.start + t.size <= eof + 1 /\ moved.size <= t.size
          /\ t.start = moved.start /\ t.p = moved.p /\ t.lastToken = i /\ t.size \in Nat
          /\ t.numMarkers = stream.numMarkers
          /\ moved.p \in Nat /\ moved.size \in Nat /\ moved.start \in Nat
          /\ moved.p + 1 > moved.size =>
               t.size = IF moved.start + moved.p + 1 <= eof + 1 THEN moved.p + 1 ELSE eof - moved.start + 1
      BY <2>4, <2>5 DEF WindowType, Synced
    <2>7. t.p < t.size
      <3>1. moved.start + moved.p = i + 1 /\ moved.p <= moved.size
        BY <2>4
      <3>2. moved.p + 1 > moved.size => t.size = moved.p + 1
        BY <1>2, <2>1, <2>6, <3>1
      <3>. QED
        BY <2>6, <3>1, <3>2
    <2>8. t.start + t.p = i + 1 /\ t.start + t.p - 1 = i
      BY <2>1, <2>4, <2>6
    <2>9. marks # << >> => t.start <= marks[1] /\ marks[1] <= i + 1
      <3>1. ASSUME marks # << >>
            PROVE  t.start <= marks[1] /\ marks[1] <= i + 1
        <4>1. stream.start <= marks[1] /\ marks[1] <= i /\ t.start = stream.start
          BY <2>4, <2>6, <3>1 DEF Window, i
        <4>2. marks[1] \in Nat
          BY <3>1, EmptySeq, LenProperties DEF Window
        <4>. QED
          BY <2>1, <4>1, <4>2
      <3>. QED
        BY <3>1
    <2>10. Window(t, marks)
      BY <2>6, <2>7, <2>8, <2>9 DEF Window
    <2>11. Window(stream, marks)' /\ Position' = i + 2
      BY <2>1, <2>3, <2>8, <2>10, WindowMoved
    <2>12. Visible[i + 2] = i + 1
      BY <1>2, <1>3, <2>1
    <2>. QED
      <3>1. Position = i + 1 /\ Len(Visible) = eof + 1 /\ eof \in Nat
        BY <1>2, <1>3 DEF i
      <3>2. Position # Len(Visible) /\ Position + 1 = i + 2
        BY <1>6, <2>1, <3>1 DEF i
      <3>3. answer' = Visible[Position'] /\ Position' = Position + 1
        BY <2>3, <2>8, <2>11, <2>12, <3>2
      <3>. QED
        BY <1>1, <2>11, <3>1, <3>2, <3>3 DEF Cursor!Consume
  <1>. QED
    BY <1>5, <1>6

LEMMA TokenBackStep ==
  ASSUME Reading("unbuffered"), Window(stream, marks), TokenBack
  PROVE  Window(stream, marks)' /\ Cursor!LB(1)
  <1>1. Source /\ reader = "unbuffered" /\ Visible' = Visible
    BY ReadingOn DEF Reading
  <1>2. /\ eof \in Nat
        /\ Position = stream.start + stream.p + 1 /\ Position \in 1 .. eof + 1
        /\ stream.start \in Nat /\ stream.p \in Nat
    BY <1>1, WindowPosition
  <1>3. \A n \in 1 .. eof + 1 : Visible[n] = n - 1
    BY <1>1, AllVisible
  <1>4. stream' = stream /\ marks' = marks /\ answer' = stream.lastToken
    BY DEF TokenBack, Answered, U!LB
  <1>5. stream.lastToken = Position - 2
    <2>1. marks # << >> /\ stream.start + stream.p > marks[1]
      BY DEF TokenBack, U!index
    <2>2. marks # << >> /\ stream.start + stream.p > marks[1] => stream.lastToken = stream.start + stream.p - 1
      BY Zenon DEF Window
    <2>. QED
      BY <1>2, <2>1, <2>2
  <1>6. Window(stream, marks)' /\ Position' = Position
    BY <1>2, <1>4, WindowMoved
  <1>7. 1 < Position => Visible[Position - 1] = Position - 2
    BY <1>2, <1>3
  <1>. QED
    BY <1>1, <1>4, <1>5, <1>6, <1>7 DEF Cursor!LB

LEMMA MarkStep ==
  ASSUME Reading("unbuffered"), Window(stream, marks), Mark
  PROVE  Window(stream, marks)' /\ UNCHANGED Cursor!vars
  <1>. DEFINE i == stream.start + stream.p
  <1>1. Source /\ reader = "unbuffered" /\ Visible' = Visible
    BY ReadingOn DEF Reading
  <1>2. Position = i + 1 /\ i \in Nat /\ stream \in WindowType
    BY <1>1, WindowPosition DEF Window
  <1>3. /\ stream' = [stream EXCEPT !.numMarkers = @ + 1,
                        !.lastTokenBufferStart = IF stream.numMarkers = 0 THEN stream.lastToken ELSE @]
        /\ marks' = Append(marks, i) /\ answer' = answer
    BY DEF Mark, U!mark, U!index
  <1>4. /\ stream' \in WindowType /\ stream'.start = stream.start /\ stream'.p = stream.p
        /\ stream'.size = stream.size /\ stream'.lastToken = stream.lastToken
        /\ stream'.numMarkers = stream.numMarkers + 1
    <2>. DEFINE l == IF stream.numMarkers = 0 THEN stream.lastToken ELSE stream.lastTokenBufferStart
                n == stream.numMarkers + 1
    <2>1. n \in Nat /\ l \in MaybeToken /\ stream \in WindowType
      BY <1>2 DEF WindowType
    <2>2. stream' = [stream EXCEPT !.numMarkers = n, !.lastTokenBufferStart = l]
      BY <1>3
    <2>. HIDE DEF l, n
    <2>3. IsWindow(stream', stream.start, stream.size, stream.p, n, stream.lastToken, l)
      BY <2>1, <2>2, MarkedWindow, Zenon
    <2>. QED
      BY <2>3 DEF IsWindow, n
  <1>5. marks \in Seq(Nat) /\ Len(marks) \in Nat
    BY DEF Window
  <1>6. /\ marks' \in Seq(Nat) /\ Len(marks') = Len(marks) + 1
        /\ marks'[1] = IF marks = << >> THEN i ELSE marks[1]
    <2>. HIDE DEF i
    <2>1. /\ Append(marks, i) \in Seq(Nat) /\ Len(Append(marks, i)) = Len(marks) + 1
          /\ \A n \in 1 .. Len(marks) : Append(marks, i)[n] = marks[n]
          /\ Append(marks, i)[Len(marks) + 1] = i
      BY <1>2, <1>5, AppendProperties
    <2>2. marks = << >> => Len(marks) = 0
      OBVIOUS
    <2>3. marks # << >> => 1 \in 1 .. Len(marks)
      BY <1>5, EmptySeq
    <2>. QED
      BY <1>3, <2>1, <2>2, <2>3
  <1>7. stream'.start <= marks'[1] /\ marks'[1] <= i /\ (i > marks'[1] => stream'.lastToken = i - 1)
    <2>1. CASE marks = << >>
      BY <1>2, <1>4, <1>6, <2>1 DEF WindowType
    <2>2. CASE marks # << >>
      <3>1. stream.start <= marks[1] /\ marks[1] <= i
        BY <2>2, Zenon DEF Window
      <3>2. i > marks[1] => stream.lastToken = i - 1
        <4>1. \/ marks = << >>
              \/ /\ stream.start <= marks[1] /\ marks[1] <= stream.start + stream.p
                 /\ stream.start + stream.p > marks[1] => stream.lastToken = stream.start + stream.p - 1
          BY Zenon DEF Window
        <4>2. stream.start \in Nat /\ stream.p \in Nat
          BY <1>2 DEF WindowType
        <4>3. marks[1] \in Nat
          BY <1>5, <2>2
        <4>. QED
          BY <2>2, <4>1, <4>2, <4>3
      <3>. HIDE DEF i
      <3>. QED
        BY <1>4, <1>6, <2>2, <3>1, <3>2
    <2>. QED
      BY <2>1, <2>2
  <1>8. Window(stream', marks')
    BY <1>4, <1>6, <1>7 DEF Window
  <1>9. Window(stream, marks)' /\ Position' = Position
    BY <1>2, <1>4, <1>8, WindowMoved
  <1>. QED
    BY <1>1, <1>3, <1>9 DEF Cursor!vars

LEMMA ReleaseStep ==
  ASSUME Reading("unbuffered"), Window(stream, marks), Release
  PROVE  Window(stream, marks)' /\ UNCHANGED Cursor!vars
  <1>. DEFINE i == stream.start + stream.p
  <1>1. Source /\ reader = "unbuffered" /\ Visible' = Visible
    BY ReadingOn DEF Reading
  <1>2. /\ Position = i + 1 /\ i \in Nat /\ eof \in Nat
        /\ stream \in WindowType /\ stream.p < stream.size /\ stream.start + stream.size <= eof + 1
        /\ stream.start \in Nat /\ stream.p \in Nat /\ stream.size \in Nat
        /\ marks \in Seq(Nat) /\ marks # << >> /\ Len(marks) \in Nat /\ Len(marks) # 0
        /\ stream.numMarkers = Len(marks)
    <2>1. /\ Position = i + 1 /\ eof \in Nat
          /\ stream.start \in Nat /\ stream.p \in Nat /\ stream.size \in Nat
      BY <1>1, WindowPosition
    <2>2. /\ stream \in WindowType /\ stream.p < stream.size /\ stream.start + stream.size <= eof + 1
          /\ marks \in Seq(Nat) /\ stream.numMarkers = Len(marks)
      BY Zenon DEF Window
    <2>3. marks # << >>
      BY DEF Release
    <2>4. Len(marks) \in Nat /\ Len(marks) # 0
      BY <2>2, <2>3, EmptySeq
    <2>. QED
      BY <2>1, <2>2, <2>3, <2>4
  <1>3. marks' = SubSeq(marks, 1, Len(marks) - 1) /\ stream' = U!release(stream) /\ answer' = answer
    BY DEF Release, Front
  <1>4. /\ marks' \in Seq(Nat) /\ Len(marks') = Len(marks) - 1
        /\ \A n \in 1 .. Len(marks) - 1 : marks'[n] = marks[n]
    <2>1. 1 \in 1 .. Len(marks) + 1 /\ Len(marks) - 1 \in 1 - 1 .. Len(marks)
      BY <1>2
    <2>2. /\ SubSeq(marks, 1, Len(marks) - 1) \in Seq(Nat)
          /\ Len(SubSeq(marks, 1, Len(marks) - 1)) = Len(marks) - 1
          /\ \A n \in 1 .. Len(marks) - 1 : SubSeq(marks, 1, Len(marks) - 1)[n] = marks[n]
      <3>. DEFINE n == Len(marks) - 1
      <3>1. n \in 1 - 1 .. Len(marks) /\ n - 1 + 1 = n
        BY <2>1
      <3>. HIDE DEF n
      <3>2. SubSeq(marks, 1, n) \in Seq(Nat) /\ Len(SubSeq(marks, 1, n)) = n - 1 + 1
            /\ \A j \in 1 .. n - 1 + 1 : SubSeq(marks, 1, n)[j] = marks[1 + j - 1]
        <4>1. marks \in Seq(Nat) /\ 1 \in 1 .. Len(marks) + 1
          BY <1>2, <2>1
        <4>. QED
          BY <3>1, <4>1, SubSeqProperties
      <3>3. \A j \in 1 .. n : 1 + j - 1 = j
        BY <3>1
      <3>. QED
        BY <3>1, <3>2, <3>3 DEF n
    <2>. QED
      BY <1>3, <2>2
  <1>5. CASE stream.numMarkers > 1
    <2>1. stream' = [stream EXCEPT !.numMarkers = stream.numMarkers - 1]
      BY <1>3, <1>5 DEF U!release
    <2>2. /\ stream' \in WindowType /\ stream'.start = stream.start /\ stream'.p = stream.p
          /\ stream'.size = stream.size /\ stream'.lastToken = stream.lastToken
          /\ stream'.numMarkers = stream.numMarkers - 1
      <3>1. stream.numMarkers - 1 \in Nat
        BY <1>2, <1>5
      <3>. QED
        BY <1>2, <2>1, <3>1 DEF WindowType
    <2>3. marks'[1] = marks[1]
      BY <1>2, <1>4, <1>5
    <2>4. Window(stream', marks')
      BY <1>2, <1>4, <2>2, <2>3 DEF Window
    <2>5. Window(stream, marks)' /\ Position' = Position
      BY <1>2, <2>2, <2>4, WindowMoved
    <2>. QED
      BY <1>1, <1>3, <2>5 DEF Cursor!vars
  <1>6. CASE ~ (stream.numMarkers > 1)
    <2>1. stream' = [stream EXCEPT !.numMarkers = 0, !.lastTokenBufferStart = stream.lastToken,
                                   !.start = i, !.size = stream.size - stream.p, !.p = 0]
      BY <1>3, <1>6 DEF U!release, U!index
    <2>. HIDE DEF i
    <2>2. /\ stream' \in WindowType /\ stream'.start = i /\ stream'.p = 0
          /\ stream'.size = stream.size - stream.p /\ stream'.numMarkers = 0
      <3>. DEFINE rest == stream.size - stream.p
      <3>1. rest \in Nat /\ 0 \in Nat /\ stream.lastToken \in MaybeToken /\ stream \in WindowType
        BY <1>2 DEF WindowType
      <3>2. stream' = [stream EXCEPT !.numMarkers = 0, !.lastTokenBufferStart = stream.lastToken,
                                     !.start = i, !.size = rest, !.p = 0]
        BY <2>1
      <3>. HIDE DEF rest
      <3>3. IsWindow(stream', i, rest, 0, 0, stream.lastToken, stream.lastToken)
        BY <1>2, <3>1, <3>2, ReleasedWindow, Zenon
      <3>. QED
        BY <3>3 DEF IsWindow, rest
    <2>3. Len(marks') = 0 /\ marks' = << >>
      BY <1>2, <1>4, <1>6, EmptySeq
    <2>4. i + (stream.size - stream.p) <= eof + 1 /\ 0 < stream.size - stream.p
      BY <1>2 DEF i
    <2>5. Window(stream', marks')
      BY <1>4, <2>2, <2>3, <2>4 DEF Window
    <2>6. Window(stream, marks)' /\ Position' = Position
      BY <1>2, <2>2, <2>5, WindowMoved
    <2>. QED
      BY <1>1, <1>3, <2>6 DEF Cursor!vars
  <1>. QED
    BY <1>5, <1>6

LEMMA SeekTokenStep ==
  ASSUME Reading("unbuffered"), Window(stream, marks), NEW i \in Nat, SeekToken(i)
  PROVE  Window(stream, marks)' /\ Cursor!Seek(i)
  <1>. DEFINE at == stream.start + stream.p
              to == i - stream.start
  <1>1. Source /\ reader = "unbuffered" /\ Visible' = Visible
    BY ReadingOn DEF Reading
  <1>2. /\ Position = at + 1 /\ eof \in Nat
        /\ stream \in WindowType /\ stream.p < stream.size /\ stream.start + stream.size <= eof + 1
        /\ stream.start \in Nat /\ stream.p \in Nat /\ stream.size \in Nat
    BY <1>1, WindowPosition DEF Window
  <1>3. Total = eof + 1 /\ \A n \in 1 .. eof + 1 : Visible[n] = n - 1
    BY <1>1, AllVisible
  <1>4. /\ i <= stream.start + stream.size - 1
        /\ marks = << >> => i >= at
        /\ marks # << >> => i >= marks[1]
    BY DEF SeekToken, U!LastInWindow, U!index
  <1>5. ~ (i < stream.start) /\ i <= eof
    <2>1. marks # << >> => stream.start <= marks[1] /\ marks[1] \in Nat
      BY EmptySeq, LenProperties DEF Window
    <2>. QED
      BY <1>2, <1>4, <2>1
  <1>6. stream' = U!seek(eof, stream, i) /\ marks' = marks /\ answer' = stream'.start + stream'.p
    BY <1>5 DEF SeekToken, Answered, U!index
  <1>7. /\ stream' \in WindowType /\ stream'.start = stream.start /\ stream'.size = stream.size
        /\ stream'.numMarkers = stream.numMarkers
        /\ stream'.p = to /\ to \in Nat
        /\ marks # << >> /\ i > marks[1] => stream'.lastToken = i - 1
    <2>1. CASE i = at
      <3>1. stream' = stream
        BY <1>6, <2>1 DEF U!seek, U!index
      <3>. QED
        BY <1>2, <2>1, <3>1 DEF Window
    <2>2. CASE i # at
      <3>. DEFINE synced == IF i > at THEN U!sync(eof, stream, i - at) ELSE stream
                  target == U!Min({i, synced.start + synced.size - 1}) - synced.start
      <3>1. synced = stream
        <4>1. CASE i > at
          <5>. DEFINE t == U!sync(eof, stream, i - at)
          <5>1. i - at \in Nat /\ stream.p + (i - at) <= stream.size
            BY <1>2, <1>4, <4>1
          <5>2. Synced(stream, i - at, t)
            <6>. DEFINE want == i - at
            <6>1. want \in Nat
              BY <5>1
            <6>. HIDE DEF want
            <6>2. Synced(stream, want, U!sync(eof, stream, want))
              BY <1>2, <6>1, SyncIs
            <6>. QED
              BY <6>2 DEF want
          <5>. HIDE DEF t, at
          <5>3. t = stream
            BY <1>2, <5>1, <5>2 DEF WindowType, Synced
          <5>. QED
            BY <4>1, <5>3 DEF t
        <4>. QED
          BY <4>1
      <3>. HIDE DEF synced
      <3>2. target = to
        <4>. DEFINE b == synced.start + synced.size - 1
        <4>1. b \in Int /\ i <= b /\ i \in Int
          BY <1>2, <1>4, <3>1
        <4>. HIDE DEF b
        <4>2. U!Min({i, b}) = i
          BY <4>1, OfTwo
        <4>. QED
          BY <3>1, <4>2 DEF b
      <3>3. stream' = [synced EXCEPT !.p = target,
                         !.lastToken = IF target = 0 THEN stream.lastTokenBufferStart
                                       ELSE synced.start + target - 1]
        BY <1>6, <2>2 DEF U!seek, U!index, U!Target, U!LastInWindow, synced
      <3>. HIDE DEF target
      <3>4. to \in Nat
        BY <1>2, <1>5
      <3>5. stream' = [stream EXCEPT !.p = to,
                         !.lastToken = IF to = 0 THEN stream.lastTokenBufferStart
                                       ELSE stream.start + to - 1]
        BY <3>1, <3>2, <3>3
      <3>6. marks # << >> /\ i > marks[1] => to # 0
        <4>1. marks # << >> => stream.start <= marks[1] /\ marks[1] \in Nat
          BY EmptySeq, LenProperties DEF Window
        <4>. QED
          BY <1>2, <4>1
      <3>7. stream.start + to - 1 = i - 1
        BY <1>2
      <3>. HIDE DEF to
      <3>8. /\ stream' \in WindowType /\ stream'.start = stream.start /\ stream'.size = stream.size
            /\ stream'.numMarkers = stream.numMarkers
            /\ stream'.p = to
        <4>. DEFINE l == IF to = 0 THEN stream.lastTokenBufferStart ELSE stream.start + to - 1
        <4>1. l \in MaybeToken
          BY <1>2, <3>4 DEF MaybeToken, WindowType
        <4>. HIDE DEF l
        <4>2. stream' = [stream EXCEPT !.p = to, !.lastToken = l]
          BY <3>5 DEF l
        <4>3. stream \in WindowType
          BY <1>2
        <4>4. IsWindow(stream', stream.start, stream.size, to, stream.numMarkers, l, stream.lastTokenBufferStart)
          BY <3>4, <4>1, <4>2, <4>3, MovedWindow, Zenon
        <4>. QED
          BY <4>4 DEF IsWindow
      <3>9. to # 0 => stream'.lastToken = i - 1
        BY <1>2, <3>5, <3>7 DEF WindowType
      <3>. QED
        BY <3>4, <3>6, <3>8, <3>9
    <2>. QED
      BY <2>1, <2>2
  <1>8. stream'.start + stream'.p = i
    BY <1>2, <1>7
  <1>9. stream'.p < stream'.size
    BY <1>2, <1>4, <1>7
  <1>10. Window(stream', marks')
    <2>. HIDE DEF to, at
    <2>1. marks # << >> => /\ stream'.start <= marks[1] /\ marks[1] <= i
                           /\ i > marks[1] => stream'.lastToken = i - 1
      BY <1>4, <1>7 DEF Window
    <2>2. stream' \in WindowType /\ stream'.start + stream'.size <= eof + 1
      BY <1>2, <1>4, <1>7
    <2>3. marks' = marks /\ marks \in Seq(Nat) /\ stream'.numMarkers = Len(marks)
      BY <1>6, <1>7 DEF Window
    <2>4. marks' # << >> =>
            /\ stream'.start <= marks'[1] /\ marks'[1] <= stream'.start + stream'.p
            /\ stream'.start + stream'.p > marks'[1] => stream'.lastToken = stream'.start + stream'.p - 1
      <3>1. stream'.start \in Nat /\ stream'.p \in Nat
        BY <2>2 DEF WindowType
      <3>2. ASSUME marks # << >>
            PROVE  marks[1] \in Nat
        BY <2>3, <3>2, EmptySeq
      <3>. QED
        BY <1>8, <2>1, <2>3, <3>1, <3>2
    <2>5. marks' \in Seq(Nat) /\ stream'.numMarkers = Len(marks')
      BY <2>3, Zenon
    <2>. QED
      BY <1>9, <2>2, <2>4, <2>5, Zenon DEF Window
  <1>11. Window(stream, marks)' /\ Position' = i + 1
    BY <1>8, <1>10, WindowMoved
  <1>12. Cursor!Seek(i)
    <2>. DEFINE c == i + 1
    <2>1. c \in 1 .. Total /\ Position' = c /\ answer' = Visible[c] /\ ~ (i > eof)
      BY <1>2, <1>3, <1>5, <1>6, <1>8, <1>11
    <2>2. Visible[c] >= i /\ \A before \in 1 .. c - 1 : Visible[before] < i
      BY <1>2, <1>3, <1>5
    <2>. HIDE DEF c
    <2>. QED
      BY <1>1, <2>1, <2>2, CursorSeeks
  <1>. QED
    BY <1>11, <1>12

LEMMA UnbufferedStep ==
  ASSUME Reading("unbuffered"), Window(stream, marks), Unbuffered
  PROVE  Window(stream, marks)' /\ [Cursor!Next]_Cursor!vars
  <1>1. CASE ConsumeToken
    BY <1>1, ConsumeTokenStep DEF Cursor!Next
  <1>2. CASE TokenBack
    <2>1. 1 \in 1 .. MaxLook
      BY StreamBounds DEF StreamBounds
    <2>. QED
      BY <1>2, <2>1, TokenBackStep DEF Cursor!Next
  <1>3. CASE Mark
    BY <1>3, MarkStep
  <1>4. CASE Release
    BY <1>4, ReleaseStep
  <1>5. CASE \E k \in 1 .. MaxLook : TokenAhead(k)
    BY <1>5, TokenAheadStep DEF Cursor!Next
  <1>6. CASE \E i \in 0 .. MaxTokens : SeekToken(i)
    <2>1. PICK i \in 0 .. MaxTokens : SeekToken(i)
      BY <1>6
    <2>2. i \in Nat /\ i \in 0 .. MaxTokens + 1
      BY StreamBounds DEF StreamBounds
    <2>3. Window(stream, marks)' /\ Cursor!Seek(i)
      BY <2>1, <2>2, SeekTokenStep
    <2>. QED
      BY <2>2, <2>3 DEF Cursor!Next
  <1>. QED
    BY <1>1, <1>2, <1>3, <1>4, <1>5, <1>6 DEF Unbuffered

-----------------------------------------------------------------------------
(* The stream of characters.                                               *)

LEMMA CharAheadStep ==
  ASSUME Reading("characters"), stream \in 0 .. eof, NEW k \in 1 .. MaxLook, CharAhead(k)
  PROVE  stream' \in 0 .. eof /\ Cursor!LT(k)
  <1>1. Source /\ reader = "characters" /\ reader' = "characters" /\ Visible' = Visible /\ k \in Nat \ {0}
    BY ReadingOn, StreamBounds DEF Reading, StreamBounds
  <1>2. Position = stream + 1 /\ Position' = stream' + 1
    BY <1>1 DEF Position
  <1>3. eof \in Nat /\ Len(Visible) = eof + 1 /\ \A n \in 1 .. eof + 1 : Visible[n] = n - 1
    BY <1>1, AllVisible
  <1>4. stream' = stream /\ answer' = IF stream + k - 1 >= eof THEN eof ELSE stream + k - 1
    BY DEF CharAhead, Answered, C!LA, C!CharAt
  <1>5. answer' = Visible[Cursor!Smaller(Position + k - 1, Len(Visible))]
    <2>. DEFINE at == Cursor!Smaller(Position + k - 1, Len(Visible))
    <2>1. at = IF stream + k < eof + 1 THEN stream + k ELSE eof + 1
      BY <1>1, <1>2, <1>3 DEF Cursor!Smaller
    <2>. HIDE DEF at
    <2>2. at \in 1 .. eof + 1 /\ answer' = at - 1
      BY <1>1, <1>3, <1>4, <2>1
    <2>3. answer' = Visible[at]
      BY <1>3, <2>2
    <2>. QED
      BY <2>3 DEF at
  <1>. QED
    BY <1>1, <1>2, <1>4, <1>5 DEF Cursor!LT

LEMMA CharBackStep ==
  ASSUME Reading("characters"), stream \in 0 .. eof, NEW k \in 1 .. MaxLook, CharBack(k)
  PROVE  stream' \in 0 .. eof /\ Cursor!LB(k)
  <1>1. Source /\ reader = "characters" /\ reader' = "characters" /\ Visible' = Visible /\ k \in Nat \ {0}
    BY ReadingOn, StreamBounds DEF Reading, StreamBounds
  <1>2. Position = stream + 1 /\ Position' = stream' + 1
    BY <1>1 DEF Position
  <1>3. eof \in Nat /\ \A n \in 1 .. eof + 1 : Visible[n] = n - 1
    BY <1>1, AllVisible
  <1>4. /\ stream' = stream
        /\ answer' = IF stream - k < 0 THEN eof ELSE IF stream - k >= eof THEN eof ELSE stream - k
    BY DEF CharBack, Answered, C!LB, C!CharAt
  <1>5. k < Position => answer' = Visible[Position - k]
    <2>1. ASSUME k < Position
          PROVE  answer' = Visible[Position - k]
      <3>. DEFINE at == Position - k
      <3>1. at \in 1 .. eof + 1 /\ answer' = at - 1
        BY <1>1, <1>2, <1>3, <1>4, <2>1
      <3>. HIDE DEF at
      <3>2. answer' = Visible[at]
        BY <1>3, <3>1
      <3>. QED
        BY <3>2 DEF at
    <2>. QED
      BY <2>1
  <1>. QED
    BY <1>1, <1>2, <1>4, <1>5 DEF Cursor!LB

LEMMA ConsumeCharStep ==
  ASSUME Reading("characters"), stream \in 0 .. eof, ConsumeChar
  PROVE  stream' \in 0 .. eof /\ Cursor!Consume
  <1>1. Source /\ reader = "characters" /\ reader' = "characters" /\ Visible' = Visible
    BY ReadingOn DEF Reading
  <1>2. Position = stream + 1 /\ Position' = stream' + 1
    BY <1>1 DEF Position
  <1>3. eof \in Nat /\ Len(Visible) = eof + 1 /\ \A n \in 1 .. eof + 1 : Visible[n] = n - 1
    BY <1>1, AllVisible
  <1>4. CASE stream = eof
    <2>1. stream' = stream /\ answer' = CannotConsumeEOF
      BY <1>3, <1>4 DEF ConsumeChar, Answered, C!AtEnd
    <2>. QED
      BY <1>1, <1>2, <1>3, <1>4, <2>1 DEF Cursor!Consume
  <1>5. CASE stream # eof
    <2>1. stream' = stream + 1 /\ answer' = stream + 1
      BY <1>3, <1>5 DEF ConsumeChar, Answered, C!AtEnd, C!consume
    <2>2. stream + 2 \in 1 .. eof + 1 /\ (stream + 2) - 1 = stream + 1
      BY <1>3, <1>5
    <2>3. Visible[stream + 2] = stream + 1
      BY <1>3, <2>2
    <2>4. Position + 1 = stream + 2 /\ Position' = Position + 1 /\ Position # Len(Visible)
      BY <1>2, <1>3, <1>5, <2>1
    <2>. QED
      BY <1>1, <1>3, <1>5, <2>1, <2>3, <2>4 DEF Cursor!Consume
  <1>. QED
    BY <1>4, <1>5

LEMMA SeekCharStep ==
  ASSUME Reading("characters"), stream \in 0 .. eof, NEW i \in Nat, SeekChar(i)
  PROVE  stream' \in 0 .. eof /\ Cursor!Seek(i)
  <1>1. Source /\ reader = "characters" /\ reader' = "characters" /\ Visible' = Visible
    BY ReadingOn DEF Reading
  <1>2. Position' = stream' + 1
    BY <1>1 DEF Position
  <1>3. eof \in Nat /\ Total = eof + 1 /\ \A n \in 1 .. eof + 1 : Visible[n] = n - 1
    BY <1>1, AllVisible
  <1>4. stream' = (IF i > eof THEN eof ELSE i) /\ answer' = stream'
    BY <1>3 DEF SeekChar, Answered, C!seek
  <1>5. stream' \in 0 .. eof
    BY <1>3, <1>4
  <1>6. Cursor!Seek(i)
    <2>. DEFINE c == stream' + 1
    <2>1. c \in 1 .. Total /\ Position' = c /\ (i > eof => c = Total)
      BY <1>2, <1>3, <1>4, <1>5
    <2>2. answer' = Visible[c]
      BY <1>3, <1>4, <1>5
    <2>3. i <= eof => Visible[c] >= i /\ \A before \in 1 .. c - 1 : Visible[before] < i
      BY <1>3, <1>4, <1>5
    <2>. HIDE DEF c
    <2>. QED
      BY <1>1, <2>1, <2>2, <2>3, CursorSeeks
  <1>. QED
    BY <1>5, <1>6

LEMMA CharactersStep ==
  ASSUME Reading("characters"), stream \in 0 .. eof, Characters
  PROVE  stream' \in 0 .. eof /\ [Cursor!Next]_Cursor!vars
  <1>1. CASE ConsumeChar
    BY <1>1, ConsumeCharStep DEF Cursor!Next
  <1>2. CASE \E k \in 1 .. MaxLook : CharAhead(k)
    BY <1>2, CharAheadStep DEF Cursor!Next
  <1>3. CASE \E k \in 1 .. MaxLook : CharBack(k)
    BY <1>3, CharBackStep DEF Cursor!Next
  <1>4. CASE \E i \in 0 .. MaxTokens + 1 : SeekChar(i)
    <2>1. PICK i \in 0 .. MaxTokens + 1 : SeekChar(i)
      BY <1>4
    <2>2. i \in Nat
      OBVIOUS
    <2>. QED
      BY <2>1, <2>2, SeekCharStep DEF Cursor!Next
  <1>. QED
    BY <1>1, <1>2, <1>3, <1>4 DEF Characters

-----------------------------------------------------------------------------
(* The refinement.                                                         *)

StreamInv ==
  /\ Source
  /\ reader \in {"buffered", "unbuffered", "characters"}
  /\ reader = "buffered" => Buffer(stream)
  /\ reader = "unbuffered" => Window(stream, marks)
  /\ reader = "characters" => stream \in 0 .. eof

LEMMA StreamStarts == StreamInit => StreamInv /\ Cursor!Init
  <1>. SUFFICES ASSUME StreamInit
                PROVE  StreamInv /\ Cursor!Init
    OBVIOUS
  <1>. DEFINE channels == IF reader = "buffered" THEN {B!DefaultChannel, B!HiddenChannel} ELSE {B!DefaultChannel}
  <1>1. Source
    <2>1. /\ channels \in SUBSET {B!DefaultChannel, B!HiddenChannel} /\ source \in Sources(channels)
          /\ reader # "buffered" => channels = {B!DefaultChannel}
      BY DEF StreamInit
    <2>. HIDE DEF channels
    <2>. QED
      BY <2>1, SourcesEnd
  <1>2. eof \in Nat /\ answer = NoToken /\ reader \in {"buffered", "unbuffered", "characters"}
    BY <1>1 DEF Source, StreamInit
  <1>3. CASE reader = "buffered"
    <2>1. stream = [size |-> 0, p |-> 0, needSetup |-> TRUE, fetchedEOF |-> FALSE]
      BY <1>3 DEF StreamInit, B!NewStream
    <2>2. Buffer(stream)
      BY <1>2, <2>1 DEF Buffer, Filled, BufferType
    <2>3. Position = 1
      BY <1>3, <2>1 DEF Position
    <2>. QED
      BY <1>1, <1>2, <1>3, <2>2, <2>3 DEF StreamInv, Cursor!Init
  <1>4. CASE reader = "unbuffered"
    <2>. DEFINE empty == [start |-> 0, size |-> 0, p |-> 0, numMarkers |-> 0,
                          lastToken |-> NoToken, lastTokenBufferStart |-> NoToken]
                t     == U!fill(eof, empty, 1)
    <2>1. stream = t /\ marks = << >>
      BY <1>4 DEF StreamInit, U!NewStream
    <2>2. empty \in WindowType /\ empty.start + empty.size <= eof + 1
      BY <1>2 DEF WindowType, MaybeToken
    <2>3. empty.start = 0 /\ empty.size = 0 /\ empty.p = 0 /\ empty.numMarkers = 0
      OBVIOUS
    <2>. HIDE DEF empty
    <2>4. /\ t = [empty EXCEPT !.size = t.size]
          /\ t \in WindowType
          /\ t.size = IF empty.start + empty.size + 1 <= eof + 1 THEN empty.size + 1 ELSE eof - empty.start + 1
      <3>1. 1 \in Nat
        OBVIOUS
      <3>. QED
        BY <1>2, <2>2, <3>1, FillIs
    <2>. HIDE DEF t
    <2>5. t.start = 0 /\ t.size = 1 /\ t.p = 0 /\ t.numMarkers = 0
      BY <1>2, <2>3, <2>4 DEF WindowType
    <2>6. marks \in Seq(Nat) /\ Len(marks) = 0
      BY <2>1
    <2>7. Window(stream, marks)
      BY <1>2, <2>1, <2>4, <2>5, <2>6 DEF Window
    <2>8. Position = 1
      BY <1>4, <2>1, <2>5 DEF Position, U!index
    <2>. QED
      BY <1>1, <1>2, <1>4, <2>7, <2>8 DEF StreamInv, Cursor!Init
  <1>5. CASE reader = "characters"
    <2>1. stream = 0 /\ Position = 1
      BY <1>5 DEF StreamInit, Position
    <2>. QED
      BY <1>1, <1>2, <1>5, <2>1 DEF StreamInv, Cursor!Init
  <1>. QED
    BY <1>2, <1>3, <1>4, <1>5

LEMMA StreamKeeps ==
  ASSUME StreamInv, [StreamNext]_streamVars
  PROVE  StreamInv' /\ [Cursor!Next]_Cursor!vars
  <1>1. CASE UNCHANGED streamVars
    <2>1. source' = source /\ reader' = reader /\ stream' = stream /\ marks' = marks /\ answer' = answer
      BY <1>1 DEF streamVars
    <2>2. Reading(reader)
      BY <2>1 DEF Reading, StreamInv
    <2>3. /\ Source' /\ eof' = eof /\ Visible' = Visible
          /\ \A i : On(i)' = On(i)
          /\ \A i : Rank(i)' = Rank(i)
      BY <2>2, ReadingOn
    <2>4. StreamInv'
      BY <2>1, <2>3 DEF StreamInv, Buffer, Filled, AtSymbol, BufferType, Window, WindowType
    <2>5. Rank(stream.p)' = Rank(stream.p)
      BY <2>1, <2>3, Zenon DEF Rank
    <2>6. Position' = Position
      BY <2>1, <2>5 DEF Position, U!index
    <2>. QED
      BY <2>1, <2>3, <2>4, <2>6 DEF Cursor!vars
  <1>2. ASSUME NEW name, reader = name, \/ name = "buffered" /\ Buffered
                                        \/ name = "unbuffered" /\ Unbuffered
                                        \/ name = "characters" /\ Characters
        PROVE  Reading(name) /\ eof' = eof
    <2>1. source' = source /\ reader' = reader
      <3>1. CASE Buffered
        BY <3>1 DEF Buffered, Consume, Count, LookAhead, LookBack, Seek, AskHidden, Answered
      <3>2. CASE Unbuffered
        BY <3>2 DEF Unbuffered, ConsumeToken, TokenBack, Mark, Release, TokenAhead, SeekToken, Answered
      <3>3. CASE Characters
        BY <3>3 DEF Characters, ConsumeChar, CharAhead, CharBack, SeekChar, Answered
      <3>. QED
        BY <1>2, <3>1, <3>2, <3>3
    <2>2. Reading(name)
      BY <1>2, <2>1 DEF Reading, StreamInv
    <2>. QED
      BY <2>2, ReadingOn
  <1>3. CASE reader = "buffered" /\ Buffered
    <2>1. Reading("buffered")
      BY <1>2, <1>3
    <2>2. Buffer(stream)' /\ [Cursor!Next]_Cursor!vars
      BY <1>3, <2>1, BufferedStep DEF StreamInv
    <2>. QED
      BY <2>1, <2>2, ReadingOn DEF StreamInv, Reading
  <1>4. CASE reader = "unbuffered" /\ Unbuffered
    <2>1. Reading("unbuffered")
      BY <1>2, <1>4
    <2>2. Window(stream, marks)' /\ [Cursor!Next]_Cursor!vars
      BY <1>4, <2>1, UnbufferedStep DEF StreamInv
    <2>. QED
      BY <2>1, <2>2, ReadingOn DEF StreamInv, Reading
  <1>5. CASE reader = "characters" /\ Characters
    <2>1. Reading("characters") /\ eof' = eof
      BY <1>2, <1>5
    <2>2. stream' \in 0 .. eof /\ [Cursor!Next]_Cursor!vars
      BY <1>5, <2>1, CharactersStep DEF StreamInv
    <2>. QED
      BY <2>1, <2>2, ReadingOn DEF StreamInv, Reading
  <1>. QED
    BY <1>1, <1>3, <1>4, <1>5 DEF StreamNext

\* The buffered, channel-filtering stream, the unbuffered one and the stream of
\* characters answer every lookahead, lookback, count, consume and seek as a
\* cursor on the visible symbols does, whatever of these calls came before (but
\* see TokenBack and SeekToken for two they leave out): sync and
\* fetch (BufferedTokenStream.cpp:76-112), the window and its marks
\* (UnbufferedTokenStream.cpp:87-222) and the skipping of hidden tokens
\* (CommonTokenStream.cpp:19-63) cannot be told from the answers.
THEOREM StreamsRefineCursor == StreamSpec => StreamsAreCursors
  <1>1. StreamInit => StreamInv /\ Cursor!Init
    BY StreamStarts
  <1>2. StreamInv /\ [StreamNext]_streamVars => StreamInv' /\ [Cursor!Next]_Cursor!vars
    BY StreamKeeps
  <1>. QED
    BY <1>1, <1>2, PTL DEF StreamSpec, StreamsAreCursors, Cursor!Spec

-----------------------------------------------------------------------------
(* Hidden tokens.                                                          *)

LEMMA HiddenToRight ==
  ASSUME Source, NEW i \in 0 .. eof
  PROVE  B!getHiddenTokensToRight(source, i) = {j \in i + 1 .. eof : \A k \in i + 1 .. j : ~ On(k)}
  <1>. DEFINE next == B!nextTokenOnChannel(source, i + 1)
  <1>1. eof \in Nat /\ i \in Nat /\ i + 1 \in Nat
    BY DEF Source
  <1>2. /\ next \in 0 .. eof /\ On(next)
        /\ i + 1 <= eof => i + 1 <= next /\ \A j \in i + 1 .. next - 1 : ~ On(j)
        /\ i + 1 > eof => next = eof
    BY <1>1, NextOn
  <1>. HIDE DEF next
  <1>3. B!getHiddenTokensToRight(source, i) = {j \in i + 1 .. next : B!ChannelAt(source, j) # B!DefaultChannel}
    BY DEF B!getHiddenTokensToRight, B!filterForChannel, next
  <1>4. \A j \in i + 1 .. next : B!ChannelAt(source, j) # B!DefaultChannel <=> ~ On(j)
    <2>1. \A j \in i + 1 .. next : j \in 0 .. eof
      BY <1>1, <1>2
    <2>. QED
      BY <2>1 DEF Source
  <1>5. B!getHiddenTokensToRight(source, i) = {j \in i + 1 .. next : ~ On(j)}
    BY <1>3, <1>4
  <1>6. CASE i + 1 <= eof
    <2>1. ASSUME NEW j \in i + 1 .. next, ~ On(j)
          PROVE  j \in i + 1 .. eof /\ \A k \in i + 1 .. j : ~ On(k)
      <3>1. j # next
        BY <1>2, <2>1
      <3>2. j \in Nat /\ j <= next - 1 /\ j <= eof
        BY <1>1, <1>2, <3>1
      <3>3. \A k \in i + 1 .. j : k \in i + 1 .. next - 1
        BY <1>1, <1>2, <3>2
      <3>. QED
        BY <1>1, <1>2, <1>6, <3>2, <3>3
    <2>2. ASSUME NEW j \in i + 1 .. eof, \A k \in i + 1 .. j : ~ On(k)
          PROVE  j \in i + 1 .. next /\ ~ On(j)
      <3>1. j \in i + 1 .. j /\ ~ (next \in i + 1 .. j)
        BY <1>1, <1>2, <2>2
      <3>. QED
        BY <1>1, <1>2, <1>6, <2>2, <3>1
    <2>. QED
      BY <1>5, <2>1, <2>2
  <1>7. CASE ~ (i + 1 <= eof)
    <2>1. i + 1 .. next = {} /\ i + 1 .. eof = {}
      BY <1>1, <1>2, <1>7
    <2>. QED
      BY <1>5, <2>1
  <1>. QED
    BY <1>6, <1>7

LEMMA HiddenToLeft ==
  ASSUME Source, NEW s, s.size \in Nat, NEW i \in 0 .. eof, i < s.size,
         NEW m \in 0 .. i - 1, On(m)
  PROVE  B!getHiddenTokensToLeft(source, s, i) = {j \in 0 .. i - 1 : \A k \in j .. i - 1 : ~ On(k)}
  <1>. DEFINE v == Visible[Rank(i - 1)]
  <1>1. eof \in Nat /\ i \in Nat /\ i # 0 /\ i - 1 \in 0 .. eof /\ i - 1 \in Nat /\ i - 1 < s.size /\ m \in Nat
    BY DEF Source
  <1>2. Rank(i - 1) \in Nat /\ Rank(m) \in Nat /\ Rank(m - 1) \in Nat
    BY <1>1, RankType
  <1>3. Rank(m) >= 1
    BY <1>1, <1>2, RankStep
  <1>4. Rank(m) <= Rank(i - 1)
    BY <1>1, RankMonotonic
  <1>5. Rank(i - 1) >= 1
    BY <1>2, <1>3, <1>4
  <1>6. Rank(i - 1) \in 1 .. Total /\ B!previousTokenOnChannel(source, s, i - 1) = v
    BY <1>1, <1>5, PreviousOn
  <1>7. v \in 0 .. eof /\ On(v) /\ Rank(v) = Rank(i - 1)
    BY <1>6, VisibleAt
  <1>. HIDE DEF v
  <1>8. v \in Nat /\ v <= i - 1
    <2>1. v \in Nat
      BY <1>1, <1>7
    <2>2. i - 1 < v => Rank(i - 1) < Rank(v)
      BY <1>1, <1>7, <2>1, RankStrict
    <2>. QED
      BY <1>1, <1>2, <1>7, <2>1, <2>2
  <1>9. ASSUME NEW k \in v + 1 .. i - 1
        PROVE  ~ On(k)
    <2>1. k \in Nat /\ v < k /\ k <= i - 1
      BY <1>1, <1>8
    <2>2. On(k) => Rank(v) < Rank(k)
      BY <1>8, <2>1, RankStrict
    <2>3. Rank(k) <= Rank(i - 1) /\ Rank(k) \in Nat
      BY <1>1, <2>1, RankMonotonic, RankType
    <2>. QED
      BY <1>2, <1>7, <2>2, <2>3
  <1>10. B!getHiddenTokensToLeft(source, s, i) = {j \in v + 1 .. i - 1 : B!ChannelAt(source, j) # B!DefaultChannel}
    BY <1>1, <1>6 DEF B!getHiddenTokensToLeft, B!filterForChannel
  <1>11. \A j \in v + 1 .. i - 1 : B!ChannelAt(source, j) # B!DefaultChannel
    <2>1. \A j \in v + 1 .. i - 1 : j \in 0 .. eof
      BY <1>1, <1>8
    <2>. QED
      BY <1>9, <2>1 DEF Source
  <1>12. B!getHiddenTokensToLeft(source, s, i) = v + 1 .. i - 1
    BY <1>10, <1>11
  <1>13. ASSUME NEW j \in v + 1 .. i - 1
         PROVE  j \in 0 .. i - 1 /\ \A k \in j .. i - 1 : ~ On(k)
    <2>1. \A k \in j .. i - 1 : k \in v + 1 .. i - 1
      BY <1>1, <1>8
    <2>. QED
      BY <1>1, <1>8, <1>9, <2>1
  <1>14. ASSUME NEW j \in 0 .. i - 1, \A k \in j .. i - 1 : ~ On(k)
         PROVE  j \in v + 1 .. i - 1
    <2>1. ~ (v \in j .. i - 1)
      BY <1>7, <1>14
    <2>. QED
      BY <1>1, <1>8, <2>1
  <1>. QED
    BY <1>12, <1>13, <1>14

\* What AskHidden returns.
Asked(h, i) ==
  /\ h.at = i
  /\ h.right = {j \in i + 1 .. eof : \A k \in i + 1 .. j : ~ On(k)}
  /\ (\E m \in 0 .. i - 1 : On(m)) => h.left = {j \in 0 .. i - 1 : \A k \in j .. i - 1 : ~ On(k)}

LEMMA AskHiddenFinds ==
  ASSUME Source, reader = "buffered", Buffer(stream), NEW i \in Nat, AskHidden(i)
  PROVE  Asked(hidden', i)
  <1>. DEFINE ready == B!lazyInit(source, stream)
              right == B!getHiddenTokensToRight(source, i)
              left  == B!getHiddenTokensToLeft(source, ready, i)
  <1>1. i < ready.size /\ hidden' = [at |-> i, right |-> right, left |-> left]
    BY DEF AskHidden
  <1>2. Filled(ready) /\ eof \in Nat
    BY BufferedPosition DEF Source
  <1>. HIDE DEF ready
  <1>3. ready.size \in Nat /\ i \in 0 .. eof
    BY <1>1, <1>2 DEF Filled, BufferType
  <1>4. right = {j \in i + 1 .. eof : \A k \in i + 1 .. j : ~ On(k)}
    BY <1>3, HiddenToRight
  <1>5. (\E m \in 0 .. i - 1 : On(m)) => left = {j \in 0 .. i - 1 : \A k \in j .. i - 1 : ~ On(k)}
    BY <1>1, <1>3, HiddenToLeft
  <1>. HIDE DEF right, left
  <1>6. hidden'.at = i /\ hidden'.right = right /\ hidden'.left = left
    BY <1>1
  <1>. QED
    BY <1>4, <1>5, <1>6 DEF Asked

\* Every other call keeps what was returned.
LEMMA OthersKeepHidden ==
  ASSUME [StreamNext]_streamVars,
         ~ (reader = "buffered" /\ \E i \in 0 .. MaxTokens + 1 : AskHidden(i))
  PROVE  hidden' = hidden /\ source' = source
  <1>1. CASE UNCHANGED streamVars
    BY <1>1 DEF streamVars
  <1>2. CASE reader = "buffered" /\ Buffered
    BY <1>2 DEF Buffered, Consume, Count, LookAhead, LookBack, Seek, Answered
  <1>3. CASE reader = "unbuffered" /\ Unbuffered
    BY <1>3 DEF Unbuffered, ConsumeToken, TokenBack, Mark, Release, TokenAhead, SeekToken, Answered
  <1>4. CASE reader = "characters" /\ Characters
    BY <1>4 DEF Characters, ConsumeChar, CharAhead, CharBack, SeekChar, Answered
  <1>. QED
    BY <1>1, <1>2, <1>3, <1>4 DEF StreamNext

LEMMA HiddenKept ==
  ASSUME StreamInv, HiddenAround, [StreamNext]_streamVars
  PROVE  HiddenAround'
  <1>1. CASE reader = "buffered" /\ \E i \in 0 .. MaxTokens + 1 : AskHidden(i)
    <2>1. PICK i \in 0 .. MaxTokens + 1 : AskHidden(i)
      BY <1>1
    <2>2. i \in Nat /\ Source /\ Buffer(stream)
      BY <1>1 DEF StreamInv
    <2>3. Asked(hidden', i)
      BY <1>1, <2>1, <2>2, AskHiddenFinds
    <2>4. source' = source
      BY <2>1 DEF AskHidden
    <2>5. eof' = eof /\ \A j : On(j)' = On(j)
      BY <2>4, SameSource DEF On, B!OnChannel, B!TypeAt, B!ChannelAt
    <2>6. Asked(hidden, i)' /\ hidden'.at = i
      BY <2>3, <2>5, Zenon DEF Asked
    <2>. QED
      BY <2>6, Zenon DEF Asked, HiddenAround
  <1>2. CASE ~ (reader = "buffered" /\ \E i \in 0 .. MaxTokens + 1 : AskHidden(i))
    <2>1. hidden' = hidden /\ source' = source
      BY <1>2, OthersKeepHidden
    <2>2. eof' = eof /\ \A j : On(j)' = On(j)
      BY <2>1, SameSource DEF On, B!OnChannel, B!TypeAt, B!ChannelAt
    <2>. QED
      BY <2>1, <2>2, Zenon DEF HiddenAround
  <1>. QED
    BY <1>1, <1>2

\* The tokens that getHiddenTokensToRight and getHiddenTokensToLeft
\* (BufferedTokenStream.cpp) return are those between the token and the next
\* or the previous visible one, wherever the cursor stands and however much of
\* the source has been fetched.
THEOREM HiddenTokensAround == StreamSpec => []HiddenAround
  <1>1. StreamInit => StreamInv /\ HiddenAround
    BY StreamStarts DEF StreamInit, HiddenAround
  <1>2. StreamInv /\ HiddenAround /\ [StreamNext]_streamVars => StreamInv' /\ HiddenAround'
    BY StreamKeeps, HiddenKept
  <1>. QED
    BY <1>1, <1>2, PTL DEF StreamSpec
=============================================================================
