--------------------------- MODULE SseStreamProofs ---------------------------
(* Theorems about SseStream: the parser, which sees one character at a time, *)
(* knows of every prefix of the stream what the text as a whole says of it,  *)
(* for streams and frames of any length.                                     *)
EXTENDS SseStream, FiniteSetTheorems, SequenceTheorems, WellFoundedInduction, TLAPS

Texts == Seq(Token)

-----------------------------------------------------------------------------
(* A set of numbers has a smallest one: what is true of 0 and goes from a    *)
(* number to the next is true of all, or there is a first exception.         *)
LEMMA Smallest ==
  ASSUME NEW S, S \subseteq Nat, S # {}
  PROVE  \E x \in S : \A y \in S : x <= y
<1>1. PICK x \in S : \A y \in S : ~(<<y, x>> \in OpToRel(<, Nat))
  BY NatLessThanWellFounded, WFMin
<1>2. ASSUME NEW y \in S, ~(x <= y) PROVE FALSE
  <2>1. <<y, x>> \in Nat \X Nat /\ y < x
    BY <1>2
  <2>2. <<y, x>> \in OpToRel(<, Nat)
    BY <2>1 DEF OpToRel
  <2>3. QED
    BY <1>1, <2>2
<1>3. QED
  BY <1>2

LEMMA SameSeq ==
  ASSUME NEW S, NEW a \in Seq(S), NEW b \in Seq(S), Len(a) = Len(b),
         \A i \in 1..Len(a) : a[i] = b[i]
  PROVE  a = b
OBVIOUS

LEMMA OneMore ==
  ASSUME NEW S, NEW a \in Seq(S), NEW e \in S
  PROVE  /\ Append(a, e) \in Seq(S) /\ Len(Append(a, e)) = Len(a) + 1
         /\ Append(a, e)[Len(a) + 1] = e
         /\ \A i \in 1..Len(a) : Append(a, e)[i] = a[i]
OBVIOUS

LEMMA Cut ==
  ASSUME NEW s \in Texts, NEW i \in Nat \ {0}, NEW k \in 0..Len(s)
  PROVE  /\ SubSeq(s, i, k) \in Texts
         /\ Len(SubSeq(s, i, k)) = IF i <= k THEN k - i + 1 ELSE 0
         /\ \A j \in 1..(k - i + 1) : SubSeq(s, i, k)[j] = s[i + j - 1]
<1>1. \A j \in i..k : s[j] \in Token
  BY DEF Texts
<1>2. QED
  BY <1>1, SubSeqProperties DEF Texts

-----------------------------------------------------------------------------
(* What the text says of a place does not change when more text follows.     *)
Prefix(s, u) == Len(s) <= Len(u) /\ \A i \in 1..Len(s) : u[i] = s[i]

LEMMA PlacesStay ==
  ASSUME NEW s \in Texts, NEW u \in Texts, Prefix(s, u), NEW i \in 1..Len(s)
  PROVE  /\ Dropped(u, i) <=> Dropped(s, i)
         /\ i \in Starts(u) <=> i \in Starts(s)
         /\ i \in FrameEnds(u) <=> i \in FrameEnds(s)
<1>1. /\ Len(s) \in Nat /\ Len(u) \in Nat /\ DOMAIN s = 1..Len(s) /\ DOMAIN u = 1..Len(u)
  BY DEF Texts
<1>2. u[i] = s[i] /\ (i > 1 => u[i - 1] = s[i - 1]) /\ (i = 1 \/ i > 1)
  BY <1>1 DEF Prefix
<1>3. i \in DOMAIN s /\ i \in DOMAIN u
  BY <1>1 DEF Prefix
<1>4. Dropped(u, i) <=> Dropped(s, i)
  BY <1>2 DEF Dropped
<1>5. i \in Starts(u) <=> i \in Starts(s)
  BY <1>2, <1>3, <1>4 DEF Starts
<1>6. QED
  BY <1>2, <1>4, <1>5 DEF FrameEnds

LEMMA EndsAreInside ==
  ASSUME NEW s \in Texts
  PROVE  /\ Starts(s) \subseteq 1..Len(s) /\ FrameEnds(s) \subseteq Starts(s)
         /\ Len(s) \in Nat
BY DEF Starts, FrameEnds, Texts

LEMMA FrameStays ==
  ASSUME NEW s \in Texts, NEW u \in Texts, Prefix(s, u), NEW i \in 1..Len(s)
  PROVE  /\ Frame(u, i) = Frame(s, i)
         /\ Characters(u, i) = Characters(s, i)
         /\ \A names : Fields(u, i, names) = Fields(s, i, names)
<1>1. /\ FrameEnds(s) \subseteq 1..Len(s) /\ FrameEnds(u) \subseteq 1..Len(u)
      /\ Len(s) \in Nat /\ Len(u) \in Nat
  BY EndsAreInside
<1>2. ASSUME NEW h \in 1..i PROVE h \in Frame(u, i) <=> h \in Frame(s, i)
  <2>1. ASSUME NEW e \in FrameEnds(u), e \notin FrameEnds(s) PROVE i <= e
    <3>1. e \notin 1..Len(s)
      BY <2>1, PlacesStay
    <3>2. QED
      BY <1>1, <3>1
  <2>2. \A e \in FrameEnds(s) : e \in FrameEnds(u)
    BY <1>1, PlacesStay
  <2>3. QED
    BY <2>1, <2>2 DEF Frame
<1>3. Frame(u, i) = Frame(s, i)
  BY <1>2 DEF Frame
<1>4. \A h \in Frame(s, i) : h \in 1..Len(s)
  BY <1>1 DEF Frame
<1>5. \A h \in Frame(s, i) : u[h] = s[h] /\ (Dropped(u, h) <=> Dropped(s, h))
  BY <1>4, PlacesStay DEF Prefix
<1>6. Characters(u, i) = Characters(s, i)
  BY <1>3, <1>5 DEF Characters
<1>7. \A h \in Frame(s, i) : h \in Starts(u) <=> h \in Starts(s)
  BY <1>4, PlacesStay
<1>8. \A names : Fields(u, i, names) = Fields(s, i, names)
  BY <1>3, <1>5, <1>7 DEF Fields
<1>9. QED
  BY <1>3, <1>6, <1>8

(* The line at i, if it has ended.                                           *)
LEMMA LineIs ==
  ASSUME NEW s \in Texts, NEW i \in 1..Len(s), NEW j \in i..Len(s),
         s[j] \in LineEnd, \A h \in i..(j - 1) : s[h] \notin LineEnd
  PROVE  LineAt(s, i) = SubSeq(s, i, j - 1)
<1> DEFINE Ends(k) == s[k] \in LineEnd /\ \A h \in i..(k - 1) : s[h] \notin LineEnd
           end == CHOOSE k \in i..Len(s) : Ends(k)
<1>0. Len(s) \in Nat
  BY DEF Texts
<1>1. j \in i..Len(s) /\ Ends(j)
  OBVIOUS
<1>2. end \in i..Len(s) /\ Ends(end)
  BY <1>1
<1>3. end = j
  BY <1>0, <1>1, <1>2
<1>4. LineAt(s, i) = SubSeq(s, i, end - 1)
  BY DEF LineAt
<1>5. QED
  BY <1>3, <1>4

LEMMA FirstEnd ==
  ASSUME NEW s \in Texts, NEW i \in 1..Len(s), NEW k \in i..Len(s), s[k] \in LineEnd
  PROVE  \E j \in i..k : s[j] \in LineEnd /\ \A h \in i..(j - 1) : s[h] \notin LineEnd
<1> DEFINE S == {h \in i..k : s[h] \in LineEnd}
<1>0. Len(s) \in Nat
  BY DEF Texts
<1>1. S \subseteq Nat /\ k \in S
  BY <1>0
<1>2. PICK j \in S : \A y \in S : j <= y
  BY <1>1, Smallest
<1>3. j \in i..k /\ s[j] \in LineEnd
  OBVIOUS
<1>4. \A h \in i..(j - 1) : s[h] \notin LineEnd
  BY <1>0, <1>2, <1>3
<1>5. QED
  BY <1>3, <1>4

LEMMA LineStays ==
  ASSUME NEW s \in Texts, NEW u \in Texts, Prefix(s, u),
         NEW i \in 1..Len(s), NEW k \in i..Len(s), s[k] \in LineEnd
  PROVE  LineAt(u, i) = LineAt(s, i)
<1>0. Len(s) \in Nat /\ Len(u) \in Nat /\ Len(s) <= Len(u)
  BY DEF Texts, Prefix
<1>1. PICK j \in i..k : s[j] \in LineEnd /\ \A h \in i..(j - 1) : s[h] \notin LineEnd
  BY FirstEnd
<1>2. /\ j \in i..Len(s) /\ j \in i..Len(u) /\ i \in 1..Len(u)
      /\ \A h \in i..j : u[h] = s[h]
  BY <1>0 DEF Prefix
<1>3. LineAt(s, i) = SubSeq(s, i, j - 1)
  BY <1>1, <1>2, LineIs
<1>4. LineAt(u, i) = SubSeq(u, i, j - 1)
  <2>1. u[j] \in LineEnd /\ \A h \in i..(j - 1) : u[h] \notin LineEnd
    BY <1>0, <1>1, <1>2
  <2>2. QED
    BY <1>2, <2>1, LineIs
<1>5. SubSeq(u, i, j - 1) = SubSeq(s, i, j - 1)
  <2> DEFINE a == SubSeq(u, i, j - 1)
             b == SubSeq(s, i, j - 1)
  <2>1. i \in Nat \ {0} /\ j - 1 \in 0..Len(s) /\ j - 1 \in 0..Len(u) /\ j - 1 - i + 1 \in Nat
    BY <1>0, <1>2
  <2>2. /\ a \in Texts /\ Len(a) = (IF i <= j - 1 THEN j - 1 - i + 1 ELSE 0)
        /\ \A l \in 1..(j - 1 - i + 1) : a[l] = u[i + l - 1]
    BY <2>1, Cut
  <2>3. /\ b \in Texts /\ Len(b) = (IF i <= j - 1 THEN j - 1 - i + 1 ELSE 0)
        /\ \A l \in 1..(j - 1 - i + 1) : b[l] = s[i + l - 1]
    BY <2>1, Cut
  <2> HIDE DEF a, b
  <2>4. Len(a) = Len(b) /\ \A l \in 1..Len(a) : l \in 1..(j - 1 - i + 1) /\ i + l - 1 \in i..j
    BY <1>0, <2>1, <2>2, <2>3
  <2>5. \A l \in 1..Len(a) : a[l] = b[l]
    BY <1>2, <2>2, <2>3, <2>4
  <2>6. a = b
    BY <2>2, <2>3, <2>4, <2>5, SameSeq DEF Texts
  <2>7. QED
    BY <2>6 DEF a, b
<1>6. QED
  BY <1>3, <1>4, <1>5

-----------------------------------------------------------------------------
(* Places and their ranks.                                                   *)
Nth(S, i) == Cardinality({h \in S : h <= i})

LEMMA RanksOf ==
  ASSUME NEW m \in Nat, NEW S, S \subseteq 1..m
  PROVE  /\ IsFiniteSet(S) /\ Cardinality(S) \in Nat
         /\ \A i \in S : Nth(S, i) \in 1..Cardinality(S)
         /\ \A i, j \in S : i < j => Nth(S, i) < Nth(S, j)
<1>1. IsFiniteSet(S)
  <2>1. IsFiniteSet(1..m)
    BY FS_Interval
  <2>2. QED
    BY <2>1, FS_Subset
<1>2. Cardinality(S) \in Nat
  BY <1>1, FS_CardinalityType
<1>3. ASSUME NEW i \in S PROVE Nth(S, i) \in 1..Cardinality(S)
  <2>1. {h \in S : h <= i} \in SUBSET S /\ i \in {h \in S : h <= i}
    OBVIOUS
  <2>2. IsFiniteSet({h \in S : h <= i}) /\ Cardinality({h \in S : h <= i}) <= Cardinality(S)
    BY <1>1, <2>1, FS_Subset
  <2>3. /\ Cardinality({h \in S : h <= i}) \in Nat
        /\ Cardinality({h \in S : h <= i}) # 0
    BY <2>1, <2>2, FS_CardinalityType, FS_EmptySet
  <2>4. QED
    BY <1>2, <2>2, <2>3 DEF Nth
<1>4. ASSUME NEW i \in S, NEW j \in S, i < j PROVE Nth(S, i) < Nth(S, j)
  <2> DEFINE A == {h \in S : h <= i}
             B == {h \in S : h <= j}
  <2>1. A \in SUBSET B /\ A # B
    <3>1. \A h \in S : h \in Int
      OBVIOUS
    <3>2. j \in B /\ j \notin A /\ \A h \in A : h <= j
      BY <1>4, <3>1
    <3>3. QED
      BY <3>2
  <2>2. IsFiniteSet(B)
    BY <1>1, FS_Subset
  <2>3. Cardinality(A) <= Cardinality(B) /\ Cardinality(A) # Cardinality(B) /\ IsFiniteSet(A)
    BY <2>1, <2>2, FS_Subset
  <2>4. Cardinality(A) \in Nat /\ Cardinality(B) \in Nat
    BY <2>2, <2>3, FS_CardinalityType
  <2>5. QED
    BY <2>3, <2>4 DEF Nth
<1>5. QED
  BY <1>1, <1>2, <1>3, <1>4

LEMMA EveryPlace ==
  ASSUME NEW m \in Nat, NEW S, S \subseteq 1..m, NEW k \in 1..Cardinality(S)
  PROVE  \E i \in S : Nth(S, i) = k
<1> DEFINE f == [i \in S |-> Nth(S, i)]
           N == 1..Cardinality(S)
<1>1. /\ IsFiniteSet(S) /\ Cardinality(S) \in Nat
      /\ \A i \in S : Nth(S, i) \in N
      /\ \A i, j \in S : i < j => Nth(S, i) < Nth(S, j)
  BY RanksOf
<1>2. \A i, j \in S : f[i] = f[j] => i = j
  <2>1. ASSUME NEW i \in S, NEW j \in S, f[i] = f[j] PROVE i = j
    <3>1. Nth(S, i) = Nth(S, j) /\ Nth(S, i) \in Int /\ Nth(S, j) \in Int
      BY <1>1, <2>1
    <3>2. i \in Int /\ j \in Int
      OBVIOUS
    <3>3. QED
      BY <1>1, <3>1, <3>2
  <2>2. QED
    BY <2>1
<1>3. f \in [S -> N]
  BY <1>1
<1> HIDE DEF f
<1>4. f \in Injection(S, N)
  BY <1>2, <1>3 DEF Injection, IsInjective
<1>5. IsFiniteSet(N) /\ Cardinality(N) = Cardinality(S)
  BY <1>1, FS_Interval
<1>6. f \in Surjection(S, N)
  BY <1>4, <1>5, FS_Injection
<1>7. QED
  BY <1>6 DEF Surjection, f

LEMMA OneMorePlace ==
  ASSUME NEW m \in Nat, NEW S, S \subseteq 1..m, NEW n \in Nat, m < n
  PROVE  /\ Cardinality(S \cup {n}) = Cardinality(S) + 1
         /\ Nth(S \cup {n}, n) = Cardinality(S) + 1
         /\ \A i \in S : Nth(S \cup {n}, i) = Nth(S, i)
<1>0. ASSUME NEW i \in S PROVE i \in Int /\ i < n /\ i <= n /\ i # n
  <2>1. i \in 1..m
    OBVIOUS
  <2>2. QED
    BY <2>1
<1>1. IsFiniteSet(S) /\ n \notin S
  <2>1. IsFiniteSet(S)
    BY RanksOf
  <2>2. QED
    BY <1>0, <2>1
<1>2. Cardinality(S \cup {n}) = Cardinality(S) + 1
  BY <1>1, FS_AddElement
<1>3. {h \in S \cup {n} : h <= n} = S \cup {n}
  <2>1. n <= n
    OBVIOUS
  <2>2. QED
    BY <1>0, <2>1
<1>4. ASSUME NEW i \in S PROVE {h \in S \cup {n} : h <= i} = {h \in S : h <= i}
  <2>1. i \in Int /\ ~(n <= i)
    BY <1>0
  <2>2. QED
    BY <2>1
<1>5. QED
  BY <1>2, <1>3, <1>4 DEF Nth

(* lines are what stands at the places, in order.                            *)
Lists(lines, s, places) ==
  /\ Len(lines) = Cardinality(places)
  /\ \A i \in places : lines[Nth(places, i)] = LineAt(s, i)

LEMMA IsDataLists ==
  ASSUME NEW lines, NEW s, NEW e
  PROVE  IsData(lines, s, e) <=> Lists(lines, s, Fields(s, e, Data))
BY DEF IsData, Lists, Nth

LEMMA ListsOnce ==
  ASSUME NEW m \in Nat, NEW places, places \subseteq 1..m, NEW s,
         NEW a \in Seq(Texts), NEW b \in Seq(Texts), Lists(a, s, places), Lists(b, s, places)
  PROVE  a = b
<1>1. Len(a) = Cardinality(places) /\ Len(b) = Cardinality(places)
  BY DEF Lists
<1>2. ASSUME NEW k \in 1..Len(a) PROVE a[k] = b[k]
  <2>1. PICK i \in places : Nth(places, i) = k
    BY <1>1, EveryPlace
  <2>2. QED
    BY <2>1 DEF Lists
<1>3. QED
  BY <1>1, <1>2, SameSeq

LEMMA ListsMore ==
  ASSUME NEW m \in Nat, NEW places, places \subseteq 1..m, NEW n \in Nat, m < n,
         NEW s, NEW u, NEW lines \in Seq(Texts), NEW line \in Texts,
         Lists(lines, s, places), LineAt(u, n) = line,
         \A i \in places : LineAt(u, i) = LineAt(s, i)
  PROVE  Lists(Append(lines, line), u, places \cup {n})
<1> DEFINE more == Append(lines, line)
<1>1. /\ Cardinality(places) \in Nat
      /\ \A i \in places : Nth(places, i) \in 1..Cardinality(places)
  BY RanksOf
<1>2. /\ Cardinality(places \cup {n}) = Cardinality(places) + 1
      /\ Nth(places \cup {n}, n) = Cardinality(places) + 1
      /\ \A i \in places : Nth(places \cup {n}, i) = Nth(places, i)
  BY OneMorePlace
<1>3. /\ Len(more) = Len(lines) + 1 /\ more[Len(lines) + 1] = line
      /\ \A k \in 1..Len(lines) : more[k] = lines[k]
  OBVIOUS
<1> HIDE DEF more
<1>4. Len(lines) = Cardinality(places)
  BY DEF Lists
<1>5. ASSUME NEW i \in places \cup {n}
      PROVE  more[Nth(places \cup {n}, i)] = LineAt(u, i)
  <2>1. CASE i = n
    BY <1>2, <1>3, <1>4, <2>1
  <2>2. CASE i \in places
    <3>1. Nth(places, i) \in 1..Len(lines)
      BY <1>1, <1>4, <2>2
    <3>2. QED
      BY <1>2, <1>3, <2>2, <3>1 DEF Lists
  <2>3. QED
    BY <2>1, <2>2
<1>6. QED
  BY <1>2, <1>3, <1>4, <1>5 DEF Lists, more

(* The lines of a frame that has ended, whatever follows.                    *)
LEMMA FieldsInside ==
  ASSUME NEW s \in Texts, NEW e \in 1..Len(s), NEW names
  PROVE  Fields(s, e, names) \subseteq 1..e
BY DEF Fields, Frame

LEMMA DataStays ==
  ASSUME NEW s \in Texts, NEW u \in Texts, Prefix(s, u), NEW e \in FrameEnds(s), NEW lines
  PROVE  IsData(lines, u, e) <=> IsData(lines, s, e)
<1>1. e \in 1..Len(s) /\ s[e] \in LineEnd /\ Len(s) \in Nat
  BY EndsAreInside DEF FrameEnds
<1>2. Fields(u, e, Data) = Fields(s, e, Data)
  BY <1>1, FrameStays
<1> DEFINE places == Fields(s, e, Data)
<1>3. ASSUME NEW i \in places PROVE LineAt(u, i) = LineAt(s, i)
  <2>1. i \in 1..e
    BY <1>1, FieldsInside
  <2>2. i \in 1..Len(s) /\ e \in i..Len(s)
    BY <1>1, <2>1
  <2>3. QED
    BY <1>1, <2>2, LineStays
<1>4. Lists(lines, u, places) <=> Lists(lines, s, places)
  BY <1>3 DEF Lists
<1>5. QED
  BY <1>2, <1>4, IsDataLists

LEMMA OwedStays ==
  ASSUME NEW s \in Texts, NEW u \in Texts, Prefix(s, u), NEW e \in 1..Len(s)
  PROVE  /\ e \in Owed(u) <=> e \in Owed(s)
         /\ e \in Owed(s) => (Wrong(u, e) <=> Wrong(s, e))
<1>1. /\ e \in FrameEnds(u) <=> e \in FrameEnds(s)
      /\ \A names : Fields(u, e, names) = Fields(s, e, names)
  BY PlacesStay, FrameStays
<1>2. e \in Owed(u) <=> e \in Owed(s)
  BY <1>1 DEF Owed
<1>3. ASSUME e \in Owed(s) PROVE Wrong(u, e) <=> Wrong(s, e)
  <2>1. e \in FrameEnds(s)
    BY <1>3 DEF Owed
  <2>2. \A lines \in Json : IsData(lines, u, e) <=> IsData(lines, s, e)
    BY <2>1, DataStays
  <2>3. QED
    BY <1>1, <2>2 DEF Wrong
<1>4. QED
  BY <1>2, <1>3

LEMMA OwedInside ==
  ASSUME NEW s \in Texts
  PROVE  Owed(s) \subseteq FrameEnds(s) /\ Owed(s) \subseteq 1..Len(s) /\ Len(s) \in Nat
BY EndsAreInside DEF Owed

LEMMA BrokenStays ==
  ASSUME NEW s \in Texts, NEW u \in Texts, Prefix(s, u), Broken(s)
  PROVE  Broken(u)
<1>1. DOMAIN s = 1..Len(s) /\ DOMAIN u = 1..Len(u) /\ Len(s) \in Nat /\ Len(u) \in Nat
  BY DEF Texts
<1>2. CASE TooLong(s)
  <2>1. PICK i \in 1..Len(s) : Cardinality(Characters(s, i)) > MaxFrame
    BY <1>1, <1>2 DEF TooLong
  <2>2. i \in DOMAIN u /\ Characters(u, i) = Characters(s, i)
    BY <1>1, FrameStays DEF Prefix
  <2>3. QED
    BY <2>1, <2>2 DEF TooLong, Broken
<1>3. CASE \E e \in Owed(s) : Wrong(s, e)
  <2>1. PICK e \in Owed(s) : Wrong(s, e)
    BY <1>3
  <2>2. e \in 1..Len(s)
    BY OwedInside
  <2>3. e \in Owed(u) /\ Wrong(u, e)
    BY <2>1, <2>2, OwedStays
  <2>4. QED
    BY <2>3 DEF Broken
<1>4. QED
  BY <1>2, <1>3 DEF Broken

-----------------------------------------------------------------------------
(* One more token.                                                           *)
More(s, u) == Len(u) = Len(s) + 1 /\ \A i \in 1..Len(s) : u[i] = s[i]

LEMMA MoreIs ==
  ASSUME NEW s \in Texts, NEW u \in Texts, More(s, u)
  PROVE  /\ Len(s) \in Nat /\ Len(u) = Len(s) + 1 /\ Len(u) \in Nat /\ Prefix(s, u)
         /\ DOMAIN s = 1..Len(s) /\ DOMAIN u = 1..Len(u) /\ u[Len(u)] \in Token
         /\ \A i \in 1..Len(u) : i = Len(u) \/ i \in 1..Len(s)
<1>1. Len(s) \in Nat /\ Len(u) = Len(s) + 1 /\ DOMAIN s = 1..Len(s) /\ DOMAIN u = 1..Len(u)
  BY DEF Texts, More
<1>2. Len(u) \in 1..Len(u)
  BY <1>1
<1>3. u[Len(u)] \in Token
  BY <1>2 DEF Texts
<1>4. QED
  BY <1>1, <1>3 DEF More, Prefix

LEMMA SoundGrows ==
  ASSUME NEW s \in Texts, NEW u \in Texts, More(s, u), ~Broken(s),
         ~(Cardinality(Characters(u, Len(u))) > MaxFrame),
         Len(u) \in Owed(u) => ~Wrong(u, Len(u))
  PROVE  ~Broken(u)
<1>1. ~TooLong(u)
  <2>1. ASSUME NEW i \in 1..Len(u) PROVE ~(Cardinality(Characters(u, i)) > MaxFrame)
    <3>1. CASE i = Len(u)
      BY <3>1
    <3>2. CASE i \in 1..Len(s)
      <4>1. Characters(u, i) = Characters(s, i)
        BY <3>2, MoreIs, FrameStays
      <4>2. i \in DOMAIN s
        BY <3>2, MoreIs
      <4>3. QED
        BY <4>1, <4>2 DEF Broken, TooLong
    <3>3. QED
      BY <3>1, <3>2, MoreIs
  <2>2. QED
    BY <2>1, MoreIs DEF TooLong
<1>2. ASSUME NEW e \in Owed(u) PROVE ~Wrong(u, e)
  <2>1. e \in 1..Len(u)
    BY OwedInside
  <2>2. CASE e = Len(u)
    BY <2>2
  <2>3. CASE e \in 1..Len(s)
    BY <2>3, MoreIs, OwedStays DEF Broken
  <2>4. QED
    BY <2>1, <2>2, <2>3, MoreIs
<1>3. QED
  BY <1>1, <1>2 DEF Broken

LEMMA OwedGrows ==
  ASSUME NEW s \in Texts, NEW u \in Texts, More(s, u)
  PROVE  /\ Len(u) \notin Owed(u) => Owed(u) = Owed(s)
         /\ Len(u) \in Owed(u) => Owed(u) = Owed(s) \cup {Len(u)}
<1>1. \A e \in Owed(u) : e = Len(u) \/ e \in Owed(s)
  BY OwedInside, MoreIs, OwedStays
<1>2. \A e \in Owed(s) : e \in Owed(u)
  BY OwedInside, MoreIs, OwedStays
<1>3. \A e \in Owed(s) : e # Len(u)
  BY OwedInside, MoreIs
<1>4. QED
  BY <1>1, <1>2, <1>3

(* events are those of the frames of s that are owed one.                    *)
Delivered(events, s) ==
  /\ Len(events) = Cardinality(Owed(s))
  /\ \A e \in Owed(s) : IsData(events[Nth(Owed(s), e)], s, e)

LEMMA DeliveredStays ==
  ASSUME NEW s \in Texts, NEW u \in Texts, More(s, u), NEW events,
         Delivered(events, s), Len(u) \notin Owed(u)
  PROVE  Delivered(events, u)
<1>1. Owed(u) = Owed(s)
  BY OwedGrows
<1>2. ASSUME NEW e \in Owed(s) PROVE IsData(events[Nth(Owed(s), e)], u, e)
  <2>1. e \in FrameEnds(s) /\ IsData(events[Nth(Owed(s), e)], s, e)
    BY OwedInside DEF Delivered
  <2>2. QED
    BY <2>1, MoreIs, DataStays
<1>3. QED
  BY <1>1, <1>2 DEF Delivered

LEMMA DeliveredMore ==
  ASSUME NEW s \in Texts, NEW u \in Texts, More(s, u), NEW events \in Seq(Seq(Texts)),
         Delivered(events, s), Len(u) \in Owed(u), NEW lines \in Seq(Texts),
         IsData(lines, u, Len(u))
  PROVE  Delivered(Append(events, lines), u)
<1> DEFINE more == Append(events, lines)
           n == Len(u)
           S == Owed(s)
<1>1. Owed(u) = S \cup {n}
  BY OwedGrows
<1>2. /\ S \subseteq 1..Len(s) /\ Len(s) \in Nat /\ n \in Nat /\ Len(s) < n
  BY OwedInside, MoreIs
<1>3. /\ Len(more) = Len(events) + 1 /\ more[Len(events) + 1] = lines
      /\ \A k \in 1..Len(events) : more[k] = events[k]
  OBVIOUS
<1>4. Len(events) = Cardinality(S) /\ \A e \in S : IsData(events[Nth(S, e)], s, e)
  BY DEF Delivered
<1>5. IsData(lines, u, n)
  OBVIOUS
<1>6. \A e \in S : e \in FrameEnds(s)
  BY OwedInside
<1> HIDE DEF more, n, S
<1>7. Cardinality(S) \in Nat /\ \A i \in S : Nth(S, i) \in 1..Cardinality(S)
  BY <1>2, RanksOf
<1>8. /\ Cardinality(S \cup {n}) = Cardinality(S) + 1
      /\ Nth(S \cup {n}, n) = Cardinality(S) + 1
      /\ \A i \in S : Nth(S \cup {n}, i) = Nth(S, i)
  BY <1>2, OneMorePlace
<1>9. ASSUME NEW e \in S \cup {n} PROVE IsData(more[Nth(S \cup {n}, e)], u, e)
  <2>1. CASE e = n
    BY <1>3, <1>4, <1>5, <1>8, <2>1
  <2>2. CASE e \in S
    <3>1. Nth(S, e) \in 1..Len(events)
      BY <1>4, <1>7, <2>2
    <3>2. more[Nth(S \cup {n}, e)] = events[Nth(S, e)]
      BY <1>3, <1>8, <2>2, <3>1
    <3>3. IsData(events[Nth(S, e)], u, e)
      BY <1>4, <1>6, <2>2, MoreIs, DataStays
    <3>4. QED
      BY <3>2, <3>3
  <2>3. QED
    BY <2>1, <2>2
<1>10. QED
  BY <1>1, <1>3, <1>4, <1>8, <1>9 DEF Delivered, more

LEMMA DeliveredBegins ==
  ASSUME NEW s \in Texts, NEW events, Delivered(events, s)
  PROVE  Begins(events, s) /\ Len(events) = Cardinality(Owed(s))
<1>1. Cardinality(Owed(s)) \in Nat
  BY OwedInside, RanksOf
<1>2. QED
  BY <1>1 DEF Delivered, Begins, Nth

-----------------------------------------------------------------------------
(* The characters since place a.                                             *)
CharsFrom(s, a) ==
  {x \in ((a + 1)..Len(s)) \X {1, 2} : ~Dropped(s, x[1]) /\ x[2] <= Size(s[x[1]])}

LEMMA CharsFinite ==
  ASSUME NEW s \in Texts, NEW a \in Nat
  PROVE  IsFiniteSet(CharsFrom(s, a)) /\ Cardinality(CharsFrom(s, a)) \in Nat
<1>1. Len(s) \in Int /\ a + 1 \in Int
  BY DEF Texts
<1>2. IsFiniteSet((a + 1)..Len(s))
  BY <1>1, FS_Interval
<1>3. IsFiniteSet({1, 2})
  <2>1. IsFiniteSet({1})
    BY FS_Singleton
  <2>2. {1, 2} = {1} \cup {2}
    OBVIOUS
  <2>3. QED
    BY <2>1, <2>2, FS_AddElement
<1>4. IsFiniteSet(((a + 1)..Len(s)) \X {1, 2})
  BY <1>2, <1>3, FS_Product
<1>5. CharsFrom(s, a) \in SUBSET (((a + 1)..Len(s)) \X {1, 2})
  BY DEF CharsFrom
<1>6. IsFiniteSet(CharsFrom(s, a))
  BY <1>4, <1>5, FS_Subset
<1>7. QED
  BY <1>6, FS_CardinalityType

LEMMA CharsGrow ==
  ASSUME NEW s \in Texts, NEW u \in Texts, More(s, u), NEW a \in 0..Len(s)
  PROVE  /\ Dropped(u, Len(u)) => CharsFrom(u, a) = CharsFrom(s, a)
         /\ ~Dropped(u, Len(u)) =>
              Cardinality(CharsFrom(u, a)) = Cardinality(CharsFrom(s, a)) + Size(u[Len(u)])
<1> DEFINE n == Len(u)
           C == CharsFrom(s, a)
           D == CharsFrom(u, a)
           one == <<n, 1>>
           two == <<n, 2>>
<1>1. /\ Len(s) \in Nat /\ n = Len(s) + 1 /\ Prefix(s, u) /\ a \in Nat
      /\ \A i \in 1..n : i = n \/ i \in 1..Len(s)
  BY MoreIs
<1>2. \A i \in 1..Len(s) : u[i] = s[i] /\ (Dropped(u, i) <=> Dropped(s, i))
  BY <1>1, PlacesStay DEF Prefix
<1>3. ASSUME NEW x \in ((a + 1)..Len(s)) \X {1, 2} PROVE x \in D <=> x \in C
  <2>1. x[1] \in 1..Len(s) /\ x \in ((a + 1)..n) \X {1, 2}
    BY <1>1
  <2>2. QED
    BY <1>2, <2>1 DEF CharsFrom
<1>4. ASSUME NEW x \in D, x \notin ((a + 1)..Len(s)) \X {1, 2} PROVE x = one \/ x = two
  <2>1. x \in ((a + 1)..n) \X {1, 2}
    BY DEF CharsFrom
  <2>2. /\ x[1] \in (a + 1)..n /\ x[2] \in {1, 2} /\ x = <<x[1], x[2]>>
        /\ x[1] \notin (a + 1)..Len(s)
    BY <1>4, <2>1
  <2>3. x[1] = n
    BY <1>1, <2>2
  <2>4. QED
    BY <2>2, <2>3
<1>5. C \subseteq ((a + 1)..Len(s)) \X {1, 2} /\ one \notin C /\ two \notin C
  <2>1. n \notin (a + 1)..Len(s)
    BY <1>1
  <2> HIDE DEF n
  <2>2. QED
    BY <2>1 DEF CharsFrom
<1>6. /\ one \in D <=> ~Dropped(u, n) /\ 1 <= Size(u[n])
      /\ two \in D <=> ~Dropped(u, n) /\ 2 <= Size(u[n])
  <2>1. n \in (a + 1)..Len(u)
    BY <1>1
  <2>2. one \in ((a + 1)..Len(u)) \X {1, 2} /\ two \in ((a + 1)..Len(u)) \X {1, 2}
    BY <2>1
  <2>3. one[1] = n /\ one[2] = 1 /\ two[1] = n /\ two[2] = 2
    OBVIOUS
  <2> HIDE DEF n, one, two
  <2>4. QED
    BY <2>2, <2>3 DEF CharsFrom
<1>7. Size(u[n]) \in {1, 2}
  BY DEF Size
<1>8. IsFiniteSet(C) /\ Cardinality(C) \in Nat
  BY <1>1, CharsFinite
<1>9. one # two
  OBVIOUS
<1> HIDE DEF C, D, one, two, n
<1>10. CASE Dropped(u, n)
  <2>1. D = C
    BY <1>3, <1>4, <1>5, <1>6, <1>10
  <2>2. QED
    BY <1>10, <2>1 DEF C, D, n
<1>11. CASE ~Dropped(u, n) /\ Size(u[n]) = 1
  <2>1. D = C \cup {one}
    BY <1>3, <1>4, <1>5, <1>6, <1>11
  <2>2. Cardinality(D) = Cardinality(C) + 1
    BY <1>5, <1>8, <2>1, FS_AddElement
  <2>3. QED
    BY <1>11, <2>2 DEF C, D, n
<1>12. CASE ~Dropped(u, n) /\ Size(u[n]) = 2
  <2>1. D = (C \cup {one}) \cup {two}
    BY <1>3, <1>4, <1>5, <1>6, <1>12
  <2>2. Cardinality(C \cup {one}) = Cardinality(C) + 1 /\ IsFiniteSet(C \cup {one})
    BY <1>5, <1>8, FS_AddElement
  <2>3. two \notin C \cup {one}
    BY <1>5, <1>9
  <2>4. Cardinality(D) = Cardinality(C \cup {one}) + 1
    BY <2>1, <2>2, <2>3, FS_AddElement
  <2>5. Cardinality(D) = Cardinality(C) + 2
    BY <1>8, <2>2, <2>4
  <2>6. QED
    BY <1>12, <2>5 DEF C, D, n
<1>13. QED
  BY <1>7, <1>10, <1>11, <1>12

-----------------------------------------------------------------------------
(* What the parser knows of the text s it has read: a is where the last frame *)
(* ended, c where the line begins that is still open.                        *)
ParserState ==
  [line : Texts, data : Seq(Texts), other : BOOLEAN, skipLF : BOOLEAN, size : Nat,
   events : Seq(Seq(Texts)), failed : BOOLEAN]

Passed(s, a, c, names) == {h \in Starts(s) : a < h /\ h < c /\ s[h] \in names}

Ended(s, a) ==
  /\ a \in 0..Len(s) /\ (a = 0 \/ a \in FrameEnds(s))
  /\ \A e \in FrameEnds(s) : e <= a

Open(s, c) ==
  /\ c \in 1..(Len(s) + 1) /\ (c = 1 \/ s[c - 1] \in LineEnd)
  /\ \A h \in c..Len(s) : s[h] \notin LineEnd

Knows(p, s, a, c) ==
  /\ p.line = SubSeq(s, c, Len(s))
  /\ p.size = Cardinality(CharsFrom(s, a)) /\ p.size <= MaxFrame
  /\ Lists(p.data, s, Passed(s, a, c, Data))
  /\ p.other <=> Passed(s, a, c, {"other"}) # {}
  /\ p.skipLF <=> Len(s) > 0 /\ s[Len(s)] = "CR"
  /\ ~p.failed

Follows(p, s) == \E a, c \in Nat : Ended(s, a) /\ Open(s, c) /\ Knows(p, s, a, c)

LEMMA PassedInside ==
  ASSUME NEW s \in Texts, NEW a \in Nat, NEW c \in Nat, NEW names
  PROVE  Passed(s, a, c, names) \subseteq 1..Len(s) /\ Passed(s, a, c, names) \subseteq 1..c
BY EndsAreInside DEF Passed

LEMMA PassedStays ==
  ASSUME NEW s \in Texts, NEW u \in Texts, More(s, u), NEW a \in Nat,
         NEW c \in 1..(Len(s) + 1), NEW names
  PROVE  Passed(u, a, c, names) = Passed(s, a, c, names)
<1>1. Len(s) \in Nat /\ Len(u) = Len(s) + 1 /\ Prefix(s, u)
  BY MoreIs
<1>2. ASSUME NEW h, h < c, h \in 1..Len(u) PROVE h \in 1..Len(s)
  BY <1>1, <1>2
<1>3. ASSUME NEW h \in 1..Len(s) PROVE (h \in Starts(u) <=> h \in Starts(s)) /\ u[h] = s[h]
  BY <1>1, PlacesStay DEF Prefix
<1>4. Starts(u) \subseteq 1..Len(u) /\ Starts(s) \subseteq 1..Len(s)
  BY EndsAreInside
<1>5. QED
  BY <1>2, <1>3, <1>4 DEF Passed

LEMMA LinesStay ==
  ASSUME NEW s \in Texts, NEW u \in Texts, More(s, u), NEW a \in Nat, NEW c \in Nat,
         Open(s, c), NEW i \in Passed(s, a, c, Data)
  PROVE  LineAt(u, i) = LineAt(s, i)
<1>1. Len(s) \in Nat /\ Prefix(s, u)
  BY MoreIs
<1>2. i \in 1..Len(s) /\ i < c
  BY PassedInside DEF Passed
<1>3. c - 1 \in i..Len(s) /\ s[c - 1] \in LineEnd
  BY <1>1, <1>2 DEF Open
<1>4. QED
  BY <1>1, <1>2, <1>3, LineStays

LEMMA FrameHere ==
  ASSUME NEW s \in Texts, NEW u \in Texts, More(s, u), NEW a \in Nat, Ended(s, a)
  PROVE  /\ Characters(u, Len(u)) = CharsFrom(u, a)
         /\ \A names : Fields(u, Len(u), names) = Passed(u, a, Len(u) + 1, names)
<1>1. /\ Len(s) \in Nat /\ Len(u) = Len(s) + 1 /\ Prefix(s, u)
      /\ FrameEnds(u) \subseteq 1..Len(u) /\ Starts(u) \subseteq 1..Len(u)
  BY MoreIs, EndsAreInside
<1>2. ASSUME NEW e \in FrameEnds(u) PROVE e <= a \/ e = Len(u)
  <2>1. e \in 1..Len(s) => e \in FrameEnds(s)
    BY <1>1, PlacesStay
  <2>2. QED
    BY <1>1, <2>1 DEF Ended
<1>3. a = 0 \/ a \in FrameEnds(u)
  BY <1>1, PlacesStay, EndsAreInside DEF Ended
<1>4. a \in 0..Len(s)
  BY DEF Ended
<1>5. Frame(u, Len(u)) = (a + 1)..Len(u)
  <2>1. ASSUME NEW h \in 1..Len(u), h \in Frame(u, Len(u)) PROVE a < h
    <3>1. CASE a = 0
      BY <3>1
    <3>2. CASE a \in FrameEnds(u)
      <4>1. a < h \/ Len(u) <= a
        BY <2>1, <3>2 DEF Frame
      <4>2. QED
        BY <1>1, <1>4, <4>1
    <3>3. QED
      BY <1>3, <3>1, <3>2
  <2>2. ASSUME NEW h \in 1..Len(u), a < h PROVE h \in Frame(u, Len(u))
    <3>1. ASSUME NEW e \in FrameEnds(u) PROVE e < h \/ Len(u) <= e
      <4>1. e \in 1..Len(u)
        BY <1>1
      <4>2. QED
        BY <1>1, <1>2, <1>4, <2>2, <4>1
    <3>2. QED
      BY <3>1 DEF Frame
  <2>3. Frame(u, Len(u)) \subseteq 1..Len(u)
    BY DEF Frame
  <2>4. ASSUME NEW h PROVE h \in (a + 1)..Len(u) <=> h \in 1..Len(u) /\ a < h
    BY <1>1, <1>4
  <2>5. QED
    BY <2>1, <2>2, <2>3, <2>4
<1>6. Characters(u, Len(u)) = CharsFrom(u, a)
  BY <1>5 DEF Characters, CharsFrom
<1>7. ASSUME NEW h \in Starts(u) PROVE h \in (a + 1)..Len(u) <=> a < h /\ h < Len(u) + 1
  BY <1>1, <1>4
<1>8. ASSUME NEW names PROVE Fields(u, Len(u), names) = Passed(u, a, Len(u) + 1, names)
  BY <1>5, <1>7 DEF Fields, Passed
<1>9. QED
  BY <1>6, <1>8

(* The line that was open has ended, and it was not blank.                   *)
LEMMA PassedLine ==
  ASSUME NEW s \in Texts, NEW u \in Texts, More(s, u), NEW a \in Nat, Ended(s, a),
         NEW c \in Nat, Open(s, c), c <= Len(s)
  PROVE  /\ c \in Starts(u) /\ u[c] = s[c] /\ s[c] \notin LineEnd
         /\ Len(u) \notin Starts(u)
         /\ \A names : s[c] \in names =>
              Passed(u, a, Len(u) + 1, names) = Passed(s, a, c, names) \cup {c}
         /\ \A names : s[c] \notin names =>
              Passed(u, a, Len(u) + 1, names) = Passed(s, a, c, names)
<1>1. /\ Len(s) \in Nat /\ Len(u) = Len(s) + 1 /\ Prefix(s, u)
      /\ Starts(u) \subseteq 1..Len(u) /\ DOMAIN u = 1..Len(u)
  BY MoreIs, EndsAreInside
<1>2. /\ c \in 1..Len(s) /\ \A h \in c..Len(s) : u[h] = s[h] /\ u[h] \notin LineEnd
      /\ c = 1 \/ s[c - 1] \in LineEnd
  BY <1>1 DEF Open, Prefix
<1>3. u[c] = s[c] /\ s[c] \notin LineEnd
  BY <1>1, <1>2
<1>4. c \in Starts(u)
  <2>1. c # 1 => u[c - 1] \in LineEnd
    BY <1>1, <1>2 DEF Prefix
  <2>2. ~Dropped(u, c)
    BY <1>2, <1>3 DEF Dropped, LineEnd
  <2>3. QED
    BY <1>1, <1>2, <2>1, <2>2 DEF Starts
<1>5. ASSUME NEW h \in (c + 1)..Len(u) PROVE h \notin Starts(u)
  <2>1. h - 1 \in c..Len(s) /\ h # 1
    BY <1>1, <1>2
  <2>2. u[h - 1] \notin LineEnd
    BY <1>2, <2>1
  <2>3. QED
    BY <2>1, <2>2 DEF Starts
<1>6. a < c
  <2>1. CASE a = 0
    BY <1>2, <2>1
  <2>2. CASE a \in FrameEnds(s)
    <3>1. s[a] \in LineEnd /\ a \in 1..Len(s)
      BY <2>2, EndsAreInside DEF FrameEnds
    <3>2. a \notin c..Len(s)
      BY <3>1 DEF Open
    <3>3. QED
      BY <1>1, <1>2, <3>1, <3>2
  <2>3. QED
    BY <2>1, <2>2 DEF Ended
<1>7. Len(u) \notin Starts(u)
  <2>1. Len(u) \in (c + 1)..Len(u)
    BY <1>1, <1>2
  <2>2. QED
    BY <1>5, <2>1
<1>8. ASSUME NEW names
      PROVE  Passed(u, a, Len(u) + 1, names) =
               IF s[c] \in names THEN Passed(s, a, c, names) \cup {c} ELSE Passed(s, a, c, names)
  <2>1. Passed(u, a, c, names) = Passed(s, a, c, names)
    <3>1. c \in 1..(Len(s) + 1)
      BY <1>1, <1>2
    <3>2. QED
      BY <3>1, PassedStays
  <2>2. ASSUME NEW h \in Starts(u) PROVE h < Len(u) + 1 /\ (h < c \/ h = c)
    BY <1>1, <1>2, <1>5
  <2>3. ASSUME NEW h
        PROVE  h \in Passed(u, a, Len(u) + 1, names) <=>
                 h \in Passed(u, a, c, names) \/ (h = c /\ s[c] \in names)
    BY <1>3, <1>4, <1>6, <2>2 DEF Passed
  <2>4. QED
    BY <2>1, <2>3
<1>9. QED
  BY <1>3, <1>4, <1>7, <1>8

-----------------------------------------------------------------------------
(* One round of the loop, by the token it meets.                             *)
StepOK(p, q, s, u) ==
  \/ q.failed /\ Broken(u)
  \/ /\ Follows(q, u) /\ ~Broken(u)
     /\ IF Len(u) \in Owed(u)
        THEN \E lines \in Seq(Texts) :
               q.events = Append(p.events, lines) /\ IsData(lines, u, Len(u))
        ELSE q.events = p.events

LEMMA CutMore ==
  ASSUME NEW s \in Texts, NEW u \in Texts, More(s, u), NEW c \in 1..(Len(s) + 1)
  PROVE  /\ SubSeq(u, c, Len(s)) = SubSeq(s, c, Len(s))
         /\ SubSeq(u, c, Len(u)) = Append(SubSeq(s, c, Len(s)), u[Len(u)])
<1> DEFINE n == Len(s)
           t == u[Len(u)]
           x == SubSeq(s, c, n)
           y == SubSeq(u, c, n)
           z == SubSeq(u, c, n + 1)
           w == Append(x, t)
<1>1. /\ n \in Nat /\ Len(u) = n + 1 /\ c \in Nat \ {0} /\ n - c + 1 \in Nat /\ t \in Token
      /\ \A i \in 1..n : u[i] = s[i]
  BY MoreIs DEF More
<1>2. /\ x \in Texts /\ Len(x) = n - c + 1
      /\ \A j \in 1..(n - c + 1) : x[j] = s[c + j - 1]
  <2>1. /\ x \in Texts /\ Len(x) = (IF c <= n THEN n - c + 1 ELSE 0)
        /\ \A j \in 1..(n - c + 1) : x[j] = s[c + j - 1]
    BY <1>1, Cut
  <2>2. (IF c <= n THEN n - c + 1 ELSE 0) = n - c + 1
    BY <1>1
  <2>3. QED
    BY <2>1, <2>2
<1>3. /\ y \in Texts /\ Len(y) = n - c + 1
      /\ \A j \in 1..(n - c + 1) : y[j] = u[c + j - 1]
  <2>0. n \in 0..Len(u)
    BY <1>1
  <2>1. /\ y \in Texts /\ Len(y) = (IF c <= n THEN n - c + 1 ELSE 0)
        /\ \A j \in 1..(n - c + 1) : y[j] = u[c + j - 1]
    BY <1>1, <2>0, Cut
  <2>2. (IF c <= n THEN n - c + 1 ELSE 0) = n - c + 1
    BY <1>1
  <2>3. QED
    BY <2>1, <2>2
<1>4. /\ z \in Texts /\ Len(z) = n - c + 2
      /\ \A j \in 1..(n - c + 2) : z[j] = u[c + j - 1]
  <2>0. n + 1 \in 0..Len(u)
    BY <1>1
  <2>1. /\ z \in Texts /\ Len(z) = (IF c <= n + 1 THEN n + 1 - c + 1 ELSE 0)
        /\ \A j \in 1..(n + 1 - c + 1) : z[j] = u[c + j - 1]
    BY <1>1, <2>0, Cut
  <2>2. (IF c <= n + 1 THEN n + 1 - c + 1 ELSE 0) = n - c + 2 /\ n + 1 - c + 1 = n - c + 2
    BY <1>1
  <2>3. QED
    BY <2>1, <2>2
<1>5. \A j \in 1..(n - c + 1) : c + j - 1 \in 1..n
  BY <1>1
<1> HIDE DEF x, y, z, n, t
<1>6. y = x
  <2>1. \A j \in 1..Len(y) : y[j] = x[j]
    BY <1>1, <1>2, <1>3, <1>5
  <2>2. QED
    BY <1>2, <1>3, <2>1, SameSeq DEF Texts
<1>7. /\ w \in Texts /\ Len(w) = n - c + 2 /\ w[n - c + 2] = t
      /\ \A j \in 1..(n - c + 1) : w[j] = x[j]
  <2>1. /\ w \in Texts /\ Len(w) = Len(x) + 1 /\ w[Len(x) + 1] = t
        /\ \A j \in 1..Len(x) : w[j] = x[j]
    <3>1. x \in Seq(Token) /\ t \in Token
      BY <1>1, <1>2 DEF Texts
    <3>2. w \in Seq(Token)
      BY <3>1, OneMore
    <3>3. Len(w) = Len(x) + 1 
      BY <3>1, OneMore
    <3>4. w[Len(x) + 1] = t
      BY <3>1, OneMore
    <3>5. \A j \in 1..Len(x) : w[j] = x[j]
      BY <3>1, OneMore
    <3>6. QED
      BY <3>2, <3>3, <3>4, <3>5 DEF Texts
  <2> HIDE DEF w
  <2>2. Len(x) + 1 = n - c + 2
    BY <1>1, <1>2
  <2>3. QED
    BY <1>2, <2>1, <2>2
<1>8. z[n - c + 2] = t
  <2>1. n - c + 2 \in 1..(n - c + 2) /\ c + (n - c + 2) - 1 = n + 1
    BY <1>1
  <2>2. z[n - c + 2] = u[c + (n - c + 2) - 1]
    BY <1>4, <2>1
  <2>3. QED
    BY <1>1, <2>1, <2>2 DEF t
<1>9. z = w
  <2>1. ASSUME NEW j \in 1..(n - c + 2) PROVE z[j] = w[j]
    <3>1. CASE j = n - c + 2
      BY <1>7, <1>8, <3>1
    <3>2. CASE j # n - c + 2
      <4>1. j \in 1..(n - c + 1)
        BY <1>1, <3>2
      <4>2. QED
        BY <1>1, <1>2, <1>4, <1>5, <1>7, <4>1
    <3>3. QED
      BY <3>1, <3>2
  <2> HIDE DEF w
  <2>2. QED
    BY <1>4, <1>7, <2>1, SameSeq DEF Texts
<1>10. QED
  BY <1>1, <1>6, <1>9 DEF x, y, z, w, n, t

LEMMA EmptyCut ==
  ASSUME NEW s \in Texts
  PROVE  SubSeq(s, Len(s) + 1, Len(s)) = <<>>
<1>1. Len(s) \in Int
  BY DEF Texts
<1>2. QED
  BY <1>1, SubSeqEmpty

LEMMA ListsStay ==
  ASSUME NEW s \in Texts, NEW u \in Texts, More(s, u), NEW a \in Nat, NEW c \in Nat,
         Open(s, c), NEW lines, Lists(lines, s, Passed(s, a, c, Data))
  PROVE  Lists(lines, u, Passed(s, a, c, Data))
BY LinesStay DEF Lists

(* No frame ends here.                                                       *)
LEMMA FrameGoesOn ==
  ASSUME NEW s \in Texts, NEW u \in Texts, More(s, u), ~Broken(s), NEW a \in Nat, Ended(s, a),
         Len(u) \notin FrameEnds(u), ~(Cardinality(CharsFrom(u, a)) > MaxFrame)
  PROVE  ~Broken(u) /\ Len(u) \notin Owed(u) /\ Ended(u, a)
<1>1. Len(u) \notin Owed(u)
  BY OwedInside
<1>2. ~Broken(u)
  BY <1>1, FrameHere, SoundGrows
<1>3. /\ Len(s) \in Nat /\ Len(u) = Len(s) + 1 /\ Prefix(s, u)
      /\ FrameEnds(u) \subseteq 1..Len(u) /\ FrameEnds(s) \subseteq 1..Len(s)
  BY MoreIs, EndsAreInside
<1>4. \A e \in FrameEnds(u) : e \in FrameEnds(s)
  BY <1>3, PlacesStay
<1>5. \A e \in FrameEnds(s) : e \in FrameEnds(u)
  BY <1>3, PlacesStay
<1>6. Ended(u, a)
  BY <1>3, <1>4, <1>5 DEF Ended
<1>7. QED
  BY <1>1, <1>2, <1>6

(* The LF of a CR LF.                                                        *)
LEMMA StepDropped ==
  ASSUME NEW s \in Texts, NEW u \in Texts, More(s, u), ~Broken(s),
         NEW a \in Nat, Ended(s, a), NEW c \in Nat, Open(s, c),
         NEW p \in ParserState, Knows(p, s, a, c), NEW q \in ParserState,
         Dropped(u, Len(u)),
         q.line = p.line, q.data = p.data, q.other = p.other, q.size = p.size,
         ~q.skipLF, ~q.failed, q.events = p.events
  PROVE  StepOK(p, q, s, u)
<1> DEFINE n == Len(s)
<1>1. /\ n \in Nat /\ Len(u) = n + 1 /\ \A i \in 1..n : u[i] = s[i]
      /\ Starts(u) \subseteq 1..Len(u) /\ FrameEnds(u) \subseteq Starts(u)
  BY MoreIs, EndsAreInside DEF More
<1>2. n > 0 /\ s[n] = "CR" /\ u[Len(u)] = "LF"
  <2>1. u[Len(u)] = "LF" /\ Len(u) > 1 /\ u[Len(u) - 1] = "CR"
    BY DEF Dropped
  <2>2. n \in 1..n /\ Len(u) - 1 = n
    BY <1>1, <2>1
  <2>3. QED
    BY <1>1, <2>1, <2>2
<1>3. c = n + 1
  <2>1. n \in c..n => FALSE
    BY <1>2 DEF Open, LineEnd
  <2>2. QED
    BY <1>1, <2>1 DEF Open
<1>4. Len(u) \notin Starts(u) /\ Len(u) \notin FrameEnds(u)
  BY <1>1 DEF Starts
<1>5. CharsFrom(u, a) = CharsFrom(s, a)
  BY CharsGrow DEF Ended
<1>6. Cardinality(CharsFrom(s, a)) \in Nat /\ MaxFrame \in Nat /\ p.size <= MaxFrame
  BY CharsFinite, StreamAssumption DEF Knows
<1>7. ~(Cardinality(CharsFrom(u, a)) > MaxFrame)
  BY <1>5, <1>6 DEF Knows
<1>8. ~Broken(u) /\ Len(u) \notin Owed(u) /\ Ended(u, a)
  BY <1>4, <1>7, FrameGoesOn
<1>9. Open(u, Len(u) + 1)
  BY <1>1, <1>2 DEF Open, LineEnd
<1>10. ASSUME NEW names PROVE Passed(u, a, Len(u) + 1, names) = Passed(s, a, c, names)
  <2>1. Passed(u, a, c, names) = Passed(s, a, c, names)
    <3>1. c \in 1..(Len(s) + 1)
      BY <1>1, <1>3
    <3>2. QED
      BY <3>1, PassedStays
  <2>2. \A h \in Starts(u) : h < Len(u) + 1 <=> h < c
    BY <1>1, <1>3, <1>4
  <2>3. QED
    BY <2>1, <2>2 DEF Passed
<1>11. Lists(q.data, u, Passed(u, a, Len(u) + 1, Data))
  BY <1>10, ListsStay DEF Knows
<1>12. q.line = SubSeq(u, Len(u) + 1, Len(u))
  <2>1. p.line = <<>>
    BY <1>3, EmptyCut DEF Knows
  <2>2. QED
    BY <2>1, EmptyCut
<1>13. Knows(q, u, a, Len(u) + 1)
  <2>1. q.other <=> Passed(u, a, Len(u) + 1, {"other"}) # {}
    BY <1>10 DEF Knows
  <2>2. q.size = Cardinality(CharsFrom(u, a)) /\ q.size <= MaxFrame
    BY <1>5, <1>6 DEF Knows
  <2>3. QED
    BY <1>2, <1>11, <1>12, <2>1, <2>2 DEF Knows
<1>14. Len(u) + 1 \in Nat
  BY <1>1
<1>15. Follows(q, u)
  BY <1>8, <1>9, <1>13, <1>14 DEF Follows
<1>16. QED
  BY <1>8, <1>15 DEF StepOK

(* A character too many.                                                     *)
LEMMA StepTooLong ==
  ASSUME NEW s \in Texts, NEW u \in Texts, More(s, u),
         NEW a \in Nat, Ended(s, a), NEW c \in Nat, NEW p \in ParserState, Knows(p, s, a, c),
         ~Dropped(u, Len(u)), p.size + Size(u[Len(u)]) > MaxFrame
  PROVE  Broken(u)
<1>1. Cardinality(CharsFrom(u, a)) = Cardinality(CharsFrom(s, a)) + Size(u[Len(u)])
  BY CharsGrow DEF Ended
<1>2. Cardinality(Characters(u, Len(u))) > MaxFrame
  BY <1>1, FrameHere DEF Knows
<1>3. Len(u) \in DOMAIN u
  BY MoreIs
<1>4. QED
  BY <1>2, <1>3 DEF Broken, TooLong

(* A token inside of a line.                                                 *)
LEMMA StepToken ==
  ASSUME NEW s \in Texts, NEW u \in Texts, More(s, u), ~Broken(s),
         NEW a \in Nat, Ended(s, a), NEW c \in Nat, Open(s, c),
         NEW p \in ParserState, Knows(p, s, a, c), NEW q \in ParserState,
         u[Len(u)] \notin LineEnd, ~(p.size + Size(u[Len(u)]) > MaxFrame),
         q.line = Append(p.line, u[Len(u)]), q.data = p.data, q.other = p.other,
         q.size = p.size + Size(u[Len(u)]), ~q.skipLF, ~q.failed, q.events = p.events
  PROVE  StepOK(p, q, s, u)
<1> DEFINE n == Len(s)
<1>1. /\ n \in Nat /\ Len(u) = n + 1 /\ \A i \in 1..n : u[i] = s[i]
  BY MoreIs DEF More
<1>2. Len(u) \notin FrameEnds(u) /\ ~Dropped(u, Len(u))
  BY DEF FrameEnds, Dropped, LineEnd
<1>3. Cardinality(CharsFrom(u, a)) = p.size + Size(u[Len(u)])
  BY <1>2, CharsGrow DEF Ended, Knows
<1>4. ~Broken(u) /\ Len(u) \notin Owed(u) /\ Ended(u, a)
  BY <1>2, <1>3, FrameGoesOn
<1>5. c \in 1..(Len(s) + 1)
  BY DEF Open
<1>6. Open(u, c)
  <2>1. c = 1 \/ u[c - 1] \in LineEnd
    BY <1>1, <1>5 DEF Open
  <2>2. \A h \in c..Len(u) : u[h] \notin LineEnd
    BY <1>1, <1>5 DEF Open
  <2>3. QED
    BY <1>1, <1>5, <2>1, <2>2 DEF Open
<1>7. \A names : Passed(u, a, c, names) = Passed(s, a, c, names)
  BY <1>5, PassedStays
<1>8. Lists(q.data, u, Passed(u, a, c, Data))
  BY <1>7, ListsStay DEF Knows
<1>9. q.line = SubSeq(u, c, Len(u))
  BY <1>5, CutMore DEF Knows
<1>10. Knows(q, u, a, c)
  <2>1. q.other <=> Passed(u, a, c, {"other"}) # {}
    BY <1>7 DEF Knows
  <2>2. q.size = Cardinality(CharsFrom(u, a)) /\ q.size <= MaxFrame
    <3>1. q.size \in Nat /\ MaxFrame \in Nat
      BY StreamAssumption DEF ParserState
    <3>2. QED
      BY <1>3, <3>1
  <2>3. u[Len(u)] # "CR"
    BY DEF LineEnd
  <2>4. QED
    BY <1>8, <1>9, <2>1, <2>2, <2>3 DEF Knows
<1>11. Follows(q, u)
  BY <1>4, <1>6, <1>10 DEF Follows
<1>12. QED
  BY <1>4, <1>11 DEF StepOK

(* A line that is not blank has ended.                                       *)
LEMMA StepLine ==
  ASSUME NEW s \in Texts, NEW u \in Texts, More(s, u), ~Broken(s),
         NEW a \in Nat, Ended(s, a), NEW c \in Nat, Open(s, c), c <= Len(s),
         NEW p \in ParserState, Knows(p, s, a, c), NEW q \in ParserState,
         u[Len(u)] \in LineEnd, ~Dropped(u, Len(u)), ~(p.size + Size(u[Len(u)]) > MaxFrame),
         q.line = <<>>, q.data = (IF s[c] \in Data THEN Append(p.data, p.line) ELSE p.data),
         q.other <=> p.other \/ s[c] = "other",
         q.size = p.size + Size(u[Len(u)]), q.skipLF <=> u[Len(u)] = "CR", ~q.failed,
         q.events = p.events
  PROVE  StepOK(p, q, s, u)
<1> DEFINE n == Len(s)
           places == Passed(s, a, c, Data)
<1>1. /\ n \in Nat /\ Len(u) = n + 1 /\ Len(u) \in Nat
      /\ \A i \in 1..n : u[i] = s[i]
  BY MoreIs DEF More
<1>2. /\ c \in 1..n /\ c \in 1..Len(u) /\ Len(u) \in c..Len(u) /\ c \in 1..(Len(s) + 1)
      /\ Len(u) - 1 = n /\ c - 1 \in Nat /\ c - 1 < c
  <2>1. c \in 1..(Len(s) + 1)
    BY DEF Open
  <2>2. QED
    BY <1>1, <2>1
<1>3. /\ Len(u) \notin Starts(u)
      /\ \A names : s[c] \in names =>
           Passed(u, a, Len(u) + 1, names) = Passed(s, a, c, names) \cup {c}
      /\ \A names : s[c] \notin names =>
           Passed(u, a, Len(u) + 1, names) = Passed(s, a, c, names)
  BY PassedLine
<1>4. Len(u) \notin FrameEnds(u)
  BY <1>3 DEF FrameEnds
<1>5. Cardinality(CharsFrom(u, a)) = p.size + Size(u[Len(u)])
  BY CharsGrow DEF Ended, Knows
<1>6. ~Broken(u) /\ Len(u) \notin Owed(u) /\ Ended(u, a)
  BY <1>4, <1>5, FrameGoesOn
<1>7. Open(u, Len(u) + 1)
  BY <1>1 DEF Open
<1>8. LineAt(u, c) = p.line
  <2>1. \A h \in c..(Len(u) - 1) : u[h] \notin LineEnd
    BY <1>1, <1>2 DEF Open
  <2>2. LineAt(u, c) = SubSeq(u, c, Len(u) - 1)
    BY <1>2, <2>1, LineIs
  <2>3. SubSeq(u, c, Len(s)) = SubSeq(s, c, Len(s))
    BY <1>2, CutMore
  <2>4. QED
    BY <1>2, <2>2, <2>3 DEF Knows
<1>9. Lists(q.data, u, Passed(u, a, Len(u) + 1, Data))
  <2>1. Lists(p.data, s, places)
    BY DEF Knows
  <2>2. CASE s[c] \in Data
    <3>1. places \subseteq 1..(c - 1)
      <4>1. ASSUME NEW h \in places PROVE h \in 1..(c - 1)
        <5>1. h \in 1..Len(s) /\ h < c
          BY PassedInside DEF Passed
        <5>2. QED
          BY <1>1, <1>2, <5>1
      <4>2. QED
        BY <4>1
    <3>2. \A i \in places : LineAt(u, i) = LineAt(s, i)
      BY LinesStay
    <3>3. p.data \in Seq(Texts) /\ p.line \in Texts
      BY DEF ParserState
    <3> HIDE DEF places
    <3>4. Lists(Append(p.data, p.line), u, places \cup {c})
      BY <1>2, <1>8, <2>1, <3>1, <3>2, <3>3, ListsMore
    <3>5. Passed(u, a, Len(u) + 1, Data) = places \cup {c}
      BY <1>3, <2>2 DEF places
    <3>6. q.data = Append(p.data, p.line)
      BY <2>2
    <3>7. QED
      BY <3>4, <3>5, <3>6
  <2>3. CASE s[c] \notin Data
    <3>1. Passed(u, a, Len(u) + 1, Data) = places
      BY <1>3, <2>3
    <3>2. q.data = p.data
      BY <2>3
    <3>3. Lists(p.data, u, places)
      BY <2>1, ListsStay
    <3>4. QED
      BY <3>1, <3>2, <3>3
  <2>4. QED
    BY <2>2, <2>3
<1>10. q.line = SubSeq(u, Len(u) + 1, Len(u))
  BY EmptyCut
<1>11. q.other <=> Passed(u, a, Len(u) + 1, {"other"}) # {}
  <2>1. p.other <=> Passed(s, a, c, {"other"}) # {}
    BY DEF Knows
  <2>2. CASE s[c] = "other"
    <3>1. Passed(u, a, Len(u) + 1, {"other"}) = Passed(s, a, c, {"other"}) \cup {c}
      BY <1>3, <2>2
    <3>2. QED
      BY <2>2, <3>1
  <2>3. CASE s[c] # "other"
    <3>1. Passed(u, a, Len(u) + 1, {"other"}) = Passed(s, a, c, {"other"})
      BY <1>3, <2>3
    <3>2. QED
      BY <2>1, <2>3, <3>1
  <2>4. QED
    BY <2>2, <2>3
<1>12. q.size = Cardinality(CharsFrom(u, a)) /\ q.size <= MaxFrame
  <2>1. q.size \in Nat /\ MaxFrame \in Nat
    BY StreamAssumption DEF ParserState
  <2>2. QED
    BY <1>5, <2>1
<1>13. Knows(q, u, a, Len(u) + 1)
  BY <1>1, <1>9, <1>10, <1>11, <1>12 DEF Knows
<1>14. Len(u) + 1 \in Nat
  BY <1>1
<1>15. Follows(q, u)
  BY <1>6, <1>7, <1>13, <1>14 DEF Follows
<1>16. QED
  BY <1>6, <1>15 DEF StepOK

(* A blank line ends the frame.                                              *)
LEMMA FrameIs ==
  ASSUME NEW s \in Texts, NEW u \in Texts, More(s, u), NEW a \in Nat, Ended(s, a),
         NEW c \in Nat, Open(s, c), c = Len(s) + 1,
         NEW p \in ParserState, Knows(p, s, a, c),
         u[Len(u)] \in LineEnd, ~Dropped(u, Len(u))
  PROVE  /\ Len(u) \in FrameEnds(u) /\ IsData(p.data, u, Len(u))
         /\ Len(u) \in Owed(u) <=> p.data # <<>>
         /\ Wrong(u, Len(u)) <=> p.data \notin Json \/ p.other
<1> DEFINE n == Len(s)
           places == Fields(u, Len(u), Data)
<1>1. /\ n \in Nat /\ Len(u) = n + 1 /\ DOMAIN u = 1..Len(u) /\ Len(u) \in 1..Len(u)
      /\ \A i \in 1..n : u[i] = s[i]
  BY MoreIs DEF More
<1>2. Len(u) \in FrameEnds(u)
  <2>1. Len(u) = 1 \/ u[Len(u) - 1] \in LineEnd
    <3>1. CASE c = 1
      BY <1>1, <3>1
    <3>2. CASE c # 1
      <4>1. s[c - 1] \in LineEnd /\ c - 1 = n /\ n \in 1..n /\ Len(u) - 1 = n
        BY <1>1, <3>2 DEF Open
      <4>2. QED
        BY <1>1, <4>1
    <3>3. QED
      BY <3>1, <3>2
  <2>2. QED
    BY <1>1, <2>1 DEF FrameEnds, Starts
<1>3. ASSUME NEW names, u[Len(u)] \notin names
      PROVE  Fields(u, Len(u), names) = Passed(s, a, c, names)
  <2>1. Fields(u, Len(u), names) = Passed(u, a, Len(u) + 1, names)
    BY FrameHere
  <2>2. Passed(u, a, c, names) = Passed(s, a, c, names)
    <3>1. c \in 1..(Len(s) + 1)
      BY <1>1
    <3>2. QED
      BY <3>1, PassedStays
  <2>3. ASSUME NEW h \in Starts(u) PROVE h < Len(u) + 1 /\ (h < c \/ h = Len(u))
    <3>1. h \in 1..Len(u)
      BY EndsAreInside
    <3>2. QED
      BY <1>1, <3>1
  <2>4. Passed(u, a, Len(u) + 1, names) = Passed(u, a, c, names)
    BY <1>3, <2>3 DEF Passed
  <2>5. QED
    BY <2>1, <2>2, <2>4
<1>4. u[Len(u)] \notin Data /\ u[Len(u)] \notin {"other"}
  BY DEF LineEnd, Data
<1>5. /\ places = Passed(s, a, c, Data)
      /\ Fields(u, Len(u), {"other"}) = Passed(s, a, c, {"other"})
  BY <1>3, <1>4
<1>6. Lists(p.data, u, places)
  BY <1>5, ListsStay DEF Knows
<1>7. IsData(p.data, u, Len(u))
  BY <1>6, IsDataLists
<1>8. places \subseteq 1..Len(u) /\ Len(u) \in Nat
  BY <1>1, FieldsInside
<1>9. p.data \in Seq(Texts)
  BY DEF ParserState
<1>10. Len(u) \in Owed(u) <=> p.data # <<>>
  <2>1. Len(p.data) = Cardinality(places) /\ IsFiniteSet(places)
    BY <1>6, <1>8, RanksOf DEF Lists
  <2>2. Cardinality(places) = 0 <=> places = {}
    BY <2>1, FS_EmptySet
  <2>3. Len(p.data) = 0 <=> p.data = <<>>
    BY <1>9
  <2>4. QED
    BY <1>2, <2>1, <2>2, <2>3 DEF Owed
<1>11. ASSUME NEW lines \in Json, IsData(lines, u, Len(u)) PROVE lines = p.data
  <2>1. lines \in Seq(Texts)
    <3>1. <<"json">> \in Seq(Token) /\ <<"half">> \in Seq(Token)
      BY DEF Token, Data
    <3>2. << <<"json">> >> \in Seq(Seq(Token)) /\ << <<"half">>, <<"half">> >> \in Seq(Seq(Token))
      BY <3>1
    <3>3. QED
      BY <3>2 DEF Json, Texts
  <2>2. Lists(lines, u, places)
    BY <1>11, IsDataLists
  <2> HIDE DEF places
  <2>3. QED
    BY <1>6, <1>8, <1>9, <2>1, <2>2, ListsOnce
<1>12. p.other <=> Fields(u, Len(u), {"other"}) # {}
  BY <1>5 DEF Knows
<1>13. Wrong(u, Len(u)) <=> p.data \notin Json \/ p.other
  BY <1>7, <1>11, <1>12 DEF Wrong
<1>14. QED
  BY <1>2, <1>7, <1>10, <1>13

LEMMA StepBlank ==
  ASSUME NEW s \in Texts, NEW u \in Texts, More(s, u), ~Broken(s),
         NEW a \in Nat, Ended(s, a), NEW c \in Nat, Open(s, c), c = Len(s) + 1,
         NEW p \in ParserState, Knows(p, s, a, c), NEW q \in ParserState,
         u[Len(u)] \in LineEnd, ~Dropped(u, Len(u)), ~(p.size + Size(u[Len(u)]) > MaxFrame),
         q.line = <<>>, q.data = <<>>, ~q.other, q.size = 0,
         q.skipLF <=> u[Len(u)] = "CR",
         q.failed <=> p.data # <<>> /\ (p.data \notin Json \/ p.other),
         q.events = (IF p.data \in Json /\ ~p.other THEN Append(p.events, p.data)
                     ELSE p.events)
  PROVE  StepOK(p, q, s, u)
<1>1. /\ Len(s) \in Nat /\ Len(u) = Len(s) + 1 /\ Len(u) \in Nat
  BY MoreIs
<1>2. /\ Len(u) \in FrameEnds(u) /\ IsData(p.data, u, Len(u))
      /\ Len(u) \in Owed(u) <=> p.data # <<>>
      /\ Wrong(u, Len(u)) <=> p.data \notin Json \/ p.other
  BY FrameIs
<1>3. CASE q.failed
  BY <1>2, <1>3 DEF StepOK, Broken
<1>4. CASE ~q.failed
  <2>1. Cardinality(Characters(u, Len(u))) = p.size + Size(u[Len(u)])
    BY FrameHere, CharsGrow DEF Ended, Knows
  <2>2. ~Broken(u)
    BY <1>2, <1>4, <2>1, SoundGrows
  <2>3. Ended(u, Len(u))
    <3>1. \A e \in FrameEnds(u) : e <= Len(u)
      BY <1>1, EndsAreInside
    <3>2. QED
      BY <1>1, <1>2, <3>1 DEF Ended
  <2>4. Open(u, Len(u) + 1)
    BY <1>1 DEF Open
  <2>5. CharsFrom(u, Len(u)) = {} /\ \A names : Passed(u, Len(u), Len(u) + 1, names) = {}
    <3>1. (Len(u) + 1)..Len(u) = {}
      BY <1>1
    <3>2. CharsFrom(u, Len(u)) = {}
      BY <3>1 DEF CharsFrom
    <3>3. \A h \in Starts(u) : ~(Len(u) < h)
      BY <1>1, EndsAreInside
    <3>4. QED
      BY <3>2, <3>3 DEF Passed
  <2>6. Knows(q, u, Len(u), Len(u) + 1)
    <3>1. q.line = SubSeq(u, Len(u) + 1, Len(u))
      BY EmptyCut
    <3>2. q.size = Cardinality(CharsFrom(u, Len(u))) /\ q.size <= MaxFrame
      BY <2>5, FS_EmptySet, StreamAssumption
    <3>3. Lists(q.data, u, Passed(u, Len(u), Len(u) + 1, Data))
      <4>1. Len(q.data) = Cardinality(Passed(u, Len(u), Len(u) + 1, Data))
        BY <2>5, FS_EmptySet
      <4>2. QED
        BY <2>5, <4>1 DEF Lists
    <3>4. QED
      BY <1>1, <1>4, <2>5, <3>1, <3>2, <3>3 DEF Knows
  <2>7. Len(u) + 1 \in Nat
    BY <1>1
  <2>8. Follows(q, u)
    BY <1>1, <2>3, <2>4, <2>6, <2>7 DEF Follows
  <2>9. CASE Len(u) \in Owed(u)
    <3>1. p.data \in Json /\ ~p.other
      BY <1>2, <1>4, <2>9
    <3>2. p.data \in Seq(Texts) /\ q.events = Append(p.events, p.data)
      BY <3>1 DEF ParserState
    <3>3. QED
      BY <1>2, <2>2, <2>8, <2>9, <3>2 DEF StepOK
  <2>10. CASE Len(u) \notin Owed(u)
    <3>1. p.data \notin Json
      <4>1. p.data = <<>> /\ Len(p.data) = 0
        BY <1>2, <2>10
      <4>2. /\ Len(<< <<"json">> >>) = 1 /\ Len(<< <<"half">>, <<"half">> >>) = 2
            /\ Json = {<< <<"json">> >>, << <<"half">>, <<"half">> >>}
        BY DEF Json
      <4>3. QED
        BY <4>1, <4>2
    <3>2. QED
      BY <2>2, <2>8, <2>10, <3>1 DEF StepOK
  <2>11. QED
    BY <2>9, <2>10
<1>5. QED
  BY <1>3, <1>4

-----------------------------------------------------------------------------
(* What consume does with one token, field by field.                         *)
LEMMA SizeIs ==
  ASSUME NEW p \in ParserState, NEW t \in Token
  PROVE  /\ Size(t) \in Nat /\ p.size + Size(t) \in Nat /\ MaxFrame \in Nat
         /\ p.size + Size(t) <= MaxFrame <=> ~(p.size + Size(t) > MaxFrame)
<1>1. Size(t) \in {1, 2} /\ p.size \in Nat /\ MaxFrame \in Nat
  BY StreamAssumption DEF Size, ParserState
<1>2. QED
  BY <1>1

LEMMA RestIs ==
  ASSUME NEW p \in ParserState, NEW r, r = [p EXCEPT !.skipLF = FALSE]
  PROVE  /\ r \in ParserState /\ ~r.skipLF
         /\ r.line = p.line /\ r.data = p.data /\ r.other = p.other /\ r.size = p.size
         /\ r.events = p.events /\ r.failed = p.failed
BY DEF ParserState

LEMMA DispatchIs ==
  ASSUME NEW p \in ParserState, NEW r, r = Dispatch(p)
  PROVE  /\ r \in ParserState /\ r.line = p.line /\ r.skipLF = p.skipLF
         /\ r.data = <<>> /\ ~r.other /\ r.size = 0
         /\ r.failed <=> p.data # <<>> /\ (p.data \notin Json \/ p.other)
         /\ r.events = IF p.data \in Json /\ ~p.other THEN Append(p.events, p.data)
                       ELSE p.events
<1> DEFINE events == IF p.data \in Json /\ ~p.other THEN Append(p.events, p.data)
                     ELSE p.events
           bad == p.data # <<>> /\ (p.data \notin Json \/ p.other)
<1>1. p.events \in Seq(Seq(Texts)) /\ p.data \in Seq(Texts)
  BY DEF ParserState
<1>2. events \in Seq(Seq(Texts)) /\ bad \in BOOLEAN /\ <<>> \in Seq(Texts) /\ 0 \in Nat
  <2>1. Append(p.events, p.data) \in Seq(Seq(Texts))
    BY <1>1
  <2>2. QED
    BY <1>1, <2>1
<1>3. r = [p EXCEPT !.data = <<>>, !.other = FALSE, !.size = 0, !.events = events,
                    !.failed = bad]
  BY DEF Dispatch
<1> HIDE DEF events, bad
<1>4. /\ r \in ParserState /\ r.line = p.line /\ r.skipLF = p.skipLF
      /\ r.data = <<>> /\ r.other = FALSE /\ r.size = 0 /\ r.failed = bad /\ r.events = events
  BY <1>2, <1>3 DEF ParserState
<1>5. QED
  BY <1>4 DEF events, bad

LEMMA LineProcessed ==
  ASSUME NEW p \in ParserState, p.line # <<>>, NEW r, r = ProcessLine(p)
  PROVE  /\ r \in ParserState /\ r.skipLF = p.skipLF /\ r.size = p.size
         /\ r.events = p.events /\ r.failed = p.failed
         /\ r.data = IF p.line[1] \in Data THEN Append(p.data, p.line) ELSE p.data
         /\ r.other <=> p.other \/ p.line[1] = "other"
<1>1. p.line \in Texts /\ p.data \in Seq(Texts) /\ p.other \in BOOLEAN
  BY DEF ParserState
<1>2. Append(p.data, p.line) \in Seq(Texts)
  BY <1>1
<1>3. CASE p.line[1] \in Data
  <2>1. p.line[1] # "other"
    BY <1>3 DEF Data
  <2>2. r = [p EXCEPT !.data = Append(@, p.line)]
    BY <1>3, <2>1 DEF ProcessLine
  <2>3. QED
    BY <1>2, <1>3, <2>1, <2>2 DEF ParserState
<1>4. CASE p.line[1] = "other"
  <2>1. p.line[1] \notin Data
    BY <1>4 DEF Data
  <2>2. r = [p EXCEPT !.other = TRUE]
    BY <1>4, <2>1 DEF ProcessLine
  <2>3. QED
    BY <1>4, <2>1, <2>2 DEF ParserState
<1>5. CASE p.line[1] \notin Data /\ p.line[1] # "other"
  <2>1. r = p
    BY <1>5 DEF ProcessLine
  <2>2. QED
    BY <1>1, <1>5, <2>1
<1>6. QED
  BY <1>3, <1>4, <1>5

LEMMA LongIs ==
  ASSUME NEW p \in ParserState, NEW t \in Token, p.size + Size(t) > MaxFrame,
         NEW q, q = Character(p, t)
  PROVE  q \in ParserState /\ q.failed
<1>1. q = [p EXCEPT !.size = p.size + Size(t), !.failed = TRUE]
  BY SizeIs DEF Character
<1>2. QED
  BY <1>1, SizeIs DEF ParserState

LEMMA TokenIs ==
  ASSUME NEW p \in ParserState, NEW t \in Token, ~(p.size + Size(t) > MaxFrame),
         t \notin LineEnd, NEW q, q = Character(p, t)
  PROVE  /\ q \in ParserState /\ q.line = Append(p.line, t) /\ q.data = p.data
         /\ q.other = p.other /\ q.size = p.size + Size(t) /\ q.skipLF = p.skipLF
         /\ q.failed = p.failed /\ q.events = p.events
<1>1. q = [p EXCEPT !.size = p.size + Size(t), !.line = Append(@, t)]
  BY SizeIs DEF Character
<1>2. Append(p.line, t) \in Texts
  BY DEF ParserState, Texts
<1>3. QED
  BY <1>1, <1>2, SizeIs DEF ParserState

LEMMA EndIs ==
  ASSUME NEW p \in ParserState, NEW t \in Token, ~(p.size + Size(t) > MaxFrame),
         t \in LineEnd, NEW q, q = Character(p, t)
  PROVE  \E z, v :
           /\ z \in ParserState
           /\ z.line = p.line /\ z.data = p.data /\ z.other = p.other
           /\ z.size = p.size + Size(t) /\ z.failed = p.failed /\ z.events = p.events
           /\ v = ProcessLine(z)
           /\ v \in ParserState =>
                /\ q \in ParserState /\ q.line = <<>> /\ (q.skipLF <=> t = "CR")
                /\ q.data = v.data /\ q.other = v.other /\ q.size = v.size
                /\ q.failed = v.failed /\ q.events = v.events
<1> DEFINE z == [p EXCEPT !.size = p.size + Size(t)]
           v == ProcessLine(z)
<1>1. q = [v EXCEPT !.line = <<>>, !.skipLF = t = "CR"]
  BY SizeIs DEF Character
<1>2. /\ z \in ParserState /\ z.line = p.line /\ z.data = p.data /\ z.other = p.other
      /\ z.size = p.size + Size(t) /\ z.failed = p.failed /\ z.events = p.events
  BY SizeIs DEF ParserState
<1> HIDE DEF z
<1>3. ASSUME v \in ParserState
      PROVE  /\ q \in ParserState /\ q.line = <<>> /\ (q.skipLF <=> t = "CR")
             /\ q.data = v.data /\ q.other = v.other /\ q.size = v.size
             /\ q.failed = v.failed /\ q.events = v.events
  <2> DEFINE w == v
             b == t = "CR"
  <2>1. w \in ParserState /\ b \in BOOLEAN /\ <<>> \in Texts
    BY <1>3 DEF Texts
  <2>2. q = [w EXCEPT !.line = <<>>, !.skipLF = b]
    BY <1>1
  <2> HIDE DEF w, b
  <2>3. /\ q \in ParserState /\ q.line = <<>> /\ q.skipLF = b
        /\ q.data = w.data /\ q.other = w.other /\ q.size = w.size
        /\ q.failed = w.failed /\ q.events = w.events
    BY <2>1, <2>2 DEF ParserState
  <2>4. QED
    BY <2>3 DEF w, b
<1>4. QED
  BY <1>2, <1>3

(* One round of the loop keeps what the parser knows, or fails with reason.  *)
LEMMA Consumed ==
  ASSUME NEW s \in Texts, NEW u \in Texts, More(s, u), ~Broken(s),
         NEW p \in ParserState, Follows(p, s), NEW q, q = Consume(p, u[Len(u)])
  PROVE  q \in ParserState /\ StepOK(p, q, s, u)
<1> DEFINE t == u[Len(u)]
           r == [p EXCEPT !.skipLF = FALSE]
<1>1. /\ Len(s) \in Nat /\ Len(u) = Len(s) + 1 /\ t \in Token
      /\ \A i \in 1..Len(s) : u[i] = s[i]
  BY MoreIs DEF More
<1>2. PICK a \in Nat, c \in Nat : Ended(s, a) /\ Open(s, c) /\ Knows(p, s, a, c)
  BY DEF Follows
<1>3. ~p.failed /\ (p.skipLF <=> Len(s) > 0 /\ s[Len(s)] = "CR")
  BY <1>2 DEF Knows
<1>4. Dropped(u, Len(u)) <=> p.skipLF /\ t = "LF"
  <2>1. Len(u) > 1 <=> Len(s) > 0
    BY <1>1
  <2>2. ASSUME Len(s) > 0 PROVE u[Len(u) - 1] = s[Len(s)]
    <3>1. Len(s) \in 1..Len(s) /\ Len(u) - 1 = Len(s)
      BY <1>1, <2>2
    <3>2. QED
      BY <1>1, <3>1
  <2>3. QED
    BY <1>3, <2>1, <2>2 DEF Dropped
<1>5. /\ r \in ParserState /\ ~r.skipLF
      /\ r.line = p.line /\ r.data = p.data /\ r.other = p.other /\ r.size = p.size
      /\ r.events = p.events /\ r.failed = p.failed
  BY RestIs
<1>6. q = IF p.skipLF /\ t = "LF" THEN r ELSE Character(r, t)
  BY <1>3 DEF Consume
<1> HIDE DEF r, t
<1>7. CASE p.skipLF /\ t = "LF"
  <2>1. q = r
    BY <1>6, <1>7
  <2>2. Dropped(u, Len(u))
    BY <1>4, <1>7
  <2>3. StepOK(p, q, s, u)
    BY <1>2, <1>3, <1>5, <2>1, <2>2, StepDropped
  <2>4. QED
    BY <1>5, <2>1, <2>3
<1>8. CASE ~(p.skipLF /\ t = "LF") /\ p.size + Size(t) > MaxFrame
  <2>1. q = Character(r, t) /\ ~Dropped(u, Len(u))
    BY <1>4, <1>6, <1>8
  <2>2. q \in ParserState /\ q.failed
    BY <1>1, <1>5, <1>8, <2>1, LongIs
  <2>3. Broken(u)
    BY <1>2, <1>8, <2>1, StepTooLong DEF t
  <2>4. QED
    BY <2>2, <2>3 DEF StepOK
<1>9. CASE ~(p.skipLF /\ t = "LF") /\ ~(p.size + Size(t) > MaxFrame) /\ t \notin LineEnd
  <2>1. q = Character(r, t)
    BY <1>6, <1>9
  <2>2. /\ q \in ParserState /\ q.line = Append(p.line, t) /\ q.data = p.data
        /\ q.other = p.other /\ q.size = p.size + Size(t) /\ ~q.skipLF
        /\ ~q.failed /\ q.events = p.events
    BY <1>1, <1>3, <1>5, <1>9, <2>1, TokenIs
  <2>3. StepOK(p, q, s, u)
    BY <1>2, <1>9, <2>2, StepToken DEF t
  <2>4. QED
    BY <2>2, <2>3
<1>10. CASE ~(p.skipLF /\ t = "LF") /\ ~(p.size + Size(t) > MaxFrame) /\ t \in LineEnd
  <2>1. q = Character(r, t) /\ ~Dropped(u, Len(u))
    BY <1>4, <1>6, <1>10
  <2>2. PICK z, v :
          /\ z \in ParserState
          /\ z.line = r.line /\ z.data = r.data /\ z.other = r.other
          /\ z.size = r.size + Size(t) /\ z.failed = r.failed /\ z.events = r.events
          /\ v = ProcessLine(z)
          /\ v \in ParserState =>
               /\ q \in ParserState /\ q.line = <<>> /\ (q.skipLF <=> t = "CR")
               /\ q.data = v.data /\ q.other = v.other /\ q.size = v.size
               /\ q.failed = v.failed /\ q.events = v.events
    <3>1. ~(r.size + Size(t) > MaxFrame)
      BY <1>5, <1>10
    <3>2. QED
      BY <1>1, <1>5, <1>10, <2>1, <3>1, EndIs
  <2>3. c \in 1..(Len(s) + 1) /\ p.line = SubSeq(s, c, Len(s))
    BY <1>2 DEF Open, Knows
  <2>4. CASE c = Len(s) + 1
    <3>1. z.line = <<>>
      BY <1>5, <2>2, <2>3, <2>4, EmptyCut
    <3>2. v = Dispatch(z)
      BY <2>2, <3>1 DEF ProcessLine
    <3>3. /\ v \in ParserState /\ v.data = <<>> /\ ~v.other /\ v.size = 0
          /\ v.failed <=> z.data # <<>> /\ (z.data \notin Json \/ z.other)
          /\ v.events = IF z.data \in Json /\ ~z.other THEN Append(z.events, z.data)
                        ELSE z.events
      BY <2>2, <3>2, DispatchIs
    <3>4. z.data = p.data /\ z.other = p.other /\ z.events = p.events
      BY <1>5, <2>2
    <3>5. /\ q \in ParserState /\ q.line = <<>> /\ (q.skipLF <=> t = "CR")
          /\ q.data = <<>> /\ ~q.other /\ q.size = 0
          /\ q.failed <=> p.data # <<>> /\ (p.data \notin Json \/ p.other)
          /\ q.events = IF p.data \in Json /\ ~p.other THEN Append(p.events, p.data)
                        ELSE p.events
      BY <2>2, <3>3, <3>4
    <3>6. StepOK(p, q, s, u)
      BY <1>2, <1>10, <2>1, <2>4, <3>5, StepBlank DEF t
    <3>7. QED
      BY <3>5, <3>6
  <2>5. CASE c # Len(s) + 1
    <3>1. c \in Nat \ {0} /\ c <= Len(s) /\ Len(s) \in 0..Len(s)
      BY <1>1, <2>3, <2>5
    <3>2. p.line # <<>> /\ p.line[1] = s[c]
      <4> DEFINE line == SubSeq(s, c, Len(s))
      <4>0. /\ line \in Texts /\ Len(line) = (IF c <= Len(s) THEN Len(s) - c + 1 ELSE 0)
            /\ \A j \in 1..(Len(s) - c + 1) : line[j] = s[c + j - 1]
        BY <3>1, Cut
      <4> HIDE DEF line
      <4>1. /\ Len(p.line) = (IF c <= Len(s) THEN Len(s) - c + 1 ELSE 0)
            /\ \A j \in 1..(Len(s) - c + 1) : p.line[j] = s[c + j - 1]
        BY <2>3, <4>0 DEF line
      <4>2. 1 \in 1..(Len(s) - c + 1) /\ c + 1 - 1 = c /\ Len(s) - c + 1 # 0
        BY <1>1, <3>1
      <4>3. p.line[1] = s[c + 1 - 1] /\ Len(p.line) # 0
        BY <3>1, <4>1, <4>2
      <4>4. QED
        BY <4>2, <4>3
    <3>3. z.line = p.line /\ z.line # <<>>
      BY <1>5, <2>2, <3>2
    <3>4. /\ v \in ParserState /\ v.size = z.size /\ v.events = z.events /\ v.failed = z.failed
          /\ v.data = IF z.line[1] \in Data THEN Append(z.data, z.line) ELSE z.data
          /\ v.other <=> z.other \/ z.line[1] = "other"
      BY <2>2, <3>3, LineProcessed
    <3>5. /\ z.data = p.data /\ z.other = p.other /\ z.events = p.events
          /\ z.size = p.size + Size(t) /\ ~z.failed /\ z.line[1] = s[c]
      BY <1>3, <1>5, <2>2, <3>2, <3>3
    <3>6. /\ q \in ParserState /\ q.line = <<>> /\ (q.skipLF <=> t = "CR")
          /\ q.data = IF s[c] \in Data THEN Append(p.data, p.line) ELSE p.data
          /\ q.other <=> p.other \/ s[c] = "other"
          /\ q.size = p.size + Size(t) /\ ~q.failed /\ q.events = p.events
      BY <2>2, <3>3, <3>4, <3>5
    <3>7. StepOK(p, q, s, u)
      BY <1>2, <1>10, <2>1, <3>1, <3>6, StepLine DEF t
    <3>8. QED
      BY <3>6, <3>7
  <2>6. QED
    BY <2>4, <2>5
<1>11. QED
  BY <1>7, <1>8, <1>9, <1>10

-----------------------------------------------------------------------------
(* The beginnings of a text.                                                 *)
LEMMA PartIs ==
  ASSUME NEW s \in Texts, NEW k \in 0..Len(s)
  PROVE  /\ SubSeq(s, 1, k) \in Texts /\ Len(SubSeq(s, 1, k)) = k
         /\ \A i \in 1..k : SubSeq(s, 1, k)[i] = s[i]
         /\ Prefix(SubSeq(s, 1, k), s)
<1>1. /\ SubSeq(s, 1, k) \in Texts /\ Len(SubSeq(s, 1, k)) = (IF 1 <= k THEN k - 1 + 1 ELSE 0)
      /\ \A j \in 1..(k - 1 + 1) : SubSeq(s, 1, k)[j] = s[1 + j - 1]
  BY Cut
<1>2. Len(s) \in Nat /\ k \in Nat
  BY DEF Texts
<1>3. Len(SubSeq(s, 1, k)) = k
  BY <1>1, <1>2
<1>4. \A i \in 1..k : i \in 1..(k - 1 + 1) /\ 1 + i - 1 = i
  BY <1>2
<1>5. \A i \in 1..k : SubSeq(s, 1, k)[i] = s[i]
  BY <1>1, <1>4
<1>6. Prefix(SubSeq(s, 1, k), s)
  BY <1>2, <1>3, <1>5 DEF Prefix
<1>7. QED
  BY <1>1, <1>3, <1>5, <1>6

LEMMA AllOfIt ==
  ASSUME NEW s \in Texts
  PROVE  SubSeq(s, 1, Len(s)) = s
<1>1. Len(s) \in 0..Len(s)
  BY DEF Texts
<1>2. QED
  BY <1>1, PartIs, SameSeq DEF Texts

LEMMA NextPart ==
  ASSUME NEW s \in Texts, NEW k \in Nat, k < Len(s)
  PROVE  /\ More(SubSeq(s, 1, k), SubSeq(s, 1, k + 1))
         /\ SubSeq(s, 1, k + 1)[k + 1] = s[k + 1]
<1>1. Len(s) \in Nat /\ k \in 0..Len(s) /\ k + 1 \in 0..Len(s) /\ k + 1 \in 1..(k + 1)
      /\ \A i \in 1..k : i \in 1..(k + 1)
  BY DEF Texts
<1>2. /\ Len(SubSeq(s, 1, k)) = k /\ \A i \in 1..k : SubSeq(s, 1, k)[i] = s[i]
  BY <1>1, PartIs
<1>3. /\ Len(SubSeq(s, 1, k + 1)) = k + 1
      /\ \A i \in 1..(k + 1) : SubSeq(s, 1, k + 1)[i] = s[i]
  BY <1>1, PartIs
<1>4. QED
  BY <1>1, <1>2, <1>3 DEF More

LEMMA SamePart ==
  ASSUME NEW s \in Texts, NEW t \in Token, NEW k \in 0..Len(s)
  PROVE  SubSeq(Append(s, t), 1, k) = SubSeq(s, 1, k)
<1> DEFINE u == Append(s, t)
<1>1. u \in Texts /\ Len(u) = Len(s) + 1 /\ \A i \in 1..Len(s) : u[i] = s[i]
  BY OneMore DEF Texts
<1>2. Len(s) \in Nat
  BY DEF Texts
<1> HIDE DEF u
<1>3. k \in 0..Len(u) /\ \A i \in 1..k : u[i] = s[i]
  BY <1>1, <1>2
<1>4. /\ SubSeq(u, 1, k) \in Texts /\ Len(SubSeq(u, 1, k)) = k
      /\ \A i \in 1..k : SubSeq(u, 1, k)[i] = u[i]
  BY <1>1, <1>3, PartIs
<1>5. /\ SubSeq(s, 1, k) \in Texts /\ Len(SubSeq(s, 1, k)) = k
      /\ \A i \in 1..k : SubSeq(s, 1, k)[i] = s[i]
  BY PartIs
<1>6. SubSeq(u, 1, k) = SubSeq(s, 1, k)
  BY <1>3, <1>4, <1>5, SameSeq DEF Texts
<1>7. QED
  BY <1>6 DEF u

-----------------------------------------------------------------------------
(* The loop of consume over the characters of one piece.                     *)
LEMMA PushStep ==
  ASSUME NEW chunk, Len(chunk) \in Nat
  PROVE  \E after :
           /\ after[0] = [parser EXCEPT !.events = <<>>]
           /\ \A i \in 1..Len(chunk) : after[i] = Consume(after[i - 1], chunk[i])
           /\ Push(chunk) = after[Len(chunk)]
<1> DEFINE first == [parser EXCEPT !.events = <<>>]
           Loop(f, n) ==
             f = [i \in 0..n |-> IF i = 0 THEN first ELSE Consume(f[i - 1], chunk[i])]
           Bad == {n \in Nat : ~ \E f : Loop(f, n)}
<1>1. ASSUME Bad # {} PROVE FALSE
  <2>1. PICK n \in Bad : \A k \in Bad : n <= k
    <3>1. Bad \subseteq Nat
      OBVIOUS
    <3> HIDE DEF Bad
    <3>2. QED
      BY <1>1, <3>1, Smallest
  <2>2. n \in Nat /\ ~ \E f : Loop(f, n)
    BY <2>1
  <2>3. CASE n = 0
    <3> DEFINE f == [i \in 0..0 |-> first]
    <3>1. Loop(f, 0)
      OBVIOUS
    <3>2. QED
      BY <2>2, <2>3, <3>1
  <2>4. CASE n # 0
    <3>1. n - 1 \in Nat /\ n - 1 \notin Bad
      BY <2>1, <2>2, <2>4
    <3>2. PICK g : Loop(g, n - 1)
      BY <3>1
    <3> DEFINE f == [i \in 0..n |-> IF i = n THEN Consume(g[n - 1], chunk[n]) ELSE g[i]]
    <3>3. \A i \in 0..(n - 1) :
            g[i] = IF i = 0 THEN first ELSE Consume(g[i - 1], chunk[i])
      BY <3>2
    <3>4. ASSUME NEW i \in 0..n
          PROVE  f[i] = IF i = 0 THEN first ELSE Consume(f[i - 1], chunk[i])
      <4>1. CASE i = n
        <5>1. i # 0 /\ i - 1 \in 0..n /\ i - 1 # n
          BY <2>2, <2>4, <4>1
        <5>2. f[i - 1] = g[n - 1] /\ f[i] = Consume(g[n - 1], chunk[n])
          BY <4>1, <5>1
        <5>3. QED
          BY <4>1, <5>1, <5>2
      <4>2. CASE i # n
        <5>1. i \in 0..(n - 1)
          BY <2>2, <4>2
        <5>2. i # 0 => i - 1 \in 0..n /\ i - 1 # n
          BY <2>2, <5>1
        <5>3. f[i] = g[i] /\ (i # 0 => f[i - 1] = g[i - 1])
          BY <4>2, <5>2
        <5> HIDE DEF f
        <5>4. QED
          BY <3>3, <5>1, <5>3
      <4>3. QED
        BY <4>1, <4>2
    <3>5. f = [i \in 0..n |-> f[i]]
      OBVIOUS
    <3>6. Loop(f, n)
      <4> HIDE DEF f, first
      <4>1. QED
        BY <3>4, <3>5
    <3>7. QED
      BY <2>2, <3>6
  <2>5. QED
    BY <2>3, <2>4
<1> DEFINE n == Len(chunk)
           after == CHOOSE f : Loop(f, n)
<1>2. \E f : Loop(f, n)
  BY <1>1
<1>3. Loop(after, n)
  <2> HIDE DEF Loop
  <2>1. QED
    BY <1>2
<1>4. Push(chunk) = after[n]
  BY DEF Push
<1> HIDE DEF after, first
<1>5. after[0] = first
  BY <1>3
<1>6. ASSUME NEW i \in 1..n PROVE after[i] = Consume(after[i - 1], chunk[i])
  <2>1. i \in 0..n /\ i # 0
    BY <1>6
  <2>2. QED
    BY <1>3, <2>1
<1>7. QED
  BY <1>4, <1>5, <1>6 DEF first

(* What a push has done with the first of its characters.                    *)
Exact(p, s) == Follows(p, s) /\ ~Broken(s) /\ Delivered(given \o p.events, s)
Fails(p) == p.failed /\ Broken(text)
Sofar(p, s) == p \in ParserState /\ (Fails(p) \/ Exact(p, s))

LEMMA OneMorePushed ==
  ASSUME text \in Texts, given \in Seq(Seq(Texts)), NEW k \in Nat, k < Len(text),
         NEW p, Sofar(p, SubSeq(text, 1, k)), NEW q, q = Consume(p, text[k + 1])
  PROVE  Sofar(q, SubSeq(text, 1, k + 1))
<1> DEFINE s == SubSeq(text, 1, k)
           u == SubSeq(text, 1, k + 1)
<1>1. k \in 0..Len(text) /\ k + 1 \in 0..Len(text) /\ Len(text) \in Nat
  BY DEF Texts
<1>2. s \in Texts /\ u \in Texts /\ Len(u) = k + 1 /\ Prefix(u, text)
  BY <1>1, PartIs
<1>3. More(s, u) /\ u[k + 1] = text[k + 1]
  BY NextPart
<1>4. Sofar(p, s)
  OBVIOUS
<1> HIDE DEF s, u
<1>5. q = Consume(p, u[Len(u)])
  BY <1>2, <1>3
<1>6. CASE Fails(p)
  <2>1. q = p
    BY <1>6 DEF Consume, Fails
  <2>2. QED
    BY <1>4, <1>6, <2>1 DEF Sofar
<1>7. CASE Exact(p, s)
  <2>0. /\ Follows(p, s) /\ ~Broken(s) /\ Delivered(given \o p.events, s)
        /\ p \in ParserState
    BY <1>4, <1>7 DEF Exact, Sofar
  <2>1. q \in ParserState /\ StepOK(p, q, s, u)
    BY <1>2, <1>3, <1>5, <2>0, Consumed
  <2>2. CASE q.failed /\ Broken(u)
    <3>1. Broken(text)
      BY <1>2, <2>2, BrokenStays
    <3>2. Fails(q)
      BY <2>2, <3>1 DEF Fails
    <3>3. QED
      BY <2>1, <3>2 DEF Sofar
  <2>3. CASE ~(q.failed /\ Broken(u))
    <3>1. Follows(q, u) /\ ~Broken(u)
      BY <2>1, <2>3 DEF StepOK
    <3>2. p.events \in Seq(Seq(Texts))
      BY <2>0 DEF ParserState
    <3>3. Delivered(given \o q.events, u)
      <4>1. CASE Len(u) \in Owed(u)
        <5>1. PICK lines \in Seq(Texts) :
                q.events = Append(p.events, lines) /\ IsData(lines, u, Len(u))
          BY <2>1, <2>3, <4>1 DEF StepOK
        <5>2. given \o Append(p.events, lines) = Append(given \o p.events, lines)
          BY <3>2
        <5>3. given \o p.events \in Seq(Seq(Texts))
          BY <3>2
        <5>4. Delivered(Append(given \o p.events, lines), u)
          BY <1>2, <1>3, <2>0, <4>1, <5>1, <5>3, DeliveredMore
        <5>5. QED
          BY <5>1, <5>2, <5>4
      <4>2. CASE Len(u) \notin Owed(u)
        <5>1. q.events = p.events
          BY <2>1, <2>3, <4>2 DEF StepOK
        <5>2. QED
          BY <1>2, <1>3, <2>0, <4>2, <5>1, DeliveredStays
      <4>3. QED
        BY <4>1, <4>2
    <3>4. Exact(q, u)
      BY <3>1, <3>3 DEF Exact
    <3>5. QED
      BY <2>1, <3>4 DEF Sofar, u
  <2>4. QED
    BY <2>2, <2>3
<1>8. QED
  BY <1>4, <1>6, <1>7 DEF Sofar

LEMMA Pushed ==
  ASSUME text \in Texts, given \in Seq(Seq(Texts)), read \in 0..Len(text), read < Len(text),
         parser \in ParserState, Follows(parser, SubSeq(text, 1, read)),
         ~Broken(SubSeq(text, 1, read)), Delivered(given, SubSeq(text, 1, read)),
         NEW q, q = Push(SubSeq(text, read + 1, Len(text)))
  PROVE  Sofar(q, text)
<1> DEFINE chunk == SubSeq(text, read + 1, Len(text))
           n == Len(chunk)
<1>1. Len(text) \in Nat /\ read \in Nat /\ read + 1 \in Nat \ {0} /\ Len(text) \in 0..Len(text)
      /\ read + 1 <= Len(text)
  BY DEF Texts
<1>2. /\ n = Len(text) - read
      /\ \A j \in 1..n : chunk[j] = text[read + j]
  <2>1. /\ n = (IF read + 1 <= Len(text) THEN Len(text) - (read + 1) + 1 ELSE 0)
        /\ \A j \in 1..(Len(text) - (read + 1) + 1) : chunk[j] = text[read + 1 + j - 1]
    BY <1>1, Cut
  <2>2. n = Len(text) - read /\ Len(text) - (read + 1) + 1 = Len(text) - read
    BY <1>1, <2>1
  <2>3. \A j \in 1..n : j \in 1..(Len(text) - (read + 1) + 1) /\ read + 1 + j - 1 = read + j
    BY <1>1, <2>2
  <2>4. QED
    BY <2>1, <2>2, <2>3
<1>3. n \in Nat
  BY <1>1, <1>2
<1>4. PICK after :
        /\ after[0] = [parser EXCEPT !.events = <<>>]
        /\ \A i \in 1..n : after[i] = Consume(after[i - 1], chunk[i])
        /\ q = after[n]
  BY <1>3, PushStep
<1> HIDE DEF chunk, n
<1> DEFINE Good(i) == Sofar(after[i], SubSeq(text, 1, read + i))
<1>5. Good(0)
  <2> DEFINE p == after[0]
  <2>1. <<>> \in Seq(Seq(Texts))
    OBVIOUS
  <2>2. /\ p \in ParserState /\ p.events = <<>> /\ p.line = parser.line
        /\ p.data = parser.data /\ p.other = parser.other /\ p.skipLF = parser.skipLF
        /\ p.size = parser.size /\ p.failed = parser.failed
    BY <1>4, <2>1 DEF ParserState
  <2>3. Follows(p, SubSeq(text, 1, read))
    <3> HIDE DEF p
    <3>1. QED
      BY <2>2 DEF Follows, Knows
  <2>4. given \o p.events = given
    BY <2>2
  <2>5. read + 0 = read
    BY <1>1
  <2> HIDE DEF p
  <2>6. Sofar(p, SubSeq(text, 1, read))
    BY <2>2, <2>3, <2>4 DEF Sofar, Exact
  <2>7. QED
    BY <2>5, <2>6 DEF p
<1>6. ASSUME NEW i \in 1..n, Good(i - 1) PROVE Good(i)
  <2>1. /\ i \in Nat /\ read + (i - 1) \in Nat /\ read + (i - 1) < Len(text)
        /\ read + (i - 1) + 1 = read + i
    BY <1>1, <1>2, <1>3
  <2>2. after[i] = Consume(after[i - 1], text[read + (i - 1) + 1])
    BY <1>2, <1>4, <2>1
  <2>3. Sofar(after[i], SubSeq(text, 1, read + (i - 1) + 1))
    BY <1>6, <2>1, <2>2, OneMorePushed
  <2>4. QED
    BY <2>1, <2>3
<1>7. Good(n)
  <2> DEFINE Bad == {i \in Nat : i <= n /\ ~Good(i)}
  <2>1. ASSUME Bad # {} PROVE FALSE
    <3>1. PICK i \in Bad : \A j \in Bad : i <= j
      <4>1. Bad \subseteq Nat
        OBVIOUS
      <4> HIDE DEF Bad
      <4>2. QED
        BY <2>1, <4>1, Smallest
    <3> HIDE DEF Good
    <3>2. i \in Nat /\ i <= n /\ ~Good(i) /\ i # 0
      BY <1>5, <3>1
    <3>3. i \in 1..n /\ i - 1 \in Nat /\ i - 1 <= n /\ ~(i <= i - 1)
      BY <1>3, <3>2
    <3>4. Good(i - 1)
      BY <3>1, <3>3
    <3>5. QED
      BY <1>6, <3>2, <3>3, <3>4
  <2> HIDE DEF Good
  <2>2. QED
    BY <1>3, <2>1
<1>8. read + n = Len(text)
  BY <1>1, <1>2
<1>9. QED
  BY <1>4, <1>7, <1>8, AllOfIt

-----------------------------------------------------------------------------
(* What the parser knows and what the caller was given, between the steps.   *)
Sound == SubSeq(text, 1, read)

StreamTypes ==
  /\ text \in Texts /\ read \in 0..Len(text)
  /\ parser \in ParserState
  /\ ready \in Seq(Seq(Texts)) /\ given \in Seq(Seq(Texts))
  /\ stage \in {"reading", "yielding", "finished", "failed", "aborted"}

Keeping ==
  /\ stage \in {"reading", "failed"} => ready = <<>>
  /\ stage = "yielding" => ready # <<>>
  /\ stage \in {"reading", "yielding"} => Follows(parser, Sound)

Giving ==
  /\ ~Broken(Sound)
  /\ stage # "aborted" => Delivered(given \o ready, Sound)
  /\ Begins(given \o ready, Sound)
  /\ stage = "failed" => Broken(text)

SseInv == StreamTypes /\ Keeping /\ Giving

LEMMA InitKeeps == Init => SseInv
<1> SUFFICES ASSUME Init PROVE SseInv
  OBVIOUS
<1> DEFINE none == SubSeq(text, 1, read)
<1>1. /\ text = <<>> /\ text \in Texts /\ Len(text) = 0 /\ read = 0 /\ read \in 0..Len(text)
      /\ <<>> \in Texts /\ <<>> \in Seq(Texts) /\ <<>> \in Seq(Seq(Texts))
      /\ DOMAIN <<>> = {}
  BY DEF Init, Texts
<1>2. none = <<>>
  BY <1>1, AllOfIt
<1>3. Starts(<<>>) = {} /\ FrameEnds(<<>>) = {} /\ Owed(<<>>) = {}
  BY <1>1 DEF Starts, FrameEnds, Owed
<1>4. ~Broken(<<>>)
  BY <1>1, <1>3 DEF Broken, TooLong
<1>5. Len(<<>>) = 0 /\ Cardinality({}) = 0
  BY FS_EmptySet
<1>6. Follows(Empty, <<>>)
  <2>1. Ended(<<>>, 0)
    BY <1>3, <1>5 DEF Ended
  <2>2. Open(<<>>, 1)
    BY <1>5 DEF Open
  <2>3. CharsFrom(<<>>, 0) = {} /\ \A names : Passed(<<>>, 0, 1, names) = {}
    <3>1. (0 + 1)..Len(<<>>) = {}
      BY <1>5
    <3>2. QED
      BY <1>3, <3>1 DEF CharsFrom, Passed
  <2>4. Knows(Empty, <<>>, 0, 1)
    <3>1. SubSeq(<<>>, 1, Len(<<>>)) = <<>>
      BY <1>1, AllOfIt
    <3>2. Lists(<<>>, <<>>, {})
      BY <1>5 DEF Lists
    <3>3. 0 <= MaxFrame
      BY StreamAssumption
    <3>4. /\ Empty.line = <<>> /\ Empty.data = <<>> /\ Empty.other = FALSE
          /\ Empty.skipLF = FALSE /\ Empty.size = 0 /\ Empty.failed = FALSE
      BY DEF Empty
    <3> HIDE DEF Empty
    <3>5. Empty.line = SubSeq(<<>>, 1, Len(<<>>))
      BY <3>1, <3>4
    <3>6. Empty.size = Cardinality(CharsFrom(<<>>, 0)) /\ Empty.size <= MaxFrame
      BY <1>5, <2>3, <3>3, <3>4
    <3>7. Lists(Empty.data, <<>>, Passed(<<>>, 0, 1, Data))
      BY <2>3, <3>2, <3>4
    <3>8. Empty.other <=> Passed(<<>>, 0, 1, {"other"}) # {}
      BY <2>3, <3>4
    <3>9. Empty.skipLF <=> Len(<<>>) > 0 /\ <<>>[Len(<<>>)] = "CR"
      BY <1>5, <3>4
    <3>10. QED
      BY <3>4, <3>5, <3>6, <3>7, <3>8, <3>9 DEF Knows
  <2>5. QED
    BY <2>1, <2>2, <2>4 DEF Follows
<1>7. Delivered(<<>>, <<>>)
  BY <1>3, <1>5 DEF Delivered
<1>8. Begins(<<>>, <<>>)
  BY <1>1, <1>7, DeliveredBegins
<1>9. Empty \in ParserState
  BY <1>1 DEF Empty, ParserState
<1>10. given = <<>> /\ ready = <<>> /\ given \o ready = <<>> /\ parser = Empty
       /\ stage = "reading"
  BY DEF Init
<1>11. StreamTypes
  BY <1>1, <1>9, <1>10 DEF StreamTypes
<1>12. Keeping
  BY <1>2, <1>6, <1>10 DEF Keeping, Sound
<1>13. Giving
  BY <1>2, <1>4, <1>7, <1>8, <1>10 DEF Giving, Sound
<1>14. QED
  BY <1>11, <1>12, <1>13 DEF SseInv

LEMMA SendKeeps ==
  ASSUME SseInv, NEW t \in Token, Send(t)
  PROVE  SseInv'
<1>1. /\ text' = Append(text, t) /\ read' = read /\ parser' = parser /\ ready' = ready
      /\ given' = given /\ stage' = stage /\ stage = "reading"
  BY DEF Send
<1>2. text \in Texts /\ read \in 0..Len(text)
  BY DEF SseInv, StreamTypes
<1>3. text' \in Texts /\ Len(text') = Len(text) + 1
  BY <1>1, <1>2, OneMore DEF Texts
<1>4. read' \in 0..Len(text')
  <2>1. Len(text) \in Nat
    BY <1>2 DEF Texts
  <2>2. QED
    BY <1>1, <1>2, <1>3, <2>1
<1>5. Sound' = Sound
  BY <1>1, <1>2, SamePart DEF Sound
<1>6. StreamTypes'
  BY <1>1, <1>3, <1>4 DEF SseInv, StreamTypes
<1>7. Keeping'
  BY <1>1, <1>5 DEF SseInv, Keeping
<1>8. Giving'
  BY <1>1, <1>5 DEF SseInv, Giving
<1>9. QED
  BY <1>6, <1>7, <1>8 DEF SseInv

LEMMA ReadKeeps ==
  ASSUME SseInv, Read
  PROVE  SseInv'
<1> DEFINE q == Push(SubSeq(text, read + 1, Len(text)))
<1>1. /\ text \in Texts /\ read \in 0..Len(text) /\ parser \in ParserState
      /\ given \in Seq(Seq(Texts)) /\ Len(text) \in Nat
  BY DEF SseInv, StreamTypes, Texts
<1>2. /\ stage = "reading" /\ read < Len(text) /\ parser' = q /\ text' = text /\ given' = given
      /\ q.failed => stage' = "failed" /\ read' = read /\ ready' = ready
      /\ ~q.failed => /\ stage' = IF q.events = <<>> THEN "reading" ELSE "yielding"
                      /\ read' = Len(text) /\ ready' = q.events
  BY DEF Read
<1>3. ready = <<>> /\ given \o ready = given /\ Follows(parser, Sound)
  BY <1>1, <1>2 DEF SseInv, Keeping
<1>4. ~Broken(Sound) /\ Delivered(given, Sound) /\ Begins(given, Sound)
  BY <1>2, <1>3 DEF SseInv, Giving
<1>5. Sofar(q, text)
  BY <1>1, <1>2, <1>3, <1>4, Pushed DEF Sound
<1> HIDE DEF q
<1>6. q \in ParserState /\ q.failed \in BOOLEAN /\ q.events \in Seq(Seq(Texts))
  BY <1>5 DEF Sofar, ParserState
<1>7. CASE q.failed
  <2>1. /\ stage' = "failed" /\ read' = read /\ ready' = <<>> /\ Sound' = Sound
        /\ given' \o ready' = given
    BY <1>1, <1>2, <1>3, <1>7 DEF Sound
  <2>2. Broken(text)
    <3>1. ~Exact(q, text)
      BY <1>7 DEF Exact, Follows, Knows
    <3>2. QED
      BY <1>5, <3>1 DEF Sofar, Fails
  <2>3. StreamTypes'
    BY <1>1, <1>2, <1>3, <1>6, <2>1 DEF SseInv, StreamTypes
  <2>4. Keeping'
    BY <2>1 DEF Keeping
  <2>5. Giving'
    BY <1>2, <1>4, <2>1, <2>2 DEF Giving
  <2>6. QED
    BY <2>3, <2>4, <2>5 DEF SseInv
<1>8. CASE ~q.failed
  <2>1. /\ stage' = (IF q.events = <<>> THEN "reading" ELSE "yielding")
        /\ read' = Len(text) /\ ready' = q.events
    BY <1>2, <1>8
  <2>2. Sound' = text
    BY <1>1, <1>2, <2>1, AllOfIt DEF Sound
  <2>3. Follows(q, text) /\ ~Broken(text) /\ Delivered(given \o q.events, text)
    BY <1>5, <1>8 DEF Sofar, Fails, Exact
  <2>4. Begins(given \o q.events, text)
    BY <1>1, <2>3, DeliveredBegins
  <2>5. given' \o ready' = given \o q.events
    BY <1>2, <2>1
  <2>6. stage' \in {"reading", "yielding"} /\ (stage' = "reading" <=> q.events = <<>>)
    BY <2>1
  <2>7. StreamTypes'
    BY <1>1, <1>2, <1>6, <2>1, <2>6 DEF StreamTypes
  <2>8. Keeping'
    BY <1>2, <2>1, <2>2, <2>3, <2>6 DEF Keeping
  <2>9. Giving'
    BY <2>2, <2>3, <2>4, <2>5, <2>6 DEF Giving
  <2>10. QED
    BY <2>7, <2>8, <2>9 DEF SseInv
<1>9. QED
  BY <1>6, <1>7, <1>8

LEMMA YieldKeeps ==
  ASSUME SseInv, Yield
  PROVE  SseInv'
<1>1. /\ stage = "yielding" /\ given' = Append(given, Head(ready)) /\ ready' = Tail(ready)
      /\ stage' = IF Len(ready) = 1 THEN "reading" ELSE "yielding"
      /\ text' = text /\ read' = read /\ parser' = parser
  BY DEF Yield
<1>2. ready \in Seq(Seq(Texts)) /\ given \in Seq(Seq(Texts)) /\ ready # <<>>
  BY <1>1 DEF SseInv, StreamTypes, Keeping
<1>3. /\ Head(ready) \in Seq(Texts) /\ ready' \in Seq(Seq(Texts))
      /\ given' \in Seq(Seq(Texts)) /\ (Len(ready) = 1 <=> ready' = <<>>)
  <2>1. Head(ready) \in Seq(Texts) /\ ready' \in Seq(Seq(Texts))
    BY <1>1, <1>2
  <2>2. given' \in Seq(Seq(Texts))
    BY <1>1, <1>2, <2>1, OneMore
  <2>3. Len(ready') = Len(ready) - 1 /\ Len(ready) \in Nat
    BY <1>1, <1>2
  <2>4. Len(ready') = 0 <=> ready' = <<>>
    BY <2>1
  <2>5. QED
    BY <2>1, <2>2, <2>3, <2>4
<1>4. given' \o ready' = given \o ready
  BY <1>1, <1>2
<1>5. Sound' = Sound
  BY <1>1 DEF Sound
<1>6. stage' \in {"reading", "yielding"} /\ (stage' = "reading" <=> ready' = <<>>)
  BY <1>1, <1>3
<1>7. StreamTypes'
  BY <1>1, <1>3, <1>6 DEF SseInv, StreamTypes
<1>8. Keeping'
  BY <1>1, <1>5, <1>6 DEF SseInv, Keeping
<1>9. Giving'
  BY <1>1, <1>4, <1>5, <1>6 DEF SseInv, Giving
<1>10. QED
  BY <1>7, <1>8, <1>9 DEF SseInv

LEMMA FinishKeeps ==
  ASSUME SseInv, Finish
  PROVE  SseInv'
<1>1. /\ stage' = "finished" /\ parser' = [parser EXCEPT !.line = <<>>, !.data = <<>>]
      /\ stage = "reading" /\ text' = text /\ read' = read /\ ready' = ready /\ given' = given
  BY DEF Finish
<1>2. parser' \in ParserState
  <2>1. parser \in ParserState /\ <<>> \in Texts /\ <<>> \in Seq(Texts)
    BY DEF SseInv, StreamTypes, Texts
  <2>2. QED
    BY <1>1, <2>1 DEF ParserState
<1>3. Sound' = Sound
  BY <1>1 DEF Sound
<1>4. StreamTypes'
  BY <1>1, <1>2 DEF SseInv, StreamTypes
<1>5. Keeping'
  BY <1>1 DEF Keeping
<1>6. Giving'
  BY <1>1, <1>3 DEF SseInv, Giving
<1>7. QED
  BY <1>4, <1>5, <1>6 DEF SseInv

LEMMA AbortKeeps ==
  ASSUME SseInv, Abort
  PROVE  SseInv'
<1> DEFINE all == given \o ready
<1>1. /\ stage' = "aborted" /\ ready' = <<>> /\ stage # "aborted"
      /\ text' = text /\ read' = read /\ parser' = parser /\ given' = given
  BY DEF Abort
<1>2. given \in Seq(Seq(Texts)) /\ ready \in Seq(Seq(Texts))
  BY DEF SseInv, StreamTypes
<1>3. Sound' = Sound /\ given' \o ready' = given /\ <<>> \in Seq(Seq(Texts))
  BY <1>1, <1>2 DEF Sound
<1>4. /\ Len(given) \in Nat /\ Len(given) <= Len(all)
      /\ \A k \in 1..Len(given) : all[k] = given[k]
  BY <1>2
<1>5. Delivered(all, Sound)
  BY <1>1 DEF SseInv, Giving
<1> HIDE DEF all
<1>6. Sound \in Texts
  BY PartIs DEF SseInv, StreamTypes, Sound
<1> DEFINE S == Owed(Sound)
<1>7. Cardinality(S) \in Nat /\ \A e \in S : Nth(S, e) \in 1..Cardinality(S)
  BY <1>6, OwedInside, RanksOf
<1>8. Begins(given, Sound)
  <2>1. Len(given) <= Cardinality(S)
    BY <1>4, <1>5, <1>7 DEF Delivered
  <2>2. ASSUME NEW e \in S, Nth(S, e) <= Len(given) PROVE IsData(given[Nth(S, e)], Sound, e)
    <3>1. Nth(S, e) \in 1..Len(given)
      BY <1>4, <1>7, <2>2
    <3>2. all[Nth(S, e)] = given[Nth(S, e)]
      BY <1>4, <3>1
    <3>3. IsData(all[Nth(S, e)], Sound, e)
      BY <1>5 DEF Delivered
    <3>4. QED
      BY <3>2, <3>3
  <2>3. QED
    BY <2>1, <2>2 DEF Begins, Nth
<1>9. StreamTypes'
  BY <1>1, <1>3 DEF SseInv, StreamTypes
<1>10. Keeping'
  BY <1>1 DEF Keeping
<1>11. Giving'
  BY <1>1, <1>3, <1>8 DEF SseInv, Giving
<1>12. QED
  BY <1>9, <1>10, <1>11 DEF SseInv

LEMMA StutterKeeps ==
  ASSUME SseInv, UNCHANGED vars
  PROVE  SseInv'
<1>1. /\ text' = text /\ read' = read /\ parser' = parser
      /\ ready' = ready /\ given' = given /\ stage' = stage
  BY DEF vars
<1>2. Sound' = Sound
  BY <1>1 DEF Sound
<1>3. QED
  BY <1>1, <1>2 DEF SseInv, StreamTypes, Keeping, Giving

LEMMA AlwaysExact == SseInv => ParserExact
<1> SUFFICES ASSUME SseInv PROVE ParserExact
  OBVIOUS
<1>1. Sound \in Texts
  BY PartIs DEF SseInv, StreamTypes, Sound
<1>2. stage # "aborted" => Len(given \o ready) = Cardinality(Owed(Sound))
  BY DEF SseInv, Giving, Delivered
<1>3. QED
  BY <1>2 DEF SseInv, Giving, ParserExact, Sound

LEMMA SseInductive == Spec => []SseInv
<1>1. ASSUME SseInv, [Next]_vars PROVE SseInv'
  <2>1. ASSUME NEW t \in Token, Send(t) PROVE SseInv'
    BY <1>1, <2>1, SendKeeps
  <2>2. CASE Read
    BY <1>1, <2>2, ReadKeeps
  <2>3. CASE Yield
    BY <1>1, <2>3, YieldKeeps
  <2>4. CASE Finish
    BY <1>1, <2>4, FinishKeeps
  <2>5. CASE Abort
    BY <1>1, <2>5, AbortKeeps
  <2>6. CASE UNCHANGED vars
    BY <1>1, <2>6, StutterKeeps
  <2>7. QED
    BY <1>1, <2>1, <2>2, <2>3, <2>4, <2>5, <2>6 DEF Next
<1>2. QED
  BY <1>1, InitKeeps, PTL DEF Spec

(* However the network cuts the text of a stream of any length, with frames  *)
(* of any size, the caller gets the events of the frames that were read, each *)
(* once and in order, and SseFrameParser fails where a frame is too long or  *)
(* wrong and nowhere else.                                                   *)
THEOREM ParserAlwaysExact == Spec => []ParserExact
BY SseInductive, AlwaysExact, PTL
===============================================================================
