------------------------- MODULE HybridRetrievalProofs -------------------------
(* Theorems about HybridRetrieval for any corpus, filters and limits, and     *)
(* whatever the stores and the reranker answer.                               *)
EXTENDS HybridRetrieval, FiniteSetTheorems, TLAPS

-----------------------------------------------------------------------------
(* Ranks in a finite set T under a strict total order L.                      *)
Below(t, T, L) == {d \in T : <<d, t>> \in L}
RankOf(t, T, L) == Cardinality(Below(t, T, L))

StrictOrder(T, L) ==
  /\ \A a \in T : <<a, a>> \notin L
  /\ \A a, b, c \in T : <<a, b>> \in L /\ <<b, c>> \in L => <<a, c>> \in L
  /\ \A a, b \in T : a = b \/ <<a, b>> \in L \/ <<b, a>> \in L

LEMMA RankInRange ==
  ASSUME NEW T, IsFiniteSet(T), NEW L, StrictOrder(T, L), NEW t \in T
  PROVE  RankOf(t, T, L) \in 0..(Cardinality(T) - 1)
<1>1. Below(t, T, L) \in SUBSET T /\ t \notin Below(t, T, L)
  BY DEF Below, StrictOrder
<1>2. /\ IsFiniteSet(Below(t, T, L)) /\ Cardinality(Below(t, T, L)) <= Cardinality(T)
      /\ Cardinality(T) # Cardinality(Below(t, T, L))
  BY <1>1, FS_Subset
<1>3. Cardinality(Below(t, T, L)) \in Nat /\ Cardinality(T) \in Nat
  BY <1>2, FS_CardinalityType
<1>4. QED
  BY <1>2, <1>3 DEF RankOf

LEMMA RankGrows ==
  ASSUME NEW T, IsFiniteSet(T), NEW L, StrictOrder(T, L),
         NEW a \in T, NEW b \in T, <<a, b>> \in L
  PROVE  RankOf(a, T, L) < RankOf(b, T, L)
<1>1. /\ Below(a, T, L) \in SUBSET Below(b, T, L) /\ Below(b, T, L) \in SUBSET T
      /\ a \in Below(b, T, L) /\ a \notin Below(a, T, L)
  BY DEF Below, StrictOrder
<1>2. IsFiniteSet(Below(b, T, L))
  BY <1>1, FS_Subset
<1>3. /\ IsFiniteSet(Below(a, T, L))
      /\ Cardinality(Below(a, T, L)) <= Cardinality(Below(b, T, L))
      /\ Cardinality(Below(a, T, L)) # Cardinality(Below(b, T, L))
  BY <1>1, <1>2, FS_Subset
<1>4. Cardinality(Below(a, T, L)) \in Nat /\ Cardinality(Below(b, T, L)) \in Nat
  BY <1>2, <1>3, FS_CardinalityType
<1>5. QED
  BY <1>3, <1>4 DEF RankOf

LEMMA RanksDiffer ==
  ASSUME NEW T, IsFiniteSet(T), NEW L, StrictOrder(T, L),
         NEW a \in T, NEW b \in T
  PROVE  /\ RankOf(a, T, L) < RankOf(b, T, L) => <<a, b>> \in L
         /\ RankOf(a, T, L) = RankOf(b, T, L) => a = b
<1>1. RankOf(a, T, L) \in Int /\ RankOf(b, T, L) \in Int
  <2>1. Cardinality(T) \in Nat
    BY FS_CardinalityType
  <2>2. QED
    BY <2>1, RankInRange
<1>2. a = b \/ <<a, b>> \in L \/ <<b, a>> \in L
  BY DEF StrictOrder
<1>3. <<a, b>> \in L => RankOf(a, T, L) < RankOf(b, T, L)
  BY RankGrows
<1>4. <<b, a>> \in L => RankOf(b, T, L) < RankOf(a, T, L)
  BY RankGrows
<1>5. QED
  BY <1>1, <1>2, <1>3, <1>4

(* Each rank is taken by exactly one element.                                 *)
LEMMA EveryRank ==
  ASSUME NEW T, IsFiniteSet(T), NEW L, StrictOrder(T, L), NEW n \in 1..Cardinality(T)
  PROVE  \E t \in T : RankOf(t, T, L) = n - 1
<1> DEFINE f == [t \in T |-> RankOf(t, T, L)]
           N == 0..(Cardinality(T) - 1)
<1>1. Cardinality(T) \in Nat
  BY FS_CardinalityType
<1>2. IsFiniteSet(N) /\ Cardinality(N) = Cardinality(T)
  <2>1. 0 \in Int /\ Cardinality(T) - 1 \in Int
    BY <1>1
  <2>2. QED
    BY <1>1, <2>1, FS_Interval
<1>3. f \in Injection(T, N)
  <2>1. \A t \in T : RankOf(t, T, L) \in N
    BY RankInRange
  <2>2. \A a, b \in T : RankOf(a, T, L) = RankOf(b, T, L) => a = b
    BY RanksDiffer
  <2>3. QED
    BY <2>1, <2>2 DEF Injection, IsInjective
<1>4. f \in Surjection(T, N)
  BY <1>2, <1>3, FS_Injection
<1>5. n - 1 \in N
  BY <1>1
<1>6. QED
  BY <1>4, <1>5 DEF Surjection

-----------------------------------------------------------------------------
(* Kept: a sequence without the elements that do not belong.  Its places      *)
(* count the places that are kept.                                            *)
Places(s, S) == {i \in DOMAIN s : s[i] \in S}
LessThan(T) == {p \in T \X T : p[1] < p[2]}

LEMMA LessThanIsOrder ==
  ASSUME NEW n \in Nat, NEW T \in SUBSET (1..n)
  PROVE  /\ IsFiniteSet(T) /\ Cardinality(T) \in Nat /\ Cardinality(T) <= n
         /\ StrictOrder(T, LessThan(T))
         /\ \A t \in T : Below(t, T, LessThan(T)) = {j \in T : j < t}
<1>1. IsFiniteSet(1..n) /\ Cardinality(1..n) = n
  BY FS_Interval
<1>2. IsFiniteSet(T) /\ Cardinality(T) <= n
  BY <1>1, FS_Subset
<1>3. Cardinality(T) \in Nat
  BY <1>2, FS_CardinalityType
<1>4. \A t \in T : t \in Int
  OBVIOUS
<1>5. \A a, b \in T : <<a, b>> \in LessThan(T) <=> a < b
  BY DEF LessThan
<1>6. StrictOrder(T, LessThan(T))
  BY <1>4, <1>5 DEF StrictOrder
<1>7. \A t \in T : Below(t, T, LessThan(T)) = {j \in T : j < t}
  BY <1>5 DEF Below
<1>8. QED
  BY <1>2, <1>3, <1>6, <1>7

(* The k-th place that is kept.                                               *)
Place(k, s, S) ==
  CHOOSE i \in Places(s, S) : Cardinality({j \in Places(s, S) : j < i}) = k - 1

NumberKept(s, S) == Cardinality(Places(s, S))
PlacesBelow(i, s, S) == Cardinality({j \in Places(s, S) : j < i})

PlacesFit(s, S) ==
  /\ NumberKept(s, S) \in Nat /\ IsFiniteSet(Places(s, S))
  /\ Kept(s, S) = [k \in 1..NumberKept(s, S) |-> s[Place(k, s, S)]]
  /\ \A k \in 1..NumberKept(s, S) :
       Place(k, s, S) \in Places(s, S) /\ PlacesBelow(Place(k, s, S), s, S) = k - 1
  /\ \A i \in Places(s, S) :
       /\ PlacesBelow(i, s, S) + 1 \in 1..NumberKept(s, S)
       /\ Place(PlacesBelow(i, s, S) + 1, s, S) = i

LEMMA PlaceOfKept ==
  ASSUME NEW n \in Nat, NEW E, NEW s \in [1..n -> E], NEW S
  PROVE  PlacesFit(s, S)
<1> DEFINE T == Places(s, S)
           m == Cardinality(T)
           L == LessThan(T)
<1>1. T \in SUBSET (1..n)
  BY DEF Places
<1>2. /\ IsFiniteSet(T) /\ m \in Nat /\ m <= n /\ StrictOrder(T, L)
      /\ \A t \in T : Below(t, T, L) = {j \in T : j < t}
  BY <1>1, LessThanIsOrder
<1>3. Kept(s, S) = [k \in 1..m |-> s[Place(k, s, S)]]
  BY DEF Kept, Place, Places
<1> HIDE DEF T, L
<1>4. \A t \in T : RankOf(t, T, L) = Cardinality({j \in T : j < t})
  BY <1>2 DEF RankOf
<1>5. ASSUME NEW k \in 1..m
      PROVE  Place(k, s, S) \in T /\ Cardinality({j \in T : j < Place(k, s, S)}) = k - 1
  <2>1. \E t \in T : RankOf(t, T, L) = k - 1
    BY <1>2, EveryRank
  <2>2. \E t \in T : Cardinality({j \in T : j < t}) = k - 1
    BY <1>4, <2>1
  <2>3. QED
    BY <2>2 DEF Place, T
<1>6. ASSUME NEW i \in T
      PROVE  LET k == Cardinality({j \in T : j < i}) + 1
             IN  k \in 1..m /\ Place(k, s, S) = i
  <2> DEFINE k == Cardinality({j \in T : j < i}) + 1
  <2>1. RankOf(i, T, L) \in 0..(m - 1) /\ RankOf(i, T, L) = k - 1
    <3>1. RankOf(i, T, L) \in 0..(m - 1)
      BY <1>2, RankInRange
    <3>2. QED
      BY <1>2, <1>4, <3>1
  <2>2. k \in 1..m
    BY <1>2, <1>4, <2>1
  <2> HIDE DEF k
  <2>3. Place(k, s, S) \in T /\ RankOf(Place(k, s, S), T, L) = k - 1
    BY <1>4, <1>5, <2>2
  <2>4. Place(k, s, S) = i
    BY <1>2, <2>1, <2>3, RanksDiffer
  <2>5. QED
    BY <2>2, <2>4 DEF k
<1>7. QED
  BY <1>2, <1>3, <1>5, <1>6 DEF T, PlacesFit, NumberKept, PlacesBelow

-----------------------------------------------------------------------------
(* Sequences without repetition.                                              *)
Distinct(s) == \A i, j \in DOMAIN s : s[i] = s[j] => i = j

LEMMA OrderOf ==
  ASSUME NEW S, NEW s \in Orders(S), IsFiniteSet(S)
  PROVE  /\ Len(s) \in Nat /\ Len(s) <= Cardinality(S) /\ DOMAIN s = 1..Len(s)
         /\ s \in [1..Len(s) -> S] /\ Distinct(s) /\ Elements(s) \subseteq S
<1>1. Cardinality(S) \in Nat
  BY FS_CardinalityType
<1>2. PICK n \in 0..Cardinality(S) :
        s \in {t \in [1..n -> S] : \A i, j \in 1..n : t[i] = t[j] => i = j}
  BY DEF Orders
<1>3. Len(s) = n /\ DOMAIN s = 1..n
  BY <1>1, <1>2
<1>4. QED
  BY <1>1, <1>2, <1>3 DEF Distinct, Elements

LEMMA IsOrder ==
  ASSUME NEW S, IsFiniteSet(S), NEW n \in Nat, NEW s \in [1..n -> S], Distinct(s)
  PROVE  s \in Orders(S)
<1>1. s \in Injection(1..n, S)
  BY DEF Injection, IsInjective, Distinct
<1>2. Cardinality(1..n) = n /\ Cardinality(S) \in Nat
  BY FS_Interval, FS_CardinalityType
<1>3. n <= Cardinality(S)
  BY <1>1, <1>2, FS_Injection
<1>4. QED
  BY <1>2, <1>3 DEF Orders, Distinct

LEMMA OrderGrows ==
  ASSUME NEW S, NEW T, IsFiniteSet(S), S \subseteq T, IsFiniteSet(T), NEW s \in Orders(S)
  PROVE  s \in Orders(T)
<1>1. Len(s) \in Nat /\ s \in [1..Len(s) -> S] /\ Distinct(s)
  BY OrderOf
<1>2. s \in [1..Len(s) -> T]
  BY <1>1
<1>3. QED
  BY <1>1, <1>2, IsOrder

LEMMA PositionOf ==
  ASSUME NEW s, Distinct(s)
  PROVE  /\ \A i \in DOMAIN s : Position(s[i], s) = i
         /\ \A c : c \in Elements(s) => Position(c, s) \in DOMAIN s /\ s[Position(c, s)] = c
         /\ \A c : c \notin Elements(s) => Position(c, s) = 0
<1>1. ASSUME NEW c, c \in Elements(s)
      PROVE  Position(c, s) \in DOMAIN s /\ s[Position(c, s)] = c
  <2>1. \E i \in DOMAIN s : s[i] = c
    BY <1>1 DEF Elements
  <2>2. QED
    BY <1>1, <2>1 DEF Position
<1>2. ASSUME NEW i \in DOMAIN s PROVE Position(s[i], s) = i
  <2>1. s[i] \in Elements(s)
    BY DEF Elements
  <2>2. Position(s[i], s) \in DOMAIN s /\ s[Position(s[i], s)] = s[i]
    BY <1>1, <2>1
  <2>3. QED
    BY <2>2 DEF Distinct
<1>3. \A c : c \notin Elements(s) => Position(c, s) = 0
  BY DEF Position
<1>4. QED
  BY <1>1, <1>2, <1>3

LEMMA KeptIsOrder ==
  ASSUME NEW E, IsFiniteSet(E), NEW s \in Orders(E), NEW S
  PROVE  Kept(s, S) \in Orders(E) /\ Elements(Kept(s, S)) = Elements(s) \cap S
<1> DEFINE n == Len(s)
           m == NumberKept(s, S)
           P(k) == Place(k, s, S)
           t == Kept(s, S)
<1>1. n \in Nat /\ s \in [1..n -> E] /\ DOMAIN s = 1..n /\ Distinct(s)
  BY OrderOf
<1> HIDE DEF n
<1>2. /\ m \in Nat /\ t = [k \in 1..m |-> s[P(k)]]
      /\ \A k \in 1..m : /\ P(k) \in Places(s, S)
                         /\ PlacesBelow(P(k), s, S) = k - 1
      /\ \A i \in Places(s, S) : \E k \in 1..m : P(k) = i
  <2>1. PlacesFit(s, S)
    BY <1>1, PlaceOfKept
  <2>2. QED
    BY <2>1 DEF PlacesFit
<1> HIDE DEF m, P, t
<1>3. \A k \in 1..m : P(k) \in 1..n /\ s[P(k)] \in S
  BY <1>1, <1>2 DEF Places
<1>4. t \in [1..m -> E]
  BY <1>1, <1>2, <1>3
<1>5. ASSUME NEW k \in 1..m, NEW l \in 1..m, t[k] = t[l] PROVE k = l
  <2>1. P(k) = P(l)
    BY <1>1, <1>2, <1>3, <1>5 DEF Distinct
  <2>2. k - 1 = l - 1
    BY <1>2, <2>1
  <2>3. QED
    BY <1>2, <2>2
<1>6. Distinct(t)
  BY <1>4, <1>5 DEF Distinct
<1>7. t \in Orders(E)
  BY <1>2, <1>4, <1>6, IsOrder
<1>8. Elements(t) \subseteq Elements(s) \cap S
  BY <1>1, <1>2, <1>3 DEF Elements
<1>9. Elements(s) \cap S \subseteq Elements(t)
  <2> SUFFICES ASSUME NEW i \in DOMAIN s, s[i] \in S PROVE s[i] \in Elements(t)
    BY DEF Elements
  <2>1. i \in Places(s, S)
    BY DEF Places
  <2>2. PICK k \in 1..m : P(k) = i
    BY <1>2, <2>1
  <2>3. t[k] = s[i] /\ k \in DOMAIN t
    BY <1>2, <2>2
  <2>4. QED
    BY <2>3 DEF Elements
<1>10. QED
  BY <1>7, <1>8, <1>9 DEF t

(* Its rank among what is kept is the place an element gets.                  *)
LEMMA KeptPosition ==
  ASSUME NEW E, IsFiniteSet(E), NEW s \in Orders(E), NEW S, NEW c \in Elements(s) \cap S
  PROVE  Position(c, Kept(s, S)) =
           Cardinality({d \in Elements(s) \cap S : Position(d, s) <= Position(c, s)})
<1> DEFINE n == Len(s)
           i == Position(c, s)
           T == Places(s, S)
           A == {j \in T : j < i}
           B == {j \in T : j <= i}
           D == {d \in Elements(s) \cap S : Position(d, s) <= i}
           m == NumberKept(s, S)
           k == PlacesBelow(i, s, S) + 1
<1>1. n \in Nat /\ s \in [1..n -> E] /\ DOMAIN s = 1..n /\ Distinct(s)
  BY OrderOf
<1> HIDE DEF n
<1>2. i \in 1..n /\ s[i] = c /\ i \in T /\ T \subseteq 1..n
  BY <1>1, PositionOf DEF Places
<1>3. PlacesFit(s, S) /\ IsFiniteSet(T)
  <2>1. PlacesFit(s, S)
    BY <1>1, PlaceOfKept
  <2>2. QED
    BY <2>1 DEF PlacesFit
<1>4. k \in 1..m /\ Place(k, s, S) = i /\ k = Cardinality(A) + 1
  BY <1>2, <1>3 DEF PlacesFit, PlacesBelow
<1>5. Position(c, Kept(s, S)) = k
  <2>1. /\ Kept(s, S) = [l \in 1..m |-> s[Place(l, s, S)]]
        /\ Distinct(Kept(s, S))
    <3>1. Kept(s, S) \in Orders(E)
      BY KeptIsOrder
    <3>2. QED
      BY <1>3, <3>1, OrderOf DEF PlacesFit
  <2> HIDE DEF k, m
  <2>2. Kept(s, S)[k] = c /\ k \in DOMAIN Kept(s, S)
    BY <1>2, <1>4, <2>1
  <2>3. QED
    BY <2>1, <2>2, PositionOf
<1>6. Cardinality(B) = Cardinality(A) + 1
  <2>1. IsFiniteSet(A) /\ i \notin A
    BY <1>2, <1>3, FS_Subset
  <2>2. B = A \cup {i}
    BY <1>2
  <2> HIDE DEF A, B, i
  <2>3. QED
    BY <2>1, <2>2, FS_AddElement
<1>7. Cardinality(D) = Cardinality(B)
  <2> DEFINE f == [j \in B |-> s[j]]
  <2>1. IsFiniteSet(B)
    BY <1>3, FS_Subset
  <2>2. \A j \in T : s[j] \in Elements(s) \cap S /\ Position(s[j], s) = j
    BY <1>1, <1>2, PositionOf DEF Places, Elements
  <2>3. f \in [B -> D]
    BY <2>2
  <2>4. f \in Injection(B, D)
    <3>1. \A j, l \in B : s[j] = s[l] => j = l
      BY <2>2
    <3>2. QED
      BY <2>3, <3>1 DEF Injection, IsInjective
  <2>5. \A d \in D : \E j \in B : f[j] = d
    <3> SUFFICES ASSUME NEW d \in D PROVE \E j \in B : f[j] = d
      OBVIOUS
    <3>1. Position(d, s) \in DOMAIN s /\ s[Position(d, s)] = d
      BY <1>1, PositionOf
    <3>2. Position(d, s) \in B
      BY <3>1 DEF Places
    <3>3. QED
      BY <3>1, <3>2
  <2>6. f \in Surjection(B, D)
    BY <2>3, <2>5 DEF Surjection
  <2>7. ExistsBijection(B, D)
    BY <2>4, <2>6 DEF ExistsBijection, Bijection
  <2> HIDE DEF B, D
  <2>8. QED
    BY <2>1, <2>7, FS_Bijection
<1>8. QED
  BY <1>4, <1>5, <1>6, <1>7

-----------------------------------------------------------------------------
(* Sorted: the order of _fuse on records of different chunks.                 *)
Pos == Nat \ {0}

LEMMA Times ==
  ASSUME NEW x \in Nat, NEW y \in Nat, NEW c \in Pos
  PROVE  /\ x * c \in Nat /\ y * c \in Nat
         /\ x >= y <=> x * c >= y * c
         /\ x > y <=> x * c > y * c
<1>1. ASSUME NEW a \in Nat, NEW b \in Nat, a >= b
      PROVE  a * c >= b * c
  <2>1. PICK d \in Nat : a = b + d
    <3>1. a - b \in Nat /\ a = b + (a - b)
      BY <1>1
    <3>2. QED
      BY <3>1
  <2>2. a * c = b * c + d * c /\ d * c >= 0 /\ b * c \in Nat /\ d * c \in Nat
    BY <2>1 DEF Pos
  <2>3. QED
    BY <2>2
<1>2. ASSUME NEW a \in Nat, NEW b \in Nat, a > b
      PROVE  a * c > b * c
  <2>1. b + 1 \in Nat /\ a >= b + 1
    BY <1>2
  <2>2. a * c >= (b + 1) * c
    BY <1>1, <2>1
  <2>3. (b + 1) * c = b * c + c /\ b * c \in Nat /\ a * c \in Nat /\ c > 0
    BY DEF Pos
  <2>4. QED
    BY <2>2, <2>3 DEF Pos
<1>3. x * c \in Nat /\ y * c \in Nat
  BY DEF Pos
<1>4. x >= y \/ y > x
  OBVIOUS
<1>5. QED
  BY <1>1, <1>2, <1>3, <1>4

(* a1 / b1 >= a2 / b2 >= a3 / b3.                                             *)
LEMMA Fractions ==
  ASSUME NEW a1 \in Pos, NEW b1 \in Pos, NEW a2 \in Pos, NEW b2 \in Pos,
         NEW a3 \in Pos, NEW b3 \in Pos,
         a1 * b2 >= a2 * b1, a2 * b3 >= a3 * b2
  PROVE  /\ a1 * b3 >= a3 * b1
         /\ a1 * b2 > a2 * b1 \/ a2 * b3 > a3 * b2 => a1 * b3 > a3 * b1
<1> DEFINE p12 == a1 * b2
           p21 == a2 * b1
           p23 == a2 * b3
           p32 == a3 * b2
           p13 == a1 * b3
           p31 == a3 * b1
<1>1. /\ p12 \in Nat /\ p21 \in Nat /\ p23 \in Nat /\ p32 \in Nat /\ p13 \in Nat /\ p31 \in Nat
  BY DEF Pos
<1>2. p12 * b3 = p13 * b2 /\ p21 * b3 = p23 * b1 /\ p32 * b1 = p31 * b2
  BY DEF Pos
<1>3. p12 >= p21 /\ p23 >= p32
  OBVIOUS
<1> HIDE DEF p12, p21, p23, p32, p13, p31
<1>4. p12 * b3 >= p21 * b3 /\ (p12 > p21 => p12 * b3 > p21 * b3)
  BY <1>1, <1>3, Times
<1>5. p23 * b1 >= p32 * b1 /\ (p23 > p32 => p23 * b1 > p32 * b1)
  BY <1>1, <1>3, Times
<1>6. /\ p13 * b2 \in Nat /\ p31 * b2 \in Nat /\ p12 * b3 \in Nat /\ p21 * b3 \in Nat
      /\ p23 * b1 \in Nat /\ p32 * b1 \in Nat
  BY <1>1, Times
<1>7. /\ p13 * b2 >= p31 * b2
      /\ p12 > p21 \/ p23 > p32 => p13 * b2 > p31 * b2
  BY <1>2, <1>4, <1>5, <1>6
<1>8. p13 >= p31 /\ (p12 > p21 \/ p23 > p32 => p13 > p31)
  BY <1>1, <1>7, Times
<1>9. QED
  BY <1>8 DEF p12, p21, p23, p32, p13, p31

(* A record with the rank of at least one branch.                             *)
Ranked == {r \in [chunk: Nat, vector: Nat, keyword: Nat] : r.vector # 0 \/ r.keyword # 0}

LEMMA ScoreOfRanked ==
  ASSUME NEW r \in Ranked
  PROVE  /\ Numerator(r) \in Pos /\ Denominator(r) \in Pos /\ BestRank(r) \in Nat
         /\ r.chunk \in Nat
<1>1. r.vector \in Nat /\ r.keyword \in Nat /\ r.chunk \in Nat /\ (r.vector # 0 \/ r.keyword # 0)
  BY DEF Ranked
<1>2. (60 + r.vector) * (60 + r.keyword) \in Pos
  <2>1. 60 + r.vector \in Pos /\ 60 + r.keyword \in Pos
    BY <1>1 DEF Pos
  <2>2. \A x, y \in Pos : x * y \in Pos
    BY DEF Pos
  <2>3. QED
    BY <2>1, <2>2
<1>3. QED
  BY <1>1, <1>2 DEF Numerator, Denominator, BestRank, RRF_K, Pos

LEMMA BeforeMeans ==
  ASSUME NEW r \in Ranked, NEW s \in Ranked
  PROVE  LET a == Numerator(r) * Denominator(s)
             b == Numerator(s) * Denominator(r)
         IN  /\ a \in Nat /\ b \in Nat
             /\ Before(r, s) <=> \/ a > b
                                 \/ a = b /\ BestRank(r) < BestRank(s)
                                 \/ a = b /\ BestRank(r) = BestRank(s) /\ r.chunk < s.chunk
<1>1. /\ Numerator(r) \in Nat /\ Denominator(s) \in Nat
      /\ Numerator(s) \in Nat /\ Denominator(r) \in Nat
  BY ScoreOfRanked DEF Pos
<1>2. QED
  BY <1>1 DEF Before

LEMMA BeforeIsOrder ==
  ASSUME NEW r \in Ranked, NEW s \in Ranked, NEW t \in Ranked
  PROVE  /\ ~Before(r, r)
         /\ Before(r, s) /\ Before(s, t) => Before(r, t)
         /\ r.chunk # s.chunk => Before(r, s) \/ Before(s, r)
<1> DEFINE rs == Numerator(r) * Denominator(s)
           sr == Numerator(s) * Denominator(r)
           st == Numerator(s) * Denominator(t)
           ts == Numerator(t) * Denominator(s)
           rt == Numerator(r) * Denominator(t)
           tr == Numerator(t) * Denominator(r)
<1>1. /\ BestRank(r) \in Nat /\ BestRank(s) \in Nat /\ BestRank(t) \in Nat
      /\ r.chunk \in Nat /\ s.chunk \in Nat /\ t.chunk \in Nat
  BY ScoreOfRanked
<1>2. /\ rs \in Nat /\ sr \in Nat /\ st \in Nat /\ ts \in Nat /\ rt \in Nat /\ tr \in Nat
      /\ Before(r, s) <=> \/ rs > sr
                          \/ rs = sr /\ BestRank(r) < BestRank(s)
                          \/ rs = sr /\ BestRank(r) = BestRank(s) /\ r.chunk < s.chunk
      /\ Before(s, r) <=> \/ sr > rs
                          \/ sr = rs /\ BestRank(s) < BestRank(r)
                          \/ sr = rs /\ BestRank(s) = BestRank(r) /\ s.chunk < r.chunk
      /\ Before(s, t) <=> \/ st > ts
                          \/ st = ts /\ BestRank(s) < BestRank(t)
                          \/ st = ts /\ BestRank(s) = BestRank(t) /\ s.chunk < t.chunk
      /\ Before(r, t) <=> \/ rt > tr
                          \/ rt = tr /\ BestRank(r) < BestRank(t)
                          \/ rt = tr /\ BestRank(r) = BestRank(t) /\ r.chunk < t.chunk
  BY BeforeMeans
<1>3. ~Before(r, r)
  BY <1>1, BeforeMeans
<1>4. /\ Numerator(r) \in Pos /\ Denominator(r) \in Pos
      /\ Numerator(s) \in Pos /\ Denominator(s) \in Pos
      /\ Numerator(t) \in Pos /\ Denominator(t) \in Pos
  BY ScoreOfRanked
<1>5. rs >= sr /\ st >= ts => rt >= tr /\ (rs > sr \/ st > ts => rt > tr)
  BY <1>4, Fractions
<1>6. sr >= rs /\ ts >= st => tr >= rt
  BY <1>4, Fractions
<1> HIDE DEF rs, sr, st, ts, rt, tr
<1>7. Before(r, s) /\ Before(s, t) => Before(r, t)
  BY <1>1, <1>2, <1>5, <1>6
<1>8. r.chunk # s.chunk => Before(r, s) \/ Before(s, r)
  BY <1>1, <1>2
<1>9. QED
  BY <1>3, <1>7, <1>8

(* Sorted puts each record where its rank is.                                 *)
ByRank(R) == {p \in R \X R : Before(p[1], p[2])}

LEMMA SortedInOrder ==
  ASSUME NEW R \in SUBSET Ranked, IsFiniteSet(R),
         \A r, s \in R : r.chunk = s.chunk => r = s
  PROVE  /\ Cardinality(R) \in Nat /\ Sorted(R) \in [1..Cardinality(R) -> R]
         /\ \A i, j \in 1..Cardinality(R) : i < j => Before(Sorted(R)[i], Sorted(R)[j])
         /\ \A r \in R : \E i \in 1..Cardinality(R) : Sorted(R)[i] = r
<1> DEFINE L == ByRank(R)
           m == Cardinality(R)
           S == Sorted(R)
<1>1. m \in Nat
  BY FS_CardinalityType
<1>2. \A r, s \in R : <<r, s>> \in L <=> Before(r, s)
  BY DEF ByRank
<1>3. StrictOrder(R, L)
  <2>1. \A r \in R : ~Before(r, r)
    BY BeforeIsOrder
  <2>2. \A r, s, t \in R : Before(r, s) /\ Before(s, t) => Before(r, t)
    BY BeforeIsOrder
  <2>3. \A r, s \in R : r.chunk # s.chunk => Before(r, s) \/ Before(s, r)
    BY BeforeIsOrder
  <2> HIDE DEF L
  <2>4. QED
    BY <1>2, <2>1, <2>2, <2>3 DEF StrictOrder
<1>4. \A r \in R : RankOf(r, R, L) = Cardinality({s \in R : Before(s, r)})
  <2> SUFFICES ASSUME NEW r \in R
               PROVE  RankOf(r, R, L) = Cardinality({s \in R : Before(s, r)})
    OBVIOUS
  <2>1. Below(r, R, L) = {s \in R : Before(s, r)}
    BY <1>2 DEF Below
  <2>2. QED
    BY <2>1 DEF RankOf
<1> HIDE DEF L
<1>5. S = [i \in 1..m |-> CHOOSE r \in R : Cardinality({s \in R : Before(s, r)}) = i - 1]
  BY DEF Sorted
<1>6. ASSUME NEW i \in 1..m PROVE S[i] \in R /\ RankOf(S[i], R, L) = i - 1
  <2>1. \E r \in R : RankOf(r, R, L) = i - 1
    BY <1>3, EveryRank
  <2>2. \E r \in R : Cardinality({s \in R : Before(s, r)}) = i - 1
    BY <1>4, <2>1
  <2>3. S[i] \in R /\ Cardinality({s \in R : Before(s, S[i])}) = i - 1
    BY <1>5, <2>2
  <2>4. QED
    BY <1>4, <2>3
<1> HIDE DEF S
<1>7. S \in [1..m -> R]
  BY <1>5, <1>6
<1>8. ASSUME NEW i \in 1..m, NEW j \in 1..m, i < j PROVE Before(S[i], S[j])
  <2>1. /\ S[i] \in R /\ S[j] \in R
        /\ RankOf(S[i], R, L) = i - 1 /\ RankOf(S[j], R, L) = j - 1
    BY <1>6
  <2>2. RankOf(S[i], R, L) < RankOf(S[j], R, L)
    BY <1>1, <1>8, <2>1
  <2>3. <<S[i], S[j]>> \in L
    BY <1>3, <2>1, <2>2, RanksDiffer
  <2>4. QED
    BY <1>2, <2>1, <2>3
<1>9. \A r \in R : \E i \in 1..m : S[i] = r
  <2> SUFFICES ASSUME NEW r \in R PROVE \E i \in 1..m : S[i] = r
    OBVIOUS
  <2> DEFINE i == RankOf(r, R, L) + 1
  <2>1. i \in 1..m /\ i - 1 = RankOf(r, R, L)
    <3>1. RankOf(r, R, L) \in 0..(m - 1)
      BY <1>3, RankInRange
    <3>2. QED
      BY <1>1, <3>1
  <2> HIDE DEF i
  <2>2. S[i] = r
    BY <1>3, <1>6, <2>1, RanksDiffer
  <2>3. QED
    BY <2>1, <2>2
<1>10. QED
  BY <1>1, <1>7, <1>8, <1>9 DEF S

Shorter(m, n) == IF m < n THEN m ELSE n

PrefixFits(s, m, n) ==
  /\ Shorter(m, n) \in Nat /\ Shorter(m, n) <= n /\ Shorter(m, n) <= m
  /\ FirstOf(s, m) = [i \in 1..Shorter(m, n) |-> s[i]]
  /\ Len(FirstOf(s, m)) = Shorter(m, n)

LEMMA FirstOfPrefix ==
  ASSUME NEW n \in Nat, NEW S, NEW s \in [1..n -> S], NEW m \in Nat
  PROVE  PrefixFits(s, m, n)
<1> DEFINE k == Shorter(m, n)
<1>1. s \in Seq(S) /\ Len(s) = n
  OBVIOUS
<1>2. k \in Nat /\ k <= n /\ k <= m
  BY DEF Shorter
<1>3. FirstOf(s, m) = SubSeq(s, 1, k)
  BY <1>1 DEF FirstOf, Shorter
<1> HIDE DEF k
<1>4. SubSeq(s, 1, k) = [i \in 1..k |-> s[i]] /\ Len(SubSeq(s, 1, k)) = k
  BY <1>1, <1>2
<1>5. QED
  BY <1>2, <1>3, <1>4 DEF k, PrefixFits

-----------------------------------------------------------------------------
(* Fused: one record for each chunk that was asked for and found.             *)
Asked == {c \in Chunk : Wanted(c)}
Found(v, k) == (Elements(v) \cap Asked) \cup Elements(k)
RecordOf(c, v, k) ==
  [chunk |-> c, vector |-> Position(c, Kept(v, Asked)), keyword |-> Position(c, k)]

LEMMA FusedRecords ==
  ASSUME NEW v \in Orders(Chunk), NEW k \in Orders(Chunk)
  PROVE  /\ Fused(v, k) = {RecordOf(c, v, k) : c \in Found(v, k)}
         /\ IsFiniteSet(Fused(v, k)) /\ Found(v, k) \subseteq Chunk
         /\ Fused(v, k) \in SUBSET Ranked /\ Fused(v, k) \subseteq Record
         /\ \A r, s \in Fused(v, k) : r.chunk = s.chunk => r = s
         /\ Fused(v, k) = {} => Found(v, k) = {}
<1> DEFINE w == Kept(v, Asked)
           N == Cardinality(Chunk)
           F == Found(v, k)
<1>1. IsFiniteSet(Chunk) /\ Chunk \subseteq Nat /\ N \in Nat
  BY RetrievalAssumption, FS_CardinalityType
<1>2. w \in Orders(Chunk) /\ Elements(w) = Elements(v) \cap Asked
  BY <1>1, KeptIsOrder
<1>3. /\ Distinct(w) /\ DOMAIN w = 1..Len(w) /\ Len(w) \in Nat /\ Len(w) <= N
      /\ Elements(w) \subseteq Chunk
  BY <1>1, <1>2, OrderOf
<1>4. /\ Distinct(k) /\ DOMAIN k = 1..Len(k) /\ Len(k) \in Nat /\ Len(k) <= N
      /\ Elements(k) \subseteq Chunk
  BY <1>1, OrderOf
<1>5. Fused(v, k) = {RecordOf(c, v, k) : c \in F}
  BY <1>2 DEF Fused, RecordOf, Asked, Found
<1>6. F \subseteq Chunk /\ IsFiniteSet(F)
  BY <1>1, <1>2, <1>3, <1>4, FS_Subset DEF Found
<1>7. ASSUME NEW c \in F
      PROVE  /\ Position(c, w) \in 0..N /\ Position(c, k) \in 0..N
             /\ Position(c, w) # 0 \/ Position(c, k) # 0
  <2>1. c \in Elements(w) => Position(c, w) \in 1..N
    BY <1>1, <1>3, PositionOf
  <2>2. c \notin Elements(w) => Position(c, w) = 0
    BY <1>3, PositionOf
  <2>3. c \in Elements(k) => Position(c, k) \in 1..N
    BY <1>1, <1>4, PositionOf
  <2>4. c \notin Elements(k) => Position(c, k) = 0
    BY <1>4, PositionOf
  <2>5. c \in Elements(w) \/ c \in Elements(k)
    BY <1>2 DEF Found
  <2>6. QED
    BY <1>1, <2>1, <2>2, <2>3, <2>4, <2>5
<1>8. \A c \in F : RecordOf(c, v, k) \in Ranked /\ RecordOf(c, v, k) \in Record
  <2> SUFFICES ASSUME NEW c \in F
               PROVE  RecordOf(c, v, k) \in Ranked /\ RecordOf(c, v, k) \in Record
    OBVIOUS
  <2> DEFINE p == Position(c, w)
             q == Position(c, k)
  <2>1. /\ p \in 0..N /\ q \in 0..N /\ (p # 0 \/ q # 0) /\ c \in Chunk
        /\ RecordOf(c, v, k) = [chunk |-> c, vector |-> p, keyword |-> q]
    BY <1>6, <1>7 DEF RecordOf
  <2> HIDE DEF p, q, N
  <2>2. p \in Nat /\ q \in Nat /\ c \in Nat
    BY <1>1, <2>1
  <2>3. [chunk |-> c, vector |-> p, keyword |-> q] \in Ranked
    BY <2>1, <2>2 DEF Ranked
  <2>4. [chunk |-> c, vector |-> p, keyword |-> q] \in Record
    BY <2>1 DEF Record, N
  <2>5. QED
    BY <2>1, <2>3, <2>4
<1>9. \A c \in F : RecordOf(c, v, k).chunk = c
  BY DEF RecordOf
<1>10. IsFiniteSet(Fused(v, k))
  <2> DEFINE f == [c \in F |-> RecordOf(c, v, k)]
  <2>1. f \in Surjection(F, Fused(v, k))
    BY <1>5 DEF Surjection
  <2>2. QED
    BY <1>6, <2>1, FS_Surjection
<1>11. \A r, s \in Fused(v, k) : r.chunk = s.chunk => r = s
  BY <1>5, <1>9
<1>12. QED
  BY <1>5, <1>6, <1>8, <1>10, <1>11 DEF F

-----------------------------------------------------------------------------
(* The inductive invariant.  What the branches found is in scope before it is *)
(* fused; the branches are at rest once anything was sent to rerank; and the  *)
(* candidates are the first records of the fusion of exactly those hits.      *)
HitsOK ==
  /\ \A c \in Elements(vector.hits) : Of[c].owner = "me" /\ Of[c].kb \in Kbs(asked.kbs)
  /\ Elements(keyword.hits) \subseteq Corpus

StageOK ==
  /\ stage = "start" => vector = Off /\ keyword = Off
  /\ provider <=> stage \in {"recall", "rerank"}
  /\ stage = "rerank" =>
       /\ Ended(vector) /\ Ended(keyword) /\ vector.at # "failed" /\ keyword.at # "failed"
       /\ candidates # << >>
  /\ stage \in {"answered", "failed", "cancelled"} =>
       /\ vector.at = "off" \/ Ended(vector)
       /\ keyword.at = "off" \/ Ended(keyword)

CandidatesOK ==
  /\ stage \in {"start", "recall"} => candidates = << >>
  /\ Elements(candidates) \subseteq Fused(vector.hits, keyword.hits)
  /\ \A i, j \in DOMAIN candidates : i < j => Before(candidates[i], candidates[j])
  /\ \A r \in Fused(vector.hits, keyword.hits) \ Elements(candidates) :
       \A s \in Elements(candidates) : Before(s, r)

AnswerOK ==
  /\ \A i, j \in DOMAIN results : results[i].chunk = results[j].chunk => i = j
  /\ Len(results) = Len(FirstOf(candidates, asked.topK))
  /\ candidates = << >> =>
       ~\E c \in Elements(vector.hits) \cup Elements(keyword.hits) : Wanted(c)
  /\ vector.at # "failed" /\ keyword.at # "failed"

ResultsOK ==
  /\ stage # "answered" => results = << >>
  /\ stage = "answered" => AnswerOK
  /\ Elements(results) \subseteq Elements(candidates)

RetrievalInv ==
  /\ RetrievalTypeOK
  /\ HitsOK /\ StageOK /\ CandidatesOK /\ ResultsOK

LEMMA EmptySequence ==
  /\ Elements(<< >>) = {} /\ Len(<< >>) = 0
  /\ \A S : << >> \in [1..0 -> S]
  /\ << >> \in Orders(Chunk)
<1>1. Elements(<< >>) = {} /\ Len(<< >>) = 0
  BY DEF Elements
<1>2. \A S : << >> \in [1..0 -> S]
  OBVIOUS
<1>3. IsFiniteSet(Chunk)
  BY RetrievalAssumption
<1>4. << >> \in Orders(Chunk)
  <2>1. << >> \in [1..0 -> Chunk] /\ Distinct(<< >>)
    BY <1>2 DEF Distinct
  <2> QED
    BY <1>3, <2>1, IsOrder
<1>5. QED
  BY <1>1, <1>2, <1>4

(* Places in an order count its elements.                                     *)
LEMMA PositionCounts ==
  ASSUME NEW E, IsFiniteSet(E), NEW s \in Orders(E), NEW c \in Elements(s)
  PROVE  Position(c, s) = Cardinality({d \in Elements(s) : Position(d, s) <= Position(c, s)})
<1> DEFINE n == Len(s)
           p == Position(c, s)
           D == {d \in Elements(s) : Position(d, s) <= p}
           f == [j \in 1..p |-> s[j]]
<1>1. n \in Nat /\ s \in [1..n -> E] /\ DOMAIN s = 1..n /\ Distinct(s)
  BY OrderOf
<1> HIDE DEF n
<1>2. p \in 1..n /\ s[p] = c
  BY <1>1, PositionOf
<1> HIDE DEF p
<1>3. \A j \in 1..p : j \in DOMAIN s /\ s[j] \in Elements(s) /\ Position(s[j], s) = j
  BY <1>1, <1>2, PositionOf DEF Elements
<1>4. f \in [1..p -> D]
  BY <1>3
<1>5. f \in Injection(1..p, D)
  <2>1. \A j, l \in 1..p : s[j] = s[l] => j = l
    BY <1>3
  <2>2. QED
    BY <1>4, <2>1 DEF Injection, IsInjective
<1>6. \A d \in D : \E j \in 1..p : f[j] = d
  <2> SUFFICES ASSUME NEW d \in D PROVE \E j \in 1..p : f[j] = d
    OBVIOUS
  <2>1. Position(d, s) \in DOMAIN s /\ s[Position(d, s)] = d /\ Position(d, s) <= p
    BY <1>1, PositionOf
  <2>2. Position(d, s) \in 1..p
    BY <1>1, <1>2, <2>1
  <2>3. QED
    BY <2>1, <2>2
<1>7. f \in Surjection(1..p, D)
  BY <1>4, <1>6 DEF Surjection
<1>8. ExistsBijection(1..p, D)
  BY <1>5, <1>7 DEF ExistsBijection, Bijection
<1>9. IsFiniteSet(1..p) /\ Cardinality(1..p) = p
  BY <1>1, <1>2, FS_Interval
<1> HIDE DEF D, f
<1>10. Cardinality(D) = p
  BY <1>8, <1>9, FS_Bijection
<1>11. QED
  BY <1>10 DEF D, p

(* Every record of the fusion tells the true ranks.                           *)
LEMMA FusedRanks ==
  ASSUME NEW v \in Orders(Chunk), NEW k \in Orders(Chunk), Elements(k) \subseteq Asked,
         NEW r \in Fused(v, k)
  PROVE  r.vector = TrueRank(r.chunk, v) /\ r.keyword = TrueRank(r.chunk, k)
<1>1. IsFiniteSet(Chunk)
  BY RetrievalAssumption
<1>2. PICK c \in Found(v, k) : r = RecordOf(c, v, k)
  BY FusedRecords
<1>3. /\ r.chunk = c /\ c \in Chunk /\ Wanted(c)
      /\ r.vector = Position(c, Kept(v, Asked)) /\ r.keyword = Position(c, k)
  <2>1. c \in Asked
    BY DEF Found
  <2>2. QED
    BY <1>2, <2>1 DEF RecordOf, Asked
<1>4. \A s \in Orders(Chunk) :
        c \notin Elements(s) => TrueRank(c, s) = 0 /\ Position(c, s) = 0
  <2> SUFFICES ASSUME NEW s \in Orders(Chunk), c \notin Elements(s)
               PROVE  TrueRank(c, s) = 0 /\ Position(c, s) = 0
    OBVIOUS
  <2>1. Distinct(s) /\ DOMAIN s = 1..Len(s) /\ Len(s) \in Nat
    BY <1>1, OrderOf
  <2>2. Position(c, s) = 0
    BY <2>1, PositionOf
  <2>3. \A d \in Elements(s) : Position(d, s) \in 1..Len(s)
    BY <2>1, PositionOf
  <2>4. {d \in Elements(s) : Wanted(d) /\ Position(d, s) <= Position(c, s)} = {}
    BY <2>1, <2>2, <2>3
  <2>5. QED
    BY <2>2, <2>4, FS_EmptySet DEF TrueRank
<1>5. Elements(v) \subseteq Chunk
  BY <1>1, OrderOf
<1>6. r.vector = TrueRank(c, v)
  <2>1. CASE c \in Elements(v)
    <3>1. c \in Elements(v) \cap Asked
      BY <1>3, <2>1 DEF Asked
    <3>2. Position(c, Kept(v, Asked)) =
            Cardinality({d \in Elements(v) \cap Asked : Position(d, v) <= Position(c, v)})
      BY <1>1, <3>1, KeptPosition
    <3>3. {d \in Elements(v) \cap Asked : Position(d, v) <= Position(c, v)} =
            {d \in Elements(v) : Wanted(d) /\ Position(d, v) <= Position(c, v)}
      BY <1>5 DEF Asked
    <3>4. QED
      BY <1>3, <3>2, <3>3 DEF TrueRank
  <2>2. CASE c \notin Elements(v)
    <3>1. /\ Kept(v, Asked) \in Orders(Chunk)
          /\ Elements(Kept(v, Asked)) = Elements(v) \cap Asked
      BY <1>1, KeptIsOrder
    <3>2. c \notin Elements(Kept(v, Asked))
      BY <2>2, <3>1
    <3>3. QED
      BY <1>3, <1>4, <2>2, <3>1, <3>2
  <2>3. QED
    BY <2>1, <2>2
<1>7. r.keyword = TrueRank(c, k)
  <2>1. CASE c \in Elements(k)
    <3>1. Position(c, k) =
            Cardinality({d \in Elements(k) : Position(d, k) <= Position(c, k)})
      BY <1>1, <2>1, PositionCounts
    <3>2. {d \in Elements(k) : Position(d, k) <= Position(c, k)} =
            {d \in Elements(k) : Wanted(d) /\ Position(d, k) <= Position(c, k)}
      BY DEF Asked
    <3>3. QED
      BY <1>3, <3>1, <3>2 DEF TrueRank
  <2>2. CASE c \notin Elements(k)
    BY <1>3, <1>4, <2>2
  <2>3. QED
    BY <2>1, <2>2
<1>8. QED
  BY <1>3, <1>6, <1>7

-----------------------------------------------------------------------------
(* The candidates as a sequence.                                              *)
LEMMA CandidateShape ==
  ASSUME RetrievalInv
  PROVE  /\ Len(candidates) \in 0..RerankLimit /\ DOMAIN candidates = 1..Len(candidates)
         /\ candidates \in [1..Len(candidates) -> Record]
         /\ candidates # << >> => Len(candidates) # 0
         /\ \A i, j \in DOMAIN candidates : candidates[i].chunk = candidates[j].chunk => i = j
<1>1. RerankLimit \in Nat \ {0}
  BY RetrievalAssumption
<1>2. PICK n \in 0..RerankLimit : candidates \in [1..n -> Record]
  BY DEF RetrievalInv, RetrievalTypeOK
<1>3. Len(candidates) = n /\ DOMAIN candidates = 1..n
  BY <1>1, <1>2
<1>4. n = 0 => candidates = << >>
  BY <1>2
<1>5. \A i, j \in DOMAIN candidates : candidates[i].chunk = candidates[j].chunk => i = j
  <2> SUFFICES ASSUME NEW i \in 1..n, NEW j \in 1..n, i < j,
                      candidates[i].chunk = candidates[j].chunk
               PROVE  FALSE
    BY <1>1, <1>3
  <2> DEFINE F == Fused(vector.hits, keyword.hits)
  <2>1. /\ F \in SUBSET Ranked
        /\ \A r, s \in F : r.chunk = s.chunk => r = s
    <3>1. vector.hits \in Orders(Chunk) /\ keyword.hits \in Orders(Chunk)
      BY DEF RetrievalInv, RetrievalTypeOK, Branch
    <3>2. QED
      BY <3>1, FusedRecords
  <2>2. candidates[i] \in F /\ candidates[j] \in F /\ Before(candidates[i], candidates[j])
    BY <1>3 DEF RetrievalInv, CandidatesOK, Elements
  <2> HIDE DEF F
  <2>3. candidates[i] = candidates[j]
    BY <2>1, <2>2
  <2>4. ~Before(candidates[i], candidates[i])
    BY <2>1, <2>2, BeforeIsOrder
  <2>5. QED
    BY <2>2, <2>3, <2>4
<1>6. QED
  BY <1>2, <1>3, <1>4, <1>5

LEMMA InitIsGood == Init => RetrievalInv
<1> SUFFICES ASSUME Init PROVE RetrievalInv
  OBVIOUS
<1>1. /\ Elements(<< >>) = {} /\ << >> \in Orders(Chunk) /\ << >> \in [1..0 -> Record]
      /\ DOMAIN << >> = {}
  BY EmptySequence
<1>2. RerankLimit \in Nat \ {0} /\ Retries \in Nat
  BY RetrievalAssumption
<1>3. << >> \in UNION {[1..n -> Record] : n \in 0..RerankLimit}
  BY <1>1, <1>2
<1>4. Off \in Branch
  BY <1>1 DEF Off, Branch
<1>5. RetrievalTypeOK
  <2>1. /\ candidates \in UNION {[1..n -> Record] : n \in 0..RerankLimit}
        /\ results \in UNION {[1..n -> Record] : n \in 0..RerankLimit}
    BY <1>3 DEF Init
  <2>2. attempt \in 0..Retries
    BY <1>2 DEF Init
  <2>3. vector \in Branch /\ keyword \in Branch
    BY <1>4 DEF Init
  <2>4. asked \in [kbs: KbFilters, docs: DocFilters, topK: TopK]
    BY DEF Init
  <2>5. /\ stage \in {"start", "recall", "rerank", "answered", "failed", "cancelled"}
        /\ provider \in BOOLEAN
    BY DEF Init
  <2>6. QED
    BY <2>1, <2>2, <2>3, <2>4, <2>5 DEF RetrievalTypeOK
<1>6. HitsOK
  BY <1>1 DEF Init, HitsOK, Off
<1>7. StageOK
  BY DEF Init, StageOK
<1>8. CandidatesOK /\ ResultsOK
  BY <1>1 DEF Init, CandidatesOK, ResultsOK
<1>9. QED
  BY <1>5, <1>6, <1>7, <1>8 DEF RetrievalInv

(* A branch that moves on while nothing was fused.                            *)
LEMMA BranchKeepsInv ==
  ASSUME RetrievalInv, BranchStep, vector' \in Branch, keyword' \in Branch, HitsOK'
  PROVE  RetrievalInv'
<1>1. Elements(<< >>) = {} /\ DOMAIN << >> = {}
  BY EmptySequence
<1>2. /\ stage = "recall" /\ stage' = "recall" /\ asked' = asked /\ provider' = provider
      /\ attempt' = attempt /\ results' = results /\ candidates' = candidates
  BY DEF BranchStep
<1>3. candidates = << >> /\ results = << >>
  BY <1>2 DEF RetrievalInv, CandidatesOK, ResultsOK
<1>4. RetrievalTypeOK'
  BY <1>2 DEF RetrievalInv, RetrievalTypeOK
<1>5. StageOK'
  BY <1>2 DEF RetrievalInv, StageOK
<1>6. CandidatesOK' /\ ResultsOK'
  BY <1>1, <1>2, <1>3 DEF CandidatesOK, ResultsOK
<1>7. QED
  BY <1>4, <1>5, <1>6 DEF RetrievalInv

LEMMA KeywordHitsStay ==
  ASSUME UNCHANGED asked
  PROVE  /\ Corpus' = Corpus /\ (\A c : Wanted(c)' = Wanted(c))
         /\ \A v, k : Fused(v, k)' = Fused(v, k)
<1>1. \A c : Wanted(c)' = Wanted(c)
  BY DEF Wanted
<1>2. Corpus' = Corpus
  BY <1>1 DEF Corpus
<1>3. {c \in Chunk : Wanted(c)}' = {c \in Chunk : Wanted(c)}
  BY <1>1
<1>4. \A v, k : Fused(v, k)' = Fused(v, k)
  BY <1>3 DEF Fused
<1>5. QED
  BY <1>1, <1>2, <1>4

LEMMA BranchesKeepInv ==
  ASSUME RetrievalInv, Embed \/ SearchVector \/ SearchFails \/ SearchKeyword \/ ReadFails
  PROVE  RetrievalInv'
<1>1. Elements(<< >>) = {} /\ << >> \in Orders(Chunk)
  BY EmptySequence
<1>2. /\ vector \in Branch /\ keyword \in Branch /\ BranchStep /\ UNCHANGED asked
  BY DEF RetrievalInv, RetrievalTypeOK, Embed, SearchVector, SearchFails, SearchKeyword,
         ReadFails, BranchStep
<1>3. /\ \A c \in Elements(vector.hits) : Of[c].owner = "me" /\ Of[c].kb \in Kbs(asked.kbs)
      /\ Elements(keyword.hits) \subseteq Corpus
  BY DEF RetrievalInv, HitsOK
<1>4. Corpus' = Corpus
  BY <1>2, KeywordHitsStay
<1>5. \A place \in {"reading", "failed"} :
        At(place) \in Branch /\ At(place).hits = << >>
  BY <1>1 DEF At, Branch
<1>6. IsFiniteSet(Chunk)
  BY RetrievalAssumption
<1>7. vector' \in Branch /\ keyword' \in Branch /\ HitsOK'
  <2>1. CASE Embed \/ SearchFails
    <3>1. keyword' = keyword /\ vector' \in Branch /\ vector'.hits = << >>
      BY <1>5, <2>1 DEF Embed, SearchFails
    <3>2. QED
      BY <1>1, <1>2, <1>3, <1>4, <3>1 DEF HitsOK
  <2>2. CASE ReadFails
    <3>1. vector' = vector /\ keyword' \in Branch /\ keyword'.hits = << >>
      BY <1>5, <2>2 DEF ReadFails
    <3>2. QED
      BY <1>1, <1>2, <1>3, <1>4, <3>1 DEF HitsOK
  <2>3. CASE SearchKeyword
    <3>1. PICK hits \in Orders(Corpus) : keyword' = Done(hits)
      BY <2>3 DEF SearchKeyword
    <3>2. IsFiniteSet(Corpus) /\ Corpus \subseteq Chunk
      BY <1>6, FS_Subset DEF Corpus
    <3>3. hits \in Orders(Chunk) /\ Elements(hits) \subseteq Corpus
      BY <1>6, <3>2, OrderOf, OrderGrows
    <3>4. vector' = vector /\ keyword' \in Branch /\ keyword'.hits = hits
      BY <2>3, <3>1, <3>3 DEF SearchKeyword, Done, Branch
    <3>5. QED
      BY <1>2, <1>3, <1>4, <3>3, <3>4 DEF HitsOK
  <2>4. CASE SearchVector
    <3> DEFINE Near == {c \in Chunk : Of[c].kb \in Kbs(asked.kbs)}
    <3>1. PICK hits \in Orders(Chunk) :
            vector' = IF \E c \in Elements(hits) : Of[c].owner # "me" THEN At("failed")
                      ELSE Done(Kept(hits, Near))
      BY <2>4 DEF SearchVector
    <3>2. keyword' = keyword
      BY <2>4 DEF SearchVector
    <3>3. CASE \E c \in Elements(hits) : Of[c].owner # "me"
      <4>1. vector' \in Branch /\ vector'.hits = << >>
        BY <1>5, <3>1, <3>3
      <4>2. QED
        BY <1>1, <1>2, <1>3, <1>4, <3>2, <4>1 DEF HitsOK
    <3>4. CASE \A c \in Elements(hits) : Of[c].owner = "me"
      <4>1. /\ Kept(hits, Near) \in Orders(Chunk)
            /\ Elements(Kept(hits, Near)) = Elements(hits) \cap Near
        BY <1>6, KeptIsOrder
      <4>2. vector' \in Branch /\ vector'.hits = Kept(hits, Near)
        BY <3>1, <3>4, <4>1 DEF Done, Branch
      <4>3. \A c \in Elements(vector'.hits) :
              Of[c].owner = "me" /\ Of[c].kb \in Kbs(asked.kbs)
        BY <3>4, <4>1, <4>2
      <4>4. QED
        BY <1>2, <1>3, <1>4, <3>2, <4>2, <4>3 DEF HitsOK
    <3>5. QED
      BY <3>3, <3>4
  <2>5. QED
    BY <2>1, <2>2, <2>3, <2>4
<1>8. QED
  BY <1>2, <1>7, BranchKeepsInv

LEMMA StartKeepsInv == ASSUME RetrievalInv, Start PROVE RetrievalInv'
<1>1. /\ Elements(<< >>) = {} /\ << >> \in Orders(Chunk) /\ DOMAIN << >> = {}
      /\ Len(<< >>) = 0
  BY EmptySequence
<1>2. /\ stage = "start" /\ UNCHANGED asked /\ UNCHANGED candidates /\ UNCHANGED attempt
      /\ UNCHANGED results /\ candidates = << >> /\ results = << >>
      /\ vector = Off /\ keyword = Off /\ vector.hits = << >> /\ keyword.hits = << >>
      /\ vector \in Branch /\ keyword \in Branch
  BY DEF Start, RetrievalInv, RetrievalTypeOK, StageOK, CandidatesOK, ResultsOK, Off
<1>3. /\ vector' \in Branch /\ keyword' \in Branch
      /\ vector'.hits = << >> /\ keyword'.hits = << >>
      /\ \/ /\ stage' = "recall" /\ provider' = TRUE
         \/ /\ stage' \in {"answered", "failed"} /\ provider' = FALSE
            /\ vector'.at = "off" /\ keyword'.at = "off"
  <2>1. /\ At("embedding") \in Branch /\ At("embedding").hits = << >>
        /\ At("reading") \in Branch /\ At("reading").hits = << >>
    BY <1>1 DEF At, Branch
  <2>2. CASE UNCHANGED vector /\ UNCHANGED keyword
    BY <1>2, <2>2 DEF Start, Ends, Off, At
  <2>3. CASE vector' = At("embedding") /\ keyword' = At("reading")
    BY <1>2, <2>1, <2>3 DEF Start, Ends, Off, At
  <2>4. QED
    BY <2>2, <2>3 DEF Start
<1>4. RetrievalTypeOK'
  BY <1>2, <1>3 DEF RetrievalInv, RetrievalTypeOK
<1>5. HitsOK'
  BY <1>1, <1>3 DEF HitsOK
<1>6. StageOK'
  BY <1>3 DEF StageOK
<1>7. CandidatesOK'
  BY <1>1, <1>2 DEF CandidatesOK
<1>8. ResultsOK'
  <2>1. Len(results') = Len(FirstOf(candidates', asked'.topK))
    <3>1. asked.topK \in Nat /\ << >> \in [1..0 -> Chunk]
      BY EmptySequence DEF RetrievalInv, RetrievalTypeOK, TopK
    <3>2. Len(FirstOf(<< >>, asked.topK)) = Shorter(asked.topK, 0)
      BY <3>1, FirstOfPrefix DEF PrefixFits
    <3>3. Shorter(asked.topK, 0) = 0
      BY <3>1 DEF Shorter
    <3>4. QED
      BY <1>1, <1>2, <3>2, <3>3
  <2>2. stage' = "answered" => AnswerOK'
    BY <1>1, <1>2, <1>3, <2>1 DEF AnswerOK
  <2>3. QED
    BY <1>1, <1>2, <2>2 DEF ResultsOK
<1>9. QED
  BY <1>4, <1>5, <1>6, <1>7, <1>8 DEF RetrievalInv

LEMMA FuseKeepsInv == ASSUME RetrievalInv, Fuse PROVE RetrievalInv'
<1> DEFINE v == vector.hits
           k == keyword.hits
           F == Fused(v, k)
           m == Cardinality(F)
           records == Sorted(F)
<1>1. /\ Elements(<< >>) = {} /\ DOMAIN << >> = {} /\ Len(<< >>) = 0
  BY EmptySequence
<1>2. /\ stage = "recall" /\ Ended(vector) /\ Ended(keyword) /\ UNCHANGED asked
      /\ UNCHANGED vector /\ UNCHANGED keyword /\ UNCHANGED attempt /\ UNCHANGED results
      /\ candidates = << >> /\ results = << >>
  BY DEF Fuse, Gathered, RetrievalInv, CandidatesOK, ResultsOK
<1>3. /\ v \in Orders(Chunk) /\ k \in Orders(Chunk)
  BY DEF RetrievalInv, RetrievalTypeOK, Branch
<1>4. /\ IsFiniteSet(F) /\ F \in SUBSET Ranked /\ F \subseteq Record
      /\ \A r, s \in F : r.chunk = s.chunk => r = s
      /\ F = {} => Found(v, k) = {}
  BY <1>3, FusedRecords
<1>5. (\A c : Wanted(c)' = Wanted(c)) /\ Corpus' = Corpus
  BY <1>2, KeywordHitsStay
<1>6. Fused(vector.hits, keyword.hits)' = F
  <2>1. Fused(v, k)' = Fused(v', k')
    BY <1>2 DEF Fused, Wanted
  <2>2. QED
    BY <1>2, <2>1
<1>7. HitsOK'
  BY <1>2, <1>5 DEF RetrievalInv, HitsOK
<1> HIDE DEF v, k, F
<1>8. /\ m \in Nat /\ records \in [1..m -> F]
      /\ \A i, j \in 1..m : i < j => Before(records[i], records[j])
      /\ \A r \in F : \E i \in 1..m : records[i] = r
  BY <1>4, SortedInOrder
<1> HIDE DEF m, records
<1>9. CASE "failed" \in {vector.at, keyword.at}
  <2>1. stage' = "failed" /\ provider' = FALSE /\ candidates' = candidates
    BY <1>9 DEF Fuse, Ends
  <2>2. RetrievalTypeOK'
    BY <1>2, <2>1 DEF RetrievalInv, RetrievalTypeOK
  <2>3. StageOK'
    BY <1>2, <2>1 DEF StageOK, Ended
  <2>4. CandidatesOK' /\ ResultsOK'
    BY <1>1, <1>2, <2>1 DEF CandidatesOK, ResultsOK
  <2>5. QED
    BY <1>7, <2>2, <2>3, <2>4 DEF RetrievalInv
<1>10. CASE vector.at # "failed" /\ keyword.at # "failed" /\ records = << >>
  <2>1. stage' = "answered" /\ provider' = FALSE /\ candidates' = candidates
    BY <1>10 DEF Fuse, Ends, F, v, k, records
  <2>2. RetrievalTypeOK'
    BY <1>2, <2>1 DEF RetrievalInv, RetrievalTypeOK
  <2>3. StageOK'
    BY <1>2, <2>1 DEF StageOK, Ended
  <2>4. CandidatesOK'
    BY <1>1, <1>2, <2>1 DEF CandidatesOK
  <2>5. Found(v, k) = {}
    <3>1. m = 0
      BY <1>1, <1>8, <1>10
    <3>2. QED
      BY <1>4, <3>1, FS_EmptySet DEF m
  <2>6. ~\E c \in Elements(v) \cup Elements(k) : Wanted(c)
    <3>1. IsFiniteSet(Chunk)
      BY RetrievalAssumption
    <3>2. Elements(v) \subseteq Chunk
      BY <1>3, <3>1, OrderOf
    <3>3. QED
      BY <2>5, <3>2 DEF Found, Asked
  <2>7. Len(results') = Len(FirstOf(candidates', asked'.topK))
    <3>1. asked.topK \in Nat /\ << >> \in [1..0 -> Chunk]
      BY EmptySequence DEF RetrievalInv, RetrievalTypeOK, TopK
    <3>2. Len(FirstOf(<< >>, asked.topK)) = Shorter(asked.topK, 0)
      BY <3>1, FirstOfPrefix DEF PrefixFits
    <3>3. Shorter(asked.topK, 0) = 0
      BY <3>1 DEF Shorter
    <3>4. QED
      BY <1>1, <1>2, <2>1, <3>2, <3>3
  <2>8. AnswerOK'
    BY <1>1, <1>2, <1>5, <1>10, <2>1, <2>6, <2>7 DEF AnswerOK, v, k
  <2>9. ResultsOK'
    BY <1>1, <1>2, <2>1, <2>8 DEF ResultsOK
  <2>10. QED
    BY <1>7, <2>2, <2>3, <2>4, <2>9 DEF RetrievalInv
<1>11. CASE vector.at # "failed" /\ keyword.at # "failed" /\ records # << >>
  <2> DEFINE n == Shorter(RerankLimit, m)
  <2>1. /\ stage' = "rerank" /\ provider' = provider
        /\ candidates' = FirstOf(records, RerankLimit)
    BY <1>11 DEF Fuse, F, v, k, records
  <2>2. RerankLimit \in Nat \ {0}
    BY RetrievalAssumption
  <2>3. /\ n \in Nat /\ n <= m /\ n <= RerankLimit
        /\ candidates' = [i \in 1..n |-> records[i]]
    <3>1. PrefixFits(records, RerankLimit, m)
      BY <1>8, <2>2, FirstOfPrefix
    <3>2. QED
      BY <2>1, <3>1 DEF PrefixFits
  <2>4. n # 0
    <3>1. m # 0
      BY <1>8, <1>11
    <3>2. QED
      BY <1>8, <2>2, <3>1 DEF Shorter
  <2> HIDE DEF n
  <2>5. \A i \in 1..n : i \in 1..m /\ candidates'[i] \in F /\ candidates'[i] = records[i]
    BY <1>8, <2>3
  <2>6. DOMAIN candidates' = 1..n /\ candidates' # << >>
    BY <2>3, <2>4
  <2>7. RetrievalTypeOK'
    <3>1. candidates' \in [1..n -> Record]
      BY <1>4, <2>3, <2>5
    <3>2. n \in 0..RerankLimit
      BY <2>2, <2>3
    <3>3. candidates' \in UNION {[1..j -> Record] : j \in 0..RerankLimit}
      BY <3>1, <3>2
    <3>4. QED
      BY <1>2, <2>1, <3>3 DEF RetrievalInv, RetrievalTypeOK
  <2>8. StageOK'
    BY <1>2, <1>11, <2>1, <2>6 DEF RetrievalInv, StageOK, Ended
  <2>9. CandidatesOK'
    <3>1. Elements(candidates') \subseteq F
      BY <2>5, <2>6 DEF Elements
    <3>2. \A i, j \in 1..n : i < j => Before(candidates'[i], candidates'[j])
      BY <1>8, <2>5
    <3>3. ASSUME NEW r \in F \ Elements(candidates'), NEW s \in Elements(candidates')
          PROVE  Before(s, r)
      <4>1. PICK i \in 1..n : s = candidates'[i]
        BY <2>6 DEF Elements
      <4>2. PICK j \in 1..m : records[j] = r
        BY <1>8
      <4>3. j \notin 1..n
        BY <2>5, <2>6, <4>2 DEF Elements
      <4>4. i < j
        BY <1>8, <2>3, <4>3
      <4>5. QED
        BY <1>8, <2>5, <4>1, <4>2, <4>4
    <3>4. QED
      BY <1>6, <2>1, <2>6, <3>1, <3>2, <3>3 DEF CandidatesOK
  <2>10. ResultsOK'
    BY <1>1, <1>2, <2>1 DEF ResultsOK
  <2>11. QED
    BY <1>7, <2>7, <2>8, <2>9, <2>10 DEF RetrievalInv
<1>12. QED
  BY <1>9, <1>10, <1>11

(* A permutation of different candidates c, cut after the first m.            *)
CutFits(t, c, m, N) ==
  /\ FirstOf(t, m) \in [1..Shorter(m, N) -> Record] /\ Shorter(m, N) \in 0..N
  /\ Len(FirstOf(t, m)) = Len(FirstOf(c, m))
  /\ Elements(FirstOf(t, m)) \subseteq Elements(c)
  /\ \A i, j \in 1..Shorter(m, N) :
       FirstOf(t, m)[i].chunk = FirstOf(t, m)[j].chunk => i = j

LEMMA CutPermutation ==
  ASSUME NEW N \in Nat, NEW c \in [1..N -> Record],
         \A i, j \in 1..N : c[i].chunk = c[j].chunk => i = j,
         NEW order \in [1..N -> 1..N], \A i \in 1..N : \E j \in 1..N : order[j] = i,
         NEW t \in [1..N -> Record], \A i \in 1..N : t[i] = c[order[i]], NEW m \in Nat
  PROVE  CutFits(t, c, m, N)
<1> DEFINE k == Shorter(m, N)
           answer == FirstOf(t, m)
<1>1. order \in Injection(1..N, 1..N)
  <2>1. order \in Surjection(1..N, 1..N)
    BY DEF Surjection
  <2>2. IsFiniteSet(1..N)
    BY FS_Interval
  <2>3. QED
    BY <2>1, <2>2, FS_SurjSameCardinalityImpliesInj
<1>2. \A i, j \in 1..N : order[i] = order[j] => i = j
  BY <1>1 DEF Injection, IsInjective
<1>3. PrefixFits(t, m, N) /\ PrefixFits(c, m, N)
  BY FirstOfPrefix
<1>4. /\ k \in Nat /\ k <= N /\ answer = [i \in 1..k |-> t[i]] /\ Len(answer) = k
      /\ Len(FirstOf(c, m)) = k
  BY <1>3 DEF PrefixFits
<1> HIDE DEF k, answer
<1>5. \A i \in 1..k : /\ i \in 1..N /\ order[i] \in 1..N
                      /\ answer[i] = t[i] /\ answer[i] = c[order[i]]
  BY <1>4
<1>6. DOMAIN answer = 1..k /\ answer \in [1..k -> Record]
  BY <1>4, <1>5
<1>7. Elements(answer) \subseteq Elements(c)
  BY <1>5, <1>6 DEF Elements
<1>8. ASSUME NEW i \in 1..k, NEW j \in 1..k, answer[i].chunk = answer[j].chunk
      PROVE  i = j
  <2> DEFINE a == order[i]
             b == order[j]
  <2>1. a \in 1..N /\ b \in 1..N /\ i \in 1..N /\ j \in 1..N
    BY <1>5
  <2>2. c[a].chunk = c[b].chunk
    BY <1>5, <1>8
  <2> HIDE DEF a, b
  <2>3. a = b
    BY <2>1, <2>2
  <2>4. QED
    BY <1>2, <2>1, <2>3 DEF a, b
<1>9. QED
  BY <1>4, <1>6, <1>7, <1>8 DEF k, answer, CutFits

LEMMA RerankKeepsInv == ASSUME RetrievalInv, Rerank PROVE RetrievalInv'
<1>1. Elements(<< >>) = {}
  BY EmptySequence
<1>2. /\ stage = "rerank" /\ UNCHANGED asked /\ UNCHANGED vector /\ UNCHANGED keyword
      /\ UNCHANGED candidates /\ UNCHANGED attempt /\ results = << >> /\ provider' = FALSE
      /\ Ended(vector) /\ Ended(keyword) /\ vector.at # "failed" /\ keyword.at # "failed"
      /\ candidates # << >>
  BY DEF Rerank, Ends, RetrievalInv, StageOK, ResultsOK
<1>3. Corpus' = Corpus /\ \A v, k : Fused(v, k)' = Fused(v, k)
  BY <1>2, KeywordHitsStay
<1>4. HitsOK'
  BY <1>2, <1>3 DEF RetrievalInv, HitsOK
<1>5. Fused(vector.hits, keyword.hits)' = Fused(vector.hits, keyword.hits)
  BY <1>2 DEF Fused, Wanted
<1>6. CandidatesOK'
  BY <1>2, <1>5 DEF Rerank, Ends, RetrievalInv, CandidatesOK
<1>7. StageOK'
  BY <1>2 DEF Rerank, Ends, StageOK, Ended
<1>8. CASE stage' = "failed" /\ results' = results
  <2>1. RetrievalTypeOK'
    BY <1>2, <1>8 DEF RetrievalInv, RetrievalTypeOK
  <2>2. ResultsOK'
    BY <1>1, <1>2, <1>8 DEF ResultsOK
  <2>3. QED
    BY <1>4, <1>6, <1>7, <2>1, <2>2 DEF RetrievalInv
<1>9. CASE stage' = "answered"
  <2> DEFINE N == Len(candidates)
             ranked(order) == [i \in DOMAIN order |-> candidates[order[i]]]
  <2>1. PICK n \in 0..N : \E order \in [1..n -> 1..N + 1] :
          Complete(order) /\ results' = FirstOf(ranked(order), asked.topK)
    BY <1>9 DEF Rerank, Ends
  <2>2. PICK order \in [1..n -> 1..N + 1] :
          Complete(order) /\ results' = FirstOf(ranked(order), asked.topK)
    BY <2>1
  <2>3. /\ N \in 0..RerankLimit /\ DOMAIN candidates = 1..N /\ candidates \in [1..N -> Record]
        /\ \A i, j \in 1..N : candidates[i].chunk = candidates[j].chunk => i = j
    BY CandidateShape
  <2>4. RerankLimit \in Nat /\ asked.topK \in Nat
    BY RetrievalAssumption DEF RetrievalInv, RetrievalTypeOK, TopK
  <2>5. Len(order) = N /\ Elements(order) = 1..N
    BY <2>2, <2>3 DEF Complete
  <2> DEFINE t == ranked(order)
             k == Shorter(asked.topK, N)
  <2>6. results' = FirstOf(t, asked.topK) /\ t = [i \in DOMAIN order |-> candidates[order[i]]]
    BY <2>2
  <2> HIDE DEF N, t
  <2>7. N \in Nat /\ n \in Nat
    BY <2>3, <2>4
  <2>8. n = N
    BY <2>5, <2>7
  <2>9. DOMAIN order = 1..N
    BY <2>8
  <2>10. \A i \in 1..N : order[i] \in 1..N
    BY <2>5, <2>9 DEF Elements
  <2>11. order \in [1..N -> 1..N]
    BY <2>8, <2>10
  <2>12. \A i \in 1..N : \E j \in 1..N : order[j] = i
    BY <2>5, <2>9 DEF Elements
  <2>13. t \in [1..N -> Record] /\ \A i \in 1..N : t[i] = candidates[order[i]]
    BY <2>3, <2>6, <2>9, <2>10
  <2>14. /\ results' \in [1..k -> Record] /\ k \in 0..N
         /\ Len(results') = Len(FirstOf(candidates, asked.topK))
         /\ Elements(results') \subseteq Elements(candidates)
         /\ \A i, j \in DOMAIN results' : results'[i].chunk = results'[j].chunk => i = j
    <3>1. CutFits(t, candidates, asked.topK, N)
      BY <2>3, <2>4, <2>7, <2>11, <2>12, <2>13, CutPermutation
    <3>2. results' = FirstOf(t, asked.topK)
      BY <2>6
    <3> HIDE DEF ranked
    <3>3. QED
      BY <3>1, <3>2 DEF CutFits
  <2> HIDE DEF k
  <2>15. results' \in UNION {[1..j -> Record] : j \in 0..RerankLimit}
    <3>1. k \in 0..RerankLimit
      BY <2>3, <2>4, <2>7, <2>14
    <3>2. QED
      BY <2>14, <3>1
  <2>16. RetrievalTypeOK'
    BY <1>2, <1>9, <2>15 DEF RetrievalInv, RetrievalTypeOK
  <2>17. AnswerOK'
    BY <1>2, <2>14 DEF AnswerOK
  <2>18. ResultsOK'
    BY <1>2, <1>9, <2>14, <2>17 DEF ResultsOK
  <2>19. QED
    BY <1>4, <1>6, <1>7, <2>16, <2>18 DEF RetrievalInv
<1>10. QED
  BY <1>8, <1>9 DEF Rerank, Ends

LEMMA RestKeepsInv ==
  ASSUME RetrievalInv, Retry \/ RerankFails \/ Cancel \/ UNCHANGED vars
  PROVE  RetrievalInv'
<1>1. Elements(<< >>) = {} /\ << >> \in Orders(Chunk)
  BY EmptySequence
<1>2. /\ UNCHANGED asked /\ UNCHANGED candidates /\ UNCHANGED results
      /\ attempt' \in 0..Retries
  BY RetrievalAssumption DEF RetrievalInv, RetrievalTypeOK, Retry, RerankFails, Cancel, vars
<1>3. /\ Corpus' = Corpus /\ \A v, k : Fused(v, k)' = Fused(v, k)
      /\ \A c : Wanted(c)' = Wanted(c)
  BY <1>2, KeywordHitsStay
<1>4. /\ \/ vector' = vector
         \/ ~Ended(vector) /\ vector' = At("cancelled") /\ stage = "recall"
      /\ \/ keyword' = keyword
         \/ ~Ended(keyword) /\ keyword' = At("cancelled") /\ stage = "recall"
  <2>1. CASE Cancel
    <3>1. stage # "recall" => Ended(vector) /\ Ended(keyword)
      BY <2>1 DEF Cancel, RetrievalInv, StageOK
    <3>2. QED
      BY <2>1, <3>1 DEF Cancel, Cancelled
  <2>2. QED
    BY <2>1 DEF Retry, RerankFails, vars
<1>5. At("cancelled") \in Branch /\ At("cancelled").hits = << >> /\ Ended(At("cancelled"))
  BY <1>1 DEF At, Branch, Ended
<1>6. \/ stage' = stage /\ provider' = provider /\ UNCHANGED vector /\ UNCHANGED keyword
      \/ /\ stage \in {"recall", "rerank"} /\ stage' \in {"failed", "cancelled"}
         /\ provider' = FALSE
         /\ Ended(vector)' /\ Ended(keyword)'
  <2>1. CASE Retry \/ UNCHANGED vars
    BY <2>1 DEF Retry, vars
  <2>2. CASE RerankFails
    BY <2>2 DEF RerankFails, Ends, RetrievalInv, StageOK, Ended
  <2>3. CASE Cancel
    BY <1>5, <2>3 DEF Cancel, Cancelled, Ends, Ended
  <2>4. QED
    BY <2>1, <2>2, <2>3
<1>7. RetrievalTypeOK'
  BY <1>2, <1>4, <1>5, <1>6 DEF RetrievalInv, RetrievalTypeOK
<1>8. HitsOK'
  BY <1>1, <1>2, <1>3, <1>4, <1>5 DEF RetrievalInv, HitsOK
<1>9. StageOK'
  BY <1>2, <1>6 DEF RetrievalInv, StageOK, Ended
<1>10. CASE stage = "recall"
  <2>1. candidates = << >> /\ results = << >> /\ DOMAIN << >> = {}
    BY <1>10, EmptySequence DEF RetrievalInv, CandidatesOK, ResultsOK
  <2>2. stage' # "answered"
    BY <1>6, <1>10
  <2>3. CandidatesOK' /\ ResultsOK'
    BY <1>1, <1>2, <2>1, <2>2 DEF CandidatesOK, ResultsOK
  <2>4. QED
    BY <1>7, <1>8, <1>9, <2>3 DEF RetrievalInv
<1>11. CASE stage # "recall"
  <2>1. UNCHANGED vector /\ UNCHANGED keyword
    BY <1>4, <1>11
  <2>2. Fused(vector.hits, keyword.hits)' = Fused(vector.hits, keyword.hits)
    BY <1>2, <2>1 DEF Fused, Wanted
  <2>3. CandidatesOK'
    BY <1>2, <1>6, <2>2 DEF RetrievalInv, CandidatesOK
  <2>4. AnswerOK => AnswerOK'
    BY <1>2, <1>3, <2>1 DEF AnswerOK
  <2>5. ResultsOK'
    BY <1>2, <1>6, <2>4 DEF RetrievalInv, ResultsOK
  <2>6. QED
    BY <1>7, <1>8, <1>9, <2>3, <2>5 DEF RetrievalInv
<1>12. QED
  BY <1>10, <1>11

LEMMA NextKeepsInv == RetrievalInv /\ [Next]_vars => RetrievalInv'
<1> SUFFICES ASSUME RetrievalInv, [Next]_vars PROVE RetrievalInv'
  OBVIOUS
<1>1. CASE Start
  BY <1>1, StartKeepsInv
<1>2. CASE Embed \/ SearchVector \/ SearchFails \/ SearchKeyword \/ ReadFails
  BY <1>2, BranchesKeepInv
<1>3. CASE Fuse
  BY <1>3, FuseKeepsInv
<1>4. CASE Rerank
  BY <1>4, RerankKeepsInv
<1>5. CASE Retry \/ RerankFails \/ Cancel \/ UNCHANGED vars
  BY <1>5, RestKeepsInv
<1>6. QED
  BY <1>1, <1>2, <1>3, <1>4, <1>5 DEF Next

LEMMA InvHolds == Spec => []RetrievalInv
  BY InitIsGood, NextKeepsInv, PTL DEF Spec

-----------------------------------------------------------------------------
(* The theorems.                                                              *)

(* Every variable of a call of retrieve stays in its domain.                  *)
THEOREM RetrievalTypeCorrect == Spec => []RetrievalTypeOK
  BY InvHolds, PTL DEF RetrievalInv

(* Whatever the stores return and whatever filters the model passes to        *)
(* retrieve, only chunks of the caller, of knowledge bases and documents both *)
(* allowed and asked for, are reranked or returned.                           *)
THEOREM ScopeIsAlwaysKept == Spec => []ScopeIsKept
<1>1. RetrievalInv => ScopeIsKept
  <2> SUFFICES ASSUME RetrievalInv, NEW r \in Elements(candidates) \cup Elements(results)
               PROVE  /\ Of[r.chunk].owner = "me"
                      /\ Of[r.chunk].kb \in Allowed
                      /\ asked.kbs.given => Of[r.chunk].kb \in asked.kbs.ids
                      /\ Wanted(r.chunk)
    BY DEF ScopeIsKept
  <2>1. vector.hits \in Orders(Chunk) /\ keyword.hits \in Orders(Chunk)
    BY DEF RetrievalInv, RetrievalTypeOK, Branch
  <2>2. r \in Fused(vector.hits, keyword.hits)
    BY DEF RetrievalInv, CandidatesOK, ResultsOK
  <2>3. PICK c \in Found(vector.hits, keyword.hits) :
          r = RecordOf(c, vector.hits, keyword.hits)
    BY <2>1, <2>2, FusedRecords
  <2>4. r.chunk = c
    BY <2>3 DEF RecordOf
  <2>5. Of[c].owner = "me" /\ Of[c].kb \in Kbs(asked.kbs) /\ Wanted(c)
    BY DEF RetrievalInv, HitsOK, Corpus, Found, Asked
  <2>6. QED
    BY <2>4, <2>5 DEF Kbs
<1>2. QED
  BY <1>1, InvHolds, PTL

(* The ranks that _fuse gives a result are its places among the hits that     *)
(* were asked for, the candidates go to rerank in the order of the scores     *)
(* those ranks make, and whatever was found and not sent comes after them.    *)
THEOREM RanksAreAlwaysTrue == Spec => []RanksAreTrue
<1>1. RetrievalInv => RanksAreTrue
  <2> SUFFICES ASSUME RetrievalInv PROVE RanksAreTrue
    OBVIOUS
  <2>1. vector.hits \in Orders(Chunk) /\ keyword.hits \in Orders(Chunk)
    BY DEF RetrievalInv, RetrievalTypeOK, Branch
  <2>2. Elements(keyword.hits) \subseteq Asked
    BY DEF RetrievalInv, HitsOK, Corpus, Asked
  <2>3. \A r \in Fused(vector.hits, keyword.hits) :
          /\ r.vector = TrueRank(r.chunk, vector.hits)
          /\ r.keyword = TrueRank(r.chunk, keyword.hits)
    BY <2>1, <2>2, FusedRanks
  <2>4. /\ Elements(results) \subseteq Elements(candidates)
        /\ Elements(candidates) \subseteq Fused(vector.hits, keyword.hits)
        /\ \A i, j \in DOMAIN candidates : i < j => Before(candidates[i], candidates[j])
        /\ \A r \in Fused(vector.hits, keyword.hits) \ Elements(candidates) :
             \A s \in Elements(candidates) : Before(s, r)
    BY DEF RetrievalInv, CandidatesOK, ResultsOK
  <2>5. \A r \in Fused(vector.hits, keyword.hits) : r = TrueRecord(r.chunk)
    <3> SUFFICES ASSUME NEW r \in Fused(vector.hits, keyword.hits)
                 PROVE  r = TrueRecord(r.chunk)
      OBVIOUS
    <3>1. PICK c \in Found(vector.hits, keyword.hits) :
            r = RecordOf(c, vector.hits, keyword.hits)
      BY <2>1, FusedRecords
    <3>2. QED
      BY <2>3, <3>1 DEF RecordOf, TrueRecord
  <2>6. ASSUME NEW c \in Elements(vector.hits) \cup Elements(keyword.hits), Wanted(c)
        PROVE  \/ TrueRecord(c) \in Elements(candidates)
               \/ \A r \in Elements(candidates) : Before(r, TrueRecord(c))
    <3>1. c \in Found(vector.hits, keyword.hits)
      <4>1. IsFiniteSet(Chunk)
        BY RetrievalAssumption
      <4>2. Elements(vector.hits) \subseteq Chunk
        BY <2>1, <4>1, OrderOf
      <4>3. QED
        BY <2>6, <4>2 DEF Found, Asked
    <3>2. RecordOf(c, vector.hits, keyword.hits) \in Fused(vector.hits, keyword.hits)
      BY <2>1, <3>1, FusedRecords
    <3>3. RecordOf(c, vector.hits, keyword.hits) = TrueRecord(c)
      BY <2>5, <3>2 DEF RecordOf
    <3>4. QED
      BY <2>4, <3>2, <3>3
  <2>7. QED
    BY <2>4, <2>5, <2>6 DEF RanksAreTrue
<1>2. QED
  BY <1>1, InvHolds, PTL

(* An answer of retrieve is whole: one result for each candidate up to topK   *)
(* and no chunk twice, empty only when neither branch found anything; a call  *)
(* that fails or is cancelled returns nothing and leaves no branch running.   *)
THEOREM AnswersAreWhole == Spec => []NothingPartial
<1>1. RetrievalInv => NothingPartial
  <2> SUFFICES ASSUME RetrievalInv PROVE NothingPartial
    OBVIOUS
  <2>1. /\ stage = "answered" => AnswerOK
        /\ stage # "answered" => results = << >>
    BY DEF RetrievalInv, ResultsOK
  <2>2. ~provider => \A b \in {vector, keyword} : b.at = "off" \/ Ended(b)
    <3> SUFFICES ASSUME ~provider
                 PROVE  /\ vector.at = "off" \/ Ended(vector)
                        /\ keyword.at = "off" \/ Ended(keyword)
      OBVIOUS
    <3>1. CASE stage = "start"
      BY <3>1 DEF RetrievalInv, StageOK, Off
    <3>2. CASE stage \in {"answered", "failed", "cancelled"}
      BY <3>2 DEF RetrievalInv, StageOK
    <3>3. QED
      BY <3>1, <3>2 DEF RetrievalInv, RetrievalTypeOK, StageOK
  <2>3. QED
    BY <2>1, <2>2 DEF NothingPartial, AnswerOK
<1>2. QED
  BY <1>1, InvHolds, PTL
===============================================================================
