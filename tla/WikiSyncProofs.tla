---------------------------- MODULE WikiSyncProofs ----------------------------
(* Theorems about WikiSync and WikiSources for every value of their          *)
(* constants: the gate on archived deltas follows the order of archiving     *)
(* wherever dates and names tell it, and the files of people are kept.       *)
EXTENDS WikiSync, FiniteSetTheorems, WellFoundedInduction, TLAPS

-----------------------------------------------------------------------------
(* A set of numbers has a smallest one: what is true of 0 and goes from a    *)
(* number to the next is true of all, or there is a first exception.         *)
LEMMA Smallest ==
  ASSUME NEW S, S \subseteq Nat, S # {}
  PROVE  \E x \in S : \A y \in S : x <= y
<1>1. PICK x \in S : \A y \in S : ~(<<y, x>> \in OpToRel(<, Nat))
  BY NatLessThanWellFounded, WFMin
<1>2. ASSUME NEW y \in S, ~(x <= y) PROVE FALSE
  <2>1. <<y, x>> \in Nat \X Nat /\ y < x
    BY <1>2
  <2>2. <<y, x>> \in OpToRel(<, Nat)
    BY <2>1 DEF OpToRel
  <2>3. QED
    BY <1>1, <2>2
<1>3. QED
  BY <1>2

-----------------------------------------------------------------------------
(* Before on tuples of two, three and five numbers.                          *)
LEMMA BeforeTwo ==
  ASSUME NEW a1, NEW a2, NEW b1, NEW b2
  PROVE  Before(<<a1, a2>>, <<b1, b2>>) <=> a1 < b1 \/ (a1 = b1 /\ a2 < b2)
<1>1. DOMAIN <<a1, a2>> = {1, 2} /\ 1..(1 - 1) = {} /\ 1..(2 - 1) = {1}
  OBVIOUS
<1>2. QED
  BY <1>1 DEF Before

LEMMA BeforeThree ==
  ASSUME NEW a1, NEW a2, NEW a3, NEW b1, NEW b2, NEW b3
  PROVE  Before(<<a1, a2, a3>>, <<b1, b2, b3>>) <=>
           \/ a1 < b1
           \/ a1 = b1 /\ a2 < b2
           \/ a1 = b1 /\ a2 = b2 /\ a3 < b3
<1>1. /\ DOMAIN <<a1, a2, a3>> = {1, 2, 3}
      /\ 1..(1 - 1) = {} /\ 1..(2 - 1) = {1} /\ 1..(3 - 1) = {1, 2}
  OBVIOUS
<1>2. QED
  BY <1>1 DEF Before

LEMMA BeforeFive ==
  ASSUME NEW a1, NEW a2, NEW a3, NEW a4, NEW a5,
         NEW b1, NEW b2, NEW b3, NEW b4, NEW b5
  PROVE  Before(<<a1, a2, a3, a4, a5>>, <<b1, b2, b3, b4, b5>>) <=>
           \/ a1 < b1
           \/ a1 = b1 /\ a2 < b2
           \/ a1 = b1 /\ a2 = b2 /\ a3 < b3
           \/ a1 = b1 /\ a2 = b2 /\ a3 = b3 /\ a4 < b4
           \/ a1 = b1 /\ a2 = b2 /\ a3 = b3 /\ a4 = b4 /\ a5 < b5
<1>1. /\ DOMAIN <<a1, a2, a3, a4, a5>> = {1, 2, 3, 4, 5}
      /\ 1..(1 - 1) = {} /\ 1..(2 - 1) = {1} /\ 1..(3 - 1) = {1, 2}
      /\ 1..(4 - 1) = {1, 2, 3} /\ 1..(5 - 1) = {1, 2, 3, 4}
  OBVIOUS
<1>2. QED
  BY <1>1 DEF Before

-----------------------------------------------------------------------------
(* What an operation of a delta does to a requirement.                       *)
Op == [kind : Kind, req : Req, to : Req]
Removes(op, r) == op.kind \in {"REMOVED", "RENAMED"} /\ op.req = r
Adds(op, r) ==
  (op.kind = "ADDED" /\ op.req = r) \/ (op.kind = "RENAMED" /\ op.to = r)
Modifies(op, r) == op.kind = "MODIFIED" /\ op.req = r

AppliedOK(body, next, op) ==
  /\ next \in [Req -> Int]
  /\ \A r \in Req : body[r] # Absent /\ ~Removes(op, r) => next[r] # Absent
  /\ \A r \in Req : body[r] = Absent /\ ~Adds(op, r) => next[r] = Absent
  /\ \A r \in Req : Adds(op, r) => body[r] = Absent
  /\ \A r \in Req : Modifies(op, r) => body[r] # Absent

LEMMA AppliedIsOK ==
  ASSUME NEW body \in [Req -> Int], NEW op \in Op, NEW c \in Nat \ {0},
         Applies(body, op)
  PROVE  AppliedOK(body, Applied(body, op, c), op)
<1>1. op.req \in Req /\ op.to \in Req /\ op.kind \in Kind /\ Absent \in Int /\ c # Absent
  BY DEF Op, Absent
<1>2. CASE op.kind = "RENAMED"
  <2>1. body[op.req] # Absent /\ body[op.to] = Absent /\ op.req # op.to
    BY <1>2 DEF Applies
  <2> DEFINE next == [body EXCEPT ![op.to] = body[op.req], ![op.req] = Absent]
  <2>2. /\ next \in [Req -> Int]
        /\ \A r \in Req : next[r] = IF r = op.req THEN Absent
                                    ELSE IF r = op.to THEN body[op.req] ELSE body[r]
    BY <1>1, <2>1
  <2>3. Applied(body, op, c) = next
    BY <1>2 DEF Applied
  <2> HIDE DEF next
  <2>4. QED
    BY <1>2, <2>1, <2>2, <2>3 DEF AppliedOK, Removes, Adds, Modifies
<1>3. CASE op.kind = "REMOVED"
  <2> DEFINE next == [body EXCEPT ![op.req] = Absent]
  <2>1. /\ next \in [Req -> Int]
        /\ \A r \in Req : next[r] = IF r = op.req THEN Absent ELSE body[r]
    BY <1>1
  <2>2. Applied(body, op, c) = next
    BY <1>3 DEF Applied
  <2> HIDE DEF next
  <2>3. QED
    BY <1>3, <2>1, <2>2 DEF AppliedOK, Removes, Adds, Modifies
<1>4. CASE op.kind \in {"ADDED", "MODIFIED"}
  <2> DEFINE next == [body EXCEPT ![op.req] = c]
  <2>1. /\ next \in [Req -> Int]
        /\ \A r \in Req : next[r] = IF r = op.req THEN c ELSE body[r]
    BY <1>1
  <2>2. Applied(body, op, c) = next
    BY <1>4 DEF Applied
  <2>3. /\ op.kind = "ADDED" => body[op.req] = Absent
        /\ op.kind = "MODIFIED" => body[op.req] # Absent
    BY <1>4 DEF Applies
  <2> HIDE DEF next
  <2>4. QED
    BY <1>1, <1>4, <2>1, <2>2, <2>3 DEF AppliedOK, Removes, Adds, Modifies
<1>5. QED
  BY <1>1, <1>2, <1>3, <1>4 DEF Kind

-----------------------------------------------------------------------------
(* Bodies: the recursive function exists, for otherwise there is a least     *)
(* number of operations for which it does not.                               *)
LEMMA BodiesStep ==
  ASSUME NEW c, NEW delta, Len(delta.ops) \in Nat
  PROVE  /\ Bodies(c, delta)[0] = main
         /\ \A i \in 1..Len(delta.ops) :
              Bodies(c, delta)[i] = Applied(Bodies(c, delta)[i - 1], delta.ops[i], c)
<1> DEFINE IsBody(f, n) ==
             f = [i \in 0..n |-> IF i = 0 THEN main
                                 ELSE Applied(f[i - 1], delta.ops[i], c)]
           Bad == {n \in Nat : ~ \E f : IsBody(f, n)}
<1>1. ASSUME Bad # {} PROVE FALSE
  <2>1. PICK n \in Bad : \A k \in Bad : n <= k
    <3>1. Bad \subseteq Nat
      OBVIOUS
    <3> HIDE DEF Bad
    <3>2. QED
      BY <1>1, <3>1, Smallest
  <2>2. n \in Nat /\ ~ \E f : IsBody(f, n)
    BY <2>1
  <2>3. CASE n = 0
    <3> DEFINE f == [i \in 0..0 |-> main]
    <3>1. IsBody(f, 0)
      OBVIOUS
    <3>2. QED
      BY <2>2, <2>3, <3>1
  <2>4. CASE n # 0
    <3>1. n - 1 \in Nat /\ n - 1 \notin Bad
      BY <2>1, <2>2, <2>4
    <3>2. PICK g : IsBody(g, n - 1)
      BY <3>1
    <3> DEFINE f == [i \in 0..n |->
                       IF i = n THEN Applied(g[n - 1], delta.ops[n], c) ELSE g[i]]
    <3>3. \A i \in 0..(n - 1) :
            g[i] = IF i = 0 THEN main ELSE Applied(g[i - 1], delta.ops[i], c)
      BY <3>2
    <3>4. ASSUME NEW i \in 0..n
          PROVE  f[i] = IF i = 0 THEN main ELSE Applied(f[i - 1], delta.ops[i], c)
      <4>1. CASE i = n
        <5>1. i # 0 /\ i - 1 \in 0..n /\ i - 1 # n
          BY <2>2, <2>4, <4>1
        <5>2. f[i - 1] = g[n - 1] /\ f[i] = Applied(g[n - 1], delta.ops[n], c)
          BY <4>1, <5>1
        <5>3. QED
          BY <4>1, <5>1, <5>2
      <4>2. CASE i # n
        <5>1. i \in 0..(n - 1)
          BY <2>2, <4>2
        <5>2. f[i] = g[i]
          BY <4>2
        <5>3. i # 0 => i - 1 \in 0..n /\ i - 1 # n
          BY <2>2, <5>1
        <5>4. i # 0 => f[i - 1] = g[i - 1]
          BY <5>3
        <5>5. QED
          BY <3>3, <5>1, <5>2, <5>4
      <4>3. QED
        BY <4>1, <4>2
    <3>5. f = [i \in 0..n |-> f[i]]
      OBVIOUS
    <3> HIDE DEF f
    <3>6. IsBody(f, n)
      BY <3>4, <3>5
    <3>7. QED
      BY <2>2, <3>6
  <2>5. QED
    BY <2>3, <2>4
<1>2. \E f : IsBody(f, Len(delta.ops))
  BY <1>1
<1>3. IsBody(Bodies(c, delta), Len(delta.ops))
  BY <1>2 DEF Bodies
<1>4. QED
  BY <1>3

(* A delta whose operations apply one after the other: while none removes a  *)
(* requirement that is there it stays, while none adds one that is not there *)
(* it stays away.                                                            *)
Fits(c, delta) ==
  \A i \in DOMAIN delta.ops : Applies(Bodies(c, delta)[i - 1], delta.ops[i])

StaysFrom(c, delta, i, k) ==
  /\ Bodies(c, delta)[k] \in [Req -> Int]
  /\ \A r \in Req :
       /\ (Bodies(c, delta)[i][r] # Absent /\ \A m \in (i + 1)..k : ~Removes(delta.ops[m], r))
            => Bodies(c, delta)[k][r] # Absent
       /\ (Bodies(c, delta)[i][r] = Absent /\ \A m \in (i + 1)..k : ~Adds(delta.ops[m], r))
            => Bodies(c, delta)[k][r] = Absent

LEMMA OneMoreApplied ==
  ASSUME NEW c \in Nat \ {0}, NEW delta \in Delta, Fits(c, delta),
         NEW i \in Nat, NEW k \in Nat, i <= k, k < Len(delta.ops),
         StaysFrom(c, delta, i, k)
  PROVE  StaysFrom(c, delta, i, k + 1)
<1> DEFINE b == Bodies(c, delta)
           op == delta.ops[k + 1]
<1>1. /\ delta.ops \in Seq(Op) /\ Len(delta.ops) \in Nat
      /\ k + 1 \in 1..Len(delta.ops) /\ (k + 1) - 1 = k /\ k \in (i + 1)..(k + 1) \cup {i}
      /\ (i + 1)..(k + 1) = ((i + 1)..k) \cup {k + 1}
  BY DEF Delta, Op
<1>2. op \in Op /\ k + 1 \in DOMAIN delta.ops
  BY <1>1
<1>3. b[k + 1] = Applied(b[k], op, c)
  BY <1>1, BodiesStep
<1>4. b[k] \in [Req -> Int]
  BY DEF StaysFrom
<1>5. Applies(b[k], op)
  BY <1>1, <1>2 DEF Fits
<1>6. AppliedOK(b[k], b[k + 1], op)
  <2> HIDE DEF b, op
  <2>1. QED
    BY <1>2, <1>3, <1>4, <1>5, AppliedIsOK
<1> HIDE DEF b
<1>7. ASSUME NEW r \in Req
      PROVE  /\ (b[i][r] # Absent /\ \A m \in (i + 1)..(k + 1) : ~Removes(delta.ops[m], r))
                  => b[k + 1][r] # Absent
             /\ (b[i][r] = Absent /\ \A m \in (i + 1)..(k + 1) : ~Adds(delta.ops[m], r))
                  => b[k + 1][r] = Absent
  <2>1. /\ (b[i][r] # Absent /\ \A m \in (i + 1)..k : ~Removes(delta.ops[m], r))
             => b[k][r] # Absent
        /\ (b[i][r] = Absent /\ \A m \in (i + 1)..k : ~Adds(delta.ops[m], r))
             => b[k][r] = Absent
    BY DEF StaysFrom, b
  <2>2. /\ b[k][r] # Absent /\ ~Removes(op, r) => b[k + 1][r] # Absent
        /\ b[k][r] = Absent /\ ~Adds(op, r) => b[k + 1][r] = Absent
    BY <1>6 DEF AppliedOK
  <2> HIDE DEF op
  <2>3. CASE b[i][r] # Absent /\ \A m \in (i + 1)..(k + 1) : ~Removes(delta.ops[m], r)
    BY <1>1, <2>1, <2>2, <2>3 DEF op
  <2>4. CASE b[i][r] = Absent /\ \A m \in (i + 1)..(k + 1) : ~Adds(delta.ops[m], r)
    BY <1>1, <2>1, <2>2, <2>4 DEF op
  <2>5. QED
    BY <2>3, <2>4
<1>8. b[k + 1] \in [Req -> Int]
  BY <1>6 DEF AppliedOK
<1>9. QED
  BY <1>7, <1>8 DEF StaysFrom, b

LEMMA StaysAlways ==
  ASSUME NEW c \in Nat \ {0}, NEW delta \in Delta, Fits(c, delta), main \in [Req -> Int],
         NEW i \in 0..Len(delta.ops), NEW k \in i..Len(delta.ops)
  PROVE  StaysFrom(c, delta, i, k)
<1> DEFINE n == Len(delta.ops)
<1>1. n \in Nat /\ Bodies(c, delta)[0] = main
  BY BodiesStep DEF Delta
<1> HIDE DEF n
<1>2. ASSUME NEW j \in 0..n, Bodies(c, delta)[j] \in [Req -> Int],
             NEW l \in j..n, ~StaysFrom(c, delta, j, l)
      PROVE  FALSE
  <2> DEFINE Bad == {m \in Nat : m \in j..n /\ ~StaysFrom(c, delta, j, m)}
  <2>1. PICK m \in Bad : \A x \in Bad : m <= x
    <3>1. Bad \subseteq Nat /\ l \in Bad
      BY <1>1, <1>2
    <3> HIDE DEF Bad
    <3>2. QED
      BY <3>1, Smallest
  <2>2. m \in Nat /\ m \in j..n /\ ~StaysFrom(c, delta, j, m)
    BY <2>1
  <2>3. StaysFrom(c, delta, j, j)
    <3>1. (j + 1)..j = {}
      BY <1>1
    <3>2. QED
      BY <1>2 DEF StaysFrom
  <2>4. m # j /\ m - 1 \in Nat /\ m - 1 \in j..n /\ m - 1 < m
    BY <1>1, <2>2, <2>3
  <2>5. StaysFrom(c, delta, j, m - 1)
    BY <2>1, <2>4
  <2>6. j \in Nat /\ j <= m - 1 /\ m - 1 < Len(delta.ops) /\ (m - 1) + 1 = m
    BY <1>1, <2>2, <2>4 DEF n
  <2>7. QED
    BY <2>2, <2>4, <2>5, <2>6, OneMoreApplied
<1>3. 0 \in 0..n /\ i \in 0..n /\ i \in Nat
  BY <1>1 DEF n
<1>4. StaysFrom(c, delta, 0, i)
  BY <1>1, <1>2, <1>3
<1>5. QED
  BY <1>2, <1>3, <1>4 DEF StaysFrom, n

-----------------------------------------------------------------------------
(* What a delta as a whole does to a requirement.                            *)
SomeRemoves(delta, r) == \E i \in DOMAIN delta.ops : Removes(delta.ops[i], r)
SomeAdds(delta, r) == \E i \in DOMAIN delta.ops : Adds(delta.ops[i], r)
SomeModifies(delta, r) == \E i \in DOMAIN delta.ops : Modifies(delta.ops[i], r)
OnlyModifies(delta, r) ==
  SomeModifies(delta, r) /\ ~SomeAdds(delta, r) /\ ~SomeRemoves(delta, r)

(* In the text of a delta a requirement is not added after a modification,   *)
(* unless it is removed between the two.                                     *)
InText(delta, r) ==
  \A i, k \in DOMAIN delta.ops :
    i < k /\ Modifies(delta.ops[i], r) /\ Adds(delta.ops[k], r) => SomeRemoves(delta, r)

(* A delta that fits: before and after are the main specs on both sides.     *)
DeltaOK(delta, before, after, r) ==
  /\ InText(delta, r)
  /\ OnlyModifies(delta, r) => before[r] # Absent /\ after[r] # Absent
  /\ before[r] # Absent /\ ~SomeRemoves(delta, r) =>
       after[r] # Absent /\ ~SomeAdds(delta, r)

LEMMA FittingDelta ==
  ASSUME NEW c \in Nat \ {0}, NEW delta \in Delta, Fits(c, delta), main \in [Req -> Int]
  PROVE  /\ Bodies(c, delta)[Len(delta.ops)] \in [Req -> Int]
         /\ \A r \in Req : DeltaOK(delta, main, Bodies(c, delta)[Len(delta.ops)], r)
<1> DEFINE b == Bodies(c, delta)
           n == Len(delta.ops)
<1>1. /\ delta.ops \in Seq(Op) /\ n \in Nat /\ DOMAIN delta.ops = 1..n
      /\ \A i \in DOMAIN delta.ops : delta.ops[i] \in Op
  <2>1. delta.ops \in Seq(Op)
    BY DEF Delta, Op
  <2>2. QED
    BY <2>1
<1>2. b[0] = main
  BY <1>1, BodiesStep
<1>3. \A i \in 0..n : \A k \in i..n : StaysFrom(c, delta, i, k)
  BY StaysAlways
<1>4. ASSUME NEW i \in 0..n, NEW k \in i..n, NEW r \in Req, ~SomeRemoves(delta, r),
             b[i][r] # Absent
      PROVE  b[k][r] # Absent
  <2>1. \A m \in (i + 1)..k : m \in DOMAIN delta.ops
    BY <1>1
  <2>2. QED
    BY <1>3, <1>4, <2>1 DEF StaysFrom, SomeRemoves
<1>5. ASSUME NEW i \in 0..n, NEW k \in i..n, NEW r \in Req, ~SomeAdds(delta, r),
             b[i][r] = Absent
      PROVE  b[k][r] = Absent
  <2>1. \A m \in (i + 1)..k : m \in DOMAIN delta.ops
    BY <1>1
  <2>2. QED
    BY <1>3, <1>5, <2>1 DEF StaysFrom, SomeAdds
<1>6. ASSUME NEW i \in DOMAIN delta.ops
      PROVE  /\ i \in 1..n /\ i - 1 \in 0..n /\ i - 1 \in 0..i /\ i \in 0..n /\ i \in (i - 1)..n
             /\ AppliedOK(b[i - 1], b[i], delta.ops[i])
  <2>1. i \in 1..n /\ i - 1 \in 0..n /\ i - 1 \in 0..i /\ i \in 0..n /\ i \in (i - 1)..n
    BY <1>1
  <2>2. b[i] = Applied(b[i - 1], delta.ops[i], c)
    BY <1>1, <2>1, BodiesStep
  <2>3. b[i - 1] \in [Req -> Int]
    BY <1>3, <2>1 DEF StaysFrom
  <2>4. Applies(b[i - 1], delta.ops[i])
    BY DEF Fits
  <2> HIDE DEF b
  <2>5. QED
    BY <1>1, <2>1, <2>2, <2>3, <2>4, AppliedIsOK
<1> HIDE DEF b
<1>7. b[n] \in [Req -> Int]
  <2>1. 0 \in 0..n /\ n \in 0..n
    BY <1>1
  <2>2. QED
    BY <1>3, <2>1 DEF StaysFrom, b
<1> HIDE DEF n
<1>8. ASSUME NEW r \in Req PROVE DeltaOK(delta, main, b[n], r)
  <2>1. InText(delta, r)
    <3> SUFFICES ASSUME NEW i \in DOMAIN delta.ops, NEW k \in DOMAIN delta.ops, i < k,
                        Modifies(delta.ops[i], r), Adds(delta.ops[k], r), ~SomeRemoves(delta, r)
                 PROVE  FALSE
      BY DEF InText
    <3>1. b[i - 1][r] # Absent
      BY <1>6 DEF AppliedOK
    <3>2. i - 1 \in 0..n /\ k - 1 \in (i - 1)..n
      BY <1>1, <1>6
    <3>3. b[k - 1][r] # Absent
      BY <1>4, <3>1, <3>2
    <3>4. b[k - 1][r] = Absent
      BY <1>6 DEF AppliedOK
    <3>5. QED
      BY <3>3, <3>4
  <2>2. ASSUME main[r] # Absent, ~SomeRemoves(delta, r)
        PROVE  b[n][r] # Absent /\ ~SomeAdds(delta, r)
    <3>1. 0 \in 0..n /\ n \in 0..n
      BY <1>1
    <3>2. b[n][r] # Absent
      BY <1>2, <1>4, <2>2, <3>1
    <3>3. ASSUME NEW i \in DOMAIN delta.ops, Adds(delta.ops[i], r) PROVE FALSE
      <4>1. b[i - 1][r] = Absent
        BY <1>6, <3>3 DEF AppliedOK
      <4>2. b[i - 1][r] # Absent
        BY <1>2, <1>4, <1>6, <2>2, <3>1
      <4>3. QED
        BY <4>1, <4>2
    <3>4. QED
      BY <3>2, <3>3 DEF SomeAdds
  <2>3. ASSUME OnlyModifies(delta, r) PROVE main[r] # Absent
    <3>1. PICK i \in DOMAIN delta.ops : Modifies(delta.ops[i], r)
      BY <2>3 DEF OnlyModifies, SomeModifies
    <3>2. b[i - 1][r] # Absent
      BY <1>6, <3>1 DEF AppliedOK
    <3>3. 0 \in 0..n /\ i - 1 \in 0..n
      BY <1>1, <1>6
    <3>4. main[r] = Absent => b[i - 1][r] = Absent
      BY <1>2, <1>5, <2>3, <3>3 DEF OnlyModifies
    <3>5. QED
      BY <3>2, <3>4
  <2>4. QED
    BY <2>1, <2>2, <2>3 DEF DeltaOK, OnlyModifies
<1>9. QED
  BY <1>7, <1>8 DEF b, n

-----------------------------------------------------------------------------
(* The types, and who is archived.                                           *)
ChangeState ==
  [at : {"none", "active", "archived"}, created : Nat, archived : Nat, delta : Delta]

SourcesTypeOK ==
  /\ change \in [Change -> ChangeState]
  /\ main \in [Req -> Int]
  /\ history \in Seq(Change)
  /\ day \in Nat

Filed ==
  /\ \A i, k \in DOMAIN history : history[i] = history[k] => i = k
  /\ \A c \in Change : change[c].at = "archived" <=> \E i \in DOMAIN history : history[i] = c

Carried(i) == change[history[i]].delta

(* A requirement that an archived change only modifies was there, and is     *)
(* still in the main specs unless a later archive removes it; nobody adds it *)
(* again before.                                                             *)
Standing(r) ==
  \A i \in DOMAIN history : OnlyModifies(Carried(i), r) =>
    main[r] # Absent \/ \E j \in DOMAIN history : i < j /\ SomeRemoves(Carried(j), r)

Between(r) ==
  \A i, k \in DOMAIN history :
    i < k /\ OnlyModifies(Carried(i), r) /\ SomeAdds(Carried(k), r) =>
      \E j \in DOMAIN history : i < j /\ j <= k /\ SomeRemoves(Carried(j), r)

Texts(r) == \A i \in DOMAIN history : InText(Carried(i), r)

HistoryInv ==
  /\ SourcesTypeOK /\ Filed
  /\ \A r \in Req : Standing(r) /\ Between(r) /\ Texts(r)

LEMMA ChangeTypes ==
  ASSUME SourcesTypeOK, NEW c \in Change
  PROVE  /\ c \in Nat \ {0}
         /\ change[c] \in ChangeState /\ change[c].delta \in Delta
         /\ change[c].created \in Nat /\ change[c].archived \in Nat
         /\ change[c].delta.ops \in Seq(Op)
<1>1. c \in Nat \ {0}
  BY SourcesAssumption
<1>2. change[c] \in ChangeState
  BY DEF SourcesTypeOK
<1>3. change[c].delta \in Delta /\ change[c].created \in Nat /\ change[c].archived \in Nat
  BY <1>2 DEF ChangeState
<1>4. change[c].delta.ops \in Seq(Op)
  BY <1>3 DEF Delta, Op
<1>5. QED
  BY <1>1, <1>2, <1>3, <1>4

LEMMA MissingType == Missing \in ChangeState /\ [Missing EXCEPT !.at = "active"].at = "active"
<1>1. <<>> \in Seq([kind : Kind, req : Req, to : Req])
  OBVIOUS
<1>2. QED
  BY <1>1 DEF Missing, ChangeState, Delta

LEMMA HistoryStarts == SourcesInit => HistoryInv
<1> SUFFICES ASSUME SourcesInit PROVE HistoryInv
  OBVIOUS
<1>1. history = <<>> /\ DOMAIN history = {} /\ history \in Seq(Change)
  BY DEF SourcesInit
<1>2. change = [c \in Change |-> Missing] /\ Missing \in ChangeState
  BY MissingType DEF SourcesInit
<1>3. main \in [Req -> Int] /\ day \in Nat
  BY DEF SourcesInit, Base, Absent
<1>4. \A c \in Change : change[c].at # "archived"
  BY <1>2 DEF Missing
<1>5. SourcesTypeOK
  BY <1>1, <1>2, <1>3 DEF SourcesTypeOK
<1>6. Filed
  BY <1>1, <1>4 DEF Filed
<1>7. \A r \in Req : Standing(r) /\ Between(r) /\ Texts(r)
  BY <1>1 DEF Standing, Between, Texts
<1>8. QED
  BY <1>5, <1>6, <1>7 DEF HistoryInv

(* Proposals and the calendar leave what is archived alone.                  *)
LEMMA ArchivesStay ==
  ASSUME HistoryInv, SourcesTypeOK', UNCHANGED <<main, history>>,
         \A c \in Change : change[c].at = "archived" =>
           change'[c].at = "archived" /\ change'[c].delta = change[c].delta,
         \A c \in Change : change'[c].at = "archived" => change[c].at = "archived"
  PROVE  HistoryInv'
<1>1. \A i \in DOMAIN history : history[i] \in Change /\ change[history[i]].at = "archived"
  BY DEF HistoryInv, SourcesTypeOK, Filed
<1>2. Filed'
  BY DEF HistoryInv, Filed
<1>3. \A i \in DOMAIN history : change'[history'[i]].delta = change[history[i]].delta
  BY <1>1
<1>4. ASSUME NEW r \in Req PROVE (Standing(r) /\ Between(r) /\ Texts(r))'
  <2>1. Standing(r) /\ Between(r) /\ Texts(r)
    BY DEF HistoryInv
  <2>2. QED
    BY <1>3, <2>1 DEF Standing, Between, Texts, Carried
<1>5. QED
  BY <1>2, <1>4 DEF HistoryInv

LEMMA ProposeKeeps ==
  ASSUME HistoryInv, NEW c \in Change, Propose(c)
  PROVE  HistoryInv'
<1> DEFINE s == [Missing EXCEPT !.at = "active", !.created = day]
<1>1. s \in ChangeState /\ s.at = "active"
  BY MissingType DEF HistoryInv, SourcesTypeOK, Missing, ChangeState
<1>2. change' = [change EXCEPT ![c] = s]
  BY DEF Propose
<1> HIDE DEF s
<1>3. SourcesTypeOK'
  BY <1>1, <1>2 DEF HistoryInv, SourcesTypeOK, Propose
<1>4. \A d \in Change : change'[d] = IF d = c THEN s ELSE change[d]
  BY <1>2 DEF HistoryInv, SourcesTypeOK
<1>5. change[c].at # "archived" /\ UNCHANGED <<main, history>>
  BY DEF Propose
<1>6. QED
  BY <1>1, <1>3, <1>4, <1>5, ArchivesStay

LEMMA NextDayKeeps ==
  ASSUME HistoryInv, NextDay
  PROVE  HistoryInv'
<1>1. SourcesTypeOK' /\ UNCHANGED <<change, main, history>>
  BY DEF HistoryInv, SourcesTypeOK, NextDay
<1>2. QED
  BY <1>1, ArchivesStay

(* An archive adds itself to the history and its delta to the main specs, or *)
(* only the first of the two.                                                *)
LEMMA ArchiveKeeps ==
  ASSUME HistoryInv, NEW c \in Change, NEW delta \in Delta, NEW synced \in BOOLEAN,
         Archive(c, delta, synced)
  PROVE  HistoryInv'
<1> DEFINE s == [change[c] EXCEPT !.at = "archived", !.archived = day, !.delta = delta]
           n == Len(history)
           after == Bodies(c, delta)[Len(delta.ops)]
<1>1. /\ history \in Seq(Change) /\ n \in Nat /\ DOMAIN history = 1..n
      /\ main \in [Req -> Int] /\ day \in Nat /\ change \in [Change -> ChangeState]
      /\ change[c] \in ChangeState /\ c \in Nat \ {0}
  BY SourcesAssumption DEF HistoryInv, SourcesTypeOK
<1>2. /\ change' = [change EXCEPT ![c] = s]
      /\ history' = Append(history, c) /\ day' = day /\ change[c].at = "active"
      /\ main' = IF synced THEN after ELSE main
  BY DEF Archive
<1>3. s \in ChangeState /\ s.at = "archived" /\ s.delta = delta
  BY <1>1 DEF ChangeState
<1>4. after \in [Req -> Int] /\ \A r \in Req : DeltaOK(delta, main, after, r)
  <2>1. Fits(c, delta)
    BY DEF Archive, Fits
  <2>2. QED
    BY <1>1, <2>1, FittingDelta
<1> HIDE DEF s, after
<1>5. \A d \in Change : change'[d] = IF d = c THEN s ELSE change[d]
  BY <1>1, <1>2
<1>6. /\ DOMAIN history' = 1..(n + 1) /\ history'[n + 1] = c
      /\ \A i \in 1..n : history'[i] = history[i]
  BY <1>1, <1>2
<1>7. SourcesTypeOK'
  <2>1. change' \in [Change -> ChangeState] /\ main' \in [Req -> Int]
    BY <1>1, <1>2, <1>3, <1>4
  <2>2. history' \in Seq(Change) /\ day' \in Nat
    BY <1>1, <1>2
  <2>3. QED
    BY <2>1, <2>2 DEF SourcesTypeOK
<1>8. \A i \in 1..n : history[i] \in Change /\ history[i] # c
  BY <1>1, <1>2 DEF HistoryInv, Filed
<1>9. Filed'
  <2>1. ASSUME NEW i \in 1..(n + 1), NEW k \in 1..(n + 1), history'[i] = history'[k]
        PROVE  i = k
    <3>1. \A j \in 1..(n + 1) : j = n + 1 \/ j \in 1..n
      BY <1>1
    <3>2. QED
      BY <1>1, <1>6, <1>8, <2>1, <3>1 DEF HistoryInv, Filed
  <2>2. ASSUME NEW d \in Change
        PROVE  change'[d].at = "archived" <=> \E i \in 1..(n + 1) : history'[i] = d
    <3>1. CASE d = c
      <4>1. n + 1 \in 1..(n + 1)
        BY <1>1
      <4>2. QED
        BY <1>3, <1>5, <1>6, <3>1, <4>1
    <3>2. CASE d # c
      <4>1. change[d].at = "archived" <=> \E i \in 1..n : history[i] = d
        BY <1>1 DEF HistoryInv, Filed
      <4>2. \A j \in 1..(n + 1) : j = n + 1 \/ j \in 1..n
        BY <1>1
      <4>3. \A j \in 1..n : j \in 1..(n + 1)
        BY <1>1
      <4>4. QED
        BY <1>5, <1>6, <3>2, <4>1, <4>2, <4>3
    <3>3. QED
      BY <3>1, <3>2
  <2>3. QED
    BY <1>6, <2>1, <2>2 DEF Filed
<1>10. \A i \in 1..(n + 1) : Carried(i)' = IF i = n + 1 THEN delta ELSE Carried(i)
  <2>1. ASSUME NEW i \in 1..(n + 1) PROVE Carried(i)' = IF i = n + 1 THEN delta ELSE Carried(i)
    <3>1. Carried(i)' = change'[history'[i]].delta
      BY DEF Carried
    <3>2. CASE i = n + 1
      BY <1>3, <1>5, <1>6, <3>1, <3>2
    <3>3. CASE i # n + 1
      <4>1. i \in 1..n
        BY <1>1, <3>3
      <4>2. QED
        BY <1>5, <1>6, <1>8, <3>1, <3>3, <4>1 DEF Carried
    <3>4. QED
      BY <3>2, <3>3
  <2>2. QED
    BY <2>1
<1>11. \A j \in 1..(n + 1) : j = n + 1 \/ (j \in 1..n /\ j < n + 1)
  BY <1>1
<1>12. \A j \in 1..n : j \in 1..(n + 1) /\ j < n + 1 /\ j <= n + 1
  BY <1>1
<1>13. n + 1 \in 1..(n + 1) /\ n + 1 <= n + 1
  BY <1>1
<1>14. ASSUME NEW r \in Req PROVE Standing(r)' /\ Between(r)' /\ Texts(r)'
  <2>1. /\ \A i \in 1..n : OnlyModifies(Carried(i), r) =>
             main[r] # Absent \/ \E j \in 1..n : i < j /\ SomeRemoves(Carried(j), r)
        /\ \A i, k \in 1..n :
             i < k /\ OnlyModifies(Carried(i), r) /\ SomeAdds(Carried(k), r) =>
               \E j \in 1..n : i < j /\ j <= k /\ SomeRemoves(Carried(j), r)
        /\ \A i \in 1..n : InText(Carried(i), r)
    BY <1>1 DEF HistoryInv, Standing, Between, Texts
  <2>2. DeltaOK(delta, main, after, r)
    BY <1>4
  <2>3. main'[r] = IF synced THEN after[r] ELSE main[r]
    BY <1>2
  <2>4. ASSUME NEW i \in 1..(n + 1), OnlyModifies(Carried(i)', r)
        PROVE  main'[r] # Absent \/ \E j \in 1..(n + 1) : i < j /\ SomeRemoves(Carried(j)', r)
    <3>1. CASE i = n + 1
      BY <1>10, <2>2, <2>3, <2>4, <3>1 DEF DeltaOK
    <3>2. CASE i \in 1..n
      <4>1. CASE main[r] # Absent
        BY <1>10, <1>12, <1>13, <2>2, <2>3, <3>2, <4>1 DEF DeltaOK
      <4>2. CASE main[r] = Absent
        <5>1. PICK j \in 1..n : i < j /\ SomeRemoves(Carried(j), r)
          BY <1>10, <2>1, <2>4, <3>2, <4>2
        <5>2. QED
          BY <1>10, <1>12, <5>1
      <4>3. QED
        BY <4>1, <4>2
    <3>3. QED
      BY <1>11, <3>1, <3>2
  <2>5. ASSUME NEW i \in 1..(n + 1), NEW k \in 1..(n + 1), i < k,
               OnlyModifies(Carried(i)', r), SomeAdds(Carried(k)', r)
        PROVE  \E j \in 1..(n + 1) : i < j /\ j <= k /\ SomeRemoves(Carried(j)', r)
    <3>1. i \in 1..n
      BY <1>1, <2>5
    <3>2. CASE k = n + 1
      <4>1. CASE main[r] # Absent
        <5>1. SomeRemoves(delta, r)
          BY <1>10, <2>2, <2>5, <3>2, <4>1 DEF DeltaOK
        <5>2. QED
          BY <1>10, <1>13, <2>5, <3>2, <5>1
      <4>2. CASE main[r] = Absent
        <5>1. PICK j \in 1..n : i < j /\ SomeRemoves(Carried(j), r)
          BY <1>10, <2>1, <2>5, <3>1, <4>2
        <5>2. QED
          BY <1>10, <1>12, <3>2, <5>1
      <4>3. QED
        BY <4>1, <4>2
    <3>3. CASE k \in 1..n
      <4>1. PICK j \in 1..n : i < j /\ j <= k /\ SomeRemoves(Carried(j), r)
        BY <1>10, <2>1, <2>5, <3>1, <3>3
      <4>2. QED
        BY <1>10, <1>12, <4>1
    <3>4. QED
      BY <1>11, <3>2, <3>3
  <2>6. ASSUME NEW i \in 1..(n + 1) PROVE InText(Carried(i)', r)
    BY <1>10, <1>11, <2>1, <2>2 DEF DeltaOK
  <2>7. QED
    BY <1>6, <2>4, <2>5, <2>6 DEF Standing, Between, Texts
<1>15. QED
  BY <1>7, <1>9, <1>14 DEF HistoryInv

-----------------------------------------------------------------------------
(* The operations on a requirement: whose they are, where they stand, and    *)
(* what the deltas say of them.                                              *)
Kinded == {"ADDED", "MODIFIED", "REMOVED"}

ParsedOK(c, i, op) ==
  /\ \A x \in Parsed(c, i) :
       /\ x.of = c /\ x.kind \in Kinded /\ (x.pos = 2 * i \/ x.pos = 2 * i + 1)
       /\ x.kind = "REMOVED" => Removes(op, x.req)
       /\ x.kind = "ADDED" => Adds(op, x.req)
       /\ x.kind = "MODIFIED" => Modifies(op, x.req) /\ \A y \in Parsed(c, i) : y = x
       /\ \A y \in Parsed(c, i) : x.pos = y.pos => x = y
  /\ \A r \in Req :
       /\ Removes(op, r) => \E x \in Parsed(c, i) : x.kind = "REMOVED" /\ x.req = r
       /\ Adds(op, r) => \E x \in Parsed(c, i) : x.kind = "ADDED" /\ x.req = r
       /\ Modifies(op, r) => \E x \in Parsed(c, i) : x.kind = "MODIFIED" /\ x.req = r

LEMMA ParsedIsOK ==
  ASSUME SourcesTypeOK, NEW c \in Change, NEW i \in DOMAIN change[c].delta.ops
  PROVE  i \in Nat /\ ParsedOK(c, i, change[c].delta.ops[i])
<1> DEFINE op == change[c].delta.ops[i]
           rec(half, kind, req, known) ==
             [of |-> c, pos |-> 2 * i + half, kind |-> kind, req |-> req, known |-> known]
<1>1. change[c].delta.ops \in Seq(Op)
  BY ChangeTypes
<1>2. i \in Nat /\ op \in Op
  BY <1>1
<1>3. op.kind \in {"ADDED", "MODIFIED", "REMOVED", "RENAMED"}
  BY <1>2 DEF Op, Kind
<1>4. Parsed(c, i) = IF op.kind = "RENAMED"
                     THEN {rec(0, "REMOVED", op.req, FALSE), rec(1, "ADDED", op.to, FALSE)}
                     ELSE {rec(0, op.kind, op.req, TRUE)}
  BY DEF Parsed
<1>5. 2 * i + 0 = 2 * i /\ 2 * i + 1 # 2 * i
  BY <1>2
<1> HIDE DEF op
<1>6. CASE op.kind = "RENAMED"
  <2> DEFINE u == rec(0, "REMOVED", op.req, FALSE)
             v == rec(1, "ADDED", op.to, FALSE)
  <2>1. Parsed(c, i) = {u, v}
    BY <1>4, <1>6
  <2>2. /\ u.of = c /\ u.pos = 2 * i /\ u.kind = "REMOVED" /\ u.req = op.req
        /\ v.of = c /\ v.pos = 2 * i + 1 /\ v.kind = "ADDED" /\ v.req = op.to
    BY <1>5
  <2> HIDE DEF u, v
  <2>3. ParsedOK(c, i, op)
    BY <1>5, <1>6, <2>1, <2>2 DEF ParsedOK, Removes, Adds, Modifies, Kinded
  <2>4. QED
    BY <1>2, <2>3 DEF op
<1>7. CASE op.kind # "RENAMED"
  <2> DEFINE u == rec(0, op.kind, op.req, TRUE)
  <2>1. Parsed(c, i) = {u}
    BY <1>4, <1>7
  <2>2. u.of = c /\ u.pos = 2 * i /\ u.kind = op.kind /\ u.req = op.req
    BY <1>5
  <2> HIDE DEF u
  <2>3. ParsedOK(c, i, op)
    BY <1>3, <1>7, <2>1, <2>2 DEF ParsedOK, Removes, Adds, Modifies, Kinded
  <2>4. QED
    BY <1>2, <2>3 DEF op
<1>8. QED
  BY <1>6, <1>7

(* What there is about r comes from the deltas of the archived changes.      *)
LEMMA AboutIs ==
  ASSUME SourcesTypeOK, NEW r, NEW x
  PROVE  x \in About(r) <=>
           x.req = r /\ \E c \in At("archived") :
             \E i \in DOMAIN change[c].delta.ops : x \in Parsed(c, i)
BY DEF About, Operations

AboutOK(r, x) ==
  /\ x.of \in Change /\ change[x.of].at = "archived" /\ x.req = r
  /\ x.kind \in Kinded /\ x.pos \in Nat
  /\ \E i \in DOMAIN change[x.of].delta.ops : x \in Parsed(x.of, i)

LEMMA AboutIsOK ==
  ASSUME SourcesTypeOK, NEW r, NEW x \in About(r)
  PROVE  AboutOK(r, x)
<1>0. PICK c \in At("archived") : \E k \in DOMAIN change[c].delta.ops : x \in Parsed(c, k)
  BY AboutIs
<1>1. PICK i \in DOMAIN change[c].delta.ops : x \in Parsed(c, i)
  BY <1>0
<1>2. x.req = r /\ c \in Change /\ change[c].at = "archived"
  BY <1>1, AboutIs DEF At
<1>3. i \in Nat /\ ParsedOK(c, i, change[c].delta.ops[i])
  BY <1>1, <1>2, ParsedIsOK
<1>4. x.of = c /\ x.kind \in Kinded /\ (x.pos = 2 * i \/ x.pos = 2 * i + 1)
  BY <1>1, <1>3 DEF ParsedOK
<1>5. x.pos \in Nat
  BY <1>3, <1>4
<1>6. QED
  BY <1>1, <1>2, <1>4, <1>5 DEF AboutOK

LEMMA KindsOf ==
  ASSUME SourcesTypeOK, NEW r \in Req, NEW c \in Change, change[c].at = "archived"
  PROVE  /\ "REMOVED" \in Kinds(r, c) <=> SomeRemoves(change[c].delta, r)
         /\ "ADDED" \in Kinds(r, c) <=> SomeAdds(change[c].delta, r)
         /\ "MODIFIED" \in Kinds(r, c) <=> SomeModifies(change[c].delta, r)
         /\ Kinds(r, c) \subseteq Kinded
<1>1. \A i \in DOMAIN change[c].delta.ops : ParsedOK(c, i, change[c].delta.ops[i])
  BY ParsedIsOK
<1>2. ASSUME NEW x \in About(r), x.of = c
      PROVE  /\ x.kind \in Kinded
             /\ x.kind = "REMOVED" => SomeRemoves(change[c].delta, r)
             /\ x.kind = "ADDED" => SomeAdds(change[c].delta, r)
             /\ x.kind = "MODIFIED" => SomeModifies(change[c].delta, r)
  <2>1. x.req = r /\ x.kind \in Kinded
    BY AboutIsOK DEF AboutOK
  <2>2. PICK i \in DOMAIN change[c].delta.ops : x \in Parsed(c, i)
    BY <1>2, AboutIsOK DEF AboutOK
  <2>3. QED
    BY <1>1, <2>1, <2>2 DEF ParsedOK, SomeRemoves, SomeAdds, SomeModifies
<1>3. ASSUME NEW i \in DOMAIN change[c].delta.ops, NEW x \in Parsed(c, i), x.req = r
      PROVE  x \in About(r) /\ x.of = c
  <2>1. c \in At("archived")
    BY DEF At
  <2>2. QED
    BY <1>1, <1>3, <2>1, AboutIs DEF ParsedOK
<1>4. \A k : k \in Kinds(r, c) <=> \E x \in About(r) : x.of = c /\ x.kind = k
  BY DEF Kinds
<1>5. ASSUME SomeRemoves(change[c].delta, r) PROVE "REMOVED" \in Kinds(r, c)
  <2>1. PICK i \in DOMAIN change[c].delta.ops : Removes(change[c].delta.ops[i], r)
    BY <1>5 DEF SomeRemoves
  <2>2. PICK x \in Parsed(c, i) : x.kind = "REMOVED" /\ x.req = r
    BY <1>1, <2>1 DEF ParsedOK
  <2>3. QED
    BY <1>3, <1>4, <2>2
<1>6. ASSUME SomeAdds(change[c].delta, r) PROVE "ADDED" \in Kinds(r, c)
  <2>1. PICK i \in DOMAIN change[c].delta.ops : Adds(change[c].delta.ops[i], r)
    BY <1>6 DEF SomeAdds
  <2>2. PICK x \in Parsed(c, i) : x.kind = "ADDED" /\ x.req = r
    BY <1>1, <2>1 DEF ParsedOK
  <2>3. QED
    BY <1>3, <1>4, <2>2
<1>7. ASSUME SomeModifies(change[c].delta, r) PROVE "MODIFIED" \in Kinds(r, c)
  <2>1. PICK i \in DOMAIN change[c].delta.ops : Modifies(change[c].delta.ops[i], r)
    BY <1>7 DEF SomeModifies
  <2>2. PICK x \in Parsed(c, i) : x.kind = "MODIFIED" /\ x.req = r
    BY <1>1, <2>1 DEF ParsedOK
  <2>3. QED
    BY <1>3, <1>4, <2>2
<1>8. QED
  BY <1>2, <1>4, <1>5, <1>6, <1>7

(* Places in one delta: equal for one operation only, and ordered as its     *)
(* text is.                                                                  *)
LEMMA PlacesOf ==
  ASSUME SourcesTypeOK, NEW r \in Req, NEW x \in About(r), NEW y \in About(r), x.of = y.of
  PROVE  /\ x.pos = y.pos => x = y
         /\ (y.pos < x.pos /\ y.kind = "MODIFIED" /\ x.kind = "ADDED" /\
             InText(change[x.of].delta, r)) => SomeRemoves(change[x.of].delta, r)
<1> DEFINE c == x.of
           ops == change[c].delta.ops
<1>1. c \in Change /\ x.req = r /\ y.req = r
  BY AboutIsOK DEF AboutOK
<1>2. PICK i \in DOMAIN ops : x \in Parsed(c, i)
  BY AboutIsOK DEF AboutOK
<1>3. PICK k \in DOMAIN ops : y \in Parsed(c, k)
  BY AboutIsOK DEF AboutOK
<1>4. i \in Nat /\ ParsedOK(c, i, ops[i]) /\ k \in Nat /\ ParsedOK(c, k, ops[k])
  BY <1>1, ParsedIsOK
<1>5. /\ x.pos = 2 * i \/ x.pos = 2 * i + 1
      /\ y.pos = 2 * k \/ y.pos = 2 * k + 1
  BY <1>2, <1>3, <1>4 DEF ParsedOK
<1>6. x.pos = y.pos => x = y
  <2>1. x.pos = y.pos => i = k
    BY <1>4, <1>5
  <2>2. QED
    BY <1>2, <1>3, <1>4, <2>1 DEF ParsedOK
<1>7. ASSUME y.pos < x.pos, y.kind = "MODIFIED", x.kind = "ADDED", InText(change[c].delta, r)
      PROVE  SomeRemoves(change[c].delta, r)
  <2>1. k <= i
    BY <1>4, <1>5, <1>7
  <2>2. k # i
    BY <1>2, <1>3, <1>4, <1>7 DEF ParsedOK
  <2>3. k < i
    BY <1>4, <2>1, <2>2
  <2>4. Modifies(ops[k], r) /\ Adds(ops[i], r)
    BY <1>1, <1>2, <1>3, <1>4, <1>7 DEF ParsedOK
  <2>5. QED
    BY <1>7, <2>3, <2>4 DEF InText
<1>8. QED
  BY <1>6, <1>7

-----------------------------------------------------------------------------
(* The fold.                                                                 *)
LEMMA RankOf ==
  ASSUME Filed, NEW c \in Change, change[c].at = "archived"
  PROVE  Rank(c) \in DOMAIN history /\ history[Rank(c)] = c
BY DEF Filed, Rank

LEMMA DelayedIs ==
  ASSUME NEW r, NEW x
  PROVE  /\ Delayed(r, x) \in {0, 1}
         /\ Delayed(r, x) = 1 <=>
              Group(r, x.of) = {"ADDED", "MODIFIED"} /\ x.kind # "ADDED"
BY DEF Delayed

LEMMA SortKeyIs ==
  ASSUME NEW r, NEW x, NEW y
  PROVE  Before(SortKey(r, y), SortKey(r, x)) <=>
           \/ change[y.of].archived < change[x.of].archived
           \/ /\ change[y.of].archived = change[x.of].archived
              /\ change[y.of].created < change[x.of].created
           \/ /\ SameDates(y.of, x.of)
              /\ \/ Delayed(r, y) < Delayed(r, x)
                 \/ /\ Delayed(r, y) = Delayed(r, x)
                    /\ \/ y.of < x.of
                       \/ y.of = x.of /\ y.pos < x.pos
<1>1. Before(SortKey(r, y), SortKey(r, x)) <=>
        \/ change[y.of].archived < change[x.of].archived
        \/ /\ change[y.of].archived = change[x.of].archived
           /\ change[y.of].created < change[x.of].created
        \/ /\ change[y.of].archived = change[x.of].archived
           /\ change[y.of].created = change[x.of].created
           /\ Delayed(r, y) < Delayed(r, x)
        \/ /\ change[y.of].archived = change[x.of].archived
           /\ change[y.of].created = change[x.of].created
           /\ Delayed(r, y) = Delayed(r, x)
           /\ y.of < x.of
        \/ /\ change[y.of].archived = change[x.of].archived
           /\ change[y.of].created = change[x.of].created
           /\ Delayed(r, y) = Delayed(r, x)
           /\ y.of = x.of /\ y.pos < x.pos
  BY BeforeFive DEF SortKey
<1>2. QED
  BY <1>1, Zenon DEF SameDates

(* Operations of changes with the same dates are in one group.               *)
LEMMA GroupIs ==
  ASSUME NEW r, NEW c, NEW d, SameDates(c, d)
  PROVE  Group(r, c) = Group(r, d) /\ Kinds(r, c) \subseteq Group(r, d)
                     /\ Kinds(r, d) \subseteq Group(r, c)
BY DEF Group, Kinds, SameDates

LEMMA ToldDates ==
  ASSUME NEW r, NEW c, NEW d, Told(r, c, d)
  PROVE  \/ change[c].archived < change[d].archived
         \/ change[c].archived = change[d].archived /\ change[c].created < change[d].created
         \/ SameDates(c, d) /\ (Mixed(r, c, d) \/ c < d)
<1>1. CASE Before(<<change[c].archived, change[c].created, c>>,
                  <<change[d].archived, change[d].created, d>>)
  BY <1>1, BeforeThree DEF SameDates
<1>2. CASE Mixed(r, c, d)
  BY <1>2 DEF Mixed
<1>3. QED
  BY <1>1, <1>2 DEF Told

(* A change told between two of the same dates has those dates as well.      *)
LEMMA ToldBetween ==
  ASSUME SourcesTypeOK, NEW r, NEW c \in Change, NEW e \in Change, NEW d \in Change,
         Told(r, c, e), Told(r, e, d), SameDates(c, d)
  PROVE  SameDates(c, e)
<1>1. /\ change[c].archived \in Nat /\ change[c].created \in Nat
      /\ change[e].archived \in Nat /\ change[e].created \in Nat
      /\ change[d].archived \in Nat /\ change[d].created \in Nat
  BY ChangeTypes
<1>2. /\ change[c].archived < change[e].archived \/
           (change[c].archived = change[e].archived /\ change[c].created <= change[e].created)
      /\ change[e].archived < change[d].archived \/
           (change[e].archived = change[d].archived /\ change[e].created <= change[d].created)
  BY <1>1, ToldDates DEF SameDates
<1>3. QED
  BY <1>1, <1>2 DEF SameDates

(* Where a modification came before an addition on the same dates, something *)
(* removed the requirement on those dates: the additions are not original.   *)
LEMMA NotOriginal ==
  ASSUME HistoryInv, NEW r \in Req, OrderTold(r),
         NEW i \in DOMAIN history, NEW k \in DOMAIN history, i < k,
         SameDates(history[i], history[k]),
         ~AddsAgain(r, history[i], history[k]),
         "MODIFIED" \in Kinds(r, history[i]), "ADDED" \in Kinds(r, history[k])
  PROVE  Group(r, history[i]) # {"ADDED", "MODIFIED"}
<1> DEFINE c == history[i]
           d == history[k]
<1>1. SUFFICES ASSUME Group(r, c) = {"ADDED", "MODIFIED"} PROVE FALSE
  OBVIOUS
<1>2. /\ SourcesTypeOK /\ Filed /\ Between(r)
      /\ \A j \in DOMAIN history : j \in Nat /\ history[j] \in Change
                                /\ change[history[j]].at = "archived"
  BY DEF HistoryInv, SourcesTypeOK, Filed
<1>3. Mixed(r, c, d) /\ Kinds(r, c) \subseteq {"ADDED", "MODIFIED"}
  BY <1>1, GroupIs DEF Mixed, SameDates
<1>4. Kinds(r, c) # {"ADDED", "MODIFIED"}
  BY <1>3 DEF AddsAgain
<1>5. "ADDED" \notin Kinds(r, c) /\ "REMOVED" \notin Kinds(r, c)
  BY <1>3, <1>4
<1>6. OnlyModifies(Carried(i), r) /\ SomeAdds(Carried(k), r)
  BY <1>2, <1>5, KindsOf DEF OnlyModifies, Carried
<1>7. PICK j \in DOMAIN history : i < j /\ j <= k /\ SomeRemoves(Carried(j), r)
  BY <1>2, <1>6 DEF Between
<1> DEFINE e == history[j]
<1>8. "REMOVED" \in Kinds(r, e)
  BY <1>2, <1>7, KindsOf DEF Carried
<1>9. SameDates(c, e)
  <2>1. CASE j = k
    BY <2>1
  <2>2. CASE j # k
    <3>1. j < k
      BY <1>2, <1>7, <2>2
    <3>2. Told(r, c, e) /\ Told(r, e, d)
      BY <1>7, <1>8, <3>1 DEF OrderTold
    <3>3. QED
      BY <1>2, <3>2, ToldBetween
  <2>3. QED
    BY <2>1, <2>2
<1>10. "REMOVED" \in Group(r, c)
  BY <1>8, <1>9, GroupIs
<1>11. QED
  BY <1>1, <1>10

(* What was said later is sorted later.                                      *)
LaterSaid(y, x) == Before(<<Rank(y.of), y.pos>>, <<Rank(x.of), x.pos>>)

LEMMA SaidLaterSortedLater ==
  ASSUME HistoryInv, NEW r \in Req, OrderTold(r),
         NEW x \in About(r), NEW y \in About(r), LaterSaid(y, x)
  PROVE  Before(SortKey(r, y), SortKey(r, x))
<1> DEFINE c == y.of
           d == x.of
<1>1. /\ SourcesTypeOK /\ Filed
      /\ AboutOK(r, x) /\ AboutOK(r, y)
  BY AboutIsOK DEF HistoryInv
<1>2. /\ c \in Change /\ change[c].at = "archived" /\ d \in Change /\ change[d].at = "archived"
      /\ y.pos \in Nat /\ x.pos \in Nat /\ x.kind \in Kinded /\ y.kind \in Kinded
      /\ y.kind \in Kinds(r, c) /\ x.kind \in Kinds(r, d)
  BY <1>1 DEF AboutOK, Kinds
<1>3. /\ Rank(c) \in DOMAIN history /\ history[Rank(c)] = c
      /\ Rank(d) \in DOMAIN history /\ history[Rank(d)] = d
  BY <1>1, <1>2, RankOf
<1>4. Rank(c) < Rank(d) \/ (Rank(c) = Rank(d) /\ y.pos < x.pos)
  BY BeforeTwo DEF LaterSaid
<1>5. Delayed(r, y) \in {0, 1} /\ Delayed(r, x) \in {0, 1}
  BY DelayedIs
<1>6. CASE Rank(c) = Rank(d) /\ y.pos < x.pos
  <2>1. c = d
    BY <1>3, <1>6
  <2>2. ~(Delayed(r, y) = 1 /\ Delayed(r, x) = 0)
    <3>1. SUFFICES ASSUME Delayed(r, y) = 1, Delayed(r, x) = 0 PROVE FALSE
      OBVIOUS
    <3>2. Group(r, c) = {"ADDED", "MODIFIED"} /\ y.kind # "ADDED" /\ x.kind = "ADDED"
      BY <2>1, <3>1, DelayedIs
    <3>3. SameDates(c, c)
      BY DEF SameDates
    <3>4. y.kind = "MODIFIED"
      BY <1>2, <3>2, <3>3, GroupIs
    <3>5. InText(change[d].delta, r)
      BY <1>3 DEF HistoryInv, Texts, Carried
    <3>6. SomeRemoves(change[d].delta, r)
      BY <1>1, <1>6, <2>1, <3>2, <3>4, <3>5, PlacesOf
    <3>7. "REMOVED" \in Kinds(r, c)
      BY <1>1, <1>2, <2>1, <3>6, KindsOf
    <3>8. QED
      BY <3>2, <3>3, <3>7, GroupIs
  <2>3. Delayed(r, y) < Delayed(r, x) \/ Delayed(r, y) = Delayed(r, x)
    BY <1>5, <2>2
  <2>4. SameDates(c, d)
    BY <2>1 DEF SameDates
  <2>5. QED
    BY <1>6, <2>1, <2>3, <2>4, SortKeyIs
<1>7. CASE Rank(c) < Rank(d)
  <2>1. Told(r, c, d)
    BY <1>2, <1>3, <1>7 DEF OrderTold
  <2>2. CASE Mixed(r, c, d) /\ Kinds(r, c) = {"ADDED"} /\ Kinds(r, d) = {"MODIFIED"}
    <3>1. SameDates(c, d) /\ Group(r, d) = {"ADDED", "MODIFIED"}
      BY <2>2, GroupIs DEF Mixed
    <3>2. y.kind = "ADDED" /\ x.kind # "ADDED"
      BY <1>2, <2>2
    <3>3. Delayed(r, y) = 0 /\ Delayed(r, x) = 1
      BY <1>5, <3>1, <3>2, DelayedIs
    <3>4. QED
      BY <3>1, <3>3, SortKeyIs
  <2>3. CASE /\ Before(<<change[c].archived, change[c].created, c>>,
                       <<change[d].archived, change[d].created, d>>)
             /\ ~AddsAgain(r, c, d)
    <3>1. \/ change[c].archived < change[d].archived
          \/ change[c].archived = change[d].archived /\ change[c].created < change[d].created
          \/ SameDates(c, d) /\ c < d
      BY <2>3, BeforeThree DEF SameDates
    <3>2. CASE SameDates(c, d) /\ c < d
      <4>1. ~(Delayed(r, y) = 1 /\ Delayed(r, x) = 0)
        <5>1. SUFFICES ASSUME Delayed(r, y) = 1, Delayed(r, x) = 0 PROVE FALSE
          OBVIOUS
        <5>2. Group(r, c) = {"ADDED", "MODIFIED"} /\ Group(r, d) = {"ADDED", "MODIFIED"}
          BY <3>2, <5>1, DelayedIs, GroupIs
        <5>3. y.kind # "ADDED" /\ x.kind = "ADDED"
          BY <5>1, <5>2, DelayedIs
        <5>4. y.kind = "MODIFIED"
          BY <1>2, <3>2, <5>2, <5>3, GroupIs
        <5>5. QED
          BY <1>2, <1>3, <1>7, <2>3, <3>2, <5>2, <5>3, <5>4, NotOriginal
      <4>2. Delayed(r, y) < Delayed(r, x) \/ Delayed(r, y) = Delayed(r, x)
        BY <1>5, <4>1
      <4>3. QED
        BY <3>2, <4>2, SortKeyIs
    <3>3. QED
      BY <3>1, <3>2, SortKeyIs
  <2>4. QED
    BY <2>1, <2>2, <2>3 DEF Told
<1>8. QED
  BY <1>4, <1>6, <1>7

(* Both orders are the same one, so they have the same last element.         *)
LEMMA SameOrder ==
  ASSUME HistoryInv, NEW r \in Req, OrderTold(r),
         NEW x \in About(r), NEW y \in About(r), x # y
  PROVE  Before(SortKey(r, y), SortKey(r, x)) <=> LaterSaid(y, x)
<1>1. /\ SourcesTypeOK /\ Filed
      /\ AboutOK(r, x) /\ AboutOK(r, y)
  BY AboutIsOK DEF HistoryInv
<1>2. /\ x.of \in Change /\ change[x.of].at = "archived"
      /\ y.of \in Change /\ change[y.of].at = "archived"
      /\ y.pos \in Nat /\ x.pos \in Nat
  BY <1>1 DEF AboutOK
<1>3. /\ Rank(x.of) \in Nat /\ history[Rank(x.of)] = x.of
      /\ Rank(y.of) \in Nat /\ history[Rank(y.of)] = y.of
  BY <1>1, <1>2, RankOf DEF SourcesTypeOK
<1>4. LaterSaid(y, x) \/ LaterSaid(x, y)
  <2>1. Rank(x.of) = Rank(y.of) => y.pos # x.pos
    BY <1>1, <1>3, PlacesOf
  <2>2. QED
    BY <1>2, <1>3, <2>1, BeforeTwo DEF LaterSaid
<1>5. ~(Before(SortKey(r, y), SortKey(r, x)) /\ Before(SortKey(r, x), SortKey(r, y)))
  <2>1. /\ change[x.of].archived \in Nat /\ change[x.of].created \in Nat /\ x.of \in Nat
        /\ change[y.of].archived \in Nat /\ change[y.of].created \in Nat /\ y.of \in Nat
    BY <1>1, <1>2, ChangeTypes
  <2>2. Delayed(r, y) \in {0, 1} /\ Delayed(r, x) \in {0, 1}
    BY DelayedIs
  <2>3. QED
    BY <1>2, <2>1, <2>2, SortKeyIs DEF SameDates
<1>6. QED
  BY <1>4, <1>5, SaidLaterSortedLater

LEMMA FoldIsLastWord == HistoryInv => FoldFollowsHistory
<1> SUFFICES ASSUME HistoryInv, NEW r \in Req, OrderTold(r)
             PROVE  Latest(r) = LastWord(r)
  BY DEF FoldFollowsHistory
<1> DEFINE LastSorted(x) ==
             \A y \in About(r) \ {x} : Before(SortKey(r, y), SortKey(r, x))
           LastSaid(x) == \A y \in About(r) \ {x} : LaterSaid(y, x)
<1>1. \A x \in About(r) : LastSorted(x) <=> LastSaid(x)
  BY SameOrder
<1>2. Latest(r) = CHOOSE x \in About(r) : LastSorted(x)
  BY DEF Latest
<1>3. LastWord(r) = CHOOSE x \in About(r) : LastSaid(x)
  BY DEF LastWord, LaterSaid
<1> HIDE DEF LastSorted, LastSaid
<1>4. (CHOOSE x \in About(r) : LastSorted(x)) = (CHOOSE x \in About(r) : LastSaid(x))
  BY <1>1
<1>5. QED
  BY <1>2, <1>3, <1>4

(* There is a last word: the highest rank, and in that change the last place. *)
LEMMA Largest ==
  ASSUME NEW S, S \subseteq Nat, S # {}, NEW n \in Nat, \A x \in S : x <= n
  PROVE  \E x \in S : \A y \in S : y <= x
<1> DEFINE T == {m \in Nat : \E x \in S : x + m = n}
<1>1. ASSUME NEW x \in S PROVE n - x \in T
  <2>1. x \in Nat /\ n - x \in Nat /\ x + (n - x) = n
    OBVIOUS
  <2>2. QED
    BY <2>1
<1>2. T \subseteq Nat /\ T # {}
  BY <1>1
<1>3. PICK m \in T : \A k \in T : m <= k
  BY <1>2, Smallest
<1>4. PICK x \in S : x + m = n
  BY <1>3
<1>5. \A y \in S : m <= n - y
  BY <1>1, <1>3
<1>6. \A y \in S : y <= x
  BY <1>2, <1>3, <1>4, <1>5
<1>7. QED
  BY <1>6

LEMMA LastIsThere ==
  ASSUME HistoryInv, NEW r \in Req, About(r) # {}
  PROVE  LastWord(r) \in About(r) /\ \A y \in About(r) \ {LastWord(r)} : LaterSaid(y, LastWord(r))
<1> DEFINE Ranks == {Rank(x.of) : x \in About(r)}
<1>1. /\ SourcesTypeOK /\ Filed
      /\ \A x \in About(r) : AboutOK(r, x)
  BY AboutIsOK DEF HistoryInv
<1>2. \A x \in About(r) : /\ x.of \in Change /\ x.pos \in Nat
                          /\ Rank(x.of) \in DOMAIN history /\ history[Rank(x.of)] = x.of
  BY <1>1, RankOf DEF AboutOK
<1>3. Len(history) \in Nat /\ DOMAIN history = 1..Len(history)
  BY <1>1 DEF SourcesTypeOK
<1>4. Ranks \subseteq Nat /\ Ranks # {} /\ \A n \in Ranks : n <= Len(history)
  BY <1>2, <1>3
<1> HIDE DEF Ranks
<1>5. PICK n \in Ranks : \A m \in Ranks : m <= n
  BY <1>3, <1>4, Largest
<1>6. PICK z \in About(r) : Rank(z.of) = n
  BY <1>5 DEF Ranks
<1>7. \A y \in About(r) : Rank(y.of) <= Rank(z.of)
  BY <1>5, <1>6 DEF Ranks
<1> DEFINE c == z.of
           Same == {x \in About(r) : x.of = c}
           Places == {x.pos : x \in Same}
           end == 2 * Len(change[c].delta.ops) + 1
<1>8. c \in Change /\ z \in Same /\ change[c].delta.ops \in Seq(Op)
  BY <1>1, <1>2, ChangeTypes
<1>9. Len(change[c].delta.ops) \in Nat /\ end \in Nat
  BY <1>8
<1>10. ASSUME NEW x \in Same PROVE x.pos \in Nat /\ x.pos <= end
  <2>1. x \in About(r) /\ x.of = c
    OBVIOUS
  <2>2. PICK i \in DOMAIN change[c].delta.ops : x \in Parsed(c, i)
    BY <1>1, <2>1 DEF AboutOK
  <2>3. i \in Nat /\ ParsedOK(c, i, change[c].delta.ops[i])
    BY <1>1, <1>8, ParsedIsOK
  <2>4. x.pos = 2 * i \/ x.pos = 2 * i + 1
    BY <2>2, <2>3 DEF ParsedOK
  <2>5. i <= Len(change[c].delta.ops)
    BY <1>8
  <2>6. QED
    BY <1>9, <2>3, <2>4, <2>5
<1> HIDE DEF end, Same
<1>11. Places \subseteq Nat /\ Places # {} /\ \A p \in Places : p <= end
  BY <1>8, <1>10
<1> HIDE DEF Places
<1>12. PICK p \in Places : \A q \in Places : q <= p
  BY <1>9, <1>11, Largest
<1>13. PICK x \in Same : x.pos = p
  BY <1>12 DEF Places
<1>14. x \in About(r) /\ x.of = c
  BY DEF Same
<1>15. ASSUME NEW y \in About(r) \ {x} PROVE LaterSaid(y, x)
  <2>1. Rank(y.of) \in Nat /\ Rank(x.of) \in Nat /\ Rank(y.of) <= Rank(x.of)
    BY <1>2, <1>3, <1>7, <1>14
  <2>2. CASE Rank(y.of) = Rank(x.of)
    <3>1. y.of = x.of
      BY <1>2, <1>14, <2>2
    <3>2. y \in Same
      BY <1>14, <3>1 DEF Same
    <3>3. y.pos <= x.pos
      BY <1>12, <1>13, <3>2 DEF Places
    <3>4. y.pos # x.pos
      BY <1>1, <1>14, <3>1, PlacesOf
    <3>5. y.pos \in Nat /\ x.pos \in Nat
      BY <1>2, <1>14
    <3>6. y.pos < x.pos
      BY <3>3, <3>4, <3>5
    <3>7. QED
      BY <2>2, <3>6, BeforeTwo DEF LaterSaid
  <2>3. CASE Rank(y.of) # Rank(x.of)
    <3>1. Rank(y.of) < Rank(x.of)
      BY <2>1, <2>3
    <3>2. QED
      BY <3>1, BeforeTwo DEF LaterSaid
  <2>4. QED
    BY <2>2, <2>3
<1> DEFINE IsLast(u) == \A y \in About(r) \ {u} : LaterSaid(y, u)
<1>16. LastWord(r) = CHOOSE u \in About(r) : IsLast(u)
  BY DEF LastWord, LaterSaid
<1>17. x \in About(r) /\ IsLast(x)
  BY <1>14, <1>15
<1> HIDE DEF IsLast
<1>18. LastWord(r) \in About(r) /\ IsLast(LastWord(r))
  BY <1>16, <1>17
<1>19. QED
  BY <1>18 DEF IsLast

-----------------------------------------------------------------------------
(* The docs and the run.                                                     *)
PageRec == [of : Change, group : Groups, created : Nat, archived : Nat]
PageState ==
  [is : {"page"}, page : PageRec, includes : SUBSET {"proposal", "design", "tasks", "specs"}]
DirState == {None, Unmarked} \cup PageState
TheirState == {"none", "apart", "shared"}
RunState ==
  [step : {"idle", "active", "archived", "pages", "config", "validate"},
   pages : Seq(PageRec), left : Seq(PageRec), at : Names, text : DirState,
   busy : BOOLEAN, ok : BOOLEAN]

DocsTypeOK ==
  /\ dirs \in [Groups -> [Names -> DirState]]
  /\ theirs \in [Groups -> [Names -> TheirState]]
  /\ index \in Seq(PageRec) /\ config \in Seq(PageRec)
  /\ run \in RunState
  /\ trouble \in [killed : Nat, own : Nat, moved : Nat, forced : Nat]

WikiTypeOK == SourcesTypeOK /\ DocsTypeOK

FewChanges == IsFiniteSet({c \in Change : change[c].at # "none"})

(* The names a page of group g may have, now and at any time later: changes  *)
(* only move on, and an archived one stays where it is.                      *)
Known(g) == IF g = "active" THEN {c \in Change : change[c].at # "none"} ELSE At("archived")

(* No page stands beside files that are apart, nor does a removal that has   *)
(* begun, which is one of an active page whose change was archived since.    *)
ApartOK == \A g \in Groups, n \in Names : theirs[g][n] = "apart" => dirs[g][n] = Unmarked
BusyOK ==
  /\ run.step \in Groups /\ run.busy =>
       run.step = "active" /\ run.at \in At("archived") /\ theirs["active"][run.at] # "apart"
  /\ run.step = "pages" /\ run.busy => run.left # <<>>

(* A page that stands is one of a change that has been in its group; a run   *)
(* has collected it, or the change has left the group before the run began.  *)
RunOK ==
  /\ \A i \in DOMAIN run.pages : run.pages[i].of \in Known(run.pages[i].group)
  /\ \A i \in DOMAIN run.left : \E k \in DOMAIN run.pages : run.left[i] = run.pages[k]
Collected(g, n) == n \in Expected(run.pages, g) \/ (g = "active" /\ n \in At("archived"))
PlacesOK ==
  \A g \in Groups, n \in Names : dirs[g][n].is = "page" =>
    n \in Known(g) /\ (run.step # "idle" => Collected(g, n))

DocsInv == DocsTypeOK /\ ApartOK /\ BusyOK /\ RunOK /\ PlacesOK
WikiInv == HistoryInv /\ FewChanges /\ DocsInv

-----------------------------------------------------------------------------
(* Listed: in a finite set under a strict total order every rank is taken,   *)
(* by one member, so that the list is one of all members.                    *)
Below(t, T, L) == {d \in T : <<d, t>> \in L}

StrictOrder(T, L) ==
  /\ \A a \in T : <<a, a>> \notin L
  /\ \A a, b, c \in T : <<a, b>> \in L /\ <<b, c>> \in L => <<a, c>> \in L
  /\ \A a, b \in T : a = b \/ <<a, b>> \in L \/ <<b, a>> \in L

Ranked(T, L) ==
  /\ \A t \in T : Cardinality(Below(t, T, L)) \in 0..(Cardinality(T) - 1)
  /\ \A a, b \in T : Cardinality(Below(a, T, L)) = Cardinality(Below(b, T, L)) => a = b
  /\ \A n \in 1..Cardinality(T) : \E t \in T : Cardinality(Below(t, T, L)) = n - 1

LEMMA EveryRank ==
  ASSUME NEW T, IsFiniteSet(T), NEW L, StrictOrder(T, L)
  PROVE  Ranked(T, L)
<1> DEFINE f == [t \in T |-> Cardinality(Below(t, T, L))]
           N == 0..(Cardinality(T) - 1)
<1>1. Cardinality(T) \in Nat
  BY FS_CardinalityType
<1>2. ASSUME NEW t \in T
      PROVE  /\ IsFiniteSet(Below(t, T, L)) /\ Cardinality(Below(t, T, L)) \in N
             /\ \A d \in Below(t, T, L) : Cardinality(Below(d, T, L)) < Cardinality(Below(t, T, L))
  <2>1. Below(t, T, L) \in SUBSET T /\ t \notin Below(t, T, L)
    BY DEF Below, StrictOrder
  <2>2. /\ IsFiniteSet(Below(t, T, L)) /\ Cardinality(Below(t, T, L)) <= Cardinality(T)
        /\ Cardinality(T) # Cardinality(Below(t, T, L))
    BY <2>1, FS_Subset
  <2>3. Cardinality(Below(t, T, L)) \in Nat
    BY <2>2, FS_CardinalityType
  <2>4. ASSUME NEW d \in Below(t, T, L)
        PROVE  Cardinality(Below(d, T, L)) < Cardinality(Below(t, T, L))
    <3>1. /\ Below(d, T, L) \in SUBSET Below(t, T, L)
          /\ d \in Below(t, T, L) /\ d \notin Below(d, T, L)
      BY DEF Below, StrictOrder
    <3>2. /\ IsFiniteSet(Below(d, T, L))
          /\ Cardinality(Below(d, T, L)) <= Cardinality(Below(t, T, L))
          /\ Cardinality(Below(d, T, L)) # Cardinality(Below(t, T, L))
      BY <2>2, <3>1, FS_Subset
    <3>3. Cardinality(Below(d, T, L)) \in Nat
      BY <3>2, FS_CardinalityType
    <3>4. QED
      BY <2>3, <3>2, <3>3
  <2>5. QED
    BY <1>1, <2>2, <2>3, <2>4
<1>3. f \in Injection(T, N)
  <2>1. ASSUME NEW a \in T, NEW b \in T, f[a] = f[b] PROVE a = b
    <3>1. a = b \/ a \in Below(b, T, L) \/ b \in Below(a, T, L)
      BY DEF Below, StrictOrder
    <3>2. Cardinality(Below(a, T, L)) = Cardinality(Below(b, T, L))
      BY <2>1
    <3>3. Cardinality(Below(a, T, L)) \in Int /\ Cardinality(Below(b, T, L)) \in Int
      BY <1>2
    <3>4. QED
      BY <1>2, <3>1, <3>2, <3>3
  <2>2. f \in [T -> N]
    BY <1>2
  <2> HIDE DEF f
  <2>3. QED
    BY <2>1, <2>2 DEF Injection, IsInjective
<1>4. IsFiniteSet(N) /\ Cardinality(N) = Cardinality(T)
  <2>1. 0 \in Int /\ Cardinality(T) - 1 \in Int
    BY <1>1
  <2>2. QED
    BY <1>1, <2>1, FS_Interval
<1>5. f \in Surjection(T, N)
  BY <1>3, <1>4, FS_Injection
<1>6. ASSUME NEW n \in 1..Cardinality(T)
      PROVE  \E t \in T : Cardinality(Below(t, T, L)) = n - 1
  <2>1. n - 1 \in N
    BY <1>1
  <2>2. QED
    BY <1>5, <2>1 DEF Surjection
<1>7. \A t \in T : f[t] = Cardinality(Below(t, T, L))
  OBVIOUS
<1> HIDE DEF f
<1>8. \A a, b \in T : f[a] = f[b] => a = b
  BY <1>3 DEF Injection, IsInjective
<1>9. \A t \in T : Cardinality(Below(t, T, L)) \in N
  BY <1>2
<1>10. QED
  BY <1>6, <1>7, <1>8, <1>9 DEF Ranked

Lists(s, T) == s \in Seq(T) /\ \A t \in T : \E k \in DOMAIN s : s[k] = t

LEMMA RankedList ==
  ASSUME NEW T, IsFiniteSet(T), NEW L, Ranked(T, L), NEW s,
         s = [k \in 1..Cardinality(T) |-> s[k]],
         \A k \in 1..Cardinality(T) : s[k] \in T /\ Cardinality(Below(s[k], T, L)) = k - 1
  PROVE  Lists(s, T)
<1>1. Cardinality(T) \in Nat
  BY FS_CardinalityType
<1>2. s \in [1..Cardinality(T) -> T]
  OBVIOUS
<1>3. s \in Seq(T) /\ DOMAIN s = 1..Cardinality(T)
  BY <1>1, <1>2
<1>4. ASSUME NEW t \in T PROVE \E k \in DOMAIN s : s[k] = t
  <2> DEFINE r == Cardinality(Below(t, T, L))
  <2>1. r \in 0..(Cardinality(T) - 1)
    BY DEF Ranked
  <2> HIDE DEF r
  <2>2. r + 1 \in 1..Cardinality(T) /\ (r + 1) - 1 = r
    BY <1>1, <2>1
  <2>3. s[r + 1] \in T /\ Cardinality(Below(s[r + 1], T, L)) = r
    BY <2>2
  <2>4. s[r + 1] = t
    BY <2>3 DEF Ranked, r
  <2>5. QED
    BY <1>3, <2>2, <2>4
<1>5. QED
  BY <1>3, <1>4 DEF Lists

(* The pages that are collected.                                             *)
PagesAt(g) == {Page(c) : c \in At(g)}

LEMMA PagesAtIs ==
  ASSUME SourcesTypeOK, FewChanges, NEW g \in Groups
  PROVE  /\ PagesAt(g) \subseteq PageRec /\ IsFiniteSet(PagesAt(g))
         /\ \A p, q \in PagesAt(g) : p.of = q.of => p = q
<1> DEFINE f == [c \in At(g) |-> Page(c)]
<1>1. ASSUME NEW c \in At(g) PROVE Page(c) \in PageRec /\ Page(c).of = c
  <2>1. c \in Change /\ change[c].at = g
    BY DEF At
  <2>2. QED
    BY <2>1, ChangeTypes DEF Page, PageRec
<1>2. IsFiniteSet(At(g))
  <2>1. At(g) \in SUBSET {c \in Change : change[c].at # "none"}
    BY DEF At, Groups
  <2>2. QED
    BY <2>1, FS_Subset DEF FewChanges
<1>3. f \in Surjection(At(g), PagesAt(g))
  BY DEF PagesAt, Surjection
<1>4. IsFiniteSet(PagesAt(g))
  BY <1>2, <1>3, FS_Surjection
<1>5. QED
  BY <1>1, <1>4 DEF PagesAt

(* The collected pages are those of the active and of the archived changes.  *)
PagesOK ==
  /\ Pages \in Seq(PageRec)
  /\ \A i \in DOMAIN Pages : Pages[i] \in PagesAt("active") \cup PagesAt("archived")
  /\ \A p \in PagesAt("active") \cup PagesAt("archived") : \E i \in DOMAIN Pages : Pages[i] = p

LEMMA PagesAre ==
  ASSUME SourcesTypeOK, FewChanges
  PROVE  PagesOK
<1> DEFINE A == PagesAt("active")
           Z == PagesAt("archived")
           a == [k \in 1..Cardinality(A) |->
                   CHOOSE p \in A : Cardinality({q \in A : ByName(q, p)}) = k - 1]
           z == [k \in 1..Cardinality(Z) |->
                   CHOOSE p \in Z : Cardinality({q \in Z : LatestFirst(q, p)}) = k - 1]
<1>1. /\ A \subseteq PageRec /\ IsFiniteSet(A) /\ \A p, q \in A : p.of = q.of => p = q
      /\ Z \subseteq PageRec /\ IsFiniteSet(Z) /\ \A p, q \in Z : p.of = q.of => p = q
  BY PagesAtIs DEF Groups
<1>2. Pages = a \o z
  BY DEF Pages, Listed, PagesAt
<1>3. \A p \in PageRec : p.of \in Nat /\ p.archived \in Nat
  BY SourcesAssumption DEF PageRec
<1> HIDE DEF A, Z
<1>4. Lists(a, A)
  <2> DEFINE L == {x \in A \X A : ByName(x[1], x[2])}
  <2>1. \A p, q \in A : <<p, q>> \in L <=> p.of < q.of
    BY DEF ByName
  <2>2. StrictOrder(A, L)
    <3>1. \A p, q \in A : p.of \in Nat /\ q.of \in Nat
      BY <1>1, <1>3
    <3> HIDE DEF L
    <3>2. QED
      BY <1>1, <2>1, <3>1 DEF StrictOrder
  <2>3. \A p \in A : {q \in A : ByName(q, p)} = Below(p, A, L)
    BY DEF Below
  <2> HIDE DEF L
  <2>4. Ranked(A, L)
    BY <1>1, <2>2, EveryRank
  <2>5. ASSUME NEW k \in 1..Cardinality(A)
        PROVE  a[k] \in A /\ Cardinality(Below(a[k], A, L)) = k - 1
    <3>1. PICK p \in A : Cardinality(Below(p, A, L)) = k - 1
      BY <2>4 DEF Ranked
    <3>2. Cardinality({q \in A : ByName(q, p)}) = k - 1
      BY <2>3, <3>1
    <3> DEFINE y == CHOOSE x \in A : Cardinality({q \in A : ByName(q, x)}) = k - 1
    <3>3. y \in A /\ Cardinality({q \in A : ByName(q, y)}) = k - 1
      BY <3>2
    <3>4. a[k] = y
      OBVIOUS
    <3> HIDE DEF y, a
    <3>5. QED
      BY <2>3, <3>3, <3>4
  <2>6. a = [k \in 1..Cardinality(A) |-> a[k]]
    OBVIOUS
  <2> HIDE DEF a
  <2>7. QED
    BY <1>1, <2>4, <2>5, <2>6, RankedList
<1>5. Lists(z, Z)
  <2> DEFINE L == {x \in Z \X Z : LatestFirst(x[1], x[2])}
  <2>1. \A p, q \in Z : <<p, q>> \in L <=>
           q.archived < p.archived \/ (q.archived = p.archived /\ q.of < p.of)
    BY BeforeTwo DEF LatestFirst
  <2>2. StrictOrder(Z, L)
    <3>1. \A p \in Z : p.of \in Nat /\ p.archived \in Nat
      BY <1>1, <1>3
    <3> HIDE DEF L
    <3>2. QED
      BY <1>1, <2>1, <3>1 DEF StrictOrder
  <2>3. \A p \in Z : {q \in Z : LatestFirst(q, p)} = Below(p, Z, L)
    BY DEF Below
  <2> HIDE DEF L
  <2>4. Ranked(Z, L)
    BY <1>1, <2>2, EveryRank
  <2>5. ASSUME NEW k \in 1..Cardinality(Z)
        PROVE  z[k] \in Z /\ Cardinality(Below(z[k], Z, L)) = k - 1
    <3>1. PICK p \in Z : Cardinality(Below(p, Z, L)) = k - 1
      BY <2>4 DEF Ranked
    <3>2. Cardinality({q \in Z : LatestFirst(q, p)}) = k - 1
      BY <2>3, <3>1
    <3> DEFINE y == CHOOSE x \in Z : Cardinality({q \in Z : LatestFirst(q, x)}) = k - 1
    <3>3. y \in Z /\ Cardinality({q \in Z : LatestFirst(q, y)}) = k - 1
      BY <3>2
    <3>4. z[k] = y
      OBVIOUS
    <3> HIDE DEF y, z
    <3>5. QED
      BY <2>3, <3>3, <3>4
  <2>6. z = [k \in 1..Cardinality(Z) |-> z[k]]
    OBVIOUS
  <2> HIDE DEF z
  <2>7. QED
    BY <1>1, <2>4, <2>5, <2>6, RankedList
<1> HIDE DEF a, z
<1>6. /\ a \in Seq(PageRec) /\ a \in Seq(A) /\ \A t \in A : \E k \in DOMAIN a : a[k] = t
      /\ z \in Seq(PageRec) /\ z \in Seq(Z) /\ \A t \in Z : \E k \in DOMAIN z : z[k] = t
  BY <1>1, <1>4, <1>5 DEF Lists
<1>7. /\ Pages \in Seq(PageRec) /\ DOMAIN Pages = 1..(Len(a) + Len(z))
      /\ \A i \in DOMAIN a : i \in DOMAIN Pages /\ Pages[i] = a[i]
      /\ \A i \in DOMAIN z : Len(a) + i \in DOMAIN Pages /\ Pages[Len(a) + i] = z[i]
  BY <1>2, <1>6
<1>8. ASSUME NEW i \in DOMAIN Pages PROVE Pages[i] \in A \cup Z
  BY <1>2, <1>6
<1>9. ASSUME NEW p \in A \cup Z PROVE \E i \in DOMAIN Pages : Pages[i] = p
  <2>1. CASE p \in A
    BY <1>6, <1>7, <2>1
  <2>2. CASE p \in Z
    BY <1>6, <1>7, <2>2
  <2>3. QED
    BY <2>1, <2>2
<1>10. QED
  BY <1>7, <1>8, <1>9 DEF PagesOK, A, Z

(* So a run collects every change that is in either place when it starts.    *)
LEMMA StartCollects ==
  ASSUME SourcesTypeOK, FewChanges
  PROVE  /\ Pages \in Seq(PageRec)
         /\ \A i \in DOMAIN Pages : Pages[i].of \in Known(Pages[i].group)
         /\ \A g \in Groups : At(g) \subseteq Expected(Pages, g)
<1>1. PagesOK
  BY PagesAre
<1>2. ASSUME NEW i \in DOMAIN Pages PROVE Pages[i].of \in Known(Pages[i].group)
  <2>1. PICK g \in Groups : Pages[i] \in PagesAt(g)
    BY <1>1 DEF PagesOK, Groups
  <2>2. PICK c \in At(g) : Pages[i] = Page(c)
    BY <2>1 DEF PagesAt
  <2>3. Pages[i].of = c /\ Pages[i].group = g /\ c \in Change /\ change[c].at = g
    BY <2>2 DEF Page, At
  <2>4. QED
    BY <2>3 DEF Known, Groups, At
<1>3. ASSUME NEW g \in Groups, NEW c \in At(g) PROVE c \in Expected(Pages, g)
  <2>1. Page(c) \in PagesAt("active") \cup PagesAt("archived")
    BY DEF PagesAt, Groups
  <2>2. PICK i \in DOMAIN Pages : Pages[i] = Page(c)
    BY <1>1, <2>1 DEF PagesOK
  <2>3. Pages[i].of = c /\ Pages[i].group = g
    BY <2>2 DEF Page, At
  <2>4. QED
    BY <2>3 DEF Expected
<1>4. QED
  BY <1>1, <1>2, <1>3 DEF PagesOK

-----------------------------------------------------------------------------
(* What a step may do to the files of people.                                *)
KeepStep ==
  \A g \in Groups : \A n \in Names :
    theirs[g][n] # "none" /\ theirs'[g][n] = "none" =>
      theirs[g][n] = "shared" /\ g = "active" /\ n \in At("archived")

DocsGood == DocsInv' /\ KeepStep

LEMMA DirsPut ==
  ASSUME DocsTypeOK, NEW g \in Groups, NEW n \in Names, NEW v \in DirState,
         dirs' = [dirs EXCEPT ![g][n] = v]
  PROVE  /\ dirs' \in [Groups -> [Names -> DirState]]
         /\ \A h \in Groups, m \in Names :
              dirs'[h][m] = IF h = g /\ m = n THEN v ELSE dirs[h][m]
BY DEF DocsTypeOK

LEMMA TheirsPut ==
  ASSUME DocsTypeOK, NEW g \in Groups, NEW n \in Names, NEW w \in TheirState,
         theirs' = [theirs EXCEPT ![g][n] = w]
  PROVE  /\ theirs' \in [Groups -> [Names -> TheirState]]
         /\ \A h \in Groups, m \in Names :
              theirs'[h][m] = IF h = g /\ m = n THEN w ELSE theirs[h][m]
BY DEF DocsTypeOK

LEMMA DirKinds ==
  /\ None \in DirState /\ None.is # "page"
  /\ Unmarked \in DirState /\ Unmarked.is # "page" /\ Unmarked # None
  /\ \A v \in PageState : v.is = "page" /\ v # None /\ v # Unmarked
  /\ \A v \in DirState : v.is = "page" => v # Unmarked
<1>1. None.is = "none" /\ Unmarked.is = "unmarked"
  BY DEF None, Unmarked
<1>2. \A v \in PageState : v.is = "page"
  BY DEF PageState
<1>3. QED
  BY <1>1, <1>2 DEF DirState

LEMMA IdleType ==
  ASSUME NEW ok \in BOOLEAN
  PROVE  /\ Idle(ok) \in RunState /\ Idle(ok).busy = FALSE /\ Idle(ok).step = "idle"
         /\ Idle(ok).pages = <<>> /\ Idle(ok).left = <<>>
<1>1. <<>> \in Seq(PageRec) /\ Other \in Names /\ None \in DirState
  BY DEF Names, DirState
<1>2. QED
  BY <1>1 DEF Idle, RunState

LEMMA TroubleType ==
  ASSUME DocsTypeOK, NEW what \in {"killed", "own", "moved", "forced"}, Trouble(what)
  PROVE  trouble' \in [killed : Nat, own : Nat, moved : Nat, forced : Nat]
<1>1. /\ trouble \in [killed : Nat, own : Nat, moved : Nat, forced : Nat]
      /\ trouble' = [trouble EXCEPT ![what] = @ + 1]
  BY DEF DocsTypeOK, Trouble
<1>2. CASE what = "killed"
  BY <1>1, <1>2
<1>3. CASE what = "own"
  BY <1>1, <1>3
<1>4. CASE what = "moved"
  BY <1>1, <1>4
<1>5. CASE what = "forced"
  BY <1>1, <1>5
<1>6. QED
  BY <1>2, <1>3, <1>4, <1>5

(* What the rest of a step keeps, when it leaves the directories alone.      *)
RestOK ==
  /\ index' \in Seq(PageRec) /\ config' \in Seq(PageRec)
  /\ trouble' \in [killed : Nat, own : Nat, moved : Nat, forced : Nat]
  /\ run' \in RunState

(* A run that goes on with the pages it has.                                 *)
SameRun == run'.pages = run.pages /\ run'.left = run.left /\ run.step # "idle"

(* A run that is over.                                                       *)
RunEnds == run'.step = "idle" /\ run'.pages = <<>> /\ run'.left = <<>> /\ ~run'.busy

LEMMA RunStays ==
  ASSUME DocsInv, UNCHANGED change, run'.pages = run.pages,
         \A i \in DOMAIN run'.left : \E k \in DOMAIN run.pages : run'.left[i] = run.pages[k]
  PROVE  RunOK'
<1>1. \A i \in DOMAIN run.pages : run.pages[i].of \in Known(run.pages[i].group)
  BY DEF DocsInv, RunOK
<1>2. QED
  BY <1>1 DEF RunOK, Known, At

LEMMA DocsStay ==
  ASSUME DocsInv, UNCHANGED <<dirs, theirs, change>>, RestOK, BusyOK', SameRun \/ RunEnds
  PROVE  DocsGood
<1>1. DocsTypeOK' /\ ApartOK' /\ KeepStep
  BY DEF DocsInv, DocsTypeOK, RestOK, ApartOK, KeepStep
<1>2. \A g \in Groups : Known(g)' = Known(g) /\ At("archived")' = At("archived")
  BY DEF Known, At
<1>3. ASSUME SameRun PROVE RunOK' /\ PlacesOK'
  <2>1. \A g \in Groups : Expected(run.pages, g)' = Expected(run.pages, g)
    BY <1>3 DEF SameRun, Expected
  <2>2. \A g \in Groups, n \in Names : Collected(g, n)' = Collected(g, n)
    BY <1>2, <2>1 DEF Collected
  <2>3. PlacesOK'
    BY <1>2, <1>3, <2>2 DEF DocsInv, PlacesOK, SameRun
  <2>4. RunOK'
    BY <1>3 DEF DocsInv, RunOK, SameRun, Known, At
  <2>5. QED
    BY <2>3, <2>4
<1>4. ASSUME RunEnds PROVE RunOK' /\ PlacesOK'
  <2>1. RunOK'
    BY <1>4 DEF RunEnds, RunOK
  <2>2. PlacesOK'
    BY <1>2, <1>4 DEF RunEnds, DocsInv, PlacesOK
  <2>3. QED
    BY <2>1, <2>2
<1>5. QED
  BY <1>1, <1>3, <1>4 DEF DocsGood, DocsInv

(* A step of a run that puts v where directory n of group g is.              *)
LEMMA DocsPut ==
  ASSUME DocsInv, UNCHANGED change, RestOK, BusyOK', RunOK',
         run'.pages = run.pages, run.step # "idle",
         NEW g \in Groups, NEW n \in Names, NEW v \in DirState,
         dirs' = [dirs EXCEPT ![g][n] = v],
         v.is = "page" => n \in Known(g) /\ Collected(g, n),
         theirs' \in [Groups -> [Names -> TheirState]], ApartOK', KeepStep
  PROVE  DocsGood
<1>1. /\ dirs' \in [Groups -> [Names -> DirState]]
      /\ \A h \in Groups, m \in Names :
           dirs'[h][m] = IF h = g /\ m = n THEN v ELSE dirs[h][m]
  BY DirsPut DEF DocsInv
<1>2. DocsTypeOK'
  BY <1>1 DEF DocsInv, DocsTypeOK, RestOK
<1>3. \A h \in Groups, m \in Names : Collected(h, m)' = Collected(h, m) /\ Known(h)' = Known(h)
  BY DEF Collected, Known, At, Expected
<1>4. PlacesOK'
  <2> SUFFICES ASSUME NEW h \in Groups, NEW m \in Names, dirs'[h][m].is = "page"
               PROVE  m \in Known(h)' /\ Collected(h, m)'
    BY DEF PlacesOK
  <2>1. CASE h = g /\ m = n
    BY <1>1, <1>3, <2>1
  <2>2. CASE ~(h = g /\ m = n)
    BY <1>1, <1>3, <2>2 DEF DocsInv, PlacesOK
  <2>3. QED
    BY <2>1, <2>2
<1>5. QED
  BY <1>2, <1>4 DEF DocsGood, DocsInv

LEMMA StartKeeps ==
  ASSUME WikiInv, NEW request, NEW allow \in BOOLEAN, Start(request, allow)
  PROVE  DocsGood
<1>1. DocsInv /\ DocsTypeOK /\ SourcesTypeOK
  BY DEF WikiInv, DocsInv, HistoryInv
<1> DEFINE s == Idle(FALSE)
           P == Pages
<1>2. /\ P \in Seq(PageRec)
      /\ \A i \in DOMAIN P : P[i].of \in Known(P[i].group)
      /\ \A g \in Groups : At(g) \subseteq Expected(P, g)
  BY <1>1, StartCollects DEF WikiInv
<1>3. run' = [s EXCEPT !.step = "active", !.pages = P, !.left = P]
  BY DEF Start
<1>4. s \in RunState /\ s.busy = FALSE
  BY IdleType
<1> HIDE DEF s, P
<1>5. /\ run' \in RunState /\ run'.busy = FALSE
      /\ run'.pages = P /\ run'.left = P
  BY <1>2, <1>3, <1>4 DEF RunState
<1>6. trouble' \in [killed : Nat, own : Nat, moved : Nat, forced : Nat]
  BY <1>1, TroubleType DEF Start, DocsTypeOK
<1>7. UNCHANGED <<dirs, theirs, index, config, change>>
  BY DEF Start
<1>8. DocsTypeOK' /\ ApartOK' /\ KeepStep /\ BusyOK'
  BY <1>1, <1>5, <1>6, <1>7 DEF DocsInv, DocsTypeOK, ApartOK, KeepStep, BusyOK
<1>9. /\ \A g \in Groups : Known(g)' = Known(g) /\ At(g)' = At(g)
      /\ At("archived")' = At("archived")
  BY <1>7 DEF Known, At
<1>10. RunOK'
  BY <1>2, <1>5, <1>7 DEF RunOK, Known, At
<1>11. \A g \in Groups : Expected(run.pages, g)' = Expected(P, g)
  BY <1>5 DEF Expected
<1>12. PlacesOK'
  <2> SUFFICES ASSUME NEW g \in Groups, NEW n \in Names, dirs'[g][n].is = "page"
               PROVE  n \in Known(g)' /\ Collected(g, n)'
    BY DEF PlacesOK
  <2>1. n \in Known(g)
    BY <1>1, <1>7 DEF DocsInv, PlacesOK
  <2>2. n \in At(g) \/ (g = "active" /\ n \in At("archived"))
    <3>1. \A c \in Change : change[c].at \in {"none", "active", "archived"}
      BY <1>1, ChangeTypes DEF ChangeState
    <3>2. QED
      BY <2>1, <3>1 DEF Known, At, Groups
  <2>3. n \in Expected(P, g) \/ (g = "active" /\ n \in At("archived"))
    BY <1>2, <2>2
  <2>4. QED
    BY <1>9, <1>11, <2>1, <2>3 DEF Collected
<1>13. QED
  BY <1>8, <1>10, <1>12 DEF DocsGood, DocsInv

(* A page that is stale is an active one whose change has been archived.     *)
LEMMA StaleIsArchived ==
  ASSUME DocsInv, run.step \in Groups, NEW n \in Stale(run.step),
         dirs[run.step][n].is = "page"
  PROVE  run.step = "active" /\ n \in At("archived") /\ theirs["active"][n] # "apart"
<1>1. n \in Names /\ n \notin Expected(run.pages, run.step) /\ run.step # "idle"
  BY DEF Stale, Groups
<1>2. Collected(run.step, n)
  BY <1>1 DEF DocsInv, PlacesOK
<1>3. run.step = "active" /\ n \in At("archived")
  BY <1>1, <1>2 DEF Collected
<1>4. dirs["active"][n] # Unmarked
  BY <1>3, DirKinds
<1>5. QED
  BY <1>1, <1>3, <1>4 DEF DocsInv, ApartOK, Groups

LEMMA RemovePageKeeps ==
  ASSUME WikiInv, NEW n \in Names, RemovePage(n)
  PROVE  DocsGood
<1>1. DocsInv /\ run \in RunState /\ DocsTypeOK
  BY DEF WikiInv, DocsInv, DocsTypeOK
<1>2. /\ run.step \in Groups /\ n \in Stale(run.step) /\ dirs[run.step][n].is = "page"
      /\ UNCHANGED <<index, config, trouble, change>>
      /\ run' = [run EXCEPT !.busy = TRUE, !.at = n]
  BY DEF RemovePage, Managed, RunOnly
<1>3. run.step = "active" /\ n \in At("archived") /\ theirs["active"][n] # "apart"
  BY <1>1, <1>2, StaleIsArchived
<1>4. /\ run' \in RunState /\ run'.at = n /\ run'.step = "active" /\ run'.busy
      /\ run'.pages = run.pages /\ run'.left = run.left
  BY <1>1, <1>2, <1>3 DEF RunState
<1>5. RestOK /\ SameRun
  BY <1>1, <1>2, <1>3, <1>4 DEF RestOK, DocsTypeOK, SameRun
<1>6. RunOK'
  <2>1. \A i \in DOMAIN run.left : \E k \in DOMAIN run.pages : run.left[i] = run.pages[k]
    BY <1>1 DEF DocsInv, RunOK
  <2>2. QED
    BY <1>1, <1>2, <1>4, <2>1, RunStays
<1>7. ASSUME theirs'["active"][n] # "apart" PROVE BusyOK'
  BY <1>2, <1>3, <1>4, <1>7 DEF BusyOK, At
<1>8. ASSUME dirs' = [dirs EXCEPT !["active"][n] = Unmarked], UNCHANGED theirs
      PROVE  DocsGood
  <2>1. "active" \in Groups /\ Unmarked \in DirState /\ Unmarked.is # "page"
    BY DirKinds DEF Groups
  <2>2. BusyOK'
    BY <1>3, <1>7, <1>8
  <2>3. \A h \in Groups, m \in Names :
          dirs'[h][m] = IF h = "active" /\ m = n THEN Unmarked ELSE dirs[h][m]
    BY <1>1, <1>8, <2>1, DirsPut
  <2>4. ApartOK'
    BY <1>1, <1>8, <2>3 DEF DocsInv, ApartOK
  <2>5. KeepStep /\ theirs' \in [Groups -> [Names -> TheirState]]
    BY <1>1, <1>8 DEF KeepStep, DocsTypeOK
  <2>6. QED
    BY <1>1, <1>2, <1>4, <1>5, <1>6, <1>8, <2>1, <2>2, <2>4, <2>5, DocsPut DEF SameRun
<1>9. ASSUME theirs["active"][n] # "none", theirs' = [theirs EXCEPT !["active"][n] = "none"],
             UNCHANGED dirs
      PROVE  DocsGood
  <2>1. "active" \in Groups /\ "none" \in TheirState
    BY DEF Groups, TheirState
  <2>2. /\ theirs' \in [Groups -> [Names -> TheirState]]
        /\ \A h \in Groups, m \in Names :
             theirs'[h][m] = IF h = "active" /\ m = n THEN "none" ELSE theirs[h][m]
    BY <1>1, <1>9, <2>1, TheirsPut
  <2>3. BusyOK'
    BY <1>7, <2>1, <2>2
  <2>4. ApartOK'
    BY <1>1, <1>9, <2>2 DEF DocsInv, ApartOK
  <2>5. theirs["active"][n] = "shared"
    BY <1>1, <1>3, <1>9, <2>1 DEF DocsTypeOK, TheirState
  <2>6. KeepStep
    BY <1>3, <2>2, <2>5 DEF KeepStep
  <2>7. DocsTypeOK'
    BY <1>1, <1>5, <1>9, <2>2 DEF DocsTypeOK, RestOK
  <2>8. PlacesOK'
    <3>1. \A h \in Groups, m \in Names :
            Collected(h, m)' = Collected(h, m) /\ Known(h)' = Known(h)
      BY <1>2, <1>4 DEF Collected, Known, At, Expected
    <3>2. QED
      BY <1>1, <1>5, <1>9, <3>1 DEF DocsInv, PlacesOK, SameRun
  <2>9. QED
    BY <1>6, <2>3, <2>4, <2>6, <2>7, <2>8 DEF DocsGood, DocsInv
<1>10. QED
  BY <1>3, <1>8, <1>9 DEF RemovePage

LEMMA RemoveDirectoryKeeps ==
  ASSUME WikiInv, RemoveDirectory
  PROVE  DocsGood
<1>1. DocsInv /\ run \in RunState /\ DocsTypeOK
  BY DEF WikiInv, DocsInv, DocsTypeOK
<1> DEFINE n == run.at
<1>2. /\ run.step = "active" /\ n \in At("archived") /\ theirs["active"][n] # "apart"
      /\ n \in Names /\ "active" \in Groups
  BY <1>1 DEF RemoveDirectory, DocsInv, BusyOK, RunState, Groups
<1>3. /\ dirs' = [dirs EXCEPT !["active"][n] = None]
      /\ theirs' = [theirs EXCEPT !["active"][n] = "none"]
      /\ run' = [run EXCEPT !.busy = FALSE]
      /\ UNCHANGED <<index, config, trouble, change>>
  BY <1>2 DEF RemoveDirectory, RunOnly
<1> HIDE DEF n
<1>4. /\ run' \in RunState /\ run'.busy = FALSE
      /\ run'.pages = run.pages /\ run'.left = run.left
  BY <1>1, <1>3 DEF RunState
<1>5. BusyOK' /\ RestOK /\ run.step # "idle"
  BY <1>1, <1>2, <1>3, <1>4 DEF BusyOK, RestOK, DocsTypeOK
<1>6. RunOK'
  <2>1. \A i \in DOMAIN run.left : \E k \in DOMAIN run.pages : run.left[i] = run.pages[k]
    BY <1>1 DEF DocsInv, RunOK
  <2>2. QED
    BY <1>1, <1>3, <1>4, <2>1, RunStays
<1>7. /\ None \in DirState /\ None.is # "page" /\ "none" \in TheirState
      /\ theirs["active"][n] \in TheirState
  BY <1>1, <1>2, DirKinds DEF TheirState, DocsTypeOK
<1>8. /\ theirs' \in [Groups -> [Names -> TheirState]]
      /\ \A h \in Groups, m \in Names :
           theirs'[h][m] = IF h = "active" /\ m = n THEN "none" ELSE theirs[h][m]
  BY <1>1, <1>2, <1>3, <1>7, TheirsPut
<1>9. \A h \in Groups, m \in Names :
        dirs'[h][m] = IF h = "active" /\ m = n THEN None ELSE dirs[h][m]
  BY <1>1, <1>2, <1>3, <1>7, DirsPut
<1>10. ApartOK'
  BY <1>1, <1>8, <1>9 DEF DocsInv, ApartOK
<1>11. KeepStep
  BY <1>2, <1>7, <1>8 DEF KeepStep, TheirState
<1>12. QED
  BY <1>1, <1>2, <1>3, <1>4, <1>5, <1>6, <1>7, <1>8, <1>10, <1>11, DocsPut

LEMMA OpenPageKeeps ==
  ASSUME WikiInv, OpenPage
  PROVE  DocsGood
<1>1. DocsInv /\ DocsTypeOK /\ run \in RunState
  BY DEF WikiInv, DocsInv, DocsTypeOK
<1> DEFINE p == Head(run.left)
           g == p.group
           n == p.of
           v == Rendered(p)
<1>2. p \in PageRec
  BY <1>1 DEF OpenPage, RunState
<1>3. g \in Groups /\ n \in Names
  BY <1>2 DEF PageRec, Names
<1>4. v \in DirState
  <2>1. Includes(p) \subseteq {"proposal", "design", "tasks", "specs"}
    BY DEF Includes
  <2> HIDE DEF p
  <2>2. Rendered(p) \in PageState
    BY <1>2, <2>1 DEF Rendered, PageState
  <2>3. QED
    BY <2>2 DEF DirState
<1>5. /\ dirs' = [dirs EXCEPT ![g][n] = Unmarked]
      /\ run' = [run EXCEPT !.busy = TRUE, !.text = v]
      /\ run.step = "pages" /\ run.left # <<>>
      /\ UNCHANGED <<theirs, index, config, trouble, change>>
  BY DEF OpenPage, RunOnly
<1> HIDE DEF g, n, v
<1>6. /\ run' \in RunState /\ run'.step = run.step /\ run'.left = run.left
      /\ run'.pages = run.pages
  BY <1>1, <1>4, <1>5 DEF RunState
<1>7. BusyOK' /\ RestOK /\ run.step # "idle"
  BY <1>1, <1>5, <1>6 DEF BusyOK, Groups, RestOK, DocsTypeOK
<1>8. RunOK'
  <2>1. \A i \in DOMAIN run.left : \E k \in DOMAIN run.pages : run.left[i] = run.pages[k]
    BY <1>1 DEF DocsInv, RunOK
  <2>2. QED
    BY <1>1, <1>5, <1>6, <2>1, RunStays
<1>9. Unmarked \in DirState /\ Unmarked.is # "page"
  BY DirKinds
<1>10. \A h \in Groups, m \in Names :
         dirs'[h][m] = IF h = g /\ m = n THEN Unmarked ELSE dirs[h][m]
  BY <1>1, <1>3, <1>5, <1>9, DirsPut
<1>11. ApartOK' /\ KeepStep /\ theirs' \in [Groups -> [Names -> TheirState]]
  BY <1>1, <1>5, <1>10 DEF DocsInv, ApartOK, KeepStep, DocsTypeOK
<1>12. QED
  BY <1>1, <1>3, <1>5, <1>6, <1>7, <1>8, <1>9, <1>11, DocsPut

LEMMA WritePageKeeps ==
  ASSUME WikiInv, WritePage
  PROVE  DocsGood
<1>1. DocsInv /\ DocsTypeOK /\ run \in RunState
  BY DEF WikiInv, DocsInv, DocsTypeOK
<1> DEFINE p == Head(run.left)
           g == p.group
           n == p.of
           v == run.text
           L == Tail(run.left)
           w == Shared(theirs[g][n])
<1>2. run.left # <<>> /\ run.left \in Seq(PageRec)
  BY <1>1 DEF WritePage, DocsInv, BusyOK, RunState
<1>3. /\ p \in PageRec /\ L \in Seq(PageRec) /\ p = run.left[1] /\ 1 \in DOMAIN run.left
      /\ \A i \in DOMAIN L : i + 1 \in DOMAIN run.left /\ L[i] = run.left[i + 1]
  BY <1>2
<1>4. g \in Groups /\ n \in Names
  BY <1>3 DEF PageRec, Names
<1>5. n \in Known(g) /\ Collected(g, n)
  <2>1. PICK k \in DOMAIN run.pages : p = run.pages[k]
    BY <1>1, <1>3 DEF DocsInv, RunOK
  <2>2. run.pages[k].of = n /\ run.pages[k].group = g
    BY <2>1
  <2>3. n \in Known(g)
    BY <1>1, <2>2 DEF DocsInv, RunOK
  <2>4. n \in Expected(run.pages, g)
    BY <2>2 DEF Expected
  <2>5. QED
    BY <2>3, <2>4 DEF Collected
<1>6. v \in DirState /\ theirs[g][n] \in TheirState
  BY <1>1, <1>4 DEF RunState, DocsTypeOK
<1>7. /\ dirs' = [dirs EXCEPT ![g][n] = v] /\ theirs' = [theirs EXCEPT ![g][n] = w]
      /\ run' = [run EXCEPT !.busy = FALSE, !.text = None, !.left = L]
      /\ run.step = "pages" /\ UNCHANGED <<index, config, trouble, change>>
  BY <1>1, <1>4 DEF WritePage, RunOnly, DocsTypeOK
<1>8. None \in DirState
  BY DirKinds
<1>9. /\ w \in TheirState /\ w # "apart" /\ (w = "none" => theirs[g][n] = "none")
  BY <1>6 DEF Shared, TheirState
<1> HIDE DEF g, n, v, L, w
<1>10. /\ run' \in RunState /\ run'.busy = FALSE /\ run'.pages = run.pages /\ run'.left = L
  BY <1>1, <1>3, <1>7, <1>8 DEF RunState
<1>11. BusyOK' /\ RestOK /\ run.step # "idle"
  BY <1>1, <1>7, <1>10 DEF BusyOK, RestOK, DocsTypeOK
<1>12. RunOK'
  <2>1. \A i \in DOMAIN run.left : \E k \in DOMAIN run.pages : run.left[i] = run.pages[k]
    BY <1>1 DEF DocsInv, RunOK
  <2>2. \A i \in DOMAIN L : \E k \in DOMAIN run.pages : L[i] = run.pages[k]
    BY <1>3, <2>1
  <2>3. QED
    BY <1>1, <1>7, <1>10, <2>2, RunStays
<1>13. /\ theirs' \in [Groups -> [Names -> TheirState]]
       /\ \A h \in Groups, m \in Names :
            theirs'[h][m] = IF h = g /\ m = n THEN w ELSE theirs[h][m]
  BY <1>1, <1>4, <1>7, <1>9, TheirsPut
<1>14. \A h \in Groups, m \in Names :
         dirs'[h][m] = IF h = g /\ m = n THEN v ELSE dirs[h][m]
  BY <1>1, <1>4, <1>6, <1>7, DirsPut
<1>15. ApartOK' /\ KeepStep
  BY <1>1, <1>9, <1>13, <1>14 DEF DocsInv, ApartOK, KeepStep
<1>16. QED
  BY <1>1, <1>4, <1>5, <1>6, <1>7, <1>10, <1>11, <1>12, <1>13, <1>15, DocsPut

LEMMA RunStepKeeps ==
  ASSUME WikiInv, RunStep
  PROVE  DocsGood
<1>1. DocsInv /\ DocsTypeOK /\ run \in RunState
  BY DEF WikiInv, DocsInv, DocsTypeOK
<1>2. CASE \E n \in Names : RemovePage(n)
  BY <1>2, RemovePageKeeps
<1>3. CASE RemoveDirectory
  BY <1>3, RemoveDirectoryKeeps
<1>4. CASE RefuseDirectory
  <2>1. run' = Idle(FALSE) /\ UNCHANGED <<dirs, theirs, index, config, trouble, change>>
    BY <1>4 DEF RefuseDirectory, RunOnly, docsVars
  <2>2. run' \in RunState /\ RunEnds
    BY <2>1, IdleType DEF RunEnds
  <2>3. RestOK /\ BusyOK'
    BY <1>1, <2>1, <2>2 DEF DocsTypeOK, BusyOK, RestOK, RunEnds
  <2>4. QED
    BY <1>1, <2>1, <2>2, <2>3, DocsStay
<1>5. CASE NothingStale
  <2> DEFINE next == IF run.step = "active" THEN "archived" ELSE "pages"
  <2>1. /\ run' = [run EXCEPT !.step = next] /\ ~run.busy /\ run.step \in Groups
        /\ UNCHANGED <<dirs, theirs, index, config, trouble, change>>
    BY <1>5 DEF NothingStale, RunOnly, docsVars
  <2>2. next \in {"archived", "pages"}
    OBVIOUS
  <2> HIDE DEF next
  <2>3. run' \in RunState /\ ~run'.busy /\ SameRun
    BY <1>1, <2>1, <2>2 DEF RunState, SameRun, Groups
  <2>4. RestOK /\ BusyOK'
    BY <1>1, <2>1, <2>3 DEF DocsTypeOK, BusyOK, RestOK
  <2>5. QED
    BY <1>1, <2>1, <2>3, <2>4, DocsStay
<1>6. CASE OpenPage
  BY <1>6, OpenPageKeeps
<1>7. CASE WritePage
  BY <1>7, WritePageKeeps
<1>8. CASE WriteIndex
  <2>1. /\ run' = [run EXCEPT !.step = "config"] /\ index' = run.pages /\ run.step = "pages"
        /\ UNCHANGED <<dirs, theirs, config, trouble, change>>
    BY <1>8 DEF WriteIndex, RunOnly
  <2>2. run' \in RunState /\ run'.step = "config" /\ index' \in Seq(PageRec) /\ SameRun
    BY <1>1, <2>1 DEF RunState, SameRun
  <2>3. RestOK /\ BusyOK'
    BY <1>1, <2>1, <2>2 DEF DocsTypeOK, BusyOK, RestOK, Groups
  <2>4. QED
    BY <1>1, <2>1, <2>2, <2>3, DocsStay
<1>9. CASE WriteConfig
  <2>1. /\ run' = [run EXCEPT !.step = "validate"] /\ config' = run.pages /\ run.step = "config"
        /\ UNCHANGED <<dirs, theirs, index, trouble, change>>
    BY <1>9 DEF WriteConfig, RunOnly
  <2>2. run' \in RunState /\ run'.step = "validate" /\ config' \in Seq(PageRec) /\ SameRun
    BY <1>1, <2>1 DEF RunState, SameRun
  <2>3. RestOK /\ BusyOK'
    BY <1>1, <2>1, <2>2 DEF DocsTypeOK, BusyOK, RestOK, Groups
  <2>4. QED
    BY <1>1, <2>1, <2>2, <2>3, DocsStay
<1>10. CASE Validate
  <2> DEFINE ok == Validated(run.pages)
  <2>1. run' = Idle(ok) /\ UNCHANGED <<dirs, theirs, index, config, trouble, change>>
    BY <1>10 DEF Validate, RunOnly, docsVars
  <2>2. ok \in BOOLEAN
    BY DEF Validated
  <2> HIDE DEF ok
  <2>3. run' \in RunState /\ RunEnds
    BY <2>1, <2>2, IdleType DEF RunEnds
  <2>4. RestOK /\ BusyOK'
    BY <1>1, <2>1, <2>3 DEF DocsTypeOK, BusyOK, RestOK, RunEnds
  <2>5. QED
    BY <1>1, <2>1, <2>3, <2>4, DocsStay
<1>11. QED
  BY <1>2, <1>3, <1>4, <1>5, <1>6, <1>7, <1>8, <1>9, <1>10 DEF RunStep

LEMMA KillKeeps ==
  ASSUME WikiInv, Kill
  PROVE  DocsGood
<1>1. DocsInv /\ DocsTypeOK
  BY DEF WikiInv, DocsInv
<1>2. /\ run' = Idle(FALSE) /\ UNCHANGED <<dirs, theirs, index, config, change>>
      /\ Trouble("killed")
  BY DEF Kill
<1>3. run' \in RunState /\ RunEnds
  BY <1>2, IdleType DEF RunEnds
<1>4. trouble' \in [killed : Nat, own : Nat, moved : Nat, forced : Nat]
  BY <1>1, <1>2, TroubleType
<1>5. RestOK /\ BusyOK'
  BY <1>1, <1>2, <1>3, <1>4 DEF DocsTypeOK, BusyOK, RestOK, RunEnds
<1>6. QED
  BY <1>1, <1>2, <1>3, <1>5, DocsStay

LEMMA MakeOwnKeeps ==
  ASSUME WikiInv, NEW g \in Groups, NEW n \in Names, MakeOwn(g, n)
  PROVE  DocsGood
<1>1. DocsInv /\ DocsTypeOK
  BY DEF WikiInv, DocsInv
<1> DEFINE v == IF dirs[g][n] = None THEN Unmarked ELSE dirs[g][n]
           w == IF dirs[g][n].is = "page" THEN "shared" ELSE "apart"
<1>2. dirs[g][n] \in DirState /\ theirs[g][n] = "none"
  BY <1>1 DEF DocsTypeOK, MakeOwn
<1>3. /\ dirs' = [dirs EXCEPT ![g][n] = v] /\ theirs' = [theirs EXCEPT ![g][n] = w]
      /\ UNCHANGED <<index, config, run, change>> /\ Trouble("own")
      /\ ~(run.step = g /\ run.busy /\ run.at = n)
  BY <1>1 DEF MakeOwn, DocsTypeOK
<1>4. v \in DirState /\ w \in TheirState /\ w # "none"
  BY <1>2, DirKinds DEF TheirState
<1>5. (w = "apart" => v = Unmarked) /\ (v.is = "page" => dirs[g][n].is = "page")
  BY <1>2, DirKinds DEF DirState
<1> HIDE DEF v, w
<1>6. trouble' \in [killed : Nat, own : Nat, moved : Nat, forced : Nat]
  BY <1>1, <1>3, TroubleType
<1>7. /\ dirs' \in [Groups -> [Names -> DirState]]
      /\ \A h \in Groups, m \in Names :
           dirs'[h][m] = IF h = g /\ m = n THEN v ELSE dirs[h][m]
  BY <1>1, <1>3, <1>4, DirsPut
<1>8. /\ theirs' \in [Groups -> [Names -> TheirState]]
      /\ \A h \in Groups, m \in Names :
           theirs'[h][m] = IF h = g /\ m = n THEN w ELSE theirs[h][m]
  BY <1>1, <1>3, <1>4, TheirsPut
<1>9. DocsTypeOK'
  BY <1>1, <1>3, <1>6, <1>7, <1>8 DEF DocsTypeOK
<1>10. ApartOK'
  BY <1>1, <1>5, <1>7, <1>8 DEF DocsInv, ApartOK
<1>11. KeepStep
  BY <1>2, <1>8 DEF KeepStep
<1>12. BusyOK'
  <2>1. ASSUME run.step \in Groups, run.busy
        PROVE  /\ run.step = "active" /\ run.at \in At("archived") /\ run.at \in Names
               /\ theirs'["active"][run.at] # "apart"
    <3>1. /\ run.step = "active" /\ run.at \in At("archived")
          /\ theirs["active"][run.at] # "apart"
      BY <1>1, <2>1 DEF DocsInv, BusyOK
    <3>2. run.at \in Names /\ "active" \in Groups
      BY <1>1 DEF DocsTypeOK, RunState, Groups
    <3>3. ~(g = "active" /\ n = run.at)
      BY <1>3, <2>1, <3>1
    <3>4. theirs'["active"][run.at] = theirs["active"][run.at]
      BY <1>8, <3>2, <3>3
    <3>5. QED
      BY <3>1, <3>2, <3>4
  <2>2. run' = run /\ At("archived")' = At("archived")
    BY <1>3 DEF At
  <2>3. run.step = "pages" /\ run.busy => run.left # <<>>
    BY <1>1 DEF DocsInv, BusyOK
  <2>4. QED
    BY <2>1, <2>2, <2>3 DEF BusyOK
<1>13. RunOK'
  BY <1>1, <1>3 DEF DocsInv, RunOK, Known, At
<1>14. PlacesOK'
  <2>1. \A h \in Groups, m \in Names : Collected(h, m)' = Collected(h, m) /\ Known(h)' = Known(h)
    BY <1>3 DEF Collected, Known, At, Expected
  <2>2. \A h \in Groups, m \in Names : dirs'[h][m].is = "page" => dirs[h][m].is = "page"
    BY <1>5, <1>7
  <2>3. QED
    BY <1>1, <1>3, <2>1, <2>2 DEF DocsInv, PlacesOK
<1>15. QED
  BY <1>9, <1>10, <1>11, <1>12, <1>13, <1>14 DEF DocsGood, DocsInv

(* Changes move: at most one of them is new, and none moves back.            *)
MovesOn ==
  \A c \in Change :
    /\ change[c].at # "none" => change'[c].at # "none"
    /\ change[c].at = "archived" => change'[c].at = "archived"

LEMMA SourcesKeep ==
  ASSUME WikiInv, Sources
  PROVE  WikiInv' /\ KeepStep
<1>1. DocsInv /\ DocsTypeOK /\ HistoryInv /\ change \in [Change -> ChangeState]
  BY DEF WikiInv, DocsInv, HistoryInv, SourcesTypeOK
<1> DEFINE Here == {c \in Change : change[c].at # "none"}
<1>2. IsFiniteSet(Here)
  BY DEF WikiInv, FewChanges
<1>3. ASSUME \E c \in Change : Propose(c) PROVE HistoryInv' /\ FewChanges' /\ MovesOn
  <2>1. PICK c \in Change : Propose(c)
    BY <1>3
  <2>2. HistoryInv'
    BY <1>1, <2>1, ProposeKeeps
  <2>3. \A d \in Change : d # c => change'[d] = change[d]
    BY <1>1, <2>1 DEF Propose
  <2>4. Here' \in SUBSET (Here \cup {c})
    BY <2>3
  <2>5. IsFiniteSet(Here \cup {c})
    BY <1>2, FS_AddElement
  <2>6. FewChanges'
    BY <2>4, <2>5, FS_Subset DEF FewChanges
  <2>7. MovesOn
    BY <2>1, <2>3 DEF MovesOn, Propose
  <2>8. QED
    BY <2>2, <2>6, <2>7
<1>4. ASSUME \E c \in Change, synced \in BOOLEAN,
             delta \in IF Untouched THEN Deltas ELSE LaterDeltas : Archive(c, delta, synced)
      PROVE  HistoryInv' /\ FewChanges' /\ MovesOn
  <2>1. PICK c \in Change, synced \in BOOLEAN,
             delta \in IF Untouched THEN Deltas ELSE LaterDeltas : Archive(c, delta, synced)
    BY <1>4
  <2>2. delta \in Delta
    BY <2>1, SourcesAssumption, SyncAssumption
  <2>3. HistoryInv'
    BY <1>1, <2>1, <2>2, ArchiveKeeps
  <2>4. (\A d \in Change : d # c => change'[d] = change[d]) /\ change[c].at = "active"
    BY <1>1, <2>1 DEF Archive
  <2>5. Here' \in SUBSET Here
    BY <2>4
  <2>6. FewChanges'
    BY <1>2, <2>5, FS_Subset DEF FewChanges
  <2>7. change'[c].at = "archived"
    BY <1>1, <2>1 DEF Archive
  <2>8. MovesOn
    BY <2>4, <2>7 DEF MovesOn
  <2>9. QED
    BY <2>3, <2>6, <2>8
<1>5. ASSUME NextDay PROVE HistoryInv' /\ FewChanges' /\ MovesOn
  <2>1. HistoryInv' /\ UNCHANGED change
    BY <1>1, <1>5, NextDayKeeps DEF NextDay
  <2>2. FewChanges' /\ MovesOn
    BY <1>2, <2>1 DEF FewChanges, MovesOn
  <2>3. QED
    BY <2>1, <2>2
<1>6. HistoryInv' /\ FewChanges' /\ MovesOn
  BY <1>3, <1>4, <1>5 DEF Sources
<1>7. UNCHANGED <<dirs, theirs, index, config, run>>
  BY DEF Sources
<1>8. trouble' \in [killed : Nat, own : Nat, moved : Nat, forced : Nat]
  <2>1. CASE run.step = "idle"
    BY <1>1, <2>1 DEF Sources, DocsTypeOK
  <2>2. CASE run.step # "idle"
    BY <1>1, <2>2, TroubleType DEF Sources
  <2>3. QED
    BY <2>1, <2>2
<1>9. At("archived") \subseteq At("archived")' /\ \A g \in Groups : Known(g) \subseteq Known(g)'
  BY <1>6 DEF MovesOn, At, Known
<1>10. DocsTypeOK' /\ ApartOK' /\ KeepStep
  BY <1>1, <1>7, <1>8 DEF DocsInv, DocsTypeOK, ApartOK, KeepStep
<1>11. BusyOK'
  BY <1>1, <1>7, <1>9 DEF DocsInv, BusyOK
<1>12. RunOK'
  <2>1. ASSUME NEW i \in DOMAIN run.pages PROVE run.pages[i].group \in Groups
    <3>1. run.pages \in Seq(PageRec)
      BY <1>1 DEF DocsTypeOK, RunState
    <3>2. run.pages[i] \in PageRec
      BY <3>1
    <3>3. QED
      BY <3>2 DEF PageRec
  <2>2. \A i \in DOMAIN run.pages : run.pages[i].of \in Known(run.pages[i].group)'
    BY <1>1, <1>7, <1>9, <2>1 DEF DocsInv, RunOK
  <2>3. QED
    BY <1>1, <1>7, <2>2 DEF DocsInv, RunOK
<1>13. PlacesOK'
  <2>1. \A g \in Groups, n \in Names : Collected(g, n) => Collected(g, n)'
    BY <1>7, <1>9 DEF Collected, Expected
  <2>2. QED
    BY <1>1, <1>7, <1>9, <2>1 DEF DocsInv, PlacesOK
<1>14. QED
  BY <1>6, <1>10, <1>11, <1>12, <1>13 DEF WikiInv, DocsInv

LEMMA NextKeeps ==
  ASSUME WikiInv, [Next]_vars
  PROVE  WikiInv' /\ KeepStep
<1>1. DocsInv /\ HistoryInv /\ FewChanges
  BY DEF WikiInv
<1>2. CASE Sources
  BY <1>2, SourcesKeep
<1>3. ASSUME UNCHANGED sourceVars PROVE HistoryInv' /\ FewChanges'
  <2>1. UNCHANGED <<change, main, history, day>>
    BY <1>3 DEF sourceVars
  <2>2. SourcesTypeOK'
    BY <1>1, <2>1 DEF HistoryInv, SourcesTypeOK
  <2>3. HistoryInv'
    BY <1>1, <2>1, <2>2, ArchivesStay
  <2>4. FewChanges'
    BY <1>1, <2>1 DEF FewChanges
  <2>5. QED
    BY <2>3, <2>4
<1>4. ASSUME UNCHANGED sourceVars, DocsGood PROVE WikiInv' /\ KeepStep
  BY <1>3, <1>4 DEF WikiInv, DocsGood
<1>5. CASE \E request \in Requests, allow_unsynced \in BOOLEAN : Start(request, allow_unsynced)
  <2>1. PICK request \in Requests, allow_unsynced \in BOOLEAN : Start(request, allow_unsynced)
    BY <1>5
  <2>2. DocsGood
    BY <2>1, StartKeeps
  <2>3. UNCHANGED sourceVars
    BY <2>1 DEF Start, sourceVars
  <2>4. QED
    BY <1>4, <2>2, <2>3
<1>6. CASE RunStep
  <2>1. UNCHANGED sourceVars
    BY <1>6 DEF RunStep, RemovePage, RemoveDirectory, RefuseDirectory, NothingStale, OpenPage,
                WritePage, WriteIndex, WriteConfig, Validate, RunOnly, sourceVars
  <2>2. QED
    BY <1>4, <1>6, <2>1, RunStepKeeps
<1>7. CASE Kill
  <2>1. UNCHANGED sourceVars
    BY <1>7 DEF Kill, sourceVars
  <2>2. QED
    BY <1>4, <1>7, <2>1, KillKeeps
<1>8. CASE \E g \in Groups, n \in Names : MakeOwn(g, n)
  <2>1. PICK g \in Groups, n \in Names : MakeOwn(g, n)
    BY <1>8
  <2>2. UNCHANGED sourceVars
    BY <2>1 DEF MakeOwn, sourceVars
  <2>3. DocsGood
    BY <2>1, MakeOwnKeeps
  <2>4. QED
    BY <1>4, <2>2, <2>3
<1>9. CASE UNCHANGED vars
  <2>1. /\ UNCHANGED <<change, dirs, theirs, index, config, run, trouble>>
        /\ UNCHANGED sourceVars
    BY <1>9 DEF vars, sourceVars
  <2>2. KeepStep
    BY <2>1 DEF KeepStep
  <2>3. DocsTypeOK' /\ ApartOK' /\ BusyOK'
    BY <1>1, <2>1 DEF DocsInv, DocsTypeOK, ApartOK, BusyOK, At
  <2>4. RunOK'
    <3>1. \A i \in DOMAIN run.left : \E k \in DOMAIN run.pages : run.left[i] = run.pages[k]
      BY <1>1 DEF DocsInv, RunOK
    <3>2. QED
      BY <1>1, <2>1, <3>1, RunStays
  <2>5. PlacesOK'
    <3>1. \A g \in Groups, n \in Names : Collected(g, n)' = Collected(g, n) /\ Known(g)' = Known(g)
      BY <2>1 DEF Collected, Known, At, Expected
    <3>2. QED
      BY <1>1, <2>1, <3>1 DEF DocsInv, PlacesOK
  <2>6. QED
    BY <1>4, <2>1, <2>2, <2>3, <2>4, <2>5 DEF DocsGood, DocsInv
<1>10. QED
  BY <1>2, <1>5, <1>6, <1>7, <1>8, <1>9 DEF Next

LEMMA WikiStarts == Init => WikiInv
<1> SUFFICES ASSUME Init PROVE WikiInv
  OBVIOUS
<1>1. HistoryInv
  BY HistoryStarts DEF Init
<1>2. FewChanges
  <2>1. \A c \in Change : change[c].at = "none"
    BY DEF Init, SourcesInit, Missing
  <2>2. {c \in Change : change[c].at # "none"} = {}
    BY <2>1
  <2>3. QED
    BY <2>2, FS_EmptySet DEF FewChanges
<1>3. /\ run \in RunState /\ run.busy = FALSE
      /\ run.pages = <<>> /\ run.left = <<>>
  BY IdleType DEF Init
<1>4. /\ dirs = [g \in Groups |-> [n \in Names |-> None]]
      /\ theirs = [g \in Groups |-> [n \in Names |-> "none"]]
      /\ None \in DirState /\ None.is # "page" /\ "none" \in TheirState
  BY DirKinds DEF Init, TheirState
<1>5. DocsTypeOK
  <2>1. dirs \in [Groups -> [Names -> DirState]] /\ theirs \in [Groups -> [Names -> TheirState]]
    BY <1>4
  <2>2. trouble \in [killed : Nat, own : Nat, moved : Nat, forced : Nat]
    BY DEF Init
  <2>3. index \in Seq(PageRec) /\ config \in Seq(PageRec)
    BY DEF Init
  <2>4. QED
    BY <1>3, <2>1, <2>2, <2>3 DEF DocsTypeOK
<1>6. ApartOK /\ BusyOK /\ RunOK /\ PlacesOK
  BY <1>3, <1>4 DEF ApartOK, BusyOK, RunOK, PlacesOK
<1>7. QED
  BY <1>1, <1>2, <1>5, <1>6 DEF WikiInv, DocsInv

LEMMA WikiInvariant == Spec => []WikiInv
<1>1. WikiInv /\ [Next]_vars => WikiInv'
  BY NextKeeps
<1>2. QED
  BY <1>1, WikiStarts, PTL DEF Spec

-----------------------------------------------------------------------------
(* Type correctness: the changes, the main specs and their history, the      *)
(* directories of docs/changes, the index, the configuration and the run.    *)
THEOREM WikiTypeCorrect == Spec => []WikiTypeOK
<1>1. WikiInv => WikiTypeOK
  BY DEF WikiInv, DocsInv, HistoryInv, WikiTypeOK
<1>2. QED
  BY <1>1, WikiInvariant, PTL

(* The operation the fold ends with, where the order is told: there is one,  *)
(* and everything else about the requirement was said before it.             *)
LatestIsLast ==
  \A r \in Req : About(r) # {} /\ OrderTold(r) =>
    /\ Latest(r) \in About(r)
    /\ \A y \in About(r) \ {Latest(r)} :
         Before(<<Rank(y.of), y.pos>>, <<Rank(Latest(r).of), Latest(r).pos>>)

(* Whatever is proposed and archived, on whatever dates, synced or not,      *)
(* _validate_archive_specs compares each requirement with the change that    *)
(* was archived last, if dates and names tell the order of the archives that *)
(* mention it; and there is one that was archived last.                      *)
THEOREM GateFollowsHistory == Spec => [](FoldFollowsHistory /\ LatestIsLast)
<1>1. WikiInv => FoldFollowsHistory /\ LatestIsLast
  <2> SUFFICES ASSUME WikiInv PROVE FoldFollowsHistory /\ LatestIsLast
    OBVIOUS
  <2>2. HistoryInv /\ FoldFollowsHistory
    BY FoldIsLastWord DEF WikiInv
  <2>3. ASSUME NEW r \in Req, About(r) # {}, OrderTold(r)
        PROVE  /\ Latest(r) \in About(r)
               /\ \A y \in About(r) \ {Latest(r)} : LaterSaid(y, Latest(r))
    <3>1. Latest(r) = LastWord(r)
      BY <2>2, <2>3 DEF FoldFollowsHistory
    <3>2. QED
      BY <2>2, <2>3, <3>1, LastIsThere
  <2>4. LatestIsLast
    BY <2>3 DEF LatestIsLast, LaterSaid
  <2>5. QED
    BY <2>2, <2>4
<1>2. QED
  BY <1>1, WikiInvariant, PTL

(* Whatever is proposed, archived or moved while a run is at work, wherever  *)
(* runs are killed and however often, whatever the directories of people are *)
(* named: their files go only from the directory of an active page that was  *)
(* written beside them and whose change is archived by then.                 *)
THEOREM OwnFilesAlwaysKept == Spec => OwnFilesKept
<1> DEFINE Kept == \A g \in Groups : \A n \in Names :
                     theirs[g][n] # "none" /\ theirs'[g][n] = "none" =>
                       theirs[g][n] = "shared" /\ g = "active" /\ n \in At("archived")
<1>1. WikiInv /\ [Next]_vars => [Kept]_vars
  BY NextKeeps DEF KeepStep
<1>2. QED
  BY <1>1, WikiInvariant, PTL DEF Spec, OwnFilesKept
===============================================================================
