------------------------- MODULE DocumentIntakeProofs -------------------------
(* Theorems about DocumentIntake: what the upload lets in, and that all of   *)
(* it can be split.                                                          *)
EXTENDS DocumentIntake, FiniteSetTheorems, WellFoundedInduction, TLAPS

-----------------------------------------------------------------------------
(* The inductive invariant.                                                 *)

Request ==
  [step : {"idle", "receiving", "parsed", "answered"},
   size : Nat, overhead : Nat, total : Nat, parsed : Nat,
   own : BOOLEAN, fields : BOOLEAN,
   input : {"absent", "null"} \cup DOMAIN Inputs,
   file : {"none"} \cup DOMAIN Kinds,
   answer : {"none", "too large", "forbidden", "bad request", "stored"}]

(* What the limit has seen of the body, and what the answers imply.         *)
RequestOK ==
  /\ request \in Request
  /\ request.total <= Body
  /\ request.parsed <= MaxUpload + Allowance
  /\ request.step # "answered" => request.answer = "none"
  /\ request.answer = "too large" => request.total > MaxUpload + Allowance
  /\ request.answer = "stored" => request.size \in 1..MaxUpload

(* A configuration that normalize_chunking_config returns, and returns      *)
(* again when it is given it.                                               *)
Accepted(config) ==
  /\ config \in Config
  /\ \/ config.strategy # "fixed-character" /\ config.max = Unset /\ config.overlap = Unset
     \/ /\ config.strategy = "fixed-character"
        /\ 0 <= config.overlap /\ config.overlap < config.max
        /\ Given(config.max, DefaultMax) = config.max
        /\ Given(config.overlap, DefaultOverlap) = config.overlap

(* Nothing is stored before the answer; what is stored has a visible        *)
(* character and an accepted configuration.                                 *)
DocumentOK ==
  \/ /\ document = NoDocument
     /\ split = [p \in Purposes |-> Idle]
  \/ /\ request.step = "answered"
     /\ document.text \in Seq(STRING) /\ ~Blank(document.text)
     /\ Accepted(document.config)

IsSequence(s) == s \in Seq({s[i] : i \in DOMAIN s})

(* What a splitting that is not finished has still in front of it: windows  *)
(* start before the end of the text, a paragraph is there or will be found, *)
(* and the lines read since the last heading are at least one.              *)
SplitOK(p) ==
  LET s == split[p]
      text == document.text
  IN  /\ s.step \in {"idle", "done"} \cup Strategies
      /\ s.at \in Nat /\ s.start \in Nat /\ IsSequence(s.chunks)
      /\ s.step = "idle" => s = Idle
      /\ s.step = "done" => s.chunks # <<>>
      /\ s.step \in Strategies => s.step = document.config.strategy
      /\ s.step = "fixed-character" => s.at < Len(text)
      /\ s.step = "paragraph" =>
           /\ s.start = s.at /\ s.at <= Len(text)
           /\ s.chunks # <<>> \/ Visible(text, s.start, Len(text)) # {}
      /\ s.step = "markdown-heading" =>
           /\ s.at <= Len(text)
           /\ s.start < s.at \/ (s.at = 0 /\ s.start = 0)

IntakeInv ==
  /\ RequestOK
  /\ DocumentOK
  /\ split = [p \in Purposes |-> split[p]]
  /\ \A p \in Purposes : DOMAIN split[p] = DOMAIN Idle /\ SplitOK(p)

-----------------------------------------------------------------------------
(* Operators.                                                               *)

LEMMA MinOfTwo ==
  ASSUME NEW a \in Int, NEW b \in Int
  PROVE  Min({a, b}) = IF a <= b THEN a ELSE b
BY DEF Min

(* A set of positions of a text has a first and a last one.                 *)
LEMMA FirstPosition ==
  ASSUME NEW S, S \subseteq Nat, S # {}
  PROVE  Min(S) \in S /\ \A x \in S : Min(S) <= x
<1>1. PICK x \in S : \A y \in S : ~(<<y, x>> \in OpToRel(<, Nat))
  BY NatLessThanWellFounded, WFMin
<1>2. ASSUME NEW y \in S, ~(x <= y) PROVE FALSE
  <2>1. <<y, x>> \in Nat \X Nat /\ y < x
    BY <1>2
  <2>2. <<y, x>> \in OpToRel(<, Nat)
    BY <2>1 DEF OpToRel
  <2>3. QED
    BY <1>1, <2>2
<1>3. QED
  BY <1>2 DEF Min

LEMMA LastPosition ==
  ASSUME NEW n \in Nat, NEW S, S \subseteq 0..n, S # {}
  PROVE  Max(S) \in S /\ \A x \in S : Max(S) >= x
<1> DEFINE T == {n - x : x \in S}
<1>1. T \subseteq Nat /\ T # {}
  <2>1. \A x \in S : x \in 0..n /\ n - x \in Nat
    OBVIOUS
  <2>2. PICK x \in S : TRUE
    OBVIOUS
  <2>3. n - x \in T
    BY <2>2
  <2>4. QED
    BY <2>1, <2>3
<1>2. PICK t \in T : \A u \in T : t <= u
  <2> HIDE DEF T
  <2>1. QED
    BY <1>1, FirstPosition
<1>3. PICK x \in S : t = n - x
  OBVIOUS
<1>4. \A y \in S : x >= y
  BY <1>2, <1>3
<1>5. QED
  BY <1>4 DEF Max

LEMMA OneMore ==
  ASSUME NEW s, IsSequence(s), NEW e
  PROVE  IsSequence(Append(s, e)) /\ Append(s, e) # <<>>
<1> DEFINE S == {s[i] : i \in DOMAIN s}
           t == Append(s, e)
<1>1. s \in Seq(S)
  BY DEF IsSequence
<1>2. /\ Len(s) \in Nat /\ DOMAIN s = 1..Len(s) /\ DOMAIN t = 1..(Len(s) + 1)
      /\ t[Len(s) + 1] = e /\ \A i \in 1..Len(s) : t[i] = s[i]
      /\ t \in Seq(S \cup {e}) /\ Len(t) = Len(s) + 1
  BY <1>1
<1>3. {t[i] : i \in DOMAIN t} = S \cup {e}
  BY <1>2
<1>4. IsSequence(t)
  BY <1>2, <1>3 DEF IsSequence
<1>5. Len(t) # Len(<<>>)
  BY <1>2
<1> HIDE DEF t
<1>6. IsSequence(t) /\ t # <<>>
  BY <1>4, <1>5
<1>7. QED
  BY <1>6 DEF t

LEMMA AppendChunkGrows ==
  ASSUME NEW chunks, IsSequence(chunks), NEW start \in Int, NEW end \in Int, NEW headings
  PROVE  /\ IsSequence(AppendChunk(chunks, start, end, headings))
         /\ start < end => AppendChunk(chunks, start, end, headings) # <<>>
         /\ chunks # <<>> => AppendChunk(chunks, start, end, headings) # <<>>
<1> DEFINE c == [start |-> start, end |-> end, headings |-> headings]
<1>1. IsSequence(Append(chunks, c)) /\ Append(chunks, c) # <<>>
  BY OneMore
<1>2. QED
  BY <1>1 DEF AppendChunk

LEMMA FullIsNotEmpty ==
  ASSUME NEW p, NEW chunks, IsSequence(chunks), Full(p, chunks)
  PROVE  chunks # <<>>
<1>1. Len(<<>>) = 0
  OBVIOUS
<1>2. QED
  BY <1>1, ChunkingAssumption DEF Full

-----------------------------------------------------------------------------
(* Settings.                                                                *)

LEMMA GivenAgain ==
  ASSUME NEW v \in Int, NEW d \in Nat
  PROVE  Given(v, d) \in Int /\ Given(Given(v, d), d) = Given(v, d)
BY DEF Given, Unset

LEMMA NormalizedIsAccepted ==
  ASSUME NEW input, input.max \in Int, input.overlap \in Int, Normalized(input) # Refused
  PROVE  Accepted(Normalized(input))
<1> DEFINE strategy == IF input.strategy = "unset" THEN "fixed-character" ELSE input.strategy
           max      == Given(input.max, DefaultMax)
           overlap  == Given(input.overlap, DefaultOverlap)
<1>1. /\ max \in Int /\ Given(max, DefaultMax) = max
      /\ overlap \in Int /\ Given(overlap, DefaultOverlap) = overlap
  BY GivenAgain, ChunkingAssumption
<1>2. Unset \in Int
  BY DEF Unset
<1> HIDE DEF strategy, max, overlap
<1>3. CASE strategy # "fixed-character"
  <2>1. /\ strategy \in Strategies
        /\ Normalized(input) = [strategy |-> strategy, max |-> Unset, overlap |-> Unset]
    BY <1>3 DEF Normalized, strategy, max, overlap
  <2>2. QED
    BY <1>2, <1>3, <2>1 DEF Accepted, Config
<1>4. CASE strategy = "fixed-character"
  <2>1. /\ ~(max <= 0 \/ overlap < 0 \/ overlap >= max)
        /\ Normalized(input) = [strategy |-> strategy, max |-> max, overlap |-> overlap]
    BY <1>4 DEF Normalized, strategy, max, overlap
  <2>2. strategy \in Strategies
    BY <1>4 DEF Strategies
  <2>3. QED
    BY <1>1, <1>4, <2>1, <2>2 DEF Accepted, Config
<1>5. QED
  BY <1>3, <1>4

(* What is stored comes back unchanged when the row is read.                *)
LEMMA AcceptedAgain ==
  ASSUME NEW config, Accepted(config)
  PROVE  Normalized(Public(config)) = config /\ config # Refused
<1>1. /\ config \in Config /\ config.strategy # "unset" /\ config.strategy \in Strategies
      /\ config = [strategy |-> config.strategy, max |-> config.max, overlap |-> config.overlap]
  BY DEF Accepted, Config, Strategies
<1>2. config # Refused
  BY <1>1 DEF Refused, Strategies
<1> DEFINE input == Public(config)
<1>3. /\ input.extra = FALSE /\ input.strategy = config.strategy
      /\ input.max = config.max /\ input.overlap = config.overlap
  BY DEF Public
<1> HIDE DEF input
<1>4. CASE config.strategy = "fixed-character"
  <2>1. /\ config.max \in Int /\ config.overlap \in Int
        /\ 0 <= config.overlap /\ config.overlap < config.max
        /\ Given(input.max, DefaultMax) = config.max
        /\ Given(input.overlap, DefaultOverlap) = config.overlap
    BY <1>3, <1>4 DEF Accepted, Config
  <2>2. Normalized(input) = config
    BY <1>1, <1>3, <1>4, <2>1 DEF Normalized
  <2>3. QED
    BY <1>2, <2>2 DEF input
<1>5. CASE config.strategy # "fixed-character"
  <2>1. config.max = Unset /\ config.overlap = Unset
    BY <1>5 DEF Accepted
  <2>2. Normalized(input) = config
    BY <1>1, <1>3, <1>5, <2>1 DEF Normalized
  <2>3. QED
    BY <1>2, <2>2 DEF input
<1>6. QED
  BY <1>4, <1>5

LEMMA StoredIsTheConfig ==
  ASSUME Accepted(document.config)
  PROVE  Stored = document.config /\ Stored # Refused
BY AcceptedAgain DEF Stored

-----------------------------------------------------------------------------
(* Blank lines.                                                             *)

(* A separator lies within the text from where it was looked for, and holds *)
(* nothing but white space.                                                 *)
LEMMA BoundaryIsWhite ==
  ASSUME NEW text \in Seq(STRING), NEW from \in 0..Len(text), NEW b \in Boundaries(text, from)
  PROVE  /\ b[1] \in from..(Len(text) - 1) /\ b[2] \in from..Len(text) /\ b[1] < b[2]
         /\ BoundaryFrom(text, b[1], b[2])
         /\ \A k \in b[1]..(b[2] - 1) : White(At(text, k))
<1> DEFINE i == b[1]
           j == b[2]
           first == IF At(text, i) = "r" THEN i + 1 ELSE i
<1>1. i \in from..Len(text) /\ j \in from..Len(text) /\ BoundaryFrom(text, i, j)
  BY DEF Boundaries
<1>2. /\ first < j - 1 /\ At(text, first) = "n" /\ At(text, j - 1) = "n"
      /\ \A k \in (first + 1)..(j - 2) : At(text, k) \in {"s", "r"}
  BY <1>1 DEF BoundaryFrom
<1>3. Len(text) \in Nat
  OBVIOUS
<1>4. ASSUME NEW k \in i..(j - 1) PROVE White(At(text, k))
  <2>1. (k = i /\ At(text, i) = "r") \/ k = first \/ k \in (first + 1)..(j - 2) \/ k = j - 1
    BY <1>1, <1>3
  <2>2. At(text, k) \in {"s", "r", "n"}
    BY <1>2, <2>1
  <2>3. QED
    BY <2>2 DEF White
<1>5. i < Len(text) /\ i < j
  BY <1>1, <1>2, <1>3
<1> HIDE DEF first
<1>6. QED
  BY <1>1, <1>3, <1>4, <1>5

(* The separator the loop goes on with, or the end.                         *)
LEMMA NextBoundaryIs ==
  ASSUME NEW text \in Seq(STRING), NEW from \in 0..Len(text)
  PROVE  \/ /\ NextBoundary(text, from) = <<Len(text), Len(text)>>
            /\ Boundaries(text, from) = {}
         \/ /\ NextBoundary(text, from) \in Boundaries(text, from)
            /\ \A c \in Boundaries(text, from) : NextBoundary(text, from)[1] <= c[1]
<1> DEFINE B == Boundaries(text, from)
           F == {b[1] : b \in B}
<1>1. CASE B = {}
  BY <1>1 DEF NextBoundary
<1>2. CASE B # {}
  <2>1. F \subseteq Nat /\ F # {}
    <3>1. \A b \in B : b[1] \in from..(Len(text) - 1)
      BY BoundaryIsWhite
    <3>2. \A b \in B : b[1] \in Nat
      BY <3>1
    <3> HIDE DEF B
    <3>3. QED
      BY <1>2, <3>2
  <2> HIDE DEF B
  <2>2. Min(F) \in F /\ \A x \in F : Min(F) <= x
    <3> HIDE DEF F
    <3>1. QED
      BY <2>1, FirstPosition
  <2>3. PICK b \in B : b[1] = Min(F)
    BY <2>2
  <2>4. \A c \in B : b[1] <= c[1]
    BY <2>2, <2>3
  <2>5. QED
    BY <1>2, <2>3, <2>4 DEF NextBoundary, B
<1>3. QED
  BY <1>1, <1>2

(* A visible character that lies before the end is in front of the next     *)
(* separator or behind it.                                                  *)
LEMMA VisibleIsNotLost ==
  ASSUME NEW text \in Seq(STRING), NEW from \in 0..Len(text),
         Visible(text, from, Len(text)) # {}
  PROVE  LET bound == NextBoundary(text, from)
         IN  \/ Visible(text, from, bound[1]) # {}
             \/ (bound[1] # Len(text) /\ Visible(text, bound[2], Len(text)) # {})
<1> DEFINE bound == NextBoundary(text, from)
<1>1. PICK i \in from..(Len(text) - 1) : ~White(At(text, i))
  BY DEF Visible
<1>2. CASE bound = <<Len(text), Len(text)>>
  BY <1>2
<1>3. CASE bound \in Boundaries(text, from)
  <2>1. /\ bound[1] \in from..(Len(text) - 1) /\ bound[2] \in from..Len(text)
        /\ \A k \in bound[1]..(bound[2] - 1) : White(At(text, k))
    BY <1>3, BoundaryIsWhite
  <2> HIDE DEF bound
  <2>2. Len(text) \in Nat
    OBVIOUS
  <2>3. i < bound[1] \/ bound[2] <= i
    BY <1>1, <2>1, <2>2
  <2>4. CASE i < bound[1]
    <3>1. i \in from..(bound[1] - 1)
      BY <1>1, <2>1, <2>2, <2>4
    <3>2. Visible(text, from, bound[1]) # {}
      BY <1>1, <3>1 DEF Visible
    <3>3. QED
      BY <3>2 DEF bound
  <2>5. CASE bound[2] <= i
    <3>1. i \in bound[2]..(Len(text) - 1) /\ bound[1] # Len(text)
      BY <1>1, <2>1, <2>2, <2>5
    <3>2. Visible(text, bound[2], Len(text)) # {}
      BY <1>1, <3>1 DEF Visible
    <3>3. QED
      BY <3>1, <3>2 DEF bound
  <2>6. QED
    BY <2>3, <2>4, <2>5
<1>4. QED
  BY <1>2, <1>3, NextBoundaryIs

-----------------------------------------------------------------------------
(* Splitting.                                                               *)

(* Something is split only when it is stored and not blank.                 *)
LEMMA SplitMeansStored ==
  ASSUME IntakeInv, NEW p \in Purposes, document # NoDocument \/ split[p].step \in Strategies
  PROVE  /\ document # NoDocument /\ document.text \in Seq(STRING)
         /\ Len(document.text) \in Nat \ {0}
         /\ Visible(document.text, 0, Len(document.text)) # {}
         /\ Accepted(document.config) /\ Stored = document.config /\ Stored # Refused
         /\ request.step = "answered"
<1> DEFINE text == document.text
<1>1. /\ request.step = "answered" /\ text \in Seq(STRING) /\ ~Blank(text)
      /\ Accepted(document.config)
  BY DEF IntakeInv, DocumentOK, Idle, Strategies
<1>2. PICK i \in DOMAIN text : ~White(text[i])
  BY <1>1 DEF Blank
<1>3. /\ Len(text) \in Nat /\ i \in 1..Len(text)
  BY <1>1, <1>2
<1>4. i - 1 \in 0..(Len(text) - 1) /\ At(text, i - 1) = text[i]
  BY <1>3 DEF At
<1>5. Visible(text, 0, Len(text)) # {}
  BY <1>2, <1>4 DEF Visible
<1>6. Stored = document.config /\ Stored # Refused
  BY <1>1, StoredIsTheConfig
<1>7. document # NoDocument
  BY <1>1, <1>6 DEF NoDocument
<1>8. QED
  BY <1>1, <1>3, <1>5, <1>6, <1>7

LEMMA BeginKeeps ==
  ASSUME IntakeInv, NEW p \in Purposes, Begin(p)
  PROVE  DOMAIN split'[p] = DOMAIN Idle /\ SplitOK(p)'
<1> DEFINE s == split[p]
           text == document.text
<1>1. /\ document # NoDocument /\ s.step = "idle" /\ document' = document
      /\ split' = [split EXCEPT ![p].step = IF Stored = Refused THEN "error" ELSE Stored.strategy]
  BY DEF Begin
<1>2. /\ Len(text) \in Nat \ {0} /\ Visible(text, 0, Len(text)) # {}
      /\ Stored = document.config /\ Stored # Refused /\ Accepted(document.config)
  BY <1>1, SplitMeansStored
<1>3. s = Idle /\ split = [q \in Purposes |-> split[q]]
  BY <1>1 DEF IntakeInv, SplitOK
<1>4. split'[p] = [Idle EXCEPT !.step = document.config.strategy]
  BY <1>1, <1>2, <1>3
<1>5. document.config.strategy \in Strategies
  BY <1>2 DEF Accepted, Config
<1> DEFINE u == split'[p]
<1>6. /\ DOMAIN u = DOMAIN Idle /\ u.step = document.config.strategy
      /\ u.at = 0 /\ u.start = 0 /\ u.chunks = <<>>
  BY <1>4 DEF Idle
<1>7. IsSequence(<<>>)
  BY DEF IsSequence
<1> HIDE DEF u, text
<1>8. QED
  BY <1>1, <1>2, <1>5, <1>6, <1>7 DEF SplitOK, Strategies, u, text

(* Each window starts before the end, so each yields a chunk.               *)
LEMMA WindowKeeps ==
  ASSUME IntakeInv, NEW p \in Purposes, Window(p)
  PROVE  DOMAIN split'[p] = DOMAIN Idle /\ SplitOK(p)'
<1> DEFINE s == split[p]
           text == document.text
           end == Min({s.at + Stored.max, Len(text)})
           chunks == AppendChunk(s.chunks, s.at, end, <<>>)
           u == split'[p]
<1>1. /\ s.step = "fixed-character" /\ document' = document
      /\ split' = [split EXCEPT ![p] =
           [s EXCEPT !.chunks = chunks,
                     !.at = @ + (Stored.max - Stored.overlap),
                     !.step = IF end = Len(text) \/ Full(p, chunks) THEN "done" ELSE @]]
  BY DEF Window
<1>2. /\ DOMAIN s = DOMAIN Idle /\ split = [q \in Purposes |-> split[q]]
      /\ s.at \in Nat /\ s.start \in Nat /\ IsSequence(s.chunks) /\ s.at < Len(text)
      /\ document.config.strategy = "fixed-character"
  BY <1>1 DEF IntakeInv, SplitOK, Strategies
<1>3. /\ Len(text) \in Nat \ {0} /\ Stored = document.config /\ Accepted(document.config)
  BY <1>1, SplitMeansStored DEF Strategies
<1>4. /\ Stored.max \in Int /\ Stored.overlap \in Int
      /\ 0 <= Stored.overlap /\ Stored.overlap < Stored.max
  BY <1>2, <1>3 DEF Accepted, Config
<1>5. /\ u.chunks = chunks /\ u.at = s.at + (Stored.max - Stored.overlap) /\ u.start = s.start
      /\ u.step = IF end = Len(text) \/ Full(p, chunks) THEN "done" ELSE "fixed-character"
      /\ DOMAIN u = DOMAIN Idle
  <2> HIDE DEF end, chunks, text
  <2>1. u = [s EXCEPT !.chunks = chunks,
                      !.at = @ + (Stored.max - Stored.overlap),
                      !.step = IF end = Len(text) \/ Full(p, chunks) THEN "done" ELSE @]
    BY <1>1, <1>2
  <2>2. {"step", "at", "start", "chunks"} \subseteq DOMAIN s
    BY <1>2 DEF Idle
  <2> HIDE DEF s, u
  <2>3. QED
    BY <1>1, <1>2, <2>1, <2>2
<1>6. /\ s.at + Stored.max \in Int
      /\ end = IF s.at + Stored.max <= Len(text) THEN s.at + Stored.max ELSE Len(text)
  <2>1. s.at + Stored.max \in Int /\ Len(text) \in Int
    BY <1>2, <1>3, <1>4
  <2>2. QED
    BY <2>1, MinOfTwo
<1> HIDE DEF end, text, u
<1>7. end \in Int /\ s.at < end
  BY <1>2, <1>3, <1>4, <1>6
<1>8. IsSequence(chunks) /\ chunks # <<>>
  BY <1>2, <1>7, AppendChunkGrows
<1> HIDE DEF chunks
<1>9. u.at \in Nat /\ (end # Len(text) => u.at < Len(text))
  BY <1>2, <1>3, <1>4, <1>5, <1>6
<1> HIDE DEF s
<1>10. QED
  BY <1>1, <1>2, <1>5, <1>8, <1>9 DEF SplitOK, Strategies, u, text

(* Until a paragraph is found there is a visible character left to find.    *)
LEMMA ParagraphKeeps ==
  ASSUME IntakeInv, NEW p \in Purposes, Paragraph(p)
  PROVE  DOMAIN split'[p] = DOMAIN Idle /\ SplitOK(p)'
<1> DEFINE s == split[p]
           text == document.text
           bound == NextBoundary(text, s.at)
           visible == Visible(text, s.start, bound[1])
           chunks == IF visible = {} THEN s.chunks
                     ELSE AppendChunk(s.chunks, Min(visible), Max(visible) + 1, <<>>)
           u == split'[p]
<1>1. /\ s.step = "paragraph" /\ document' = document
      /\ split' = [split EXCEPT ![p] =
           [s EXCEPT !.chunks = chunks, !.at = bound[2], !.start = bound[2],
                     !.step = IF bound[1] = Len(text) \/ Full(p, chunks) THEN "done" ELSE @]]
  BY DEF Paragraph
<1>2. /\ DOMAIN s = DOMAIN Idle /\ split = [q \in Purposes |-> split[q]]
      /\ s.at \in Nat /\ s.start = s.at /\ IsSequence(s.chunks) /\ s.at <= Len(text)
      /\ s.chunks # <<>> \/ Visible(text, s.start, Len(text)) # {}
      /\ document.config.strategy = "paragraph"
  BY <1>1 DEF IntakeInv, SplitOK, Strategies
<1>3. Len(text) \in Nat /\ text \in Seq(STRING) /\ s.at \in 0..Len(text)
  BY <1>1, <1>2, SplitMeansStored DEF Strategies
<1>4. /\ u.chunks = chunks /\ u.at = bound[2] /\ u.start = bound[2]
      /\ u.step = IF bound[1] = Len(text) \/ Full(p, chunks) THEN "done" ELSE "paragraph"
      /\ DOMAIN u = DOMAIN Idle
  <2> HIDE DEF bound, chunks, text
  <2>1. u = [s EXCEPT !.chunks = chunks, !.at = bound[2], !.start = bound[2],
                      !.step = IF bound[1] = Len(text) \/ Full(p, chunks) THEN "done" ELSE @]
    BY <1>1, <1>2
  <2>2. {"step", "at", "start", "chunks"} \subseteq DOMAIN s
    BY <1>2 DEF Idle
  <2> HIDE DEF s, u
  <2>3. QED
    BY <1>1, <1>2, <2>1, <2>2
<1>5. bound[1] \in 0..Len(text) /\ bound[2] \in 0..Len(text)
  <2>1. CASE bound = <<Len(text), Len(text)>>
    BY <1>3, <2>1
  <2>2. CASE bound \in Boundaries(text, s.at)
    <3>1. bound[1] \in s.at..(Len(text) - 1) /\ bound[2] \in s.at..Len(text)
      BY <1>3, <2>2, BoundaryIsWhite
    <3> HIDE DEF bound, text, s
    <3>2. QED
      BY <1>3, <3>1
  <2>3. QED
    BY <1>3, <2>1, <2>2, NextBoundaryIs
<1>6. \/ s.chunks # <<>>
      \/ visible # {}
      \/ bound[1] # Len(text) /\ Visible(text, bound[2], Len(text)) # {}
  BY <1>2, <1>3, VisibleIsNotLost
<1> HIDE DEF text, bound, u
<1>7. visible # {} => /\ Min(visible) \in Int /\ Max(visible) + 1 \in Int
                      /\ Min(visible) < Max(visible) + 1
  <2> SUFFICES ASSUME visible # {}
               PROVE  /\ Min(visible) \in Int /\ Max(visible) + 1 \in Int
                      /\ Min(visible) < Max(visible) + 1
    OBVIOUS
  <2>1. visible \subseteq 0..Len(text) /\ visible \subseteq Nat
    BY <1>2, <1>3, <1>5 DEF Visible
  <2> HIDE DEF visible
  <2>2. Min(visible) \in visible /\ Max(visible) \in visible
        /\ \A x \in visible : Min(visible) <= x
    BY <1>3, <2>1, FirstPosition, LastPosition
  <2>3. Min(visible) \in Nat /\ Max(visible) \in Nat /\ Min(visible) <= Max(visible)
    BY <2>1, <2>2
  <2>4. QED
    BY <2>3
<1> HIDE DEF visible
<1>8. /\ IsSequence(chunks)
      /\ s.chunks # <<>> \/ visible # {} => chunks # <<>>
  BY <1>2, <1>7, AppendChunkGrows
<1> HIDE DEF chunks
<1>9. Full(p, chunks) => chunks # <<>>
  BY <1>8, FullIsNotEmpty
<1> HIDE DEF s
<1>10. /\ u.at \in Nat /\ u.at <= Len(text)
       /\ chunks # <<>> \/ (bound[1] # Len(text) /\ Visible(text, u.at, Len(text)) # {})
  BY <1>3, <1>4, <1>5, <1>6, <1>8
<1>11. QED
  BY <1>1, <1>2, <1>4, <1>8, <1>9, <1>10 DEF SplitOK, Strategies, u, text

(* A chunk that ends at a heading or at the last line holds a line.         *)
LEMMA LineKeeps ==
  ASSUME IntakeInv, NEW p \in Purposes, Line(p)
  PROVE  DOMAIN split'[p] = DOMAIN Idle /\ SplitOK(p)'
<1> DEFINE s == split[p]
           text == document.text
           fence == After(s.fence, At(text, s.at))
           chunks == AppendChunk(s.chunks, s.start, s.at, Labels(s.headings))
           outer == Outer(s.headings, Level(At(text, s.at)))
           headings == Append(outer, [level |-> Level(At(text, s.at)), line |-> s.at])
           u == split'[p]
<1>1. /\ s.step = "markdown-heading" /\ s.at < Len(text) /\ document' = document
      /\ split' = [split EXCEPT ![p] =
           IF Level(At(text, s.at)) = 0 \/ fence # NoFence
           THEN [s EXCEPT !.fence = fence, !.at = @ + 1]
           ELSE IF Full(p, chunks) THEN [s EXCEPT !.chunks = chunks, !.step = "done"]
           ELSE [s EXCEPT !.chunks = chunks, !.at = @ + 1, !.start = s.at, !.fence = fence,
                          !.headings = headings]]
  BY DEF Line
<1>2. /\ DOMAIN s = DOMAIN Idle /\ split = [q \in Purposes |-> split[q]]
      /\ s.at \in Nat /\ s.start \in Nat /\ IsSequence(s.chunks) /\ s.at <= Len(text)
      /\ s.start < s.at \/ (s.at = 0 /\ s.start = 0)
      /\ document.config.strategy = "markdown-heading"
  BY <1>1 DEF IntakeInv, SplitOK, Strategies
<1>3. Len(text) \in Nat
  BY <1>1, SplitMeansStored DEF Strategies
<1>4. {"step", "at", "start", "chunks", "headings", "fence"} = DOMAIN s
  BY <1>2 DEF Idle
<1> HIDE DEF fence, headings, text
<1>5. IsSequence(chunks)
  BY <1>2, AppendChunkGrows
<1> HIDE DEF chunks
<1>6. Full(p, chunks) => chunks # <<>>
  BY <1>5, FullIsNotEmpty
<1>7. /\ DOMAIN u = DOMAIN s
      /\ \/ /\ u.step = s.step /\ u.at = s.at + 1 /\ u.start = s.start /\ u.chunks = s.chunks
         \/ /\ u.step = "done" /\ u.at = s.at /\ u.start = s.start /\ u.chunks = chunks
            /\ Full(p, chunks)
         \/ /\ u.step = s.step /\ u.at = s.at + 1 /\ u.start = s.at /\ u.chunks = chunks
  <2>1. \/ u = [s EXCEPT !.fence = fence, !.at = @ + 1]
        \/ u = [s EXCEPT !.chunks = chunks, !.step = "done"] /\ Full(p, chunks)
        \/ u = [s EXCEPT !.chunks = chunks, !.at = @ + 1, !.start = s.at, !.fence = fence,
                         !.headings = headings]
    BY <1>1, <1>2
  <2> HIDE DEF s, u
  <2>2. QED
    BY <1>4, <2>1
<1> HIDE DEF s, u
<1>8. QED
  BY <1>1, <1>2, <1>3, <1>5, <1>6, <1>7 DEF SplitOK, Strategies, s, u, text

LEMMA LastLineKeeps ==
  ASSUME IntakeInv, NEW p \in Purposes, LastLine(p)
  PROVE  DOMAIN split'[p] = DOMAIN Idle /\ SplitOK(p)'
<1> DEFINE s == split[p]
           text == document.text
           chunks == AppendChunk(s.chunks, s.start, s.at, Labels(s.headings))
           u == split'[p]
<1>1. /\ s.step = "markdown-heading" /\ s.at = Len(text) /\ document' = document
      /\ split' = [split EXCEPT ![p].step = "done",
                     ![p].chunks = AppendChunk(@, s.start, s.at, Labels(s.headings))]
  BY DEF LastLine
<1>2. /\ DOMAIN s = DOMAIN Idle /\ split = [q \in Purposes |-> split[q]]
      /\ s.at \in Nat /\ s.start \in Nat /\ IsSequence(s.chunks)
      /\ s.start < s.at \/ (s.at = 0 /\ s.start = 0)
  BY <1>1 DEF IntakeInv, SplitOK, Strategies
<1>3. Len(text) \in Nat \ {0}
  BY <1>1, SplitMeansStored DEF Strategies
<1>4. {"step", "at", "start", "chunks", "headings", "fence"} = DOMAIN s
  BY <1>2 DEF Idle
<1>5. s.start < s.at
  BY <1>1, <1>2, <1>3
<1>6. IsSequence(chunks) /\ chunks # <<>>
  BY <1>2, <1>5, AppendChunkGrows
<1>7. /\ DOMAIN u = DOMAIN s /\ u.step = "done" /\ u.at = s.at /\ u.start = s.start
      /\ u.chunks = chunks
  <2> DEFINE done == [split EXCEPT ![p].step = "done"]
  <2>1. done[p] = [s EXCEPT !.step = "done"] /\ done = [q \in Purposes |-> done[q]]
    BY <1>2
  <2>2. done[p].chunks = s.chunks
    BY <1>2, <1>4, <2>1
  <2>3. split' = [done EXCEPT ![p].chunks = chunks]
    BY <1>1, <2>2
  <2>4. u = [done[p] EXCEPT !.chunks = chunks]
    BY <2>1, <2>3
  <2> HIDE DEF s, u, chunks, done
  <2>5. QED
    BY <1>4, <2>1, <2>4
<1> HIDE DEF s, u, chunks, text
<1>8. QED
  BY <1>1, <1>2, <1>6, <1>7 DEF SplitOK, Strategies, s, u, text

(* One step of one splitting leaves the other alone.                        *)
LEMMA SplitKeeps ==
  ASSUME IntakeInv, Split, UNCHANGED request
  PROVE  IntakeInv'
<1>1. PICK p \in Purposes : Begin(p) \/ Window(p) \/ Paragraph(p) \/ Line(p) \/ LastLine(p)
  BY DEF Split
<1>2. DOMAIN split'[p] = DOMAIN Idle /\ SplitOK(p)'
  BY <1>1, BeginKeeps, WindowKeeps, ParagraphKeeps, LineKeeps, LastLineKeeps
<1>3. /\ document' = document /\ request' = request
      /\ split = [q \in Purposes |-> split[q]]
      /\ document # NoDocument \/ split[p].step \in Strategies
  BY <1>1 DEF Begin, Window, Paragraph, Line, LastLine, Strategies, IntakeInv
<1>4. split' = [q \in Purposes |-> split'[q]] /\ \A q \in Purposes \ {p} : split'[q] = split[q]
  BY <1>1, <1>3 DEF Begin, Window, Paragraph, Line, LastLine
<1>5. ASSUME NEW q \in Purposes PROVE DOMAIN split'[q] = DOMAIN Idle /\ SplitOK(q)'
  <2>1. CASE q = p
    BY <1>2, <2>1
  <2>2. CASE q # p
    BY <1>3, <1>4, <2>2 DEF IntakeInv, SplitOK
  <2>3. QED
    BY <2>1, <2>2
<1>6. RequestOK'
  BY <1>3 DEF IntakeInv, RequestOK, Body
<1>7. DocumentOK'
  BY <1>3, SplitMeansStored DEF IntakeInv, DocumentOK
<1>8. QED
  BY <1>4, <1>5, <1>6, <1>7 DEF IntakeInv

-----------------------------------------------------------------------------
(* The request.                                                             *)

(* A step that leaves an empty table and idle splittings as they are.       *)
LEMMA NothingSplit ==
  ASSUME IntakeInv, UNCHANGED chunkingVars, RequestOK', DocumentOK'
  PROVE  IntakeInv'
BY DEF IntakeInv, SplitOK, chunkingVars

LEMMA SendKeeps ==
  ASSUME IntakeInv, NEW size \in Sizes, NEW overhead \in Overheads,
         NEW own \in BOOLEAN, NEW fields \in BOOLEAN,
         NEW input \in {"absent", "null"} \cup DOMAIN Inputs, NEW kind \in DOMAIN Kinds,
         Send(size, overhead, own, fields, input, kind)
  PROVE  IntakeInv'
<1>1. /\ request.step = "idle" /\ document = NoDocument /\ UNCHANGED chunkingVars
      /\ request' = [NoRequest EXCEPT !.step = "receiving", !.size = size,
                       !.overhead = overhead, !.own = own, !.fields = fields,
                       !.input = input, !.file = kind]
  BY DEF Send
<1>2. size \in Nat /\ overhead \in Nat /\ MaxUpload \in Nat /\ Allowance \in Nat
  BY IntakeAssumption
<1>3. request' = [step |-> "receiving", size |-> size, overhead |-> overhead, total |-> 0,
                  parsed |-> 0, own |-> own, fields |-> fields, input |-> input,
                  file |-> kind, answer |-> "none"]
  BY <1>1 DEF NoRequest
<1>4. RequestOK'
  BY <1>2, <1>3 DEF RequestOK, Request, Body
<1>5. DocumentOK'
  BY <1>1 DEF IntakeInv, DocumentOK, chunkingVars
<1>6. QED
  BY <1>1, <1>4, <1>5, NothingSplit

LEMMA ReceiveKeeps ==
  ASSUME IntakeInv, NEW n \in 1..(MaxUpload + Allowance + 1), Receive(n)
  PROVE  IntakeInv'
<1> DEFINE total == request.total + n
           limit == MaxUpload + Allowance
<1>1. /\ request.step = "receiving" /\ n <= Body - request.total /\ UNCHANGED chunkingVars
      /\ request' = IF total > limit
           THEN [request EXCEPT !.total = total, !.step = "answered", !.answer = "too large"]
           ELSE [request EXCEPT !.total = total, !.parsed = total,
                                !.step = IF total = Body THEN "parsed" ELSE @]
  BY DEF Receive
<1>2. /\ request \in Request /\ request.answer = "none" /\ request.parsed <= limit
      /\ MaxUpload \in Nat /\ Allowance \in Nat
  BY <1>1, IntakeAssumption DEF IntakeInv, RequestOK
<1>3. /\ n \in Nat /\ limit \in Nat
      /\ total \in Nat /\ Body \in Nat /\ total <= Body
  <2>1. request.total \in Nat /\ request.size \in Nat /\ request.overhead \in Nat
    BY <1>2 DEF Request
  <2>2. Body \in Nat
    BY <2>1 DEF Body
  <2>3. n \in Nat /\ limit \in Nat
    BY <1>2
  <2>4. QED
    BY <1>1, <2>1, <2>2, <2>3
<1>4. DOMAIN request = {"step", "size", "overhead", "total", "parsed", "own", "fields",
                        "input", "file", "answer"}
  BY <1>2 DEF Request
<1> HIDE DEF total, limit
<1>5. request' \in Request /\ Body' = Body
  BY <1>1, <1>2, <1>3 DEF Request, Body
<1>6. /\ request'.total = total /\ request'.parsed <= limit
      /\ \/ request'.step # "answered" /\ request'.answer = "none"
         \/ request'.step = "answered" /\ request'.answer = "too large" /\ total > limit
  BY <1>1, <1>2, <1>3, <1>4
<1>7. RequestOK'
  BY <1>3, <1>5, <1>6 DEF RequestOK, limit
<1>8. DocumentOK'
  BY <1>1 DEF IntakeInv, DocumentOK, chunkingVars
<1>9. QED
  BY <1>1, <1>7, <1>8, NothingSplit

(* What the settings of a request come to.                                  *)
LEMMA SettingsType ==
  ASSUME NEW input \in {"absent", "null"} \cup DOMAIN Inputs
  PROVE  /\ Settings(input).strategy \in DOMAIN Texts
         /\ Settings(input) # Refused => Accepted(Settings(input))
<1> DEFINE unset == [extra |-> FALSE, strategy |-> "unset", max |-> Unset, overlap |-> Unset]
<1>1. ASSUME input = "absent", Settings(input) # Refused
      PROVE  Accepted(Settings(input))
  <2>1. Settings(input) = Normalized(unset)
    BY <1>1 DEF Settings
  <2>2. unset.max \in Int /\ unset.overlap \in Int
    BY DEF Unset
  <2> HIDE DEF unset
  <2>3. QED
    BY <1>1, <2>1, <2>2, NormalizedIsAccepted
<1>2. ASSUME input \notin {"absent", "null"}, Settings(input) # Refused
      PROVE  Accepted(Settings(input))
  <2>1. Settings(input) = Normalized(Inputs[input])
    BY <1>2 DEF Settings
  <2>2. Inputs[input].max \in Int /\ Inputs[input].overlap \in Int
    BY <1>2, IntakeAssumption
  <2>3. QED
    BY <1>2, <2>1, <2>2, NormalizedIsAccepted
<1>3. Settings(input) # Refused => Accepted(Settings(input))
  <2>1. input = "null" => Settings(input) = Refused
    BY DEF Settings
  <2>2. QED
    BY <1>1, <1>2, <2>1
<1>4. Refused.strategy = "refused"
  BY DEF Refused
<1>5. Settings(input).strategy \in Strategies \cup {"refused"}
  <2>1. Settings(input) # Refused => Settings(input) \in Config
    BY <1>3 DEF Accepted
  <2>2. QED
    BY <1>4, <2>1 DEF Config
<1>6. QED
  BY <1>3, <1>5, IntakeAssumption

LEMMA HandleKeeps ==
  ASSUME IntakeInv, NEW text \in Texts[Settings(request.input).strategy], Handle(text)
  PROVE  IntakeInv'
<1> DEFINE settings == Settings(request.input)
           verdict == Verdict(text)
<1>1. /\ request.step = "parsed" /\ split' = split
      /\ request' = [request EXCEPT !.step = "answered", !.answer = verdict]
      /\ document' = IF verdict # "stored" THEN document
                     ELSE [text |-> text, config |-> settings]
  BY DEF Handle
<1>2. /\ request \in Request /\ request.total <= Body /\ request.parsed <= MaxUpload + Allowance
      /\ MaxUpload \in Nat \ {0}
      /\ document = NoDocument /\ split = [p \in Purposes |-> Idle]
  BY <1>1, IntakeAssumption DEF IntakeInv, RequestOK, DocumentOK
<1>3. request.input \in {"absent", "null"} \cup DOMAIN Inputs
  BY <1>2 DEF Request
<1>4. text \in Seq(STRING)
  BY <1>3, SettingsType, IntakeAssumption
<1>5. verdict \in {"forbidden", "bad request", "stored"}
  BY DEF Verdict
<1>6. ASSUME verdict = "stored"
      PROVE  settings # Refused /\ ~Blank(text) /\ request.size \in 1..MaxUpload
  <2> DEFINE read == Min({request.size, MaxUpload + 1})
  <2>1. settings # Refused /\ Extracted(Kinds[request.file], read, text)
    BY <1>6 DEF Verdict
  <2>2. ~Blank(text) /\ 0 < read /\ read <= MaxUpload
    BY <2>1 DEF Extracted
  <2>3. request.size \in Nat /\ MaxUpload \in Nat
    BY <1>2 DEF Request
  <2>4. read = IF request.size <= MaxUpload + 1 THEN request.size ELSE MaxUpload + 1
    BY <2>3, MinOfTwo
  <2> HIDE DEF read
  <2>5. QED
    BY <1>2, <2>1, <2>2, <2>3, <2>4
<1> HIDE DEF verdict
<1>7. RequestOK'
  <2>1. /\ request' \in Request /\ request'.total = request.total /\ Body' = Body
        /\ request'.parsed = request.parsed /\ request'.step = "answered"
        /\ request'.answer = verdict /\ request'.size = request.size
    BY <1>1, <1>2, <1>5 DEF Request, Body
  <2>2. QED
    BY <1>2, <1>5, <1>6, <2>1 DEF RequestOK
<1>8. DocumentOK'
  <2>1. request'.step = "answered"
    BY <1>1, <1>2 DEF Request
  <2>2. CASE verdict = "stored"
    <3>1. Accepted(settings)
      BY <1>3, <1>6, <2>2, SettingsType
    <3>2. document'.text = text /\ document'.config = settings
      BY <1>1, <2>2
    <3> HIDE DEF settings
    <3>3. QED
      BY <1>4, <1>6, <2>1, <2>2, <3>1, <3>2 DEF DocumentOK
  <2>3. CASE verdict # "stored"
    BY <1>1, <1>2, <2>3 DEF DocumentOK
  <2>4. QED
    BY <2>2, <2>3
<1>9. ASSUME NEW p \in Purposes PROVE DOMAIN split'[p] = DOMAIN Idle /\ SplitOK(p)'
  <2>1. split'[p] = Idle
    BY <1>1, <1>2
  <2>2. IsSequence(<<>>)
    BY DEF IsSequence
  <2>3. Idle.step = "idle" /\ Idle.at = 0 /\ Idle.start = 0 /\ Idle.chunks = <<>>
    BY DEF Idle
  <2>4. QED
    BY <2>1, <2>2, <2>3 DEF SplitOK, Strategies
<1>10. QED
  BY <1>1, <1>2, <1>7, <1>8, <1>9 DEF IntakeInv

-----------------------------------------------------------------------------
LEMMA InvariantHolds == Spec => []IntakeInv
<1>1. Init => IntakeInv
  <2> SUFFICES ASSUME Init PROVE IntakeInv
    OBVIOUS
  <2>1. RequestOK
    BY IntakeAssumption DEF Init, NoRequest, RequestOK, Request, Body
  <2>2. ASSUME NEW p \in Purposes PROVE DOMAIN split[p] = DOMAIN Idle /\ SplitOK(p)
    <3>1. split[p] = Idle
      BY DEF Init
    <3>2. IsSequence(<<>>)
      BY DEF IsSequence
    <3>3. Idle.step = "idle" /\ Idle.at = 0 /\ Idle.start = 0 /\ Idle.chunks = <<>>
      BY DEF Idle
    <3>4. QED
      BY <3>1, <3>2, <3>3 DEF SplitOK, Strategies
  <2>3. QED
    BY <2>1, <2>2 DEF Init, IntakeInv, DocumentOK
<1>2. IntakeInv /\ [Next]_vars => IntakeInv'
  <2> SUFFICES ASSUME IntakeInv, [Next]_vars PROVE IntakeInv'
    OBVIOUS
  <2>1. CASE Split /\ UNCHANGED request
    BY <2>1, SplitKeeps
  <2>2. CASE UNCHANGED vars
    BY <2>2 DEF vars, IntakeInv, RequestOK, Body, DocumentOK, SplitOK
  <2>3. QED
    BY <2>1, <2>2, SendKeeps, ReceiveKeeps, HandleKeeps DEF Next
<1>3. QED
  BY <1>1, <1>2, PTL DEF Spec

(* However the body arrives, the parser never sees more than the limit,     *)
(* only a body that breaks it is refused for its size, and what is stored   *)
(* is not empty and not longer than MAX_UPLOAD_BYTES.                       *)
THEOREM UploadAlwaysBounded == Spec => []UploadBounded
<1>1. IntakeInv => UploadBounded
  <2> SUFFICES ASSUME IntakeInv PROVE UploadBounded
    OBVIOUS
  <2>1. RequestOK
    BY DEF IntakeInv
  <2>2. /\ request.size \in Nat /\ request.overhead \in Nat /\ request.total \in Nat
        /\ MaxUpload \in Nat /\ Allowance \in Nat
    BY <2>1, IntakeAssumption DEF RequestOK, Request
  <2>3. request.total <= request.size + request.overhead
    BY <2>1 DEF RequestOK, Body
  <2>4. /\ request.parsed <= MaxUpload + Allowance
        /\ request.answer = "too large" => request.total > MaxUpload + Allowance
        /\ request.answer = "stored" => request.size \in 1..MaxUpload
    BY <2>1 DEF RequestOK
  <2>5. request.total > MaxUpload + Allowance =>
          request.size > MaxUpload \/ request.overhead > Allowance
    BY <2>2, <2>3
  <2>6. QED
    BY <2>4, <2>5 DEF UploadBounded
<1>2. QED
  BY <1>1, InvariantHolds, PTL

(* Whatever text and settings the upload let in: reading them back raises   *)
(* no error, and every strategy finds a chunk, in preview as in indexing.   *)
THEOREM StoredAlwaysSplits == Spec => []StoredCanBeSplit
<1>1. IntakeInv => StoredCanBeSplit
  BY DEF IntakeInv, SplitOK, Strategies, StoredCanBeSplit
<1>2. QED
  BY <1>1, InvariantHolds, PTL

-----------------------------------------------------------------------------
(* The chunks are exact: the inductive invariant, one part per strategy and  *)
(* one for what two calls for the same document have in common.             *)

(* The window that starts at a position, by the settings.                   *)
WindowAt(start, length, config) ==
  [start |-> start,
   end |-> IF start + config.max <= length THEN start + config.max ELSE length,
   headings |-> <<>>]

(* The windows cut so far: the first starts the text, each next one a       *)
(* stride further, and only the last may reach the end.                     *)
WindowRun(chunks, length, config) ==
  /\ \A i \in 1..Len(chunks) :
       /\ chunks[i].start \in 0..(length - 1)
       /\ chunks[i] = WindowAt(chunks[i].start, length, config)
       /\ i = 1 => chunks[i].start = 0
  /\ \A i \in 1..(Len(chunks) - 1) :
       /\ chunks[i].end # length
       /\ chunks[i + 1].start = chunks[i].start + (config.max - config.overlap)

NextStart(chunks, config) ==
  IF Len(chunks) = 0 THEN 0
  ELSE chunks[Len(chunks)].start + (config.max - config.overlap)

AtTheEnd(chunks, length) == Len(chunks) > 0 /\ chunks[Len(chunks)].end = length

(* The call of purpose p has cut a run of windows, stands where the next    *)
(* one starts, and stops at the end of the text or at its limit.            *)
WindowsOK(p) ==
  LET s == split[p]
      length == Len(document.text)
  IN  document.config.strategy = "fixed-character" =>
        /\ WindowRun(s.chunks, length, document.config)
        /\ s.step = "fixed-character" =>
             /\ s.at = NextStart(s.chunks, document.config)
             /\ ~AtTheEnd(s.chunks, length)
        /\ s.step = "done" => AtTheEnd(s.chunks, length) \/ Full(p, s.chunks)

PrevEnd(chunks) == IF Len(chunks) = 0 THEN 0 ELSE chunks[Len(chunks)].end

NoneVisible(text, from, to) == \A i \in from..(to - 1) : White(At(text, i))

(* What one chunk is: trimmed, without a blank line in it, and with one     *)
(* before whatever is visible behind it.                                    *)
IsParagraph(text, c) ==
  /\ c = [start |-> c.start, end |-> c.end, headings |-> <<>>]
  /\ c.start \in Nat /\ c.end \in 1..Len(text) /\ c.start < c.end
  /\ ~White(At(text, c.start)) /\ ~White(At(text, c.end - 1))
  /\ ~BlankLine(text, c.start, c.end)
  /\ \A v \in c.end..(Len(text) - 1) :
       White(At(text, v)) \/ BlankLine(text, c.end, v)

(* The paragraphs cut so far, with nothing visible between them.            *)
ParagraphRun(text, chunks) ==
  /\ \A i \in 1..Len(chunks) : IsParagraph(text, chunks[i])
  /\ Len(chunks) > 0 => NoneVisible(text, 0, chunks[1].start)
  /\ \A i \in 1..(Len(chunks) - 1) :
       /\ chunks[i].end <= chunks[i + 1].start
       /\ NoneVisible(text, chunks[i].end, chunks[i + 1].start)

InChunk(chunks, i) == \E k \in 1..Len(chunks) : i \in chunks[k].start..(chunks[k].end - 1)

(* The text up to a place: every visible character of it is in a chunk.     *)
Passed(text, chunks, at) ==
  /\ at \in 0..Len(text) /\ PrevEnd(chunks) \in Nat /\ PrevEnd(chunks) <= at
  /\ ParagraphRun(text, chunks)
  /\ NoneVisible(text, PrevEnd(chunks), at)
  /\ \A i \in 0..(at - 1) : White(At(text, i)) \/ InChunk(chunks, i)

(* The call of purpose p has passed the text up to where it stands, and     *)
(* stops at the end of the text or at its limit.                            *)
ParagraphsOK(p) ==
  LET s == split[p]
      text == document.text
  IN  document.config.strategy = "paragraph" =>
        /\ Passed(text, s.chunks, s.at)
        /\ s.step = "done" => s.at = Len(text) \/ Full(p, s.chunks)

Starts(text) == Headings(text) \cup {0}
Ends(text) == Headings(text) \cup {Len(text)}

NoHeading(text, from, to) == \A h \in Headings(text) : ~(from < h /\ h < to)

(* What one chunk is: from one heading to the next, under its headings.     *)
IsSection(text, c) ==
  /\ c = [start |-> c.start, end |-> c.end, headings |-> c.headings]
  /\ c.start \in Starts(text) /\ c.end \in Ends(text) /\ c.start < c.end
  /\ NoHeading(text, c.start, c.end)
  /\ IsSequence(c.headings) /\ InOrder(c.headings, Under(text, c.start))

SectionRun(text, chunks) ==
  /\ \A i \in 1..Len(chunks) : IsSection(text, chunks[i])
  /\ Len(chunks) > 0 => chunks[1].start = 0
  /\ \A i \in 1..(Len(chunks) - 1) : chunks[i].end = chunks[i + 1].start

(* The list the loop keeps: the headings that the heading at start stands   *)
(* under, itself included, with their levels.                               *)
Stack(text, headings, start) ==
  /\ IsSequence(headings)
  /\ \A i \in 1..Len(headings) :
       headings[i].level = Level(At(text, headings[i].line))
  /\ InOrder(Labels(headings), Under(text, start))

(* Every heading before a place is where a chunk starts, or the next will.  *)
Cut(text, chunks, start, at) ==
  \A h \in Headings(text) : h < at =>
    h = start \/ \E i \in 1..Len(chunks) : chunks[i].start = h

(* What the loop has after the lines before at.                             *)
Read(text, chunks, start, at, headings) ==
  /\ SectionRun(text, chunks)
  /\ start = PrevEnd(chunks) /\ start \in Starts(text)
  /\ start < at \/ (at = 0 /\ start = 0)
  /\ NoHeading(text, start, at)
  /\ IF at = 0 THEN headings = <<>> ELSE Stack(text, headings, start)
  /\ Cut(text, chunks, start, at)

(* The call of purpose p has read the lines up to where it stands, and      *)
(* stops after the last one or at its limit.                                *)
SectionsOK(p) ==
  LET s == split[p]
      text == document.text
  IN  document.config.strategy = "markdown-heading" =>
        /\ SectionRun(text, s.chunks)
        /\ s.step = "markdown-heading" =>
             /\ s.fence = Fences(text)[s.at]
             /\ Read(text, s.chunks, s.start, s.at, s.headings)
        /\ s.step = "done" =>
             \/ Full(p, s.chunks)
             \/ /\ AtTheEnd(s.chunks, Len(text))
                /\ \A h \in Headings(text) :
                     \E i \in 1..Len(s.chunks) : s.chunks[i].start = h

(* As far as two calls have come, they have cut the same.                   *)
Agree(p, q) ==
  \A i \in (1..Len(split[p].chunks)) \cap (1..Len(split[q].chunks)) :
    split[p].chunks[i] = split[q].chunks[i]

ChunksOK(p) == WindowsOK(p) /\ ParagraphsOK(p) /\ SectionsOK(p)

ExactInv == \A p, q \in Purposes : ChunksOK(p) /\ Agree(p, q)

LEMMA SequenceFacts ==
  ASSUME NEW s, IsSequence(s), NEW e
  PROVE  /\ Len(s) \in Nat /\ DOMAIN s = 1..Len(s)
         /\ Len(Append(s, e)) = Len(s) + 1 /\ Append(s, e)[Len(s) + 1] = e
         /\ \A i \in 1..Len(s) : Append(s, e)[i] = s[i]
BY DEF IsSequence

(* A call that appends the chunk another one has there, if it has one,      *)
(* still agrees with it.                                                    *)
LEMMA AgreeOneMore ==
  ASSUME NEW p, NEW q, Agree(p, q), IsSequence(split[p].chunks), IsSequence(split[q].chunks),
         split'[q].chunks = split[q].chunks,
         NEW w, split'[p].chunks = Append(split[p].chunks, w),
         Len(split[p].chunks) + 1 \in 1..Len(split[q].chunks)
           => split[q].chunks[Len(split[p].chunks) + 1] = w
  PROVE  Agree(p, q)' /\ Agree(q, p)'
<1> DEFINE c == split[p].chunks
           d == split[q].chunks
           e == split'[p].chunks
           n == Len(c)
<1>1. /\ n \in Nat /\ Len(d) \in Nat /\ Len(e) = n + 1 /\ e[n + 1] = w
      /\ \A i \in 1..n : e[i] = c[i]
  BY SequenceFacts
<1>2. \A i \in (1..n) \cap (1..Len(d)) : c[i] = d[i]
  BY DEF Agree
<1>3. n + 1 \in 1..Len(d) => d[n + 1] = w
  OBVIOUS
<1>4. split'[q].chunks = d
  OBVIOUS
<1> HIDE DEF c, d, e, n
<1>5. ASSUME NEW i \in (1..Len(e)) \cap (1..Len(d)) PROVE e[i] = d[i]
  <2>1. i \in 1..n \/ i = n + 1
    BY <1>1, <1>5
  <2>2. QED
    BY <1>1, <1>2, <1>3, <1>5, <2>1
<1>6. QED
  BY <1>4, <1>5 DEF Agree, e

-----------------------------------------------------------------------------
(* Windows.                                                                 *)

LEMMA OneMoreWindow ==
  ASSUME NEW chunks, IsSequence(chunks), NEW length \in Nat, NEW config,
         config.max \in Nat, config.overlap \in Nat, config.overlap < config.max,
         WindowRun(chunks, length, config), ~AtTheEnd(chunks, length),
         NextStart(chunks, config) \in 0..(length - 1)
  PROVE  WindowRun(Append(chunks, WindowAt(NextStart(chunks, config), length, config)),
                   length, config)
<1> DEFINE n == Len(chunks)
           at == NextStart(chunks, config)
           w == WindowAt(at, length, config)
           new == Append(chunks, w)
<1>1. /\ n \in Nat /\ Len(new) = n + 1 /\ new[n + 1] = w
      /\ \A i \in 1..n : new[i] = chunks[i]
  BY SequenceFacts
<1>2. w.start = at
  BY DEF WindowAt
<1>3. n = 0 => at = 0
  BY DEF NextStart
<1>4. n > 0 => at = chunks[n].start + (config.max - config.overlap) /\ chunks[n].end # length
  BY <1>1 DEF NextStart, AtTheEnd
<1> HIDE DEF n, new, at
<1>5. ASSUME NEW i \in 1..(n + 1)
      PROVE  /\ new[i].start \in 0..(length - 1)
             /\ new[i] = WindowAt(new[i].start, length, config)
             /\ i = 1 => new[i].start = 0
  <2>1. CASE i \in 1..n
    BY <1>1, <2>1 DEF WindowRun, n
  <2>2. CASE i = n + 1
    <3>1. at \in 0..(length - 1) /\ new[i] = w
      BY <1>1, <2>2 DEF at
    <3>2. i = 1 => n = 0
      BY <1>1, <2>2
    <3>3. QED
      BY <1>2, <1>3, <3>1, <3>2
  <2>3. QED
    BY <1>1, <2>1, <2>2
<1>6. ASSUME NEW i \in 1..n
      PROVE  /\ new[i].end # length
             /\ new[i + 1].start = new[i].start + (config.max - config.overlap)
  <2>1. CASE i \in 1..(n - 1)
    <3>1. i + 1 \in 1..n /\ new[i] = chunks[i] /\ new[i + 1] = chunks[i + 1]
      BY <1>1, <2>1
    <3>2. QED
      BY <2>1, <3>1 DEF WindowRun, n
  <2>2. CASE i = n
    BY <1>1, <1>2, <1>4, <2>2
  <2>3. QED
    BY <1>1, <2>1, <2>2
<1> HIDE DEF w
<1>7. WindowRun(new, length, config)
  BY <1>1, <1>5, <1>6 DEF WindowRun
<1>8. QED
  BY <1>7 DEF new, w, at

(* What a window appended does to a call.                                   *)
LEMMA WindowStep ==
  ASSUME IntakeInv, ExactInv, NEW p \in Purposes, Window(p)
  PROVE  LET w == WindowAt(split[p].at, Len(document.text), document.config)
         IN  /\ split'[p].chunks = Append(split[p].chunks, w)
             /\ split[p].at = NextStart(split[p].chunks, document.config)
             /\ WindowsOK(p)'
<1> DEFINE s == split[p]
           text == document.text
           config == document.config
           w == WindowAt(s.at, Len(text), config)
           end == Min({s.at + Stored.max, Len(text)})
           chunks == AppendChunk(s.chunks, s.at, end, <<>>)
           u == split'[p]
<1>1. /\ s.step = "fixed-character" /\ document' = document
      /\ split' = [split EXCEPT ![p] =
           [s EXCEPT !.chunks = chunks,
                     !.at = @ + (Stored.max - Stored.overlap),
                     !.step = IF end = Len(text) \/ Full(p, chunks) THEN "done" ELSE @]]
  BY DEF Window
<1>2. /\ DOMAIN s = DOMAIN Idle /\ split = [q \in Purposes |-> split[q]]
      /\ s.at \in Nat /\ IsSequence(s.chunks) /\ s.at < Len(text)
      /\ config.strategy = "fixed-character"
  BY <1>1 DEF IntakeInv, SplitOK, Strategies
<1>3. /\ Len(text) \in Nat \ {0} /\ Stored = config /\ Accepted(config)
  BY <1>1, SplitMeansStored DEF Strategies
<1>4. /\ config.max \in Nat /\ config.overlap \in Nat /\ config.overlap < config.max
  BY <1>2, <1>3 DEF Accepted, Config
<1>5. end = IF s.at + config.max <= Len(text) THEN s.at + config.max ELSE Len(text)
  <2>1. s.at + config.max \in Int /\ Len(text) \in Int
    BY <1>2, <1>3, <1>4
  <2>2. QED
    BY <1>3, <2>1, MinOfTwo
<1>6. s.at < end
  BY <1>2, <1>3, <1>4, <1>5
<1>7. w = [start |-> s.at, end |-> end, headings |-> <<>>]
  BY <1>5 DEF WindowAt
<1>8. chunks = Append(s.chunks, w)
  BY <1>6, <1>7 DEF AppendChunk
<1>9. /\ WindowRun(s.chunks, Len(text), config)
      /\ s.at = NextStart(s.chunks, config) /\ ~AtTheEnd(s.chunks, Len(text))
  BY <1>1, <1>2 DEF ExactInv, ChunksOK, WindowsOK
<1> HIDE DEF end, chunks, w
<1>10. /\ u.chunks = chunks /\ u.at = s.at + (config.max - config.overlap)
       /\ u.step = IF end = Len(text) \/ Full(p, chunks) THEN "done" ELSE "fixed-character"
  <2>1. u = [s EXCEPT !.chunks = chunks,
                      !.at = @ + (Stored.max - Stored.overlap),
                      !.step = IF end = Len(text) \/ Full(p, chunks) THEN "done" ELSE @]
    BY <1>1, <1>2
  <2>2. {"step", "at", "start", "chunks"} \subseteq DOMAIN s
    BY <1>2 DEF Idle
  <2> HIDE DEF s, u
  <2>3. QED
    BY <1>1, <1>2, <1>3, <2>1, <2>2
<1>11. /\ Len(s.chunks) \in Nat /\ Len(chunks) = Len(s.chunks) + 1
       /\ chunks[Len(chunks)] = w
  BY <1>2, <1>8, SequenceFacts
<1>12. w.start = s.at /\ w.end = end
  BY <1>7
<1>13. NextStart(chunks, config) = s.at + (config.max - config.overlap)
  BY <1>11, <1>12 DEF NextStart
<1>14. AtTheEnd(chunks, Len(text)) <=> end = Len(text)
  BY <1>11, <1>12 DEF AtTheEnd
<1>15. WindowRun(chunks, Len(text), config)
  <2>1. NextStart(s.chunks, config) \in 0..(Len(text) - 1)
    BY <1>2, <1>3, <1>9
  <2>2. Len(text) \in Nat
    BY <1>3
  <2>3. QED
    BY <1>2, <1>4, <1>8, <1>9, <2>1, <2>2, OneMoreWindow DEF w
<1> HIDE DEF s, u
<1>16. WindowsOK(p)'
  BY <1>1, <1>10, <1>13, <1>14, <1>15 DEF WindowsOK, u
<1>17. QED
  BY <1>8, <1>9, <1>10, <1>16 DEF s, u, w

(* Where one call cuts a window, the other has cut the same or none yet.    *)
LEMMA WindowAgrees ==
  ASSUME IntakeInv, ExactInv, NEW p \in Purposes, Window(p), NEW q \in Purposes, q # p
  PROVE  Agree(p, q)' /\ Agree(q, p)'
<1> DEFINE c == split[p].chunks
           d == split[q].chunks
           config == document.config
           length == Len(document.text)
           w == WindowAt(split[p].at, length, config)
           n == Len(c)
<1>1. /\ split'[p].chunks = Append(c, w) /\ split[p].at = NextStart(c, config)
  BY WindowStep
<1>2. /\ split'[q].chunks = d /\ document' = document
      /\ config.strategy = "fixed-character"
      /\ IsSequence(c) /\ IsSequence(d)
  BY DEF Window, IntakeInv, SplitOK, Strategies
<1>3. /\ WindowRun(c, length, config) /\ WindowRun(d, length, config)
      /\ Agree(p, q) /\ \A i \in (1..Len(c)) \cap (1..Len(d)) : c[i] = d[i]
  BY <1>2 DEF ExactInv, ChunksOK, WindowsOK, Agree
<1>4. n \in Nat /\ Len(d) \in Nat
  BY <1>2, SequenceFacts
<1>5. n + 1 \in 1..Len(d) => d[n + 1] = w
  <2> SUFFICES ASSUME n + 1 \in 1..Len(d) PROVE d[n + 1] = w
    OBVIOUS
  <2>1. d[n + 1] = WindowAt(d[n + 1].start, length, config)
    BY <1>3 DEF WindowRun
  <2>2. CASE n = 0
    <3>1. d[n + 1].start = 0
      BY <1>3, <2>2 DEF WindowRun
    <3>2. NextStart(c, config) = 0
      BY <2>2 DEF NextStart
    <3>3. QED
      BY <1>1, <2>1, <3>1, <3>2
  <2>3. CASE n # 0
    <3>1. n \in 1..(Len(d) - 1) /\ n \in (1..n) \cap (1..Len(d))
      BY <1>4, <2>3
    <3>2. d[n + 1].start = d[n].start + (config.max - config.overlap)
      BY <1>3, <3>1 DEF WindowRun
    <3>3. d[n] = c[n]
      BY <1>3, <3>1
    <3>4. NextStart(c, config) = c[n].start + (config.max - config.overlap)
      BY <2>3 DEF NextStart
    <3>5. QED
      BY <1>1, <2>1, <3>2, <3>3, <3>4
  <2>4. QED
    BY <2>2, <2>3
<1>6. QED
  BY <1>1, <1>2, <1>3, <1>5, AgreeOneMore

-----------------------------------------------------------------------------
(* Paragraphs.                                                              *)

(* What is visible up to the next boundary, trimmed, is a paragraph.        *)
LEMMA NextParagraph ==
  ASSUME NEW text \in Seq(STRING), NEW at \in 0..Len(text),
         Visible(text, at, NextBoundary(text, at)[1]) # {}
  PROVE  LET bound == NextBoundary(text, at)
             visible == Visible(text, at, bound[1])
             w == [start |-> Min(visible), end |-> Max(visible) + 1, headings |-> <<>>]
         IN  /\ Min(visible) < Max(visible) + 1
             /\ IsParagraph(text, w)
             /\ at <= w.start /\ w.end <= bound[2] /\ bound[2] \in 0..Len(text)
             /\ NoneVisible(text, at, w.start) /\ NoneVisible(text, w.end, bound[2])
             /\ bound[1] = Len(text) => bound[2] = Len(text)
<1> DEFINE bound == NextBoundary(text, at)
           B == Boundaries(text, at)
           visible == Visible(text, at, bound[1])
           left == Min(visible)
           right == Max(visible) + 1
           w == [start |-> left, end |-> right, headings |-> <<>>]
<1>1. Len(text) \in Nat /\ at \in Nat
  OBVIOUS
<1>2. /\ bound[1] \in at..Len(text) /\ bound[2] \in bound[1]..Len(text)
      /\ \A k \in bound[1]..(bound[2] - 1) : White(At(text, k))
      /\ \A c \in B : bound[1] <= c[1]
      /\ bound[1] = Len(text) => bound[2] = Len(text)
      /\ bound[1] # Len(text) => BoundaryFrom(text, bound[1], bound[2])
  <2>1. CASE bound = <<Len(text), Len(text)>> /\ B = {}
    <3>1. bound[1] = Len(text) /\ bound[2] = Len(text)
      BY <2>1
    <3> HIDE DEF bound
    <3>2. QED
      BY <1>1, <2>1, <3>1
  <2>2. CASE bound \in B /\ \A c \in B : bound[1] <= c[1]
    <3>1. /\ bound[1] \in at..(Len(text) - 1) /\ bound[2] \in at..Len(text)
          /\ bound[1] < bound[2] /\ BoundaryFrom(text, bound[1], bound[2])
          /\ \A k \in bound[1]..(bound[2] - 1) : White(At(text, k))
      BY <2>2, BoundaryIsWhite
    <3> HIDE DEF bound, B
    <3>2. bound[1] \in at..Len(text) /\ bound[2] \in bound[1]..Len(text) /\ bound[1] # Len(text)
      BY <1>1, <3>1
    <3>3. QED
      BY <2>2, <3>1, <3>2
  <2>3. QED
    BY <2>1, <2>2, NextBoundaryIs
<1>3. \A i, j \in at..Len(text) : BoundaryFrom(text, i, j) => bound[1] <= i
  <2>1. ASSUME NEW i \in at..Len(text), NEW j \in at..Len(text), BoundaryFrom(text, i, j)
        PROVE  bound[1] <= i
    <3>1. <<i, j>> \in B
      BY <2>1 DEF Boundaries
    <3>2. bound[1] <= <<i, j>>[1]
      BY <1>2, <3>1
    <3>3. QED
      BY <3>2
  <2>2. QED
    BY <2>1
<1> DEFINE low == bound[1]
           high == bound[2]
<1>4. /\ low \in at..Len(text) /\ high \in low..Len(text)
      /\ \A k \in low..(high - 1) : White(At(text, k))
      /\ low # Len(text) => BoundaryFrom(text, low, high)
  BY <1>2
<1>5. visible = {i \in at..(low - 1) : ~White(At(text, i))} /\ visible # {}
  BY DEF Visible
<1> HIDE DEF bound, B, low, high
<1>6. /\ left \in visible /\ \A i \in visible : left <= i
      /\ Max(visible) \in visible /\ \A i \in visible : Max(visible) >= i
  <2>1. visible \subseteq Nat /\ visible \subseteq 0..Len(text)
    BY <1>1, <1>4, <1>5
  <2> HIDE DEF visible
  <2>2. QED
    BY <1>1, <1>5, <2>1, FirstPosition, LastPosition
<1> HIDE DEF visible
<1>7. /\ left \in at..(low - 1) /\ ~White(At(text, left))
      /\ right - 1 \in at..(low - 1) /\ ~White(At(text, right - 1))
      /\ right \in Nat /\ left \in Nat /\ left < right /\ right <= low /\ at <= left
      /\ \A i \in at..(low - 1) : White(At(text, i)) \/ (left <= i /\ i < right)
  <2> DEFINE most == Max(visible)
  <2>1. left \in at..(low - 1) /\ most \in at..(low - 1) /\ right = most + 1 /\ left <= most
        /\ ~White(At(text, left)) /\ ~White(At(text, most))
    BY <1>5, <1>6
  <2>2. \A i \in at..(low - 1) : White(At(text, i)) \/ (left <= i /\ i <= most)
    BY <1>5, <1>6, <2>1
  <2> HIDE DEF left, right, most
  <2>3. right - 1 = most
    BY <1>1, <1>4, <2>1
  <2>4. QED
    BY <1>1, <1>4, <2>1, <2>2, <2>3
<1> HIDE DEF left, right
<1>8. low \in Nat /\ high \in Nat /\ low <= high /\ high <= Len(text) /\ low <= Len(text)
  BY <1>1, <1>4
<1>9. NoneVisible(text, at, left)
  <2>1. \A i \in at..(left - 1) : i \in at..(low - 1) /\ ~(left <= i)
    BY <1>1, <1>7, <1>8
  <2>2. QED
    BY <1>7, <2>1 DEF NoneVisible
<1>10. NoneVisible(text, right, high)
  <2>1. \A i \in right..(high - 1) : \/ i \in at..(low - 1) /\ ~(i < right)
                                     \/ i \in low..(high - 1)
    BY <1>1, <1>7, <1>8
  <2>2. QED
    BY <1>4, <1>7, <2>1 DEF NoneVisible
<1>11. ~BlankLine(text, left, right)
  <2>1. ASSUME NEW i \in left..right, NEW j \in left..right, BoundaryFrom(text, i, j)
        PROVE  FALSE
    <3>1. i \in at..Len(text) /\ j \in at..Len(text)
      BY <1>1, <1>7, <1>8
    <3>2. low <= i
      BY <1>3, <2>1, <3>1 DEF low
    <3>3. i < j - 1
      BY <2>1, <3>1, <1>1 DEF BoundaryFrom
    <3>4. QED
      BY <1>7, <1>8, <3>1, <3>2, <3>3
  <2>2. QED
    BY <2>1 DEF BlankLine
<1>12. ASSUME NEW v \in right..(Len(text) - 1), ~White(At(text, v))
       PROVE  BlankLine(text, right, v)
  <2>1. ~(v \in at..(low - 1)) /\ ~(v \in low..(high - 1))
    BY <1>4, <1>7, <1>12
  <2>2. high <= v /\ low # Len(text)
    BY <1>1, <1>7, <1>8, <2>1
  <2>3. low \in right..v /\ high \in right..v
    BY <1>1, <1>7, <1>8, <2>2
  <2>4. QED
    BY <1>4, <2>2, <2>3 DEF BlankLine
<1>13. right \in 1..Len(text)
  BY <1>1, <1>7, <1>8
<1>14. w.start = left /\ w.end = right /\ w = [start |-> left, end |-> right, headings |-> <<>>]
  OBVIOUS
<1> HIDE DEF w
<1>15. IsParagraph(text, w)
  BY <1>7, <1>11, <1>12, <1>13, <1>14 DEF IsParagraph
<1>16. right <= high /\ high \in 0..Len(text)
  BY <1>7, <1>8
<1>17. low = Len(text) => high = Len(text)
  BY <1>1, <1>8
<1>18. QED
  BY <1>7, <1>9, <1>10, <1>14, <1>15, <1>16, <1>17 DEF w, left, right, low, high, bound, visible

(* Nothing visible up to the next boundary: nothing up to its end.          *)
LEMMA NoParagraph ==
  ASSUME NEW text \in Seq(STRING), NEW at \in 0..Len(text),
         Visible(text, at, NextBoundary(text, at)[1]) = {}
  PROVE  LET bound == NextBoundary(text, at)
         IN  /\ NoneVisible(text, at, bound[2]) /\ bound[2] \in at..Len(text)
             /\ bound[1] = Len(text) => bound[2] = Len(text)
<1> DEFINE bound == NextBoundary(text, at)
<1>1. \A i \in at..(bound[1] - 1) : White(At(text, i))
  BY DEF Visible
<1>2. CASE bound = <<Len(text), Len(text)>>
  <2>1. bound[1] = Len(text) /\ bound[2] = Len(text)
    BY <1>2
  <2> HIDE DEF bound
  <2>2. NoneVisible(text, at, bound[2]) /\ bound[2] \in at..Len(text)
    BY <1>1, <2>1 DEF NoneVisible
  <2>3. QED
    BY <2>1, <2>2 DEF bound
<1>3. CASE bound \in Boundaries(text, at)
  <2>1. /\ bound[1] \in at..(Len(text) - 1) /\ bound[2] \in at..Len(text)
        /\ \A k \in bound[1]..(bound[2] - 1) : White(At(text, k))
    BY <1>3, BoundaryIsWhite
  <2> HIDE DEF bound
  <2>2. \A i \in at..(bound[2] - 1) : i \in at..(bound[1] - 1) \/ i \in bound[1]..(bound[2] - 1)
    BY <2>1
  <2>3. NoneVisible(text, at, bound[2]) /\ bound[1] # Len(text)
    BY <1>1, <2>1, <2>2 DEF NoneVisible
  <2>4. QED
    BY <2>1, <2>3 DEF bound
<1>4. QED
  BY <1>2, <1>3, NextBoundaryIs

LEMMA NoneVisibleJoins ==
  ASSUME NEW text, NEW i \in Nat, NEW j \in Nat, NEW k \in Nat,
         NoneVisible(text, i, j), NoneVisible(text, j, k)
  PROVE  NoneVisible(text, i, k)
<1>1. \A v \in i..(k - 1) : v \in i..(j - 1) \/ v \in j..(k - 1)
  OBVIOUS
<1>2. QED
  BY <1>1 DEF NoneVisible

(* A paragraph is determined by a place before it with nothing visible in   *)
(* between.                                                                 *)
LEMMA ParagraphIsOne ==
  ASSUME NEW text \in Seq(STRING), NEW from \in Nat,
         NEW a, IsParagraph(text, a), from <= a.start, NoneVisible(text, from, a.start),
         NEW b, IsParagraph(text, b), from <= b.start, NoneVisible(text, from, b.start)
  PROVE  a = b
<1>1. Len(text) \in Nat
  OBVIOUS
<1>2. ASSUME NEW x, IsParagraph(text, x)
      PROVE  /\ x = [start |-> x.start, end |-> x.end, headings |-> <<>>]
             /\ x.start \in Nat /\ x.end \in Nat /\ x.start < x.end /\ x.end <= Len(text)
             /\ ~White(At(text, x.start)) /\ ~White(At(text, x.end - 1))
             /\ ~BlankLine(text, x.start, x.end)
             /\ \A v \in x.end..(Len(text) - 1) :
                  White(At(text, v)) \/ BlankLine(text, x.end, v)
  BY <1>1, <1>2 DEF IsParagraph
<1>3. ASSUME NEW x, IsParagraph(text, x), NEW y, IsParagraph(text, y),
             from <= x.start, NoneVisible(text, from, y.start)
      PROVE  y.start <= x.start
  <2>1. x.start \in Nat /\ y.start \in Nat /\ ~White(At(text, x.start))
    BY <1>2, <1>3
  <2>2. ~(x.start \in from..(y.start - 1))
    BY <1>3, <2>1 DEF NoneVisible
  <2>3. QED
    BY <1>3, <2>1, <2>2
<1>4. a.start = b.start
  <2>1. a.start \in Nat /\ b.start \in Nat
    BY <1>2
  <2>2. a.start <= b.start /\ b.start <= a.start
    BY <1>3
  <2>3. QED
    BY <2>1, <2>2
<1>5. ASSUME NEW x, IsParagraph(text, x), NEW y, IsParagraph(text, y), x.start = y.start
      PROVE  y.end <= x.end
  <2> SUFFICES ASSUME x.end < y.end PROVE FALSE
    <3>1. x.end \in Nat /\ y.end \in Nat
      BY <1>2, <1>5
    <3>2. QED
      BY <3>1
  <2>1. /\ x.end \in Nat /\ y.end \in Nat /\ x.start \in Nat /\ x.start < x.end
        /\ y.end <= Len(text) /\ ~White(At(text, y.end - 1))
        /\ ~BlankLine(text, y.start, y.end)
    BY <1>2, <1>5
  <2>2. y.end - 1 \in x.end..(Len(text) - 1)
    BY <1>1, <2>1
  <2>3. BlankLine(text, x.end, y.end - 1)
    BY <1>2, <1>5, <2>1, <2>2
  <2>4. PICK i \in x.end..(y.end - 1), j \in x.end..(y.end - 1) : BoundaryFrom(text, i, j)
    BY <2>3 DEF BlankLine
  <2>5. i \in y.start..y.end /\ j \in y.start..y.end
    BY <1>5, <2>1, <2>4
  <2>6. QED
    BY <2>1, <2>4, <2>5 DEF BlankLine
<1>6. a.end = b.end
  <2>1. a.end \in Nat /\ b.end \in Nat
    BY <1>2
  <2>2. a.end <= b.end /\ b.end <= a.end
    BY <1>4, <1>5
  <2>3. QED
    BY <2>1, <2>2
<1>7. a = [start |-> a.start, end |-> a.end, headings |-> <<>>]
      /\ b = [start |-> b.start, end |-> b.end, headings |-> <<>>]
  BY <1>2
<1>8. QED
  BY <1>4, <1>6, <1>7

LEMMA OneMoreParagraph ==
  ASSUME NEW text \in Seq(STRING), NEW chunks, IsSequence(chunks), ParagraphRun(text, chunks),
         NEW w, IsParagraph(text, w), PrevEnd(chunks) <= w.start,
         NoneVisible(text, PrevEnd(chunks), w.start)
  PROVE  ParagraphRun(text, Append(chunks, w))
<1> DEFINE n == Len(chunks)
           new == Append(chunks, w)
<1>1. /\ n \in Nat /\ Len(new) = n + 1 /\ new[n + 1] = w
      /\ \A i \in 1..n : new[i] = chunks[i]
  BY SequenceFacts
<1>2. PrevEnd(chunks) = IF n = 0 THEN 0 ELSE chunks[n].end
  BY DEF PrevEnd
<1>3. /\ \A i \in 1..n : IsParagraph(text, chunks[i])
      /\ n > 0 => NoneVisible(text, 0, chunks[1].start)
      /\ \A i \in 1..(n - 1) : /\ chunks[i].end <= chunks[i + 1].start
                               /\ NoneVisible(text, chunks[i].end, chunks[i + 1].start)
  BY DEF ParagraphRun
<1> HIDE DEF new, n
<1>4. ASSUME NEW i \in 1..(n + 1) PROVE IsParagraph(text, new[i])
  <2>1. i \in 1..n \/ i = n + 1
    BY <1>1
  <2>2. QED
    BY <1>1, <1>3, <2>1
<1>5. NoneVisible(text, 0, new[1].start)
  <2>1. CASE n = 0
    BY <1>1, <1>2, <2>1
  <2>2. CASE n # 0
    <3>1. 1 \in 1..n /\ n > 0
      BY <1>1, <2>2
    <3>2. QED
      BY <1>1, <1>3, <3>1
  <2>3. QED
    BY <2>1, <2>2
<1>6. ASSUME NEW i \in 1..n
      PROVE  /\ new[i].end <= new[i + 1].start
             /\ NoneVisible(text, new[i].end, new[i + 1].start)
  <2>1. CASE i = n
    <3>1. n # 0 /\ new[i] = chunks[n] /\ new[i + 1] = w
      BY <1>1, <2>1
    <3>2. QED
      BY <1>2, <3>1
  <2>2. CASE i # n
    <3>1. i \in 1..(n - 1) /\ i + 1 \in 1..n
      BY <1>1, <2>2
    <3>2. QED
      BY <1>1, <1>3, <3>1
  <2>3. QED
    BY <2>1, <2>2
<1>7. ParagraphRun(text, new)
  BY <1>1, <1>4, <1>5, <1>6 DEF ParagraphRun
<1>8. QED
  BY <1>7 DEF new

(* The next paragraph of one run is the one another run has there.          *)
LEMMA SameParagraph ==
  ASSUME NEW text \in Seq(STRING),
         NEW c, IsSequence(c), ParagraphRun(text, c),
         NEW d, IsSequence(d), ParagraphRun(text, d),
         \A i \in (1..Len(c)) \cap (1..Len(d)) : c[i] = d[i],
         NEW w, IsParagraph(text, w), PrevEnd(c) <= w.start,
         NoneVisible(text, PrevEnd(c), w.start),
         Len(c) + 1 \in 1..Len(d)
  PROVE  d[Len(c) + 1] = w
<1> DEFINE n == Len(c)
           v == d[n + 1]
<1>1. n \in Nat /\ Len(d) \in Nat /\ n + 1 \in 1..Len(d)
  BY SequenceFacts
<1>2. IsParagraph(text, v)
  BY <1>1 DEF ParagraphRun
<1>3. PrevEnd(c) \in Nat /\ PrevEnd(c) <= v.start /\ NoneVisible(text, PrevEnd(c), v.start)
  <2>1. CASE n = 0
    <3>1. PrevEnd(c) = 0 /\ v = d[1] /\ Len(d) > 0
      BY <1>1, <2>1 DEF PrevEnd
    <3>2. v.start \in Nat
      BY <1>2 DEF IsParagraph
    <3>3. NoneVisible(text, 0, d[1].start)
      BY <3>1 DEF ParagraphRun
    <3> HIDE DEF v
    <3>4. QED
      BY <3>1, <3>2, <3>3
  <2>2. CASE n # 0
    <3>1. n \in (1..n) \cap (1..Len(d)) /\ n \in 1..(Len(d) - 1) /\ n \in 1..n
      BY <1>1, <2>2
    <3>2. PrevEnd(c) = c[n].end /\ c[n] = d[n]
      BY <2>2, <3>1 DEF PrevEnd
    <3>3. d[n].end <= v.start /\ NoneVisible(text, d[n].end, v.start)
      BY <3>1 DEF ParagraphRun
    <3>4. c[n].end \in Nat
      <4>1. IsParagraph(text, c[n])
        BY <3>1 DEF ParagraphRun
      <4>2. Len(text) \in Nat
        OBVIOUS
      <4>3. QED
        BY <4>1, <4>2 DEF IsParagraph
    <3>5. QED
      BY <3>2, <3>3, <3>4
  <2>3. QED
    BY <2>1, <2>2
<1> HIDE DEF v
<1>4. v = w
  BY <1>2, <1>3, ParagraphIsOne
<1>5. QED
  BY <1>4 DEF v

LEMMA PassedNothing ==
  ASSUME NEW text \in Seq(STRING), NEW chunks, NEW at, Passed(text, chunks, at),
         NEW to \in at..Len(text), NoneVisible(text, at, to)
  PROVE  Passed(text, chunks, to)
<1>1. /\ at \in Nat /\ to \in Nat /\ to \in 0..Len(text) /\ at <= to
      /\ PrevEnd(chunks) \in Nat /\ PrevEnd(chunks) <= at
  BY DEF Passed
<1>2. NoneVisible(text, PrevEnd(chunks), to)
  BY <1>1, NoneVisibleJoins DEF Passed
<1>3. ASSUME NEW i \in 0..(to - 1) PROVE White(At(text, i)) \/ InChunk(chunks, i)
  <2>1. i \in 0..(at - 1) \/ i \in at..(to - 1)
    BY <1>1
  <2>2. QED
    BY <2>1 DEF Passed, NoneVisible
<1>4. QED
  BY <1>1, <1>2, <1>3 DEF Passed

LEMMA PassedParagraph ==
  ASSUME NEW text \in Seq(STRING), NEW chunks, IsSequence(chunks),
         NEW at, Passed(text, chunks, at),
         NEW w, IsParagraph(text, w), at <= w.start, NoneVisible(text, at, w.start)
  PROVE  /\ Passed(text, Append(chunks, w), w.end)
         /\ PrevEnd(chunks) <= w.start /\ NoneVisible(text, PrevEnd(chunks), w.start)
<1> DEFINE n == Len(chunks)
           new == Append(chunks, w)
<1>1. /\ n \in Nat /\ Len(new) = n + 1 /\ new[n + 1] = w
      /\ \A i \in 1..n : new[i] = chunks[i]
  BY SequenceFacts
<1>2. /\ Len(text) \in Nat /\ w.start \in Nat /\ w.end \in Nat /\ w.start < w.end
      /\ w.end <= Len(text)
  BY DEF IsParagraph
<1>3. at \in Nat /\ PrevEnd(chunks) \in Nat /\ PrevEnd(chunks) <= at
  BY DEF Passed
<1>4. PrevEnd(chunks) <= w.start /\ NoneVisible(text, PrevEnd(chunks), w.start)
  BY <1>2, <1>3, NoneVisibleJoins DEF Passed
<1>5. ParagraphRun(text, new)
  BY <1>4, OneMoreParagraph DEF Passed
<1>6. PrevEnd(new) = w.end
  <2>1. Len(new) # 0 /\ new[Len(new)] = w
    BY <1>1
  <2>2. QED
    BY <2>1 DEF PrevEnd
<1>7. \A i \in 0..(at - 1) : White(At(text, i)) \/ InChunk(chunks, i)
  BY DEF Passed
<1> HIDE DEF new, n
<1>8. NoneVisible(text, w.end, w.end)
  BY <1>2 DEF NoneVisible
<1>9. ASSUME NEW i \in 0..(w.end - 1) PROVE White(At(text, i)) \/ InChunk(new, i)
  <2>1. i \in 0..(at - 1) \/ i \in at..(w.start - 1) \/ i \in w.start..(w.end - 1)
    BY <1>2, <1>3
  <2>2. CASE i \in 0..(at - 1) /\ InChunk(chunks, i)
    <3>1. PICK k \in 1..n : i \in chunks[k].start..(chunks[k].end - 1)
      BY <2>2 DEF InChunk, n
    <3>2. k \in 1..Len(new) /\ new[k] = chunks[k]
      BY <1>1
    <3>3. QED
      BY <3>1, <3>2 DEF InChunk
  <2>3. CASE i \in at..(w.start - 1)
    BY <2>3 DEF NoneVisible
  <2>4. CASE i \in w.start..(w.end - 1)
    <3>1. n + 1 \in 1..Len(new)
      BY <1>1
    <3>2. QED
      BY <1>1, <2>4, <3>1 DEF InChunk
  <2>5. QED
    BY <1>7, <2>1, <2>2, <2>3, <2>4
<1>10. w.end \in 0..Len(text) /\ w.end <= w.end
  BY <1>2
<1>11. Passed(text, new, w.end)
  BY <1>2, <1>5, <1>6, <1>8, <1>9, <1>10 DEF Passed
<1>12. QED
  BY <1>4, <1>11 DEF new

(* One iteration of paragraph.                                              *)
LEMMA ParagraphStep ==
  ASSUME IntakeInv, ExactInv, NEW p \in Purposes, Paragraph(p)
  PROVE  /\ ParagraphsOK(p)'
         /\ \A q \in Purposes \ {p} : Agree(p, q)' /\ Agree(q, p)'
<1> DEFINE s == split[p]
           text == document.text
           bound == NextBoundary(text, s.at)
           visible == Visible(text, s.at, bound[1])
           w == [start |-> Min(visible), end |-> Max(visible) + 1, headings |-> <<>>]
           chunks == IF visible = {} THEN s.chunks
                     ELSE AppendChunk(s.chunks, Min(visible), Max(visible) + 1, <<>>)
           u == split'[p]
<1>1. /\ s.step = "paragraph" /\ document' = document
      /\ \A q \in Purposes \ {p} : split'[q] = split[q]
      /\ s.start = s.at
      /\ split' = [split EXCEPT ![p] =
           [s EXCEPT !.chunks = chunks, !.at = bound[2], !.start = bound[2],
                     !.step = IF bound[1] = Len(text) \/ Full(p, chunks) THEN "done" ELSE @]]
  BY DEF Paragraph, IntakeInv, SplitOK
<1>2. /\ DOMAIN s = DOMAIN Idle /\ split = [q \in Purposes |-> split[q]]
      /\ s.at \in Nat /\ IsSequence(s.chunks) /\ s.at <= Len(text)
      /\ document.config.strategy = "paragraph"
  BY <1>1 DEF IntakeInv, SplitOK, Strategies
<1>3. Len(text) \in Nat /\ text \in Seq(STRING) /\ s.at \in 0..Len(text)
  BY <1>1, <1>2, SplitMeansStored DEF Strategies
<1>4. /\ u.chunks = chunks /\ u.at = bound[2]
      /\ u.step = IF bound[1] = Len(text) \/ Full(p, chunks) THEN "done" ELSE "paragraph"
  <2> HIDE DEF bound, chunks, text
  <2>1. u = [s EXCEPT !.chunks = chunks, !.at = bound[2], !.start = bound[2],
                      !.step = IF bound[1] = Len(text) \/ Full(p, chunks) THEN "done" ELSE @]
    BY <1>1, <1>2
  <2>2. {"step", "at", "start", "chunks"} \subseteq DOMAIN s
    BY <1>2 DEF Idle
  <2> HIDE DEF s, u
  <2>3. QED
    BY <1>1, <1>2, <2>1, <2>2
<1>5. Passed(text, s.chunks, s.at)
  BY <1>2 DEF ExactInv, ChunksOK, ParagraphsOK
<1>6. \A q \in Purposes \ {p} : /\ IsSequence(split[q].chunks) /\ Agree(p, q)
                                /\ ParagraphRun(text, split[q].chunks)
  BY <1>2 DEF IntakeInv, SplitOK, ExactInv, ChunksOK, ParagraphsOK, Passed
<1>7. /\ Passed(text, chunks, bound[2])
      /\ bound[1] = Len(text) => bound[2] = Len(text)
      /\ \A q \in Purposes \ {p} : Agree(p, q)' /\ Agree(q, p)'
  <2>1. CASE visible = {}
    <3>1. chunks = s.chunks
      BY <2>1
    <3>2. /\ NoneVisible(text, s.at, bound[2]) /\ bound[2] \in s.at..Len(text)
          /\ bound[1] = Len(text) => bound[2] = Len(text)
      BY <1>3, <2>1, NoParagraph
    <3>3. Passed(text, chunks, bound[2])
      <4> HIDE DEF bound, chunks, s, text
      <4>1. QED
        BY <1>3, <1>5, <3>1, <3>2, PassedNothing
    <3>4. \A q \in Purposes \ {p} : Agree(p, q)' /\ Agree(q, p)'
      <4>1. u.chunks = s.chunks
        BY <1>4, <3>1
      <4>2. \A q \in Purposes \ {p} : Agree(p, q) /\ split'[q] = split[q]
        BY <1>1, <1>6
      <4> HIDE DEF bound, chunks, visible
      <4>3. QED
        BY <4>1, <4>2 DEF Agree
    <3>5. QED
      BY <3>2, <3>3, <3>4
  <2>2. CASE visible # {}
    <3>1. /\ Min(visible) < Max(visible) + 1 /\ IsParagraph(text, w)
          /\ s.at <= w.start /\ w.end <= bound[2] /\ bound[2] \in 0..Len(text)
          /\ NoneVisible(text, s.at, w.start) /\ NoneVisible(text, w.end, bound[2])
          /\ bound[1] = Len(text) => bound[2] = Len(text)
      BY <1>3, <2>2, NextParagraph
    <3>2. chunks = Append(s.chunks, w)
      BY <2>2, <3>1 DEF AppendChunk
    <3> HIDE DEF bound, visible, w, chunks
    <3>3. /\ Passed(text, chunks, w.end)
          /\ PrevEnd(s.chunks) <= w.start /\ NoneVisible(text, PrevEnd(s.chunks), w.start)
      BY <1>2, <1>3, <1>5, <3>1, <3>2, PassedParagraph
    <3>4. Passed(text, chunks, bound[2])
      <4>1. w.end \in Nat
        BY <1>3, <3>1 DEF IsParagraph
      <4>2. bound[2] \in w.end..Len(text)
        BY <1>3, <3>1, <4>1
      <4>3. QED
        BY <1>3, <3>1, <3>3, <4>2, PassedNothing
    <3>5. ASSUME NEW q \in Purposes \ {p} PROVE Agree(p, q)' /\ Agree(q, p)'
      <4> DEFINE c == s.chunks
                 d == split[q].chunks
      <4>1. /\ IsSequence(c) /\ IsSequence(d) /\ ParagraphRun(text, c) /\ ParagraphRun(text, d)
            /\ Agree(p, q) /\ \A i \in (1..Len(c)) \cap (1..Len(d)) : c[i] = d[i]
        BY <1>2, <1>5, <1>6 DEF Passed, Agree
      <4>2. Len(c) + 1 \in 1..Len(d) => d[Len(c) + 1] = w
        <5> HIDE DEF c, d
        <5>1. PrevEnd(c) <= w.start /\ NoneVisible(text, PrevEnd(c), w.start)
          BY <3>3 DEF c
        <5>2. QED
          BY <1>3, <3>1, <4>1, <5>1, SameParagraph
      <4>3. split'[q].chunks = d /\ split'[p].chunks = Append(c, w)
        BY <1>1, <1>4, <3>2
      <4>4. QED
        BY <4>1, <4>2, <4>3, AgreeOneMore
    <3>6. QED
      BY <3>1, <3>4, <3>5
  <2>3. QED
    BY <2>1, <2>2
<1> HIDE DEF bound, visible, chunks, w
<1>8. ParagraphsOK(p)'
  <2>1. u.step = "done" => u.at = Len(text) \/ Full(p, u.chunks)
    BY <1>4, <1>7
  <2>2. Passed(text, u.chunks, u.at)
    BY <1>4, <1>7
  <2> HIDE DEF u, text, s
  <2>3. QED
    BY <1>1, <2>1, <2>2 DEF ParagraphsOK, u, text
<1>9. QED
  BY <1>7, <1>8

-----------------------------------------------------------------------------
(* Sections.                                                                *)

(* The recursive function that tells which fence is open is defined for     *)
(* every text.                                                              *)
LEMMA FencesStep ==
  ASSUME NEW text, Len(text) \in Nat
  PROVE  /\ Fences(text)[0] = NoFence
         /\ \A i \in 0..(Len(text) - 1) :
              Fences(text)[i + 1] = After(Fences(text)[i], At(text, i))
<1> DEFINE IsOpen(f, n) ==
             f = [i \in 0..n |-> IF i = 0 THEN NoFence ELSE After(f[i - 1], text[i])]
           Bad == {n \in Nat : ~ \E f : IsOpen(f, n)}
<1>1. ASSUME Bad # {} PROVE FALSE
  <2> DEFINE n == Min(Bad)
  <2>1. n \in Bad /\ \A k \in Bad : n <= k
    <3>1. Bad \subseteq Nat
      OBVIOUS
    <3> HIDE DEF Bad
    <3>2. QED
      BY <1>1, <3>1, FirstPosition
  <2> HIDE DEF n
  <2>2. n \in Nat /\ ~ \E f : IsOpen(f, n)
    BY <2>1
  <2>3. CASE n = 0
    <3> DEFINE f == [i \in 0..0 |-> NoFence]
    <3>1. IsOpen(f, 0)
      OBVIOUS
    <3>2. QED
      BY <2>2, <2>3, <3>1
  <2>4. CASE n # 0
    <3>1. n - 1 \in Nat /\ n - 1 \notin Bad
      BY <2>1, <2>2, <2>4
    <3>2. PICK g : IsOpen(g, n - 1)
      BY <3>1
    <3> DEFINE f == [i \in 0..n |-> IF i = n THEN After(g[n - 1], text[n]) ELSE g[i]]
    <3>3. \A i \in 0..(n - 1) : g[i] = IF i = 0 THEN NoFence ELSE After(g[i - 1], text[i])
      BY <3>2
    <3>4. ASSUME NEW i \in 0..n
          PROVE  f[i] = IF i = 0 THEN NoFence ELSE After(f[i - 1], text[i])
      <4>1. CASE i = n
        <5>1. i # 0 /\ i - 1 \in 0..n /\ i - 1 # n
          BY <2>2, <2>4, <4>1
        <5>2. f[i - 1] = g[n - 1] /\ f[i] = After(g[n - 1], text[n])
          BY <4>1, <5>1
        <5>3. QED
          BY <4>1, <5>1, <5>2
      <4>2. CASE i # n
        <5>1. i \in 0..(n - 1)
          BY <2>2, <4>2
        <5>2. f[i] = g[i]
          BY <4>2
        <5>3. i # 0 => i - 1 \in 0..n /\ i - 1 # n
          BY <2>2, <5>1
        <5>4. i # 0 => f[i - 1] = g[i - 1]
          BY <5>3
        <5>5. QED
          BY <3>3, <5>1, <5>2, <5>4
      <4>3. QED
        BY <4>1, <4>2
    <3>5. f = [i \in 0..n |-> f[i]]
      OBVIOUS
    <3> HIDE DEF f
    <3>6. IsOpen(f, n)
      BY <3>4, <3>5
    <3>7. QED
      BY <2>2, <3>6
  <2>5. QED
    BY <2>3, <2>4
<1>2. \E f : IsOpen(f, Len(text))
  BY <1>1
<1> DEFINE open == Fences(text)
<1>3. open = [i \in 0..Len(text) |-> IF i = 0 THEN NoFence ELSE After(open[i - 1], text[i])]
  BY <1>2 DEF Fences
<1> HIDE DEF open
<1>4. open[0] = NoFence
  BY <1>3
<1>5. ASSUME NEW i \in 0..(Len(text) - 1) PROVE open[i + 1] = After(open[i], At(text, i))
  <2>1. i + 1 \in 0..Len(text) /\ i + 1 # 0 /\ (i + 1) - 1 = i /\ i < Len(text)
    OBVIOUS
  <2>2. open[i + 1] = After(open[i], text[i + 1])
    BY <1>3, <2>1
  <2>3. QED
    BY <2>1, <2>2 DEF At
<1>6. QED
  BY <1>4, <1>5 DEF open

(* Positions in ascending order are one sequence.                           *)
LEMMA InOrderIsOne ==
  ASSUME NEW S, S \subseteq Nat, NEW a, NEW b, IsSequence(a), IsSequence(b),
         InOrder(a, S), InOrder(b, S)
  PROVE  a = b
<1>1. /\ Len(a) \in Nat /\ DOMAIN a = 1..Len(a) /\ Len(b) \in Nat /\ DOMAIN b = 1..Len(b)
      /\ a = [i \in 1..Len(a) |-> a[i]] /\ b = [i \in 1..Len(b) |-> b[i]]
  BY DEF IsSequence
<1>2. /\ \A i \in 1..Len(a) : a[i] \in Nat /\ \E j \in 1..Len(b) : b[j] = a[i]
      /\ \A j \in 1..Len(b) : b[j] \in Nat /\ \E i \in 1..Len(a) : a[i] = b[j]
      /\ \A i, j \in 1..Len(a) : i < j => a[i] < a[j]
      /\ \A i, j \in 1..Len(b) : i < j => b[i] < b[j]
  BY <1>1 DEF InOrder
<1> DEFINE Bad == {k \in Nat \ {0} : ~ (/\ k \in 1..Len(a) <=> k \in 1..Len(b)
                                        /\ k \in 1..Len(a) => a[k] = b[k])}
<1>3. ASSUME Bad # {} PROVE FALSE
  <2> DEFINE k == Min(Bad)
  <2>1. k \in Bad /\ \A j \in Bad : k <= j
    <3>1. Bad \subseteq Nat
      OBVIOUS
    <3> HIDE DEF Bad
    <3>2. QED
      BY <1>3, <3>1, FirstPosition
  <2> HIDE DEF k
  <2>2. k \in Nat \ {0} /\ \A j \in 1..(k - 1) : j \notin Bad
    BY <2>1
  <2>3. \A j \in 1..(k - 1) : /\ j \in 1..Len(a) <=> j \in 1..Len(b)
                              /\ j \in 1..Len(a) => a[j] = b[j]
    BY <2>2
  <2>4. ~ (/\ k \in 1..Len(a) <=> k \in 1..Len(b)
           /\ k \in 1..Len(a) => a[k] = b[k])
    BY <2>1
  <2> HIDE DEF Bad
  <2>5. ASSUME k \in 1..Len(a), k \notin 1..Len(b) PROVE FALSE
    <3>1. PICK j \in 1..Len(b) : b[j] = a[k]
      BY <1>2, <2>5
    <3>2. j \in 1..(k - 1) /\ j \in 1..Len(a) /\ j < k
      BY <1>1, <2>2, <2>5, <3>1
    <3>3. a[j] = b[j] /\ a[j] < a[k]
      BY <1>2, <2>3, <2>5, <3>2
    <3>4. a[k] \in Nat
      BY <1>2, <2>5
    <3>5. QED
      BY <3>1, <3>3, <3>4
  <2>6. ASSUME k \in 1..Len(b), k \notin 1..Len(a) PROVE FALSE
    <3>1. PICK j \in 1..Len(a) : a[j] = b[k]
      BY <1>2, <2>6
    <3>2. j \in 1..(k - 1) /\ j \in 1..Len(b) /\ j < k
      BY <1>1, <2>2, <2>6, <3>1
    <3>3. a[j] = b[j] /\ b[j] < b[k]
      BY <1>2, <2>3, <2>6, <3>1, <3>2
    <3>4. b[k] \in Nat
      BY <1>2, <2>6
    <3>5. QED
      BY <3>1, <3>3, <3>4
  <2>7. ASSUME k \in 1..Len(a), k \in 1..Len(b), a[k] # b[k] PROVE FALSE
    <3>1. a[k] \in Nat /\ b[k] \in Nat
      BY <1>2, <2>7
    <3>2. CASE a[k] < b[k]
      <4>1. PICK j \in 1..Len(b) : b[j] = a[k]
        BY <1>2, <2>7
      <4>2. j < k
        <5>1. ASSUME k < j PROVE FALSE
          <6>1. b[k] < b[j]
            BY <1>2, <2>7, <4>1, <5>1
          <6>2. QED
            BY <3>1, <3>2, <4>1, <6>1
        <5>2. k # j
          BY <3>1, <3>2, <4>1
        <5>3. QED
          BY <1>1, <2>2, <5>1, <5>2
      <4>3. a[j] = b[j] /\ j \in 1..Len(a)
        BY <1>1, <2>2, <2>3, <2>7, <4>2
      <4>4. a[j] < a[k]
        BY <1>2, <2>7, <4>2, <4>3
      <4>5. QED
        BY <3>1, <4>1, <4>3, <4>4
    <3>3. CASE b[k] < a[k]
      <4>1. PICK j \in 1..Len(a) : a[j] = b[k]
        BY <1>2, <2>7
      <4>2. j < k
        <5>1. ASSUME k < j PROVE FALSE
          <6>1. a[k] < a[j]
            BY <1>2, <2>7, <4>1, <5>1
          <6>2. QED
            BY <3>1, <3>3, <4>1, <6>1
        <5>2. k # j
          BY <3>1, <3>3, <4>1
        <5>3. QED
          BY <1>1, <2>2, <5>1, <5>2
      <4>3. a[j] = b[j] /\ j \in 1..Len(b)
        BY <1>1, <2>2, <2>3, <2>7, <4>2
      <4>4. b[j] < b[k]
        BY <1>2, <2>7, <4>2, <4>3
      <4>5. QED
        BY <3>1, <4>1, <4>3, <4>4
    <3>4. QED
      BY <2>7, <3>1, <3>2, <3>3
  <2>8. QED
    BY <2>4, <2>5, <2>6, <2>7
<1>4. \A k \in Nat \ {0} : /\ k \in 1..Len(a) <=> k \in 1..Len(b)
                           /\ k \in 1..Len(a) => a[k] = b[k]
  BY <1>3
<1> HIDE DEF Bad
<1>5. Len(a) = Len(b)
  <2> DEFINE m == Len(a)
             n == Len(b)
  <2>1. m \in Nat /\ n \in Nat /\ \A k \in Nat \ {0} : k \in 1..m <=> k \in 1..n
    BY <1>1, <1>4
  <2> HIDE DEF m, n
  <2>2. m # 0 => m \in 1..n
    BY <2>1
  <2>3. n # 0 => n \in 1..m
    BY <2>1
  <2>4. m = n
    BY <2>1, <2>2, <2>3
  <2>5. QED
    BY <2>4 DEF m, n
<1>6. \A k \in 1..Len(a) : a[k] = b[k]
  BY <1>1, <1>4
<1>7. [k \in 1..Len(a) |-> a[k]] = [k \in 1..Len(b) |-> b[k]]
  BY <1>5, <1>6
<1>8. QED
  BY <1>1, <1>7

(* Filtering a list of rising levels keeps a beginning of it.               *)
LEMMA OuterIsABeginning ==
  ASSUME NEW headings, IsSequence(headings), NEW level \in Nat,
         \A i \in 1..Len(headings) : headings[i].level \in Nat,
         \A i, j \in 1..Len(headings) : i < j => headings[i].level < headings[j].level
  PROVE  LET outer == Outer(headings, level)
         IN  /\ IsSequence(outer) /\ Len(outer) <= Len(headings)
             /\ \A i \in 1..Len(outer) : outer[i] = headings[i]
             /\ \A i \in 1..Len(headings) : headings[i].level < level <=> i <= Len(outer)
<1> DEFINE n == Len(headings)
           kept == {i \in DOMAIN headings : headings[i].level < level}
           m == IF kept = {} THEN 0 ELSE Max(kept)
           outer == Outer(headings, level)
<1>1. n \in Nat /\ DOMAIN headings = 1..n
  BY SequenceFacts
<1>2. m \in 0..n /\ \A i \in 1..n : headings[i].level < level <=> i <= m
  <2>1. CASE kept = {}
    BY <1>1, <2>1
  <2>2. CASE kept # {}
    <3>1. kept \subseteq 0..n
      BY <1>1
    <3>2. Max(kept) \in kept /\ \A i \in kept : Max(kept) >= i
      <4> HIDE DEF kept
      <4>1. QED
        BY <1>1, <2>2, <3>1, LastPosition
    <3>3. m \in 1..n /\ headings[m].level < level /\ \A i \in kept : i <= m
      BY <1>1, <2>2, <3>2
    <3> HIDE DEF m
    <3>4. ASSUME NEW i \in 1..n PROVE headings[i].level < level <=> i <= m
      <4>1. headings[i].level < level => i <= m
        BY <1>1, <3>3
      <4>2. i < m => headings[i].level < headings[m].level
        BY <3>3
      <4>3. headings[i].level \in Nat /\ headings[m].level \in Nat
        BY <3>3
      <4>4. i < m => headings[i].level < level
        BY <3>3, <4>2, <4>3
      <4>5. i = m => headings[i].level < level
        BY <3>3
      <4>6. QED
        BY <3>3, <4>1, <4>4, <4>5
    <3>5. QED
      BY <1>1, <3>3, <3>4
  <2>3. QED
    BY <2>1, <2>2
<1> HIDE DEF m
<1>3. kept = 1..m
  BY <1>1, <1>2
<1>4. \A k \in 0..m : Cardinality(1..k) = k
  <2>1. \A k \in 0..m : Cardinality(1..k) = IF 1 > k THEN 0 ELSE k - 1 + 1
    BY <1>2, FS_Interval
  <2>2. QED
    BY <1>2, <2>1
<1> HIDE DEF kept
<1>5. \A i \in kept : Cardinality({j \in kept : j <= i}) = i
  <2>1. ASSUME NEW i \in 1..m PROVE Cardinality({j \in kept : j <= i}) = i
    <3>1. {j \in kept : j <= i} = 1..i
      BY <1>2, <1>3
    <3>2. i \in 0..m
      BY <1>2
    <3>3. QED
      BY <1>4, <3>1, <3>2
  <2>2. QED
    BY <1>3, <2>1
<1>6. Cardinality(kept) = m
  <2>1. m \in 0..m
    BY <1>2
  <2>2. QED
    BY <1>3, <1>4, <2>1
<1>7. outer = [k \in 1..m |-> headings[k]]
  <2> DEFINE Kept(k) == CHOOSE i \in kept : Cardinality({j \in kept : j <= i}) = k
  <2>1. ASSUME NEW k \in 1..m PROVE Kept(k) = k
    <3>1. k \in kept
      BY <1>3
    <3>2. Kept(k) \in kept /\ Cardinality({j \in kept : j <= Kept(k)}) = k
      BY <1>5, <3>1
    <3>3. QED
      BY <1>5, <3>2
  <2>2. outer = [k \in 1..Cardinality(kept) |-> headings[Kept(k)]]
    BY DEF Outer, kept
  <2> HIDE DEF Kept, outer
  <2>3. QED
    BY <1>6, <2>1, <2>2
<1> HIDE DEF outer
<1>8. Len(outer) = m /\ \A i \in 1..m : outer[i] = headings[i]
  BY <1>2, <1>7
<1>9. IsSequence(outer)
  <2>1. m \in Nat /\ DOMAIN outer = 1..m /\ outer = [i \in 1..m |-> outer[i]]
    BY <1>2, <1>7
  <2> DEFINE S == {outer[i] : i \in DOMAIN outer}
  <2>2. \A i \in 1..m : outer[i] \in S
    BY <2>1
  <2> HIDE DEF S
  <2>3. outer \in Seq(S)
    BY <2>1, <2>2
  <2>4. QED
    BY <2>3 DEF IsSequence, S
<1>10. QED
  BY <1>1, <1>2, <1>8, <1>9 DEF outer

LEMMA LevelType == ASSUME NEW line PROVE Level(line) \in Nat
BY DEF Level

LEMMA HeadingsType ==
  ASSUME NEW text, Len(text) \in Nat
  PROVE  /\ Headings(text) \subseteq 0..(Len(text) - 1)
         /\ \A i : Under(text, i) \subseteq Headings(text)
BY DEF Headings, Under

(* Under the next heading stand those of a lower level that the last one    *)
(* stood under, and itself.                                                 *)
LEMMA UnderNext ==
  ASSUME NEW text, Len(text) \in Nat, NEW start \in Starts(text), NEW at \in Headings(text),
         start < at, NoHeading(text, start, at)
  PROVE  Under(text, at) =
           {h \in Under(text, start) : Level(At(text, h)) < Level(At(text, at))} \cup {at}
<1>1. at \in Nat /\ start \in Nat /\ \A h \in Headings(text) : h \in Nat
  BY HeadingsType DEF Starts
<1>2. \A h \in Headings(text) : h <= at <=> h <= start \/ h = at
  BY <1>1 DEF NoHeading
<1>3. ASSUME NEW h \in Headings(text), h <= start
      PROVE  /\ h \in Under(text, at) <=> /\ h \in Under(text, start)
                                          /\ Level(At(text, h)) < Level(At(text, at))
  <2>1. h < at /\ h # at /\ h <= at
    BY <1>1, <1>3
  <2>2. h \in Under(text, at) <=>
          \A k \in Headings(text) : h < k /\ k <= at => Level(At(text, h)) < Level(At(text, k))
    BY <2>1 DEF Under
  <2>3. h \in Under(text, start) <=>
          \A k \in Headings(text) : h < k /\ k <= start => Level(At(text, h)) < Level(At(text, k))
    BY <1>3 DEF Under
  <2>4. \A k \in Headings(text) : h < k /\ k <= at <=> (h < k /\ k <= start) \/ k = at
    BY <1>2, <2>1
  <2>5. ASSUME h \in Under(text, at)
        PROVE  h \in Under(text, start) /\ Level(At(text, h)) < Level(At(text, at))
    <3>1. Level(At(text, h)) < Level(At(text, at))
      BY <2>1, <2>2, <2>4, <2>5
    <3>2. \A k \in Headings(text) :
            h < k /\ k <= start => Level(At(text, h)) < Level(At(text, k))
      BY <2>2, <2>4, <2>5
    <3>3. QED
      BY <2>3, <3>1, <3>2
  <2>6. ASSUME h \in Under(text, start), Level(At(text, h)) < Level(At(text, at))
        PROVE  h \in Under(text, at)
    <3>1. \A k \in Headings(text) :
            h < k /\ k <= at => Level(At(text, h)) < Level(At(text, k))
      BY <2>3, <2>4, <2>6
    <3>2. QED
      BY <2>2, <3>1
  <2>7. QED
    BY <2>5, <2>6
<1>4. at \in Under(text, at)
  BY <1>1 DEF Under
<1>5. \A h \in Under(text, at) : h \in Headings(text) /\ h <= at
  BY DEF Under
<1>6. \A h \in Under(text, start) : h \in Headings(text) /\ h <= start
  BY DEF Under
<1>7. QED
  BY <1>2, <1>3, <1>4, <1>5, <1>6

(* The list after a heading, from the list before it.                       *)
LEMMA StackNext ==
  ASSUME NEW text, Len(text) \in Nat, NEW start \in Starts(text), NEW at \in Headings(text),
         start < at, NoHeading(text, start, at),
         NEW headings, Stack(text, headings, start)
  PROVE  LET level == Level(At(text, at))
         IN  Stack(text, Append(Outer(headings, level), [level |-> level, line |-> at]), at)
<1> DEFINE level == Level(At(text, at))
           outer == Outer(headings, level)
           new == [level |-> level, line |-> at]
           next == Append(outer, new)
<1>1. /\ IsSequence(headings) /\ Len(headings) \in Nat /\ DOMAIN headings = 1..Len(headings)
      /\ \A i \in 1..Len(headings) : headings[i].level = Level(At(text, headings[i].line))
  BY SequenceFacts DEF Stack
<1>2. Labels(headings) = [i \in 1..Len(headings) |-> headings[i].line]
  BY <1>1 DEF Labels
<1>3. /\ {headings[i].line : i \in 1..Len(headings)} = Under(text, start)
      /\ \A i, j \in 1..Len(headings) : i < j => headings[i].line < headings[j].line
  <2> DEFINE labels == Labels(headings)
  <2>1. DOMAIN labels = 1..Len(headings) /\ \A i \in 1..Len(headings) : labels[i] = headings[i].line
    BY <1>2
  <2>2. /\ {labels[i] : i \in DOMAIN labels} = Under(text, start)
        /\ \A i, j \in DOMAIN labels : i < j => labels[i] < labels[j]
    BY DEF Stack, InOrder
  <2> HIDE DEF labels
  <2>3. QED
    BY <2>1, <2>2
<1>4. \A i \in 1..Len(headings) : /\ headings[i].line \in Under(text, start)
                                  /\ headings[i].line \in Headings(text)
                                  /\ headings[i].line <= start
  BY <1>3 DEF Under
<1>5. level \in Nat /\ \A i \in 1..Len(headings) : headings[i].level \in Nat
  BY <1>1, LevelType
<1>6. ASSUME NEW i \in 1..Len(headings), NEW j \in 1..Len(headings), i < j
      PROVE  headings[i].level < headings[j].level
  <2>1. /\ headings[i].line < headings[j].line /\ headings[j].line <= start
        /\ headings[i].line \in Under(text, start) /\ headings[j].line \in Headings(text)
    BY <1>3, <1>4, <1>6
  <2>2. QED
    BY <1>1, <2>1 DEF Under
<1>7. /\ IsSequence(outer) /\ Len(outer) <= Len(headings)
      /\ \A i \in 1..Len(outer) : outer[i] = headings[i]
      /\ \A i \in 1..Len(headings) : headings[i].level < level <=> i <= Len(outer)
  BY <1>1, <1>5, <1>6, OuterIsABeginning
<1> DEFINE m == Len(outer)
<1>8. /\ IsSequence(next) /\ m \in Nat /\ Len(next) = m + 1 /\ next[m + 1] = new
      /\ DOMAIN next = 1..(m + 1)
      /\ \A i \in 1..m : next[i] = headings[i] /\ i \in 1..Len(headings)
  <2>1. IsSequence(next)
    BY <1>7, OneMore
  <2>2. m \in Nat /\ Len(next) = m + 1 /\ next[m + 1] = new /\ \A i \in 1..m : next[i] = outer[i]
    BY <1>7, SequenceFacts
  <2>3. DOMAIN next = 1..Len(next)
    BY <2>1, SequenceFacts
  <2> HIDE DEF next, outer
  <2>4. \A i \in 1..m : i \in 1..Len(headings)
    BY <1>1, <1>7, <2>2
  <2>5. QED
    BY <1>7, <2>1, <2>2, <2>3, <2>4
<1> HIDE DEF next, outer, m
<1>9. \A i \in 1..(m + 1) : next[i].level = Level(At(text, next[i].line))
  <2>1. \A i \in 1..(m + 1) : i \in 1..m \/ i = m + 1
    BY <1>8
  <2>2. new.level = Level(At(text, new.line))
    OBVIOUS
  <2> HIDE DEF new
  <2>3. QED
    BY <1>1, <1>8, <2>1, <2>2
<1>10. {next[i].line : i \in 1..(m + 1)} = Under(text, at)
  <2>1. {next[i].line : i \in 1..(m + 1)} = {headings[i].line : i \in 1..m} \cup {at}
    <3>1. \A i \in 1..(m + 1) : i \in 1..m \/ i = m + 1
      BY <1>8
    <3>2. \A i \in 1..m : i \in 1..(m + 1) /\ next[i].line = headings[i].line
      BY <1>8
    <3>3. m + 1 \in 1..(m + 1) /\ next[m + 1].line = at
      BY <1>8
    <3>4. QED
      BY <3>1, <3>2, <3>3
  <2>2. {headings[i].line : i \in 1..m} =
          {h \in Under(text, start) : Level(At(text, h)) < level}
    <3>1. \A i \in 1..Len(headings) : i \in 1..m <=> Level(At(text, headings[i].line)) < level
      BY <1>1, <1>7, <1>8 DEF m
    <3>2. \A h \in Under(text, start) : \E i \in 1..Len(headings) : headings[i].line = h
      BY <1>3
    <3>3. \A i \in 1..m : i \in 1..Len(headings)
      BY <1>8
    <3> HIDE DEF level
    <3>4. ASSUME NEW i \in 1..m
          PROVE  headings[i].line \in Under(text, start) /\ Level(At(text, headings[i].line)) < level
      BY <1>4, <3>1, <3>3
    <3>5. ASSUME NEW h \in Under(text, start), Level(At(text, h)) < level
          PROVE  \E i \in 1..m : headings[i].line = h
      BY <3>1, <3>2, <3>5
    <3>6. QED
      BY <3>4, <3>5
  <2>3. Under(text, at) = {h \in Under(text, start) : Level(At(text, h)) < level} \cup {at}
    BY UnderNext
  <2> HIDE DEF level, new
  <2>4. QED
    BY <2>1, <2>2, <2>3
<1>11. ASSUME NEW i \in 1..(m + 1), NEW j \in 1..(m + 1), i < j
       PROVE  next[i].line < next[j].line
  <2>1. i \in 1..m /\ (j \in 1..m \/ j = m + 1)
    BY <1>8, <1>11
  <2>2. CASE j \in 1..m
    BY <1>3, <1>8, <1>11, <2>1, <2>2
  <2>3. CASE j = m + 1
    <3>1. next[j].line = at /\ next[i].line = headings[i].line /\ headings[i].line <= start
      BY <1>4, <1>8, <2>1, <2>3
    <3>2. headings[i].line \in Nat /\ start \in Nat /\ at \in Nat
      BY <1>4, <1>8, <2>1, HeadingsType DEF Starts
    <3>3. QED
      BY <3>1, <3>2
  <2>4. QED
    BY <2>1, <2>2, <2>3
<1>12. InOrder(Labels(next), Under(text, at))
  <2> DEFINE labels == Labels(next)
  <2>1. DOMAIN labels = 1..(m + 1) /\ \A i \in 1..(m + 1) : labels[i] = next[i].line
    BY <1>8 DEF Labels
  <2> HIDE DEF labels
  <2>2. {labels[i] : i \in DOMAIN labels} = Under(text, at)
    BY <1>10, <2>1
  <2>3. \A i, j \in DOMAIN labels : i < j => labels[i] < labels[j]
    BY <1>11, <2>1
  <2>4. QED
    BY <2>2, <2>3 DEF InOrder, labels
<1>13. Stack(text, next, at)
  BY <1>8, <1>9, <1>12 DEF Stack
<1>14. QED
  BY <1>13 DEF next, outer

(* The list when the text starts with a heading, or with something else.    *)
LEMMA StackFirst ==
  ASSUME NEW text, Len(text) \in Nat, 0 \in Headings(text)
  PROVE  LET level == Level(At(text, 0))
         IN  Stack(text, Append(Outer(<<>>, level), [level |-> level, line |-> 0]), 0)
<1> DEFINE level == Level(At(text, 0))
           new == [level |-> level, line |-> 0]
           next == Append(Outer(<<>>, level), new)
<1>1. Outer(<<>>, level) = <<>>
  <2>1. level \in Nat /\ IsSequence(<<>>) /\ Len(<<>>) = 0
    BY LevelType DEF IsSequence
  <2>2. IsSequence(Outer(<<>>, level)) /\ Len(Outer(<<>>, level)) <= 0
    BY <2>1, OuterIsABeginning
  <2>3. Len(Outer(<<>>, level)) \in Nat
    BY <2>2, SequenceFacts
  <2>4. QED
    BY <2>2, <2>3 DEF IsSequence
<1>2. next = <<new>>
  <2> HIDE DEF new
  <2>1. Append(<<>>, new) = <<new>>
    OBVIOUS
  <2>2. QED
    BY <1>1, <2>1
<1>3. Under(text, 0) = {0}
  <2>1. \A h \in Headings(text) : h \in Nat
    BY HeadingsType
  <2>2. \A h \in Headings(text) : h <= 0 <=> h = 0
    BY <2>1
  <2>3. \A k \in Headings(text) : ~(0 < k /\ k <= 0)
    BY <2>1
  <2>4. QED
    BY <2>2, <2>3 DEF Under
<1>4. IsSequence(next) /\ Len(next) = 1 /\ DOMAIN next = {1} /\ next[1] = new
  <2>1. <<new>> = [i \in 1..1 |-> new] /\ 1..1 = {1}
    OBVIOUS
  <2>2. IsSequence(<<>>) /\ Len(<<>>) = 0 /\ <<new>> = Append(<<>>, new)
    BY DEF IsSequence
  <2>3. IsSequence(<<new>>)
    BY <2>2, OneMore
  <2> HIDE DEF new
  <2>4. Len(<<new>>) = 1 /\ DOMAIN <<new>> = {1} /\ <<new>>[1] = new
    OBVIOUS
  <2> HIDE DEF next
  <2>5. QED
    BY <1>2, <2>3, <2>4
<1> HIDE DEF next
<1>5. InOrder(Labels(next), {0})
  <2> DEFINE labels == Labels(next)
  <2>1. DOMAIN labels = {1} /\ labels[1] = 0
    BY <1>4 DEF Labels
  <2> HIDE DEF labels
  <2>2. {labels[i] : i \in DOMAIN labels} = {0}
    BY <2>1
  <2>3. QED
    BY <2>1, <2>2 DEF InOrder, labels
<1>6. new.line = 0 /\ new.level = Level(At(text, 0))
  OBVIOUS
<1>7. \A i \in 1..Len(next) : i = 1
  BY <1>4
<1> HIDE DEF new, level
<1>8. Stack(text, next, 0)
  BY <1>3, <1>4, <1>5, <1>6, <1>7 DEF Stack
<1>9. QED
  BY <1>8 DEF next, new, level

LEMMA StackNone ==
  ASSUME NEW text, Len(text) \in Nat, 0 \notin Headings(text)
  PROVE  Stack(text, <<>>, 0)
<1>1. Under(text, 0) = {}
  <2>1. \A h \in Headings(text) : h \in Nat
    BY HeadingsType
  <2>2. \A h \in Headings(text) : ~(h <= 0)
    BY <2>1
  <2>3. QED
    BY <2>2 DEF Under
<1>2. IsSequence(<<>>) /\ Len(<<>>) = 0 /\ DOMAIN <<>> = {}
  BY DEF IsSequence
<1>3. QED
  BY <1>1, <1>2 DEF Stack, InOrder, Labels

(* What the loop cuts at a heading, or after the last line, is a section.   *)
LEMMA NextSection ==
  ASSUME NEW text, Len(text) \in Nat, NEW start \in Starts(text), NEW at \in Ends(text),
         start < at, NoHeading(text, start, at), NEW headings, Stack(text, headings, start)
  PROVE  IsSection(text, [start |-> start, end |-> at, headings |-> Labels(headings)])
<1> DEFINE labels == Labels(headings)
           w == [start |-> start, end |-> at, headings |-> labels]
<1>1. IsSequence(labels)
  <2>1. IsSequence(headings)
    BY DEF Stack
  <2>2. Len(headings) \in Nat /\ DOMAIN headings = 1..Len(headings)
    BY <2>1, SequenceFacts
  <2>3. DOMAIN labels = 1..Len(headings) /\ labels = [i \in 1..Len(headings) |-> labels[i]]
    BY <2>2 DEF Labels
  <2> DEFINE S == {labels[i] : i \in DOMAIN labels}
  <2>4. \A i \in 1..Len(headings) : labels[i] \in S
    BY <2>3
  <2> HIDE DEF S, labels
  <2>5. labels \in Seq(S)
    BY <2>2, <2>3, <2>4
  <2>6. QED
    BY <2>5 DEF IsSequence, S
<1>2. InOrder(labels, Under(text, start))
  BY DEF Stack
<1>3. /\ w.start = start /\ w.end = at /\ w.headings = labels
      /\ w = [start |-> start, end |-> at, headings |-> labels]
  OBVIOUS
<1> HIDE DEF w, labels
<1>4. IsSection(text, w)
  BY <1>1, <1>2, <1>3 DEF IsSection
<1>5. QED
  BY <1>4 DEF w, labels

LEMMA SectionIsOne ==
  ASSUME NEW text, Len(text) \in Nat,
         NEW a, IsSection(text, a), NEW b, IsSection(text, b), a.start = b.start
  PROVE  a = b
<1>1. \A h \in Headings(text) : h \in Nat /\ h < Len(text)
  BY HeadingsType
<1>2. ASSUME NEW x, IsSection(text, x)
      PROVE  /\ x.start \in Nat /\ x.end \in Nat /\ x.start < x.end /\ x.end <= Len(text)
             /\ x.end \in Headings(text) \/ x.end = Len(text)
             /\ \A h \in Headings(text) : ~(x.start < h /\ h < x.end)
  BY <1>1, <1>2 DEF IsSection, Starts, Ends, NoHeading
<1>3. ASSUME NEW x, IsSection(text, x), NEW y, IsSection(text, y), x.start = y.start
      PROVE  y.end <= x.end
  <2>1. x.end \in Nat /\ y.end \in Nat /\ x.start < x.end /\ y.end <= Len(text)
    BY <1>2, <1>3
  <2>2. x.end \in Headings(text) => ~(x.end < y.end)
    BY <1>2, <1>3, <2>1
  <2>3. QED
    BY <1>2, <1>3, <2>1, <2>2
<1>4. a.end = b.end
  <2>1. a.end \in Nat /\ b.end \in Nat
    BY <1>2
  <2>2. a.end <= b.end /\ b.end <= a.end
    BY <1>3
  <2>3. QED
    BY <2>1, <2>2
<1>5. a.headings = b.headings
  <2>1. Under(text, a.start) \subseteq Nat
    BY <1>1, HeadingsType
  <2>2. /\ IsSequence(a.headings) /\ InOrder(a.headings, Under(text, a.start))
        /\ IsSequence(b.headings) /\ InOrder(b.headings, Under(text, a.start))
    BY DEF IsSection
  <2>3. QED
    BY <2>1, <2>2, InOrderIsOne
<1>6. a = [start |-> a.start, end |-> a.end, headings |-> a.headings]
      /\ b = [start |-> b.start, end |-> b.end, headings |-> b.headings]
  BY DEF IsSection
<1>7. QED
  BY <1>4, <1>5, <1>6

LEMMA OneMoreSection ==
  ASSUME NEW text, NEW chunks, IsSequence(chunks), SectionRun(text, chunks),
         NEW w, IsSection(text, w), w.start = PrevEnd(chunks)
  PROVE  SectionRun(text, Append(chunks, w)) /\ PrevEnd(Append(chunks, w)) = w.end
<1> DEFINE n == Len(chunks)
           new == Append(chunks, w)
<1>1. /\ n \in Nat /\ Len(new) = n + 1 /\ new[n + 1] = w
      /\ \A i \in 1..n : new[i] = chunks[i]
  BY SequenceFacts
<1>2. w.start = IF n = 0 THEN 0 ELSE chunks[n].end
  BY DEF PrevEnd
<1>3. /\ \A i \in 1..n : IsSection(text, chunks[i])
      /\ n > 0 => chunks[1].start = 0
      /\ \A i \in 1..(n - 1) : chunks[i].end = chunks[i + 1].start
  BY DEF SectionRun
<1> HIDE DEF new, n
<1>4. ASSUME NEW i \in 1..(n + 1) PROVE IsSection(text, new[i])
  <2>1. i \in 1..n \/ i = n + 1
    BY <1>1
  <2>2. QED
    BY <1>1, <1>3, <2>1
<1>5. new[1].start = 0
  <2>1. CASE n = 0
    BY <1>1, <1>2, <2>1
  <2>2. CASE n # 0
    <3>1. 1 \in 1..n /\ n > 0
      BY <1>1, <2>2
    <3>2. QED
      BY <1>1, <1>3, <3>1
  <2>3. QED
    BY <2>1, <2>2
<1>6. ASSUME NEW i \in 1..n PROVE new[i].end = new[i + 1].start
  <2>1. CASE i = n
    <3>1. n # 0 /\ new[i] = chunks[n] /\ new[i + 1] = w
      BY <1>1, <2>1
    <3>2. QED
      BY <1>2, <3>1
  <2>2. CASE i # n
    <3>1. i \in 1..(n - 1) /\ i + 1 \in 1..n
      BY <1>1, <2>2
    <3>2. QED
      BY <1>1, <1>3, <3>1
  <2>3. QED
    BY <2>1, <2>2
<1>7. SectionRun(text, new)
  BY <1>1, <1>4, <1>5, <1>6 DEF SectionRun
<1>8. PrevEnd(new) = w.end
  <2>1. Len(new) # 0 /\ new[Len(new)] = w
    BY <1>1
  <2>2. QED
    BY <2>1 DEF PrevEnd
<1>9. QED
  BY <1>7, <1>8 DEF new

LEMMA SameSection ==
  ASSUME NEW text, Len(text) \in Nat,
         NEW c, IsSequence(c), NEW d, IsSequence(d), SectionRun(text, d),
         \A i \in (1..Len(c)) \cap (1..Len(d)) : c[i] = d[i],
         NEW w, IsSection(text, w), w.start = PrevEnd(c),
         Len(c) + 1 \in 1..Len(d)
  PROVE  d[Len(c) + 1] = w
<1> DEFINE n == Len(c)
           v == d[n + 1]
<1>1. n \in Nat /\ Len(d) \in Nat /\ n + 1 \in 1..Len(d)
  BY SequenceFacts
<1>2. IsSection(text, v)
  BY <1>1 DEF SectionRun
<1>3. v.start = PrevEnd(c)
  <2>1. CASE n = 0
    <3>1. PrevEnd(c) = 0 /\ v = d[1] /\ Len(d) > 0
      BY <1>1, <2>1 DEF PrevEnd
    <3>2. QED
      BY <3>1 DEF SectionRun
  <2>2. CASE n # 0
    <3>1. n \in (1..n) \cap (1..Len(d)) /\ n \in 1..(Len(d) - 1)
      BY <1>1, <2>2
    <3>2. PrevEnd(c) = c[n].end /\ c[n] = d[n]
      BY <2>2, <3>1 DEF PrevEnd
    <3>3. QED
      BY <3>1, <3>2 DEF SectionRun
  <2>3. QED
    BY <2>1, <2>2
<1> HIDE DEF v
<1>4. v = w
  BY <1>2, <1>3, SectionIsOne
<1>5. QED
  BY <1>4 DEF v

(* The test of the loop finds exactly the headings outside fences.          *)
LEMMA HeadingHere ==
  ASSUME NEW text, Len(text) \in Nat, NEW at \in 0..(Len(text) - 1)
  PROVE  LET fence == After(Fences(text)[at], At(text, at))
         IN  /\ Fences(text)[at + 1] = fence
             /\ at \in Headings(text) <=> ~(Level(At(text, at)) = 0 \/ fence # NoFence)
<1> DEFINE line == At(text, at)
           open == Fences(text)[at]
<1>1. Fences(text)[at + 1] = After(open, line)
  BY FencesStep
<1>2. Level(line) # 0 => Fence(line) = NoFence
  <2>1. Level(line) # 0 => line \in {"h1", "h2", "h3"}
    BY DEF Level
  <2>2. line \in {"h1", "h2", "h3"} => Fence(line) = NoFence
    BY DEF Fence, NoFence
  <2>3. QED
    BY <2>1, <2>2
<1>3. Level(line) # 0 => After(open, line) = open
  BY <1>2 DEF After
<1>4. at \in Headings(text) <=> Level(line) # 0 /\ open = NoFence
  BY DEF Headings
<1> HIDE DEF line, open
<1>5. at \in Headings(text) <=> ~(Level(line) = 0 \/ After(open, line) # NoFence)
  BY <1>3, <1>4
<1>6. QED
  BY <1>1, <1>5 DEF line, open

LEMMA ReadAnyLine ==
  ASSUME NEW text, Len(text) \in Nat, NEW at \in 0..(Len(text) - 1), at \notin Headings(text),
         NEW chunks, NEW start, NEW headings, Read(text, chunks, start, at, headings)
  PROVE  Read(text, chunks, start, at + 1, headings)
<1>1. /\ SectionRun(text, chunks) /\ start = PrevEnd(chunks) /\ start \in Starts(text)
      /\ start < at \/ (at = 0 /\ start = 0)
      /\ NoHeading(text, start, at) /\ Cut(text, chunks, start, at)
      /\ IF at = 0 THEN headings = <<>> ELSE Stack(text, headings, start)
  BY DEF Read
<1>2. \A h \in Headings(text) : h \in Nat
  BY HeadingsType
<1>3. at \in Nat /\ start \in Nat /\ at + 1 # 0
  BY <1>1, <1>2 DEF Starts
<1>4. \A h \in Headings(text) : h < at + 1 => h < at
  BY <1>2, <1>3
<1>5. start < at + 1
  BY <1>1, <1>3
<1>6. NoHeading(text, start, at + 1) /\ Cut(text, chunks, start, at + 1)
  BY <1>1, <1>4 DEF NoHeading, Cut
<1>7. Stack(text, headings, start)
  <2>1. CASE at = 0
    <3>1. headings = <<>> /\ start = 0 /\ 0 \notin Headings(text)
      BY <1>1, <1>3, <2>1
    <3>2. QED
      BY <3>1, StackNone
  <2>2. CASE at # 0
    BY <1>1, <2>2
  <2>3. QED
    BY <2>1, <2>2
<1>8. QED
  BY <1>1, <1>3, <1>5, <1>6, <1>7 DEF Read

(* What is cut when a heading or the end of the text is met.                *)
LEMMA CutSection ==
  ASSUME NEW text, Len(text) \in Nat, NEW at \in Ends(text),
         NEW chunks, IsSequence(chunks), NEW start, NEW headings,
         Read(text, chunks, start, at, headings), start < at
  PROVE  LET w == [start |-> start, end |-> at, headings |-> Labels(headings)]
             new == Append(chunks, w)
         IN  /\ IsSection(text, w) /\ w.start = PrevEnd(chunks)
             /\ SectionRun(text, new) /\ PrevEnd(new) = at
             /\ \A h \in Headings(text) : h < at =>
                  \E i \in 1..Len(new) : new[i].start = h
             /\ new[Len(new)].end = at /\ Len(new) > 0
<1> DEFINE w == [start |-> start, end |-> at, headings |-> Labels(headings)]
           new == Append(chunks, w)
           n == Len(chunks)
<1>1. /\ SectionRun(text, chunks) /\ start = PrevEnd(chunks) /\ start \in Starts(text)
      /\ NoHeading(text, start, at) /\ Cut(text, chunks, start, at)
      /\ IF at = 0 THEN headings = <<>> ELSE Stack(text, headings, start)
  BY DEF Read
<1>2. at \in Nat /\ start \in Nat
  <2>1. \A h \in Headings(text) : h \in Nat
    BY HeadingsType
  <2>2. QED
    BY <1>1, <2>1 DEF Starts, Ends
<1>3. at # 0
  BY <1>2
<1>4. w.start = start /\ w.end = at
  OBVIOUS
<1>5. IsSection(text, w)
  BY <1>1, <1>3, NextSection
<1> HIDE DEF w
<1>6. SectionRun(text, new) /\ PrevEnd(new) = at
  BY <1>1, <1>4, <1>5, OneMoreSection
<1>7. /\ n \in Nat /\ Len(new) = n + 1 /\ new[n + 1] = w
      /\ \A i \in 1..n : new[i] = chunks[i]
  BY SequenceFacts
<1> HIDE DEF new, n
<1>8. ASSUME NEW h \in Headings(text), h < at PROVE \E i \in 1..Len(new) : new[i].start = h
  <2>1. CASE h = start
    <3>1. n + 1 \in 1..Len(new) /\ new[n + 1].start = h
      BY <1>4, <1>7, <2>1
    <3>2. QED
      BY <3>1
  <2>2. CASE h # start
    <3>1. PICK i \in 1..n : chunks[i].start = h
      BY <1>1, <1>8, <2>2 DEF Cut, n
    <3>2. i \in 1..Len(new) /\ new[i].start = h
      BY <1>7, <3>1
    <3>3. QED
      BY <3>2
  <2>3. QED
    BY <2>1, <2>2
<1>9. new[Len(new)].end = at /\ Len(new) > 0
  BY <1>4, <1>7
<1>10. w.start = PrevEnd(chunks)
  BY <1>1, <1>4
<1>11. QED
  BY <1>5, <1>6, <1>8, <1>9, <1>10 DEF new, w

LEMMA ReadHeading ==
  ASSUME NEW text, Len(text) \in Nat, NEW at \in Headings(text),
         NEW chunks, IsSequence(chunks), NEW start, NEW headings,
         Read(text, chunks, start, at, headings)
  PROVE  LET level == Level(At(text, at))
         IN  Read(text, AppendChunk(chunks, start, at, Labels(headings)), at, at + 1,
                  Append(Outer(headings, level), [level |-> level, line |-> at]))
<1> DEFINE level == Level(At(text, at))
           new == AppendChunk(chunks, start, at, Labels(headings))
           next == Append(Outer(headings, level), [level |-> level, line |-> at])
<1>1. /\ SectionRun(text, chunks) /\ start = PrevEnd(chunks) /\ start \in Starts(text)
      /\ start < at \/ (at = 0 /\ start = 0)
      /\ NoHeading(text, start, at) /\ Cut(text, chunks, start, at)
      /\ IF at = 0 THEN headings = <<>> ELSE Stack(text, headings, start)
  BY DEF Read
<1>2. \A h \in Headings(text) : h \in Nat
  BY HeadingsType
<1>3. at \in Nat /\ start \in Nat /\ at + 1 # 0 /\ at < at + 1 /\ at \in Starts(text)
  BY <1>1, <1>2 DEF Starts
<1>4. NoHeading(text, at, at + 1) /\ \A h \in Headings(text) : h < at + 1 => h = at \/ h < at
  BY <1>2, <1>3 DEF NoHeading
<1>5. Stack(text, next, at)
  <2>1. CASE start < at
    <3>1. Stack(text, headings, start)
      BY <1>1, <1>3, <2>1
    <3>2. QED
      BY <1>1, <2>1, <3>1, StackNext
  <2>2. CASE at = 0 /\ start = 0
    <3>1. headings = <<>> /\ 0 \in Headings(text)
      BY <1>1, <2>2
    <3>2. Stack(text, Append(Outer(<<>>, Level(At(text, 0))), [level |-> Level(At(text, 0)), line |-> 0]), 0)
      BY <3>1, StackFirst
    <3>3. QED
      BY <2>2, <3>1, <3>2
  <2>3. QED
    BY <1>1, <2>1, <2>2
<1> HIDE DEF next
<1>6. SectionRun(text, new) /\ at = PrevEnd(new) /\ Cut(text, new, at, at + 1)
  <2>1. CASE start < at
    <3> DEFINE w == [start |-> start, end |-> at, headings |-> Labels(headings)]
    <3>1. new = Append(chunks, w)
      BY <2>1 DEF AppendChunk
    <3>2. at \in Ends(text)
      BY DEF Ends
    <3>3. /\ SectionRun(text, Append(chunks, w)) /\ PrevEnd(Append(chunks, w)) = at
          /\ \A h \in Headings(text) : h < at =>
               \E i \in 1..Len(Append(chunks, w)) : Append(chunks, w)[i].start = h
      BY <2>1, <3>2, CutSection
    <3> HIDE DEF w, new
    <3>4. QED
      BY <1>4, <3>1, <3>3 DEF Cut
  <2>2. CASE at = 0 /\ start = 0
    <3>1. new = chunks
      BY <2>2 DEF AppendChunk
    <3>2. \A h \in Headings(text) : ~(h < at)
      BY <1>2, <2>2
    <3> HIDE DEF new
    <3>3. QED
      BY <1>1, <1>4, <2>2, <3>1, <3>2 DEF Cut
  <2>3. QED
    BY <1>1, <2>1, <2>2
<1> HIDE DEF new
<1>7. Read(text, new, at, at + 1, next)
  BY <1>3, <1>4, <1>5, <1>6 DEF Read
<1>8. QED
  BY <1>7 DEF new, next

(* A section appended to one call is the one the other has there.           *)
LEMMA SectionAgrees ==
  ASSUME IntakeInv, ExactInv, document.config.strategy = "markdown-heading",
         Len(document.text) \in Nat,
         NEW p \in Purposes, NEW q \in Purposes \ {p}, split'[q] = split[q],
         NEW w, IsSection(document.text, w), w.start = PrevEnd(split[p].chunks),
         split'[p].chunks = Append(split[p].chunks, w)
  PROVE  Agree(p, q)' /\ Agree(q, p)'
<1> DEFINE c == split[p].chunks
           d == split[q].chunks
<1>1. /\ IsSequence(c) /\ IsSequence(d) /\ SectionRun(document.text, d) /\ Agree(p, q)
      /\ \A i \in (1..Len(c)) \cap (1..Len(d)) : c[i] = d[i]
  BY DEF IntakeInv, SplitOK, ExactInv, ChunksOK, SectionsOK, Agree
<1>2. Len(c) + 1 \in 1..Len(d) => d[Len(c) + 1] = w
  <2>1. w.start = PrevEnd(c)
    OBVIOUS
  <2> HIDE DEF c, d
  <2>2. QED
    BY <1>1, <2>1, SameSection
<1>3. QED
  BY <1>1, <1>2, AgreeOneMore

LEMMA SameChunksAgree ==
  ASSUME ExactInv, NEW p \in Purposes, NEW q \in Purposes \ {p},
         split'[q] = split[q], split'[p].chunks = split[p].chunks
  PROVE  Agree(p, q)' /\ Agree(q, p)'
BY DEF ExactInv, Agree

(* One line of markdown-heading.                                            *)
LEMMA LineStep ==
  ASSUME IntakeInv, ExactInv, NEW p \in Purposes, Line(p)
  PROVE  /\ SectionsOK(p)'
         /\ \A q \in Purposes \ {p} : Agree(p, q)' /\ Agree(q, p)'
<1> DEFINE s == split[p]
           text == document.text
           at == s.at
           fence == After(s.fence, At(text, at))
           level == Level(At(text, at))
           chunks == AppendChunk(s.chunks, s.start, at, Labels(s.headings))
           headings == Append(Outer(s.headings, level), [level |-> level, line |-> at])
           u == split'[p]
<1>1. /\ s.step = "markdown-heading" /\ at < Len(text) /\ document' = document
      /\ \A q \in Purposes \ {p} : split'[q] = split[q]
      /\ split' = [split EXCEPT ![p] =
           IF level = 0 \/ fence # NoFence
           THEN [s EXCEPT !.fence = fence, !.at = @ + 1]
           ELSE IF Full(p, chunks) THEN [s EXCEPT !.chunks = chunks, !.step = "done"]
           ELSE [s EXCEPT !.chunks = chunks, !.at = @ + 1, !.start = at, !.fence = fence,
                          !.headings = headings]]
  BY DEF Line, IntakeInv
<1>2. /\ DOMAIN s = DOMAIN Idle /\ split = [q \in Purposes |-> split[q]]
      /\ at \in Nat /\ IsSequence(s.chunks)
      /\ document.config.strategy = "markdown-heading"
  BY <1>1 DEF IntakeInv, SplitOK, Strategies
<1>3. Len(text) \in Nat /\ at \in 0..(Len(text) - 1)
  <2>1. Len(text) \in Nat
    BY <1>1, SplitMeansStored DEF Strategies
  <2>2. QED
    BY <1>1, <1>2, <2>1
<1>4. {"step", "at", "start", "chunks", "headings", "fence"} = DOMAIN s
  BY <1>2 DEF Idle
<1>5. s.fence = Fences(text)[at] /\ Read(text, s.chunks, s.start, at, s.headings)
  BY <1>1, <1>2 DEF ExactInv, ChunksOK, SectionsOK
<1>6. /\ Fences(text)[at + 1] = fence
      /\ at \in Headings(text) <=> ~(level = 0 \/ fence # NoFence)
  BY <1>3, <1>5, HeadingHere
<1>7. CASE level = 0 \/ fence # NoFence
  <2>1. /\ u.step = "markdown-heading" /\ u.at = at + 1 /\ u.start = s.start
        /\ u.chunks = s.chunks /\ u.headings = s.headings /\ u.fence = fence
    <3>1. u = [s EXCEPT !.fence = fence, !.at = @ + 1]
      BY <1>1, <1>2, <1>7
    <3> HIDE DEF u, s, fence
    <3>2. QED
      BY <1>1, <1>4, <3>1 DEF at
  <2>2. Read(text, s.chunks, s.start, at + 1, s.headings)
    <3> HIDE DEF s, text, fence, level, at
    <3>1. QED
      BY <1>3, <1>5, <1>6, <1>7, ReadAnyLine
  <2>3. SectionRun(text, s.chunks)
    BY <1>5 DEF Read
  <2>4. \A q \in Purposes \ {p} : Agree(p, q)' /\ Agree(q, p)'
    BY <1>1, <2>1, SameChunksAgree
  <2> HIDE DEF u, s, fence, level, at
  <2>5. SectionsOK(p)'
    BY <1>1, <1>6, <2>1, <2>2, <2>3 DEF SectionsOK, u
  <2>6. QED
    BY <2>4, <2>5
<1>8. CASE ~(level = 0 \/ fence # NoFence)
  <2>1. at \in Headings(text)
    BY <1>6, <1>8
  <2>2. Read(text, chunks, at, at + 1, headings)
    <3>1. QED
      BY <1>2, <1>3, <1>5, <2>1, ReadHeading
  <2>3. SectionRun(text, chunks)
    BY <2>2 DEF Read
  <2>4. /\ u.chunks = chunks
        /\ \/ u.step = "done" /\ Full(p, chunks)
           \/ /\ u.step = "markdown-heading" /\ u.at = at + 1 /\ u.start = at
              /\ u.headings = headings /\ u.fence = fence
    <3>1. \/ u = [s EXCEPT !.chunks = chunks, !.step = "done"] /\ Full(p, chunks)
          \/ u = [s EXCEPT !.chunks = chunks, !.at = @ + 1, !.start = at, !.fence = fence,
                           !.headings = headings]
      BY <1>1, <1>2, <1>8
    <3> HIDE DEF u, s, fence, chunks, headings, level
    <3>2. QED
      BY <1>1, <1>4, <3>1 DEF at
  <2>5. ASSUME NEW q \in Purposes \ {p} PROVE Agree(p, q)' /\ Agree(q, p)'
    <3> DEFINE w == [start |-> s.start, end |-> at, headings |-> Labels(s.headings)]
    <3>1. CASE s.start < at
      <4>1. u.chunks = Append(s.chunks, w)
        BY <2>4, <3>1 DEF AppendChunk
      <4>2. at \in Ends(text)
        BY <2>1 DEF Ends
      <4>3. IsSection(text, w) /\ w.start = PrevEnd(s.chunks)
        BY <1>2, <1>3, <1>5, <3>1, <4>2, CutSection
      <4> HIDE DEF w
      <4>4. QED
        BY <1>1, <1>2, <1>3, <4>1, <4>3, SectionAgrees
    <3>2. CASE ~(s.start < at)
      <4>1. u.chunks = s.chunks
        BY <2>4, <3>2 DEF AppendChunk
      <4>2. QED
        BY <1>1, <4>1, SameChunksAgree
    <3>3. QED
      BY <3>1, <3>2
  <2> HIDE DEF u, s, fence, chunks, headings, level, at
  <2>6. SectionsOK(p)'
    BY <1>1, <1>6, <2>2, <2>3, <2>4 DEF SectionsOK, u
  <2>7. QED
    BY <2>5, <2>6
<1>9. QED
  BY <1>7, <1>8

(* The last chunk of markdown-heading.                                      *)
LEMMA LastLineStep ==
  ASSUME IntakeInv, ExactInv, NEW p \in Purposes, LastLine(p)
  PROVE  /\ SectionsOK(p)'
         /\ \A q \in Purposes \ {p} : Agree(p, q)' /\ Agree(q, p)'
<1> DEFINE s == split[p]
           text == document.text
           w == [start |-> s.start, end |-> s.at, headings |-> Labels(s.headings)]
           chunks == AppendChunk(s.chunks, s.start, s.at, Labels(s.headings))
           u == split'[p]
<1>1. /\ s.step = "markdown-heading" /\ s.at = Len(text) /\ document' = document
      /\ \A q \in Purposes \ {p} : split'[q] = split[q]
      /\ split' = [split EXCEPT ![p].step = "done",
                     ![p].chunks = AppendChunk(@, s.start, s.at, Labels(s.headings))]
  BY DEF LastLine, IntakeInv
<1>2. /\ DOMAIN s = DOMAIN Idle /\ split = [q \in Purposes |-> split[q]]
      /\ IsSequence(s.chunks)
      /\ s.start < s.at \/ (s.at = 0 /\ s.start = 0)
      /\ document.config.strategy = "markdown-heading"
  BY <1>1 DEF IntakeInv, SplitOK, Strategies
<1>3. Len(text) \in Nat \ {0}
  BY <1>1, SplitMeansStored DEF Strategies
<1>4. {"step", "at", "start", "chunks", "headings", "fence"} = DOMAIN s
  BY <1>2 DEF Idle
<1>5. s.start < s.at
  BY <1>1, <1>2, <1>3
<1>6. chunks = Append(s.chunks, w)
  BY <1>5 DEF AppendChunk
<1>7. u.step = "done" /\ u.chunks = chunks
  <2> DEFINE done == [split EXCEPT ![p].step = "done"]
  <2>1. done[p] = [s EXCEPT !.step = "done"] /\ done = [q \in Purposes |-> done[q]]
    BY <1>2
  <2>2. done[p].chunks = s.chunks
    BY <1>2, <1>4, <2>1
  <2>3. split' = [done EXCEPT ![p].chunks = chunks]
    BY <1>1, <2>2
  <2>4. u = [done[p] EXCEPT !.chunks = chunks]
    BY <2>1, <2>3
  <2> HIDE DEF s, u, chunks, done
  <2>5. QED
    BY <1>4, <2>1, <2>4
<1>8. /\ IsSection(text, w) /\ w.start = PrevEnd(s.chunks) /\ SectionRun(text, Append(s.chunks, w))
      /\ \A h \in Headings(text) : h < s.at =>
           \E i \in 1..Len(Append(s.chunks, w)) : Append(s.chunks, w)[i].start = h
      /\ Append(s.chunks, w)[Len(Append(s.chunks, w))].end = s.at /\ Len(Append(s.chunks, w)) > 0
  <2>1. Read(text, s.chunks, s.start, s.at, s.headings)
    BY <1>1, <1>2 DEF ExactInv, ChunksOK, SectionsOK
  <2>2. s.at \in Ends(text)
    BY <1>1 DEF Ends
  <2>3. QED
    BY <1>2, <1>3, <1>5, <2>1, <2>2, CutSection
<1>9. \A h \in Headings(text) : h < s.at
  BY <1>1, <1>3, HeadingsType
<1> HIDE DEF chunks
<1>10. ASSUME NEW q \in Purposes \ {p} PROVE Agree(p, q)' /\ Agree(q, p)'
  <2> HIDE DEF w
  <2>1. QED
    BY <1>1, <1>2, <1>3, <1>6, <1>7, <1>8, SectionAgrees
<1> HIDE DEF w, u, s
<1>11. /\ SectionRun(text, u.chunks) /\ AtTheEnd(u.chunks, Len(text))
       /\ \A h \in Headings(text) : \E i \in 1..Len(u.chunks) : u.chunks[i].start = h
  <2> DEFINE new == Append(s.chunks, w)
  <2>1. u.chunks = new
    BY <1>6, <1>7
  <2>2. /\ SectionRun(text, new) /\ new[Len(new)].end = Len(text) /\ Len(new) > 0
        /\ \A h \in Headings(text) : \E i \in 1..Len(new) : new[i].start = h
    BY <1>1, <1>8, <1>9
  <2> HIDE DEF new, text
  <2>3. QED
    BY <2>1, <2>2 DEF AtTheEnd
<1>12. SectionsOK(p)'
  BY <1>1, <1>7, <1>11 DEF SectionsOK, u
<1>13. QED
  BY <1>10, <1>12

-----------------------------------------------------------------------------
(* All strategies.                                                           *)

LEMMA NothingCut ==
  ASSUME NEW text, Len(text) \in Nat, NEW length, NEW config
  PROVE  /\ WindowRun(<<>>, length, config) /\ NextStart(<<>>, config) = 0
         /\ ~AtTheEnd(<<>>, length)
         /\ Passed(text, <<>>, 0)
         /\ SectionRun(text, <<>>) /\ Read(text, <<>>, 0, 0, <<>>)
<1> DEFINE none == <<>>
<1>1. Len(none) = 0 /\ none = <<>>
  OBVIOUS
<1> HIDE DEF none
<1>2. WindowRun(none, length, config) /\ NextStart(none, config) = 0 /\ ~AtTheEnd(none, length)
  BY <1>1 DEF WindowRun, NextStart, AtTheEnd
<1>3. PrevEnd(none) = 0
  BY <1>1 DEF PrevEnd
<1>4. ParagraphRun(text, none) /\ SectionRun(text, none)
  BY <1>1 DEF ParagraphRun, SectionRun
<1>5. Passed(text, none, 0)
  BY <1>3, <1>4 DEF Passed, NoneVisible
<1>6. \A h \in Headings(text) : h \in Nat
  BY HeadingsType
<1>7. NoHeading(text, 0, 0) /\ Cut(text, none, 0, 0)
  BY <1>6 DEF NoHeading, Cut
<1>8. Read(text, none, 0, 0, none)
  BY <1>1, <1>3, <1>4, <1>7 DEF Read, Starts
<1>9. QED
  BY <1>1, <1>2, <1>4, <1>5, <1>8

(* A call that has done nothing yet, or has just begun.                     *)
LEMMA FreshIsExact ==
  ASSUME NEW p \in Purposes, Len(document'.text) \in Nat,
         split'[p] = [Idle EXCEPT !.step = split'[p].step],
         split'[p].step # "done"
  PROVE  ChunksOK(p)'
<1> DEFINE u == split'[p]
           text == document'.text
<1>1. /\ u.at = 0 /\ u.start = 0 /\ u.chunks = <<>> /\ u.headings = <<>> /\ u.fence = NoFence
      /\ u.step # "done"
  BY DEF Idle
<1>2. Fences(text)[0] = NoFence
  BY FencesStep
<1>3. /\ WindowRun(<<>>, Len(text), document'.config) /\ NextStart(<<>>, document'.config) = 0
      /\ ~AtTheEnd(<<>>, Len(text))
      /\ Passed(text, <<>>, 0)
      /\ SectionRun(text, <<>>) /\ Read(text, <<>>, 0, 0, <<>>)
  BY NothingCut
<1> DEFINE none == <<>>
<1>4. /\ u.chunks = none /\ u.headings = none
      /\ WindowRun(none, Len(text), document'.config) /\ NextStart(none, document'.config) = 0
      /\ ~AtTheEnd(none, Len(text))
      /\ Passed(text, none, 0)
      /\ SectionRun(text, none) /\ Read(text, none, 0, 0, none)
  BY <1>1, <1>3
<1> HIDE DEF u, none
<1>5. WindowsOK(p)'
  BY <1>1, <1>4 DEF WindowsOK, u
<1>6. ParagraphsOK(p)'
  BY <1>1, <1>4 DEF ParagraphsOK, u
<1>7. SectionsOK(p)'
  BY <1>1, <1>2, <1>4 DEF SectionsOK, u
<1>8. QED
  BY <1>5, <1>6, <1>7 DEF ChunksOK

LEMMA OneCallMoves ==
  ASSUME ExactInv, NEW p \in Purposes, document' = document,
         \A q \in Purposes \ {p} : split'[q] = split[q],
         ChunksOK(p)', \A q \in Purposes \ {p} : Agree(p, q)' /\ Agree(q, p)'
  PROVE  ExactInv'
<1>1. ASSUME NEW q \in Purposes PROVE ChunksOK(q)'
  <2>1. CASE q = p
    BY <2>1
  <2>2. CASE q # p
    BY <2>2 DEF ExactInv, ChunksOK, WindowsOK, ParagraphsOK, SectionsOK
  <2>3. QED
    BY <2>1, <2>2
<1>2. ASSUME NEW q \in Purposes, NEW r \in Purposes PROVE Agree(q, r)'
  <2>1. CASE q = r
    BY <2>1 DEF Agree
  <2>2. CASE q # r /\ (q = p \/ r = p)
    BY <2>2
  <2>3. CASE q # p /\ r # p
    BY <2>3 DEF ExactInv, Agree
  <2>4. QED
    BY <2>1, <2>2, <2>3
<1>3. QED
  BY <1>1, <1>2 DEF ExactInv

LEMMA BeginExact ==
  ASSUME IntakeInv, ExactInv, NEW p \in Purposes, Begin(p)
  PROVE  ExactInv'
<1>1. /\ split[p].step = "idle" /\ document' = document /\ document # NoDocument
      /\ \A q \in Purposes \ {p} : split'[q] = split[q]
      /\ split[p] = Idle
  BY DEF Begin, IntakeInv, SplitOK
<1>2. /\ Stored = document.config /\ Stored # Refused /\ Accepted(document.config)
      /\ Len(document.text) \in Nat
  BY <1>1, SplitMeansStored
<1>3. split'[p] = [Idle EXCEPT !.step = document.config.strategy]
  BY <1>1, <1>2 DEF Begin, IntakeInv
<1>4. document.config.strategy # "done"
  BY <1>2 DEF Accepted, Config, Strategies
<1>5. /\ split'[p].step = document.config.strategy
      /\ split'[p].chunks = <<>> /\ split[p].chunks = <<>>
  BY <1>1, <1>3 DEF Idle
<1>6. ChunksOK(p)'
  <2>1. Len(document'.text) \in Nat
    BY <1>1, <1>2
  <2>2. split'[p] = [Idle EXCEPT !.step = split'[p].step] /\ split'[p].step # "done"
    BY <1>3, <1>4, <1>5
  <2>3. QED
    BY <2>1, <2>2, FreshIsExact
<1>7. \A q \in Purposes \ {p} : Agree(p, q)' /\ Agree(q, p)'
  BY <1>1, <1>5, SameChunksAgree
<1>8. QED
  BY <1>1, <1>6, <1>7, OneCallMoves

(* A loop of one strategy says nothing of the others.                       *)
LEMMA LoopExact ==
  ASSUME IntakeInv, ExactInv, NEW p \in Purposes,
         Window(p) \/ Paragraph(p) \/ Line(p) \/ LastLine(p)
  PROVE  ExactInv'
<1>0. split = [q \in Purposes |-> split[q]]
  BY DEF IntakeInv
<1>1. document' = document /\ \A q \in Purposes \ {p} : split'[q] = split[q]
  <2>1. CASE Window(p)
    BY <1>0, <2>1 DEF Window
  <2>2. CASE Paragraph(p)
    BY <1>0, <2>2 DEF Paragraph
  <2>3. CASE Line(p)
    BY <1>0, <2>3 DEF Line
  <2>4. CASE LastLine(p)
    BY <1>0, <2>4 DEF LastLine
  <2>5. QED
    BY <2>1, <2>2, <2>3, <2>4
<1>2. CASE Window(p)
  <2>1. document.config.strategy = "fixed-character"
    BY <1>2 DEF Window, IntakeInv, SplitOK, Strategies
  <2>2. WindowsOK(p)'
    BY <1>2, WindowStep
  <2>3. ChunksOK(p)'
    BY <1>1, <2>1, <2>2 DEF ChunksOK, ParagraphsOK, SectionsOK
  <2>4. \A q \in Purposes \ {p} : Agree(p, q)' /\ Agree(q, p)'
    BY <1>2, WindowAgrees
  <2>5. QED
    BY <1>1, <2>3, <2>4, OneCallMoves
<1>3. CASE Paragraph(p)
  <2>1. document.config.strategy = "paragraph"
    BY <1>3 DEF Paragraph, IntakeInv, SplitOK, Strategies
  <2>2. ParagraphsOK(p)' /\ \A q \in Purposes \ {p} : Agree(p, q)' /\ Agree(q, p)'
    BY <1>3, ParagraphStep
  <2>3. ChunksOK(p)'
    BY <1>1, <2>1, <2>2 DEF ChunksOK, WindowsOK, SectionsOK
  <2>4. QED
    BY <1>1, <2>2, <2>3, OneCallMoves
<1>4. CASE Line(p) \/ LastLine(p)
  <2>1. document.config.strategy = "markdown-heading"
    BY <1>4 DEF Line, LastLine, IntakeInv, SplitOK, Strategies
  <2>2. SectionsOK(p)' /\ \A q \in Purposes \ {p} : Agree(p, q)' /\ Agree(q, p)'
    BY <1>4, LineStep, LastLineStep
  <2>3. ChunksOK(p)'
    BY <1>1, <2>1, <2>2 DEF ChunksOK, WindowsOK, ParagraphsOK
  <2>4. QED
    BY <1>1, <2>2, <2>3, OneCallMoves
<1>5. QED
  BY <1>2, <1>3, <1>4

LEMMA AllFresh ==
  ASSUME DocumentOK', \A p \in Purposes : split'[p] = Idle
  PROVE  ExactInv'
<1>1. Len(document'.text) \in Nat
  <2>1. CASE document' = NoDocument
    BY <2>1 DEF NoDocument
  <2>2. CASE document'.text \in Seq(STRING)
    BY <2>2
  <2>3. QED
    BY <2>1, <2>2 DEF DocumentOK
<1>2. Idle = [Idle EXCEPT !.step = Idle.step] /\ Idle.step # "done" /\ Idle.chunks = <<>>
  BY DEF Idle
<1>3. \A p \in Purposes : ChunksOK(p)'
  BY <1>1, <1>2, FreshIsExact
<1>4. Len(<<>>) = 0
  OBVIOUS
<1>5. \A p, q \in Purposes : Agree(p, q)'
  BY <1>2, <1>4 DEF Agree
<1>6. QED
  BY <1>3, <1>5 DEF ExactInv

LEMMA ExactInvStep ==
  ASSUME IntakeInv, IntakeInv', ExactInv, [Next]_vars
  PROVE  ExactInv'
<1>1. CASE UNCHANGED chunkingVars
  BY <1>1 DEF chunkingVars, ExactInv, ChunksOK, WindowsOK, ParagraphsOK, SectionsOK, Agree
<1>2. ASSUME NEW text, Handle(text) PROVE ExactInv'
  <2>1. split' = split /\ request.step = "parsed"
    BY <1>2 DEF Handle
  <2>2. split = [p \in Purposes |-> Idle]
    BY <2>1 DEF IntakeInv, DocumentOK
  <2>3. \A p \in Purposes : split'[p] = Idle
    BY <2>1, <2>2
  <2>4. DocumentOK'
    BY DEF IntakeInv
  <2>5. QED
    BY <2>3, <2>4, AllFresh
<1>3. CASE Split
  BY <1>3, BeginExact, LoopExact DEF Split
<1>4. CASE UNCHANGED vars
  BY <1>1, <1>4 DEF vars, chunkingVars
<1>5. QED
  BY <1>1, <1>2, <1>3, <1>4 DEF Next, Send, Receive

-----------------------------------------------------------------------------
(* What the invariant says of calls that have come to their end.            *)

LEMMA SameCut ==
  ASSUME NEW k \in Nat, NEW m \in Nat, NEW n \in Nat, ~(m < n), n < m => k <= n
  PROVE  /\ Min({k, m}) \in Nat /\ Min({k, m}) <= m /\ Min({k, m}) <= n
         /\ Min({k, n}) = Min({k, m})
<1>1. /\ Min({k, m}) = IF k <= m THEN k ELSE m
      /\ Min({k, n}) = IF k <= n THEN k ELSE n
  BY MinOfTwo
<1>2. QED
  BY <1>1

(* Two calls that agree as far as both go show the same up to the limit,    *)
(* unless one has more to show.                                             *)
LEMMA ShownIsTheSame ==
  ASSUME NEW c, NEW d, IsSequence(c), IsSequence(d),
         \A i \in (1..Len(c)) \cap (1..Len(d)) : c[i] = d[i],
         ~(Len(c) < Len(d)), Len(d) < Len(c) => PreviewLimit <= Len(d)
  PROVE  Shown(d) = Shown(c)
<1>1. Len(c) \in Nat /\ Len(d) \in Nat /\ DOMAIN c = 1..Len(c) /\ DOMAIN d = 1..Len(d)
  BY SequenceFacts
<1>2. PreviewLimit \in Nat
  BY ChunkingAssumption
<1> DEFINE m == Min({PreviewLimit, Len(c)})
<1>3. /\ m \in Nat /\ m <= Len(c) /\ m <= Len(d)
      /\ Min({PreviewLimit, Len(d)}) = m
  BY <1>1, <1>2, SameCut
<1> HIDE DEF m
<1>4. \A i \in 1..m : d[i] = c[i]
  BY <1>1, <1>3
<1>5. SubSeq(d, 1, m) = SubSeq(c, 1, m)
  BY <1>3, <1>4
<1>6. QED
  BY <1>3, <1>5 DEF Shown, m

(* Two runs that have both come to the end of the text are equally long.    *)
LEMMA WindowsEnd ==
  ASSUME NEW c, NEW d, IsSequence(c), IsSequence(d), NEW length, NEW config,
         WindowRun(d, length, config), AtTheEnd(c, length),
         \A i \in (1..Len(c)) \cap (1..Len(d)) : c[i] = d[i]
  PROVE  ~(Len(c) < Len(d))
<1> SUFFICES ASSUME Len(c) < Len(d) PROVE FALSE
  OBVIOUS
<1>1. Len(c) \in Nat /\ Len(d) \in Nat
  BY SequenceFacts
<1>2. Len(c) \in (1..Len(c)) \cap (1..Len(d)) /\ Len(c) \in 1..(Len(d) - 1)
  BY <1>1 DEF AtTheEnd
<1>3. d[Len(c)].end = length /\ d[Len(c)].end # length
  BY <1>2 DEF AtTheEnd, WindowRun
<1>4. QED
  BY <1>3

LEMMA ParagraphsEnd ==
  ASSUME NEW text \in Seq(STRING), NEW c, NEW d, IsSequence(c), IsSequence(d),
         Passed(text, c, Len(text)), ParagraphRun(text, d),
         \A i \in (1..Len(c)) \cap (1..Len(d)) : c[i] = d[i]
  PROVE  ~(Len(c) < Len(d))
<1> SUFFICES ASSUME Len(c) < Len(d) PROVE FALSE
  OBVIOUS
<1> DEFINE n == Len(c)
           v == d[n + 1]
<1>1. n \in Nat /\ Len(d) \in Nat /\ n + 1 \in 1..Len(d)
  <2>1. n \in Nat /\ Len(d) \in Nat
    BY SequenceFacts
  <2>2. QED
    BY <2>1
<1>2. IsParagraph(text, v)
  BY <1>1 DEF ParagraphRun
<1>3. v.start \in Nat /\ v.start < Len(text) /\ ~White(At(text, v.start))
  <2>1. Len(text) \in Nat
    OBVIOUS
  <2> HIDE DEF v
  <2>2. QED
    BY <1>2, <2>1 DEF IsParagraph
<1>4. PrevEnd(c) \in Nat /\ PrevEnd(c) <= v.start
  <2>1. PrevEnd(c) \in Nat
    BY DEF Passed
  <2>2. CASE n = 0
    <3>1. PrevEnd(c) = 0
      BY <2>2 DEF PrevEnd
    <3> HIDE DEF v
    <3>2. QED
      BY <1>3, <3>1
  <2>3. CASE n # 0
    <3>1. n \in (1..n) \cap (1..Len(d)) /\ n \in 1..(Len(d) - 1)
      BY <1>1, <2>3
    <3>2. PrevEnd(c) = c[n].end /\ c[n] = d[n]
      BY <2>3, <3>1 DEF PrevEnd
    <3>3. QED
      BY <2>1, <3>1, <3>2 DEF ParagraphRun
  <2>4. QED
    BY <2>2, <2>3
<1> HIDE DEF v
<1>5. v.start \in PrevEnd(c)..(Len(text) - 1)
  BY <1>3, <1>4
<1>6. QED
  BY <1>3, <1>5 DEF Passed, NoneVisible

LEMMA SectionsEnd ==
  ASSUME NEW text, Len(text) \in Nat, NEW c, NEW d, IsSequence(c), IsSequence(d),
         AtTheEnd(c, Len(text)), SectionRun(text, d),
         \A i \in (1..Len(c)) \cap (1..Len(d)) : c[i] = d[i]
  PROVE  ~(Len(c) < Len(d))
<1> SUFFICES ASSUME Len(c) < Len(d) PROVE FALSE
  OBVIOUS
<1> DEFINE n == Len(c)
           v == d[n + 1]
<1>1. /\ n \in Nat /\ Len(d) \in Nat /\ n + 1 \in 1..Len(d)
      /\ n \in (1..n) \cap (1..Len(d)) /\ n \in 1..(Len(d) - 1)
  <2>1. n \in Nat /\ Len(d) \in Nat /\ n > 0
    BY SequenceFacts DEF AtTheEnd
  <2>2. QED
    BY <2>1
<1>2. v.start = Len(text)
  BY <1>1 DEF AtTheEnd, SectionRun
<1>3. IsSection(text, v)
  BY <1>1 DEF SectionRun
<1> HIDE DEF v
<1>4. v.start < v.end /\ (v.end \in Headings(text) \/ v.end = Len(text))
  BY <1>3 DEF IsSection, Ends
<1>5. \A h \in Headings(text) : h \in Nat /\ h < Len(text)
  BY HeadingsType
<1>6. QED
  BY <1>2, <1>4, <1>5

(* A run that has come to the end is what FixedWindows asks for.            *)
LEMMA RunIsExact ==
  ASSUME NEW text \in Seq(STRING), NEW c, IsSequence(c), NEW config,
         config.max \in Nat, config.overlap \in Nat, config.overlap < config.max,
         WindowRun(c, Len(text), config), AtTheEnd(c, Len(text))
  PROVE  FixedWindows(text, config, c)
<1> DEFINE n == Len(c)
           length == Len(text)
<1>1. n \in Nat /\ n > 0 /\ DOMAIN c = 1..n /\ length \in Nat
  BY SequenceFacts DEF AtTheEnd
<1>2. c[1].start = 0 /\ Last(c).end = length
  BY <1>1 DEF WindowRun, AtTheEnd, Last
<1>3. ASSUME NEW i \in 1..n
      PROVE  /\ c[i].start \in Nat /\ c[i].end \in Nat
             /\ c[i].end = IF c[i].start + config.max <= length
                           THEN c[i].start + config.max ELSE length
             /\ c[i].end - c[i].start <= config.max
  <2>1. c[i].start \in 0..(length - 1) /\ c[i] = WindowAt(c[i].start, length, config)
    BY <1>3 DEF WindowRun
  <2>2. c[i].end = IF c[i].start + config.max <= length
                   THEN c[i].start + config.max ELSE length
    BY <2>1 DEF WindowAt
  <2>3. QED
    BY <1>1, <2>1, <2>2
<1>4. ASSUME NEW i \in 1..(n - 1)
      PROVE  /\ c[i].end < c[i + 1].end
             /\ c[i].end - c[i + 1].start = config.overlap
  <2>1. i \in 1..n /\ i + 1 \in 1..n
    BY <1>1
  <2>2. /\ c[i].end # length
        /\ c[i + 1].start = c[i].start + (config.max - config.overlap)
    BY <1>4 DEF WindowRun
  <2> HIDE DEF n, length
  <2>3. c[i].start \in Nat /\ c[i].end = c[i].start + config.max /\ c[i].end < length
    BY <1>1, <1>3, <2>1, <2>2
  <2>4. c[i + 1].end > c[i].end
    <3>1. c[i + 1].end = IF c[i + 1].start + config.max <= length
                         THEN c[i + 1].start + config.max ELSE length
      BY <1>3, <2>1
    <3>2. QED
      BY <1>1, <2>2, <2>3, <3>1
  <2>5. QED
    BY <2>2, <2>3, <2>4
<1>5. QED
  BY <1>1, <1>2, <1>3, <1>4 DEF FixedWindows

(* Paragraphs up to the end of the text are what WholeParagraphs asks for.  *)
LEMMA ParagraphsAreWhole ==
  ASSUME NEW text \in Seq(STRING), NEW c, IsSequence(c), Passed(text, c, Len(text))
  PROVE  WholeParagraphs(text, c)
<1>1. Len(c) \in Nat /\ DOMAIN c = 1..Len(c) /\ Len(text) \in Nat
  BY SequenceFacts
<1>2. Visible(text, 0, Len(text)) \subseteq UNION {c[i].start..(c[i].end - 1) : i \in DOMAIN c}
  <2>1. ASSUME NEW v \in Visible(text, 0, Len(text))
        PROVE  \E i \in DOMAIN c : v \in c[i].start..(c[i].end - 1)
    <3>1. v \in 0..(Len(text) - 1) /\ ~White(At(text, v))
      BY DEF Visible
    <3>2. InChunk(c, v)
      BY <3>1 DEF Passed
    <3>3. QED
      BY <1>1, <3>2 DEF InChunk
  <2>2. QED
    BY <2>1
<1>3. ASSUME NEW i \in DOMAIN c
      PROVE  /\ ~White(At(text, c[i].start)) /\ ~White(At(text, c[i].end - 1))
             /\ ~BlankLine(text, c[i].start, c[i].end)
  BY <1>1 DEF Passed, ParagraphRun, IsParagraph
<1>4. ASSUME NEW i \in 1..(Len(c) - 1)
      PROVE  /\ c[i].end <= c[i + 1].start
             /\ BlankLine(text, c[i].end, c[i + 1].start)
  <2> DEFINE a == c[i]
             b == c[i + 1]
  <2>1. i \in 1..Len(c) /\ i + 1 \in 1..Len(c)
    BY <1>1
  <2>2. IsParagraph(text, a) /\ IsParagraph(text, b) /\ a.end <= b.start
    BY <2>1 DEF Passed, ParagraphRun
  <2> HIDE DEF a, b
  <2>3. /\ a.end \in Nat /\ b.start \in Nat /\ b.start < Len(text)
        /\ ~White(At(text, b.start))
    BY <1>1, <2>2 DEF IsParagraph
  <2>4. b.start \in a.end..(Len(text) - 1)
    BY <1>1, <2>2, <2>3
  <2>5. BlankLine(text, a.end, b.start)
    BY <2>2, <2>3, <2>4 DEF IsParagraph
  <2>6. QED
    BY <2>2, <2>5 DEF a, b
<1>5. QED
  BY <1>2, <1>3, <1>4 DEF WholeParagraphs

(* Sections up to the end of the text are what HeadingOutline asks for.     *)
LEMMA SectionsAreTheOutline ==
  ASSUME NEW text, Len(text) \in Nat, NEW c, IsSequence(c), SectionRun(text, c),
         AtTheEnd(c, Len(text)),
         \A h \in Headings(text) : \E i \in 1..Len(c) : c[i].start = h
  PROVE  HeadingOutline(text, c)
<1>1. Len(c) \in Nat /\ DOMAIN c = 1..Len(c) /\ Len(c) > 0
  BY SequenceFacts DEF AtTheEnd
<1>2. /\ \A i \in 1..Len(c) : IsSection(text, c[i])
      /\ c[1].start = 0 /\ 1 \in 1..Len(c)
      /\ \A i \in 1..(Len(c) - 1) : c[i].end = c[i + 1].start
  BY <1>1 DEF SectionRun
<1>3. {c[i].start : i \in DOMAIN c} = Headings(text) \cup {0}
  <2>1. \A i \in 1..Len(c) : c[i].start \in Headings(text) \cup {0}
    BY <1>2 DEF IsSection, Starts
  <2>2. \A h \in Headings(text) \cup {0} : \E i \in 1..Len(c) : c[i].start = h
    BY <1>2
  <2>3. QED
    BY <1>1, <2>1, <2>2
<1>4. Last(c).end = Len(text)
  BY <1>1 DEF AtTheEnd, Last
<1>5. \A i \in DOMAIN c : InOrder(c[i].headings, Under(text, c[i].start))
  BY <1>1, <1>2 DEF IsSection
<1>6. QED
  BY <1>2, <1>3, <1>4, <1>5 DEF HeadingOutline

(* Every text and configuration that an upload can store: the indexed       *)
(* chunks are what the strategy promises, windows that share exactly the    *)
(* overlap and leave no gap, paragraphs that lose no character, sections    *)
(* under the right headings, and the preview shows the same ones.           *)
THEOREM ChunksAlwaysExact == Spec => []ChunksExact
<1>1. Init => ExactInv
  <2> SUFFICES ASSUME Init PROVE ExactInv
    OBVIOUS
  <2> DEFINE none == <<>>
  <2>1. /\ document.config.strategy = "refused"
        /\ \A p \in Purposes : split[p].chunks = none /\ Len(none) = 0
    BY DEF Init, NoDocument, Refused, Idle
  <2> HIDE DEF none
  <2>2. QED
    BY <2>1 DEF ExactInv, ChunksOK, WindowsOK, ParagraphsOK, SectionsOK, Agree
<1>2. IntakeInv /\ IntakeInv' /\ ExactInv /\ [Next]_vars => ExactInv'
  BY ExactInvStep
<1>3. IntakeInv /\ ExactInv => ChunksExact
  <2> SUFFICES ASSUME IntakeInv, ExactInv, split["index"].step = "done"
               PROVE  ChunksExact
    BY DEF ChunksExact
  <2> DEFINE c == split["index"].chunks
             d == split["preview"].chunks
             text == document.text
             config == document.config
             done == split["preview"].step = "done"
  <2>1. "index" \in Purposes /\ "preview" \in Purposes
    BY DEF Purposes
  <2>2. /\ IsSequence(c) /\ IsSequence(d)
        /\ \A i \in (1..Len(c)) \cap (1..Len(d)) : c[i] = d[i]
        /\ ~Full("index", c) /\ (Full("preview", d) <=> Len(d) >= PreviewLimit)
    BY <2>1 DEF IntakeInv, SplitOK, ExactInv, Agree, Full
  <2>3. /\ text \in Seq(STRING) /\ Len(text) \in Nat /\ Accepted(config)
        /\ config.strategy \in Strategies
    <3>1. text \in Seq(STRING) /\ Accepted(config)
      BY <2>1 DEF IntakeInv, DocumentOK, Idle
    <3>2. QED
      BY <3>1 DEF Accepted, Config
  <2>4. WindowsOK("index") /\ ParagraphsOK("index") /\ SectionsOK("index")
        /\ WindowsOK("preview") /\ ParagraphsOK("preview") /\ SectionsOK("preview")
    BY <2>1 DEF ExactInv, ChunksOK
  <2>5. ASSUME ~(Len(c) < Len(d)), done /\ ~Full("preview", d) => ~(Len(d) < Len(c))
        PROVE  done => Shown(d) = Shown(c)
    <3> SUFFICES ASSUME done PROVE Shown(d) = Shown(c)
      OBVIOUS
    <3>1. Len(c) \in Nat /\ Len(d) \in Nat
      BY <2>2, SequenceFacts
    <3>2. PreviewLimit \in Nat
      BY ChunkingAssumption
    <3>3. Len(d) < Len(c) => PreviewLimit <= Len(d)
      <4>1. Len(d) < Len(c) => Len(d) >= PreviewLimit
        BY <2>2, <2>5
      <4>2. Len(d) >= PreviewLimit => PreviewLimit <= Len(d)
        BY <3>1, <3>2
      <4>3. QED
        BY <4>1, <4>2
    <3> HIDE DEF c, d
    <3>4. QED
      BY <2>2, <2>5, <3>3, ShownIsTheSame
  <2>6. CASE config.strategy = "fixed-character"
    <3>1. /\ WindowRun(c, Len(text), config) /\ WindowRun(d, Len(text), config)
          /\ AtTheEnd(c, Len(text))
          /\ done => AtTheEnd(d, Len(text)) \/ Full("preview", d)
      BY <2>2, <2>4, <2>6 DEF WindowsOK
    <3>2. config.max \in Nat /\ config.overlap \in Nat /\ config.overlap < config.max
      BY <2>3, <2>6 DEF Accepted, Config
    <3>3. ~(Len(c) < Len(d))
      BY <2>2, <3>1, WindowsEnd
    <3>4. AtTheEnd(d, Len(text)) => ~(Len(d) < Len(c))
      BY <2>2, <3>1, WindowsEnd
    <3>5. FixedWindows(text, config, c)
      BY <2>2, <2>3, <3>1, <3>2, RunIsExact
    <3>6. done => Shown(d) = Shown(c)
      BY <2>5, <3>1, <3>3, <3>4
    <3>7. QED
      BY <2>6, <3>5, <3>6 DEF ChunksExact
  <2>7. CASE config.strategy = "paragraph"
    <3>1. /\ ParagraphRun(text, c) /\ ParagraphRun(text, d)
          /\ Passed(text, c, Len(text))
          /\ done => Passed(text, d, Len(text)) \/ Full("preview", d)
      BY <2>2, <2>4, <2>7 DEF ParagraphsOK, Passed
    <3>2. ~(Len(c) < Len(d))
      BY <2>2, <2>3, <3>1, ParagraphsEnd
    <3>3. Passed(text, d, Len(text)) => ~(Len(d) < Len(c))
      BY <2>2, <2>3, <3>1, ParagraphsEnd
    <3>4. WholeParagraphs(text, c)
      BY <2>2, <2>3, <3>1, ParagraphsAreWhole
    <3>5. done => Shown(d) = Shown(c)
      BY <2>5, <3>1, <3>2, <3>3
    <3>6. QED
      BY <2>7, <3>4, <3>5 DEF ChunksExact
  <2>8. CASE config.strategy = "markdown-heading"
    <3>1. /\ SectionRun(text, c) /\ SectionRun(text, d)
          /\ AtTheEnd(c, Len(text))
          /\ \A h \in Headings(text) : \E i \in 1..Len(c) : c[i].start = h
          /\ done => AtTheEnd(d, Len(text)) \/ Full("preview", d)
      BY <2>2, <2>4, <2>8 DEF SectionsOK
    <3>2. ~(Len(c) < Len(d))
      BY <2>2, <2>3, <3>1, SectionsEnd
    <3>3. AtTheEnd(d, Len(text)) => ~(Len(d) < Len(c))
      BY <2>2, <2>3, <3>1, SectionsEnd
    <3>4. HeadingOutline(text, c)
      BY <2>2, <2>3, <3>1, SectionsAreTheOutline
    <3>5. done => Shown(d) = Shown(c)
      BY <2>5, <3>1, <3>2, <3>3
    <3>6. QED
      BY <2>8, <3>4, <3>5 DEF ChunksExact
  <2>9. QED
    BY <2>3, <2>6, <2>7, <2>8 DEF Strategies
<1>4. QED
  BY <1>1, <1>2, <1>3, InvariantHolds, PTL DEF Spec
===============================================================================
