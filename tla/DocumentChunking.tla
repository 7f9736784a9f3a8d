--------------------------- MODULE DocumentChunking ---------------------------
(***************************************************************************)
(* knowledge_chunking.py: how the text of a document becomes chunks, for   *)
(* indexing and, up to a limit, for the preview of the same document.      *)
(*                                                                         *)
(* A text is a sequence of classes of characters: "x" is visible, "s" a    *)
(* blank or tab, "r" and "n" the parts of a line end, "f" any other white  *)
(* space.  For the markdown-heading strategy, which never cuts a line, it  *)
(* is a sequence of classes of lines: "h1" to "h3" headings, "b3", "b4"    *)
(* and "t3" fences of three or four backticks and of three tildes, "text"  *)
(* and "blank".  Positions count from 0, as in the code.                   *)
(***************************************************************************)
EXTENDS Integers, Sequences, SequencesExt, FiniteSetsExt

CONSTANTS
  DefaultMax,      \* DEFAULT_MAX_CHARACTERS
  DefaultOverlap,  \* DEFAULT_OVERLAP
  PreviewLimit     \* MAX_PREVIEW_CHUNKS

ASSUME ChunkingAssumption ==
  /\ DefaultMax \in Nat /\ DefaultOverlap \in Nat /\ DefaultOverlap < DefaultMax
  /\ PreviewLimit \in Nat \ {0}

Strategies == {"fixed-character", "paragraph", "markdown-heading"}
Purposes == {"index", "preview"}

VARIABLES
  document,  \* the stored document: its text and its configuration, or NoDocument
  split      \* split[p]: the call of chunk_document_text for purpose p

chunkingVars == <<document, split>>

-----------------------------------------------------------------------------
(* normalize_chunking_config, of what a client sends or a row holds.       *)
Unset == 99
Config == [strategy : Strategies, max : Int, overlap : Int]
Refused == [strategy |-> "refused", max |-> Unset, overlap |-> Unset]

Given(value, default) == IF value = Unset THEN default ELSE value

Normalized(input) ==
  LET strategy == IF input.strategy = "unset" THEN "fixed-character" ELSE input.strategy
      max      == Given(input.max, DefaultMax)
      overlap  == Given(input.overlap, DefaultOverlap) IN
  IF \/ input.extra \/ strategy \notin Strategies THEN Refused
  ELSE IF strategy # "fixed-character"
  THEN IF input.max # Unset \/ input.overlap # Unset THEN Refused
       ELSE [strategy |-> strategy, max |-> Unset, overlap |-> Unset]
  ELSE IF max <= 0 \/ overlap < 0 \/ overlap >= max THEN Refused
       ELSE [strategy |-> strategy, max |-> max, overlap |-> overlap]

(* ChunkingConfig.public: what is stored, shown and normalized again.      *)
PublicWithDefaults(config) ==                        \* mutant of Public
  [extra |-> FALSE, strategy |-> config.strategy,
   max |-> Given(config.max, DefaultMax), overlap |-> Given(config.overlap, DefaultOverlap)]
Public(config) ==
  [extra |-> FALSE, strategy |-> config.strategy,
   max |-> config.max, overlap |-> config.overlap]

-----------------------------------------------------------------------------
White(e) == e \in {"s", "r", "n", "f", "blank"}
Blank(text) == \A i \in DOMAIN text : White(text[i])

At(text, i) == IF i < Len(text) THEN text[i + 1] ELSE "end"

(* re.finditer(r"\r?\n[ \t\r]*\n"): a match starts at i and ends at j.     *)
BoundaryFrom(text, i, j) ==
  LET first == IF At(text, i) = "r" THEN i + 1 ELSE i IN
  /\ first < j - 1 /\ At(text, first) = "n" /\ At(text, j - 1) = "n"
  /\ \A k \in (first + 1)..(j - 2) : At(text, k) \in {"s", "r"}

Boundaries(text, from) ==
  {b \in (from..Len(text)) \X (from..Len(text)) : BoundaryFrom(text, b[1], b[2])}

(* The leftmost one from a position on, or the end of the text.            *)
NextBoundary(text, from) ==
  IF Boundaries(text, from) = {} THEN <<Len(text), Len(text)>>
  ELSE CHOOSE b \in Boundaries(text, from) : \A c \in Boundaries(text, from) : b[1] <= c[1]

(* append: a range of the text without anything in it is no chunk.         *)
AppendChunk(chunks, start, end, headings) ==
  IF start < end THEN Append(chunks, [start |-> start, end |-> end, headings |-> headings])
  ELSE chunks

Level(line) == CASE line = "h1" -> 1 [] line = "h2" -> 2 [] line = "h3" -> 3 [] OTHER -> 0
Fence(line) == CASE line = "b3" -> [mark |-> "backtick", size |-> 3]
                 [] line = "b4" -> [mark |-> "backtick", size |-> 4]
                 [] line = "t3" -> [mark |-> "tilde", size |-> 3]
                 [] OTHER -> [mark |-> "none", size |-> 0]
NoFence == Fence("text")

(* The fence that is open after a line, by the one open before it.         *)
After(fence, line) ==
  LET token == Fence(line) IN
  CASE token = NoFence -> fence
    [] token # NoFence /\ fence = NoFence -> token
    [] OTHER -> IF token.mark = fence.mark /\ token.size >= fence.size
                THEN NoFence ELSE fence

-----------------------------------------------------------------------------
Idle == [step |-> "idle", at |-> 0, start |-> 0, chunks |-> <<>>,
         headings |-> <<>>, fence |-> NoFence]
NoDocument == [text |-> <<>>, config |-> Refused]

(* The configuration as the row is read and chunk_document_text starts.    *)
Stored == Normalized(Public(Normalized(Public(document.config))))

Full(p, chunks) == p = "preview" /\ Len(chunks) >= PreviewLimit

Begin(p) ==
  /\ document # NoDocument /\ split[p].step = "idle"
  /\ split' = [split EXCEPT ![p].step =
                 IF Stored = Refused THEN "error" ELSE Stored.strategy]
  /\ UNCHANGED document

(* One window of fixed-character.                                          *)
WindowToTheEnd(p) ==                                 \* mutant of Window
  LET s      == split[p]
      end    == Min({s.at + Stored.max, Len(document.text)})
      chunks == AppendChunk(s.chunks, s.at, end, <<>>)
      next   == s.at + (Stored.max - Stored.overlap) IN
  /\ s.step = "fixed-character"
  /\ split' = [split EXCEPT ![p] =
       [s EXCEPT !.chunks = chunks, !.at = next,
                 !.step = IF next >= Len(document.text) \/ Full(p, chunks) THEN "done" ELSE @]]
  /\ UNCHANGED document
Window(p) ==
  LET s      == split[p]
      end    == Min({s.at + Stored.max, Len(document.text)})
      chunks == AppendChunk(s.chunks, s.at, end, <<>>) IN
  /\ s.step = "fixed-character"
  /\ split' = [split EXCEPT ![p] =
       [s EXCEPT !.chunks = chunks,
                 !.at = @ + (Stored.max - Stored.overlap),
                 !.step = IF end = Len(document.text) \/ Full(p, chunks) THEN "done" ELSE @]]
  /\ UNCHANGED document

(* One boundary of paragraph, or the end of the text.                      *)
Visible(text, from, to) == {i \in from..(to - 1) : ~White(At(text, i))}

Paragraph(p) ==
  LET s       == split[p]
      bound   == NextBoundary(document.text, s.at)
      visible == Visible(document.text, s.start, bound[1])
      chunks  == IF visible = {} THEN s.chunks
                 ELSE AppendChunk(s.chunks, Min(visible), Max(visible) + 1, <<>>) IN
  /\ s.step = "paragraph"
  /\ split' = [split EXCEPT ![p] =
       [s EXCEPT !.chunks = chunks, !.at = bound[2], !.start = bound[2],
                 !.step = IF bound[1] = Len(document.text) \/ Full(p, chunks)
                          THEN "done" ELSE @]]
  /\ UNCHANGED document

(* One line of markdown-heading; the last chunk after the last line.       *)
Labels(headings) == [i \in DOMAIN headings |-> headings[i].line]

(* Those of a lower level, in the order they have.                         *)
Outer(headings, level) ==
  LET kept == {i \in DOMAIN headings : headings[i].level < level} IN
  [k \in 1..Cardinality(kept) |->
     headings[CHOOSE i \in kept : Cardinality({j \in kept : j <= i}) = k]]

Line(p) ==
  LET s      == split[p]
      line   == At(document.text, s.at)
      fence  == After(s.fence, line)
      chunks == AppendChunk(s.chunks, s.start, s.at, Labels(s.headings)) IN
  /\ s.step = "markdown-heading" /\ s.at < Len(document.text)
  /\ split' = [split EXCEPT ![p] =
       IF Level(line) = 0 \/ fence # NoFence
       THEN [s EXCEPT !.fence = fence, !.at = @ + 1]
       ELSE IF Full(p, chunks) THEN [s EXCEPT !.chunks = chunks, !.step = "done"]
       ELSE [s EXCEPT !.chunks = chunks, !.at = @ + 1, !.start = s.at, !.fence = fence,
                      !.headings = Append(Outer(@, Level(line)), [level |-> Level(line), line |-> s.at])]]
  /\ UNCHANGED document

LastLine(p) ==
  LET s == split[p] IN
  /\ s.step = "markdown-heading" /\ s.at = Len(document.text)
  /\ split' = [split EXCEPT ![p].step = "done",
                 ![p].chunks = AppendChunk(@, s.start, s.at, Labels(s.headings))]
  /\ UNCHANGED document

Split == \E p \in Purposes : Begin(p) \/ Window(p) \/ Paragraph(p) \/ Line(p) \/ LastLine(p)

-----------------------------------------------------------------------------
(* Windows cover the text without a gap, share exactly the overlap, and    *)
(* only the last one reaches the end: no tail is dropped or repeated.      *)
FixedWindows(text, config, chunks) ==
  /\ chunks[1].start = 0 /\ Last(chunks).end = Len(text)
  /\ \A i \in DOMAIN chunks : chunks[i].end - chunks[i].start <= config.max
  /\ \A i \in 1..(Len(chunks) - 1) :
       /\ chunks[i].end < chunks[i + 1].end
       /\ chunks[i].end - chunks[i + 1].start = config.overlap

(* Paragraphs are what blank lines separate: every visible character is in *)
(* one, none starts or ends with white space, none holds a blank line, and *)
(* there is one between any two.                                           *)
BlankLine(text, from, to) == \E i, j \in from..to : BoundaryFrom(text, i, j)

WholeParagraphs(text, chunks) ==
  /\ Visible(text, 0, Len(text)) \subseteq
       UNION {chunks[i].start..(chunks[i].end - 1) : i \in DOMAIN chunks}
  /\ \A i \in DOMAIN chunks :
       /\ ~White(At(text, chunks[i].start)) /\ ~White(At(text, chunks[i].end - 1))
       /\ ~BlankLine(text, chunks[i].start, chunks[i].end)
  /\ \A i \in 1..(Len(chunks) - 1) :
       /\ chunks[i].end <= chunks[i + 1].start
       /\ BlankLine(text, chunks[i].end, chunks[i + 1].start)

(* Headings are the heading lines outside fences; each starts a chunk that *)
(* goes to the next one and names the headings it stands under.            *)
Fences(text) ==
  LET open[i \in 0..Len(text)] ==
        IF i = 0 THEN NoFence ELSE After(open[i - 1], text[i])
  IN open
Headings(text) ==
  {i \in 0..(Len(text) - 1) : Level(At(text, i)) # 0 /\ Fences(text)[i] = NoFence}
Under(text, i) ==
  {h \in Headings(text) : h <= i /\ \A k \in Headings(text) :
     (h < k /\ k <= i) => Level(At(text, h)) < Level(At(text, k))}

InOrder(positions, S) ==
  /\ {positions[i] : i \in DOMAIN positions} = S
  /\ \A i, j \in DOMAIN positions : i < j => positions[i] < positions[j]

HeadingOutline(text, chunks) ==
  /\ {chunks[i].start : i \in DOMAIN chunks} = Headings(text) \cup {0}
  /\ chunks[1].start = 0 /\ Last(chunks).end = Len(text)
  /\ \A i \in 1..(Len(chunks) - 1) : chunks[i].end = chunks[i + 1].start
  /\ \A i \in DOMAIN chunks : InOrder(chunks[i].headings, Under(text, chunks[i].start))

(* preview_chunks shows no more than the limit in any case.                *)
Shown(chunks) == SubSeq(chunks, 1, Min({PreviewLimit, Len(chunks)}))

(* What indexing stores is what the strategy promises of this text, for    *)
(* every text, size, overlap and line end (chunk_document_text), and the   *)
(* preview, although it stops early, shows the same chunks up to its limit. *)
ChunksExact ==
  split["index"].step = "done" =>
    /\ split["preview"].step = "done" =>
         Shown(split["preview"].chunks) = Shown(split["index"].chunks)
    /\ CASE document.config.strategy = "fixed-character" ->
              FixedWindows(document.text, document.config, split["index"].chunks)
         [] document.config.strategy = "paragraph" ->
              WholeParagraphs(document.text, split["index"].chunks)
         [] document.config.strategy = "markdown-heading" ->
              HeadingOutline(document.text, split["index"].chunks)
=============================================================================
