---------------------------- MODULE DocumentIntake ----------------------------
(***************************************************************************)
(* An upload from the socket to the table: the limit on the body as it     *)
(* arrives in pieces (KnowledgeUploadLimit), the checks of the handler and *)
(* of extract_document, then the splitting of what was stored.             *)
(***************************************************************************)
EXTENDS DocumentChunking

CONSTANTS
  MaxUpload,   \* MAX_UPLOAD_BYTES
  Allowance,   \* bytes of a body beyond the file: boundaries, other fields
  Overheads,   \* how many of these a client may send
  Sizes,       \* sizes of files
  Kinds,       \* kinds of files, see File
  Texts,       \* Texts[s]: the texts used with strategy s
  Inputs       \* chunkingConfig fields, see Settings

(* named: the name is a plain one that ends in .md or .pdf; typed: and the *)
(* MIME type agrees; decodes: UTF-8, or a PDF that opens without password. *)
File == [named : BOOLEAN, typed : BOOLEAN, decodes : BOOLEAN]

ASSUME IntakeAssumption ==
  /\ MaxUpload \in Nat \ {0} /\ Allowance \in Nat
  /\ Sizes \subseteq Nat /\ Overheads \subseteq Nat
  /\ Kinds \in [DOMAIN Kinds -> File]
  /\ Inputs \in [DOMAIN Inputs ->
                  [extra : BOOLEAN, strategy : STRING, max : Int, overlap : Int]]
  /\ DOMAIN Texts = Strategies \cup {"refused"}
  /\ \A s \in DOMAIN Texts : Texts[s] \subseteq Seq(STRING)

VARIABLE request  \* the upload at work

vars == <<document, split, request>>

NoRequest == [step |-> "idle", size |-> 0, overhead |-> 0, total |-> 0, parsed |-> 0,
              own |-> FALSE, fields |-> FALSE, input |-> "absent", file |-> "none",
              answer |-> "none"]

(* _config: no field is the default, a field that says null is an error.   *)
Settings(input) ==
  CASE input = "absent" -> Normalized([extra |-> FALSE, strategy |-> "unset",
                                       max |-> Unset, overlap |-> Unset])
    [] input = "null" -> Refused
    [] OTHER -> Normalized(Inputs[input])

(* A client sends: whether to its own knowledge base, whether with the     *)
(* fields the form has, once each, which settings, which file.             *)
Send(size, overhead, own, fields, input, kind) ==
  /\ request.step = "idle" /\ document = NoDocument
  /\ request' = [NoRequest EXCEPT !.step = "receiving", !.size = size, !.overhead = overhead,
                   !.own = own, !.fields = fields, !.input = input, !.file = kind]
  /\ UNCHANGED chunkingVars

Body == request.size + request.overhead

(* limited_receive: n more bytes of the body; the parser sees them unless  *)
(* they go beyond the limit.                                               *)
ReceiveBelow(n) ==                                   \* mutant of Receive
  LET total == request.total + n IN
  /\ request.step = "receiving" /\ n <= Body - request.total
  /\ request' = IF total >= MaxUpload + Allowance
       THEN [request EXCEPT !.total = total, !.step = "answered", !.answer = "too large"]
       ELSE [request EXCEPT !.total = total, !.parsed = total,
                            !.step = IF total = Body THEN "parsed" ELSE @]
  /\ UNCHANGED chunkingVars
Receive(n) ==
  LET total == request.total + n IN
  /\ request.step = "receiving" /\ n <= Body - request.total
  /\ request' = IF total > MaxUpload + Allowance
       THEN [request EXCEPT !.total = total, !.step = "answered", !.answer = "too large"]
       ELSE [request EXCEPT !.total = total, !.parsed = total,
                            !.step = IF total = Body THEN "parsed" ELSE @]
  /\ UNCHANGED chunkingVars

(* extract_document, in the order of its checks.                           *)
ExtractedAnySize(kind, size, text) ==                \* mutant of Extracted
  /\ kind.named /\ 0 < size /\ kind.typed /\ kind.decodes
  /\ ~Blank(text)
Extracted(kind, size, text) ==
  /\ kind.named /\ 0 < size /\ size <= MaxUpload /\ kind.typed /\ kind.decodes
  /\ ~Blank(text)

(* upload_document up to the transactions of the service: the file is read *)
(* to one byte beyond the limit, so that a larger one is told apart.       *)
Verdict(text) ==
  CASE ~request.own -> "forbidden"
    [] request.own /\ (~request.fields \/ Settings(request.input) = Refused) -> "bad request"
    [] OTHER -> IF Extracted(Kinds[request.file], Min({request.size, MaxUpload + 1}), text)
                THEN "stored" ELSE "bad request"

Handle(text) ==
  /\ request.step = "parsed"
  /\ request' = [request EXCEPT !.step = "answered", !.answer = Verdict(text)]
  /\ document' = IF Verdict(text) # "stored" THEN document
                 ELSE [text |-> text, config |-> Settings(request.input)]
  /\ UNCHANGED split

Init ==
  /\ document = NoDocument
  /\ split = [p \in Purposes |-> Idle]
  /\ request = NoRequest

Next ==
  \/ \E size \in Sizes, overhead \in Overheads, own, fields \in BOOLEAN,
        input \in {"absent", "null"} \cup DOMAIN Inputs, kind \in DOMAIN Kinds :
       Send(size, overhead, own, fields, input, kind)
  \/ \E n \in 1..(MaxUpload + Allowance + 1) : Receive(n)
  \/ \E text \in Texts[Settings(request.input).strategy] : Handle(text)
  \/ Split /\ UNCHANGED request

Spec == Init /\ [][Next]_vars

-----------------------------------------------------------------------------
(* However the body is cut, the parser never sees more than the limit, and *)
(* only a body that breaks it is refused for its size: a file of exactly   *)
(* MAX_UPLOAD_BYTES goes through, a longer one is never stored.            *)
UploadBounded ==
  /\ request.parsed <= MaxUpload + Allowance
  /\ request.answer = "too large" => request.size > MaxUpload \/ request.overhead > Allowance
  /\ request.answer = "stored" => request.size \in 1..MaxUpload

(* What the upload let in can be split: the stored configuration is still  *)
(* accepted when it is read back, and the text yields a chunk under every  *)
(* strategy, so that neither preview nor indexing fails for it.            *)
StoredCanBeSplit ==
  \A p \in Purposes :
    /\ split[p].step # "error"
    /\ split[p].step = "done" => split[p].chunks # <<>>
=============================================================================
