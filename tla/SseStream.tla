------------------------------ MODULE SseStream ------------------------------
(***************************************************************************)
(* The event stream of the browser client (transport/sseClient.ts): the    *)
(* network cuts the text where it likes, SseFrameParser turns each piece   *)
(* into events, and stream hands them out one by one until the stream ends, *)
(* breaks a rule or is aborted.                                            *)
(*                                                                         *)
(* Text is a sequence of tokens.  A token that begins a line is the field  *)
(* it is named after: data with the JSON of an event, data with a half of  *)
(* one, an id or type other than the event's, or a comment; anywhere else  *)
(* it is a part of that field's value.  UTF-8 decoding is the browser's.   *)
(***************************************************************************)
EXTENDS Naturals, Sequences, FiniteSets

CONSTANTS
  MaxFrame,   \* maxFrameSize
  MaxText     \* bound: tokens of a stream

ASSUME StreamAssumption == MaxFrame \in Nat \ {0}

VARIABLES
  text,     \* what the server has sent
  read,     \* how much of it was pushed into the parser
  parser,
  ready,    \* the events of the last push that are not handed out yet
  given,    \* the events the caller got
  stage

vars == <<text, read, parser, ready, given, stage>>

LineEnd == {"CR", "LF"}
Data == {"json", "half"}
Token == LineEnd \cup Data \cup {"other", "comment"}
Size(t) == IF t \in Data THEN 2 ELSE 1

Empty == [line |-> <<>>, data |-> <<>>, other |-> FALSE, skipLF |-> FALSE, size |-> 0,
          events |-> <<>>, failed |-> FALSE]

(* The lines of data, joined: an event is one line or two halves of one.   *)
Json == {<< <<"json">> >>, << <<"half">>, <<"half">> >>}

-----------------------------------------------------------------------------
(* processLine of a blank line: the frame is complete.                     *)
Dispatch(p) ==
  [p EXCEPT !.data = <<>>, !.other = FALSE, !.size = 0,
            !.events = IF p.data \in Json /\ ~p.other THEN Append(@, p.data) ELSE @,
            !.failed = p.data # <<>> /\ (p.data \notin Json \/ p.other)]

ProcessLine(p) ==
  CASE p.line = <<>> -> Dispatch(p)
    [] p.line # <<>> /\ p.line[1] \in Data -> [p EXCEPT !.data = Append(@, p.line)]
    [] p.line # <<>> /\ p.line[1] = "other" -> [p EXCEPT !.other = TRUE]
    [] OTHER -> p

(* One round of the loop of consume.                                       *)
Character(p, t) ==
  LET size == p.size + Size(t) IN
  CASE size > MaxFrame -> [p EXCEPT !.size = size, !.failed = TRUE]
    [] size <= MaxFrame /\ t \in LineEnd ->
         [ProcessLine([p EXCEPT !.size = size]) EXCEPT !.line = <<>>, !.skipLF = t = "CR"]
    [] OTHER -> [p EXCEPT !.size = size, !.line = Append(@, t)]

ConsumeCounting(p, t) ==                             \* mutant of Consume
  LET rest == [p EXCEPT !.skipLF = FALSE] IN
  IF p.failed THEN p
  ELSE IF p.skipLF /\ t = "LF" THEN [rest EXCEPT !.size = @ + 1]
  ELSE Character(rest, t)
Consume(p, t) ==
  LET rest == [p EXCEPT !.skipLF = FALSE] IN
  IF p.failed THEN p
  ELSE IF p.skipLF /\ t = "LF" THEN rest ELSE Character(rest, t)

Push(chunk) ==
  LET after[i \in 0..Len(chunk)] ==
        IF i = 0 THEN [parser EXCEPT !.events = <<>>] ELSE Consume(after[i - 1], chunk[i])
  IN after[Len(chunk)]

-----------------------------------------------------------------------------
Init ==
  /\ text = <<>> /\ read = 0
  /\ parser = Empty
  /\ ready = <<>> /\ given = <<>>
  /\ stage = "reading"

Send(t) ==
  /\ stage = "reading" /\ Len(text) < MaxText
  /\ text' = Append(text, t)
  /\ UNCHANGED <<read, parser, ready, given, stage>>

(* reader.read returns what has arrived; an exception of push takes the    *)
(* events of the same piece with it.                                       *)
Read ==
  LET pushed == Push(SubSeq(text, read + 1, Len(text))) IN
  /\ stage = "reading" /\ read < Len(text)
  /\ parser' = pushed
  /\ IF pushed.failed THEN stage' = "failed" /\ UNCHANGED <<read, ready>>
     ELSE /\ stage' = IF pushed.events = <<>> THEN "reading" ELSE "yielding"
          /\ read' = Len(text) /\ ready' = pushed.events
  /\ UNCHANGED <<text, given>>

Yield ==
  /\ stage = "yielding"
  /\ given' = Append(given, Head(ready)) /\ ready' = Tail(ready)
  /\ stage' = IF Len(ready) = 1 THEN "reading" ELSE "yielding"
  /\ UNCHANGED <<text, read, parser>>

(* The end of the stream: finish drops a frame without its blank line.     *)
Finish ==
  /\ stage = "reading" /\ read = Len(text)
  /\ stage' = "finished" /\ parser' = [parser EXCEPT !.line = <<>>, !.data = <<>>]
  /\ UNCHANGED <<text, read, ready, given>>

(* The caller aborts; events that wait are not handed out any more.        *)
Abort ==
  /\ stage \in {"reading", "yielding"}
  /\ stage' = "aborted" /\ ready' = <<>>
  /\ UNCHANGED <<text, read, parser, given>>

Next == (\E t \in Token : Send(t)) \/ Read \/ Yield \/ Finish \/ Abort

Spec == Init /\ [][Next]_vars

-----------------------------------------------------------------------------
(* What a text means, read as a whole, by the places of its tokens.  A line *)
(* ends with CR LF, CR or LF; a blank line ends a frame.                   *)
Dropped(s, i) == s[i] = "LF" /\ i > 1 /\ s[i - 1] = "CR"
Starts(s) == {i \in DOMAIN s : ~Dropped(s, i) /\ (i = 1 \/ s[i - 1] \in LineEnd)}
FrameEnds(s) == {i \in Starts(s) : s[i] \in LineEnd}
LineAt(s, i) ==
  LET end == CHOOSE j \in i..Len(s) : s[j] \in LineEnd /\ \A h \in i..(j - 1) : s[h] \notin LineEnd
  IN SubSeq(s, i, end - 1)

(* The part of its frame up to i, the characters and the fields there.     *)
Frame(s, i) == {h \in 1..i : \A e \in FrameEnds(s) : e < h \/ i <= e}
Characters(s, i) ==
  {x \in Frame(s, i) \X {1, 2} : ~Dropped(s, x[1]) /\ x[2] <= Size(s[x[1]])}
Fields(s, i, names) == {h \in Starts(s) \cap Frame(s, i) : s[h] \in names}

(* lines are the data of the frame that ends at e, in order.               *)
IsData(lines, s, e) ==
  LET places == Fields(s, e, Data) IN
  /\ Len(lines) = Cardinality(places)
  /\ \A i \in places : lines[Cardinality({h \in places : h <= i})] = LineAt(s, i)

(* The frames that are owed an event, and what is no text of frames.       *)
Owed(s) == {e \in FrameEnds(s) : Fields(s, e, Data) # {}}
Wrong(s, e) ==
  \/ \A lines \in Json : ~IsData(lines, s, e)
  \/ Fields(s, e, {"other"}) # {}
TooLong(s) == \E i \in DOMAIN s : Cardinality(Characters(s, i)) > MaxFrame
Broken(s) == TooLong(s) \/ \E e \in Owed(s) : Wrong(s, e)

(* events are those of the first frames of s that are owed one, in order.  *)
Begins(events, s) ==
  /\ Len(events) <= Cardinality(Owed(s))
  /\ \A e \in Owed(s) :
       LET k == Cardinality({d \in Owed(s) : d <= e}) IN
       k <= Len(events) => IsData(events[k], s, e)

(* However the network cuts the text, the caller is given the events of    *)
(* the frames it has read, each once and in order, and the stream fails    *)
(* where a frame is too long or wrong and nowhere else.  Only events that  *)
(* came in the same piece as the failure, or wait when the caller aborts,  *)
(* are lost.                                                               *)
ParserExact ==
  LET sound == SubSeq(text, 1, read) IN
  /\ ~Broken(sound)
  /\ Begins(given \o ready, sound)
  /\ stage # "aborted" => Len(given \o ready) = Cardinality(Owed(sound))
  /\ stage = "failed" => Broken(text)
=============================================================================
