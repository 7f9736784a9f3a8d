--------------------------- MODULE MCDocumentIntake ---------------------------
EXTENDS DocumentIntake

MCKinds ==
  [good |-> [named |-> TRUE, typed |-> TRUE, decodes |-> TRUE],
   renamed |-> [named |-> FALSE, typed |-> TRUE, decodes |-> TRUE],
   mistyped |-> [named |-> TRUE, typed |-> FALSE, decodes |-> TRUE],
   broken |-> [named |-> TRUE, typed |-> TRUE, decodes |-> FALSE]]

Input(strategy, max, overlap) ==
  [extra |-> FALSE, strategy |-> strategy, max |-> max, overlap |-> overlap]

MCInputs ==
  [paragraph |-> Input("paragraph", Unset, Unset),
   heading   |-> Input("markdown-heading", Unset, Unset),
   mixed     |-> Input("paragraph", 3, Unset),
   unknown   |-> Input("sentence", Unset, Unset),
   extra     |-> [Input("unset", Unset, Unset) EXCEPT !.extra = TRUE],
   one       |-> Input("unset", 1, 0),
   tight     |-> Input("fixed-character", 4, 3),
   apart     |-> Input("fixed-character", 2, 0),
   narrow    |-> Input("fixed-character", 1, Unset),
   none      |-> Input("unset", 0, 0),
   negative  |-> Input("unset", 3, -1)]

Upto(n, S) == UNION {[1..k -> S] : k \in 0..n}
MCTexts ==
  [s \in Strategies \cup {"refused"} |->
     CASE s = "paragraph" -> Upto(6, {"x", "s", "r", "n"}) \cup Upto(4, {"x", "f", "n"})
       [] s = "markdown-heading" ->
            Upto(4, {"h1", "h2", "h3", "b3", "t3", "text"}) \cup Upto(4, {"h1", "b3", "b4", "blank"})
       [] s = "fixed-character" -> Upto(9, {"x"}) \cup Upto(2, {"s"})
       [] s = "refused" -> {<<"x">>}]
=============================================================================
