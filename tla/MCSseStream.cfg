\* Every text of up to six tokens, cut in every way; a frame of at most seven characters.
CONSTANTS
  MaxFrame = 7
  MaxText = 6
SPECIFICATION Spec
CHECK_DEADLOCK FALSE
INVARIANT ParserExact
