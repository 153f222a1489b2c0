\* Texts of four characters, arrays of four words, numbers of eight bits.
CONSTANTS
  Chars <- SomeChars
  MaxText = 4
  Words <- SomeWords
  MaxWords = 4
  Bits = 8
SPECIFICATION StrSpec
INVARIANTS
  PiecesAgree
  EditsKeepTheRest
  EscapesUndone
  NumbersAgree
  ArraysAgree
