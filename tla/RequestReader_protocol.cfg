SPECIFICATION Spec
CONSTANTS
  Numeral <- MCNumeral
  Signed <- MCSigned
  Finite <- MCFinite
  Hex <- MCHex
  Words <- MCWords
  MaxDepth = 2
  MaxCount = 2
  MaxPort = 2
  FreeLength = 6
  Alphabet <- MCAlphabet
  Scripts <- MCScripts
  Compiles <- MCCompiles
  Meets <- MCMeets
INVARIANTS ContentIsClosed WrittenIsReadBack WholeRequestsOnly
CHECK_DEADLOCK FALSE
