SPECIFICATION Spec
CONSTANTS
  Names <- MCNames
  Indices <- MCIndices
  Cases <- MCCases
INVARIANTS SpellingsAgree PredicatesAreExact LibraryIsWhole GeneratedIsMatched
CHECK_DEADLOCK FALSE
