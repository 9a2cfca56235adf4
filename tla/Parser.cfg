SPECIFICATION Spec
CONSTANTS
  Idents <- MCIdents
  TypeNames <- MCTypeNames
  Strings <- MCStrings
  Literals <- MCLiterals
  Unreadable <- MCUnreadable
  Texts <- MCTexts
INVARIANTS
  RoundTrip
  ErrorsDecide
  NothingDropped
