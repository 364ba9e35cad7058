SPECIFICATION Spec
CONSTANTS
  a = a  b = b  c = c
  Businesses = {a, b, c}
  Owner = a
  NoOne = NoOne
  Order <- MCOrder
  Messages = {m1, m2}
  NoMessage = NoMessage
  Texts <- MCTexts
  Starts <- MCStarts
  MaxAttempts = 2
  MaxChanges = 0
  MaxTroubles = 0
INVARIANT WordsAndDeedsAgree
CHECK_DEADLOCK FALSE
SYMMETRY MCSymmetry
