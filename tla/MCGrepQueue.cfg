SPECIFICATION GrepSpec
CONSTANTS
  c1 = c1
  c2 = c2
  c3 = c3
  Adder = Adder
  Consumer = {c1, c2, c3}
  Files = 7
  Matches <- MCMatches
  Size = 4
INVARIANT OutputInOrder
PROPERTIES GrepTerminates
CHECK_DEADLOCK FALSE
