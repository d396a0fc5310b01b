CONSTANTS
  a = a
  b = b
  c1 = c1
  c2 = c2
  Names = {a, b}
  Calls = {c1, c2}
  MaxVersion = 2
SYMMETRY Symmetry
SPECIFICATION PanelSpec
INVARIANTS
  ListConverges
CHECK_DEADLOCK FALSE
