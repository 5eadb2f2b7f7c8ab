CONSTANTS
  Producers = {p1, p2}
  Consumers = {c1, c2}
  Items = {a, b}
  Blank = Blank
  Size = 2
  ClearAnyTime = FALSE
SPECIFICATION Spec
INVARIANTS TypeOK Accounting EofExact
PROPERTIES ImplementsFifo
