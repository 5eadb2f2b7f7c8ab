CONSTANTS
  Producers = {p1, p2, p3}
  Consumers = {c1}
  Items = {a}
  Blank = Blank
  Size = 2
  ClearAnyTime = TRUE
SPECIFICATION FairSpec
PROPERTIES PutReturns
