SPECIFICATION SpecLive
CONSTANTS
  c1 = c1
  c2 = c2
  f = f
  dot = dot
  Call = {c1, c2}
  Name = {f, dot}
  DotName = {dot}
INVARIANTS TypeOK NoneLeftOpen OneRequestAtATime NamesAreEarned
PROPERTIES RequestsEnd ReadDirReturns
CHECK_DEADLOCK FALSE
