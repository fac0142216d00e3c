SPECIFICATION Spec
CONSTANTS
  local = local
  ftp = ftp
  root = root
  d1 = d1
  sub = sub
  h = h
  a = a
  b = b
  x = x
  y = y
  None = None
  Store = {local, ftp}
  Local = local
  Dir = {root, d1}
  Root = root
  Order <- MCOrder
  DirName = {sub}
  HiddenName = {h}
  Ext = {x, y}
  ExtOf <- MCExtOf
  InitDisk <- MCDisk
  InRepo = {d1}
  Changed = {a}
  MaxEvents = 4
INVARIANTS TypeOK TextsReachTheScreen SizesAreOwn
PROPERTIES DeletesWhatIsDrawn RememberedIsSelected
CHECK_DEADLOCK FALSE
