SPECIFICATION Spec
CONSTANTS
  local = local
  web = web
  ftp = ftp
  Slash = Slash
  Tilde = Tilde
  home = home
  x = x
  pub = pub
  a = a
  None = None
  Store = {local, web, ftp}
  Local = local
  RootPath <- MCRootPath
  Segment = {Slash, Tilde, home, x, pub}
  Home <- MCHome
  Place <- MCPlace
  Entry = {a}
  Defaults <- MCDefaults
  MaxEvents = 4
  MaxStarts = 2
INVARIANTS TypeOK FileFollowsUser PanelShowsFile
PROPERTIES BrokenFileIsKept StartsWhereLeft
CHECK_DEADLOCK FALSE
