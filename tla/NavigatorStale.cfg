SPECIFICATION Spec
CONSTANTS
  disk = disk
  site = site
  slash = slash
  tilde = tilde
  a = a
  None = None
  Store <- MCStore
  Path <- MCPath
  Root = slash
  Tilde = tilde
  Home = a
  Parent <- MCParent
  Subdirs <- MCSubdirs
  HasFile <- MCHasFile
  InRepo <- MCInRepo
  MaxActs = 2
INVARIANT ListingFollowsCurrent
CHECK_DEADLOCK FALSE
