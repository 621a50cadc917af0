SPECIFICATION FairSpec
CONSTANTS
  bundle = bundle
  top = top
  main = main
  a = a
  b = b
  zip = zip
  t1 = t1
  t2 = t2
  t3 = t3
  t4 = t4
  Dirs = {bundle}
  Top = top
  Names = {main, a, b, zip}
  Main = main
  Zips = {zip}
  Whole = Whole
  None = None
  Query = Query
  Texts = {t1, t2, t3, t4}
  Real <- SmallReal
  Archives <- SmallArchives
  Disks <- SmallDisks
  Loads <- SmallLoads
  RegNames = {a}
  Inline <- SmallInline
  MaxCalls = 3
  MaxEdits = 1
CHECK_DEADLOCK FALSE
INVARIANT OneDefinitionPerIdentity
INVARIANT OneTextPerFile
INVARIANT Contained
INVARIANT FingerprintCurrent
INVARIANT RoundTrip
PROPERTY CallsReturn
