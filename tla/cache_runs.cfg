SPECIFICATION FairSpec
CONSTANTS
  model = model
  module = module
  mirror = mirror
  ftp = ftp
  file = file
  m1 = m1
  d1 = d1
  None = None
  Partial = Partial
  Procs = {p, q}
  Urls = {model, module, mirror, file, ftp}
  Unfetchable = {ftp}
  Contents = {m1, d1}
  Imports <- SmallImports
  DataOf <- SmallData
  Web <- SmallWeb
  Roots = {model}
  Modes <- AllModes
  MaxHops = 1
  MaxRuns = 2
CHECK_DEADLOCK FALSE
INVARIANT TypeOK
INVARIANT ObjectHasMeta
INVARIANT Consent
INVARIANT PromptedOnce
INVARIANT PreparedIsCached
PROPERTY RunsEnd
