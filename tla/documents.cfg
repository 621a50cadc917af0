SPECIFICATION FairSpec
CONSTANTS
  a = a
  b = b
  c = c
  d = d
  loadsB = loadsB
  loadsMounts = loadsMounts
  None = None
  Files = {a, b}
  Members = {c}
  Urls = {d}
  Mountable = {a, c}
  Excluded = {b}
  Texts = {loadsB, loadsMounts}
  Imports <- ChainImports
  MaxVersion = 2
  MaxEvents = 3
CHECK_DEADLOCK FALSE
INVARIANT StaleIsDirty
INVARIANT FileSetCurrent
INVARIANT EditorTextKept
INVARIANT SettledIsDisk
INVARIANT ArchiveReadOnly
PROPERTY DiagnosticsConverge
