SPECIFICATION Spec
CONSTANTS
  Words <- AllWords
  Bound <- ModuleBound
  Loaded <- ModuleLoaded
  Aliases <- ModuleAliases
  Sources <- ModuleSources
  Trees <- ModuleTrees
  Styles <- ModuleStyles
  TextOf <- print_with
INVARIANT FramesAgree
INVARIANT RoundTrip
