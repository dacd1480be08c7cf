SPECIFICATION Spec
CONSTANTS
  Spelling <- Spellings
  Blank = ""
  Fold <- FoldOf
  Decode <- DecodeOf
  NoName = "none"
  Legacy = "default"
  Providers = {"p1", "p2"}
  Configs <- AllConfigs
  Root = "/"
  StaticSegments = {"healthz"}
  Secret = "key"
  Values = {"key", "p1"}
INVARIANTS NamesRouteToOwner RootIsServed VerdictIsSound
  NamesAreReachable NothingStrays
CHECK_DEADLOCK FALSE
