CONSTANTS
  BufLen = 14
  Headroom = 2
  Cell <- McCell
  Unit = 2
  Width = 8
  Kind <- McKind
  Units <- McUnits
  Base = 1
  MinMtu = 8
  MaxCalls = 4
  Frames <- AllFrames
  Junk <- McJunk
  Refusals <- McRefusals
CHECK_DEADLOCK FALSE
SPECIFICATION FairSpec
INVARIANTS
  TypeOK
  InBuffer
PROPERTIES
  PushedAmongOthers
  FieldsInsideOption
  IterationComplete
  RetainFilters
  RedirectReconciled
  LoopsEnd
