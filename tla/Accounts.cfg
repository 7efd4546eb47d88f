SPECIFICATION Spec
CONSTANTS
  tab1 = tab1
  tab2 = tab2
  Tabs <- TabsMC
  MaxTokens = 3
  MaxCodes = 2
  MaxCommands = 2
  MaxFailures = 1
SYMMETRY Symmetry
CONSTRAINT CrossedBriefly
CHECK_DEADLOCK FALSE
INVARIANT SessionIsKept
INVARIANT LogoutEndsSession
INVARIANT OldTokensStopWorking
INVARIANT OnlyNewestCodeWorks
PROPERTY EndedIsFinal
