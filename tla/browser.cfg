SPECIFICATION BrowserSpec
CONSTANTS
  p1 = p1
  p2 = p2
  Peer = {p1, p2}
  ToastId = {"waiting", "zipping", "reconnect", "sent", "sent again"}
  MaxClicks = 1
  Selections <- SomeFiles
  MaxPicks = 1
  MaxSends = 2
  MaxLinks = 3
  MaxMounts = 1
  MaxAttempts = 3
  MaxLosses = 3
  MaxCalls = 2
  Place = {1, 2}
  MaxItems = 2
  MaxMoves = 1
  MaxTurns = 1
  Kind = {"users", "files"}
  MaxRequests = 2
  MaxBreaks = 1
  x = x
  y = y
  Browser = {x, y}
  MaxConns = 2
  MaxVisits = 4
  Card = {1, 2}
  MaxEffects = 2
  Target = {1, 2}
  TotalChunks = 3
  MaxNetworks = 2
  CodeLength = 3
  MaxText = 4
  Amounts <- SomeAmounts
SYMMETRY Alike
CHECK_DEADLOCK FALSE
INVARIANTS
  PanelNeverStuck
  ToastsTell
  ArchiveComplete
  BothTold
  ChatSound
  ReconnectSafe
  RestExact
  NeverAhead
  TogetherLinked
  ApartUnlisted
  LightFollows
  LabelsAgree
  AddressExact
PROPERTY
  GoesBackForNew
