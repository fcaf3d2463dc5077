SPECIFICATION LiveSpec
CONSTANTS
  p1 = p1
  p2 = p2
  x = x
  y = y
  a = a
  Lan = Lan
  None = None
  Peer = {p1}
  ToastId = {"waiting", "zipping", "reconnect", "sent", "sent again"}
  MaxClicks = 0
  Selections <- SomeFiles
  MaxPicks = 1
  MaxSends = 2
  MaxLinks = 2
  MaxMounts = 1
  MaxAttempts = 2
  MaxLosses = 2
  MaxCalls = 1
  Place = {1}
  MaxItems = 2
  MaxMoves = 0
  MaxTurns = 1
  Kind = {"users", "files"}
  MaxRequests = 1
  MaxBreaks = 1
  Browser = {x, y}
  MaxConns = 0
  MaxVisits = 0
  Card = {1}
  MaxEffects = 1
  Target = {1}
  TotalChunks = 1
  MaxNetworks = 1
  CodeLength = 3
  MaxText = 4
  Amounts = {}
  Code = {a}
  MaxChoices = 1
  MaxDrops = 0
  MaxBounces = 1
  MaxJoins = 2
CHECK_DEADLOCK FALSE
PROPERTIES
  LockEnds
  BarsEnd
  PageShows
  Settles
  FeedRests
  RestsUnlessLate
