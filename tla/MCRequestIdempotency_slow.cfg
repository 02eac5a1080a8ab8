SPECIFICATION Spec
CONSTANTS
  r1 = r1
  r2 = r2
  r3 = r3
  Requests = {r1, r2, r3}
  Body <- AllAlike
  NoRow = NoRow
  NoOne = NoOne
  TtlTicks = 3
  StaleTicks = 2
  ReloadLimit = 2
  ClaimLimit = 1
  RequestLimit = 2
PROPERTIES
  AnsweredIsReplayed
