SPECIFICATION FairSpec
CONSTANTS
  Users = {set, other}
  Initial = {set}
  MaxTokens = 1
  Hosts = {desk, phone, Unknown}
  Unknown = Unknown
  Ttl = 2
  MaxClock = 2
  HubViewers = {hub}
  ApiViewers = {api}
  MaxEvents = 2
  MaxLives = 2
  MaxChanges = 2
  None = None
INVARIANTS
  AnswersKept
  OverIsOver
PROPERTIES
  HubViewersCatchUp
CHECK_DEADLOCK FALSE
