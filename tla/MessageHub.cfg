SPECIFICATION MCSpec
CONSTANTS
  ask = ask
  fresh = fresh
  other = other
  stray = stray
  ann = ann
  bob = bob
  cyd = cyd
  home = home
  group = group
  away = away
  yard = yard
  Updates = {ask, fresh, other, stray}
  Users = {ann, bob, cyd}
  UserOf <- MCUserOf
  ChatOf <- MCChatOf
  MessageOf <- MCSharedKeyboard
  KeyOf <- MCKeyOf
  Numbered = {ask, fresh, stray}
  KindOf <- MCKindOf
  Authorized = {ann, bob}
  TTL = 2
  MaxSeen = 2
  QueueRoom = 1
  EventRoom = 2
  MaxClock = 2
  MaxDeliveries = 4
  MaxLives = 2
INVARIANTS
  AdmittedOnce
  AnswersAccounted
  ActiveAccounted
  AnswersStayWithUser
PROPERTIES
  AnswersFlow
CHECK_DEADLOCK FALSE
