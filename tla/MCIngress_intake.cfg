SPECIFICATION FairSpec
CONSTANTS
  MaxMessages = 2
  Kinds = {"other", "work", "attach", "caption", "submit", "discard", "view", "open", "number", "code", "command"}
  Intents = {g1}
  Bare = TRUE
  MaxTroubles = 2
  MaxOutside = 0
PROPERTIES MessageHandled
CHECK_DEADLOCK FALSE
