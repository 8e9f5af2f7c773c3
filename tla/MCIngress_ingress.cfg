SPECIFICATION Spec
CONSTANTS
  MaxMessages = 3
  Kinds = {"work", "caption", "submit", "number", "code", "command"}
  Intents = {g1, g2}
  Bare = FALSE
  MaxTroubles = 1
  MaxOutside = 1
SYMMETRY Symmetry
INVARIANTS NoMessageSkipped EffectOnce CodeNeverWork DraftKept
CHECK_DEADLOCK FALSE
