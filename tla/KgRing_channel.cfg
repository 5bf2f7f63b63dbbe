SPECIFICATION MCSpec
CONSTANTS
  SLOTS = 2
  Writer = {w1, w2}
  TRIES = 2
  MaxNotify = 4
  FallbackSlots = 1
  FallbackMax = 2
  BURST = 2
  MaxTicks = 2
INVARIANTS RateBounded
PROPERTIES ImplementsLog HalfWrittenNeverForged EventuallySettled EventuallySignalled
