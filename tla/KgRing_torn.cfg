SPECIFICATION Spec
CONSTANTS
  SLOTS = 2
  Writer = {w1}
  TRIES = 2
  MaxNotify = 4
INVARIANTS NoFalseForgery
