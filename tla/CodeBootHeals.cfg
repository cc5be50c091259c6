\* A shipped version, a good bundle an image may carry as well, and one that
\* crash-loops; one admin press, one mishap, one spell of a volume or keys away.
SPECIFICATION FairSpec
CONSTANTS
  Versions = {1, 2, 3}
  Shipped = 1
  Images = {2}
  Runtime <- MCRuntime
  Schema <- MCSchema
  Unsaid = {}
  Broken = {3}
  MaxAttempts = 2
  Keep = 1
  None = 0
  Presses = 1
  Mishaps = 1
  Spells = 1
CHECK_DEADLOCK FALSE
INVARIANTS TypeOK CurrentOpens WayBack
PROPERTIES RevertIsEarned BannedStaysOut Heals
