CONSTANTS
  Starter = s
  Guest = {p}
  MaxPublishes = 3
  MaxReshares = 0
  MaxVanishes = 1
SPECIFICATION SharingSpec
INVARIANTS
  StarterReceives
CHECK_DEADLOCK FALSE
