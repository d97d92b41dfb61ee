CONSTANTS
  Keys = {k1, k2, k3, k4, k5}
  Sizes = {1}
  Capacity = 4
  MaxFreq = 2
  SweptPolicies = {0, 2}
SPECIFICATION SweepSpec
SYMMETRY KeySymmetry
INVARIANTS DecaysOnce SweepInv
PROPERTIES HandKeepsItsEntry ColdestFirst
