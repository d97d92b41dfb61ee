CONSTANTS
  Readers = {r1, r2}
  Keys = {k1, k2, k3}
  Sizes = {1}
  Capacity = 2
  MaxFreq = 3
  UsedPolicies = {1}
SPECIFICATION MCSpec
SYMMETRY MCSymmetry
INVARIANTS SharedTypeOK SharedInv MarkedIsCounted OnlyRacesLoseHits
PROPERTIES ReadersSerialize
