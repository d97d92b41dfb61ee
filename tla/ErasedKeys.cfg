CONSTANTS
  KeyTypes = {K, L}
  Names = {a, b}
  Forms = {f, g}
  Hashes = {0, 1, 2}
  ShardCount = 2
  Capacity = 2
  UsedPolicies = {1, 2}
  UsedKinds = {"custom", "typed"}
SPECIFICATION MCSpec
SYMMETRY MCSymmetry
INVARIANTS TypeOK LookupsAgree MapAndBucketsAgree
PROPERTIES ReturnsOwnValue HooksHearDepartures HooksGetStoredKeys KeysAreAtoms
