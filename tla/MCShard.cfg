CONSTANTS
  Keys = {k1, k2, k3}
  Sizes = {0, 1, 3}
  Capacity = 2
  MaxFreq = 1
  SweptPolicies = {0, 1, 2}
SPECIFICATION SweepSpec
INVARIANTS TypeOK IndInv VictimsNeeded BucketsPartition HandInBounds Accounted FitsOrAlone
PROPERTIES ImplementsStore InsertReturns
