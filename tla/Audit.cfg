SPECIFICATION MCSpec
CONSTANTS
  k1 = k1
  k2 = k2
  Writers = {w1, w2}
  Keepers = {k1, k2}
  Data = {"a", "b"}
  Legacy = 1
  MaxId = 4
  MaxDamage = 2
  MaxCrashes = 1
  None = None
  Free = Free
INVARIANTS ChainVerifies NoFalseAlarm AcceptedVouches
PROPERTY AnchorCatchesUp
