SPECIFICATION DeliveringSpec
CONSTANTS
  Silence = 1
  Warm = 1
  Recovery = 1
  Lease = 1
  Bindings = {b1}
  ListenerBinding = b1
  MaxTransition = 2
  MaxDecoded = 0
  MaxRestarts = 0
  MaxDuplicates = 0
PROPERTY PromotionTakesEffect
