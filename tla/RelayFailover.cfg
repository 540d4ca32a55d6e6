SPECIFICATION FairSpec
CONSTANTS
  Silence = 1
  Warm = 1
  Recovery = 2
  Lease = 1
  Bindings = {b1}
  ListenerBinding = b1
  MaxTransition = 3
  MaxDecoded = 1
  MaxRestarts = 1
  MaxDuplicates = 1
INVARIANT TypeOK
INVARIANT ControllerConsistent
INVARIANT PromotedOnlyUnderLease
INVARIANT MediaGapBase
INVARIANT ListenerFollowsController
PROPERTY PromotionIsFresh
PROPERTY RecoveryIsContinuous
PROPERTY ImplementsForwardingLease
PROPERTY FailoverProgresses
