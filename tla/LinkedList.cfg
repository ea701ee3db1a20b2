CONSTANTS w1 = w1
          w2 = w2
          Writers <- TwoWriters
          MaxStores = 3
          MaxIrqs = 3
SPECIFICATION FairSpec
INVARIANTS ListIsFaithful NoNodeLeaks
PROPERTIES BottomHalfSpec WriteArrives
CHECK_DEADLOCK FALSE
