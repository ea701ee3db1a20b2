CONSTANTS Drivers = {"mutex", "spinlock", "rwlock", "seqlock", "atomic"}
          N = 2
          W = 4
          S = 6
SPECIFICATION FairSpec
INVARIANTS CleanRead QuietAfterJoin
PROPERTIES TickerSpec RmmodReturns
CHECK_DEADLOCK FALSE
