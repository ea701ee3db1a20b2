CONSTANTS Period = 3
          MaxTime = 10
SPECIFICATION TimerSpec
INVARIANTS QuietAfterCancel KeepsTime
PROPERTIES FullPeriodBetweenCallbacks
CHECK_DEADLOCK FALSE
