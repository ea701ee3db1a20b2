CONSTANTS r1 = r1
          r2 = r2
          t1 = t1
          t2 = t2
          c1 = c1
          c2 = c2
          NULL = NULL
          Primitives = {"wait_queue", "completion"}
          Readers <- TwoReaders
          MaxReads = 4
          Tasks <- TwoTasks
          Cats <- TwoCats
SPECIFICATION MCSpec
INVARIANTS NoMissedWakeup ReadsAreCounted SignalsTheLast
PROPERTIES EventServed ExitNoticed
CHECK_DEADLOCK FALSE
