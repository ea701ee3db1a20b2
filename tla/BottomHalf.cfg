CONSTANTS Drivers = {"workqueue_static", "workqueue_dynamic", "own_workqueue", "linked_list",
                     "tasklet_static", "tasklet_dynamic"}
          MaxIrqs = 4
SPECIFICATION FairSpec
INVARIANTS RunsMatchInterrupts
PROPERTY InterruptServed
CHECK_DEADLOCK FALSE
