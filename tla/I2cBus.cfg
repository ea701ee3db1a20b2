CONSTANTS SlaveAddr = 60
          Transfers <- SomeTransfers
          MaxXfers = 2
          Readers = {r1}
          Tries = 2
          Garbage <- SomeGarbage
SPECIFICATION MCSpec
INVARIANTS ReportedAsReceived BusIsReleased ProbedSensorMeasures MeasuresAreGenuine
PROPERTY SensorCoreReturns
CHECK_DEADLOCK FALSE
