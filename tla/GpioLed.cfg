CONSTANTS LedDrivers = {"gpio_interrupt", "softirq", "threaded_irq"}
          Cpus = {1, 2}
          Debounce = 3
          Wrap = 10
          FirstJiffy = 6
          MaxTime = 10
SPECIFICATION LedSpec
INVARIANTS LedFollowsToggle EveryRunToggles
PROPERTY QuietPeriod
