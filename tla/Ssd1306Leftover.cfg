CONSTANTS Drivers = {"i2c"}
          Texts <- TwoLines
          MaxWrites = 2
          MaxScroll = 0
SPECIFICATION DisplaySpec
INVARIANTS ShowsOnlyTheMessage
