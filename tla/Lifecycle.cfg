CONSTANTS Drivers <- Sound
          MayFail <- Unwinding
SPECIFICATION Spec
INVARIANTS NothingLeft EntriesServed
PROPERTIES OnlyOwned
