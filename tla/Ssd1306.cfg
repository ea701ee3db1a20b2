CONSTANTS Drivers = {"i2c", "spi", "client"}
          Texts <- SomeTexts
          MaxWrites = 3
          MaxScroll = 2
SPECIFICATION DisplaySpec
INVARIANTS PointerFollowsCursor GlyphsAreWhole MessageIsLegible LogoIsShown
