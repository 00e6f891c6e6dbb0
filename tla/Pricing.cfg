SPECIFICATION PriceSpec
CONSTANTS
  Rates <- MCRates
  Catalog <- MCCatalog
  Origins <- MCOrigins
  Services = {"auto", "fast"}
  Uses <- MCUses
  Hidings <- MCHidings
  Odd <- MCOdd
  Unit = 2
  MaxInt = 30
  LegacySize = 3
  Absent = Absent
  MaxReloads = 1
INVARIANTS TruePrice NeverMoreThanUsed
CHECK_DEADLOCK FALSE
