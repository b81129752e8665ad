CONSTANTS
    NaN = NaN
    Text = Text
    NotADict = NotADict
    None = None
    NoCount = NoCount
    NotAnInt = NotAnInt
    NoList = NoList
    Tiny = 2
    Tolerance = 1
    RequiredKeys = {"usd_gbp"}
    Names <- MCNames
    Rates <- MCRates
    Counts <- MCCounts
    Absolutes = {0, 1, 3}
    Percentages = {0, 20, 40, 99, 100}
    Samples <- MCSamples
    DriftConfigs <- MCDriftConfigs
    Factors = {2, 10}
SPECIFICATION Spec
INVARIANTS
    RequiredKeysArePresent
