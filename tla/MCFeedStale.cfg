CONSTANTS
    r1 = r1
    r2 = r2
    r3 = r3
    Runs <- Three
    Pairs = {"usd_gbp", "usd_eur"}
    Rates = {0, 1, 2, 3}
    RowCountKey = "row_count"
    Unit = 10
    Tolerance = 1
    RequiredKeys = {"usd_gbp"}
    NaN = NaN
    Text = Text
    NotADict = NotADict
    None = None
    NoCount = NoCount
    NotAnInt = NotAnInt
SPECIFICATION Spec
INVARIANTS
    StaleIsRefused
