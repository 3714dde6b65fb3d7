CONSTANTS
    Tokens = {t1, t2}
    RegTokens = {r1}
    None = None
    Partial = Partial
    WriteModes = {TRUE}
    MaxCrashes = 0
SPECIFICATION Spec
SYMMETRY Interchangeable
PROPERTY
    ExchangedIsStored
