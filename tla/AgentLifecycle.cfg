CONSTANTS
    Tokens = {t1, t2, t3}
    RegTokens = {r1, r2}
    None = None
    Partial = Partial
    WriteModes = {TRUE, FALSE}
    MaxCrashes = 1
SPECIFICATION FairSpec
INVARIANTS
    TypeOK
    UsesStoredIdentity
    ReadyMeansConnected
PROPERTIES
    KeepsEarlierIdentity
    TokenNotWasted
    ClientsKeepContract
    RotationTakesEffect
