SPECIFICATION Spec
CONSTANTS
    r1 = r1
    r2 = r2
    tMix = tMix
    tWild = tWild
    tBad = tBad
    NoToken = NoToken
    Requests <- MCRequests
    Tokens <- MCTokens
    TokenOf <- MCTokenOf
    Inputs <- MCInputs
    InitBuckets <- MCBuckets
    InitStore <- MCStore
    ConfigSubResources <- MCConfigSubResources
    MaxNow = 1
SYMMETRY RequestSymmetry
INVARIANTS BucketsNeverAdministered DoorsAgree ListingTellsRights
PROPERTY ObjectChangesAreEntitled
