SPECIFICATION CardsSpec
CONSTANTS
    n1 = n1
    n2 = n2
    n3 = n3
    wo = wo
    r1 = r1
    r2 = r2
    r3 = r3
    Names = {n1, n2, n3, wo}
    MayRead = {n1, n2, n3}
    StatsConcurrency = 2
    Runs = {r1, r2, r3}
    MaxFetches = 2
SYMMETRY StoreSymmetry
INVARIANTS NoDoubleLookup NoCardForgotten
