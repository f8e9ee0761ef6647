SPECIFICATION ViewSpec
CONSTANTS
    None = None
    Buckets = {b1, b2}
    b1 = b1
    b2 = b2
    Keys <- MCKeys
    Matching <- MCMatching
    Calls = {c1, c2, c3}
    c1 = c1
    c2 = c2
    c3 = c3
    Sizes = {0, 2, 3}
    TextCap = 1
    PreviewCap = 2
    Chars <- MCChars
    MaxRows = 2
    MaxCols = 2
    Bodies <- MCBodies
SYMMETRY ViewSymmetry
INVARIANTS UrlsAccounted PanelsShowTheirObject TablesShownAsWritten
