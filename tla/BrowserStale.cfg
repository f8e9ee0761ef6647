SPECIFICATION Spec
CONSTANTS
    ro = ro
    rw = rw
    wo = wo
    root = root
    sub = sub
    c1 = c1
    c2 = c2
    Calls = {c1, c2}
    Away = Away
    Places <- MCPlaces
    Readable <- MCReadable
    Writable <- MCWritable
    InitContent <- MCContent
    MaxKey = 2
SYMMETRY CallSymmetry
INVARIANT PreviousBucketNeverShown
