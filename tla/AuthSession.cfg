SPECIFICATION FairSpec
CONSTANTS
    None = None
    NoCall = NoCall
    MaxToken = 3
    Slots = {h1, h2, h3}
    h1 = h1
    h2 = h2
    h3 = h3
    Refusing = FALSE
    MaxEvents = 7
CHECK_DEADLOCK FALSE
INVARIANTS BearerNewest SignedOutUnlessLate
PROPERTIES SpinnerEnds RedirectsEnd
