SPECIFICATION FairSpec
CONSTANTS
    None = None
    NoCall = NoCall
    MaxToken = 1
    Slots = {h1, h2}
    h1 = h1
    h2 = h2
    Refusing = TRUE
    MaxEvents = 2
CHECK_DEADLOCK FALSE
PROPERTY RedirectsEnd
