SPECIFICATION FairSpec
CONSTANTS
    Modes <- AllModes
    PeekSizes <- TwoPeeks
    First = 2
    Sends <- Few
    BufSizes = {1, 4}
    Window = 1
INVARIANT TypeOK
PROPERTIES
    IsTransparent
    ClientIsHeard
    NothingStays
