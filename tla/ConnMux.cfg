SPECIFICATION FairSpec
CONSTANTS
    c1 = c1
    c2 = c2
    own = own
    foreign = foreign
    Conns = {c1, c2}
    Destinations = {own, foreign}
    Certified = {own}
    Scripts <- AllScripts
    QueueCap = 1
    ErrCap = 1
    MaxAcceptErrors = 1
INVARIANTS
    WellPlaced
    OneOwner
PROPERTY EachIsServed
