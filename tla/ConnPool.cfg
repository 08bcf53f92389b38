SPECIFICATION FairSpec
CONSTANTS
    c1 = c1
    c2 = c2
    c3 = c3
    secure = secure
    hanging = hanging
    both = both
    Calls = {c1, c2, c3}
    Destinations = {secure, hanging, both}
    Speaks <- MCSpeaks
    Spares = {2, 3}
INVARIANTS
    PoolIsSound
    OwnCredentials
    RedialOnlyWhenRaced
PROPERTY HangsAlone
