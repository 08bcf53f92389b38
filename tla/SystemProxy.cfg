SPECIFICATION FairSpec
CONSTANTS
    Runs = {r1, r2, r3}
    Locations = {home, office}
    Temp = temp
    Services = {wifi, ethernet}

INVARIANTS
    OnlyTempIsSet
    HomeAgain
PROPERTIES
    OnlyBackHome
    SignalEnds
