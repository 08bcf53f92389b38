SPECIFICATION ReplayFairSpec
CONSTANTS
    m1 = m1
    m2 = m2
    a = a
    b = b
    c1 = c1
    s1 = s1
    s2 = s2
    Methods = {m1, m2}
    Bodies = {a, b}
    Calls = {c1, s1, s2}
    Users = {c1}
    Dumps <- UpToThree
    Clients <- Strangers
    Scripts <- Replays
    Streams <- TwoStreams
INVARIANTS
    AllLoaded
    OkIsRecorded
    UnrivalledIsRight
    SelfReplayIsOk
PROPERTIES
    PlaysBack
    UnrivalledIsReplayed
    SelfReplay
    ReplayEnds
