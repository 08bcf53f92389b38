SPECIFICATION Spec
CONSTANTS
    Truth <- TheTruth
    Versions <- TheVersions
    Recorded <- UpToThree
INVARIANTS
    RoundTrip
    AllShown
    EditArrives
