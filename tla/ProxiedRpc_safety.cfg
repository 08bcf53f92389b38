SPECIFICATION Spec
CONSTANTS
    RequestSizes = {1, 65}
    ResponseSizes = {1, 5}
    MaxRequests = 2
    MaxResponses = 2
    Window = 1
    ServerRecvLimit = 64
    ClientRecvLimit = 4
INVARIANTS
    Fifo
    DumpCausal
    DumpCovers
    DumpComplete
    StatusExplained
PROPERTIES
    Transparent
