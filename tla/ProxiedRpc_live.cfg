SPECIFICATION FairSpec
CONSTANTS
    RequestSizes = {1}
    ResponseSizes = {1, 5}
    MaxRequests = 1
    MaxResponses = 1
    Window = 1
    ServerRecvLimit = 64
    ClientRecvLimit = 4
PROPERTIES
    AnswerArrives
    EveryCallIsDumped
    ForwardersExit
    CancelReachesServer
    HalfCloseArrives
