SPECIFICATION Spec
CONSTANTS
    Modes <- Proxied
    PeekSizes <- LongPeeks
    First = 1
    Sends <- Few
    BufSizes = {3}
    Window = 1
INVARIANT OnlyItsBytes
