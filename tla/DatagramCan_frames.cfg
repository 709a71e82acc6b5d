SPECIFICATION Spec
CONSTANTS
    Senders = {a1, a2}
    Sizes = {0, 2, 3, 6, 7, 9}
    FrameLen = 2
    MAX_SIZE = 6
    MaxDatagrams = 3
INVARIANTS
    DeliveredIntact
    DeliveredOrRejected
    ResendOnlyAfterRestart
SYMMETRY Sym
\* A bounded number of datagrams is sent, then the bus rests.
CHECK_DEADLOCK FALSE
