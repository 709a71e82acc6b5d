SPECIFICATION FairSpec
CONSTANTS
    Clients = {c1, c2, c3}
    Targets = {n1, n2}
    NoTarget = nobody
    MaxWrites = 3
INVARIANTS
    OnePerTarget
    NoStolenAnswer
    NothingLeftBehind
PROPERTIES
    EveryDatagramFinishes
\* A bounded number of datagrams is sent, then the clients rest.
CHECK_DEADLOCK FALSE
