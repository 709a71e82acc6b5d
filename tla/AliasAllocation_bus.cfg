SPECIFICATION Spec
CONSTANTS
    Nodes = {n1, n2}
    Aliases = {1, 2}
    Flows = {global, addressed}
    Reserve = 0
    MaxMsgs = 2
    MaxSeen = 1
INVARIANTS
    UniqueAlias
    DuplicateIsNoticed
    StaleMappingIsCorrected
    WaitingHasRequest
SYMMETRY Sym
\* A bounded number of messages is sent, then the bus rests.
CHECK_DEADLOCK FALSE
