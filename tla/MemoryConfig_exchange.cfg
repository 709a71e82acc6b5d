SPECIFICATION FairSpec
CONSTANTS
    na = na
    nb = nb
    Nodes = {na, nb}
    Requests <- ExchangeRequests
    SpaceSize = 4
    Chunk = 2
    Pools <- ExchangePools
    MaxRequests = 2
    MaxFaults = 1
INVARIANTS BytesFromAddress OkReadIsWhole OkWriteIsThere
PROPERTIES EveryoneComesToRest
CHECK_DEADLOCK FALSE
