SPECIFICATION FairSpec
CONSTANTS
    Dsts = {d1, d2}
    Aliases = {1, 2}
    LocalAliases = {9}
    NOT_RESPONDING = 100
    MaxMsgs = 3
    MaxFrames = 5
    MaxSeen = 2
INVARIANTS
    ListensWhileLooking
    MarkIsLifted
PROPERTIES
    DroppedOnlyInSilence
    EveryMessageLeaves
\* A bounded number of messages is sent, then the flow rests.
CHECK_DEADLOCK FALSE
