SPECIFICATION FairResponderSpec
CONSTANTS
    Nodes = {n1, n2}
    LocalAliases = {1, 2, 3}
    PoolSize = 3
    MaxEnquiries = 2
    MaxChanges = 5
INVARIANTS
    EveryAliasAnnounced
PROPERTIES
    EnquiryEnds
\* A bounded number of enquiries comes in, then the flow rests.
CHECK_DEADLOCK FALSE
