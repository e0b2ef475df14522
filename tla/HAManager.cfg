CONSTANTS
    Peer <- MCPeer
    Manager <- MCManager
    Threshold <- MCThreshold
SPECIFICATION Spec
INVARIANTS
    TypeOK
    TakeoverJustified
    DelayBounded
    
PROPERTIES
    YieldOnlyToBetterRank
    YieldLeavesSomeone
