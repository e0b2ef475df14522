CONSTANTS
    Peer <- MCPeer
    Threshold = 2
    Outsider <- MCOutsider
    NoAddress = NoAddress
    MaxNodes = 3
SPECIFICATION RefreshSpec
INVARIANTS
    RefreshTypeOK
PROPERTIES
    RefreshLeavesSample
    PeersAsAnswered
    LeaderMissedOnlyByBreak
