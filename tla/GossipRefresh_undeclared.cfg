CONSTANTS
    Peer <- MCPeer
    Threshold = 2
    Outsider <- MCOutsider
    NoAddress = NoAddress
    MaxNodes = 3
SPECIFICATION RefreshSpec
PROPERTIES
    UndeclaredNoticed
