CONSTANTS
    Peer <- MCThree
    Manager <- MCThree
    Threshold = 2
    Disruptions = {"crash"}
    MaxDisruptions = 1
    Window = "any"
    SlowCommands = FALSE
SPECIFICATION ClusterSpec
INVARIANTS
    AtMostOneActive
