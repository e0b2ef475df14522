CONSTANTS
    Peer <- MCTwo
    Manager <- MCTwo
    Threshold = 2
    Disruptions = {"usurp", "cut", "mend", "norpc", "stall", "crash", "return", "sick", "well", "hook", "command", "restart"}
    MaxDisruptions = 2
    Window = "between"
    SlowCommands = TRUE
SPECIFICATION FairClusterSpec
INVARIANTS
    ClusterTypeOK
PROPERTIES
    
    RecheckSeesActives
    LeaderRestored
