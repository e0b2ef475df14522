CONSTANTS
    Peer <- MCThree
    Manager <- MCThree
    Threshold = 2
    Disruptions = {"usurp", "hook", "command"}
    MaxDisruptions = 3
    Window = "between"
    SlowCommands = FALSE
SPECIFICATION ClusterSpec
PROPERTIES
    
    RecheckSeesActives
