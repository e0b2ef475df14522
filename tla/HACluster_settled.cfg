CONSTANTS
    Peer <- MCThree
    Manager <- MCThree
    Threshold = 2
    Disruptions = {"crash", "return", "sick", "well"}
    MaxDisruptions = 2
    Window = "calm"
    SlowCommands = FALSE
SPECIFICATION ClusterSpec
PROPERTIES
    
    NoHastyCandidate
    
