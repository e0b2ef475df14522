CONSTANTS
    Peer <- MCTwo
    Manager <- MCTwo
    Threshold = 2
    Disruptions = {"cut"}
    MaxDisruptions = 1
    Window = "between"
    SlowCommands = FALSE
SPECIFICATION FairClusterSpec
PROPERTIES
    IsolatedActiveYields
