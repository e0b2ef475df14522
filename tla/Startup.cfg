CONSTANTS
    Name <- MCName
    Host <- MCHost
    Key <- MCKey
    Url <- MCUrl
    Configs <- MCConfigs
SPECIFICATION FairStartSpec
INVARIANTS
    StartTypeOK
    StartedSound
    PeersKept
    PanicsKnown

    
CHECK_DEADLOCK FALSE
