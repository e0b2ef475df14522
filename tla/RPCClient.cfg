CONSTANTS
    UrlLists <- MCUrlLists
    LocalUrl = "local"
    NoUrl = "none"
    Cooldown = 2
SPECIFICATION FairClientSpec
INVARIANTS
    ClientTypeOK
    EachTried
    CoolingAskedLast
    
PROPERTIES
    
    ErrorMeansAllFailed
    CallsEnd
