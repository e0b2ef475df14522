CONSTANTS
    v1 = v1
    v2 = v2
    v3 = v3
    None = None
    Account <- MCAccount
    Changes = {"open", "close", "stall", "vote", "drain", "fund", "handover", "rpcError"}
    MaxChanges = 6
SPECIFICATION FairVoteSpec
INVARIANTS
    VoteTypeOK
PROPERTIES
    NotFoundMeansNone
    VerdictSettles
