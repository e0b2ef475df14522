CONSTANTS
    MaxPre = 2
    MaxPost = 2
    PipeSize = 1
    MaxOutput = 3
SPECIFICATION FairRoleSpec
CHECK_DEADLOCK FALSE
INVARIANTS
    RoleTypeOK
    HooksGuardCommand
    PostHooksAllRun
PROPERTIES
    RunsEnd
