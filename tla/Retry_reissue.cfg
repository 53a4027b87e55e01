SPECIFICATION FairSpec
CONSTANTS
    Width = 10
    Configs <- MCConfigs
    Codes <- MCCodes
    MaxGuid = 3
CHECK_DEADLOCK FALSE
INVARIANTS
    RetriedNeverExecuted
