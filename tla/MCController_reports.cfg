SPECIFICATION Spec
CONSTANTS
    d1 = d1  d2 = d2  d3 = d3  r1 = r1  r2 = r2
    nodseq = nodseq  noreq = noreq
    DSeq = {d1, d2}
    ReqID = {r1, r2}
    NoDSeq = nodseq
    NoReq = noreq
    Triggers = {"start", "halt", "backup"}
    AgentPhases = {"online", "restore_failed"}
    MaxCloseAttempts = 2
    MaxDeployAttempts = 2
    OnHalt = TRUE
    AdoptUnleased = TRUE
    Faults = {"restart"}
    MaxPushes = 2
    MaxCrashes = 0
SYMMETRY Symmetry
PROPERTIES BootJudgedByItsOwnAgent BackupSettledByItsOwnAnswer
