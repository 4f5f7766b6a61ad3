SPECIFICATION FairSpec
CONSTANTS
    d1 = d1  d2 = d2  d3 = d3  r1 = r1  r2 = r2
    nodseq = nodseq  noreq = noreq
    DSeq = {d1}
    ReqID = {}
    NoDSeq = nodseq
    NoReq = noreq
    Triggers = {"start", "halt"}
    AgentPhases = {"online"}
    MaxCloseAttempts = 2
    MaxDeployAttempts = 2
    OnHalt = FALSE
    AdoptUnleased = TRUE
    Faults = {"close"}
    MaxPushes = 2
    MaxCrashes = 0
PROPERTIES FailedLeaseClosed
