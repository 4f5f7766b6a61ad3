SPECIFICATION Spec
CONSTANTS
    d1 = d1  d2 = d2  d3 = d3  r1 = r1  r2 = r2
    nodseq = nodseq  noreq = noreq
    DSeq = {d1, d2}
    ReqID = {}
    NoDSeq = nodseq
    NoReq = noreq
    Triggers = {"start", "halt", "stop_at"}
    AgentPhases = {"stopped"}
    MaxCloseAttempts = 2
    MaxDeployAttempts = 2
    OnHalt = TRUE
    AdoptUnleased = TRUE
    Faults = {"crash", "fetch", "publish", "api", "close", "adopt", "reply", "kill", "restart", "corrupt", "eager"}
    MaxPushes = 2
    MaxCrashes = 1
SYMMETRY Symmetry
INVARIANTS LaunchAuthorised JobMatchesStatus
