SPECIFICATION LiveSpec
CONSTANTS
    d1 = d1  r1 = r1
    nodseq = nodseq  noreq = noreq
    DSeq = {d1}
    ReqID = {r1}
    NoDSeq = nodseq
    NoReq = noreq
    Triggers = {"start", "halt"}
    AgentPhases = {"online"}
    MaxCloseAttempts = 1
    MaxDeployAttempts = 2
    OnHalt = TRUE
    AdoptUnleased = TRUE
    Faults = {"crash", "close"}
    MaxPushes = 2
    MaxCrashes = 1

    File = {"start"}
    RingCap = 1
    QueueCap = 1
    BusFaults = {"net", "ack", "overrun", "crash"}
    MaxCommits = 1
    MaxBusCrashes = 1
PROPERTIES BusyEnds HaltSettles TriggerIsSeenTo
