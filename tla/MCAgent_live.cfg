SPECIFICATION FairSpec
CONSTANTS
    d1 = d1  d2 = d2  r1 = r1  p1 = p1  p2 = p2
    nodseq = nodseq  noreq = noreq  noproc = noproc
    DSeq = {d1}
    ReqID = {r1}
    NoDSeq = nodseq
    NoReq = noreq
    Procs = {p1, p2}
    NoProc = noproc
    MaxRestarts = 1
    AgentFaults = {"own", "launch"}
    MaxDeaths = 1
CHECK_DEADLOCK FALSE
PROPERTIES HaltIsCarriedOut RequestIsAnswered ReportsAsAssumed
