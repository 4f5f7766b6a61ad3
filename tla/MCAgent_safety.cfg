SPECIFICATION Spec
CONSTANTS
    d1 = d1  d2 = d2  r1 = r1  p1 = p1  p2 = p2
    nodseq = nodseq  noreq = noreq  noproc = noproc
    DSeq = {d1, d2}
    ReqID = {r1}
    NoDSeq = nodseq
    NoReq = noreq
    Procs = {p1, p2}
    NoProc = noproc
    MaxRestarts = 1
    AgentFaults = {"publish"}
    MaxDeaths = 1
SYMMETRY Symmetry
CHECK_DEADLOCK FALSE
INVARIANTS OneGame HaltedContainerStaysDown CrashLoopBounded AttributedToItsOwnLease
PROPERTIES SessionArchivedBeforeStop AnsweredOnce
