------------------------------- MODULE MCLive --------------------------------
(***************************************************************************)
(* What must happen in the end, on small instances: in the controller's    *)
(* loop (Controller), and in the repository as it uses it (Bus).           *)
(* A behaviour is one of one of the two, under its own fairness.           *)
(***************************************************************************)
EXTENDS ControllerProps, Bus

CONSTANTS d1, r1, nodseq, noreq

VARIABLE side

liveVars == <<side, vars, busVars>>
LiveInit == side \in {"loop", "bus"} /\ Init /\ BusInit
InLoop == side = "loop" /\ UNCHANGED <<side, busVars>>
InBus == side = "bus" /\ UNCHANGED <<side, vars>>
LiveNext == (InLoop /\ Next) \/ (InBus /\ BusNext)

\* On the loop's side, Fairness of ControllerProps.  On the other, the loop runs and its
\* timers fire, a remote operation ends, and the network may fail for a long time but
\* not for ever; no delivery need ever arrive.  As a behaviour has one side only,
\* fairness to one step of each is fairness to their disjunction, which is far cheaper
\* to check.
LiveFairness ==
    /\ WF_liveVars((InLoop /\ Handler) \/ (InBus /\ LoopStep))
    /\ WF_liveVars((InLoop /\ JobStep) \/ (InBus /\ OpGone))
    /\ WF_liveVars((InLoop /\ TimePasses) \/ (InBus /\ (OpReaches \/ OpFails)))
    /\ SF_liveVars((InLoop /\ Tick) \/ (InBus /\ op.kind = "fetch" /\ op.waited /\ OpReaches))
    /\ SF_liveVars((InLoop /\ OnDeployResult) \/ (InBus /\ op.kind = "consume" /\ op.waited /\ OpReaches))
    /\ SF_liveVars((InLoop /\ (OnCloseOk \/ OnCloseError)) \/ (InBus /\ (Loaded \/ (Fetched /\ step' = "read"))))
    /\ SF_liveVars((InLoop /\ FlushTimer) \/ (InBus /\ NoOpRuns /\ PollBranch))
    /\ SF_liveVars(InBus /\ Consumed)
LiveSpec == LiveInit /\ [][LiveNext]_liveVars /\ LiveFairness
=============================================================================
