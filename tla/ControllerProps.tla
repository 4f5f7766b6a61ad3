-------------------------- MODULE ControllerProps --------------------------
(***************************************************************************)
(* What must be true of the controller's loop, and the fairness under      *)
(* which things must happen.                                               *)
(***************************************************************************)
EXTENDS Controller

\* What the loop may remember.
Memories == [seen : Reports, acts : SUBSET Triggers,
             attempts : Nat, closes : 0 .. MaxCloseAttempts]

\* The shape of the state.
TypeOK ==
    /\ doc \in Docs /\ pub \in Docs
    /\ clock \in [status : BOOLEAN, request : BOOLEAN]
    /\ used \subseteq ReqID
    /\ triggers \subseteq Triggers /\ report \in Reports
    /\ pc \in {"down", "poll", "idle", "act", "launch", "advance", "flush"}
    /\ job \in Jobs
    /\ mem \in Memories
    /\ dep \in [DSeq -> DepStates] /\ agent \in [DSeq -> Agents]
    /\ pushes \in 0 .. MaxPushes /\ crashes \in 0 .. MaxCrashes
    /\ budget \in Int
    /\ answeredBy \in [ReqID -> DSeq \cup {NoDSeq}]

-----------------------------------------------------------------------------
(* Money.                                                                  *)

\* Invariant I1 of the design notes: two deployments would be two servers
\* writing one world.  It rests on beginDeploy's two refusals, on recording the
\* lease before looking at a deploy's error, and on adopting after a crash.
OneDeployment == \A d, e \in Holding : d = e

\* Every deployment that holds escrow is one the controller knows about - the
\* recorded lease or the running job's - or is about to look for, because it finds
\* itself deploying with no job.  In particular, while the document says offline no
\* server runs and no deposit of a running controller is left behind.  The exception
\* is a deployment whose lease the provider closed: a process that starts does not
\* find it in the listing, and if it is on record takes it off without closing it
\* (reconcileLease), although the comment of Driver.Alive promises "the close that
\* follows collects what is left of the deposit".  Without a restart not even that
\* one is forgotten.
NothingForgotten ==
    \A d \in Escrowed :
        \/ d = doc.lease
        \/ d = job.dseq
        \/ doc.status = "deploying" /\ job = NoJob
        \/ dep[d] = "dead" /\ crashes > 0

\* What the document and the job know.
OnRecord == {doc.lease, job.dseq} \ {NoDSeq}

\* What is on record stays on record until it has been closed, whatever refuses, fails
\* or is given up in between.  What a death of the process drops is dead or is looked
\* for by the next one; a start drops only what the provider closed already.
LeaseKeptUntilClosed ==
    [][\A d \in OnRecord \ OnRecord' :
         \/ dep[d] = "closed"
         \/ dep[d] = "dead" /\ "down" \in {pc, pc'}
         \/ pc' = "down" /\ doc'.status = "deploying"]_vars

\* Offline means no deployment exists: it is the one status in which no money is
\* being spent.
OfflineMeansNothing == doc.status = "offline" => Holding = {}

\* What the three properties around this comment need of the world: pushes go
\* through, listings and answers to creates can be relied on, published documents
\* are readable, unleased deployments are adopted, and an operator starts a server
\* only when the last ask has come to its end.
Disciplined == /\ Faults \cap {"publish", "adopt", "reply", "corrupt", "eager"} = {}
               /\ AdoptUnleased

\* The ask is on record before anything can start billing for it: while a deploy
\* job runs, a controller that took over would read "deploying" and look for what
\* the job created (beginDeploy's flushNow).
AskOnRecord == job.kind = "deploy" => pub.status = "deploying"

\* A launch is always paid for by an operator's ask: one start buys at most
\* max_deploy_attempts of them and any decision to stop takes the rest back, so no
\* retry outlives a halt (retryDeploy and the three places that reset the count).
LaunchAuthorised == pc = "launch" => budget > 0

\* The document and the one job off the loop never disagree: a deploy runs only
\* while deploying with no lease recorded, a close only while closing, and then for
\* exactly the lease on record, whatever triggers, results and ticks came between.
JobMatchesStatus ==
    /\ job.kind = "deploy" => doc.status = "deploying" /\ doc.lease = NoDSeq
    /\ job.kind = "close"  => doc.status = "closing" /\ doc.lease = job.dseq
    /\ pc = "launch"       => doc.status = "deploying" /\ doc.lease = NoDSeq /\ job = NoJob

-----------------------------------------------------------------------------
(* Reports.                                                                *)

\* Invariant I16: a boot that ends before its timeout, and not because of a halt,
\* ends on the word of the agent of this very lease, never on what the agent of an
\* earlier world left on the branch.
BootJudgedByItsOwnAgent ==
    [][pc = "advance" /\ pc' = "flush" /\ doc.status = "booting" /\ doc'.status # "booting"
         /\ doc.intent = "running" /\ ~clock.status
       => mem.seen.by = doc.lease]_vars

\* A backup is signed off by itself alone: the wait for a request that has not
\* timed out ends only once the agent of the lease on record has taken that very
\* backup, not an earlier one, nor one of another lease (settleBackup).
BackupSettledByItsOwnAnswer ==
    [][pc = "advance" /\ pc' = "flush" /\ doc.request # NoReq /\ doc'.request = NoReq /\ ~clock.request
       => answeredBy[doc.request] = doc.lease]_vars

-----------------------------------------------------------------------------
(* The abstract promise.                                                   *)

\* A job that may still create a deployment has a launch in hand.
InHand == IF job.kind = "deploy" /\ job.state = "running" /\ job.dseq = NoDSeq THEN 1 ELSE 0

Ledger == INSTANCE ServerLedger
            WITH Deployment <- DSeq, MaxLaunches <- MaxDeployAttempts,
                 held <- Holding, credit <- budget + InHand

\* Seen from outside, the loop keeps the ledger's promise.
LedgerKept == Ledger!Spec

-----------------------------------------------------------------------------
(* Fairness.  A handler runs to its end, the process is restarted when it  *)
(* dies, every job is bounded by timeouts and time passes.  The loop's     *)
(* select chooses at random among the events that are ready, so none of    *)
(* them is passed over for ever; a push that fails is tried again.         *)

Handler == Load \/ Act \/ Launch \/ Advance \/ Flush
             \/ (pc = "poll" /\ Poll)

Fairness ==
    /\ WF_vars(Handler)
    /\ WF_vars(JobStep)
    /\ WF_vars(TimePasses)
    /\ SF_vars(Tick)
    /\ SF_vars(OnDeployResult)
    /\ SF_vars(OnCloseOk \/ OnCloseError)
    /\ SF_vars(FlushTimer)

FairSpec == Spec /\ Fairness

\* No operation hangs: a status that means "in flight" is left, with an agent that
\* never answers, a provider that never does, or a controller that is restarted.
BusyEnds == doc.status \in Busy ~> doc.status \notin Busy

\* A halt on record is carried out: the server ends up offline, or failed for a
\* person to look at, whatever is in flight when it is asked for.
HaltSettles == pub.intent = "stopped" ~> pub.status \in {"offline", "failed"}

\* The comment in advance's failed branch: a lease that is still billing is the one
\* thing that cannot wait for a person.
FailedLeaseClosed ==
    \A d \in DSeq : (doc.status = "failed" /\ doc.lease = d /\ d \in Holding)
                       ~> d \notin Holding
=============================================================================
