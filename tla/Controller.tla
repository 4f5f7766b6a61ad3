----------------------------- MODULE Controller -----------------------------
(***************************************************************************)
(* The controller's event loop (internal/fsm), the one writer of the       *)
(* lifecycle, together with everything it acts on: the git branches it     *)
(* reads and publishes, the deployments the provider keeps, the agent      *)
(* inside each of them and the operator who pushes triggers.               *)
(*                                                                         *)
(* The loop is one goroutine, so a handler is a sequence of steps that     *)
(* nothing else of the loop interleaves with; but git, the provider, the   *)
(* job goroutine and the agents move on between them, and the process may  *)
(* die between any two.  pc names the step of the handler that comes next: *)
(*                                                                         *)
(*   down --Load--> poll ==> (act ==> (launch)) ==> advance ==> flush      *)
(*   idle --Poll, Tick, a job's result, the flush timer--> ... --> idle    *)
(***************************************************************************)
EXTENDS Integers, Lifecycle

CONSTANTS
    Triggers,           \* the trigger files the operator may push
    AgentPhases,        \* the phases agents move between
    MaxCloseAttempts,   \* akash.max_attempts
    MaxDeployAttempts,  \* akash.max_deploy_attempts
    OnHalt,             \* backups.on_halt
    AdoptUnleased,      \* akash.adopt_unleased
    Faults,             \* what goes wrong, see FaultKinds
    MaxPushes,          \* bound: triggers pushed in a behaviour
    MaxCrashes          \* bound: deaths of the controller in a behaviour

TriggerNames == {"start", "halt", "backup", "stop_at"}

FaultKinds == {
    "crash",    \* the controller's process dies
    "fetch",    \* git cannot be read
    "publish",  \* a push that a handler cannot put off fails
    "api",      \* the provider's API refuses to answer about a deployment
    "close",    \* a close is refused, or its answer is lost
    "adopt",    \* the provider's API does not show a deployment that exists
    "reply",    \* the answer to a create request is lost
    "kill",     \* the provider closes a lease on its own
    "restart",  \* a container is restarted while its lease lives
    "corrupt",  \* a published document is unreadable when it is loaded
    "eager"}    \* a start is pushed without waiting for offline or failed

ASSUME TriggersAssumption == Triggers \subseteq TriggerNames
ASSUME PhasesAssumption   == AgentPhases \subseteq Phases
ASSUME FaultsAssumption   == Faults \subseteq FaultKinds
ASSUME SwitchesAssumption == OnHalt \in BOOLEAN /\ AdoptUnleased \in BOOLEAN
ASSUME AttemptsAssumption == MaxCloseAttempts \in Nat \ {0} /\ MaxDeployAttempts \in Nat \ {0}
ASSUME BoundsAssumption   == MaxPushes \in Nat /\ MaxCrashes \in Nat

VARIABLES
    doc,        \* the document in the loop's memory (after a crash: what git has)
    clock,      \* which of the document's stamps are older than their timeout
    used,       \* request identities already drawn
    pub,        \* controller.json as published
    triggers,   \* the trigger files on the operator's branch
    report,     \* agent.json as published
    pc,         \* the step of the handler that comes next
    job,        \* the one job off the loop
    mem,        \* what else the loop remembers, and a crash forgets
    dep,        \* the provider's deployments
    agent,      \* the agent inside each deployment
    pushes, crashes,
    budget,     \* history: launches the operator's last ask still authorises
    answeredBy  \* history: the deployment whose agent really answered a request

docVars   == <<doc, clock, used>>
gitVars   == <<pub, triggers, report>>
worldVars == <<dep, agent, answeredBy>>
bounds    == <<pushes, crashes>>
vars == <<docVars, gitVars, worldVars, bounds, pc, job, mem, budget>>

-----------------------------------------------------------------------------
Reports == [dseq : DSeq \cup {NoDSeq}, phase : Phases,
            answered : ReqID \cup {NoReq}, by : DSeq \cup {NoDSeq}]

\* The document of an agent that has never spoken.
NoReport == [dseq |-> NoDSeq, phase |-> "starting", answered |-> NoReq, by |-> NoDSeq]

Jobs == [kind : {"none", "deploy", "close"}, dseq : DSeq \cup {NoDSeq},
         state : {"running", "cancelled", "ok", "err"}]

NoJob == [kind |-> "none", dseq |-> NoDSeq, state |-> "running"]

Agents == [phase : Phases, as : DSeq \cup {NoDSeq},
           taking : ReqID \cup {NoReq}, answered : ReqID \cup {NoReq}]

NewAgent == [phase |-> "starting", as |-> NoDSeq, taking |-> NoReq, answered |-> NoReq]

\* A "dead" deployment is open but its lease was closed by the provider.
DepStates == {"none", "created", "leased", "dead", "closed"}

Fresh == [seen |-> NoReport, acts |-> {}, attempts |-> 0, closes |-> 0]

\* The deployments that can run a server, or have one about to run in them.  A dead
\* one cannot, although it is open and keeps what is left of its deposit.
Holding == {d \in DSeq : dep[d] \in {"created", "leased"}}

\* The deployments that hold escrow: an open one does whether or not anything runs
\* in it, so what a provider's dead lease leaves behind counts until it is closed.
Escrowed == {d \in DSeq : dep[d] \in {"created", "leased", "dead"}}

Init ==
    /\ doc = NewDoc /\ pub = NewDoc
    /\ clock = [status |-> FALSE, request |-> FALSE]
    /\ used = {}
    /\ triggers = {} /\ report = NoReport
    /\ pc = "down" /\ job = NoJob /\ mem = Fresh
    /\ dep = [d \in DSeq |-> "none"] /\ agent = [d \in DSeq |-> NewAgent]
    /\ pushes = 0 /\ crashes = 0
    /\ budget = 0 /\ answeredBy = [r \in ReqID |-> NoDSeq]

-----------------------------------------------------------------------------
(* What the handlers share.                                                *)

\* The document becomes d; a stamp is young again when what it stamps changed.
SetDoc(d) ==
    /\ doc' = d
    /\ clock' = [status  |-> clock.status /\ d.status = doc.status,
                 request |-> clock.request /\ d.request = doc.request]
    /\ used' = used \cup ({d.request} \ {NoReq})

\* As SetDoc; a decision to stop takes back what the operator authorised.
Write(d) ==
    /\ SetDoc(d)
    /\ budget' = IF d.intent = "stopped" THEN 0 ELSE budget

\* An identity for a request, or none when the bound on them is reached.
NewID == IF ReqID \subseteq used THEN {NoReq} ELSE ReqID \ used

Bug_ReportOfAnyLease == mem.seen

\* The agent's document as the controller may read it: the report of the lease
\* it holds, or that of an agent that never spoke.
AgentReport ==
    IF mem.seen.dseq # NoDSeq /\ mem.seen.dseq = doc.lease THEN mem.seen ELSE NoReport

Phase == AgentReport.phase

Bug_AnyAnswer == AgentReport.answered # NoReq

Answered == AgentReport.answered = doc.request

Bug_NoBackupTimeout == doc.request = NoReq \/ Answered

\* Whether the wait for the outstanding request is over, one way or another.
Settles == doc.request = NoReq \/ Answered \/ clock.request

Stopped(d) == [d EXCEPT !.intent = "stopped", !.stop = FALSE]

\* requestBackup: an ask for a backup, which takes an online server to backing_up.
AskBackup(d, id) ==
    LET r == RequestBackup(d, id)
    IN  IF d.status = "online" /\ r.request # d.request THEN SetStatus(r, "backing_up") ELSE r

\* Start, or continue, an orderly shutdown, with a final backup if there is an
\* agent to take one.
BeginHalt(d, id) ==
    LET s == SetStatus(Stopped(d), "stopping")
    IN  IF d.status \in {"stopping", "closing", "offline", "failed", "deploying"} THEN Stopped(d)
        ELSE IF s.status = "stopping" /\ OnHalt /\ ~Parked(Phase) THEN AskBackup(s, id)
        ELSE s

\* The close a document asks for, when it has a lease and may go to closing.
BeginClose(d) ==
    IF d.lease = NoDSeq
      THEN SetStatus([ClearBackupRequest(d) EXCEPT !.intent = "stopped"], "offline")
      ELSE SetStatus(ClearBackupRequest(d), "closing")

Close(d, inFlight) ==
    LET c == BeginClose(d)
    IN  /\ Write(c)
        /\ job' = IF d.lease # NoDSeq /\ c.status = "closing"
                    THEN [kind |-> "close", dseq |-> d.lease, state |-> "running"]
                    ELSE inFlight

\* A start: a failure is cleared on the way, and the status may refuse it.
BeginDeploy(d) ==
    LET c == IF d.status = "failed" THEN SetStatus(d, "offline") ELSE d
    IN  SetStatus([c EXCEPT !.intent = "running"], "deploying")

OperatorBackup(d, id) ==
    IF d.status \in {"online", "backing_up"} THEN AskBackup(d, id) ELSE d

\* What a listing of the provider's deployments may return.
AdoptResults ==
    LET all == {d \in DSeq : dep[d] = "leased" \/ (dep[d] = "created" /\ AdoptUnleased)}
    IN  IF "adopt" \in Faults THEN SUBSET all ELSE {all}

Alive(lease) == lease \in Holding

-----------------------------------------------------------------------------
(* Startup.                                                                *)

\* The lease on record is checked against the provider; an error means alive.
Reconciled(d, gone) ==
    IF d.lease = NoDSeq
      THEN IF d.status \in BillingStatuses \ {"failed"} THEN Fail(d) ELSE d
      ELSE IF gone THEN Fail(ClearBackupRequest([d EXCEPT !.lease = NoDSeq])) ELSE d

\* Adoption records the first deployment found and leaves the rest to a person.
AdoptInto(d, found) ==
    IF found = {} THEN {d} ELSE {Fail([d EXCEPT !.lease = l]) : l \in found}

Load ==
    /\ pc = "down" /\ pc' = "poll"
    /\ mem' = [mem EXCEPT !.seen = report]
    /\ \E gone \in BOOLEAN :
         /\ doc.lease # NoDSeq => (gone => ~Alive(doc.lease))
                               /\ (~gone => Alive(doc.lease) \/ "api" \in Faults)
         /\ Write(Reconciled(doc, gone))
    /\ UNCHANGED <<gitVars, worldVars, bounds, job>>

\* Either document unreadable: the provider is asked what there is.  What could
\* not be read stays unreadable for everybody, which is the default document.
LoadCorrupt ==
    /\ "corrupt" \in Faults
    /\ pc = "down" /\ pc' = "poll"
    /\ mem' = [mem EXCEPT !.seen = report]
    /\ \E base \in {doc, NewDoc}, found \in AdoptResults :
         \E d \in AdoptInto(base, found), gone \in BOOLEAN :
           /\ d.lease # NoDSeq => (gone => ~Alive(d.lease))
                               /\ (~gone => Alive(d.lease) \/ "api" \in Faults)
           /\ Write(Reconciled(d, gone))
           /\ pub' = base
    /\ UNCHANGED <<triggers, report, worldVars, bounds, job>>

-----------------------------------------------------------------------------
(* A poll: fetch, read the agent, take the operator's triggers, advance.   *)

Polling == pc \in {"poll", "idle"}

PollFails ==
    /\ Polling /\ "fetch" \in Faults
    /\ pc' = "flush"
    /\ UNCHANGED <<docVars, gitVars, worldVars, bounds, job, mem, budget>>

\* Nothing to take, or the commit that takes it did not go through - or did,
\* and its acknowledgement did not.
PollTakesNothing ==
    /\ Polling
    /\ triggers # {} => "publish" \in Faults
    /\ triggers' \in {triggers, {}}
    /\ mem' = [mem EXCEPT !.seen = report]
    /\ pc' = "advance"
    /\ UNCHANGED <<docVars, pub, report, worldVars, bounds, job, budget>>

\* The files are deleted first and acted on after.
PollTakesTriggers ==
    /\ Polling /\ triggers # {}
    /\ triggers' = {}
    /\ mem' = [mem EXCEPT !.seen = report, !.acts = triggers]
    /\ pc' = "act"
    /\ UNCHANGED <<docVars, pub, report, worldVars, bounds, job, budget>>

\* stop_at sets a time or clears it, before anything acts on the document.
Scheduled == IF "stop_at" \in mem.acts
               THEN {[doc EXCEPT !.stop = s] : s \in BOOLEAN} ELSE {doc}

\* Halt outranks start, and covers a backup asked for alongside it.
ActHalt ==
    /\ pc = "act" /\ "halt" \in mem.acts
    /\ \E d \in Scheduled, id \in NewID : Write(BeginHalt(d, id))
    /\ job' = IF doc.status = "deploying" /\ job.state = "running" /\ job.kind # "none"
                THEN [job EXCEPT !.state = "cancelled"] ELSE job
    /\ mem' = [mem EXCEPT !.acts = {}]
    /\ pc' = "advance"
    /\ UNCHANGED <<gitVars, worldVars, bounds>>

Starting == "start" \in mem.acts /\ "halt" \notin mem.acts

Bug_StartIgnoresLease == job # NoJob
Bug_StartIgnoresJob == doc.lease # NoDSeq

\* A job in flight and a lease on record (invariant I1) each refuse a start.
StartRefused == job # NoJob \/ doc.lease # NoDSeq

ActStart ==
    /\ pc = "act" /\ Starting /\ ~StartRefused
    /\ \E d \in Scheduled :
         /\ SetDoc(BeginDeploy(d))
         /\ pc' = IF BeginDeploy(d).status = "deploying" THEN "launch" ELSE "advance"
    /\ budget' = MaxDeployAttempts
    /\ mem' = [mem EXCEPT !.acts = {}, !.attempts = 0]
    /\ UNCHANGED <<gitVars, worldVars, bounds, job>>

\* No start, or a refused one, which still resets the count of attempts.
ActOther ==
    /\ pc = "act" /\ "halt" \notin mem.acts
    /\ Starting => StartRefused
    /\ \E d \in Scheduled, id \in NewID :
         Write(IF "backup" \in mem.acts THEN OperatorBackup(d, id) ELSE d)
    /\ mem' = [mem EXCEPT !.acts = {}, !.attempts = IF Starting THEN 0 ELSE @]
    /\ pc' = "advance"
    /\ UNCHANGED <<gitVars, worldVars, bounds, job>>

Bug_FlushLater == pub' \in {doc, pub}

\* Published without waiting for the coalescing window.
FlushNow == pub' = doc \/ ("publish" \in Faults /\ pub' = pub)

\* The rest of beginDeploy: publish the ask at once - whether or not that
\* succeeds is not looked at - count the attempt and start the job.
Launch ==
    /\ pc = "launch" /\ pc' = "flush"
    /\ FlushNow
    /\ mem' = [mem EXCEPT !.attempts = @ + 1]
    /\ budget' = budget - 1
    /\ job' = [kind |-> "deploy", dseq |-> NoDSeq, state |-> "running"]
    /\ UNCHANGED <<docVars, triggers, report, worldVars, bounds>>

-----------------------------------------------------------------------------
(* advance: one step of the lifecycle, a function of the two published     *)
(* documents and the clock.                                                *)

Advancing(s) == pc = "advance" /\ doc.status = s /\ pc' = "flush"

Quiet == UNCHANGED <<docVars, budget, job, mem>>

\* Only a start leaves offline.
AdvanceOffline == Advancing("offline") /\ Quiet

\* Deploying with no job: restarted mid-deploy, so the provider is asked.
AdvanceDeploying ==
    /\ Advancing("deploying")
    /\ \/ job # NoJob /\ Quiet
       \/ /\ job = NoJob
          /\ \E found \in AdoptResults : \E d \in AdoptInto(doc, found) :
               Write(IF d.lease = NoDSeq /\ d.status = "deploying"
                       THEN [SetStatus(d, "offline") EXCEPT !.intent = "stopped"] ELSE d)
          /\ UNCHANGED <<job, mem>>

BootHalts == \/ doc.intent = "stopped"
             \/ Parked(Phase) /\ Phase # "restore_failed"
             \/ clock.status /\ Phase # "online" /\ ~Parked(Phase)

AdvanceBooting ==
    /\ Advancing("booting")
    /\ \/ BootHalts /\ \E id \in NewID : Write(BeginHalt(doc, id)) /\ UNCHANGED mem
       \/ ~BootHalts /\ Phase = "online" /\ Write(SetStatus(doc, "online")) /\ UNCHANGED mem
       \/ /\ ~BootHalts /\ Phase = "restore_failed"
          /\ Write(Fail(doc)) /\ mem' = [mem EXCEPT !.attempts = 0]
       \/ ~BootHalts /\ Phase \notin {"online", "restore_failed"} /\ Write(doc) /\ UNCHANGED mem
    /\ UNCHANGED job

\* The scheduled stop may have been reached, and the backup cadence come round.
AdvanceOnline ==
    /\ Advancing("online")
    /\ \/ /\ doc.intent = "stopped" \/ doc.stop \/ Parked(Phase)
          /\ \E id \in NewID : Write(BeginHalt(doc, id))
       \/ /\ doc.intent = "running" /\ ~Parked(Phase) /\ doc.request # NoReq
          /\ Write(SetStatus(doc, "backing_up"))
       \/ /\ doc.intent = "running" /\ ~Parked(Phase) /\ doc.request = NoReq
          /\ \E id \in NewID \cup {NoReq} : Write(AskBackup(doc, id))
    /\ UNCHANGED <<job, mem>>

AdvanceBackingUp ==
    /\ Advancing("backing_up")
    /\ \/ doc.intent = "stopped" /\ \E id \in NewID : Write(BeginHalt(doc, id))
       \/ /\ doc.intent = "running" /\ Settles
          /\ Write(SetStatus(ClearBackupRequest(doc), "online"))
       \/ doc.intent = "running" /\ ~Settles /\ Write(doc)
    /\ UNCHANGED <<job, mem>>

\* The final backup first, then the agent's word that the world is down.
AdvanceStopping ==
    /\ Advancing("stopping")
    /\ \/ ~Settles /\ Write(doc) /\ UNCHANGED job
       \/ Settles /\ (Parked(Phase) \/ clock.status) /\ Close(ClearBackupRequest(doc), job)
       \/ /\ Settles /\ ~Parked(Phase) /\ ~clock.status
          /\ Write(ClearBackupRequest(doc)) /\ UNCHANGED job
    /\ UNCHANGED mem

Bug_CloseTriedOnce == Advancing("closing") /\ Quiet

\* Restarted mid-close, or a retry is due.
AdvanceClosing ==
    /\ Advancing("closing")
    /\ \/ job # NoJob /\ Quiet
       \/ job = NoJob /\ Close(doc, job) /\ UNCHANGED mem

\* Failed is sticky, but a lease that is alive is to be closed.
AdvanceFailed ==
    /\ Advancing("failed")
    /\ \/ (job # NoJob \/ ~Alive(doc.lease) \/ "api" \in Faults) /\ Quiet
       \/ job = NoJob /\ Alive(doc.lease) /\ Close(doc, job) /\ UNCHANGED mem

Advance ==
    /\ \/ AdvanceOffline \/ AdvanceDeploying \/ AdvanceBooting \/ AdvanceOnline
       \/ AdvanceBackingUp \/ AdvanceStopping \/ AdvanceClosing \/ AdvanceFailed
    /\ UNCHANGED <<gitVars, worldVars, bounds>>

-----------------------------------------------------------------------------
(* The other events.                                                       *)

Reported(kind) == pc = "idle" /\ job.kind = kind /\ job.state \in {"ok", "err"}

Bug_LeaseOfSuccessOnly ==
    IF job.state = "ok" THEN [doc EXCEPT !.lease = job.dseq] ELSE doc

\* The lease is recorded before the error is looked at.
LeaseRecorded == IF job.dseq # NoDSeq THEN [doc EXCEPT !.lease = job.dseq] ELSE doc

OnDeployResult ==
    LET d == LeaseRecorded
    IN  /\ Reported("deploy")
        /\ \/ /\ job.state = "err" /\ d.lease # NoDSeq
              /\ Close(d, NoJob) /\ pc' = "flush" /\ UNCHANGED mem
           \/ /\ job.state = "err" /\ d.lease = NoDSeq
              /\ Write(Fail(d)) /\ job' = NoJob
              /\ mem' = [mem EXCEPT !.attempts = 0] /\ pc' = "flush"
           \/ /\ job.state = "ok" /\ d.intent = "stopped"
              /\ Close(d, NoJob)
              /\ mem' = [mem EXCEPT !.attempts = 0] /\ pc' = "flush"
           \/ /\ job.state = "ok" /\ d.intent = "running"
              /\ Write(SetStatus(d, "booting")) /\ job' = NoJob
              /\ mem' = [mem EXCEPT !.attempts = 0] /\ pc' = "advance"
        /\ UNCHANGED <<gitVars, worldVars, bounds>>

Bug_RetryForEver == mem.attempts > 0 /\ doc.intent = "running"
Bug_RetryAfterHalt == mem.attempts > 0 /\ mem.attempts < MaxDeployAttempts

\* Whether the close that just completed was clearing the way for another try.
RetryDeploy == /\ mem.attempts > 0
               /\ doc.intent = "running"
               /\ mem.attempts < MaxDeployAttempts

OnCloseOk ==
    LET d == SetStatus([doc EXCEPT !.lease = NoDSeq], "offline")
    IN  /\ Reported("close") /\ job.state = "ok"
        /\ job' = NoJob
        /\ IF RetryDeploy
             THEN /\ Write(BeginDeploy(d))
                  /\ mem' = [mem EXCEPT !.closes = 0]
                  /\ pc' = IF BeginDeploy(d).status = "deploying" THEN "launch" ELSE "flush"
             ELSE /\ Write([d EXCEPT !.intent = "stopped"])
                  /\ mem' = [mem EXCEPT !.closes = 0, !.attempts = 0]
                  /\ pc' = "advance"
        /\ UNCHANGED <<gitVars, worldVars, bounds>>

\* The count is only ever compared with its limit, where the model lets it rest.
OnCloseError ==
    LET closes == IF mem.closes < MaxCloseAttempts THEN mem.closes + 1 ELSE mem.closes
    IN  /\ Reported("close") /\ job.state = "err"
        /\ job' = NoJob
        /\ IF closes >= MaxCloseAttempts
             THEN Write(Fail(doc)) /\ mem' = [mem EXCEPT !.closes = closes, !.attempts = 0]
             ELSE Write(doc) /\ mem' = [mem EXCEPT !.closes = closes]
        /\ pc' = "flush"
        /\ UNCHANGED <<gitVars, worldVars, bounds>>

Tick == /\ pc = "idle" /\ pc' = "advance"
        /\ UNCHANGED <<docVars, gitVars, worldVars, bounds, job, mem, budget>>

\* The end of every handler: published, or put off by the coalescing window (or
\* by an error) to the flush timer.
Flush == /\ pc = "flush" /\ pc' = "idle"
         /\ pub' \in {doc, pub}
         /\ UNCHANGED <<docVars, triggers, report, worldVars, bounds, job, mem, budget>>

FlushTimer == /\ pc = "idle" /\ pub # doc
              /\ pub' = doc
              /\ UNCHANGED <<docVars, triggers, report, worldVars, bounds, pc, job, mem, budget>>

-----------------------------------------------------------------------------
(* The job goroutine, and the provider answering it.                       *)

Deploying == job.kind = "deploy" /\ job.state \in {"running", "cancelled"}

jobOnly == <<docVars, gitVars, bounds, pc, mem, budget, answeredBy>>

\* A new deployment: its dseq is known from here on, whatever happens next.
JobCreates(d) ==
    /\ job.kind = "deploy" /\ job.state = "running" /\ job.dseq = NoDSeq
    /\ dep[d] = "none"
    /\ dep' = [dep EXCEPT ![d] = "created"]
    /\ job' = [job EXCEPT !.dseq = d]
    /\ UNCHANGED <<jobOnly, agent>>

\* The create went through and its answer did not: tried again, or given up.
JobCreateLost(d) ==
    /\ "reply" \in Faults
    /\ Deploying /\ job.dseq = NoDSeq /\ dep[d] = "none"
    /\ dep' = [dep EXCEPT ![d] = "created"]
    /\ job' \in {[job EXCEPT !.state = "err"]}
                  \cup (IF job.state = "running" THEN {job} ELSE {})
    /\ UNCHANGED <<jobOnly, agent>>

\* The lease is taken; a container with an agent in it starts.
JobLeases ==
    /\ Deploying /\ job.dseq # NoDSeq /\ dep[job.dseq] = "created"
    /\ dep' = [dep EXCEPT ![job.dseq] = "leased"]
    /\ agent' = [agent EXCEPT ![job.dseq] = NewAgent]
    /\ UNCHANGED <<jobOnly, job>>

JobDeployed ==
    /\ job.kind = "deploy" /\ job.state = "running"
    /\ job.dseq # NoDSeq /\ dep[job.dseq] = "leased"
    /\ job' = [job EXCEPT !.state = "ok"]
    /\ UNCHANGED <<jobOnly, dep, agent>>

\* No provider, no bid, no route, the budget of time spent, or cancelled.
JobDeployFails ==
    /\ Deploying
    /\ job' = [job EXCEPT !.state = "err"]
    /\ UNCHANGED <<jobOnly, dep, agent>>

\* Closing is idempotent; its answer may be lost whether or not it happened.
JobCloses ==
    /\ job.kind = "close" /\ job.state = "running"
    /\ \/ /\ dep' = [dep EXCEPT ![job.dseq] = "closed"]
          /\ agent' = [agent EXCEPT ![job.dseq] = NewAgent]
          /\ job' \in {[job EXCEPT !.state = s] :
                         s \in {"ok"} \cup (IF "close" \in Faults THEN {"err"} ELSE {})}
       \/ /\ "close" \in Faults
          /\ job' = [job EXCEPT !.state = "err"] /\ UNCHANGED <<dep, agent>>
    /\ UNCHANGED jobOnly

JobStep ==
    \/ \E d \in DSeq : JobCreates(d) \/ JobCreateLost(d)
    \/ JobLeases \/ JobDeployed \/ JobDeployFails \/ JobCloses

-----------------------------------------------------------------------------
(* What the loop does not decide.                                          *)

ProviderKills(d) ==
    /\ "kill" \in Faults /\ dep[d] = "leased"
    /\ dep' = [dep EXCEPT ![d] = "dead"]
    /\ agent' = [agent EXCEPT ![d] = NewAgent]
    /\ UNCHANGED <<docVars, gitVars, bounds, pc, job, mem, budget, answeredBy>>

agentOnly == <<docVars, pub, triggers, bounds, pc, job, mem, budget, dep>>

\* The agent adopts the lease of the document it reads, and keeps it when the
\* document has none.
AgentReads(d) ==
    /\ dep[d] = "leased" /\ pub.lease # NoDSeq /\ agent[d].as # pub.lease
    /\ agent' = [agent EXCEPT ![d].as = pub.lease]
    /\ UNCHANGED <<agentOnly, report, answeredBy>>

\* Phases have no transition table.
AgentMoves(d) ==
    /\ dep[d] = "leased"
    /\ \E p \in AgentPhases \ {agent[d].phase} :
         agent' = [agent EXCEPT ![d].phase = p]
    /\ UNCHANGED <<agentOnly, report, answeredBy>>

\* The backup asked for in the published document is begun, and the document speaks
\* of that one from here on.
AgentBegins(d) ==
    /\ dep[d] = "leased" /\ agent[d].taking = NoReq
    /\ pub.request \notin {NoReq, agent[d].answered}
    /\ agent' = [agent EXCEPT ![d].taking = pub.request, ![d].answered = NoReq]
    /\ UNCHANGED <<agentOnly, report, answeredBy>>

\* It is taken or given up, whatever has been asked for since.
AgentAnswers(d) ==
    /\ dep[d] = "leased" /\ agent[d].taking # NoReq
    /\ agent' = [agent EXCEPT ![d].taking = NoReq, ![d].answered = agent[d].taking]
    /\ answeredBy' = [answeredBy EXCEPT ![agent[d].taking] = d]
    /\ UNCHANGED <<agentOnly, report>>

AgentPublishes(d) ==
    /\ dep[d] = "leased"
    /\ report' = [dseq |-> agent[d].as, phase |-> agent[d].phase,
                  answered |-> agent[d].answered, by |-> d]
    /\ report' # report
    /\ UNCHANGED <<agentOnly, agent, answeredBy>>

\* A container boots, for the first time or after a restart: what was not published
\* is lost, and what is on the branch is taken up again - an answer included, be it
\* of a former deployment - unless it cannot be read.
AgentBoots(d) ==
    /\ dep[d] = "leased"
    /\ agent[d] = NewAgent \/ "restart" \in Faults
    /\ \E answer \in {report.answered, NoReq} :
         agent' = [agent EXCEPT ![d] = [NewAgent EXCEPT !.as = pub.lease, !.answered = answer]]
    /\ UNCHANGED <<agentOnly, report, answeredBy>>

AgentStep ==
    \E d \in DSeq :
        \/ AgentReads(d) \/ AgentMoves(d) \/ AgentBegins(d) \/ AgentAnswers(d)
        \/ AgentPublishes(d) \/ AgentBoots(d)

\* An operator who waits for what the last ask came to before starting again.
Settled == pc = "idle" /\ pub = doc /\ doc.status \in {"offline", "failed"}

Push(t) ==
    /\ pushes < MaxPushes /\ t \notin triggers
    /\ t = "start" => Settled \/ "eager" \in Faults
    /\ triggers' = triggers \cup {t}
    /\ pushes' = pushes + 1
    /\ UNCHANGED <<docVars, pub, report, worldVars, crashes, pc, job, mem, budget>>

\* The timeouts that matter: online_timeout and the stopping budget for a status,
\* halt_timeout for a request - which is the shorter of the two while stopping.
TimePasses ==
    /\ \/ /\ doc.status \in {"booting", "stopping"} /\ ~clock.status
          /\ doc.status = "stopping" /\ doc.request # NoReq => clock.request
          /\ clock' = [clock EXCEPT !.status = TRUE]
       \/ /\ doc.request # NoReq /\ ~clock.request
          /\ clock' = [clock EXCEPT !.request = TRUE]
    /\ UNCHANGED <<doc, used, gitVars, worldVars, bounds, pc, job, mem, budget>>

\* Memory is lost; git and the provider are what is left.
Crash ==
    /\ "crash" \in Faults /\ crashes < MaxCrashes /\ pc # "down"
    /\ crashes' = crashes + 1
    /\ pc' = "down" /\ doc' = pub /\ job' = NoJob /\ mem' = Fresh
    /\ clock' = [status |-> FALSE, request |-> FALSE]
    /\ UNCHANGED <<used, gitVars, worldVars, pushes, budget>>

Poll == PollFails \/ PollTakesNothing \/ PollTakesTriggers

Act == ActHalt \/ ActStart \/ ActOther

Next ==
    \/ Load \/ LoadCorrupt
    \/ Poll \/ Act \/ Launch \/ Advance
    \/ OnDeployResult \/ OnCloseOk \/ OnCloseError
    \/ Tick \/ Flush \/ FlushTimer
    \/ JobStep \/ AgentStep
    \/ \E d \in DSeq : ProviderKills(d)
    \/ \E t \in Triggers : Push(t)
    \/ TimePasses \/ Crash

Spec == Init /\ [][Next]_vars
=============================================================================
