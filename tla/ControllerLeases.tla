-------------------------- MODULE ControllerLeases --------------------------
(***************************************************************************)
(* The controller pays for one deployment at most and never loses one, for *)
(* any number of deployments, attempts, crashes, refusals and deaths of    *)
(* the provider's leases; and what it concludes from agent.json is about   *)
(* the server it runs.                                                     *)
(*                                                                         *)
(* Money: what holds escrow is always the lease on record or the job's own *)
(* deployment, or else the document says deploying and nothing runs; and   *)
(* the same can be read in the published document, so that a crash loses   *)
(* nothing.  A launch is reached only from where this leaves nothing to    *)
(* hold.                                                                   *)
(*                                                                         *)
(* Reports: a deployment that runs finds its own lease, or none, in the    *)
(* published document, so a report names the deployment that wrote it.  A  *)
(* request, from the moment it is drawn until long after it is answered,   *)
(* belongs to one deployment: the lease beside it in either document, the  *)
(* agent that is taking it and the agent that took it are the same.        *)
(***************************************************************************)
EXTENDS ControllerSafety

-----------------------------------------------------------------------------
(* Money.                                                                  *)

Settling == {"offline", "failed"}

\* What can run a server is on record, the job's, or about to be looked for.
HeldKnown ==
    \A d \in Holding : d = doc.lease \/ d = job.dseq \/ (doc.status = "deploying" /\ job = NoJob)

\* What a controller that takes over can find from the published document alone.
FoundAgain == \A d \in Holding : d = pub.lease \/ pub.status = "deploying"

\* A launch comes next only when nothing is held.
LaunchClear == pc = "launch" => Holding = {}

\* A start that waits to be acted on, or is about to be, meets a settled document.
StartsSettled ==
    /\ "start" \in triggers \cup mem.acts => doc.status \in Settling /\ pub.status \in Settling
    /\ pc = "act" => "start" \notin triggers

\* While deploying there is no lease on record.
DeployingUnleased ==
    /\ doc.status = "deploying" => doc.lease = NoDSeq
    /\ pub.status = "deploying" => pub.lease = NoDSeq

\* There is one way to have no job, and a close that succeeded closed something.
JobShape ==
    /\ job.kind = "none" => job = NoJob
    /\ job.kind = "close" /\ job.state = "ok" => job.dseq \notin Holding

MoneyInv == /\ OneDeployment /\ HeldKnown /\ AskOnRecord
            /\ FoundAgain /\ LaunchClear /\ StartsSettled /\ DeployingUnleased /\ JobShape

-----------------------------------------------------------------------------
(* What the invariant says of each status, and what a handler must show.   *)

\* Where a deployment that holds money can be: on record, with the job, or to be found.
LEMMA HeldWhere ==
    ASSUME TypeOK, JobInv, MoneyInv
    PROVE  /\ doc.status # "deploying" => Holding \subseteq {doc.lease}
           /\ job.kind = "deploy" => Holding \subseteq {job.dseq}
           /\ doc.status = "deploying" /\ job.kind # "deploy" => job = NoJob
           /\ doc.lease = NoDSeq /\ doc.status # "deploying" => Holding = {}
  <1>1. NoJob.dseq = NoDSeq /\ Holding \subseteq DSeq /\ NoDSeq \notin DSeq
    BY NoDSeqAssumption DEF NoJob, Holding
  <1>2. job.kind \in {"none", "deploy", "close"}
    BY DEF TypeOK, Jobs
  <1>3. \A d \in Holding : d = doc.lease \/ d = job.dseq \/ (doc.status = "deploying" /\ job = NoJob)
    BY DEF MoneyInv, HeldKnown
  <1>4. doc.status # "deploying" => Holding \subseteq {doc.lease}
    BY <1>1, <1>2, <1>3 DEF MoneyInv, JobShape, JobInv, JobMatchesStatus
  <1>5. job.kind = "deploy" => Holding \subseteq {job.dseq}
    BY <1>1, <1>3 DEF JobInv, JobMatchesStatus, NoJob
  <1>6. doc.status = "deploying" /\ job.kind # "deploy" => job = NoJob
    BY <1>2 DEF MoneyInv, JobShape, JobInv, JobMatchesStatus
  <1> QED BY <1>1, <1>4, <1>5, <1>6

\* A handler that leaves git's document and the provider alone keeps the invariant
\* if what is held stays known and a pending start stays settled.
LEMMA MoneyWrite ==
    ASSUME MoneyInv, UNCHANGED <<dep, pub>>,
           "start" \in triggers' \cup mem'.acts =>
              "start" \in triggers \cup mem.acts /\ (doc.status \in Settling => doc'.status \in Settling),
           pc' = "act" => "start" \notin triggers',
           pc' = "launch" => Holding = {},
           \A d \in Holding : \/ d = doc'.lease
                              \/ d = job'.dseq
                              \/ doc'.status = "deploying" /\ job' = NoJob,
           doc'.status = "deploying" => doc'.lease = NoDSeq,
           job'.kind = "none" => job' = NoJob,
           job'.kind = "close" /\ job'.state = "ok" => job' = job,
           job'.kind = "deploy" => job.kind = "deploy"
    PROVE  MoneyInv'
  <1>1. Holding' = Holding
    BY DEF Holding
  <1>2. OneDeployment' /\ HeldKnown'
    BY <1>1 DEF MoneyInv, OneDeployment, HeldKnown
  <1>3. AskOnRecord' /\ FoundAgain' /\ LaunchClear'
    BY <1>1 DEF MoneyInv, AskOnRecord, FoundAgain, LaunchClear
  <1>4. StartsSettled'
    BY DEF MoneyInv, StartsSettled
  <1>5. DeployingUnleased' /\ JobShape'
    BY <1>1 DEF MoneyInv, DeployingUnleased, JobShape
  <1> QED BY <1>2, <1>3, <1>4, <1>5 DEF MoneyInv

\* The usual handler: not deploying before or after, and the lease stays on record.
LEMMA MoneyLeaseKept ==
    ASSUME TypeOK, JobInv, MoneyInv, UNCHANGED <<dep, pub, triggers>>,
           mem'.acts \subseteq mem.acts,
           pc' \in {"flush", "advance", "poll"},
           doc.status # "deploying", doc'.status # "deploying", doc'.lease = doc.lease,
           doc.status \in Settling => doc'.status \in Settling,
           job' \in {job, NoJob} \/ (job'.kind = "close" /\ job'.state = "running")
    PROVE  MoneyInv'
  <1>1. Holding \subseteq {doc'.lease}
    BY HeldWhere
  <1>2. job.kind = "none" => job = NoJob
    BY DEF MoneyInv, JobShape
  <1>3. /\ job'.kind = "none" => job' = NoJob
        /\ job'.kind = "close" /\ job'.state = "ok" => job' = job
        /\ job'.kind = "deploy" => job.kind = "deploy"
    BY <1>2 DEF NoJob
  <1> QED BY <1>1, <1>3, MoneyWrite

\* A step of the job or the provider after which no more is held than before.
LEMMA MoneyShrinks ==
    ASSUME MoneyInv, UNCHANGED <<doc, pub, triggers, pc>>, mem'.acts = mem.acts,
           Holding' \subseteq Holding,
           job'.kind = job.kind, job'.dseq = job.dseq,
           job = NoJob => job' = NoJob,
           job'.kind = "close" /\ job'.state = "ok" => job'.dseq \notin Holding'
    PROVE  MoneyInv'
  <1>1. OneDeployment' /\ HeldKnown'
    BY DEF MoneyInv, OneDeployment, HeldKnown
  <1>2. AskOnRecord' /\ FoundAgain' /\ LaunchClear'
    BY DEF MoneyInv, AskOnRecord, FoundAgain, LaunchClear
  <1>3. StartsSettled' /\ DeployingUnleased' /\ JobShape'
    BY DEF MoneyInv, StartsSettled, DeployingUnleased, JobShape
  <1> QED BY <1>1, <1>2, <1>3 DEF MoneyInv

\* Publishing the document.
LEMMA MoneyPublish ==
    ASSUME TypeOK, JobInv, MoneyInv, UNCHANGED <<doc, dep, job, triggers>>, mem'.acts = mem.acts,
           pub' \in {doc, pub}, pc' \notin {"act", "launch"}
    PROVE  MoneyInv'
  <1>1. Holding' = Holding
    BY DEF Holding
  <1>2. \A d \in Holding : d = doc.lease \/ doc.status = "deploying"
    BY HeldWhere
  <1>3. OneDeployment' /\ HeldKnown'
    BY <1>1 DEF MoneyInv, OneDeployment, HeldKnown
  <1>4. AskOnRecord'
    BY DEF MoneyInv, AskOnRecord, JobInv, JobMatchesStatus
  <1>5. FoundAgain' /\ LaunchClear'
    BY <1>1, <1>2 DEF MoneyInv, FoundAgain, LaunchClear
  <1>6. StartsSettled' /\ DeployingUnleased' /\ JobShape'
    BY <1>1 DEF MoneyInv, StartsSettled, DeployingUnleased, JobShape
  <1> QED BY <1>3, <1>4, <1>5, <1>6 DEF MoneyInv

-----------------------------------------------------------------------------
(* The handlers, one by one.                                               *)

\* A lease that is gone holds nothing; any other stays on record.
LEMMA MoneyLoad ==
    ASSUME TypeOK, JobInv, MoneyInv, Load
    PROVE  MoneyInv'
  <1> USE DEF gitVars, worldVars, bounds
  <1>1. doc \in Docs /\ job = NoJob /\ mem \in Memories
    BY DEF TypeOK, Load, JobInv
  <1>2. PICK gone \in BOOLEAN : /\ doc.lease # NoDSeq => (gone => doc.lease \notin Holding)
                                /\ Write(Reconciled(doc, gone))
    BY DEF Load, Alive
  <1>3. doc' = Reconciled(doc, gone)
    BY <1>2 DEF Write, SetDoc
  <1>4. UNCHANGED <<dep, pub, triggers, job>> /\ pc' = "poll" /\ mem'.acts = mem.acts
    BY <1>1 DEF Load, Memories
  <1>5. CASE doc.status = "deploying"
    <2>1. doc.lease = NoDSeq
      BY <1>5 DEF MoneyInv, DeployingUnleased
    <2>2. doc' = doc
      BY <1>3, <1>5, <2>1 DEF Reconciled, BillingStatuses
    <2> QED BY <1>1, <1>4, <1>5, <2>1, <2>2, MoneyWrite DEF NoJob
  <1>6. CASE doc.status # "deploying"
    <2>1. doc'.status \in {doc.status, "failed"}
      BY <1>1, <1>3, FieldFacts
    <2>2. Holding \subseteq {doc.lease} /\ NoDSeq \notin Holding
      BY <1>6, HeldWhere, NoDSeqAssumption DEF Holding
    <2>3. doc'.lease = doc.lease \/ doc.lease \notin Holding
      <3>1. CASE doc.lease = NoDSeq
        BY <2>2, <3>1
      <3>2. CASE doc.lease # NoDSeq /\ gone
        BY <1>2, <3>2
      <3>3. CASE doc.lease # NoDSeq /\ ~gone
        BY <1>3, <3>3 DEF Reconciled
      <3> QED BY <3>1, <3>2, <3>3
    <2>4. \A d \in Holding : d = doc'.lease
      BY <2>2, <2>3
    <2>5. doc.status \in Settling => doc'.status \in Settling
      BY <2>1 DEF Settling
    <2>6. doc'.status # "deploying"
      BY <1>6, <2>1
    <2> QED BY <1>1, <1>4, <2>4, <2>5, <2>6, MoneyWrite DEF NoJob
  <1> QED BY <1>5, <1>6

\* A poll and a flush change no deployment and no status.
LEMMA MoneyPoll ==
    ASSUME Disciplined, TypeOK, MoneyInv, Poll
    PROVE  MoneyInv'
  <1> USE DEF docVars, gitVars, worldVars, bounds
  <1>1. mem \in Memories
    BY DEF TypeOK
  <1>2. UNCHANGED <<doc, dep, pub, job>>
    <2>1. CASE PollFails
      BY <2>1 DEF PollFails
    <2>2. CASE PollTakesNothing
      BY <2>2 DEF PollTakesNothing
    <2>3. CASE PollTakesTriggers
      BY <2>3 DEF PollTakesTriggers
    <2> QED BY <2>1, <2>2, <2>3 DEF Poll
  <1>3. /\ triggers' \cup mem'.acts \subseteq triggers \cup mem.acts
        /\ pc' \in {"flush", "advance", "act"}
        /\ pc' = "act" => triggers' = {}
    <2>1. CASE PollFails
      BY <2>1 DEF PollFails
    <2>2. CASE PollTakesNothing
      BY <1>1, <2>2 DEF PollTakesNothing, Memories
    <2>3. CASE PollTakesTriggers
      BY <1>1, <2>3 DEF PollTakesTriggers, Memories
    <2> QED BY <2>1, <2>2, <2>3 DEF Poll
  <1>4. \A d \in Holding : d = doc.lease \/ d = job.dseq \/ (doc.status = "deploying" /\ job = NoJob)
    BY DEF MoneyInv, HeldKnown
  <1>5. /\ doc.status = "deploying" => doc.lease = NoDSeq
        /\ job.kind = "none" => job = NoJob
    BY DEF MoneyInv, DeployingUnleased, JobShape
  <1> QED BY <1>2, <1>3, <1>4, <1>5, MoneyWrite

\* Acting on triggers: only a start from a settled document leads to deploying.
LEMMA MoneyAct ==
    ASSUME TypeOK, JobInv, MoneyInv, Act
    PROVE  MoneyInv'
  <1> USE DEF gitVars, worldVars, bounds
  <1>1. doc \in Docs /\ job \in Jobs /\ mem \in Memories /\ pc = "act"
    BY DEF TypeOK, Act, ActHalt, ActStart, ActOther
  <1>2. \A d \in Holding : d = doc.lease \/ d = job.dseq \/ (doc.status = "deploying" /\ job = NoJob)
    BY DEF MoneyInv, HeldKnown
  <1>3. /\ doc.status = "deploying" => doc.lease = NoDSeq
        /\ job.kind = "none" => job = NoJob
    BY DEF MoneyInv, DeployingUnleased, JobShape
  <1>4. UNCHANGED <<dep, pub, triggers>> /\ mem'.acts = {}
    <2>1. CASE ActHalt
      BY <1>1, <2>1 DEF ActHalt, Memories
    <2>2. CASE ActStart
      BY <1>1, <2>2 DEF ActStart, Memories
    <2>3. CASE ActOther
      BY <1>1, <2>3 DEF ActOther, Memories
    <2> QED BY <2>1, <2>2, <2>3 DEF Act
  <1>5. CASE ActHalt
    <2>1. PICK d \in Scheduled, id \in NewID : Write(BeginHalt(d, id))
      BY <1>5 DEF ActHalt
    <2>2. /\ doc'.lease = doc.lease
          /\ doc.status \in {"deploying", "closing", "offline", "failed", "stopping"}
               => doc'.status = doc.status
          /\ doc.status \in {"booting", "online", "backing_up"} => doc'.status = "stopping"
      BY <2>1, ScheduledFacts, HaltFacts DEF Write, SetDoc
    <2>3. pc' = "advance"
      BY <1>5 DEF ActHalt
    <2>4. doc.status \in Statuses
      BY <1>1 DEF Docs
    <2>5. CASE doc.status = "deploying"
      <3>1. \/ job' = job
            \/ job.kind # "none" /\ job' = [job EXCEPT !.state = "cancelled"]
        BY <1>5 DEF ActHalt
      <3>2. /\ job'.kind = job.kind /\ job'.dseq = job.dseq
            /\ job = NoJob => job' = NoJob
            /\ job'.state = "ok" => job' = job
        BY <1>1, <3>1 DEF Jobs, NoJob
      <3> QED BY <1>2, <1>3, <1>4, <2>2, <2>3, <2>5, <3>2, MoneyWrite
    <2>6. CASE doc.status # "deploying"
      <3>1. job' = job
        BY <1>5, <2>6 DEF ActHalt
      <3>2. doc'.status # "deploying" /\ (doc.status \in Settling => doc'.status \in Settling)
        BY <2>2, <2>4, <2>6 DEF Settling, Statuses
      <3> QED BY <1>4, <2>2, <2>3, <2>6, <3>1, <3>2, MoneyLeaseKept
    <2> QED BY <2>5, <2>6
  <1>6. CASE ActStart
    <2>1. PICK d \in Scheduled :
             /\ SetDoc(BeginDeploy(d))
             /\ pc' = IF BeginDeploy(d).status = "deploying" THEN "launch" ELSE "advance"
      BY <1>6 DEF ActStart
    <2>2. doc.lease = NoDSeq /\ job = NoJob /\ job' = job
      BY <1>6 DEF ActStart, StartRefused
    <2>3. doc.status \in Settling
      BY <1>6 DEF MoneyInv, StartsSettled, ActStart, Starting
    <2>4. Holding = {}
      BY <2>2, <2>3, HeldWhere DEF Settling
    <2>5. doc'.lease = NoDSeq
      BY <2>1, <2>2, ScheduledFacts, StartFacts DEF SetDoc
    <2>6. "start" \notin triggers' \cup mem'.acts /\ pc' # "act"
      BY <1>1, <1>4, <2>1 DEF MoneyInv, StartsSettled
    <2> QED BY <1>4, <2>2, <2>4, <2>5, <2>6, MoneyWrite DEF NoJob
  <1>7. CASE ActOther
    <2>1. PICK d \in Scheduled, id \in NewID :
             Write(IF "backup" \in mem.acts THEN OperatorBackup(d, id) ELSE d)
      BY <1>7 DEF ActOther
    <2>2. /\ doc'.lease = doc.lease
          /\ doc.status \notin {"online", "backing_up"} => doc'.status = doc.status
          /\ doc.status \in {"online", "backing_up"} => doc'.status \in {"online", "backing_up"}
      BY <2>1, ScheduledFacts, BackupFacts DEF Write, SetDoc
    <2>3. pc' = "advance" /\ job' = job
      BY <1>7 DEF ActOther
    <2>4. CASE doc.status = "deploying"
      BY <1>2, <1>3, <1>4, <2>2, <2>3, <2>4, MoneyWrite
    <2>5. CASE doc.status # "deploying"
      <3>1. doc'.status # "deploying" /\ (doc.status \in Settling => doc'.status \in Settling)
        BY <2>2, <2>5 DEF Settling
      <3> QED BY <1>4, <2>2, <2>3, <2>5, <3>1, MoneyLeaseKept
    <2> QED BY <2>4, <2>5
  <1> QED BY <1>5, <1>6, <1>7 DEF Act

\* The ask is published, and only then can the job run.
LEMMA MoneyLaunch ==
    ASSUME Disciplined, TypeOK, JobInv, MoneyInv, Launch
    PROVE  MoneyInv'
  <1> USE DEF docVars, worldVars, bounds
  <1>1. mem \in Memories
    BY DEF TypeOK
  <1>2. /\ pc = "launch" /\ pc' = "flush" /\ UNCHANGED <<doc, dep, triggers>> /\ pub' = doc
        /\ job' = [kind |-> "deploy", dseq |-> NoDSeq, state |-> "running"]
    BY DEF Launch, FlushNow, Disciplined
  <1>3. mem'.acts = mem.acts
    BY <1>1 DEF Launch, Memories
  <1>4. Holding = {} /\ Holding' = {}
    BY <1>2 DEF MoneyInv, LaunchClear, Holding
  <1>5. doc.status = "deploying" /\ doc.lease = NoDSeq
    BY <1>2 DEF JobInv, JobMatchesStatus
  <1>6. OneDeployment' /\ HeldKnown' /\ FoundAgain' /\ LaunchClear'
    BY <1>4 DEF OneDeployment, HeldKnown, FoundAgain, LaunchClear
  <1>7. AskOnRecord' /\ DeployingUnleased' /\ JobShape'
    BY <1>2, <1>5 DEF AskOnRecord, DeployingUnleased, JobShape
  <1>8. StartsSettled'
    BY <1>2, <1>3, <1>5 DEF MoneyInv, StartsSettled, Settling
  <1> QED BY <1>6, <1>7, <1>8 DEF MoneyInv

\* advance keeps the lease on record in every status but one: deploying with no job
\* asks the provider, whose listing is all there is.
LEMMA MoneyAdvance ==
    ASSUME Disciplined, TypeOK, JobInv, MoneyInv, Advance
    PROVE  MoneyInv'
  <1> USE DEF docVars, gitVars, worldVars, bounds
  <1>1. doc \in Docs /\ job \in Jobs /\ mem \in Memories
    BY DEF TypeOK
  <1>2. pc = "advance" /\ pc' = "flush" /\ UNCHANGED <<dep, pub, triggers>>
    BY DEF Advance, AdvanceOffline, AdvanceDeploying, AdvanceBooting, AdvanceOnline,
           AdvanceBackingUp, AdvanceStopping, AdvanceClosing, AdvanceFailed, Advancing
  <1>3. mem' \in {mem, [mem EXCEPT !.attempts = 0]}
    BY DEF Advance, AdvanceOffline, AdvanceDeploying, AdvanceBooting, AdvanceOnline,
           AdvanceBackingUp, AdvanceStopping, AdvanceClosing, AdvanceFailed, Quiet
  <1>4. mem'.acts = mem.acts
    BY <1>1, <1>3 DEF Memories
  <1>5. ASSUME UNCHANGED <<doc, job>> PROVE MoneyInv'
    BY <1>2, <1>4, <1>5, MoneyPublish
  <1>6. ASSUME doc.status # "deploying", NEW d \in Docs, Write(d),
               d.lease = doc.lease, d.status # "deploying",
               doc.status \in Settling => d.status \in Settling,
               job' = job \/ (job'.kind = "close" /\ job'.state = "running")
        PROVE  MoneyInv'
    BY <1>2, <1>4, <1>6, MoneyLeaseKept DEF Write, SetDoc
  <1>7. ASSUME doc.status \notin Settling \cup {"deploying"}, NEW d \in Docs,
               d.lease = doc.lease, d.status = doc.status, Close(d, job)
        PROVE  MoneyInv'
    <2>1. /\ BeginClose(d) \in Docs /\ Write(BeginClose(d))
          /\ BeginClose(d).lease = doc.lease /\ BeginClose(d).status # "deploying"
      BY <1>7, MutatorsType, CloseFacts DEF Close
    <2>2. job' = job \/ (job'.kind = "close" /\ job'.state = "running")
      BY <1>7 DEF Close
    <2> QED BY <1>6, <1>7, <2>1, <2>2
  <1>8. ASSUME NEW id \in NewID, Write(BeginHalt(doc, id)), UNCHANGED job,
               doc.status \in {"booting", "online", "backing_up"}
        PROVE  MoneyInv'
    BY <1>1, <1>6, <1>8, HandlersType, HaltFacts DEF Settling
  <1>9. \A to \in Statuses : /\ SetStatus(doc, to) \in Docs
                             /\ SetStatus(doc, to).lease = doc.lease
                             /\ SetStatus(doc, to).status \in {doc.status, to}
    BY <1>1, MutatorsType, FieldFacts
  <1>10. /\ ClearBackupRequest(doc) \in Docs /\ ClearBackupRequest(doc).lease = doc.lease
         /\ ClearBackupRequest(doc).status = doc.status
         /\ Fail(doc) \in Docs /\ Fail(doc).lease = doc.lease /\ Fail(doc).status = "failed"
    BY <1>1, MutatorsType, FieldFacts
  <1>11. CASE AdvanceOffline
    BY <1>5, <1>11 DEF AdvanceOffline, Quiet
  <1>12. CASE AdvanceDeploying
    <2>1. CASE Quiet
      BY <1>5, <2>1 DEF Quiet
    <2>2. CASE ~Quiet
      <3>1. doc.status = "deploying" /\ job = NoJob /\ UNCHANGED job
        BY <1>12, <2>2 DEF AdvanceDeploying, Advancing
      <3>2. doc.lease = NoDSeq
        BY <3>1 DEF MoneyInv, DeployingUnleased
      <3>3. AdoptResults = {Holding}
        BY DEF Disciplined, AdoptResults, Holding
      <3>4. PICK d \in AdoptInto(doc, Holding) :
                  Write(IF d.lease = NoDSeq /\ d.status = "deploying"
                          THEN [SetStatus(d, "offline") EXCEPT !.intent = "stopped"] ELSE d)
        BY <1>12, <2>2, <3>3 DEF AdvanceDeploying
      <3>5. CASE Holding = {}
        <4>1. d = doc
          BY <3>4, <3>5 DEF AdoptInto
        <4>2. doc'.lease = NoDSeq
          BY <1>1, <3>1, <3>2, <3>4, <4>1 DEF Write, SetDoc, SetStatus, Docs
        <4> QED BY <1>2, <1>4, <3>1, <3>5, <4>2, MoneyWrite DEF NoJob, Settling
      <3>6. CASE Holding # {}
        <4>1. PICK l \in Holding : d = Fail([doc EXCEPT !.lease = l])
          BY <3>4, <3>6 DEF AdoptInto
        <4>2. d.lease = l /\ d.status = "failed"
          BY <1>1, <4>1 DEF Fail, Docs
        <4>3. doc'.lease = l /\ doc'.status = "failed"
          BY <3>4, <4>2 DEF Write, SetDoc
        <4>4. \A h \in Holding : h = doc'.lease
          BY <4>3 DEF MoneyInv, OneDeployment
        <4> QED BY <1>2, <1>4, <3>1, <4>3, <4>4, MoneyWrite DEF NoJob, Settling
      <3> QED BY <3>5, <3>6
    <2> QED BY <2>1, <2>2
  <1>13. CASE AdvanceBooting
    BY <1>1, <1>6, <1>8, <1>9, <1>10, <1>13 DEF AdvanceBooting, Advancing, Statuses, Settling
  <1>14. CASE AdvanceOnline
    <2>1. \A id \in NewID \cup {NoReq} : AskBackup(doc, id) \in Docs
      <3>1. NewID \subseteq ReqID \cup {NoReq}
        BY DEF NewID
      <3> QED BY <1>1, <3>1, MutatorsType DEF AskBackup, Statuses
    <2>2. doc.status = "online" /\ UNCHANGED job
      BY <1>14 DEF AdvanceOnline, Advancing
    <2>3. \A id : /\ AskBackup(doc, id).lease = doc.lease
                  /\ AskBackup(doc, id).status \in {"online", "backing_up"}
      BY <1>1, <2>2, BackupFacts
    <2> QED BY <2>1, <2>2, <2>3, <1>6, <1>8, <1>9, <1>14 DEF AdvanceOnline, Statuses, Settling
  <1>15. CASE AdvanceBackingUp
    <2> DEFINE c == ClearBackupRequest(doc)
    <2>1. /\ SetStatus(c, "online") \in Docs
          /\ SetStatus(c, "online").lease = doc.lease
          /\ SetStatus(c, "online").status \in {doc.status, "online"}
      <3>1. "online" \in Statuses
        BY DEF Statuses
      <3>2. c \in Docs /\ c.lease = doc.lease /\ c.status = doc.status
        BY <1>10
      <3> HIDE DEF c
      <3>3. SetStatus(c, "online") \in Docs
        BY <3>1, <3>2, MutatorsType
      <3>4. SetStatus(c, "online").lease = c.lease /\ SetStatus(c, "online").status \in {c.status, "online"}
        BY <3>1, <3>2, FieldFacts
      <3> QED BY <3>2, <3>3, <3>4
    <2> QED BY <2>1, <1>1, <1>6, <1>8, <1>15 DEF AdvanceBackingUp, Advancing, Settling
  <1>16. CASE AdvanceStopping
    BY <1>1, <1>6, <1>7, <1>10, <1>16 DEF AdvanceStopping, Advancing, Settling
  <1>17. CASE AdvanceClosing
    BY <1>1, <1>5, <1>7, <1>17 DEF AdvanceClosing, Advancing, Quiet, Settling
  <1>18. CASE AdvanceFailed
    <2>1. CASE Quiet
      BY <1>5, <2>1 DEF Quiet
    <2>2. CASE ~Quiet
      <3>1. doc.status = "failed" /\ doc.lease \in Holding /\ Close(doc, job)
        BY <1>18, <2>2 DEF AdvanceFailed, Advancing, Alive
      <3>2. doc.lease # NoDSeq
        BY <3>1, NoDSeqAssumption DEF Holding
      <3>3. /\ BeginClose(doc) = SetStatus(ClearBackupRequest(doc), "closing")
            /\ BeginClose(doc).status = "failed"
        BY <1>1, <3>1, <3>2
           DEF BeginClose, SetStatus, ClearBackupRequest, CanTransition, Transitions, Docs
      <3>4. /\ BeginClose(doc) \in Docs /\ Write(BeginClose(doc))
            /\ BeginClose(doc).lease = doc.lease
        BY <1>1, <3>1, MutatorsType, CloseFacts DEF Close
      <3>5. job' = job
        BY <3>1, <3>3 DEF Close
      <3> QED BY <1>6, <3>1, <3>3, <3>4, <3>5 DEF Settling
    <2> QED BY <2>1, <2>2
  <1> QED BY <1>11, <1>12, <1>13, <1>14, <1>15, <1>16, <1>17, <1>18 DEF Advance

\* The lease of a deploy goes on record whatever became of the deploy.
LEMMA MoneyDeployResult ==
    ASSUME TypeOK, JobInv, MoneyInv, OnDeployResult
    PROVE  MoneyInv'
  <1> USE DEF gitVars, worldVars, bounds
  <1> DEFINE d == LeaseRecorded
  <1>1. doc \in Docs /\ job \in Jobs /\ mem \in Memories
    BY DEF TypeOK
  <1>2. job.kind = "deploy" /\ doc.status = "deploying" /\ doc.lease = NoDSeq
    BY DEF OnDeployResult, Reported, JobInv, JobMatchesStatus
  <1>3. d \in Docs /\ d.lease = job.dseq /\ d.status = "deploying"
    BY <1>1, <1>2, MutatorsType DEF LeaseRecorded, Docs, Jobs
  <1>4. Holding \subseteq {d.lease}
    BY <1>2, <1>3, HeldWhere
  <1>5. /\ UNCHANGED <<dep, pub, triggers>> /\ pc' \in {"flush", "advance"}
        /\ mem' \in {mem, [mem EXCEPT !.attempts = 0]}
    BY DEF OnDeployResult
  <1>6. mem'.acts = mem.acts
    BY <1>1, <1>5 DEF Memories
  <1>7. \/ doc' = BeginClose(d) \/ doc' = Fail(d) \/ doc' = SetStatus(d, "booting")
    BY DEF OnDeployResult, Close, Write, SetDoc
  <1>8. job' = NoJob \/ (job'.kind = "close" /\ job'.state = "running")
    BY DEF OnDeployResult, Close
  <1> HIDE DEF d
  <1>9. BeginClose(d).lease = d.lease /\ BeginClose(d).status # "deploying"
    BY <1>3, CloseFacts
  <1>10. /\ Fail(d).lease = d.lease /\ Fail(d).status # "deploying"
         /\ SetStatus(d, "booting").lease = d.lease /\ SetStatus(d, "booting").status # "deploying"
    BY <1>3 DEF Fail, SetStatus, CanTransition, Transitions, Docs
  <1>11. doc'.lease = d.lease /\ doc'.status # "deploying"
    BY <1>7, <1>9, <1>10
  <1>12. doc.status \notin Settling
    BY <1>2 DEF Settling
  <1>13. /\ job'.kind = "close" /\ job'.state = "ok" => job' = job
         /\ job'.kind = "none" => job' = NoJob
         /\ job'.kind # "deploy"
    BY <1>8 DEF NoJob
  <1> QED BY <1>4, <1>5, <1>6, <1>11, <1>12, <1>13, MoneyWrite

\* A close that succeeded leaves nothing held, so a retry may launch again.
LEMMA MoneyCloseOk ==
    ASSUME TypeOK, JobInv, MoneyInv, OnCloseOk
    PROVE  MoneyInv'
  <1> USE DEF gitVars, worldVars, bounds
  <1> DEFINE d == SetStatus([doc EXCEPT !.lease = NoDSeq], "offline")
  <1>1. doc \in Docs /\ mem \in Memories
    BY DEF TypeOK
  <1>2. job.kind = "close" /\ job.state = "ok" /\ doc.status = "closing" /\ doc.lease = job.dseq
    BY DEF OnCloseOk, Reported, JobInv, JobMatchesStatus
  <1>3. Holding = {}
    BY <1>2, HeldWhere DEF MoneyInv, JobShape
  <1>4. d \in Docs /\ d.lease = NoDSeq
    <2>1. [doc EXCEPT !.lease = NoDSeq] \in Docs /\ [doc EXCEPT !.lease = NoDSeq].lease = NoDSeq
      BY <1>1, MutatorsType DEF Docs
    <2> QED BY <2>1, MutatorsType, FieldFacts DEF Statuses
  <1>5. /\ UNCHANGED <<dep, pub, triggers>> /\ pc' # "act" /\ job' = NoJob
        /\ mem' \in {[mem EXCEPT !.closes = 0], [mem EXCEPT !.closes = 0, !.attempts = 0]}
        /\ doc' = BeginDeploy(d) \/ doc' = [d EXCEPT !.intent = "stopped"]
    BY DEF OnCloseOk, Write, SetDoc
  <1>6. mem'.acts = mem.acts
    BY <1>1, <1>5 DEF Memories
  <1> HIDE DEF d
  <1>7. doc'.lease = NoDSeq
    BY <1>4, <1>5, StartFacts DEF Docs
  <1>8. doc.status \notin Settling
    BY <1>2 DEF Settling
  <1> QED BY <1>3, <1>5, <1>6, <1>7, <1>8, MoneyWrite DEF NoJob

\* A close that failed leaves the lease on record, to be closed again.
LEMMA MoneyCloseError ==
    ASSUME TypeOK, JobInv, MoneyInv, OnCloseError
    PROVE  MoneyInv'
  <1> USE DEF gitVars, worldVars, bounds
  <1> DEFINE c == IF mem.closes < MaxCloseAttempts THEN mem.closes + 1 ELSE mem.closes
  <1>1. doc \in Docs /\ mem \in Memories
    BY DEF TypeOK
  <1>2. doc.status = "closing"
    BY DEF OnCloseError, Reported, JobInv, JobMatchesStatus
  <1>3. /\ UNCHANGED <<dep, pub, triggers>> /\ pc' = "flush" /\ job' = NoJob
        /\ doc' \in {doc, Fail(doc)}
        /\ mem' \in {[mem EXCEPT !.closes = c], [mem EXCEPT !.closes = c, !.attempts = 0]}
    BY DEF OnCloseError, Write, SetDoc
  <1> HIDE DEF c
  <1>4. mem'.acts = mem.acts
    BY <1>1, <1>3 DEF Memories
  <1>5. doc'.lease = doc.lease /\ doc'.status # "deploying"
    BY <1>1, <1>2, <1>3, FieldFacts
  <1>6. doc.status \notin Settling
    BY <1>2 DEF Settling
  <1> QED BY <1>2, <1>3, <1>4, <1>5, <1>6, MoneyLeaseKept

\* Only a create makes more held, and it starts from nothing.
LEMMA MoneyJobStep ==
    ASSUME Disciplined, TypeOK, JobInv, MoneyInv, JobStep
    PROVE  MoneyInv'
  <1> USE DEF docVars, gitVars, bounds
  <1>1. job \in Jobs /\ dep \in [DSeq -> DepStates]
    BY DEF TypeOK
  <1>2. UNCHANGED <<doc, pub, triggers, pc, mem>>
    BY DEF JobStep, JobCreates, JobCreateLost, JobLeases, JobDeployed, JobDeployFails,
           JobCloses, jobOnly
  <1>3. CASE \E d \in DSeq : JobCreates(d)
    <2>1. PICK d \in DSeq : JobCreates(d)
      BY <1>3
    <2>2. job.kind = "deploy" /\ job.dseq = NoDSeq
      BY <2>1 DEF JobCreates
    <2>3. Holding = {}
      BY <2>2, HeldWhere, NoDSeqAssumption DEF Holding
    <2>4. Holding' = {d}
      BY <1>1, <2>1, <2>3 DEF JobCreates, Holding
    <2>5. job'.dseq = d /\ job'.kind = "deploy"
      BY <1>1, <2>1, <2>2 DEF JobCreates, Jobs
    <2>6. pub.status = "deploying"
      BY <2>2 DEF MoneyInv, AskOnRecord
    <2>7. OneDeployment' /\ HeldKnown' /\ FoundAgain' /\ JobShape'
      BY <1>2, <2>4, <2>5, <2>6 DEF OneDeployment, HeldKnown, FoundAgain, JobShape
    <2>8. AskOnRecord' /\ StartsSettled' /\ DeployingUnleased'
      BY <1>2, <2>6 DEF MoneyInv, AskOnRecord, StartsSettled, DeployingUnleased
    <2>9. LaunchClear'
      BY <1>2, <2>2 DEF LaunchClear, JobInv, JobMatchesStatus, NoJob
    <2> QED BY <2>7, <2>8, <2>9 DEF MoneyInv
  <1>4. CASE \E d \in DSeq : JobCreateLost(d)
    BY <1>4 DEF JobCreateLost, Disciplined
  <1>5. CASE JobLeases
    <2>1. UNCHANGED job /\ Holding' = Holding /\ job.kind = "deploy"
      BY <1>1, <1>5 DEF JobLeases, Holding, Deploying
    <2> QED BY <1>2, <2>1, MoneyShrinks
  <1>6. CASE JobDeployed \/ JobDeployFails
    <2>1. job.kind = "deploy" /\ UNCHANGED dep /\ \E s \in {"ok", "err"} : job' = [job EXCEPT !.state = s]
      BY <1>6 DEF JobDeployed, JobDeployFails, Deploying
    <2>2. job'.kind = "deploy" /\ job'.dseq = job.dseq /\ job # NoJob
      BY <1>1, <2>1 DEF Jobs, NoJob
    <2>3. Holding' = Holding
      BY <2>1 DEF Holding
    <2> QED BY <1>2, <2>1, <2>2, <2>3, MoneyShrinks
  <1>7. CASE JobCloses
    <2>1. job.kind = "close" /\ \E s \in {"ok", "err"} : job' = [job EXCEPT !.state = s]
      BY <1>7 DEF JobCloses
    <2>2. job'.kind = "close" /\ job'.dseq = job.dseq /\ job # NoJob
      BY <1>1, <2>1 DEF Jobs, NoJob
    <2>3. Holding' \subseteq Holding
      BY <1>1, <1>7 DEF JobCloses, Holding
    <2>4. job'.state = "ok" => dep' = [dep EXCEPT ![job.dseq] = "closed"]
      BY <1>1, <1>7 DEF JobCloses, Jobs
    <2>5. job'.state = "ok" => job'.dseq \notin Holding'
      BY <1>1, <2>2, <2>4 DEF Holding
    <2> QED BY <1>2, <2>1, <2>2, <2>3, <2>5, MoneyShrinks
  <1> QED BY <1>3, <1>4, <1>5, <1>6, <1>7 DEF JobStep

\* A disciplined operator starts from a settled, published document.
LEMMA MoneyPush ==
    ASSUME Disciplined, MoneyInv, NEW t \in Triggers, Push(t)
    PROVE  MoneyInv'
  <1> USE DEF docVars, worldVars
  <1>1. /\ UNCHANGED <<doc, pub, pc, job, mem, dep>> /\ triggers' = triggers \cup {t}
        /\ t = "start" => pc = "idle" /\ pub = doc /\ doc.status \in Settling
    BY DEF Push, Settled, Disciplined, Settling
  <1>2. Holding' = Holding
    BY <1>1 DEF Holding
  <1>3. StartsSettled'
    BY <1>1 DEF MoneyInv, StartsSettled
  <1> QED BY <1>1, <1>2, <1>3 DEF MoneyInv, OneDeployment, HeldKnown, AskOnRecord,
             FoundAgain, LaunchClear, DeployingUnleased, JobShape

\* What a crash forgets can be found again.
LEMMA MoneyCrash ==
    ASSUME MoneyInv, Crash
    PROVE  MoneyInv'
  <1> USE DEF gitVars, worldVars
  <1>1. /\ doc' = pub /\ job' = NoJob /\ mem' = Fresh /\ pc' = "down"
        /\ UNCHANGED <<pub, triggers, dep>>
    BY DEF Crash
  <1>2. Holding' = Holding
    BY <1>1 DEF Holding
  <1>3. OneDeployment' /\ HeldKnown' /\ FoundAgain'
    BY <1>1, <1>2 DEF MoneyInv, OneDeployment, HeldKnown, FoundAgain
  <1>4. AskOnRecord' /\ LaunchClear' /\ DeployingUnleased' /\ JobShape'
    BY <1>1 DEF MoneyInv, AskOnRecord, LaunchClear, DeployingUnleased, JobShape, NoJob
  <1>5. StartsSettled'
    BY <1>1 DEF MoneyInv, StartsSettled, Fresh
  <1> QED BY <1>3, <1>4, <1>5 DEF MoneyInv

\* The agents, the clock and a provider that closes a lease make no more held.
LEMMA MoneyWorld ==
    ASSUME MoneyInv, UNCHANGED <<doc, pub, triggers, pc, mem, job>>, Holding' \subseteq Holding
    PROVE  MoneyInv'
  <1>1. job.kind = "close" /\ job.state = "ok" => job.dseq \notin Holding'
    BY DEF MoneyInv, JobShape
  <1> QED BY <1>1, MoneyShrinks

\* At first nothing is held and nothing is on record.
LEMMA MoneyInit == Init => MoneyInv
  <1> SUFFICES ASSUME Init PROVE MoneyInv
    OBVIOUS
  <1>1. Holding = {}
    BY DEF Init, Holding
  <1> QED BY <1>1 DEF Init, MoneyInv, OneDeployment, HeldKnown, AskOnRecord, FoundAgain,
             LaunchClear, StartsSettled, DeployingUnleased, JobShape, NoJob, NewDoc, Fresh

\* Every step of a disciplined instance keeps the invariant, one action at a time.
LEMMA MoneyStep ==
    ASSUME Disciplined
    PROVE  TypeOK /\ JobInv /\ MoneyInv /\ [Next]_vars => MoneyInv'
  <1> SUFFICES ASSUME TypeOK, JobInv, MoneyInv, [Next]_vars PROVE MoneyInv'
    OBVIOUS
  <1> USE DEF docVars, gitVars, worldVars, bounds
  <1>1. CASE Load
    BY <1>1, MoneyLoad
  <1>2. CASE LoadCorrupt
    BY <1>2 DEF LoadCorrupt, Disciplined
  <1>3. CASE Poll
    BY <1>3, MoneyPoll
  <1>4. CASE Act
    BY <1>4, MoneyAct
  <1>5. CASE Launch
    BY <1>5, MoneyLaunch
  <1>6. CASE Advance
    BY <1>6, MoneyAdvance
  <1>7. CASE OnDeployResult \/ OnCloseOk \/ OnCloseError
    BY <1>7, MoneyDeployResult, MoneyCloseOk, MoneyCloseError
  <1>8. CASE Tick \/ Flush \/ FlushTimer
    <2>1. UNCHANGED <<doc, dep, job, triggers, mem>> /\ pub' \in {doc, pub}
            /\ pc' \in {"advance", "idle"}
      BY <1>8 DEF Tick, Flush, FlushTimer
    <2> QED BY <2>1, MoneyPublish
  <1>9. CASE JobStep
    BY <1>9, MoneyJobStep
  <1>10. CASE AgentStep \/ TimePasses \/ UNCHANGED vars
    <2>1. UNCHANGED <<doc, pub, triggers, pc, mem, job, dep>>
      BY <1>10 DEF AgentStep, AgentReads, AgentMoves, AgentBegins, AgentAnswers, AgentPublishes,
           AgentBoots, agentOnly, TimePasses, vars
    <2>2. Holding' \subseteq Holding
      BY <2>1 DEF Holding
    <2> QED BY <2>1, <2>2, MoneyWorld
  <1>11. CASE \E d \in DSeq : ProviderKills(d)
    <2>1. UNCHANGED <<doc, pub, triggers, pc, mem, job>>
      BY <1>11 DEF ProviderKills
    <2>2. Holding' \subseteq Holding
      BY <1>11 DEF ProviderKills, Holding, TypeOK
    <2> QED BY <2>1, <2>2, MoneyWorld
  <1>12. CASE \E t \in Triggers : Push(t)
    BY <1>12, MoneyPush
  <1>13. CASE Crash
    BY <1>13, MoneyCrash
  <1> QED BY <1>1, <1>2, <1>3, <1>4, <1>5, <1>6, <1>7, <1>8, <1>9, <1>10, <1>11, <1>12, <1>13
          DEF Next

\* The three inductive invariants together.
LEMMA MoneyAlways ==
    ASSUME Disciplined
    PROVE  Spec => [](TypeOK /\ JobInv /\ MoneyInv)
  <1>1. Init => TypeOK /\ JobInv /\ MoneyInv
    BY TypeInit, JobInvInit, MoneyInit
  <1>2. TypeOK /\ JobInv /\ MoneyInv /\ [Next]_vars => TypeOK' /\ JobInv' /\ MoneyInv'
    BY TypeStep, JobInvStep, MoneyStep
  <1> QED BY <1>1, <1>2, PTL DEF Spec

\* Never two deployments: invariant I1, across retries, crashes and re-adoptions.
THEOREM OneDeploymentAlways ==
    ASSUME Disciplined
    PROVE  Spec => []OneDeployment
  <1>1. MoneyInv => OneDeployment
    BY DEF MoneyInv
  <1> QED BY <1>1, MoneyAlways, PTL

\* And the ask is on record for as long as a deploy runs.
THEOREM AskAlwaysOnRecord ==
    ASSUME Disciplined
    PROVE  Spec => []AskOnRecord
  <1>1. MoneyInv => AskOnRecord
    BY DEF MoneyInv
  <1> QED BY <1>1, MoneyAlways, PTL

-----------------------------------------------------------------------------
(* Escrow.  A deployment whose lease the provider closed holds money too.  *)

\* What is on record, in memory or published, was created.
RecordsExist == \A d \in DSeq : d \in {doc.lease, pub.lease, job.dseq} => dep[d] # "none"

\* A close that reports success closed what it was for.
CloseDone == job.kind = "close" /\ job.state = "ok" /\ job.dseq \in DSeq => dep[job.dseq] = "closed"

\* Until the process dies for the first time no dead lease is off the record.
DeadKnown == \A d \in DSeq : dep[d] = "dead" => crashes > 0 \/ d \in {doc.lease, job.dseq}

\* Before the first start there is nothing, and until a crash a document that says
\* deploying has its job, or gets it next.
FirstLife ==
    crashes = 0 => /\ pc = "down" => doc.status # "deploying" /\ \A d \in DSeq : dep[d] = "none"
                   /\ doc.status = "deploying" /\ job = NoJob => pc = "launch"

EscrowInv == RecordsExist /\ CloseDone /\ DeadKnown /\ FirstLife

\* What a step may do to the record: the body of LeaseKeptUntilClosed.
Kept == \A d \in OnRecord \ OnRecord' :
            \/ dep[d] = "closed"
            \/ dep[d] = "dead" /\ "down" \in {pc, pc'}
            \/ pc' = "down" /\ doc'.status = "deploying"

\* The record is of deployments, and outside deploying the job's is the document's.
LEMMA RecordFacts ==
    ASSUME TypeOK, JobInv, MoneyInv
    PROVE  /\ OnRecord \subseteq DSeq
           /\ doc.status # "deploying" => job.dseq \in {doc.lease, NoDSeq}
           /\ job.kind = "close" => job.dseq = doc.lease
           /\ doc.status = "deploying" => doc.lease = NoDSeq
  <1>1. doc.lease \in DSeq \cup {NoDSeq} /\ job \in Jobs
    BY DEF TypeOK, Docs
  <1>2. OnRecord \subseteq DSeq
    BY <1>1 DEF OnRecord, Jobs
  <1>3. doc.status # "deploying" => job.dseq \in {doc.lease, NoDSeq}
    BY <1>1 DEF Jobs, JobInv, JobMatchesStatus, MoneyInv, JobShape, NoJob
  <1> QED BY <1>2, <1>3 DEF JobInv, JobMatchesStatus, MoneyInv, DeployingUnleased

\* A step of a running process that takes nothing off the record, and puts nothing on
\* it that does not exist.
LEMMA EscrowKeeps ==
    ASSUME TypeOK, JobInv, MoneyInv, EscrowInv, UNCHANGED <<dep, crashes>>, pub' \in {pub, doc},
           pc' # "down",
           \A d \in DSeq : d \in {doc.lease, job.dseq} => d \in {doc'.lease, job'.dseq},
           \A d \in DSeq : d \in {doc'.lease, job'.dseq} =>
                              d \in {doc.lease, job.dseq} \/ dep[d] # "none",
           job'.kind = "close" /\ job'.state = "ok" => job' = job,
           crashes = 0 /\ doc'.status = "deploying" /\ job' = NoJob => pc' = "launch"
    PROVE  EscrowInv' /\ Kept
  <1>1. RecordsExist'
    BY DEF EscrowInv, RecordsExist
  <1>2. CloseDone'
    BY DEF EscrowInv, CloseDone
  <1>3. DeadKnown' /\ FirstLife'
    BY DEF EscrowInv, DeadKnown, FirstLife
  <1>4. OnRecord \ OnRecord' = {}
    BY RecordFacts DEF OnRecord
  <1> QED BY <1>1, <1>2, <1>3, <1>4 DEF EscrowInv, Kept

\* A step that changes neither documents, job nor deployments.
LEMMA EscrowQuiet ==
    ASSUME EscrowInv, UNCHANGED <<dep, crashes, doc, pub, job, pc>>
    PROVE  EscrowInv' /\ Kept
  BY DEF EscrowInv, RecordsExist, CloseDone, DeadKnown, FirstLife, OnRecord, Kept

\* Polls, ticks and publishes leave the document and the job alone.
LEMMA EscrowPublish ==
    ASSUME TypeOK, JobInv, MoneyInv, EscrowInv, UNCHANGED <<doc, job, dep, crashes>>,
           pub' \in {pub, doc}, pc' # "down",
           pc # "launch"
    PROVE  EscrowInv' /\ Kept
  <1>1. ~(crashes = 0 /\ doc.status = "deploying" /\ job = NoJob)
    BY DEF EscrowInv, FirstLife
  <1> QED BY <1>1, EscrowKeeps

\* A trigger that is acted on moves no lease.
LEMMA EscrowAct ==
    ASSUME TypeOK, JobInv, MoneyInv, EscrowInv, Act
    PROVE  EscrowInv' /\ Kept
  <1> USE DEF gitVars, worldVars, bounds
  <1>1. doc \in Docs /\ job \in Jobs /\ doc.status \in Statuses
    BY DEF TypeOK, Docs
  <1>2. pc = "act" /\ UNCHANGED <<dep, crashes, pub>>
    BY DEF Act, ActHalt, ActStart, ActOther
  <1>3. ~(crashes = 0 /\ doc.status = "deploying" /\ job = NoJob)
    BY <1>2 DEF EscrowInv, FirstLife
  <1>4. CASE ActHalt
    <2>1. PICK d \in Scheduled, id \in NewID : Write(BeginHalt(d, id))
      BY <1>4 DEF ActHalt
    <2>2. /\ doc'.lease = doc.lease
          /\ doc.status # "deploying" => doc'.status # "deploying"
      <3>1. /\ doc'.lease = doc.lease
            /\ doc.status \in {"deploying", "closing", "offline", "failed", "stopping"}
                 => doc'.status = doc.status
            /\ doc.status \in {"booting", "online", "backing_up"} => doc'.status = "stopping"
        BY <2>1, ScheduledFacts, HaltFacts DEF Write, SetDoc
      <3> QED BY <1>1, <3>1 DEF Statuses
    <2>3. job' = job \/ (job.kind # "none" /\ job' = [job EXCEPT !.state = "cancelled"])
      BY <1>4 DEF ActHalt
    <2>4. /\ job'.dseq = job.dseq
          /\ job # NoJob => job' # NoJob
          /\ job'.state = "ok" => job' = job
      BY <1>1, <2>3 DEF Jobs, NoJob
    <2>5. pc' = "advance"
      BY <1>4 DEF ActHalt
    <2> QED BY <1>2, <1>3, <2>2, <2>4, <2>5, EscrowKeeps
  <1>5. CASE ActStart
    <2>1. PICK d \in Scheduled :
             /\ SetDoc(BeginDeploy(d))
             /\ pc' = IF BeginDeploy(d).status = "deploying" THEN "launch" ELSE "advance"
      BY <1>5 DEF ActStart
    <2>2. doc'.lease = doc.lease /\ job' = job
      BY <1>5, <2>1, ScheduledFacts, StartFacts DEF ActStart, SetDoc
    <2>3. pc' # "down" /\ (doc'.status = "deploying" => pc' = "launch")
      BY <2>1 DEF SetDoc
    <2> QED BY <1>2, <2>2, <2>3, EscrowKeeps
  <1>6. CASE ActOther
    <2>1. PICK d \in Scheduled, id \in NewID :
             Write(IF "backup" \in mem.acts THEN OperatorBackup(d, id) ELSE d)
      BY <1>6 DEF ActOther
    <2>2. /\ doc'.lease = doc.lease
          /\ doc.status \notin {"online", "backing_up"} => doc'.status = doc.status
          /\ doc.status \in {"online", "backing_up"} => doc'.status \in {"online", "backing_up"}
      BY <2>1, ScheduledFacts, BackupFacts DEF Write, SetDoc
    <2>3. pc' = "advance" /\ job' = job
      BY <1>6 DEF ActOther
    <2> QED BY <1>2, <1>3, <2>2, <2>3, EscrowKeeps
  <1> QED BY <1>4, <1>5, <1>6 DEF Act

\* Outside deploying, advance keeps the lease, and what it starts is that lease's close.
LEMMA AdvanceKeeps ==
    ASSUME TypeOK, Advance, doc.status # "deploying"
    PROVE  /\ doc'.lease = doc.lease /\ doc'.status # "deploying"
           /\ job' = job \/ job' = [kind |-> "close", dseq |-> doc.lease, state |-> "running"]
  <1> USE DEF docVars
  <1> DEFINE Good == /\ doc'.lease = doc.lease /\ doc'.status # "deploying"
                     /\ job' = job \/ job' = [kind |-> "close", dseq |-> doc.lease, state |-> "running"]
  <1> SUFFICES Good
    BY DEF Good
  <1>1. doc \in Docs
    BY DEF TypeOK
  <1>2. ASSUME NEW d, Write(d), d.lease = doc.lease, d.status # "deploying", UNCHANGED job
        PROVE  Good
    BY <1>2 DEF Write, SetDoc
  <1>3. ASSUME NEW d \in Docs, d.lease = doc.lease, d.status = doc.status, Close(d, job)
        PROVE  Good
    <2>1. BeginClose(d).lease = doc.lease /\ BeginClose(d).status # "deploying"
      BY <1>3, CloseFacts
    <2> QED BY <1>3, <2>1 DEF Close, Write, SetDoc
  <1>4. ASSUME NEW id \in NewID, Write(BeginHalt(doc, id)), UNCHANGED job,
               doc.status \in {"booting", "online", "backing_up"}
        PROVE  Good
    <2>1. BeginHalt(doc, id).lease = doc.lease /\ BeginHalt(doc, id).status = "stopping"
      BY <1>1, <1>4, HaltFacts
    <2> QED BY <1>2, <1>4, <2>1
  <1>5. /\ ClearBackupRequest(doc) \in Docs /\ ClearBackupRequest(doc).lease = doc.lease
        /\ ClearBackupRequest(doc).status = doc.status
        /\ Fail(doc).lease = doc.lease /\ Fail(doc).status = "failed"
    BY <1>1, MutatorsType, FieldFacts
  <1>6. ASSUME NEW d \in Docs, d.lease = doc.lease, d.status = doc.status,
               NEW to \in {"online", "backing_up"}
        PROVE  SetStatus(d, to).lease = doc.lease /\ SetStatus(d, to).status # "deploying"
    <2>1. to \in Statuses
      BY DEF Statuses
    <2> QED BY <1>6, <2>1, FieldFacts
  <1>7. ASSUME UNCHANGED <<doc, job>> PROVE Good
    BY <1>7
  <1> HIDE DEF Good
  <1>8. CASE AdvanceOffline
    BY <1>7, <1>8 DEF AdvanceOffline, Quiet
  <1>9. CASE AdvanceDeploying
    BY <1>9 DEF AdvanceDeploying, Advancing
  <1>10. CASE AdvanceBooting
    BY <1>1, <1>2, <1>4, <1>5, <1>6, <1>10 DEF AdvanceBooting, Advancing
  <1>11. CASE AdvanceOnline
    <2>1. doc.status = "online" /\ UNCHANGED job
      BY <1>11 DEF AdvanceOnline, Advancing
    <2>2. \A id : /\ AskBackup(doc, id).lease = doc.lease
                  /\ AskBackup(doc, id).status \in {"online", "backing_up"}
      BY <1>1, <2>1, BackupFacts
    <2> QED BY <1>1, <1>2, <1>4, <1>6, <1>11, <2>1, <2>2 DEF AdvanceOnline
  <1>12. CASE AdvanceBackingUp
    BY <1>1, <1>2, <1>4, <1>5, <1>6, <1>12 DEF AdvanceBackingUp, Advancing
  <1>13. CASE AdvanceStopping
    BY <1>1, <1>2, <1>3, <1>5, <1>13 DEF AdvanceStopping, Advancing
  <1>14. CASE AdvanceClosing
    BY <1>1, <1>3, <1>7, <1>14 DEF AdvanceClosing, Advancing, Quiet
  <1>15. CASE AdvanceFailed
    BY <1>1, <1>3, <1>7, <1>15 DEF AdvanceFailed, Advancing, Quiet
  <1> QED BY <1>8, <1>9, <1>10, <1>11, <1>12, <1>13, <1>14, <1>15 DEF Advance

\* Advance takes nothing off the record; what it adopts exists.
LEMMA EscrowAdvance ==
    ASSUME TypeOK, JobInv, MoneyInv, EscrowInv, Advance
    PROVE  EscrowInv' /\ Kept
  <1> USE DEF docVars, gitVars, worldVars, bounds
  <1>1. pc = "advance" /\ pc' = "flush" /\ UNCHANGED <<dep, pub, crashes>>
    BY DEF Advance, AdvanceOffline, AdvanceDeploying, AdvanceBooting, AdvanceOnline,
           AdvanceBackingUp, AdvanceStopping, AdvanceClosing, AdvanceFailed, Advancing
  <1>2. CASE doc.status # "deploying"
    <2>1. /\ doc'.lease = doc.lease /\ doc'.status # "deploying"
          /\ job' = job \/ job' = [kind |-> "close", dseq |-> doc.lease, state |-> "running"]
      BY <1>2, AdvanceKeeps
    <2>2. job.dseq \in {doc.lease, NoDSeq} /\ NoDSeq \notin DSeq
      BY <1>2, RecordFacts, NoDSeqAssumption
    <2> QED BY <1>1, <2>1, <2>2, EscrowKeeps
  <1>3. CASE doc.status = "deploying" /\ UNCHANGED <<doc, job>>
    BY <1>1, <1>3, EscrowPublish
  <1>4. CASE doc.status = "deploying" /\ ~UNCHANGED <<doc, job>>
    <2>1. AdvanceDeploying /\ ~Quiet
      BY <1>4 DEF Advance, AdvanceOffline, AdvanceBooting, AdvanceOnline, AdvanceBackingUp,
           AdvanceStopping, AdvanceClosing, AdvanceFailed, Advancing, Quiet
    <2>2. /\ job = NoJob /\ UNCHANGED job
          /\ \E found \in AdoptResults : \E d \in AdoptInto(doc, found) :
               Write(IF d.lease = NoDSeq /\ d.status = "deploying"
                       THEN [SetStatus(d, "offline") EXCEPT !.intent = "stopped"] ELSE d)
      BY <2>1 DEF AdvanceDeploying
    <2>3. PICK found \in AdoptResults :
            \E d \in AdoptInto(doc, found) :
               Write(IF d.lease = NoDSeq /\ d.status = "deploying"
                       THEN [SetStatus(d, "offline") EXCEPT !.intent = "stopped"] ELSE d)
      BY <2>2
    <2>4. PICK d \in AdoptInto(doc, found) :
               Write(IF d.lease = NoDSeq /\ d.status = "deploying"
                       THEN [SetStatus(d, "offline") EXCEPT !.intent = "stopped"] ELSE d)
      BY <2>3
    <2>5. found \subseteq Holding
      BY DEF AdoptResults, Holding
    <2>6. doc \in Docs /\ doc.lease = NoDSeq /\ NoDSeq \notin DSeq
      BY <1>4, RecordFacts, NoDSeqAssumption DEF TypeOK
    <2>7. d.lease \in {NoDSeq} \cup found /\ d \in Docs
      <3>1. CASE found = {}
        BY <2>4, <2>6, <3>1 DEF AdoptInto
      <3>2. CASE found # {}
        <4>1. PICK l \in found : d = Fail([doc EXCEPT !.lease = l])
          BY <2>4, <3>2 DEF AdoptInto
        <4>2. [doc EXCEPT !.lease = l] \in Docs /\ [doc EXCEPT !.lease = l].lease = l
          BY <2>5, <2>6 DEF Docs, Holding
        <4> QED BY <4>1, <4>2, MutatorsType, FieldFacts
      <3> QED BY <3>1, <3>2
    <2>8. [SetStatus(d, "offline") EXCEPT !.intent = "stopped"].lease = d.lease
      BY <2>7 DEF SetStatus, Docs
    <2>9. doc'.lease \in {NoDSeq} \cup Holding
      BY <2>4, <2>5, <2>7, <2>8 DEF Write, SetDoc
    <2>10. \A e \in DSeq : e \in {doc.lease, job.dseq} => e \in {doc'.lease, job'.dseq}
      BY <2>2, <2>6
    <2>11. \A e \in Holding : dep[e] # "none"
      BY DEF Holding
    <2>12. ~(crashes = 0 /\ doc.status = "deploying" /\ job = NoJob)
      BY <1>1 DEF EscrowInv, FirstLife
    <2> QED BY <1>1, <1>4, <2>2, <2>6, <2>9, <2>10, <2>11, <2>12, EscrowKeeps
  <1> QED BY <1>2, <1>3, <1>4

\* What a deploy created goes to the document, whether it failed or not.
LEMMA EscrowDeployResult ==
    ASSUME TypeOK, JobInv, MoneyInv, EscrowInv, OnDeployResult
    PROVE  EscrowInv' /\ Kept
  <1> USE DEF gitVars, worldVars, bounds
  <1> DEFINE d == LeaseRecorded
  <1>1. doc \in Docs /\ job \in Jobs
    BY DEF TypeOK
  <1>2. job.kind = "deploy" /\ doc.status = "deploying" /\ doc.lease = NoDSeq
    BY DEF OnDeployResult, Reported, JobInv, JobMatchesStatus
  <1>3. d \in Docs /\ d.lease = job.dseq /\ d.status = "deploying"
    BY <1>1, <1>2, MutatorsType DEF LeaseRecorded, Docs, Jobs
  <1>4. UNCHANGED <<dep, pub, crashes>> /\ pc' # "down"
    BY DEF OnDeployResult
  <1>5. \/ doc' = BeginClose(d) \/ doc' = Fail(d) \/ doc' = SetStatus(d, "booting")
    BY DEF OnDeployResult, Close, Write, SetDoc
  <1>6. job' = NoJob \/ job' = [kind |-> "close", dseq |-> d.lease, state |-> "running"]
    BY DEF OnDeployResult, Close
  <1> HIDE DEF d
  <1>7. BeginClose(d).lease = d.lease /\ BeginClose(d).status # "deploying"
    BY <1>3, CloseFacts
  <1>8. /\ Fail(d).lease = d.lease /\ Fail(d).status # "deploying"
        /\ SetStatus(d, "booting").lease = d.lease /\ SetStatus(d, "booting").status # "deploying"
    BY <1>3 DEF Fail, SetStatus, CanTransition, Transitions, Docs
  <1>9. doc'.lease = job.dseq /\ doc'.status # "deploying"
    BY <1>3, <1>5, <1>7, <1>8
  <1>10. job'.dseq \in {NoDSeq, job.dseq} /\ ~(job'.kind = "close" /\ job'.state = "ok")
    BY <1>3, <1>6 DEF NoJob
  <1> QED BY <1>2, <1>4, <1>9, <1>10, NoDSeqAssumption, EscrowKeeps

\* The lease leaves the record when its close succeeded, and then it is closed.
LEMMA EscrowCloseOk ==
    ASSUME TypeOK, JobInv, MoneyInv, EscrowInv, OnCloseOk
    PROVE  EscrowInv' /\ Kept
  <1> USE DEF gitVars, worldVars, bounds
  <1> DEFINE d == SetStatus([doc EXCEPT !.lease = NoDSeq], "offline")
  <1>1. doc \in Docs
    BY DEF TypeOK
  <1>2. job.kind = "close" /\ job.state = "ok" /\ doc.status = "closing" /\ doc.lease = job.dseq
    BY DEF OnCloseOk, Reported, JobInv, JobMatchesStatus
  <1>3. job.dseq \in DSeq => dep[job.dseq] = "closed"
    BY <1>2 DEF EscrowInv, CloseDone
  <1>4. /\ UNCHANGED <<dep, pub, crashes>> /\ job' = NoJob /\ pc' # "down"
        /\ \/ /\ doc' = BeginDeploy(d)
              /\ pc' = IF BeginDeploy(d).status = "deploying" THEN "launch" ELSE "flush"
           \/ doc' = [d EXCEPT !.intent = "stopped"]
    BY DEF OnCloseOk, Write, SetDoc
  <1>5. d \in Docs /\ d.lease = NoDSeq /\ d.status = "offline"
    <2>1. /\ [doc EXCEPT !.lease = NoDSeq] \in Docs /\ [doc EXCEPT !.lease = NoDSeq].lease = NoDSeq
          /\ [doc EXCEPT !.lease = NoDSeq].status = "closing"
      BY <1>1, <1>2, MutatorsType DEF Docs
    <2>2. "offline" \in Statuses
      BY DEF Statuses
    <2>3. d \in Docs /\ d.lease = NoDSeq
      BY <2>1, <2>2, MutatorsType, FieldFacts
    <2>4. d.status = "offline"
      BY <2>1 DEF SetStatus, CanTransition, Transitions, Docs
    <2> QED BY <2>3, <2>4
  <1> HIDE DEF d
  <1>6. doc'.lease = NoDSeq /\ (doc'.status = "deploying" => pc' = "launch")
    BY <1>4, <1>5, StartFacts DEF Docs
  <1>7. job'.dseq = NoDSeq /\ job'.kind = "none" /\ NoDSeq \notin DSeq
    BY <1>4, NoDSeqAssumption DEF NoJob
  <1>8. \A e \in DSeq : e \in {doc.lease, job.dseq} => dep[e] = "closed"
    BY <1>2, <1>3
  <1>9. RecordsExist'
    BY <1>4, <1>6, <1>7 DEF EscrowInv, RecordsExist
  <1>10. CloseDone' /\ FirstLife'
    BY <1>4, <1>6, <1>7 DEF CloseDone, FirstLife
  <1>11. DeadKnown'
    <2> SUFFICES ASSUME NEW e \in DSeq, dep[e] = "dead" PROVE crashes > 0
      BY <1>4 DEF DeadKnown
    <2> QED BY <1>8 DEF EscrowInv, DeadKnown
  <1>12. Kept
    BY <1>8, RecordFacts DEF Kept, OnRecord
  <1> QED BY <1>9, <1>10, <1>11, <1>12 DEF EscrowInv

\* A close that failed, or was given up, leaves the lease where it is.
LEMMA EscrowCloseError ==
    ASSUME TypeOK, JobInv, MoneyInv, EscrowInv, OnCloseError
    PROVE  EscrowInv' /\ Kept
  <1> USE DEF gitVars, worldVars, bounds
  <1>1. doc.status = "closing" /\ doc.lease = job.dseq /\ doc \in Docs
    BY DEF OnCloseError, Reported, JobInv, JobMatchesStatus, TypeOK
  <1>2. /\ UNCHANGED <<dep, pub, crashes>> /\ job' = NoJob /\ pc' # "down"
        /\ doc' \in {doc, Fail(doc)}
    BY DEF OnCloseError, Write, SetDoc
  <1>3. doc'.lease = doc.lease /\ doc'.status # "deploying"
    BY <1>1, <1>2, FieldFacts
  <1>4. job'.dseq = NoDSeq /\ job'.kind = "none" /\ NoDSeq \notin DSeq
    BY <1>2, NoDSeqAssumption DEF NoJob
  <1> QED BY <1>1, <1>2, <1>3, <1>4, EscrowKeeps

\* A launch starts a job that has created nothing yet.
LEMMA EscrowLaunch ==
    ASSUME Disciplined, TypeOK, JobInv, MoneyInv, EscrowInv, Launch
    PROVE  EscrowInv' /\ Kept
  <1> USE DEF gitVars, docVars, worldVars, bounds
  <1>1. /\ UNCHANGED <<doc, dep, crashes>> /\ pub' \in {pub, doc} /\ pc' = "flush"
        /\ job' = [kind |-> "deploy", dseq |-> NoDSeq, state |-> "running"] /\ job = NoJob
    BY DEF Launch, FlushNow, JobInv, JobMatchesStatus
  <1>2. job'.dseq = job.dseq /\ job'.kind = "deploy" /\ job' # NoJob
    BY <1>1 DEF NoJob
  <1> QED BY <1>1, <1>2, EscrowKeeps

\* A start writes off what is gone at the provider: closed, or dead.
LEMMA EscrowLoad ==
    ASSUME TypeOK, JobInv, MoneyInv, EscrowInv, Load
    PROVE  EscrowInv' /\ Kept
  <1> USE DEF gitVars, worldVars, bounds
  <1>1. /\ doc \in Docs /\ job = NoJob /\ pc = "down" /\ pc' = "poll" /\ crashes \in Nat
        /\ UNCHANGED <<dep, pub, job, crashes>>
    BY DEF TypeOK, Load, JobInv
  <1>2. PICK gone \in BOOLEAN : /\ doc.lease # NoDSeq => (gone => doc.lease \notin Holding)
                                /\ Write(Reconciled(doc, gone))
    BY DEF Load, Alive
  <1>3. doc' = Reconciled(doc, gone)
    BY <1>2 DEF Write, SetDoc
  <1>4. doc'.lease \in {doc.lease, NoDSeq} /\ doc'.status \in {doc.status, "failed"}
    BY <1>1, <1>3, FieldFacts
  <1>5. job.dseq = NoDSeq /\ job.kind = "none" /\ NoDSeq \notin DSeq
    BY <1>1, NoDSeqAssumption DEF NoJob
  <1>6. RecordsExist' /\ CloseDone'
    BY <1>1, <1>4, <1>5 DEF EscrowInv, RecordsExist, CloseDone
  <1>7. crashes = 0 => doc.status # "deploying" /\ \A d \in DSeq : dep[d] = "none"
    BY <1>1 DEF EscrowInv, FirstLife
  <1>8. DeadKnown' /\ FirstLife'
    <2>1. DeadKnown'
      BY <1>1, <1>7 DEF DeadKnown
    <2>2. FirstLife'
      BY <1>1, <1>4, <1>7 DEF FirstLife
    <2> QED BY <2>1, <2>2
  <1>9. ASSUME NEW d \in OnRecord \ OnRecord' PROVE dep[d] \in {"dead", "closed"}
    <2>1. d \in DSeq /\ d = doc.lease /\ doc'.lease # doc.lease
      BY <1>1, <1>5, <1>9, RecordFacts DEF OnRecord
    <2>2. gone
      BY <1>3, <1>5, <2>1 DEF Reconciled
    <2>3. d \notin Holding
      BY <1>2, <1>5, <2>1, <2>2
    <2>4. dep[d] # "none"
      BY <2>1 DEF EscrowInv, RecordsExist
    <2>5. dep[d] \in DepStates
      BY <2>1 DEF TypeOK
    <2> QED BY <2>1, <2>3, <2>4, <2>5 DEF Holding, DepStates
  <1>10. Kept
    BY <1>1, <1>9 DEF Kept
  <1> QED BY <1>6, <1>8, <1>10 DEF EscrowInv

\* What a crash forgets is dead, closed, or about to be looked for.
LEMMA EscrowCrash ==
    ASSUME TypeOK, JobInv, MoneyInv, EscrowInv, Crash
    PROVE  EscrowInv' /\ Kept
  <1> USE DEF gitVars, worldVars
  <1>1. doc' = pub /\ job' = NoJob /\ pc' = "down" /\ UNCHANGED <<pub, dep>> /\ crashes' = crashes + 1
    BY DEF Crash
  <1>2. crashes' > 0
    BY <1>1 DEF TypeOK
  <1>3. job'.dseq = NoDSeq /\ job'.kind = "none" /\ NoDSeq \notin DSeq
    BY <1>1, NoDSeqAssumption DEF NoJob
  <1>4. EscrowInv'
    BY <1>1, <1>2, <1>3 DEF EscrowInv, RecordsExist, CloseDone, DeadKnown, FirstLife
  <1>5. ASSUME NEW d \in OnRecord \ OnRecord'
        PROVE  dep[d] \in {"dead", "closed"} \/ pub.status = "deploying"
    <2>1. d \in DSeq /\ d \in {doc.lease, job.dseq} /\ d # pub.lease
      BY <1>1, <1>3, <1>5, RecordFacts DEF OnRecord
    <2>2. d \in Holding => pub.status = "deploying"
      BY <2>1 DEF MoneyInv, FoundAgain
    <2>3. dep[d] # "none" /\ dep[d] \in DepStates
      BY <2>1 DEF EscrowInv, RecordsExist, TypeOK
    <2> QED BY <2>1, <2>2, <2>3 DEF Holding, DepStates
  <1>6. Kept
    BY <1>1, <1>5 DEF Kept
  <1> QED BY <1>4, <1>6

\* The job's steps: what is created is on record from then on.
LEMMA EscrowJobStep ==
    ASSUME Disciplined, TypeOK, JobInv, MoneyInv, EscrowInv, JobStep
    PROVE  EscrowInv' /\ Kept
  <1> USE DEF docVars, gitVars, bounds
  <1>1. job \in Jobs /\ dep \in [DSeq -> DepStates]
    BY DEF TypeOK
  <1>2. UNCHANGED <<doc, pub, pc, crashes>>
    BY DEF JobStep, JobCreates, JobCreateLost, JobLeases, JobDeployed, JobDeployFails,
           JobCloses, jobOnly
  <1>3. job.kind # "none" /\ job'.kind = job.kind
    BY <1>1 DEF JobStep, JobCreates, JobCreateLost, JobLeases, JobDeployed, JobDeployFails,
           JobCloses, Deploying, Jobs
  <1>4. pc # "down" /\ job' # NoJob
    BY <1>3 DEF JobInv, NoJob
  <1>5. FirstLife'
    BY <1>2, <1>4 DEF FirstLife
  <1>6. CASE \E d \in DSeq : JobCreates(d)
    <2>1. PICK d \in DSeq : JobCreates(d)
      BY <1>6
    <2>2. job.dseq = NoDSeq /\ job'.dseq = d /\ job'.kind = "deploy" /\ NoDSeq \notin DSeq
      BY <1>1, <2>1, NoDSeqAssumption DEF JobCreates, Jobs
    <2>3. dep' = [dep EXCEPT ![d] = "created"]
      BY <2>1 DEF JobCreates
    <2>4. RecordsExist' /\ CloseDone' /\ DeadKnown'
      BY <1>1, <1>2, <2>2, <2>3 DEF EscrowInv, RecordsExist, CloseDone, DeadKnown
    <2>5. Kept
      BY <1>2, <2>2 DEF Kept, OnRecord
    <2> QED BY <1>5, <2>4, <2>5 DEF EscrowInv
  <1>7. CASE \E d \in DSeq : JobCreateLost(d)
    BY <1>7 DEF JobCreateLost, Disciplined
  <1>8. CASE JobLeases \/ JobDeployed \/ JobDeployFails
    <2>1. job'.dseq = job.dseq /\ job.kind = "deploy"
      BY <1>1, <1>8 DEF JobLeases, JobDeployed, JobDeployFails, Deploying, Jobs
    <2>2. dep' = dep \/ (job.dseq # NoDSeq /\ dep' = [dep EXCEPT ![job.dseq] = "leased"])
      BY <1>8 DEF JobLeases, JobDeployed, JobDeployFails
    <2>3. RecordsExist' /\ CloseDone' /\ DeadKnown'
      BY <1>1, <1>2, <1>3, <2>1, <2>2 DEF EscrowInv, RecordsExist, CloseDone, DeadKnown
    <2>4. Kept
      BY <1>2, <2>1 DEF Kept, OnRecord
    <2> QED BY <1>5, <2>3, <2>4 DEF EscrowInv
  <1>9. CASE JobCloses
    <2>1. job'.dseq = job.dseq /\ job.kind = "close" /\ job.state = "running"
      BY <1>1, <1>9 DEF JobCloses, Jobs
    <2>2. \/ dep' = [dep EXCEPT ![job.dseq] = "closed"]
          \/ dep' = dep /\ job'.state = "err"
      BY <1>1, <1>9 DEF JobCloses, Jobs
    <2>3. RecordsExist' /\ CloseDone' /\ DeadKnown'
      BY <1>1, <1>2, <2>1, <2>2 DEF EscrowInv, RecordsExist, CloseDone, DeadKnown
    <2>4. Kept
      BY <1>2, <2>1 DEF Kept, OnRecord
    <2> QED BY <1>5, <2>3, <2>4 DEF EscrowInv
  <1> QED BY <1>6, <1>7, <1>8, <1>9 DEF JobStep

\* A lease that dies was known, unless the process had died before.
LEMMA EscrowKills ==
    ASSUME TypeOK, JobInv, MoneyInv, EscrowInv, NEW k \in DSeq, ProviderKills(k)
    PROVE  EscrowInv' /\ Kept
  <1> USE DEF docVars, gitVars, bounds
  <1>1. /\ UNCHANGED <<doc, pub, job, pc, crashes>> /\ dep[k] = "leased"
        /\ dep' = [dep EXCEPT ![k] = "dead"] /\ dep \in [DSeq -> DepStates] /\ crashes \in Nat
    BY DEF ProviderKills, TypeOK
  <1>2. k \in {doc.lease, job.dseq} \/ crashes > 0
    <2> SUFFICES ASSUME k \notin {doc.lease, job.dseq}, crashes = 0 PROVE FALSE
      BY <1>1
    <2>1. k \in Holding
      BY <1>1 DEF Holding
    <2>2. doc.status = "deploying" /\ job = NoJob
      BY <2>1 DEF MoneyInv, HeldKnown
    <2>3. pc = "launch"
      BY <2>2 DEF EscrowInv, FirstLife
    <2> QED BY <2>1, <2>3 DEF MoneyInv, LaunchClear
  <1>3. RecordsExist' /\ DeadKnown'
    BY <1>1, <1>2 DEF EscrowInv, RecordsExist, DeadKnown
  <1>4. CloseDone'
    BY <1>1 DEF EscrowInv, CloseDone
  <1>5. FirstLife' /\ Kept
    BY <1>1 DEF EscrowInv, FirstLife, Kept, OnRecord
  <1> QED BY <1>3, <1>4, <1>5 DEF EscrowInv

\* At first there is nothing.
LEMMA EscrowInit == Init => EscrowInv
  <1> SUFFICES ASSUME Init PROVE EscrowInv
    OBVIOUS
  <1> QED BY NoDSeqAssumption
          DEF Init, EscrowInv, RecordsExist, CloseDone, DeadKnown, FirstLife, NewDoc, NoJob

\* Every step of a disciplined instance keeps the invariant and the record.
LEMMA EscrowStep ==
    ASSUME Disciplined
    PROVE  TypeOK /\ JobInv /\ MoneyInv /\ EscrowInv /\ [Next]_vars => EscrowInv' /\ Kept
  <1> SUFFICES ASSUME TypeOK, JobInv, MoneyInv, EscrowInv, [Next]_vars PROVE EscrowInv' /\ Kept
    OBVIOUS
  <1> USE DEF docVars, gitVars, worldVars, bounds
  <1>1. CASE Load
    BY <1>1, EscrowLoad
  <1>2. CASE LoadCorrupt
    BY <1>2 DEF LoadCorrupt, Disciplined
  <1>3. CASE Poll \/ Tick \/ Flush \/ FlushTimer
    <2>1. UNCHANGED <<doc, job, dep, crashes>> /\ pub' \in {pub, doc} /\ pc # "launch" /\ pc' # "down"
      BY <1>3 DEF Poll, PollFails, PollTakesNothing, PollTakesTriggers, Polling, Tick, Flush, FlushTimer
    <2> QED BY <2>1, EscrowPublish
  <1>4. CASE Act
    BY <1>4, EscrowAct
  <1>5. CASE Launch
    BY <1>5, EscrowLaunch
  <1>6. CASE Advance
    BY <1>6, EscrowAdvance
  <1>7. CASE OnDeployResult \/ OnCloseOk \/ OnCloseError
    BY <1>7, EscrowDeployResult, EscrowCloseOk, EscrowCloseError
  <1>8. CASE JobStep
    BY <1>8, EscrowJobStep
  <1>9. CASE AgentStep \/ TimePasses \/ (\E t \in Triggers : Push(t)) \/ UNCHANGED vars
    <2>1. UNCHANGED <<dep, crashes, doc, pub, job, pc>>
      BY <1>9 DEF AgentStep, AgentReads, AgentMoves, AgentBegins, AgentAnswers, AgentPublishes,
           AgentBoots, agentOnly, TimePasses, Push, vars
    <2> QED BY <2>1, EscrowQuiet
  <1>10. CASE \E d \in DSeq : ProviderKills(d)
    BY <1>10, EscrowKills
  <1>11. CASE Crash
    BY <1>11, EscrowCrash
  <1> QED BY <1>1, <1>2, <1>3, <1>4, <1>5, <1>6, <1>7, <1>8, <1>9, <1>10, <1>11 DEF Next

\* Never one that is forgotten: whatever holds escrow, the deployments whose lease the
\* provider closed included, is on record, the job's, or about to be looked for; only a
\* process that died may have left such a closed lease's deposit behind.
THEOREM NothingIsForgotten ==
    ASSUME Disciplined
    PROVE  Spec => []NothingForgotten
  <1>1. Init => TypeOK /\ JobInv /\ MoneyInv /\ EscrowInv
    BY TypeInit, JobInvInit, MoneyInit, EscrowInit
  <1>2. TypeOK /\ JobInv /\ MoneyInv /\ EscrowInv /\ [Next]_vars
          => TypeOK' /\ JobInv' /\ MoneyInv' /\ EscrowInv'
    BY TypeStep, JobInvStep, MoneyStep, EscrowStep
  <1>3. MoneyInv /\ EscrowInv => NothingForgotten
    BY DEF MoneyInv, HeldKnown, EscrowInv, DeadKnown, NothingForgotten, Escrowed, Holding
  <1> QED BY <1>1, <1>2, <1>3, PTL DEF Spec

\* What is on record leaves it closed, or dead at a start or a death of the process, or
\* to be looked for.
THEOREM LeaseIsKeptUntilClosed ==
    ASSUME Disciplined
    PROVE  Spec => LeaseKeptUntilClosed
  <1>1. Init => TypeOK /\ JobInv /\ MoneyInv /\ EscrowInv
    BY TypeInit, JobInvInit, MoneyInit, EscrowInit
  <1>2. TypeOK /\ JobInv /\ MoneyInv /\ EscrowInv /\ [Next]_vars
          => TypeOK' /\ JobInv' /\ MoneyInv' /\ EscrowInv' /\ [Kept]_vars
    BY TypeStep, JobInvStep, MoneyStep, EscrowStep
  <1> QED BY <1>1, <1>2, PTL DEF Spec, LeaseKeptUntilClosed, Kept

-----------------------------------------------------------------------------
(* The loop implements the ledger.                                         *)

\* Credit that is not withdrawn below zero stays between nothing and what it was.
LEMMA SumBelow ==
    \A a, b, c, e \in Nat : c <= a /\ e <= b => c + e \in 0 .. (a + b)
  OBVIOUS

\* A step that holds no more and keeps or withdraws what is authorised.
LEMMA LedgerForgo ==
    ASSUME budget \in Nat, UNCHANGED dep, budget' \in {0, budget}, InHand' \in {0, InHand}
    PROVE  budget' \in Nat /\ Ledger!Forgo
  <1>1. InHand \in {0, 1}
    BY DEF InHand
  <1>2. Holding' = Holding
    BY DEF Holding
  <1>3. InHand' \in {0, 1} /\ InHand' <= InHand /\ budget' <= budget /\ budget' \in Nat
    <2>1. InHand' \in {0, 1} /\ InHand' <= InHand
      BY <1>1
    <2>2. budget' <= budget /\ budget' \in Nat
      OBVIOUS
    <2> QED BY <2>1, <2>2
  <1>4. budget' + InHand' \in 0 .. (budget + InHand)
    <2>1. InHand \in Nat /\ InHand' \in Nat
      BY <1>1, <1>3
    <2> QED BY <1>3, <2>1, SumBelow
  <1> QED BY <1>2, <1>3, <1>4 DEF Ledger!Forgo

\* A step that holds no more and keeps what is authorised.
LEMMA LedgerRelease ==
    ASSUME budget \in Nat, Holding' \subseteq Holding, UNCHANGED budget, InHand' = InHand
    PROVE  budget' \in Nat /\ Ledger!Release
  BY DEF Ledger!Release

\* The initial state is the ledger's.
LEMMA LedgerInit == Init => budget \in Nat /\ Ledger!Init
  BY DEF Init, Ledger!Init, Holding, InHand, NoJob

\* Whatever a handler writes, it authorises nothing.
LEMMA WriteForgoes ==
    ASSUME NEW d, Write(d)
    PROVE  budget' \in {0, budget}
  BY DEF Write

\* Every step is a step of the ledger or leaves it alone, one action at a time.
LEMMA LedgerStep ==
    ASSUME Disciplined, TypeOK, JobInv, MoneyInv, CreditInv, budget \in Nat, [Next]_vars
    PROVE  budget' \in Nat /\ [Ledger!Next]_(Ledger!ledger)
  <1> USE DEF docVars, gitVars, worldVars, bounds
  <1> DEFINE Good == budget' \in Nat /\ [Ledger!Next]_(Ledger!ledger)
  <1>1. ASSUME UNCHANGED dep, budget' \in {0, budget}, InHand' \in {0, InHand} PROVE Good
    BY <1>1, LedgerForgo DEF Ledger!Next
  <1>2. ASSUME Holding' \subseteq Holding, UNCHANGED budget, InHand' = InHand PROVE Good
    BY <1>2, LedgerRelease DEF Ledger!Next
  <1>3. ASSUME UNCHANGED <<dep, budget, job>> PROVE Good
    BY <1>1, <1>3 DEF InHand
  <1>4. job \in Jobs /\ dep \in [DSeq -> DepStates]
    BY DEF TypeOK
  <1> SUFFICES Good
    BY DEF Good
  <1> HIDE DEF Good
  <1>5. CASE Load
    <2>1. UNCHANGED <<dep, job>> /\ budget' \in {0, budget}
      BY <1>5, WriteForgoes DEF Load
    <2> QED BY <2>1, <1>1 DEF InHand
  <1>6. CASE LoadCorrupt
    BY <1>6 DEF LoadCorrupt, Disciplined
  <1>7. CASE Poll
    <2>1. UNCHANGED <<dep, budget, job>>
      BY <1>7 DEF Poll, PollFails, PollTakesNothing, PollTakesTriggers
    <2> QED BY <2>1, <1>3
  <1>8. CASE ActHalt
    <2>1. UNCHANGED dep /\ budget' \in {0, budget}
      BY <1>8, WriteForgoes DEF ActHalt
    <2>2. job' \in {job, [job EXCEPT !.state = "cancelled"]}
      BY <1>8 DEF ActHalt
    <2>3. InHand' \in {0, InHand}
      BY <1>4, <2>2 DEF InHand, Jobs
    <2> QED BY <2>1, <2>3, <1>1
  <1>9. CASE ActStart
    <2>1. /\ UNCHANGED <<dep, job>> /\ job = NoJob /\ budget' = MaxDeployAttempts
      BY <1>9 DEF ActStart, StartRefused
    <2>2. Holding' = Holding /\ InHand' = 0
      BY <2>1 DEF Holding, InHand, NoJob
    <2> QED BY <2>1, <2>2, AttemptsAssumption DEF Good, Ledger!Next, Ledger!Authorise
  <1>10. CASE ActOther
    <2>1. UNCHANGED <<dep, job>> /\ budget' \in {0, budget}
      BY <1>10, WriteForgoes DEF ActOther
    <2> QED BY <2>1, <1>1 DEF InHand
  <1>11. CASE Launch
    <2>1. /\ UNCHANGED dep /\ job = NoJob /\ budget' = budget - 1
          /\ job' = [kind |-> "deploy", dseq |-> NoDSeq, state |-> "running"]
      BY <1>11 DEF Launch, JobInv, JobMatchesStatus
    <2>2. budget > 0
      BY <1>11, AttemptsAssumption DEF CreditInv, Launch, TypeOK, Memories
    <2>3. InHand = 0 /\ InHand' = 1 /\ Holding' = Holding
      BY <2>1 DEF InHand, NoJob, Holding
    <2>4. budget' \in Nat /\ budget' + InHand' = budget + InHand /\ budget + InHand \in Nat
      BY <2>1, <2>2, <2>3
    <2>5. budget' + InHand' \in 0 .. (budget + InHand)
      BY <2>4
    <2>6. Ledger!Forgo
      BY <2>3, <2>5 DEF Ledger!Forgo
    <2> QED BY <2>4, <2>6 DEF Good, Ledger!Next
  <1>12. CASE Advance
    <2>1. UNCHANGED dep
      BY <1>12 DEF Advance
    <2>2. budget' \in {0, budget}
      BY <1>12 DEF Advance, AdvanceOffline, AdvanceDeploying, AdvanceBooting, AdvanceOnline,
           AdvanceBackingUp, AdvanceStopping, AdvanceClosing, AdvanceFailed, Quiet, Close, Write
    <2>3. job' = job \/ job'.kind = "close"
      BY <1>12 DEF Advance, AdvanceOffline, AdvanceDeploying, AdvanceBooting, AdvanceOnline,
           AdvanceBackingUp, AdvanceStopping, AdvanceClosing, AdvanceFailed, Quiet, Close
    <2> QED BY <2>1, <2>2, <2>3, <1>1 DEF InHand
  <1>13. CASE OnDeployResult
    <2>1. UNCHANGED dep /\ budget' \in {0, budget}
      BY <1>13 DEF OnDeployResult, Close, Write
    <2>2. job' = NoJob \/ job'.kind = "close"
      BY <1>13 DEF OnDeployResult, Close
    <2> QED BY <2>1, <2>2, <1>1 DEF InHand, NoJob
  <1>14. CASE OnCloseOk \/ OnCloseError
    <2>1. UNCHANGED dep /\ budget' \in {0, budget} /\ job' = NoJob
      BY <1>14 DEF OnCloseOk, OnCloseError, Write
    <2> QED BY <2>1, <1>1 DEF InHand, NoJob
  <1>15. CASE Tick \/ Flush \/ FlushTimer
    <2>1. UNCHANGED <<dep, budget, job>>
      BY <1>15 DEF Tick, Flush, FlushTimer
    <2> QED BY <2>1, <1>3
  <1>16. CASE \E d \in DSeq : JobCreates(d)
    <2>1. PICK d \in DSeq : JobCreates(d)
      BY <1>16
    <2>2. Holding = {}
      BY <2>1, HeldWhere, NoDSeqAssumption DEF JobCreates, Holding
    <2>3. Holding' = {d} /\ UNCHANGED budget
      BY <1>4, <2>1, <2>2 DEF JobCreates, Holding, jobOnly
    <2>4. InHand = 1
      BY <2>1 DEF JobCreates, InHand
    <2>5. job'.dseq = d
      BY <1>4, <2>1 DEF JobCreates, Jobs
    <2>6. InHand' = 0
      BY <2>5, NoDSeqAssumption DEF InHand
    <2> QED BY <2>2, <2>3, <2>4, <2>6 DEF Good, Ledger!Next, Ledger!Acquire
  <1>17. CASE \E d \in DSeq : JobCreateLost(d)
    BY <1>17 DEF JobCreateLost, Disciplined
  <1>18. CASE JobLeases
    <2>1. UNCHANGED <<budget, job>> /\ Holding' \subseteq Holding
      BY <1>4, <1>18 DEF JobLeases, Holding, jobOnly
    <2> QED BY <2>1, <1>2 DEF InHand
  <1>19. CASE JobDeployed \/ JobDeployFails
    <2>1. UNCHANGED <<dep, budget>> /\ \E s \in {"ok", "err"} : job' = [job EXCEPT !.state = s]
      BY <1>19 DEF JobDeployed, JobDeployFails, jobOnly
    <2>2. InHand' = 0
      BY <1>4, <2>1 DEF InHand, Jobs
    <2> QED BY <2>1, <2>2, <1>1
  <1>20. CASE JobCloses
    <2>1. UNCHANGED budget /\ Holding' \subseteq Holding
      BY <1>4, <1>20 DEF JobCloses, Holding, jobOnly
    <2>2. job.kind = "close" /\ \E s \in {"ok", "err"} : job' = [job EXCEPT !.state = s]
      BY <1>20 DEF JobCloses
    <2>3. InHand' = InHand
      BY <1>4, <2>2 DEF InHand, Jobs
    <2> QED BY <2>1, <2>3, <1>2
  <1>21. CASE AgentStep \/ TimePasses \/ (\E t \in Triggers : Push(t)) \/ UNCHANGED vars
    <2>1. UNCHANGED <<dep, budget, job>>
      BY <1>21 DEF AgentStep, AgentReads, AgentMoves, AgentBegins, AgentAnswers, AgentPublishes,
           AgentBoots, agentOnly, TimePasses, Push, vars
    <2> QED BY <2>1, <1>3
  <1>22. CASE \E d \in DSeq : ProviderKills(d)
    <2>1. UNCHANGED <<budget, job>> /\ Holding' \subseteq Holding
      BY <1>4, <1>22 DEF ProviderKills, Holding
    <2> QED BY <2>1, <1>2 DEF InHand
  <1>23. CASE Crash
    <2>1. UNCHANGED <<dep, budget>> /\ job' = NoJob
      BY <1>23 DEF Crash
    <2> QED BY <2>1, <1>1 DEF InHand, NoJob
  <1> QED
    BY <1>5, <1>6, <1>7, <1>8, <1>9, <1>10, <1>11, <1>12, <1>13, <1>14, <1>15, <1>16, <1>17,
       <1>18, <1>19, <1>20, <1>21, <1>22, <1>23 DEF Next, Act, JobStep

\* The loop, with its crashes, retries, refusals and stale documents, implements a
\* ledger in which a deployment is only ever acquired with an empty hand and a
\* launch that an operator's ask paid for.
THEOREM LedgerIsKept ==
    ASSUME Disciplined
    PROVE  Spec => LedgerKept
  <1>1. Init => TypeOK /\ JobInv /\ MoneyInv /\ CreditInv /\ budget \in Nat /\ Ledger!Init
    BY TypeInit, JobInvInit, MoneyInit, CreditInit, LedgerInit
  <1>2. TypeOK /\ JobInv /\ MoneyInv /\ CreditInv /\ budget \in Nat /\ [Next]_vars
          => /\ TypeOK' /\ JobInv' /\ MoneyInv' /\ CreditInv' /\ (budget \in Nat)'
             /\ [Ledger!Next]_(Ledger!ledger)
    BY TypeStep, JobInvStep, MoneyStep, CreditStep, LedgerStep
  <1> QED BY <1>1, <1>2, PTL DEF Spec, LedgerKept, Ledger!Spec
-----------------------------------------------------------------------------
(* Reports.                                                                *)

\* Nobody speaks for another deployment.
OwnName ==
    /\ report.dseq \in {NoDSeq, report.by}
    /\ mem.seen.dseq \in {NoDSeq, mem.seen.by}
    /\ \A d \in DSeq : agent[d].as \in {NoDSeq, d}

\* A document of a running server has its lease, and only such a document has a request.
Serves(d) ==
    /\ d.status \in {"booting", "online", "backing_up", "stopping"} => d.lease # NoDSeq
    /\ d.request # NoReq => d.status \in {"online", "backing_up", "stopping"}

ServersLeased ==
    /\ Serves(doc) /\ Serves(pub)
    /\ job.kind = "deploy" /\ job.state = "ok" => job.dseq # NoDSeq

\* The deployments a request is, or was, about.
Concerns(r, d) ==
    \/ doc.request = r /\ doc.lease = d
    \/ pub.request = r /\ pub.lease = d
    \/ agent[d].taking = r
    \/ answeredBy[r] = d

OneOwner == \A r \in ReqID, d, e \in DSeq : Concerns(r, d) /\ Concerns(r, e) => d = e

\* An identity nobody has drawn yet concerns nobody.
Drawn == \A r \in ReqID, d \in DSeq : Concerns(r, d) => r \in used

\* No answer is made up, however often it is copied from report to report.
Taken(r) == r # NoReq => answeredBy[r] # NoDSeq

AnswersTaken ==
    Taken(report.answered) /\ Taken(mem.seen.answered) /\ \A d \in DSeq : Taken(agent[d].answered)

ReportsInv == OwnName /\ ServersLeased /\ OneOwner /\ Drawn /\ AnswersTaken

-----------------------------------------------------------------------------
(* The operators.                                                          *)

\* Which request a document has after each operation on it.
LEMMA RequestFacts ==
    ASSUME NEW d \in Docs, NEW id
    PROVE  /\ \A to \in Statuses : SetStatus(d, to).request = d.request
           /\ Fail(d).request = d.request
           /\ ClearBackupRequest(d).request = NoReq
           /\ Stopped(d).request = d.request
           /\ AskBackup(d, id).request = IF d.request = NoReq THEN id ELSE d.request
           /\ OperatorBackup(d, id).request \in {d.request, AskBackup(d, id).request}
           /\ BeginDeploy(d).request = d.request
           /\ BeginClose(d).request = NoReq
  <1>1. /\ \A to \in Statuses : SetStatus(d, to).request = d.request
        /\ Fail(d).request = d.request
        /\ ClearBackupRequest(d).request = NoReq
        /\ Stopped(d).request = d.request
    BY DEF SetStatus, Fail, ClearBackupRequest, Stopped, Docs
  <1>2. AskBackup(d, id).request = IF d.request = NoReq THEN id ELSE d.request
    <2> DEFINE r == RequestBackup(d, id)
    <2>1. r.request = IF d.request = NoReq THEN id ELSE d.request
      BY DEF RequestBackup, Docs
    <2>2. SetStatus(r, "backing_up").request = r.request
      BY DEF SetStatus, RequestBackup, Docs
    <2>3. AskBackup(d, id) \in {r, SetStatus(r, "backing_up")}
      BY DEF AskBackup
    <2> QED BY <2>1, <2>2, <2>3
  <1>3. BeginDeploy(d).request = d.request
    BY DEF BeginDeploy, SetStatus, Docs
  <1>4. BeginClose(d).request = NoReq
    BY DEF BeginClose, SetStatus, ClearBackupRequest, Docs
  <1> QED BY <1>1, <1>2, <1>3, <1>4 DEF OperatorBackup

\* A halt keeps the outstanding request, or asks for one when there is none.
LEMMA HaltRequest ==
    ASSUME NEW d \in Docs, NEW id \in NewID
    PROVE  BeginHalt(d, id).request \in {d.request, IF d.request = NoReq THEN id ELSE d.request}
  <1> DEFINE s == SetStatus(Stopped(d), "stopping")
  <1>1. Stopped(d) \in Docs /\ Stopped(d).request = d.request
    BY MutatorsType, RequestFacts
  <1>2. s \in Docs /\ s.request = d.request
    BY <1>1, MutatorsType, RequestFacts DEF Statuses
  <1> HIDE DEF s
  <1>3. BeginHalt(d, id) \in {Stopped(d), s, AskBackup(s, id)}
    BY DEF BeginHalt, s
  <1> QED BY <1>1, <1>2, <1>3, RequestFacts

\* A new identity has not been drawn before.
LEMMA NewIDFacts == \A id \in NewID : id = NoReq \/ (id \in ReqID /\ id \notin used)
  BY DEF NewID

\* What an agent reads while its container runs is its own lease, or none.
LEMMA PublishedLease ==
    ASSUME MoneyInv, NEW d \in DSeq, dep[d] = "leased"
    PROVE  pub.lease \in {NoDSeq, d}
  <1>1. d \in Holding
    BY DEF Holding
  <1> QED BY <1>1 DEF MoneyInv, FoundAgain, DeployingUnleased

-----------------------------------------------------------------------------
(* How a step keeps the invariant.                                         *)

\* What a handler may make of the loop's document.
Follows(e) ==
    /\ Serves(e)
    /\ \/ e.request = NoReq
       \/ e.request = doc.request /\ e.lease = doc.lease
       \/ e.request \notin used

JobServes == job'.kind = "deploy" /\ job'.state = "ok" => job'.dseq # NoDSeq

\* A handler that writes such a document.
LEMMA ReportsWrite ==
    ASSUME ReportsInv, NEW e, SetDoc(e), Follows(e), JobServes,
           UNCHANGED <<pub, report, agent, answeredBy>>, mem'.seen \in {mem.seen, report}
    PROVE  ReportsInv'
  <1>1. doc' = e /\ used' = used \cup ({e.request} \ {NoReq})
    BY DEF SetDoc
  <1>2. OwnName' /\ AnswersTaken'
    <2>1. CASE mem'.seen = mem.seen
      BY <2>1 DEF ReportsInv, OwnName, AnswersTaken, Taken
    <2>2. CASE mem'.seen = report
      BY <2>2 DEF ReportsInv, OwnName, AnswersTaken, Taken
    <2> QED BY <2>1, <2>2
  <1>3. ServersLeased'
    BY <1>1 DEF ReportsInv, ServersLeased, Serves, Follows, JobServes
  <1>4. ASSUME NEW r \in ReqID, NEW d \in DSeq, Concerns(r, d)'
        PROVE  \/ Concerns(r, d)
               \/ r = e.request /\ d = e.lease /\ r \notin used
    <2>1. r # NoReq
      BY NoReqAssumption
    <2> QED BY <1>1, <1>4, <2>1 DEF Concerns, Follows
  <1>5. Drawn'
    <2> SUFFICES ASSUME NEW r \in ReqID, NEW d \in DSeq, Concerns(r, d)' PROVE r \in used'
      BY DEF Drawn
    <2> QED BY <1>1, <1>4, NoReqAssumption DEF ReportsInv, Drawn
  <1>6. OneOwner'
    <2> SUFFICES ASSUME NEW r \in ReqID, NEW d \in DSeq, NEW f \in DSeq,
                        Concerns(r, d)', Concerns(r, f)'
                 PROVE  d = f
      BY DEF OneOwner
    <2>1. CASE r \in used
      BY <1>4, <2>1 DEF ReportsInv, OneOwner
    <2>2. CASE r \notin used
      BY <1>4, <2>2 DEF ReportsInv, Drawn
    <2> QED BY <2>1, <2>2
  <1> QED BY <1>2, <1>3, <1>5, <1>6 DEF ReportsInv

\* A step by which no request concerns anybody new.
LEMMA ReportsKept ==
    ASSUME ReportsInv, UNCHANGED used, OwnName', ServersLeased', AnswersTaken',
           \A r \in ReqID, d \in DSeq : Concerns(r, d)' => Concerns(r, d)
    PROVE  ReportsInv'
  BY DEF ReportsInv, OneOwner, Drawn

\* A step that leaves the documents, the agents and their answers alone.
LEMMA ReportsQuiet ==
    ASSUME ReportsInv, JobServes,
           UNCHANGED <<doc, used, pub, report, agent, answeredBy>>, mem'.seen \in {mem.seen, report}
    PROVE  ReportsInv'
  <1>1. OwnName' /\ AnswersTaken'
    <2>1. CASE mem'.seen = mem.seen
      BY <2>1 DEF ReportsInv, OwnName, AnswersTaken, Taken
    <2>2. CASE mem'.seen = report
      BY <2>2 DEF ReportsInv, OwnName, AnswersTaken, Taken
    <2> QED BY <2>1, <2>2
  <1>2. ServersLeased'
    BY DEF ReportsInv, ServersLeased, Serves, JobServes
  <1>3. \A r \in ReqID, d \in DSeq : Concerns(r, d)' => Concerns(r, d)
    BY DEF Concerns
  <1> QED BY <1>1, <1>2, <1>3, ReportsKept
\* A step after which some agents are new ones and nothing else has changed.
LEMMA ReportsAgents ==
    ASSUME ReportsInv, JobServes, UNCHANGED <<doc, used, pub, report, mem, answeredBy>>,
           \A d \in DSeq : agent'[d] \in {agent[d], NewAgent}
    PROVE  ReportsInv'
  <1>1. OwnName' /\ AnswersTaken'
    BY DEF ReportsInv, OwnName, AnswersTaken, Taken, NewAgent
  <1>2. ServersLeased'
    BY DEF ReportsInv, ServersLeased, Serves, JobServes
  <1>3. \A r \in ReqID, d \in DSeq : Concerns(r, d)' => Concerns(r, d)
    BY NoReqAssumption DEF Concerns, NewAgent
  <1> QED BY <1>1, <1>2, <1>3, ReportsKept

-----------------------------------------------------------------------------
(* The handlers, one by one.                                               *)

\* A halt follows the document it is asked of.
LEMMA HaltFollows ==
    ASSUME TypeOK, ReportsInv, NEW d \in Docs, NEW id \in NewID,
           d.status = doc.status, d.request = doc.request, d.lease = doc.lease
    PROVE  Follows(BeginHalt(d, id))
  <1> DEFINE h == BeginHalt(d, id)
  <1>1. /\ h.lease = doc.lease
        /\ doc.status \in {"deploying", "closing", "offline", "failed", "stopping"} => h.status = doc.status
        /\ doc.status \in {"booting", "online", "backing_up"} => h.status = "stopping"
    BY HaltFacts
  <1>2. h.request \in {doc.request, IF doc.request = NoReq THEN id ELSE doc.request}
    BY HaltRequest
  <1>3. id = NoReq \/ id \notin used
    BY NewIDFacts
  <1>4. doc.status \in {"deploying", "closing", "offline", "failed", "stopping"}
          => h.request = doc.request
    <2>1. Stopped(d).request = d.request
      BY RequestFacts
    <2> QED BY <2>1 DEF BeginHalt
  <1>5. doc.status \in Statuses
    BY DEF TypeOK, Docs
  <1> HIDE DEF h
  <1>6. Serves(doc)
    BY DEF ReportsInv, ServersLeased
  <1>7. Serves(h)
    <2>1. CASE doc.status \in {"deploying", "closing", "offline", "failed", "stopping"}
      BY <1>1, <1>4, <1>6, <2>1 DEF Serves
    <2>2. CASE doc.status \in {"booting", "online", "backing_up"}
      BY <1>1, <1>6, <2>2 DEF Serves
    <2> QED BY <1>5, <2>1, <2>2 DEF Statuses
  <1>8. h.request = NoReq \/ h.request = doc.request \/ h.request \notin used
    BY <1>2, <1>3
  <1> QED BY <1>1, <1>7, <1>8 DEF Follows, h

\* So does an ask for a backup of a server that is online or being backed up.
LEMMA AskFollows ==
    ASSUME TypeOK, ReportsInv, NEW d \in Docs, NEW id \in NewID \cup {NoReq},
           d.status = doc.status, d.request = doc.request, d.lease = doc.lease,
           doc.status \in {"online", "backing_up"}
    PROVE  Follows(AskBackup(d, id))
  <1>1. /\ AskBackup(d, id).lease = doc.lease
        /\ AskBackup(d, id).status \in {"online", "backing_up"}
    BY BackupFacts
  <1>2. AskBackup(d, id).request = IF doc.request = NoReq THEN id ELSE doc.request
    BY RequestFacts
  <1>3. id = NoReq \/ id \notin used
    BY NewIDFacts
  <1>4. doc.lease # NoDSeq
    BY DEF ReportsInv, ServersLeased, Serves
  <1> QED BY <1>1, <1>2, <1>3, <1>4 DEF Follows, Serves

\* And a document without a request, unless it loses the lease of a server.
LEMMA ClearFollows ==
    ASSUME NEW e, e.request = NoReq,
           e.status \in {"booting", "online", "backing_up", "stopping"} => e.lease # NoDSeq
    PROVE  Follows(e)
  BY DEF Follows, Serves

\* A close follows whatever document it is decided of.
LEMMA CloseFollows ==
    ASSUME NEW d \in Docs,
           d.status \in {"booting", "online", "backing_up", "stopping"} => d.lease # NoDSeq
    PROVE  Follows(BeginClose(d))
  <1>1. /\ BeginClose(d).lease = d.lease /\ BeginClose(d).request = NoReq
        /\ BeginClose(d).status \in {"offline", "closing", d.status}
    BY CloseFacts, RequestFacts
  <1> QED BY <1>1, ClearFollows

\* The document as it is.
LEMMA SameFollows ==
    ASSUME ReportsInv, NEW e, e.status = doc.status, e.request = doc.request, e.lease = doc.lease
    PROVE  Follows(e)
  BY DEF Follows, Serves, ReportsInv, ServersLeased

\* No handler but the job's own result makes a job that has deployed.
LEMMA JobKeepsServing ==
    ASSUME ReportsInv, \/ job' = job
                       \/ job'.kind # "deploy"
                       \/ job'.state # "ok"
    PROVE  JobServes
  BY DEF ReportsInv, ServersLeased, JobServes

\* A lease that is gone takes its request along.
LEMMA ReportsLoad ==
    ASSUME TypeOK, ReportsInv, Load
    PROVE  ReportsInv'
  <1> USE DEF gitVars, worldVars
  <1>1. doc \in Docs /\ mem \in Memories
    BY DEF TypeOK
  <1>2. PICK gone \in BOOLEAN : Write(Reconciled(doc, gone))
    BY DEF Load
  <1>3. UNCHANGED <<pub, report, agent, answeredBy, job>> /\ mem'.seen = report
    BY <1>1 DEF Load, Memories
  <1> DEFINE e == Reconciled(doc, gone)
  <1>4. Follows(e)
    <2>1. CASE doc.lease = NoDSeq
      <3>1. doc.request = NoReq /\ doc.status \notin {"booting", "online", "backing_up", "stopping"}
        BY <2>1 DEF ReportsInv, ServersLeased, Serves
      <3>2. e.request = NoReq /\ e.status \in {doc.status, "failed"}
        BY <1>1, <2>1, <3>1, FieldFacts, RequestFacts DEF Reconciled
      <3> QED BY <3>1, <3>2, ClearFollows
    <2>2. CASE doc.lease # NoDSeq /\ gone
      <3>1. e.request = NoReq /\ e.status = "failed"
        BY <1>1, <2>2 DEF Reconciled, Fail, ClearBackupRequest, Docs
      <3> QED BY <3>1, ClearFollows
    <2>3. CASE doc.lease # NoDSeq /\ ~gone
      BY <2>3, SameFollows DEF Reconciled
    <2> QED BY <2>1, <2>2, <2>3
  <1> HIDE DEF e
  <1>5. SetDoc(e)
    BY <1>2 DEF Write, e
  <1> QED BY <1>3, <1>4, <1>5, JobKeepsServing, ReportsWrite

\* What the triggers make of the document.
LEMMA ReportsAct ==
    ASSUME TypeOK, ReportsInv, Act
    PROVE  ReportsInv'
  <1> USE DEF gitVars, worldVars
  <1>1. doc \in Docs /\ job \in Jobs /\ mem \in Memories
    BY DEF TypeOK
  <1>2. UNCHANGED <<pub, report, agent, answeredBy>>
    BY DEF Act, ActHalt, ActStart, ActOther
  <1>3. mem'.seen = mem.seen
    BY <1>1 DEF Act, ActHalt, ActStart, ActOther, Memories
  <1>4. \A d \in Scheduled : /\ d \in Docs /\ d.lease = doc.lease
                             /\ d.status = doc.status /\ d.request = doc.request
    BY <1>1, ScheduledFacts DEF Scheduled, Docs
  <1>5. CASE ActHalt
    <2>1. PICK d \in Scheduled, id \in NewID : Write(BeginHalt(d, id))
      BY <1>5 DEF ActHalt
    <2>2. Follows(BeginHalt(d, id))
      BY <1>4, HaltFollows
    <2>3. JobServes
      <3>1. job' = job \/ job'.state = "cancelled"
        BY <1>1, <1>5 DEF ActHalt, Jobs
      <3> QED BY <3>1, JobKeepsServing
    <2> QED BY <1>2, <1>3, <2>1, <2>2, <2>3, ReportsWrite DEF Write
  <1>6. CASE ActStart
    <2>1. PICK d \in Scheduled : SetDoc(BeginDeploy(d))
      BY <1>6 DEF ActStart
    <2>2. doc.lease = NoDSeq /\ job' = job
      BY <1>6 DEF ActStart, StartRefused
    <2>3. /\ doc.request = NoReq
          /\ doc.status \notin {"booting", "online", "backing_up", "stopping"}
      BY <2>2 DEF ReportsInv, ServersLeased, Serves
    <2>4. BeginDeploy(d).request = NoReq
      BY <1>4, <2>3, RequestFacts
    <2>5. BeginDeploy(d).status \in {"deploying", doc.status, "offline"}
      BY <1>4 DEF BeginDeploy, SetStatus, Docs
    <2>6. Follows(BeginDeploy(d))
      BY <2>3, <2>4, <2>5, ClearFollows
    <2> QED BY <1>2, <1>3, <2>1, <2>2, <2>6, JobKeepsServing, ReportsWrite
  <1>7. CASE ActOther
    <2>1. PICK d \in Scheduled, id \in NewID :
             Write(IF "backup" \in mem.acts THEN OperatorBackup(d, id) ELSE d)
      BY <1>7 DEF ActOther
    <2> DEFINE e == IF "backup" \in mem.acts THEN OperatorBackup(d, id) ELSE d
    <2>2. e = d \/ (doc.status \in {"online", "backing_up"} /\ e = AskBackup(d, id))
      BY <1>4 DEF OperatorBackup
    <2>3. Follows(e)
      BY <1>4, <2>2, AskFollows, SameFollows
    <2>4. SetDoc(e) /\ job' = job
      BY <1>7, <2>1 DEF ActOther, Write
    <2> HIDE DEF e
    <2> QED BY <1>2, <1>3, <2>3, <2>4, JobKeepsServing, ReportsWrite
  <1> QED BY <1>5, <1>6, <1>7 DEF Act
\* advance, status by status.
LEMMA ReportsAdvance ==
    ASSUME TypeOK, ReportsInv, Advance
    PROVE  ReportsInv'
  <1> USE DEF gitVars, worldVars, docVars
  <1>1. doc \in Docs /\ mem \in Memories
    BY DEF TypeOK
  <1>2. UNCHANGED <<pub, report, agent, answeredBy>>
    BY DEF Advance
  <1>3. mem'.seen = mem.seen
    BY <1>1 DEF Advance, AdvanceOffline, AdvanceDeploying, AdvanceBooting, AdvanceOnline,
         AdvanceBackingUp, AdvanceStopping, AdvanceClosing, AdvanceFailed, Quiet, Memories
  <1>4. JobServes
    <2>1. job' = job \/ job'.kind = "close"
      BY DEF Advance, AdvanceOffline, AdvanceDeploying, AdvanceBooting, AdvanceOnline,
         AdvanceBackingUp, AdvanceStopping, AdvanceClosing, AdvanceFailed, Quiet, Close
    <2> QED BY <2>1, JobKeepsServing
  <1>5. ASSUME NEW e, Write(e), Follows(e) PROVE ReportsInv'
    BY <1>2, <1>3, <1>4, <1>5, ReportsWrite DEF Write
  <1>6. ASSUME Quiet PROVE ReportsInv'
    BY <1>2, <1>3, <1>4, <1>6, ReportsQuiet DEF Quiet
  <1>7. ASSUME Write(doc) PROVE ReportsInv'
    BY <1>5, <1>7, SameFollows
  <1>8. ASSUME NEW id \in NewID, Write(BeginHalt(doc, id)) PROVE ReportsInv'
    BY <1>1, <1>5, <1>8, HaltFollows
  <1>9. ASSUME NEW d \in Docs, d.status = doc.status, d.lease = doc.lease, Close(d, job)
        PROVE  ReportsInv'
    <2>1. Follows(BeginClose(d))
      BY <1>9, CloseFollows DEF ReportsInv, ServersLeased, Serves
    <2> QED BY <1>5, <1>9, <2>1 DEF Close
  <1>10. /\ ClearBackupRequest(doc) \in Docs
         /\ ClearBackupRequest(doc).request = NoReq
         /\ ClearBackupRequest(doc).lease = doc.lease
         /\ ClearBackupRequest(doc).status = doc.status
    BY <1>1, MutatorsType, FieldFacts, RequestFacts
  <1>11. CASE AdvanceOffline
    BY <1>6, <1>11 DEF AdvanceOffline
  <1>12. CASE AdvanceDeploying
    <2>1. CASE Quiet
      BY <1>6, <2>1
    <2>2. CASE ~Quiet
      <3>1. doc.status = "deploying"
        BY <1>12 DEF AdvanceDeploying, Advancing
      <3>2. doc.request = NoReq
        BY <3>1 DEF ReportsInv, ServersLeased, Serves
      <3>3. PICK found \in AdoptResults :
               \E d \in AdoptInto(doc, found) :
                  Write(IF d.lease = NoDSeq /\ d.status = "deploying"
                          THEN [SetStatus(d, "offline") EXCEPT !.intent = "stopped"] ELSE d)
        BY <1>12, <2>2 DEF AdvanceDeploying
      <3>4. PICK d \in AdoptInto(doc, found) :
                  Write(IF d.lease = NoDSeq /\ d.status = "deploying"
                          THEN [SetStatus(d, "offline") EXCEPT !.intent = "stopped"] ELSE d)
        BY <3>3
      <3>5. d = doc \/ \E l \in found : d = Fail([doc EXCEPT !.lease = l])
        BY <3>4 DEF AdoptInto
      <3>6. d.request = NoReq /\ d.status \in {"deploying", "failed"}
        BY <1>1, <3>1, <3>2, <3>5 DEF Fail, Docs
      <3>7. /\ d = doc => /\ [SetStatus(d, "offline") EXCEPT !.intent = "stopped"].request = NoReq
                          /\ [SetStatus(d, "offline") EXCEPT !.intent = "stopped"].status
                                \in {"deploying", "offline"}
        BY <1>1, <3>1, <3>2 DEF SetStatus, Docs
      <3>8. CASE d.lease = NoDSeq /\ d.status = "deploying"
        <4>1. d = doc
          BY <1>1, <3>5, <3>8 DEF Fail, Docs
        <4> QED BY <1>5, <3>4, <3>7, <3>8, <4>1, ClearFollows
      <3>9. CASE ~(d.lease = NoDSeq /\ d.status = "deploying")
        BY <1>5, <3>4, <3>6, <3>9, ClearFollows
      <3> QED BY <3>8, <3>9
    <2> QED BY <2>1, <2>2
  <1>13. CASE AdvanceBooting
    <2>1. doc.status = "booting" /\ doc.lease # NoDSeq /\ doc.request = NoReq
      BY <1>13 DEF AdvanceBooting, Advancing, ReportsInv, ServersLeased, Serves
    <2>2. /\ SetStatus(doc, "online").request = NoReq /\ SetStatus(doc, "online").lease = doc.lease
          /\ Fail(doc).request = NoReq /\ Fail(doc).lease = doc.lease
      BY <1>1, <2>1, FieldFacts, RequestFacts DEF Statuses
    <2>3. Follows(SetStatus(doc, "online")) /\ Follows(Fail(doc))
      BY <2>1, <2>2, ClearFollows
    <2> QED BY <1>5, <1>7, <1>8, <1>13, <2>3 DEF AdvanceBooting
  <1>14. CASE AdvanceOnline
    <2>1. doc.status = "online"
      BY <1>14 DEF AdvanceOnline, Advancing
    <2>2. \A id \in NewID \cup {NoReq} : Follows(AskBackup(doc, id))
      BY <1>1, <2>1, AskFollows
    <2>3. Follows(SetStatus(doc, "backing_up"))
      <3> DEFINE b == SetStatus(doc, "backing_up")
      <3>1. /\ b.status \in {"online", "backing_up"}
            /\ b.request = doc.request /\ b.lease = doc.lease
        BY <1>1, <2>1, FieldFacts, RequestFacts DEF Statuses
      <3> HIDE DEF b
      <3>2. doc.lease # NoDSeq
        BY <2>1 DEF ReportsInv, ServersLeased, Serves
      <3>3. Follows(b)
        BY <3>1, <3>2 DEF Follows, Serves
      <3> QED BY <3>3 DEF b
    <2> QED BY <1>5, <1>8, <1>14, <2>2, <2>3 DEF AdvanceOnline
  <1>15. CASE AdvanceBackingUp
    <2>1. doc.status = "backing_up" /\ doc.lease # NoDSeq
      BY <1>15 DEF AdvanceBackingUp, Advancing, ReportsInv, ServersLeased, Serves
    <2>2. /\ SetStatus(ClearBackupRequest(doc), "online").request = NoReq
          /\ SetStatus(ClearBackupRequest(doc), "online").lease = doc.lease
      BY <1>10, FieldFacts, RequestFacts DEF Statuses
    <2>3. Follows(SetStatus(ClearBackupRequest(doc), "online"))
      BY <2>1, <2>2, ClearFollows
    <2> QED BY <1>5, <1>7, <1>8, <1>15, <2>3 DEF AdvanceBackingUp
  <1>16. CASE AdvanceStopping
    <2>1. doc.status = "stopping" /\ doc.lease # NoDSeq
      BY <1>16 DEF AdvanceStopping, Advancing, ReportsInv, ServersLeased, Serves
    <2>2. Follows(ClearBackupRequest(doc))
      BY <1>10, <2>1, ClearFollows
    <2> QED BY <1>5, <1>7, <1>9, <1>10, <1>16, <2>2 DEF AdvanceStopping
  <1>17. CASE AdvanceClosing
    BY <1>1, <1>6, <1>9, <1>17 DEF AdvanceClosing
  <1>18. CASE AdvanceFailed
    BY <1>1, <1>6, <1>9, <1>18 DEF AdvanceFailed
  <1> QED BY <1>11, <1>12, <1>13, <1>14, <1>15, <1>16, <1>17, <1>18 DEF Advance

\* The lease of a deploy is recorded before anything may be asked of it.
LEMMA ReportsDeployResult ==
    ASSUME TypeOK, JobInv, ReportsInv, OnDeployResult
    PROVE  ReportsInv'
  <1> USE DEF gitVars, worldVars
  <1> DEFINE d == LeaseRecorded
  <1>1. doc \in Docs /\ job \in Jobs /\ mem \in Memories
    BY DEF TypeOK
  <1>2. job.kind = "deploy" /\ doc.status = "deploying" /\ doc.lease = NoDSeq
    BY DEF OnDeployResult, Reported, JobInv, JobMatchesStatus
  <1>3. doc.request = NoReq
    BY <1>2 DEF ReportsInv, ServersLeased, Serves
  <1>4. /\ d \in Docs /\ d.status = "deploying" /\ d.request = NoReq /\ d.lease = job.dseq
    <2>1. CASE job.dseq = NoDSeq
      BY <1>1, <1>2, <1>3, <2>1 DEF LeaseRecorded
    <2>2. CASE job.dseq # NoDSeq
      <3>1. d = [doc EXCEPT !.lease = job.dseq] /\ job.dseq \in DSeq
        BY <1>1, <2>2 DEF LeaseRecorded, Jobs
      <3> QED BY <1>1, <1>2, <1>3, <3>1 DEF Docs
    <2> QED BY <2>1, <2>2
  <1>5. UNCHANGED <<pub, report, agent, answeredBy>> /\ mem'.seen = mem.seen
    BY <1>1 DEF OnDeployResult, Memories
  <1>6. JobServes
    <2>1. job' = NoJob \/ job'.kind = "close"
      BY DEF OnDeployResult, Close
    <2> QED BY <2>1 DEF JobServes, NoJob
  <1>7. \/ Write(BeginClose(d)) \/ Write(Fail(d))
        \/ job.state = "ok" /\ Write(SetStatus(d, "booting"))
    BY DEF OnDeployResult, Close
  <1>8. job.state = "ok" => d.lease # NoDSeq
    BY <1>2, <1>4 DEF ReportsInv, ServersLeased
  <1> HIDE DEF d
  <1>9. Follows(BeginClose(d))
    BY <1>4, CloseFollows
  <1>10. Follows(Fail(d))
    <2>1. Fail(d).request = NoReq /\ Fail(d).status = "failed"
      BY <1>4, FieldFacts, RequestFacts
    <2> QED BY <2>1, ClearFollows
  <1>11. job.state = "ok" => Follows(SetStatus(d, "booting"))
    <2>1. SetStatus(d, "booting").request = NoReq /\ SetStatus(d, "booting").lease = d.lease
      BY <1>4, FieldFacts, RequestFacts DEF Statuses
    <2> QED BY <1>8, <2>1, ClearFollows
  <1> QED BY <1>5, <1>6, <1>7, <1>9, <1>10, <1>11, ReportsWrite DEF Write

\* A close ends with no lease, and closing has no request.
LEMMA ReportsCloseResult ==
    ASSUME TypeOK, JobInv, ReportsInv, OnCloseOk \/ OnCloseError
    PROVE  ReportsInv'
  <1> USE DEF gitVars, worldVars
  <1> DEFINE d == SetStatus([doc EXCEPT !.lease = NoDSeq], "offline")
  <1>1. doc \in Docs /\ mem \in Memories
    BY DEF TypeOK
  <1>2. doc.status = "closing"
    BY DEF OnCloseOk, OnCloseError, Reported, JobInv, JobMatchesStatus
  <1>3. doc.request = NoReq
    BY <1>2 DEF ReportsInv, ServersLeased, Serves
  <1>4. d \in Docs /\ d.request = NoReq /\ d.status = "offline"
    <2> DEFINE n == [doc EXCEPT !.lease = NoDSeq]
    <2>1. n \in Docs /\ n.request = NoReq /\ n.status = "closing"
      BY <1>1, <1>2, <1>3, MutatorsType DEF Docs
    <2> HIDE DEF n
    <2>2. "offline" \in Statuses /\ CanTransition("closing", "offline")
      BY DEF Statuses, CanTransition, Transitions
    <2>3. SetStatus(n, "offline").status = "offline"
      BY <2>1, <2>2 DEF SetStatus, Docs
    <2>4. SetStatus(n, "offline") \in Docs /\ SetStatus(n, "offline").request = NoReq
      BY <2>1, <2>2, MutatorsType, RequestFacts
    <2> QED BY <2>3, <2>4 DEF n
  <1>5. UNCHANGED <<pub, report, agent, answeredBy>> /\ mem'.seen = mem.seen /\ job' = NoJob
    BY <1>1 DEF OnCloseOk, OnCloseError, Memories
  <1>6. JobServes
    BY <1>5 DEF JobServes, NoJob
  <1>7. \E e \in {BeginDeploy(d), [d EXCEPT !.intent = "stopped"], Fail(doc), doc} : Write(e)
    BY DEF OnCloseOk, OnCloseError
  <1> HIDE DEF d
  <1>8. /\ BeginDeploy(d).request = NoReq
        /\ BeginDeploy(d).status = "deploying"
        /\ [d EXCEPT !.intent = "stopped"].request = NoReq
        /\ [d EXCEPT !.intent = "stopped"].status = "offline"
    BY <1>4, RequestFacts, StartFacts DEF Docs
  <1>9. Fail(doc).request = NoReq /\ Fail(doc).status = "failed"
    BY <1>1, <1>3, FieldFacts, RequestFacts
  <1>10. \A e \in {BeginDeploy(d), [d EXCEPT !.intent = "stopped"], Fail(doc), doc} : Follows(e)
    BY <1>2, <1>3, <1>8, <1>9, ClearFollows
  <1> QED BY <1>5, <1>6, <1>7, <1>10, ReportsWrite DEF Write
\* The job makes and unmakes agents, and a deploy that succeeded has a lease.
LEMMA ReportsJobStep ==
    ASSUME TypeOK, ReportsInv, JobStep
    PROVE  ReportsInv'
  <1> USE DEF docVars, gitVars
  <1>1. job \in Jobs /\ agent \in [DSeq -> Agents]
    BY DEF TypeOK
  <1>2. UNCHANGED <<doc, used, pub, report, mem, answeredBy>>
    BY DEF JobStep, JobCreates, JobCreateLost, JobLeases, JobDeployed, JobDeployFails,
           JobCloses, jobOnly
  <1>3. \A d \in DSeq : agent'[d] \in {agent[d], NewAgent}
    BY <1>1 DEF JobStep, JobCreates, JobCreateLost, JobLeases, JobDeployed, JobDeployFails, JobCloses
  <1>4. JobServes
    <2>1. CASE \E d \in DSeq : JobCreates(d)
      BY <1>1, <2>1 DEF JobCreates, JobServes, Jobs
    <2>2. CASE \E d \in DSeq : JobCreateLost(d)
      BY <1>1, <2>2, JobKeepsServing DEF JobCreateLost, Jobs
    <2>3. CASE JobLeases
      BY <2>3, JobKeepsServing DEF JobLeases
    <2>4. CASE JobDeployed
      BY <1>1, <2>4 DEF JobDeployed, JobServes, Jobs
    <2>5. CASE JobDeployFails
      BY <1>1, <2>5 DEF JobDeployFails, JobServes, Jobs
    <2>6. CASE JobCloses
      <3>1. job'.kind = "close"
        BY <1>1, <2>6 DEF JobCloses, Jobs
      <3> QED BY <3>1, JobKeepsServing
    <2> QED BY <2>1, <2>2, <2>3, <2>4, <2>5, <2>6 DEF JobStep
  <1> QED BY <1>2, <1>3, <1>4, ReportsAgents

\* What an agent reads, takes and says is about its own deployment.
LEMMA ReportsAgentStep ==
    ASSUME TypeOK, MoneyInv, ReportsInv, AgentStep
    PROVE  ReportsInv'
  <1> USE DEF docVars
  <1>1. /\ agent \in [DSeq -> Agents] /\ report \in Reports
        /\ answeredBy \in [ReqID -> DSeq \cup {NoDSeq}] /\ pub \in Docs
    BY DEF TypeOK
  <1>2. UNCHANGED <<doc, used, pub, job, mem>>
    BY DEF AgentStep, AgentReads, AgentMoves, AgentBegins, AgentAnswers, AgentPublishes,
           AgentBoots, agentOnly
  <1>3. ServersLeased'
    BY <1>2 DEF ReportsInv, ServersLeased, Serves
  <1>4. PICK d \in DSeq : \/ AgentReads(d) \/ AgentMoves(d) \/ AgentBegins(d) \/ AgentAnswers(d)
                          \/ AgentPublishes(d) \/ AgentBoots(d)
    BY DEF AgentStep
  <1>5. pub.lease \in {NoDSeq, d}
    BY <1>4, PublishedLease DEF AgentReads, AgentMoves, AgentBegins, AgentAnswers, AgentPublishes,
         AgentBoots
  <1>6. agent[d] \in Agents
    BY <1>1
  <1>7. CASE AgentReads(d) \/ AgentMoves(d)
    <2>1. /\ UNCHANGED <<report, answeredBy>>
          /\ agent'[d].taking = agent[d].taking /\ agent'[d].answered = agent[d].answered
          /\ agent'[d].as \in {agent[d].as, NoDSeq, d}
          /\ \A e \in DSeq \ {d} : agent'[e] = agent[e]
      BY <1>1, <1>5, <1>7 DEF AgentReads, AgentMoves, Agents
    <2>2. OwnName' /\ AnswersTaken'
      BY <1>2, <2>1 DEF ReportsInv, OwnName, AnswersTaken, Taken
    <2>3. \A r \in ReqID, e \in DSeq : Concerns(r, e)' => Concerns(r, e)
      BY <1>2, <2>1 DEF Concerns
    <2> QED BY <1>2, <1>3, <2>2, <2>3, ReportsKept
  <1>8. CASE AgentBegins(d)
    <2>1. /\ UNCHANGED <<report, answeredBy>>
          /\ agent'[d].taking = pub.request /\ agent'[d].answered = NoReq
          /\ agent'[d].as = agent[d].as
          /\ \A e \in DSeq \ {d} : agent'[e] = agent[e]
          /\ pub.request # NoReq
      BY <1>1, <1>8 DEF AgentBegins, Agents
    <2>2. pub.lease = d
      BY <1>5, <2>1 DEF ReportsInv, ServersLeased, Serves
    <2>3. OwnName' /\ AnswersTaken'
      BY <1>2, <2>1 DEF ReportsInv, OwnName, AnswersTaken, Taken
    <2>4. \A r \in ReqID, e \in DSeq : Concerns(r, e)' => Concerns(r, e)
      BY <1>2, <2>1, <2>2 DEF Concerns
    <2> QED BY <1>2, <1>3, <2>3, <2>4, ReportsKept
  <1>9. CASE AgentAnswers(d)
    <2>1. PICK r \in ReqID : r = agent[d].taking
      BY <1>6, <1>9 DEF AgentAnswers, Agents
    <2>2. /\ UNCHANGED report
          /\ agent'[d].taking = NoReq /\ agent'[d].answered = r /\ agent'[d].as = agent[d].as
          /\ \A e \in DSeq \ {d} : agent'[e] = agent[e]
      BY <1>1, <1>9, <2>1 DEF AgentAnswers, Agents
    <2>3. answeredBy'[r] = d /\ \A q \in ReqID \ {r} : answeredBy'[q] = answeredBy[q]
      BY <1>1, <1>9, <2>1 DEF AgentAnswers
    <2>4. d # NoDSeq
      BY NoDSeqAssumption
    <2>5. Concerns(r, d)
      BY <2>1 DEF Concerns
    <2>6. OwnName'
      BY <1>2, <2>2 DEF ReportsInv, OwnName
    <2>7. \A q \in ReqID \cup {NoReq} : Taken(q) => Taken(q)'
      BY <2>3, <2>4 DEF Taken
    <2>8. Taken(r)'
      BY <2>3, <2>4 DEF Taken
    <2>9. AnswersTaken'
      <3>1. /\ report.answered \in ReqID \cup {NoReq} /\ mem.seen.answered \in ReqID \cup {NoReq}
            /\ \A e \in DSeq : agent[e].answered \in ReqID \cup {NoReq}
        BY <1>1 DEF TypeOK, Reports, Memories, Agents
      <3>2. Taken(report.answered)' /\ Taken(mem.seen.answered)'
        BY <1>2, <2>2, <2>7, <3>1 DEF ReportsInv, AnswersTaken, Taken
      <3>3. ASSUME NEW e \in DSeq PROVE Taken(agent[e].answered)'
        <4>1. CASE e = d
          BY <2>2, <2>8, <4>1 DEF Taken
        <4>2. CASE e # d
          BY <2>2, <2>7, <3>1, <4>2 DEF ReportsInv, AnswersTaken, Taken
        <4> QED BY <4>1, <4>2
      <3> QED BY <3>2, <3>3 DEF AnswersTaken
    <2>10. \A q \in ReqID, e \in DSeq : Concerns(q, e)' => Concerns(q, e)
      BY <1>2, <2>2, <2>3, <2>5, NoReqAssumption DEF Concerns
    <2> QED BY <1>2, <1>3, <2>6, <2>9, <2>10, ReportsKept
  <1>10. CASE AgentPublishes(d)
    <2>1. /\ UNCHANGED <<agent, answeredBy>>
          /\ report'.dseq = agent[d].as /\ report'.by = d /\ report'.answered = agent[d].answered
      BY <1>10 DEF AgentPublishes
    <2>2. OwnName' /\ AnswersTaken'
      BY <1>2, <2>1 DEF ReportsInv, OwnName, AnswersTaken, Taken
    <2>3. \A r \in ReqID, e \in DSeq : Concerns(r, e)' => Concerns(r, e)
      BY <1>2, <2>1 DEF Concerns
    <2> QED BY <1>2, <1>3, <2>2, <2>3, ReportsKept
  <1>11. CASE AgentBoots(d)
    <2>1. /\ UNCHANGED <<report, answeredBy>>
          /\ agent'[d].taking = NoReq /\ agent'[d].answered \in {report.answered, NoReq}
          /\ agent'[d].as = pub.lease
          /\ \A e \in DSeq \ {d} : agent'[e] = agent[e]
      BY <1>1, <1>11 DEF AgentBoots, NewAgent
    <2>2. OwnName' /\ AnswersTaken'
      BY <1>2, <1>5, <2>1 DEF ReportsInv, OwnName, AnswersTaken, Taken
    <2>3. \A r \in ReqID, e \in DSeq : Concerns(r, e)' => Concerns(r, e)
      BY <1>2, <2>1, NoReqAssumption DEF Concerns
    <2> QED BY <1>2, <1>3, <2>2, <2>3, ReportsKept
  <1> QED BY <1>4, <1>7, <1>8, <1>9, <1>10, <1>11

\* After a crash the published document is all there is.
LEMMA ReportsCrash ==
    ASSUME ReportsInv, Crash
    PROVE  ReportsInv'
  <1> USE DEF gitVars, worldVars
  <1>1. /\ doc' = pub /\ job' = NoJob /\ mem' = Fresh
        /\ UNCHANGED <<used, pub, report, agent, answeredBy>>
    BY DEF Crash
  <1>2. OwnName' /\ AnswersTaken'
    BY <1>1 DEF ReportsInv, OwnName, AnswersTaken, Taken, Fresh, NoReport
  <1>3. ServersLeased'
    BY <1>1 DEF ReportsInv, ServersLeased, Serves, NoJob
  <1>4. \A r \in ReqID, d \in DSeq : Concerns(r, d)' => Concerns(r, d)
    BY <1>1 DEF Concerns
  <1> QED BY <1>1, <1>2, <1>3, <1>4, ReportsKept

\* A flush, and the publish before a launch.
LEMMA ReportsPublish ==
    ASSUME ReportsInv, JobServes, pub' \in {doc, pub}, mem'.seen = mem.seen,
           UNCHANGED <<doc, used, report, agent, answeredBy>>
    PROVE  ReportsInv'
  <1>1. OwnName' /\ AnswersTaken'
    BY DEF ReportsInv, OwnName, AnswersTaken, Taken
  <1>2. ServersLeased'
    BY DEF ReportsInv, ServersLeased, Serves, JobServes
  <1>3. \A r \in ReqID, d \in DSeq : Concerns(r, d)' => Concerns(r, d)
    BY DEF Concerns
  <1> QED BY <1>1, <1>2, <1>3, ReportsKept

\* At first nobody has spoken and nothing has been asked.
LEMMA ReportsInit == Init => ReportsInv
  <1> SUFFICES ASSUME Init PROVE ReportsInv
    OBVIOUS
  <1>1. OwnName /\ AnswersTaken
    BY DEF Init, OwnName, AnswersTaken, Taken, Fresh, NoReport, NewAgent
  <1>2. ServersLeased
    BY DEF Init, ServersLeased, Serves, NewDoc, NoJob
  <1>3. \A r \in ReqID, d \in DSeq : ~Concerns(r, d)
    BY NoReqAssumption, NoDSeqAssumption DEF Init, Concerns, NewDoc, NewAgent
  <1> QED BY <1>1, <1>2, <1>3 DEF ReportsInv, OneOwner, Drawn

\* Every step keeps the invariant, one action at a time.
LEMMA ReportsStep ==
    ASSUME Disciplined
    PROVE  TypeOK /\ JobInv /\ MoneyInv /\ ReportsInv /\ [Next]_vars => ReportsInv'
  <1> SUFFICES ASSUME TypeOK, JobInv, MoneyInv, ReportsInv, [Next]_vars PROVE ReportsInv'
    OBVIOUS
  <1> USE DEF docVars, gitVars, worldVars, bounds
  <1>1. mem \in Memories /\ agent \in [DSeq -> Agents]
    BY DEF TypeOK
  <1>2. CASE Load
    BY <1>2, ReportsLoad
  <1>3. CASE LoadCorrupt
    BY <1>3 DEF LoadCorrupt, Disciplined
  <1>4. CASE Poll
    <2>1. /\ UNCHANGED <<doc, used, pub, report, agent, answeredBy, job>>
          /\ mem'.seen \in {mem.seen, report}
      BY <1>1, <1>4 DEF Poll, PollFails, PollTakesNothing, PollTakesTriggers, Memories
    <2> QED BY <2>1, JobKeepsServing, ReportsQuiet
  <1>5. CASE Act
    BY <1>5, ReportsAct
  <1>6. CASE Launch
    <2>1. /\ UNCHANGED <<doc, used, report, agent, answeredBy>> /\ mem'.seen = mem.seen
          /\ pub' \in {doc, pub} /\ job'.state = "running"
      BY <1>1, <1>6 DEF Launch, FlushNow, Memories
    <2> QED BY <2>1, JobKeepsServing, ReportsPublish
  <1>7. CASE Advance
    BY <1>7, ReportsAdvance
  <1>8. CASE OnDeployResult \/ OnCloseOk \/ OnCloseError
    BY <1>8, ReportsDeployResult, ReportsCloseResult
  <1>9. CASE Tick \/ Flush \/ FlushTimer
    <2>1. UNCHANGED <<doc, used, report, agent, answeredBy, mem, job>> /\ pub' \in {doc, pub}
      BY <1>9 DEF Tick, Flush, FlushTimer
    <2> QED BY <2>1, JobKeepsServing, ReportsPublish
  <1>10. CASE JobStep
    BY <1>10, ReportsJobStep
  <1>11. CASE AgentStep
    BY <1>11, ReportsAgentStep
  <1>12. CASE \E d \in DSeq : ProviderKills(d)
    <2>1. /\ UNCHANGED <<doc, used, pub, report, mem, answeredBy, job>>
          /\ \A d \in DSeq : agent'[d] \in {agent[d], NewAgent}
      BY <1>1, <1>12 DEF ProviderKills
    <2> QED BY <2>1, JobKeepsServing, ReportsAgents
  <1>13. CASE \/ \E t \in Triggers : Push(t)
              \/ TimePasses \/ UNCHANGED vars
    <2>1. UNCHANGED <<doc, used, pub, report, agent, answeredBy, mem, job>>
      BY <1>13 DEF Push, TimePasses, vars
    <2> QED BY <2>1, JobKeepsServing, ReportsQuiet
  <1>14. CASE Crash
    BY <1>14, ReportsCrash
  <1> QED BY <1>2, <1>3, <1>4, <1>5, <1>6, <1>7, <1>8, <1>9, <1>10, <1>11, <1>12, <1>13, <1>14
          DEF Next

-----------------------------------------------------------------------------
(* What follows.                                                           *)

\* The loop reads a report only if it names the lease on record, and then it is of
\* that lease's agent.
LEMMA ReportIsOwn ==
    ASSUME ReportsInv, doc.lease # NoDSeq, AgentReport # NoReport
    PROVE  AgentReport = mem.seen /\ mem.seen.by = doc.lease
  BY DEF AgentReport, ReportsInv, OwnName

\* The only handler that ends where a flush begins, from advance, is advance.
LEMMA AdvanceOnly ==
    ASSUME Next, pc = "advance", pc' = "flush"
    PROVE  Advance
  BY DEF Next, Load, LoadCorrupt, Poll, PollFails, PollTakesNothing, PollTakesTriggers, Polling,
     Act, ActHalt, ActStart, ActOther, Launch, OnDeployResult, OnCloseOk, OnCloseError, Reported,
     Tick, Flush, FlushTimer, JobStep, JobCreates, JobCreateLost, JobLeases, JobDeployed,
     JobDeployFails, JobCloses, jobOnly, AgentStep, AgentReads, AgentMoves, AgentBegins,
     AgentAnswers, AgentPublishes, AgentBoots, agentOnly, ProviderKills, Push, TimePasses, Crash
\* The word a boot ends on before its time is the agent's of its own lease.
LEMMA BootJudged ==
    ASSUME TypeOK, ReportsInv, Advance, doc.status = "booting", doc'.status # "booting",
           doc.intent = "running", ~clock.status
    PROVE  mem.seen.by = doc.lease
  <1>1. doc.lease # NoDSeq
    BY DEF ReportsInv, ServersLeased, Serves
  <1>2. AdvanceBooting
    BY DEF Advance, Advancing, AdvanceOffline, AdvanceDeploying, AdvanceOnline, AdvanceBackingUp,
       AdvanceStopping, AdvanceClosing, AdvanceFailed
  <1>3. ~Write(doc)
    BY DEF Write, SetDoc
  <1>4. Parked(Phase) \/ Phase = "online"
    BY <1>2, <1>3 DEF AdvanceBooting, BootHalts, Parked
  <1>5. AgentReport # NoReport
    BY <1>4 DEF Phase, NoReport, Parked
  <1> QED BY <1>1, <1>5, ReportIsOwn

\* The answer a wait ends on before its time is that of the request's own agent.
LEMMA BackupSettled ==
    ASSUME TypeOK, ReportsInv, Advance, doc.request # NoReq, doc'.request = NoReq, ~clock.request
    PROVE  answeredBy[doc.request] = doc.lease
  <1>1. doc \in Docs /\ answeredBy \in [ReqID -> DSeq \cup {NoDSeq}]
    BY DEF TypeOK
  <1>2. doc.status \in {"online", "backing_up", "stopping"} /\ doc.lease # NoDSeq
    BY DEF ReportsInv, ServersLeased, Serves
  <1>3. ASSUME NEW e, Write(e), e.request = doc.request PROVE FALSE
    BY <1>3 DEF Write, SetDoc
  <1>4. ~\E id \in NewID : Write(BeginHalt(doc, id))
    BY <1>1, <1>3, HaltRequest
  <1>5. ~Write(doc) /\ ~Write(SetStatus(doc, "backing_up")) /\ ~\E id : Write(AskBackup(doc, id))
    BY <1>1, <1>3, RequestFacts DEF Statuses
  <1>6. Settles
    <2>1. CASE AdvanceOnline
      BY <1>4, <1>5, <2>1 DEF AdvanceOnline
    <2>2. CASE AdvanceBackingUp
      BY <1>4, <1>5, <2>2 DEF AdvanceBackingUp
    <2>3. CASE AdvanceStopping
      BY <1>5, <2>3 DEF AdvanceStopping
    <2> QED BY <1>2, <2>1, <2>2, <2>3
            DEF Advance, Advancing, AdvanceOffline, AdvanceDeploying, AdvanceBooting,
                AdvanceClosing, AdvanceFailed
  <1>7. AgentReport.answered = doc.request
    BY <1>6 DEF Settles, Answered
  <1>8. mem.seen.answered = doc.request
    BY <1>2, <1>7, ReportIsOwn DEF NoReport
  <1>9. PICK r \in ReqID : r = doc.request
    BY <1>1 DEF Docs
  <1>10. PICK d \in DSeq : d = answeredBy[r]
    BY <1>1, <1>8, <1>9 DEF ReportsInv, AnswersTaken, Taken
  <1>11. doc.lease \in DSeq
    BY <1>1, <1>2 DEF Docs
  <1>12. Concerns(r, d) /\ Concerns(r, doc.lease)
    BY <1>9, <1>10 DEF Concerns
  <1> QED BY <1>9, <1>10, <1>11, <1>12 DEF ReportsInv, OneOwner

\* The four inductive invariants together.
LEMMA ReportsAlways ==
    ASSUME Disciplined
    PROVE  Spec => [](TypeOK /\ JobInv /\ MoneyInv /\ ReportsInv)
  <1>1. Init => TypeOK /\ JobInv /\ MoneyInv /\ ReportsInv
    BY TypeInit, JobInvInit, MoneyInit, ReportsInit
  <1>2. TypeOK /\ JobInv /\ MoneyInv /\ ReportsInv /\ [Next]_vars
          => TypeOK' /\ JobInv' /\ MoneyInv' /\ ReportsInv'
    BY TypeStep, JobInvStep, MoneyStep, ReportsStep
  <1> QED BY <1>1, <1>2, PTL DEF Spec

\* Invariant I16: whatever an earlier world left on the branch, a boot that ends
\* before its timeout ends on the word of the agent in the lease on record.
THEOREM BootIsJudgedByItsOwnAgent ==
    ASSUME Disciplined
    PROVE  Spec => BootJudgedByItsOwnAgent
  <1> DEFINE A == pc = "advance" /\ pc' = "flush" /\ doc.status = "booting" /\ doc'.status # "booting"
                    /\ doc.intent = "running" /\ ~clock.status
                  => mem.seen.by = doc.lease
  <1>1. TypeOK /\ JobInv /\ MoneyInv /\ ReportsInv /\ [Next]_vars => [A]_vars
    <2> SUFFICES ASSUME TypeOK, ReportsInv, Next PROVE A
      OBVIOUS
    <2> QED BY AdvanceOnly, BootJudged
  <1> QED BY <1>1, ReportsAlways, PTL DEF Spec, BootJudgedByItsOwnAgent

\* A wait for a backup that has not timed out ends only once the agent of the lease
\* on record has taken that very backup.
THEOREM BackupIsSettledByItsOwnAnswer ==
    ASSUME Disciplined
    PROVE  Spec => BackupSettledByItsOwnAnswer
  <1> DEFINE A == pc = "advance" /\ pc' = "flush" /\ doc.request # NoReq /\ doc'.request = NoReq
                    /\ ~clock.request
                  => answeredBy[doc.request] = doc.lease
  <1>1. TypeOK /\ JobInv /\ MoneyInv /\ ReportsInv /\ [Next]_vars => [A]_vars
    <2> SUFFICES ASSUME TypeOK, ReportsInv, Next PROVE A
      OBVIOUS
    <2> QED BY AdvanceOnly, BackupSettled
  <1> QED BY <1>1, ReportsAlways, PTL DEF Spec, BackupSettledByItsOwnAnswer
=============================================================================
