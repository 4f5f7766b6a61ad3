----------------------------- MODULE Documents -----------------------------
(***************************************************************************)
(* The published documents as files that can be damaged between a write    *)
(* and the next read: by hand, by a merge, by an older or a newer build.   *)
(* Reading is repairing (state/codec.go, state/normalize.go): a field that *)
(* cannot be decoded keeps its default, an invariant that no longer holds  *)
(* is re-established, and only a file that is no JSON object at all is     *)
(* fatal, which makes the controller ask the provider (fsm load, adopt,    *)
(* reconcileLease).                                                        *)
(*                                                                         *)
(* How the controller runs and when it publishes is module Controller's;   *)
(* here a change and its publication are one step, a deploy too, and the   *)
(* archive a target names is on the disk (module Backups).                 *)
(***************************************************************************)
EXTENDS Lifecycle, Integers, FiniteSets, Sequences, Filter

CONSTANTS
    Sha, ShaCap,    \* commits heard of; ProcessedSHACap
    Unset,          \* a field that is missing, null or mistyped
    Nameless,       \* a lease, request or commit whose identity is empty
    NoArchive,      \* no restore target
    DocFaults,      \* the provider does not answer: "adopt", "alive"
    MaxSpoils       \* bound: how often something is damaged

ASSUME DocumentsAssumption == ShaCap \in Nat \ {0} /\ MaxSpoils \in Nat /\ DocFaults \subseteq {"adopt", "alive"}
ASSUME NamelessAssumption == Nameless \notin DSeq \cup ReqID \cup Sha \cup {NoDSeq, NoReq}
ASSUME UnsetAssumption == /\ Unset \notin Nat /\ Unset \notin BOOLEAN /\ Unset \notin Seq(Sha)
                          /\ Unset \notin DSeq \cup ReqID \cup {NoDSeq, NoReq, NoArchive}
                          /\ Unset \notin Intents \cup Statuses \cup {"none", "set", "archive"}
                          /\ NoArchive # "archive"

VARIABLES
    up,         \* the process runs
    doc,        \* Machine.doc; of a dead process, what it published last
    body,       \* controller.json: "object", "garbage" (no JSON object) or "absent"
    raw,        \* its fields, if an object
    index,      \* backups.json: "fine" or "garbage"
    report,     \* agent.json as its fields
    alive,      \* the deployments the provider keeps
    damaged,    \* history: the fields damaged since the last write
    unanswered, \* history: the provider did not answer the last load
    spoils      \* how often something was damaged

documentsVars == <<up, doc, body, raw, index, report, alive, damaged, unanswered, spoils>>

Newest == 1     \* DocVersion
\* What the Go types are before a read (NewController, NewAgent).
NewController == [version |-> Newest, intent |-> "stopped", status |-> "offline", lease |-> NoDSeq,
                  stop |-> "none", shas |-> <<>>, target |-> NoArchive, pinned |-> FALSE, request |-> NoReq]
NoReport == [id |-> NoReq, state |-> "none", archive |-> FALSE]
NewAgent == [dseq |-> NoDSeq, phase |-> "starting", counted |-> FALSE, at |-> FALSE, restarts |-> 0,
             backup |-> NoReport]

-----------------------------------------------------------------------------
(* Reading.                                                                *)

\* decodeStruct: a field that cannot be decoded costs that field.
Decode(fields, default) == [f \in DOMAIN default |-> IF fields[f] = Unset THEN default[f] ELSE fields[f]]

\* The ring without blanks and repetitions, and no longer than its cap.
Ring(shas) ==
    LET seen(i) == \E j \in 1..(i - 1) : shas[j] = shas[i]
        once == Kept(shas, {i \in DOMAIN shas : shas[i] # Nameless /\ ~seen(i)})
    IN  IF Len(once) > ShaCap THEN SubSeq(once, Len(once) - ShaCap + 1, Len(once)) ELSE once

Known(x, none) == IF x = Nameless THEN none ELSE x
UnknownStatus(lease) == IF lease = NoDSeq THEN "offline" ELSE "failed"

\* Controller.Normalize: what is dropped first decides what the rest is worth.
Normalized(d) ==
    LET lease  == Known(d.lease, NoDSeq)
        target == IF d.target = "junk" THEN NoArchive ELSE d.target
    IN  [version |-> IF d.version = 0 THEN Newest ELSE d.version,
         lease   |-> lease,
         intent  |-> IF d.intent \in Intents THEN d.intent ELSE "stopped",
         status  |-> IF d.status \in Statuses THEN d.status ELSE UnknownStatus(lease),
         stop    |-> IF d.stop = "zero" THEN "none" ELSE d.stop,
         shas    |-> Ring(d.shas),
         target  |-> target,
         pinned  |-> d.pinned /\ target # NoArchive,
         request |-> Known(d.request, NoReq)]

\* Agent.Normalize.
NormalReport(b) ==
    IF b.id \in {Nameless, NoReq} THEN NoReport
    ELSE [b EXCEPT !.state = IF @ \notin {"running", "done", "failed"} \/ (@ = "done" /\ ~b.archive)
                             THEN "failed" ELSE @]
NormalAgent(a) ==
    [a EXCEPT !.phase = IF @ \in Phases THEN @ ELSE "crashed",
              !.counted = @ /\ a.at,
              !.at = @ /\ a.counted,
              !.restarts = IF @ < 0 THEN 0 ELSE @,
              !.backup = NormalReport(@)]

\* ReadOwn: a file that is not there is a controller that never wrote.
OwnDoc == Normalized(IF body = "object" THEN Decode(raw, NewController) ELSE NewController)
\* The repairs of both files are one list.
FatalRead == body = "garbage" \/ index = "garbage"
ReadAgent == NormalAgent(Decode(report, NewAgent))

\* agentReport: attributed to the lease in hand or worth nothing.
AgentReport(d, a) == IF a.dseq # NoDSeq /\ a.dseq = d.lease THEN a ELSE NewAgent
BackupAnswer(d, a) ==
    IF d.request # NoReq /\ AgentReport(d, a).backup.id = d.request THEN AgentReport(d, a).backup.state ELSE "none"

-----------------------------------------------------------------------------
(* The start.                                                              *)

Adopted(d, dseq) == [Fail(d) EXCEPT !.lease = dseq]
Billed(d) == d.status \in BillingStatuses \ {"failed"}

Bug_LeaseIsAllThatCounts(d, gone) ==
    IF d.lease = NoDSeq THEN d ELSE IF gone THEN [Fail(ClearBackupRequest(d)) EXCEPT !.lease = NoDSeq] ELSE d
\* reconcileLease
Reconciled(d, gone) ==
    IF d.lease = NoDSeq
    THEN IF Billed(d) THEN Fail(d) ELSE d
    ELSE IF gone THEN [Fail(ClearBackupRequest(d)) EXCEPT !.lease = NoDSeq] ELSE d

\* A changed document is published; one that was only repaired stays as it lies there.
WritesBack(d, adopts) ==
    IF adopts \/ d # OwnDoc \/ body = "absent"
    THEN /\ raw' = d /\ body' = "object" /\ index' = "fine" /\ damaged' = {}
    ELSE UNCHANGED <<raw, body, index, damaged>>

Load ==
    /\ ~up /\ up' = TRUE
    /\ \E deaf \in SUBSET DocFaults :
         /\ unanswered' = (deaf # {})
         /\ LET adopts == FatalRead /\ "adopt" \notin deaf /\ alive # {}
            IN  \E d \in IF adopts THEN {Adopted(OwnDoc, dseq) : dseq \in alive} ELSE {OwnDoc} :
                  /\ doc' = Reconciled(d, "alive" \notin deaf /\ d.lease \notin alive)
                  /\ WritesBack(doc', adopts)
    /\ UNCHANGED <<report, alive, spoils>>

-----------------------------------------------------------------------------
(* What goes on around it.                                                 *)

Publishes(d) ==
    /\ up /\ unanswered' = FALSE /\ doc' = d /\ raw' = d /\ body' = "object" /\ index' = "fine" /\ damaged' = {}
    /\ UNCHANGED <<up, report, spoils>>
Deploys(dseq) ==
    /\ doc.status \in {"offline", "failed"} /\ doc.lease = NoDSeq /\ dseq \notin alive
    /\ Publishes([doc EXCEPT !.status = "booting", !.intent = "running", !.lease = dseq])
    /\ alive' = alive \cup {dseq}
Proceeds(to) ==
    /\ doc.lease # NoDSeq /\ doc.status # to /\ CanTransition(doc.status, to)
    /\ Publishes(IF to = "closing" THEN ClearBackupRequest(SetStatus(doc, to)) ELSE SetStatus(doc, to))
    /\ UNCHANGED alive
Undeployed ==
    /\ doc.status = "closing" /\ alive' = alive \ {doc.lease}
    /\ Publishes([doc EXCEPT !.status = "offline", !.intent = "stopped", !.lease = NoDSeq])
Asks(id) ==
    /\ doc.status = "online" /\ doc.request = NoReq
    /\ Publishes(RequestBackup(doc, id)) /\ UNCHANGED alive
Settles ==
    /\ BackupAnswer(doc, ReadAgent) \in {"done", "failed"}
    /\ Publishes([ClearBackupRequest(doc) EXCEPT
           !.target = IF BackupAnswer(doc, ReadAgent) = "done" /\ ~doc.pinned THEN "archive" ELSE @])
    /\ UNCHANGED alive
Chooses(pinned) ==
    /\ doc.target # "archive" \/ doc.pinned # pinned
    /\ Publishes([doc EXCEPT !.target = "archive", !.pinned = pinned]) /\ UNCHANGED alive
Schedules ==
    /\ doc.status = "online" /\ doc.stop = "none"
    /\ Publishes([doc EXCEPT !.stop = "set"]) /\ UNCHANGED alive
Hears(sha) ==
    /\ \A i \in DOMAIN doc.shas : doc.shas[i] # sha
    /\ Publishes([doc EXCEPT !.shas = Ring(Append(@, sha))]) /\ UNCHANGED alive

Reports(state) ==
    /\ up /\ doc.request # NoReq /\ doc.lease # NoDSeq
    /\ report' = [NewAgent EXCEPT !.dseq = doc.lease, !.phase = "online", !.counted = TRUE, !.at = TRUE,
                                  !.backup = [id |-> doc.request, state |-> state, archive |-> state = "done"]]
    /\ UNCHANGED <<up, doc, body, raw, index, alive, damaged, unanswered, spoils>>

ProviderEnds(dseq) ==
    /\ dseq \in alive /\ alive' = alive \ {dseq}
    /\ UNCHANGED <<up, doc, body, raw, index, report, damaged, unanswered, spoils>>
Dies ==
    /\ up /\ up' = FALSE /\ unanswered' = FALSE
    /\ UNCHANGED <<doc, body, raw, index, report, alive, damaged, spoils>>

\* What a field may hold that no controller wrote.
Worse(f) ==
    {Unset} \cup (CASE f = "version" -> {0, 2}
                    [] f \in {"intent", "status"} -> {"unusable"}
                    [] f \in {"lease", "request"} -> {Nameless}
                    [] f = "stop" -> {"zero"}
                    [] f = "target" -> {"junk"}
                    [] f = "shas" -> {raw.shas \o raw.shas, <<Nameless>> \o raw.shas}
                    [] OTHER -> {})
DamageField(f) ==
    /\ ~up /\ body = "object" /\ f \notin damaged /\ spoils < MaxSpoils /\ spoils' = spoils + 1
    /\ \E x \in Worse(f) \ {raw[f]} : raw' = [raw EXCEPT ![f] = x]
    /\ damaged' = damaged \cup {f}
    /\ UNCHANGED <<up, doc, body, index, report, alive, unanswered>>
DamageFile ==
    /\ ~up /\ damaged = {} /\ spoils < MaxSpoils /\ spoils' = spoils + 1
    /\ \/ body = "object" /\ body' = "garbage" /\ UNCHANGED index
       \/ index = "fine" /\ index' = "garbage" /\ UNCHANGED body
    /\ UNCHANGED <<up, doc, raw, report, alive, damaged, unanswered>>
DamageReport ==
    /\ ~up /\ spoils < MaxSpoils /\ damaged' = damaged \cup {"report"}
    /\ spoils' = spoils + 1
    /\ \E f \in DOMAIN NewAgent : report' = [report EXCEPT ![f] =
           CASE f = "backup" -> [@ EXCEPT !.state = "unusable"]
             [] f = "restarts" -> -1
             [] f = "phase" -> "unusable"
             [] OTHER -> Unset]
    /\ report' # report
    /\ UNCHANGED <<up, doc, body, raw, index, alive, unanswered>>

DocumentsInit ==
    /\ up = FALSE /\ doc = NewController /\ body = "absent" /\ raw = NewController /\ index = "fine"
    /\ report = NewAgent /\ alive = {} /\ damaged = {} /\ unanswered = FALSE /\ spoils = 0
DocumentsNext ==
    \/ Load \/ Undeployed \/ Settles \/ Schedules \/ Dies \/ DamageFile \/ DamageReport
    \/ \E d \in DSeq : Deploys(d) \/ ProviderEnds(d)
    \/ \E to \in Statuses \ {"offline", "deploying"} : Proceeds(to)
    \/ \E id \in ReqID : Asks(id)
    \/ \E s \in {"running", "done", "failed"} : Reports(s)
    \/ \E p \in BOOLEAN : Chooses(p)
    \/ \E s \in Sha : Hears(s)
    \/ \E f \in DOMAIN NewController : DamageField(f)
DocumentsSpec == DocumentsInit /\ [][DocumentsNext]_documentsVars

-----------------------------------------------------------------------------
\* The loop's document, whatever was read, is one its own decisions can rest on, and
\* reads back as it was written: a second repair has nothing to do.
DocumentsTypeOK ==
    /\ up \in BOOLEAN /\ body \in {"object", "garbage", "absent"} /\ index \in {"fine", "garbage"}
    /\ doc \in [version : {1, 2}, intent : Intents, status : Statuses, lease : DSeq \cup {NoDSeq},
                stop : {"none", "set"}, shas : Seq(Sha), target : {NoArchive, "archive"},
                pinned : BOOLEAN, request : ReqID \cup {NoReq}]
    /\ Normalized(doc) = doc /\ NormalAgent(ReadAgent) = ReadAgent
    /\ ReadAgent.phase \in Phases /\ ReadAgent.restarts \in Nat
    /\ alive \subseteq DSeq /\ damaged \subseteq DOMAIN NewController \cup {"report"} /\ unanswered \in BOOLEAN /\ spoils \in 0..MaxSpoils

\* The fields a repair of one field reaches: a status nobody can read is worth what
\* the lease is, a lease lost is a failure, and a pin needs its target.
Reached(f) ==
    {f} \cup (CASE f = "lease" -> {"status"} [] f = "target" -> {"pinned"} [] OTHER -> {})

\* What a start may make of what it finds.
StartRight ==
    ~up /\ up' /\ Cardinality(damaged) <= 1 /\ ~unanswered' =>
      /\ doc.lease \in alive /\ doc.status \in BillingStatuses => doc'.lease = doc.lease \/ doc'.status = "failed"
      /\ doc.lease \in alive \cup {NoDSeq} /\ ~FatalRead /\ body = "object" =>
           \A f \in DOMAIN doc : doc'[f] # doc[f] => \E g \in damaged : f \in Reached(g)

\* After a restart, one damaged field costs that field and nothing else
\* (state/codec.go:88-90), and a deployment the controller had on record and the
\* provider still keeps, under a status that admits it, is in its document, or its
\* status says failed: it is never taken for nothing, not even when a whole file is
\* unreadable, as long as the provider answers.
DamageIsSeen == [][StartRight]_documentsVars
=============================================================================
