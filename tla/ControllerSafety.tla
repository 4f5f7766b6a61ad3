-------------------------- MODULE ControllerSafety --------------------------
(***************************************************************************)
(* What is proved of the controller's loop for every value of its          *)
(* constants: any number of deployments, requests, triggers, crashes and   *)
(* attempts, and any combination of faults a theorem does not exclude.     *)
(* First its types and its memory; then two safety properties that hold    *)
(* whatever goes wrong: the document and the job never disagree, and no    *)
(* launch is unpaid for, each from an inductive strengthening of its own.  *)
(***************************************************************************)
EXTENDS ControllerProps, TLAPS

-----------------------------------------------------------------------------
(* Types.                                                                  *)

\* The mutators keep a document a document.
LEMMA MutatorsType ==
    ASSUME NEW d \in Docs
    PROVE  /\ \A to \in Statuses : SetStatus(d, to) \in Docs
           /\ Fail(d) \in Docs
           /\ \A id \in ReqID \cup {NoReq} : RequestBackup(d, id) \in Docs
           /\ ClearBackupRequest(d) \in Docs
           /\ Stopped(d) \in Docs
           /\ BeginDeploy(d) \in Docs
           /\ BeginClose(d) \in Docs
           /\ \A g \in BOOLEAN : Reconciled(d, g) \in Docs
           /\ \A s \in BOOLEAN : [d EXCEPT !.stop = s] \in Docs
           /\ \A i \in Intents : [d EXCEPT !.intent = i] \in Docs
           /\ \A l \in DSeq \cup {NoDSeq} : [d EXCEPT !.lease = l] \in Docs
  <1>1. \A to \in Statuses : SetStatus(d, to) \in Docs
    BY DEF Docs, SetStatus
  <1>2. Fail(d) \in Docs
    BY DEF Docs, Fail, Statuses
  <1>3. \A id \in ReqID \cup {NoReq} : RequestBackup(d, id) \in Docs
    BY DEF Docs, RequestBackup
  <1>4. ClearBackupRequest(d) \in Docs
    BY DEF Docs, ClearBackupRequest
  <1>5. Stopped(d) \in Docs
    BY DEF Docs, Stopped, Intents
  <1>6. BeginDeploy(d) \in Docs
    BY DEF Docs, BeginDeploy, SetStatus, Intents, Statuses
  <1>7. BeginClose(d) \in Docs
    BY DEF Docs, BeginClose, SetStatus, ClearBackupRequest, Intents, Statuses
  <1>8. \A g \in BOOLEAN : Reconciled(d, g) \in Docs
    BY DEF Docs, Reconciled, Fail, ClearBackupRequest, Statuses
  <1>9. \A s \in BOOLEAN : [d EXCEPT !.stop = s] \in Docs
    BY DEF Docs
  <1>10. \A i \in Intents : [d EXCEPT !.intent = i] \in Docs
    BY DEF Docs
  <1>11. \A l \in DSeq \cup {NoDSeq} : [d EXCEPT !.lease = l] \in Docs
    BY DEF Docs
  <1> QED BY <1>1, <1>2, <1>3, <1>4, <1>5, <1>6, <1>7, <1>8, <1>9, <1>10, <1>11

\* Writing a document keeps the document and its stamps well typed.
LEMMA SetDocType ==
    ASSUME TypeOK, NEW d \in Docs, SetDoc(d)
    PROVE  /\ doc' \in Docs
           /\ clock' \in [status : BOOLEAN, request : BOOLEAN]
           /\ used' \subseteq ReqID
  BY DEF TypeOK, SetDoc, Docs

\* A handler that writes a document keeps every field SetDoc and Write touch well typed.
LEMMA WriteType ==
    ASSUME TypeOK, NEW d \in Docs, Write(d)
    PROVE  /\ doc' \in Docs
           /\ clock' \in [status : BOOLEAN, request : BOOLEAN]
           /\ used' \subseteq ReqID
           /\ budget' \in Int
  BY SetDocType DEF Write, TypeOK

\* Whatever identity is drawn, a halt's, a start's or a backup's document is one.
LEMMA HandlersType ==
    ASSUME TypeOK, NEW d \in Docs, NEW id \in NewID
    PROVE  /\ id \in ReqID \cup {NoReq}
           /\ BeginHalt(d, id) \in Docs
           /\ OperatorBackup(d, id) \in Docs
  <1>1. id \in ReqID \cup {NoReq}
    BY DEF NewID
  <1>2. \A e \in Docs : AskBackup(e, id) \in Docs
    BY <1>1, MutatorsType DEF AskBackup, Statuses
  <1>3. BeginHalt(d, id) \in Docs
    <2>1. Stopped(d) \in Docs
      BY MutatorsType
    <2>2. SetStatus(Stopped(d), "stopping") \in Docs
      BY <2>1, MutatorsType DEF Statuses
    <2> QED BY <1>2, <2>1, <2>2 DEF BeginHalt
  <1>4. OperatorBackup(d, id) \in Docs
    BY <1>2 DEF OperatorBackup
  <1> QED BY <1>1, <1>2, <1>3, <1>4

\* The documents a default, an adoption or a scheduled stop makes are ones too.
LEMMA NewDocType == NewDoc \in Docs
  BY DEF NewDoc, Docs, Statuses, Intents

\* Adopting what the provider lists leaves a document, whichever deployment it takes.
LEMMA AdoptType ==
    ASSUME NEW d \in Docs, NEW found \in AdoptResults
    PROVE  AdoptInto(d, found) \subseteq Docs
  <1>1. found \subseteq DSeq
    BY DEF AdoptResults
  <1>2. \A l \in found : Fail([d EXCEPT !.lease = l]) \in Docs
    BY <1>1 DEF Docs, Fail, Statuses
  <1> QED BY <1>2 DEF AdoptInto

\* A stop_at trigger leaves a document.
LEMMA ScheduledType ==
    ASSUME TypeOK
    PROVE  Scheduled \subseteq Docs
  BY MutatorsType DEF Scheduled, TypeOK

\* An agent that has just started is one.
LEMMA NewAgentType == NewAgent \in Agents
  BY DEF NewAgent, Agents, Phases

\* What the handlers set in the loop's memory is still a memory.
LEMMA MemoryType ==
    ASSUME NEW m \in Memories
    PROVE  /\ \A k \in Nat : [m EXCEPT !.attempts = k] \in Memories
           /\ \A c \in 0 .. MaxCloseAttempts : [m EXCEPT !.closes = c] \in Memories
           /\ \A c \in 0 .. MaxCloseAttempts :
                 [m EXCEPT !.closes = c, !.attempts = 0] \in Memories
           /\ \A a \in SUBSET Triggers : [m EXCEPT !.acts = a] \in Memories
           /\ [m EXCEPT !.acts = {}, !.attempts = 0] \in Memories
           /\ \A r \in Reports : [m EXCEPT !.seen = r] \in Memories
  <1>1. \A k \in Nat : [m EXCEPT !.attempts = k] \in Memories
    BY DEF Memories
  <1>2. \A c \in 0 .. MaxCloseAttempts : [m EXCEPT !.closes = c] \in Memories
    BY DEF Memories
  <1>3. \A c \in 0 .. MaxCloseAttempts :
          [m EXCEPT !.closes = c, !.attempts = 0] \in Memories
    BY <1>2 DEF Memories
  <1>4. \A a \in SUBSET Triggers : [m EXCEPT !.acts = a] \in Memories
    BY DEF Memories
  <1>5. [m EXCEPT !.acts = {}, !.attempts = 0] \in Memories
    BY <1>4 DEF Memories
  <1>6. \A r \in Reports : [m EXCEPT !.seen = r] \in Memories
    BY DEF Memories
  <1> QED BY <1>1, <1>2, <1>3, <1>4, <1>5, <1>6

\* A close's document is one and its job is a job.
LEMMA CloseType ==
    ASSUME TypeOK, NEW d \in Docs, NEW j \in Jobs, Close(d, j)
    PROVE  /\ doc' \in Docs
           /\ clock' \in [status : BOOLEAN, request : BOOLEAN]
           /\ used' \subseteq ReqID
           /\ budget' \in Int
           /\ job' \in Jobs
  <1>1. BeginClose(d) \in Docs
    BY MutatorsType
  <1>2. Write(BeginClose(d))
    BY DEF Close
  <1>3. d.lease \in DSeq \cup {NoDSeq}
    BY DEF Docs
  <1>4. [kind |-> "close", dseq |-> d.lease, state |-> "running"] \in Jobs
    BY <1>3 DEF Jobs
  <1>5. job' \in Jobs
    BY <1>4 DEF Close
  <1> QED BY <1>1, <1>2, <1>5, WriteType

\* One step of advance keeps the documents, the job and the counters well typed.
LEMMA AdvanceType ==
    ASSUME TypeOK, Advance
    PROVE  /\ doc' \in Docs
           /\ clock' \in [status : BOOLEAN, request : BOOLEAN]
           /\ used' \subseteq ReqID
           /\ budget' \in Int
           /\ job' \in Jobs
           /\ mem' \in Memories
           /\ pc' = "flush"
  <1> DEFINE Good == /\ doc' \in Docs
                     /\ clock' \in [status : BOOLEAN, request : BOOLEAN]
                     /\ used' \subseteq ReqID
                     /\ budget' \in Int
                     /\ job' \in Jobs
  <1> USE DEF docVars
  <1>1. doc \in Docs /\ job \in Jobs
    BY DEF TypeOK
  <1>2. ASSUME Quiet PROVE Good
    BY <1>2 DEF Quiet, TypeOK
  <1>3. ASSUME NEW d \in Docs, Write(d), UNCHANGED job PROVE Good
    BY <1>3, WriteType DEF TypeOK
  <1>4. ASSUME NEW d \in Docs, Close(d, job) PROVE Good
    BY <1>4, <1>1, CloseType
  <1>5. \A id \in NewID : BeginHalt(doc, id) \in Docs
    BY <1>1, HandlersType
  <1>6. \A to \in Statuses : SetStatus(doc, to) \in Docs
    BY <1>1, MutatorsType
  <1>7. ClearBackupRequest(doc) \in Docs /\ Fail(doc) \in Docs
    BY <1>1, MutatorsType
  <1> HIDE DEF Good
  <1>8. Good
    <2>1. CASE AdvanceOffline
      BY <2>1, <1>2 DEF AdvanceOffline
    <2>2. CASE AdvanceDeploying
      <3>1. CASE Quiet
        BY <3>1, <1>2
      <3>2. CASE \E found \in AdoptResults : \E d \in AdoptInto(doc, found) :
                    /\ Write(IF d.lease = NoDSeq /\ d.status = "deploying"
                              THEN [SetStatus(d, "offline") EXCEPT !.intent = "stopped"] ELSE d)
                    /\ UNCHANGED job
        <4>0. PICK found \in AdoptResults : \E d \in AdoptInto(doc, found) :
                 /\ Write(IF d.lease = NoDSeq /\ d.status = "deploying"
                           THEN [SetStatus(d, "offline") EXCEPT !.intent = "stopped"] ELSE d)
                 /\ UNCHANGED job
          BY <3>2
        <4>1. PICK d \in AdoptInto(doc, found) :
                 /\ Write(IF d.lease = NoDSeq /\ d.status = "deploying"
                           THEN [SetStatus(d, "offline") EXCEPT !.intent = "stopped"] ELSE d)
                 /\ UNCHANGED job
          BY <4>0
        <4>2. d \in Docs
          BY <1>1, AdoptType
        <4>3. SetStatus(d, "offline") \in Docs
          BY <4>2, MutatorsType DEF Statuses
        <4>4. [SetStatus(d, "offline") EXCEPT !.intent = "stopped"] \in Docs
          BY <4>3, MutatorsType DEF Intents
        <4> QED BY <4>1, <4>2, <4>4, <1>3
      <3> QED BY <2>2, <3>1, <3>2 DEF AdvanceDeploying
    <2>3. CASE AdvanceBooting
      BY <2>3, <1>1, <1>3, <1>5, <1>6, <1>7 DEF AdvanceBooting, Statuses
    <2>4. CASE AdvanceOnline
      <3>1. \A id \in ReqID \cup {NoReq} : AskBackup(doc, id) \in Docs
        BY <1>1, MutatorsType DEF AskBackup, Statuses
      <3>2. NewID \cup {NoReq} \subseteq ReqID \cup {NoReq}
        BY DEF NewID
      <3> QED BY <2>4, <3>1, <3>2, <1>3, <1>5, <1>6 DEF AdvanceOnline, Statuses
    <2>5. CASE AdvanceBackingUp
      <3>1. SetStatus(ClearBackupRequest(doc), "online") \in Docs
        BY <1>7, MutatorsType DEF Statuses
      <3> QED BY <2>5, <3>1, <1>1, <1>3, <1>5 DEF AdvanceBackingUp
    <2>6. CASE AdvanceStopping
      BY <2>6, <1>1, <1>3, <1>4, <1>7 DEF AdvanceStopping
    <2>7. CASE AdvanceClosing
      BY <2>7, <1>1, <1>2, <1>4 DEF AdvanceClosing
    <2>8. CASE AdvanceFailed
      BY <2>8, <1>1, <1>2, <1>4 DEF AdvanceFailed
    <2> QED BY <2>1, <2>2, <2>3, <2>4, <2>5, <2>6, <2>7, <2>8 DEF Advance
  <1>9. mem' \in {mem, [mem EXCEPT !.attempts = 0]}
    BY DEF Advance, AdvanceOffline, AdvanceDeploying, AdvanceBooting, AdvanceOnline,
           AdvanceBackingUp, AdvanceStopping, AdvanceClosing, AdvanceFailed, Quiet
  <1>10. pc' = "flush"
    BY DEF Advance, AdvanceOffline, AdvanceDeploying, AdvanceBooting, AdvanceOnline,
           AdvanceBackingUp, AdvanceStopping, AdvanceClosing, AdvanceFailed, Advancing
  <1>11. mem \in Memories
    BY DEF TypeOK
  <1>12. mem' \in Memories
    BY <1>9, <1>11, MemoryType
  <1> QED BY <1>8, <1>10, <1>12 DEF Good

-----------------------------------------------------------------------------
(* The shape of the state is an invariant.                                 *)

\* The initial state is well typed.
LEMMA TypeInit == Init => TypeOK
  BY NoDSeqAssumption, BoundsAssumption, AttemptsAssumption
     DEF Init, TypeOK, NewDoc, NoReport, NoJob, NewAgent, Fresh, Docs, Reports, Jobs,
         Agents, DepStates, Statuses, Intents, Phases, Memories

\* Every step that touches the loop's memory leaves a memory.
LEMMA MemoryStep ==
    ASSUME TypeOK, [Next]_vars
    PROVE  mem' \in Memories
  <1>0. /\ mem \in Memories /\ report \in Reports
        /\ triggers \in SUBSET Triggers /\ {} \in SUBSET Triggers
        /\ 0 \in 0 .. MaxCloseAttempts
    BY AttemptsAssumption DEF TypeOK
  <1>1. CASE Load \/ LoadCorrupt
    BY <1>0, <1>1, MemoryType DEF Load, LoadCorrupt
  <1>2. CASE Poll
    <2>1. \/ mem' = mem
          \/ mem' = [mem EXCEPT !.seen = report]
          \/ mem' = [mem EXCEPT !.seen = report, !.acts = triggers]
      <3>1. CASE PollFails
        BY <3>1 DEF PollFails
      <3>2. CASE PollTakesNothing
        BY <3>2 DEF PollTakesNothing
      <3>3. CASE PollTakesTriggers
        BY <3>3 DEF PollTakesTriggers
      <3> QED BY <1>2, <3>1, <3>2, <3>3 DEF Poll
    <2>2. [mem EXCEPT !.seen = report] \in Memories
      BY <1>0, MemoryType
    <2>3. [mem EXCEPT !.seen = report, !.acts = triggers] \in Memories
      BY <1>0 DEF Memories
    <2> QED BY <2>1, <2>2, <2>3, <1>0
  <1>3. CASE Act
    <2>1. CASE ActHalt
      BY <2>1, <1>0, MemoryType DEF ActHalt
    <2>2. CASE ActStart
      BY <2>2, <1>0, MemoryType DEF ActStart
    <2>3. CASE ActOther
      <3>1. mem.attempts \in Nat
        BY <1>0 DEF Memories
      <3>2. [mem EXCEPT !.acts = {}] \in Memories
        BY <1>0, MemoryType
      <3>3. \/ mem' = [mem EXCEPT !.acts = {}, !.attempts = 0]
            \/ mem' = [mem EXCEPT !.acts = {}, !.attempts = mem.attempts]
        BY <2>3 DEF ActOther
      <3>4. [mem EXCEPT !.acts = {}, !.attempts = mem.attempts] \in Memories
        BY <1>0, <3>1, <3>2 DEF Memories
      <3> QED BY <3>3, <3>4, <1>0, MemoryType
    <2> QED BY <1>3, <2>1, <2>2, <2>3 DEF Act
  <1>4. CASE Launch
    <2>1. mem.attempts + 1 \in Nat
      BY <1>0 DEF Memories
    <2>2. mem' = [mem EXCEPT !.attempts = mem.attempts + 1]
      BY <1>4 DEF Launch
    <2> QED BY <2>1, <2>2, <1>0, MemoryType
  <1>5. CASE Advance
    BY <1>5, AdvanceType
  <1>6. CASE OnDeployResult
    <2>1. mem' \in {mem, [mem EXCEPT !.attempts = 0]}
      BY <1>6 DEF OnDeployResult
    <2> QED BY <2>1, <1>0, MemoryType
  <1>7. CASE OnCloseOk
    <2>1. mem' \in {[mem EXCEPT !.closes = 0], [mem EXCEPT !.closes = 0, !.attempts = 0]}
      BY <1>7 DEF OnCloseOk
    <2> QED BY <2>1, <1>0, MemoryType
  <1>8. CASE OnCloseError
    <2> DEFINE closes == IF mem.closes < MaxCloseAttempts THEN mem.closes + 1 ELSE mem.closes
    <2>1. closes \in 0 .. MaxCloseAttempts
      BY <1>0, AttemptsAssumption DEF Memories
    <2>2. mem' \in {[mem EXCEPT !.closes = closes, !.attempts = 0],
                    [mem EXCEPT !.closes = closes]}
      BY <1>8 DEF OnCloseError
    <2> HIDE DEF closes
    <2> QED BY <2>1, <2>2, <1>0, MemoryType
  <1>9. CASE Crash
    BY <1>0, <1>9, MemoryType DEF Crash, Fresh, Memories, Reports, NoReport, Phases
  <1>10. CASE UNCHANGED mem
    BY <1>10, <1>0
  <1>11. ASSUME \/ Tick \/ Flush \/ FlushTimer \/ JobStep \/ AgentStep
                \/ \E d \in DSeq : ProviderKills(d)
                \/ \E t \in Triggers : Push(t)
                \/ TimePasses \/ UNCHANGED vars
         PROVE  UNCHANGED mem
    BY <1>11 DEF Tick, Flush, FlushTimer, JobStep, JobCreates, JobCreateLost, JobLeases,
         JobDeployed, JobDeployFails, JobCloses, jobOnly, AgentStep, AgentReads, AgentMoves,
         AgentBegins, AgentAnswers, AgentPublishes, AgentBoots, agentOnly,
         ProviderKills, Push, TimePasses, vars
  <1> QED BY <1>1, <1>2, <1>3, <1>4, <1>5, <1>6, <1>7, <1>8, <1>9, <1>10, <1>11 DEF Next

\* Every step, one action at a time, keeps the state well typed.
LEMMA TypeStep == TypeOK /\ [Next]_vars => TypeOK'
  <1> SUFFICES ASSUME TypeOK, [Next]_vars PROVE TypeOK'
    OBVIOUS
  <1> USE DEF docVars, gitVars, worldVars, bounds
  <1>0. mem' \in Memories
    BY MemoryStep
  <1>1. CASE Load
    <2>1. PICK gone \in BOOLEAN : Write(Reconciled(doc, gone))
      BY <1>1 DEF Load
    <2>2. Reconciled(doc, gone) \in Docs
      BY MutatorsType DEF TypeOK
    <2> QED BY <1>1, <2>1, <2>2, <1>0, WriteType DEF Load, TypeOK
  <1>2. CASE LoadCorrupt
    <2>1. PICK base \in {doc, NewDoc}, found \in AdoptResults :
             \E d \in AdoptInto(base, found), gone \in BOOLEAN :
                Write(Reconciled(d, gone)) /\ pub' = base
      BY <1>2 DEF LoadCorrupt
    <2>2. PICK d \in AdoptInto(base, found), gone \in BOOLEAN :
             Write(Reconciled(d, gone)) /\ pub' = base
      BY <2>1
    <2>3. base \in Docs
      BY NewDocType DEF TypeOK
    <2>4. Reconciled(d, gone) \in Docs
      BY <2>3, AdoptType, MutatorsType
    <2> QED BY <1>2, <2>2, <2>3, <2>4, <1>0, WriteType DEF LoadCorrupt, TypeOK
  <1>3. CASE Poll
    BY <1>0, <1>3 DEF Poll, PollFails, PollTakesNothing, PollTakesTriggers, TypeOK
  <1>4. CASE Act
    <2>1. CASE ActHalt
      <3>1. PICK d \in Scheduled, id \in NewID : Write(BeginHalt(d, id))
        BY <2>1 DEF ActHalt
      <3>2. BeginHalt(d, id) \in Docs
        BY ScheduledType, HandlersType
      <3>3. job' \in Jobs
        BY <2>1 DEF ActHalt, TypeOK, Jobs
      <3> QED BY <2>1, <3>1, <3>2, <3>3, <1>0, WriteType DEF ActHalt, TypeOK
    <2>2. CASE ActStart
      <3>1. PICK d \in Scheduled : SetDoc(BeginDeploy(d))
        BY <2>2 DEF ActStart
      <3>2. BeginDeploy(d) \in Docs
        BY ScheduledType, MutatorsType
      <3>3. pc' \in {"launch", "advance"}
        BY <2>2 DEF ActStart
      <3> QED BY <2>2, <3>1, <3>2, <3>3, <1>0, SetDocType, AttemptsAssumption DEF ActStart, TypeOK
    <2>3. CASE ActOther
      <3>1. PICK d \in Scheduled, id \in NewID :
               Write(IF "backup" \in mem.acts THEN OperatorBackup(d, id) ELSE d)
        BY <2>3 DEF ActOther
      <3>2. d \in Docs /\ OperatorBackup(d, id) \in Docs
        BY ScheduledType, HandlersType
      <3> QED BY <2>3, <3>1, <3>2, <1>0, WriteType DEF ActOther, TypeOK
    <2> QED BY <1>4, <2>1, <2>2, <2>3 DEF Act
  <1>5. CASE Launch
    BY <1>0, <1>5 DEF Launch, FlushNow, TypeOK, Jobs
  <1>6. CASE Advance
    BY <1>0, <1>6, AdvanceType DEF Advance, TypeOK
  <1>7. CASE OnDeployResult
    <2>1. LeaseRecorded \in Docs
      BY MutatorsType DEF LeaseRecorded, TypeOK, Jobs
    <2>2. NoJob \in Jobs
      BY DEF NoJob, Jobs
    <2>3. pc' \in {"flush", "advance"}
      BY <1>7 DEF OnDeployResult
    <2>4. /\ doc' \in Docs /\ job' \in Jobs /\ budget' \in Int
          /\ clock' \in [status : BOOLEAN, request : BOOLEAN]
          /\ used' \subseteq ReqID
      <3>1. CASE Close(LeaseRecorded, NoJob)
        BY <3>1, <2>1, <2>2, CloseType
      <3>2. CASE Write(Fail(LeaseRecorded)) /\ job' = NoJob
        BY <3>2, <2>1, <2>2, MutatorsType, WriteType
      <3>3. CASE Write(SetStatus(LeaseRecorded, "booting")) /\ job' = NoJob
        <4>1. SetStatus(LeaseRecorded, "booting") \in Docs
          BY <2>1, MutatorsType DEF Statuses
        <4> QED BY <3>3, <4>1, <2>2, WriteType
      <3> QED BY <1>7, <3>1, <3>2, <3>3 DEF OnDeployResult
    <2> QED BY <1>0, <1>7, <2>3, <2>4 DEF OnDeployResult, TypeOK
  <1>8. CASE OnCloseOk
    <2> DEFINE d == SetStatus([doc EXCEPT !.lease = NoDSeq], "offline")
    <2>1. d \in Docs
      BY MutatorsType DEF TypeOK, Statuses
    <2>2. BeginDeploy(d) \in Docs /\ [d EXCEPT !.intent = "stopped"] \in Docs
      BY <2>1, MutatorsType DEF Intents
    <2>3. Write(BeginDeploy(d)) \/ Write([d EXCEPT !.intent = "stopped"])
      BY <1>8 DEF OnCloseOk
    <2>4. /\ job' = NoJob
          /\ pc' \in {"launch", "flush", "advance"}
          /\ UNCHANGED <<gitVars, worldVars, bounds>>
      BY <1>8 DEF OnCloseOk
    <2> HIDE DEF d
    <2>5. doc' \in Docs /\ budget' \in Int /\ used' \subseteq ReqID
            /\ clock' \in [status : BOOLEAN, request : BOOLEAN]
      BY <2>2, <2>3, WriteType
    <2>6. job' \in Jobs
      BY <2>4 DEF Jobs, NoJob
    <2> QED BY <1>0, <2>4, <2>5, <2>6 DEF TypeOK
  <1>9. CASE OnCloseError
    <2>1. Write(Fail(doc)) \/ Write(doc)
      BY <1>9 DEF OnCloseError
    <2>2. Fail(doc) \in Docs /\ doc \in Docs
      BY MutatorsType DEF TypeOK
    <2>3. job' \in Jobs /\ pc' = "flush" /\ UNCHANGED <<gitVars, worldVars, bounds>>
      BY <1>9 DEF OnCloseError, Jobs, NoJob
    <2> QED BY <1>0, <2>1, <2>2, <2>3, WriteType DEF TypeOK
  <1>10. CASE Tick \/ Flush \/ FlushTimer
    BY <1>0, <1>10 DEF Tick, Flush, FlushTimer, TypeOK
  <1>11. CASE JobStep
    <2>1. /\ job' \in Jobs
          /\ dep' \in [DSeq -> DepStates]
          /\ agent' \in [DSeq -> Agents]
      BY <1>11, NewAgentType
         DEF JobStep, JobCreates, JobCreateLost, JobLeases, JobDeployed, JobDeployFails,
             JobCloses, TypeOK, Jobs, DepStates
    <2>2. UNCHANGED <<docVars, gitVars, bounds, pc, mem, budget, answeredBy>>
      BY <1>11 DEF JobStep, JobCreates, JobCreateLost, JobLeases, JobDeployed,
             JobDeployFails, JobCloses, jobOnly
    <2> QED BY <1>0, <2>1, <2>2 DEF TypeOK
  <1>12. CASE AgentStep
    <2>1. PICK d \in DSeq : \/ AgentReads(d) \/ AgentMoves(d) \/ AgentBegins(d)
                            \/ AgentAnswers(d) \/ AgentPublishes(d) \/ AgentBoots(d)
      BY <1>12 DEF AgentStep
    <2>3. agent' \in [DSeq -> Agents]
      <3>1. CASE AgentReads(d) \/ AgentMoves(d) \/ AgentBegins(d) \/ AgentAnswers(d)
        BY <3>1, PhasesAssumption
           DEF AgentReads, AgentMoves, AgentBegins, AgentAnswers, TypeOK, Agents, Docs
      <3>2. CASE AgentPublishes(d)
        BY <3>2 DEF AgentPublishes, TypeOK
      <3>3. CASE AgentBoots(d)
        <4>1. PICK answer \in {report.answered, NoReq} :
                agent' = [agent EXCEPT ![d] = [NewAgent EXCEPT !.as = pub.lease, !.answered = answer]]
          BY <3>3 DEF AgentBoots
        <4>2. [NewAgent EXCEPT !.as = pub.lease, !.answered = answer] \in Agents
          BY <4>1, NewAgentType DEF TypeOK, Agents, Reports, Docs, Phases
        <4> QED BY <4>1, <4>2 DEF TypeOK
      <3> QED BY <2>1, <3>1, <3>2, <3>3
    <2>4. report' \in Reports
      BY <2>1 DEF AgentReads, AgentMoves, AgentBegins, AgentAnswers, AgentPublishes,
         AgentBoots, TypeOK, Agents, Reports
    <2>5. answeredBy' \in [ReqID -> DSeq \cup {NoDSeq}]
      BY <2>1 DEF AgentReads, AgentMoves, AgentBegins, AgentAnswers, AgentPublishes,
         AgentBoots, TypeOK, Docs
    <2>2. UNCHANGED <<docVars, pub, triggers, bounds, pc, job, mem, budget, dep>>
      BY <1>12 DEF AgentStep, AgentReads, AgentMoves, AgentBegins, AgentAnswers, AgentPublishes,
         AgentBoots, agentOnly
    <2> QED BY <1>0, <2>2, <2>3, <2>4, <2>5 DEF TypeOK
  <1>13. CASE \E d \in DSeq : ProviderKills(d)
    BY <1>0, <1>13 DEF ProviderKills, TypeOK, DepStates, NewAgent, Agents, Phases
  <1>14. CASE \E t \in Triggers : Push(t)
    BY <1>0, <1>14, BoundsAssumption DEF Push, TypeOK
  <1>15. CASE TimePasses
    BY <1>0, <1>15 DEF TimePasses, TypeOK
  <1>16. CASE Crash
    BY <1>0, <1>16, BoundsAssumption, AttemptsAssumption
       DEF Crash, TypeOK, NoJob, Fresh, NoReport, Jobs, Reports, Phases
  <1>17. CASE UNCHANGED vars
    BY <1>0, <1>17 DEF vars, TypeOK
  <1> QED
    BY <1>1, <1>2, <1>3, <1>4, <1>5, <1>6, <1>7, <1>8, <1>9, <1>10, <1>11, <1>12,
       <1>13, <1>14, <1>15, <1>16, <1>17 DEF Next

\* Whatever happens, the state keeps its shape: in particular the status is always
\* one of the eight, and the counters stay in their ranges.
THEOREM TypeCorrect == Spec => []TypeOK
  BY TypeInit, TypeStep, PTL DEF Spec

-----------------------------------------------------------------------------
(* What each operation on a document does to the fields the invariants     *)
(* relate.                                                                 *)

\* A halt never touches the lease, never wants the server running, and leaves the
\* statuses a job belongs to alone.
LEMMA HaltFacts ==
    ASSUME NEW d \in Docs, NEW id \in NewID
    PROVE  /\ BeginHalt(d, id).lease = d.lease
           /\ BeginHalt(d, id).intent = "stopped"
           /\ d.status \in {"deploying", "closing", "offline", "failed", "stopping"}
                => BeginHalt(d, id).status = d.status
           /\ d.status \in {"booting", "online", "backing_up"}
                => BeginHalt(d, id).status = "stopping"
  <1>1. /\ Stopped(d).lease = d.lease
        /\ Stopped(d).intent = "stopped"
        /\ Stopped(d).status = d.status
    BY DEF Stopped, Docs
  <1> DEFINE s == SetStatus(Stopped(d), "stopping")
  <1>2. s.lease = d.lease /\ s.intent = "stopped"
    BY <1>1, MutatorsType DEF SetStatus, Docs
  <1>3. d.status \in {"booting", "online", "backing_up"} => s.status = "stopping"
    BY <1>1, MutatorsType DEF SetStatus, CanTransition, Transitions, Docs
  <1>4. Stopped(d) \in Docs
    BY MutatorsType
  <1>5. s \in Docs
    BY <1>4, MutatorsType DEF Statuses
  <1> HIDE DEF s
  <1>6. s.status = "stopping" => /\ AskBackup(s, id).lease = s.lease
                                 /\ AskBackup(s, id).intent = s.intent
                                 /\ AskBackup(s, id).status = s.status
    BY <1>5 DEF AskBackup, RequestBackup, Docs
  <1>7. BeginHalt(d, id) =
          IF d.status \in {"stopping", "closing", "offline", "failed", "deploying"}
            THEN Stopped(d)
            ELSE IF s.status = "stopping" /\ OnHalt /\ ~Parked(Phase)
                   THEN AskBackup(s, id) ELSE s
    BY DEF BeginHalt, s
  <1> QED BY <1>1, <1>2, <1>3, <1>6, <1>7

\* Asking for a backup touches neither the lease nor the intent, and only takes an
\* online server to backing_up.
LEMMA BackupFacts ==
    ASSUME NEW d \in Docs, NEW id
    PROVE  /\ AskBackup(d, id).lease = d.lease
           /\ AskBackup(d, id).intent = d.intent
           /\ d.status # "online" => AskBackup(d, id).status = d.status
           /\ d.status = "online" => AskBackup(d, id).status \in {"online", "backing_up"}
           /\ OperatorBackup(d, id).lease = d.lease
           /\ OperatorBackup(d, id).intent = d.intent
           /\ d.status \notin {"online", "backing_up"} => OperatorBackup(d, id).status = d.status
           /\ d.status \in {"online", "backing_up"}
                => OperatorBackup(d, id).status \in {"online", "backing_up"}
  <1> DEFINE r == RequestBackup(d, id)
  <1>1. r.lease = d.lease /\ r.intent = d.intent /\ r.status = d.status
    BY DEF RequestBackup, Docs
  <1>2. SetStatus(r, "backing_up").lease = d.lease /\ SetStatus(r, "backing_up").intent = d.intent
    BY <1>1 DEF SetStatus, RequestBackup, Docs
  <1>3. SetStatus(r, "backing_up").status \in {r.status, "backing_up"}
    BY <1>1 DEF SetStatus, RequestBackup, Docs
  <1> HIDE DEF r
  <1>4. AskBackup(d, id) = IF d.status = "online" /\ r.request # d.request
                             THEN SetStatus(r, "backing_up") ELSE r
    BY DEF AskBackup, r
  <1>5. /\ AskBackup(d, id).lease = d.lease
        /\ AskBackup(d, id).intent = d.intent
        /\ d.status # "online" => AskBackup(d, id).status = d.status
        /\ d.status = "online" => AskBackup(d, id).status \in {"online", "backing_up"}
    BY <1>1, <1>2, <1>3, <1>4
  <1> QED BY <1>5 DEF OperatorBackup

\* A start wants the server running, keeps the lease, and deploys from offline.
LEMMA StartFacts ==
    ASSUME NEW d \in Docs
    PROVE  /\ BeginDeploy(d).lease = d.lease
           /\ BeginDeploy(d).intent = "running"
           /\ d.status \in {"offline", "failed"} => BeginDeploy(d).status = "deploying"
  BY DEF BeginDeploy, SetStatus, CanTransition, Transitions, Docs

\* A close keeps the intent or stops it, and closes the lease on record when there
\* is one and the status allows it.
LEMMA CloseFacts ==
    ASSUME NEW d \in Docs
    PROVE  /\ BeginClose(d).lease = d.lease
           /\ BeginClose(d).intent \in {d.intent, "stopped"}
           /\ d.lease = NoDSeq /\ d.status = "deploying" => BeginClose(d).status = "offline"
           /\ d.lease # NoDSeq /\ d.status \in {"deploying", "stopping", "closing"}
                => BeginClose(d).status = "closing"
           /\ BeginClose(d).status \in {"offline", "closing", d.status}
  <1>1. /\ ClearBackupRequest(d).lease = d.lease
        /\ ClearBackupRequest(d).intent = d.intent
        /\ ClearBackupRequest(d).status = d.status
    BY DEF ClearBackupRequest, Docs
  <1>2. CASE d.lease = NoDSeq
    <2>1. /\ BeginClose(d).lease = d.lease
          /\ BeginClose(d).intent = "stopped"
          /\ BeginClose(d).status = IF CanTransition(d.status, "offline") THEN "offline" ELSE d.status
      BY <1>1, <1>2 DEF BeginClose, SetStatus, ClearBackupRequest, Docs
    <2> QED BY <2>1, <1>2 DEF CanTransition, Transitions
  <1>3. CASE d.lease # NoDSeq
    <2>1. /\ BeginClose(d).lease = d.lease
          /\ BeginClose(d).intent = d.intent
          /\ BeginClose(d).status = IF CanTransition(d.status, "closing") THEN "closing" ELSE d.status
      BY <1>1, <1>3 DEF BeginClose, SetStatus, ClearBackupRequest, Docs
    <2> QED BY <2>1, <1>3 DEF CanTransition, Transitions
  <1> QED BY <1>2, <1>3

\* The small mutators.
LEMMA FieldFacts ==
    ASSUME NEW d \in Docs
    PROVE  /\ \A to \in Statuses : /\ SetStatus(d, to).lease = d.lease
                                   /\ SetStatus(d, to).intent = d.intent
                                   /\ SetStatus(d, to).status \in {d.status, to}
           /\ Fail(d).lease = d.lease /\ Fail(d).intent = d.intent /\ Fail(d).status = "failed"
           /\ ClearBackupRequest(d).lease = d.lease
           /\ ClearBackupRequest(d).intent = d.intent
           /\ ClearBackupRequest(d).status = d.status
           /\ \A g \in BOOLEAN : /\ Reconciled(d, g).intent = d.intent
                                 /\ Reconciled(d, g).lease \in {d.lease, NoDSeq}
                                 /\ Reconciled(d, g).status \in {d.status, "failed"}
  <1>1. \A to \in Statuses : /\ SetStatus(d, to).lease = d.lease
                             /\ SetStatus(d, to).intent = d.intent
                             /\ SetStatus(d, to).status \in {d.status, to}
    BY DEF SetStatus, Docs
  <1>2. Fail(d).lease = d.lease /\ Fail(d).intent = d.intent /\ Fail(d).status = "failed"
    BY DEF Fail, Docs
  <1>3. /\ ClearBackupRequest(d).lease = d.lease
        /\ ClearBackupRequest(d).intent = d.intent
        /\ ClearBackupRequest(d).status = d.status
    BY DEF ClearBackupRequest, Docs
  <1>4. \A g \in BOOLEAN : /\ Reconciled(d, g).intent = d.intent
                           /\ Reconciled(d, g).lease \in {d.lease, NoDSeq}
                           /\ Reconciled(d, g).status \in {d.status, "failed"}
    BY DEF Reconciled, Fail, ClearBackupRequest, Docs
  <1> QED BY <1>1, <1>2, <1>3, <1>4

\* What stop_at wrote before the triggers act is the same document otherwise.
LEMMA ScheduledFacts ==
    ASSUME TypeOK, NEW d \in Scheduled
    PROVE  d \in Docs /\ d.lease = doc.lease /\ d.intent = doc.intent /\ d.status = doc.status
  BY ScheduledType DEF Scheduled, TypeOK, Docs

-----------------------------------------------------------------------------
(* The document and the job.                                               *)

\* Inductive with the one fact a restart needs: no job outlives the process.
JobInv == JobMatchesStatus /\ (pc = "down" => job = NoJob)

\* A close makes exactly the job its document says.
LEMMA CloseJob ==
    ASSUME NEW d \in Docs, NEW j, j.kind = "none", Close(d, j)
    PROVE  /\ job'.kind # "deploy"
           /\ job'.kind = "close" => doc'.status = "closing" /\ doc'.lease = job'.dseq
  <1>1. doc' = BeginClose(d)
    BY DEF Close, Write, SetDoc
  <1>2. CASE d.lease # NoDSeq /\ BeginClose(d).status = "closing"
    <2>1. job' = [kind |-> "close", dseq |-> d.lease, state |-> "running"]
      BY <1>2 DEF Close
    <2> QED BY <1>1, <1>2, <2>1, CloseFacts
  <1>3. CASE ~(d.lease # NoDSeq /\ BeginClose(d).status = "closing")
    <2>1. job' = j
      BY <1>3 DEF Close
    <2> QED BY <2>1
  <1> QED BY <1>2, <1>3

\* A step that changes neither the document nor the step of the handler nor what
\* kind of job runs for which lease.
LEMMA JobInvKept ==
    ASSUME JobInv, UNCHANGED <<doc, pc>>, job'.kind = job.kind,
           job.kind = "close" => job'.dseq = job.dseq,
           job = NoJob => job' = NoJob
    PROVE  JobInv'
  BY DEF JobInv, JobMatchesStatus

\* While no job is of a kind, none has to match.
LEMMA JobInvNone ==
    ASSUME pc' \notin {"down", "launch"},
           job'.kind # "deploy",
           job'.kind = "close" => doc'.status = "closing" /\ doc'.lease = job'.dseq
    PROVE  JobInv'
  BY DEF JobInv, JobMatchesStatus

\* One step of advance: a job that is running is left alone, and only closing and
\* stopping start one.
LEMMA JobInvAdvance ==
    ASSUME TypeOK, JobInv, Advance
    PROVE  JobInv'
  <1>1. doc \in Docs /\ job \in Jobs
    BY DEF TypeOK
  <1>2. pc = "advance" /\ pc' = "flush"
    BY DEF Advance, AdvanceOffline, AdvanceDeploying, AdvanceBooting, AdvanceOnline,
           AdvanceBackingUp, AdvanceStopping, AdvanceClosing, AdvanceFailed, Advancing
  <1>3. ASSUME UNCHANGED <<doc, job>> PROVE JobInv'
    BY <1>2, <1>3 DEF JobInv, JobMatchesStatus
  <1>4. ASSUME doc.status \notin {"deploying", "closing"} PROVE job.kind = "none"
    BY <1>1, <1>4 DEF JobInv, JobMatchesStatus, Jobs
  <1>5. ASSUME doc.status \notin {"deploying", "closing"}, UNCHANGED job PROVE JobInv'
    BY <1>2, <1>4, <1>5, JobInvNone
  <1>6. ASSUME job = NoJob, UNCHANGED job PROVE JobInv'
    BY <1>2, <1>6, JobInvNone DEF NoJob
  <1>7. ASSUME NEW d \in Docs, job.kind = "none", Close(d, job) PROVE JobInv'
    BY <1>2, <1>7, CloseJob, JobInvNone
  <1>8. CASE AdvanceOffline
    BY <1>3, <1>8 DEF AdvanceOffline, Quiet, docVars
  <1>9. CASE AdvanceDeploying
    BY <1>3, <1>6, <1>9 DEF AdvanceDeploying, Quiet, docVars
  <1>10. CASE AdvanceBooting \/ AdvanceOnline \/ AdvanceBackingUp
    BY <1>5, <1>10 DEF AdvanceBooting, AdvanceOnline, AdvanceBackingUp, Advancing
  <1>11. CASE AdvanceStopping
    <2>1. doc.status = "stopping"
      BY <1>11 DEF AdvanceStopping, Advancing
    <2>2. UNCHANGED job \/ Close(ClearBackupRequest(doc), job)
      BY <1>11 DEF AdvanceStopping
    <2>3. ClearBackupRequest(doc) \in Docs
      BY <1>1, MutatorsType
    <2> QED BY <2>1, <2>2, <2>3, <1>4, <1>5, <1>7
  <1>12. CASE AdvanceClosing
    <2>1. CASE Quiet
      BY <1>3, <2>1 DEF Quiet, docVars
    <2>2. CASE job = NoJob /\ Close(doc, job)
      BY <1>1, <1>7, <2>2 DEF NoJob
    <2> QED BY <1>12, <2>1, <2>2 DEF AdvanceClosing
  <1>13. CASE AdvanceFailed
    <2>1. CASE Quiet
      BY <1>3, <2>1 DEF Quiet, docVars
    <2>2. CASE job = NoJob /\ Close(doc, job)
      BY <1>1, <1>7, <2>2 DEF NoJob
    <2> QED BY <1>13, <2>1, <2>2 DEF AdvanceFailed
  <1> QED BY <1>8, <1>9, <1>10, <1>11, <1>12, <1>13 DEF Advance

\* At first there is no job for the document to match.
LEMMA JobInvInit == Init => JobInv
  BY DEF Init, JobInv, JobMatchesStatus, NoJob

\* Every step keeps the job and the document in agreement, one action at a time.
LEMMA JobInvStep == TypeOK /\ JobInv /\ [Next]_vars => JobInv'
  <1> SUFFICES ASSUME TypeOK, JobInv, [Next]_vars PROVE JobInv'
    OBVIOUS
  <1> USE DEF docVars, gitVars, worldVars, bounds
  <1>1. doc \in Docs /\ job \in Jobs
    BY DEF TypeOK
  <1>2. CASE Load \/ LoadCorrupt
    <2>1. job' = NoJob /\ pc' = "poll"
      BY <1>2 DEF Load, LoadCorrupt, JobInv
    <2> QED BY <2>1, JobInvNone DEF NoJob
  <1>3. CASE Poll
    <2>1. UNCHANGED <<doc, job>> /\ pc' \in {"flush", "advance", "act"}
      BY <1>3 DEF Poll, PollFails, PollTakesNothing, PollTakesTriggers
    <2> QED BY <2>1 DEF JobInv, JobMatchesStatus
  <1>4. CASE Act
    <2>1. CASE ActHalt
      <3>1. PICK d \in Scheduled, id \in NewID : Write(BeginHalt(d, id))
        BY <2>1 DEF ActHalt
      <3>2. /\ doc'.lease = doc.lease
            /\ doc.status \in {"deploying", "closing"} => doc'.status = doc.status
        BY <3>1, ScheduledFacts, HaltFacts DEF Write, SetDoc
      <3>3. /\ pc' = "advance"
            /\ job' = job \/ job' = [job EXCEPT !.state = "cancelled"]
        BY <2>1 DEF ActHalt
      <3>4. job'.kind = job.kind /\ job'.dseq = job.dseq
        BY <1>1, <3>3 DEF Jobs
      <3> QED BY <3>2, <3>3, <3>4 DEF JobInv, JobMatchesStatus
    <2>2. CASE ActStart
      <3>1. PICK d \in Scheduled :
               /\ SetDoc(BeginDeploy(d))
               /\ pc' = IF BeginDeploy(d).status = "deploying" THEN "launch" ELSE "advance"
        BY <2>2 DEF ActStart
      <3>2. d.lease = NoDSeq /\ job = NoJob /\ job' = job
        BY <2>2, ScheduledFacts DEF ActStart, StartRefused
      <3>3. doc' = BeginDeploy(d) /\ doc'.lease = NoDSeq
        BY <3>1, <3>2, ScheduledFacts, StartFacts DEF SetDoc
      <3> QED BY <3>1, <3>2, <3>3 DEF JobInv, JobMatchesStatus, NoJob
    <2>3. CASE ActOther
      <3>1. PICK d \in Scheduled, id \in NewID :
               Write(IF "backup" \in mem.acts THEN OperatorBackup(d, id) ELSE d)
        BY <2>3 DEF ActOther
      <3>2. /\ doc'.lease = doc.lease
            /\ doc.status \in {"deploying", "closing"} => doc'.status = doc.status
        BY <3>1, ScheduledFacts, BackupFacts DEF Write, SetDoc
      <3>3. pc' = "advance" /\ job' = job
        BY <2>3 DEF ActOther
      <3> QED BY <3>2, <3>3 DEF JobInv, JobMatchesStatus
    <2> QED BY <1>4, <2>1, <2>2, <2>3 DEF Act
  <1>5. CASE Launch
    BY <1>5 DEF Launch, JobInv, JobMatchesStatus
  <1>6. CASE Advance
    BY <1>6, JobInvAdvance
  <1>7. CASE OnDeployResult
    <2>1. LeaseRecorded \in Docs
      BY <1>1, MutatorsType DEF LeaseRecorded, Jobs
    <2>2. NoJob.kind = "none" /\ pc' \in {"flush", "advance"}
      BY <1>7 DEF NoJob, OnDeployResult
    <2>3. Close(LeaseRecorded, NoJob) \/ job' = NoJob
      BY <1>7 DEF OnDeployResult
    <2>4. /\ job'.kind # "deploy"
          /\ job'.kind = "close" => doc'.status = "closing" /\ doc'.lease = job'.dseq
      BY <2>1, <2>2, <2>3, CloseJob
    <2> QED BY <2>2, <2>4, JobInvNone
  <1>8. CASE OnCloseOk
    <2> DEFINE d == SetStatus([doc EXCEPT !.lease = NoDSeq], "offline")
    <2>1. d \in Docs /\ d.lease = NoDSeq
      <3> DEFINE e == [doc EXCEPT !.lease = NoDSeq]
      <3>1. e \in Docs /\ e.lease = NoDSeq
        BY <1>1, MutatorsType DEF Docs
      <3>2. "offline" \in Statuses
        BY DEF Statuses
      <3> HIDE DEF e
      <3>3. SetStatus(e, "offline") \in Docs /\ SetStatus(e, "offline").lease = NoDSeq
        BY <3>1, <3>2, MutatorsType, FieldFacts
      <3> QED BY <3>3 DEF e
    <2>2. job' = NoJob
      BY <1>8 DEF OnCloseOk
    <2>3. \/ /\ doc' = BeginDeploy(d)
             /\ pc' = IF BeginDeploy(d).status = "deploying" THEN "launch" ELSE "flush"
          \/ pc' = "advance"
      BY <1>8 DEF OnCloseOk, Write, SetDoc
    <2> HIDE DEF d
    <2> QED BY <2>1, <2>2, <2>3, StartFacts DEF JobInv, JobMatchesStatus, NoJob
  <1>9. CASE OnCloseError
    <2>1. job' = NoJob /\ pc' = "flush"
      BY <1>9 DEF OnCloseError
    <2> QED BY <2>1, JobInvNone DEF NoJob
  <1>10. CASE Tick \/ Flush \/ FlushTimer
    <2>1. UNCHANGED <<doc, job>> /\ pc' \in {"advance", "idle"}
      BY <1>10 DEF Tick, Flush, FlushTimer
    <2> QED BY <2>1 DEF JobInv, JobMatchesStatus
  <1>11. CASE JobStep
    <2>1. UNCHANGED <<doc, pc>>
      BY <1>11 DEF JobStep, JobCreates, JobCreateLost, JobLeases, JobDeployed,
             JobDeployFails, JobCloses, jobOnly
    <2>2. job'.kind = job.kind /\ (job.kind = "close" => job'.dseq = job.dseq)
      <3>1. CASE \E d \in DSeq : JobCreates(d) \/ JobCreateLost(d)
        BY <1>1, <3>1 DEF JobCreates, JobCreateLost, Deploying, Jobs
      <3>2. CASE JobLeases \/ JobDeployed \/ JobDeployFails
        BY <1>1, <3>2 DEF JobLeases, JobDeployed, JobDeployFails, Deploying, Jobs
      <3>3. CASE JobCloses
        <4>1. \E s \in {"ok", "err"} : job' = [job EXCEPT !.state = s]
          BY <3>3 DEF JobCloses
        <4> QED BY <1>1, <4>1 DEF Jobs
      <3> QED BY <1>11, <3>1, <3>2, <3>3 DEF JobStep
    <2>3. job # NoJob
      BY <1>11 DEF JobStep, JobCreates, JobCreateLost, JobLeases, JobDeployed,
             JobDeployFails, JobCloses, Deploying, NoJob
    <2> QED BY <2>1, <2>2, <2>3, JobInvKept
  <1>12. CASE UNCHANGED <<doc, pc, job>>
    BY <1>12, JobInvKept
  <1>13. ASSUME \/ AgentStep
                \/ \E d \in DSeq : ProviderKills(d)
                \/ \E t \in Triggers : Push(t)
                \/ TimePasses \/ UNCHANGED vars
         PROVE  UNCHANGED <<doc, pc, job>>
    BY <1>13 DEF AgentStep, AgentReads, AgentMoves, AgentBegins, AgentAnswers, AgentPublishes,
         AgentBoots, agentOnly, ProviderKills, Push, TimePasses, vars
  <1>14. CASE Crash
    BY <1>14 DEF Crash, JobInv, JobMatchesStatus, NoJob
  <1> QED BY <1>2, <1>3, <1>4, <1>5, <1>6, <1>7, <1>8, <1>9, <1>10, <1>11, <1>12, <1>13,
             <1>14 DEF Next

\* The document and the job never disagree, whatever fails and however triggers,
\* results, ticks and restarts interleave: beginDeploy's refusals, beginClose's job
\* and the handlers that end one are enough.
THEOREM JobAlwaysMatches == Spec => []JobMatchesStatus
  <1>1. Init => TypeOK /\ JobInv
    BY TypeInit, JobInvInit
  <1>2. TypeOK /\ JobInv /\ [Next]_vars => TypeOK' /\ JobInv'
    BY TypeStep, JobInvStep
  <1>3. JobInv => JobMatchesStatus
    BY DEF JobInv
  <1> QED BY <1>1, <1>2, <1>3, PTL DEF Spec

-----------------------------------------------------------------------------
(* The launches an operator's ask pays for.                                *)

\* What remains of the ask and what was tried make up the whole of it, as long as
\* the server is wanted and a launch was tried; and a launch that comes next is
\* not the one too many.
CreditInv ==
    /\ pc = "launch" => /\ mem.attempts < MaxDeployAttempts
                        /\ budget + mem.attempts >= MaxDeployAttempts
    /\ doc.intent = "running" /\ mem.attempts > 0 => budget + mem.attempts >= MaxDeployAttempts
    /\ pc = "down" => mem.attempts = 0

\* Writing a document that does not want more than the last one keeps the credit.
LEMMA CreditWrite ==
    ASSUME TypeOK, CreditInv, NEW d \in Docs, Write(d),
           d.intent \in {doc.intent, "stopped"},
           mem'.attempts \in {mem.attempts, 0},
           pc' \notin {"launch", "down"}
    PROVE  CreditInv'
  BY DEF CreditInv, Write, SetDoc, TypeOK, Memories

\* So does a step that writes none.
LEMMA CreditKept ==
    ASSUME CreditInv, UNCHANGED <<doc, budget>>,
           mem'.attempts = mem.attempts, pc' \in {pc, "poll", "idle", "act", "advance", "flush"}
    PROVE  CreditInv'
  BY DEF CreditInv

\* advance never turns a stopped intent into a running one, so it keeps the credit.
LEMMA CreditAdvance ==
    ASSUME TypeOK, CreditInv, Advance
    PROVE  CreditInv'
  <1>1. doc \in Docs /\ mem \in Memories
    BY DEF TypeOK
  <1>2. pc = "advance" /\ pc' = "flush"
    BY DEF Advance, AdvanceOffline, AdvanceDeploying, AdvanceBooting, AdvanceOnline,
           AdvanceBackingUp, AdvanceStopping, AdvanceClosing, AdvanceFailed, Advancing
  <1>3. mem' \in {mem, [mem EXCEPT !.attempts = 0]}
    BY DEF Advance, AdvanceOffline, AdvanceDeploying, AdvanceBooting, AdvanceOnline,
           AdvanceBackingUp, AdvanceStopping, AdvanceClosing, AdvanceFailed, Quiet
  <1>4. mem'.attempts \in {mem.attempts, 0}
    BY <1>1, <1>3 DEF Memories
  <1>5. ASSUME Quiet PROVE CreditInv'
    BY <1>2, <1>5, CreditKept DEF Quiet, docVars
  <1>6. ASSUME NEW d \in Docs, Write(d), d.intent \in {doc.intent, "stopped"} PROVE CreditInv'
    BY <1>2, <1>4, <1>6, CreditWrite
  <1>7. ASSUME NEW d \in Docs, NEW j, d.intent = doc.intent, Close(d, j) PROVE CreditInv'
    <2>1. BeginClose(d) \in Docs /\ BeginClose(d).intent \in {doc.intent, "stopped"}
      BY <1>7, MutatorsType, CloseFacts
    <2>2. Write(BeginClose(d))
      BY <1>7 DEF Close
    <2> QED BY <2>1, <2>2, <1>6
  <1>8. ASSUME NEW id \in NewID, Write(BeginHalt(doc, id)) PROVE CreditInv'
    BY <1>1, <1>6, <1>8, HandlersType, HaltFacts
  <1>9. \A to \in Statuses : SetStatus(doc, to) \in Docs /\ SetStatus(doc, to).intent = doc.intent
    BY <1>1, MutatorsType, FieldFacts
  <1>10. /\ ClearBackupRequest(doc) \in Docs /\ ClearBackupRequest(doc).intent = doc.intent
         /\ Fail(doc) \in Docs /\ Fail(doc).intent = doc.intent
    BY <1>1, MutatorsType, FieldFacts
  <1>11. CASE AdvanceOffline
    BY <1>5, <1>11 DEF AdvanceOffline
  <1>12. CASE AdvanceDeploying
    <2>1. CASE Quiet
      BY <1>5, <2>1
    <2>2. CASE \E found \in AdoptResults : \E d \in AdoptInto(doc, found) :
                  Write(IF d.lease = NoDSeq /\ d.status = "deploying"
                          THEN [SetStatus(d, "offline") EXCEPT !.intent = "stopped"] ELSE d)
      <3>1. PICK found \in AdoptResults : \E d \in AdoptInto(doc, found) :
                  Write(IF d.lease = NoDSeq /\ d.status = "deploying"
                          THEN [SetStatus(d, "offline") EXCEPT !.intent = "stopped"] ELSE d)
        BY <2>2
      <3>2. PICK d \in AdoptInto(doc, found) :
                  Write(IF d.lease = NoDSeq /\ d.status = "deploying"
                          THEN [SetStatus(d, "offline") EXCEPT !.intent = "stopped"] ELSE d)
        BY <3>1
      <3>3. d \in Docs
        BY <1>1, AdoptType
      <3>4. d.intent = doc.intent
        BY <1>1 DEF AdoptInto, Fail, Docs
      <3>5. SetStatus(d, "offline") \in Docs
        BY <3>3, MutatorsType DEF Statuses
      <3>6. /\ [SetStatus(d, "offline") EXCEPT !.intent = "stopped"] \in Docs
            /\ [SetStatus(d, "offline") EXCEPT !.intent = "stopped"].intent = "stopped"
        BY <3>5, MutatorsType DEF Intents, Docs
      <3> QED BY <3>2, <3>3, <3>4, <3>6, <1>6
    <2> QED BY <1>12, <2>1, <2>2 DEF AdvanceDeploying
  <1>13. CASE AdvanceBooting
    BY <1>1, <1>6, <1>8, <1>9, <1>10, <1>13 DEF AdvanceBooting, Statuses
  <1>14. CASE AdvanceOnline
    <2>1. \A id \in NewID \cup {NoReq} : AskBackup(doc, id) \in Docs
      <3>1. NewID \subseteq ReqID \cup {NoReq}
        BY DEF NewID
      <3> QED BY <1>1, <3>1, MutatorsType DEF AskBackup, Statuses
    <2>2. \A id : AskBackup(doc, id).intent = doc.intent
      BY <1>1, BackupFacts
    <2> QED BY <2>1, <2>2, <1>6, <1>8, <1>9, <1>14 DEF AdvanceOnline, Statuses
  <1>15. CASE AdvanceBackingUp
    <2>1. /\ SetStatus(ClearBackupRequest(doc), "online") \in Docs
          /\ SetStatus(ClearBackupRequest(doc), "online").intent = doc.intent
      BY <1>10, MutatorsType, FieldFacts DEF Statuses
    <2> QED BY <2>1, <1>1, <1>6, <1>8, <1>15 DEF AdvanceBackingUp
  <1>16. CASE AdvanceStopping
    BY <1>1, <1>6, <1>7, <1>10, <1>16 DEF AdvanceStopping
  <1>17. CASE AdvanceClosing
    BY <1>1, <1>5, <1>7, <1>17 DEF AdvanceClosing
  <1>18. CASE AdvanceFailed
    BY <1>1, <1>5, <1>7, <1>18 DEF AdvanceFailed
  <1> QED BY <1>11, <1>12, <1>13, <1>14, <1>15, <1>16, <1>17, <1>18 DEF Advance

\* At first nothing is launching and nothing is authorised.
LEMMA CreditInit == Init => CreditInv
  BY DEF Init, CreditInv, NewDoc, Fresh

\* Every step keeps a pending launch or retry paid for, one action at a time.
LEMMA CreditStep == TypeOK /\ CreditInv /\ [Next]_vars => CreditInv'
  <1> SUFFICES ASSUME TypeOK, CreditInv, [Next]_vars PROVE CreditInv'
    OBVIOUS
  <1> USE DEF docVars, gitVars, worldVars, bounds
  <1>1. doc \in Docs /\ job \in Jobs /\ mem \in Memories /\ budget \in Int
    BY DEF TypeOK
  <1>2. CASE Load \/ LoadCorrupt
    <2>1. pc = "down" /\ pc' = "poll" /\ mem' = [mem EXCEPT !.seen = report]
      BY <1>2 DEF Load, LoadCorrupt
    <2> QED BY <1>1, <2>1 DEF CreditInv, Memories
  <1>3. CASE Poll
    <2>1. UNCHANGED <<doc, budget>> /\ pc' \in {"flush", "advance", "act"}
      BY <1>3 DEF Poll, PollFails, PollTakesNothing, PollTakesTriggers
    <2>2. mem'.attempts = mem.attempts
      <3>1. CASE PollFails
        BY <3>1 DEF PollFails
      <3>2. CASE PollTakesNothing
        BY <3>2, <1>1 DEF PollTakesNothing, Memories
      <3>3. CASE PollTakesTriggers
        BY <3>3, <1>1 DEF PollTakesTriggers, Memories
      <3> QED BY <1>3, <3>1, <3>2, <3>3 DEF Poll
    <2> QED BY <2>1, <2>2, CreditKept
  <1>4. CASE Act
    <2>1. CASE ActHalt
      <3>1. PICK d \in Scheduled, id \in NewID : Write(BeginHalt(d, id))
        BY <2>1 DEF ActHalt
      <3>2. BeginHalt(d, id) \in Docs /\ BeginHalt(d, id).intent = "stopped"
        BY ScheduledFacts, HandlersType, HaltFacts
      <3>3. pc' = "advance" /\ mem'.attempts = mem.attempts
        BY <1>1, <2>1 DEF ActHalt, Memories
      <3> QED BY <3>1, <3>2, <3>3, CreditWrite
    <2>2. CASE ActStart
      <3>1. pc' \in {"launch", "advance"} /\ budget' = MaxDeployAttempts
        BY <2>2 DEF ActStart
      <3>2. mem'.attempts = 0
        BY <1>1, <2>2 DEF ActStart, Memories
      <3> QED BY <3>1, <3>2, AttemptsAssumption DEF CreditInv
    <2>3. CASE ActOther
      <3>1. PICK d \in Scheduled, id \in NewID :
               Write(IF "backup" \in mem.acts THEN OperatorBackup(d, id) ELSE d)
        BY <2>3 DEF ActOther
      <3>2. /\ d \in Docs /\ d.intent = doc.intent
            /\ OperatorBackup(d, id) \in Docs /\ OperatorBackup(d, id).intent = doc.intent
        BY ScheduledFacts, HandlersType, BackupFacts
      <3>3. pc' = "advance" /\ mem'.attempts \in {mem.attempts, 0}
        BY <1>1, <2>3 DEF ActOther, Memories
      <3> QED BY <3>1, <3>2, <3>3, CreditWrite
    <2> QED BY <1>4, <2>1, <2>2, <2>3 DEF Act
  <1>5. CASE Launch
    <2>1. /\ pc = "launch" /\ pc' = "flush" /\ doc' = doc /\ budget' = budget - 1
          /\ mem' = [mem EXCEPT !.attempts = mem.attempts + 1]
      BY <1>5 DEF Launch
    <2>2. mem'.attempts = mem.attempts + 1 /\ mem.attempts \in Nat
      BY <1>1, <2>1 DEF Memories
    <2>3. budget' + mem'.attempts = budget + mem.attempts
      BY <1>1, <2>1, <2>2
    <2> QED BY <2>1, <2>3 DEF CreditInv
  <1>6. CASE Advance
    BY <1>6, CreditAdvance
  <1>7. CASE OnDeployResult
    <2>1. LeaseRecorded \in Docs /\ LeaseRecorded.intent = doc.intent
      BY <1>1, MutatorsType DEF LeaseRecorded, Jobs, Docs
    <2>2. pc' \in {"flush", "advance"} /\ mem'.attempts \in {mem.attempts, 0}
      BY <1>1, <1>7 DEF OnDeployResult, Memories
    <2>3. \/ Write(BeginClose(LeaseRecorded))
          \/ Write(Fail(LeaseRecorded))
          \/ Write(SetStatus(LeaseRecorded, "booting"))
      BY <1>7 DEF OnDeployResult, Close
    <2>4. /\ BeginClose(LeaseRecorded) \in Docs
          /\ BeginClose(LeaseRecorded).intent \in {doc.intent, "stopped"}
      BY <2>1, MutatorsType, CloseFacts
    <2>5. Fail(LeaseRecorded) \in Docs /\ Fail(LeaseRecorded).intent = doc.intent
      BY <2>1, MutatorsType, FieldFacts
    <2>6. /\ SetStatus(LeaseRecorded, "booting") \in Docs
          /\ SetStatus(LeaseRecorded, "booting").intent = doc.intent
      BY <2>1, MutatorsType, FieldFacts DEF Statuses
    <2> QED BY <2>2, <2>3, <2>4, <2>5, <2>6, CreditWrite
  <1>8. CASE OnCloseOk
    <2> DEFINE d == SetStatus([doc EXCEPT !.lease = NoDSeq], "offline")
    <2>1. d \in Docs
      BY <1>1, MutatorsType DEF Statuses
    <2>2. CASE RetryDeploy
      <3>1. Write(BeginDeploy(d)) /\ pc' \in {"launch", "flush"} /\ mem' = [mem EXCEPT !.closes = 0]
        BY <1>8, <2>2 DEF OnCloseOk
      <3>2. mem'.attempts = mem.attempts
        BY <1>1, <3>1 DEF Memories
      <3>3. BeginDeploy(d).intent = "running"
        BY <2>1, StartFacts
      <3>4. budget' = budget
        BY <3>1, <3>3 DEF Write
      <3> QED BY <2>2, <3>1, <3>2, <3>4 DEF CreditInv, RetryDeploy
    <2>3. CASE ~RetryDeploy
      <3>1. /\ Write([d EXCEPT !.intent = "stopped"])
            /\ pc' = "advance" /\ mem' = [mem EXCEPT !.closes = 0, !.attempts = 0]
        BY <1>8, <2>3 DEF OnCloseOk
      <3>2. mem'.attempts = 0
        BY <1>1, <3>1 DEF Memories
      <3>3. [d EXCEPT !.intent = "stopped"] \in Docs
        BY <2>1, MutatorsType DEF Intents
      <3>4. [d EXCEPT !.intent = "stopped"].intent = "stopped"
        BY <2>1 DEF Docs
      <3> QED BY <3>1, <3>2, <3>3, <3>4, CreditWrite
    <2> QED BY <2>2, <2>3
  <1>9. CASE OnCloseError
    <2>1. Write(Fail(doc)) \/ Write(doc)
      BY <1>9 DEF OnCloseError
    <2>2. Fail(doc) \in Docs /\ Fail(doc).intent = doc.intent
      BY <1>1, MutatorsType, FieldFacts
    <2>3. pc' = "flush" /\ mem'.attempts \in {mem.attempts, 0}
      <3> DEFINE c == IF mem.closes < MaxCloseAttempts THEN mem.closes + 1 ELSE mem.closes
      <3>1. \/ mem' = [mem EXCEPT !.closes = c, !.attempts = 0]
            \/ mem' = [mem EXCEPT !.closes = c]
        BY <1>9 DEF OnCloseError
      <3> HIDE DEF c
      <3> QED BY <1>1, <1>9, <3>1 DEF OnCloseError, Memories
    <2> QED BY <1>1, <2>1, <2>2, <2>3, CreditWrite
  <1>10. CASE Tick \/ Flush \/ FlushTimer
    <2>1. UNCHANGED <<doc, mem, budget>> /\ pc' \in {pc, "advance", "idle"}
      BY <1>10 DEF Tick, Flush, FlushTimer
    <2> QED BY <2>1, CreditKept
  <1>11. ASSUME \/ JobStep \/ AgentStep
                \/ \E d \in DSeq : ProviderKills(d)
                \/ \E t \in Triggers : Push(t)
                \/ TimePasses \/ UNCHANGED vars
         PROVE  CreditInv'
    <2>1. UNCHANGED <<doc, pc, mem, budget>>
      BY <1>11 DEF JobStep, JobCreates, JobCreateLost, JobLeases, JobDeployed,
             JobDeployFails, JobCloses, jobOnly, AgentStep, AgentReads, AgentMoves,
             AgentBegins, AgentAnswers, AgentPublishes, AgentBoots, agentOnly,
             ProviderKills, Push, TimePasses, vars
    <2> QED BY <2>1, CreditKept
  <1>12. CASE Crash
    BY <1>12 DEF Crash, CreditInv, Fresh
  <1> QED BY <1>2, <1>3, <1>4, <1>5, <1>6, <1>7, <1>8, <1>9, <1>10, <1>11, <1>12 DEF Next

\* Every launch is paid for, whatever fails: a retry never outlives the halt, the
\* failure or the restart that took the ask back, and never exceeds the limit.
THEOREM LaunchesAreAuthorised == Spec => []LaunchAuthorised
  <1>1. Init => TypeOK /\ CreditInv
    BY TypeInit, CreditInit
  <1>2. TypeOK /\ CreditInv /\ [Next]_vars => TypeOK' /\ CreditInv'
    BY TypeStep, CreditStep
  <1>3. TypeOK /\ CreditInv => LaunchAuthorised
    BY AttemptsAssumption DEF CreditInv, LaunchAuthorised, TypeOK, Memories
  <1> QED BY <1>1, <1>2, <1>3, PTL DEF Spec

=============================================================================
