------------------------------- MODULE Agent -------------------------------
(***************************************************************************)
(* The supervisor inside the game's container (internal/agent): its loop,  *)
(* the game it launches with the two goroutines that watch it, the backup  *)
(* goroutine, the document it publishes, and the containers of successive  *)
(* leases, each restarted whenever its process ends.                       *)
(*                                                                         *)
(* Run boots and then loops forever; each arm of the loop's select is an   *)
(* action here.  The controller is its document, which changes as          *)
(* internal/fsm changes it.  One container exists at a time: that an older *)
(* one may still speak is what module Controller is about.                 *)
(***************************************************************************)
EXTENDS Integers, Sequences, Lifecycle

CONSTANTS
    Procs,          \* bound: game processes whose goroutines are alive at once
    NoProc,         \* "no process held"
    MaxRestarts,    \* server.crash.max_restarts
    AgentFaults,    \* what goes wrong, see AgentFaultKinds
    MaxDeaths       \* bound: deaths of a container that its lease survives

AgentFaultKinds == {
    "publish",  \* a push that was forced fails
    "own",      \* the agent's own document cannot be read at boot
    "launch"}   \* the game's launcher does not start

ASSUME NoProcAssumption == NoProc \notin Procs
ASSUME RestartsAssumption == MaxRestarts \in Nat
ASSUME AgentFaultsAssumption == AgentFaults \subseteq AgentFaultKinds
ASSUME DeathsAssumption == MaxDeaths \in Nat

VARIABLES
    ctrl,       \* the controller's document, as published
    own,        \* the agent's document, as published
    pc,         \* no process, booting, or in the loop
    mem,        \* the Agent struct
    procs,      \* the game processes of this container
    events,     \* Agent.events: what the goroutines of a process sent
    job,        \* the request the backup goroutine works on, NoReq without one
    host,       \* the deployment the container runs on
    drawn,      \* deployments and request identities already used
    deaths,
    log         \* history, read by properties only

agentVars == <<pc, mem, own>>
gameVars  == <<procs, events>>
envVars   == <<ctrl, host, drawn>>
vars == <<agentVars, gameVars, envVars, job, deaths, log>>

-----------------------------------------------------------------------------
\* A process is reaped before its exit is sent.  Its banner is sent by another
\* goroutine, which may have read it in time and send it after the exit: that is
\* all that remains of a process that is gone ("none", "read").
ProcStates == [life   : {"none", "up", "reaped"},
               banner : {"unseen", "read", "sent"},
               quit   : BOOLEAN]

NotLaunched == [life |-> "none", banner |-> "unseen", quit |-> FALSE]
Launched    == [life |-> "up",   banner |-> "unseen", quit |-> FALSE]
Leftover    == [life |-> "none", banner |-> "read",   quit |-> FALSE]

NoBackup == [request |-> NoReq, state |-> "none"]
BackupReports == {NoBackup} \cup [request : ReqID, state : {"running", "answered"}]

Documents == [phase : Phases, dseq : DSeq \cup {NoDSeq}, restarts : Nat,
              backup : BackupReports]

\* What is read from a branch that does not exist yet.
NoDocument == [phase |-> "starting", dseq |-> NoDSeq, restarts |-> 0, backup |-> NoBackup]

Memories == [phase : Phases, backup : BackupReports, restarts : Nat,
             intent : Intents, lease : DSeq \cup {NoDSeq},
             parked : BOOLEAN, answered : SUBSET ReqID,
             relaunch : BOOLEAN, pending : BOOLEAN, pz : Procs \cup {NoProc}]

NewMemory == [phase |-> "starting", backup |-> NoBackup, restarts |-> 0,
              intent |-> "stopped", lease |-> NoDSeq,
              parked |-> FALSE, answered |-> {},
              relaunch |-> FALSE, pending |-> FALSE, pz |-> NoProc]

Init ==
    /\ ctrl = [intent |-> "stopped", request |-> NoReq, lease |-> NoDSeq]
    /\ own = NoDocument /\ pc = "down" /\ mem = NewMemory
    /\ procs = [p \in Procs |-> NotLaunched] /\ events = <<>> /\ job = NoReq
    /\ host = NoDSeq /\ drawn = [leases |-> {}, requests |-> {}] /\ deaths = 0
    /\ log = [settled |-> {}, by |-> NoDSeq, asked |-> "running",
              relaunches |-> 0, lost |-> FALSE]

-----------------------------------------------------------------------------
(* The document.                                                           *)

Up(p) == procs[p].life = "up"

\* pz.Running: the process this agent holds has not been reaped.
Running == mem.pz # NoProc /\ Up(mem.pz)

\* A phase that does not change is not published.
SetPhase(m, phase) ==
    IF m.phase = phase THEN m ELSE [m EXCEPT !.phase = phase, !.pending = TRUE]

Park(m) == [m EXCEPT !.parked = TRUE]

Bug_InheritedLease(m) ==
    [phase |-> m.phase, dseq |-> IF m.lease = NoDSeq THEN own.dseq ELSE m.lease,
     restarts |-> m.restarts, backup |-> m.backup]

\* Restarts and lease are stamped on whatever is published.
Document(m) ==
    [phase |-> m.phase, dseq |-> m.lease, restarts |-> m.restarts, backup |-> m.backup]

\* The push of a handler that leaves memory m, with what the properties remember.
\* One that is not forced may be put off by min_push_interval; the loop tries again,
\* as it does when the answer to a push is lost: the same document once more.
Publish(m, forced, l) ==
    \/ /\ m.pending
       /\ own' = Document(m)
       /\ mem' = [m EXCEPT !.pending = FALSE]
       /\ log' = [l EXCEPT !.by = host,
                           !.settled = @ \cup IF m.backup.state = "answered" THEN {m.backup.request} ELSE {}]
    \/ /\ (m.pending /\ forced) => "publish" \in AgentFaults
       /\ mem' = m /\ log' = l
       /\ UNCHANGED own

\* applyController: what the agent obeys.  A lease once known is never forgotten.
ApplyController(m) ==
    [m EXCEPT !.intent = ctrl.intent,
              !.lease = IF ctrl.lease # NoDSeq THEN ctrl.lease ELSE @]

-----------------------------------------------------------------------------
(* Boot.                                                                   *)

Bug_FreshBudget(d) ==
    ApplyController(
        [NewMemory EXCEPT !.backup = d.backup,
                          !.answered = IF d.backup.state = "answered" THEN {d.backup.request} ELSE {}])

Bug_ForgetsAnswers(d) ==
    ApplyController([NewMemory EXCEPT !.restarts = d.restarts, !.backup = d.backup])

\* Both documents are read before anything is touched; a request answered before
\* the restart stays answered.  A fetch that fails ends the process, and it begins
\* again.
Resumed(d) ==
    ApplyController(
        [NewMemory EXCEPT !.restarts = d.restarts, !.backup = d.backup,
                          !.answered = IF d.backup.state = "answered" THEN {d.backup.request} ELSE {}])

Readable == {own} \cup (IF "own" \in AgentFaults THEN {NoDocument} ELSE {})

Bug_BootsWhateverIntent ==
    /\ pc = "down" /\ host # NoDSeq
    /\ mem' = Resumed(own) /\ pc' = "boot"
    /\ log' = [log EXCEPT !.asked = ctrl.intent]
    /\ UNCHANGED <<own, gameVars, envVars, job, deaths>>

Resume ==
    /\ pc = "down" /\ host # NoDSeq
    /\ \E d \in Readable :
         LET m == Resumed(d)
             l == [log EXCEPT !.asked = m.intent, !.lost = @ \/ d # own]
         IN  \/ /\ m.intent = "stopped"
                /\ pc' = "loop"
                /\ Publish(Park(SetPhase(m, "stopped")), TRUE, l)
             \/ /\ m.intent = "running"
                /\ pc' = "boot" /\ mem' = m /\ log' = l
                /\ UNCHANGED own
    /\ UNCHANGED <<gameVars, envVars, job, deaths>>

\* The document may name a backup to restore first.
BootRestores ==
    /\ pc = "boot"
    /\ pc' = "restore"
    /\ Publish(SetPhase(mem, "restoring"), TRUE, log)
    /\ UNCHANGED <<gameVars, envVars, job, deaths>>

\* Whatever fails on the way, the agent parks and says which failure it was.
BootFails ==
    /\ pc \in {"boot", "restore"}
    /\ pc' = "loop"
    /\ \E phase \in {"crashed", "restore_failed"} :
         Publish([Park(SetPhase(mem, phase)) EXCEPT !.pending = TRUE], TRUE, log)
    /\ UNCHANGED <<gameVars, envVars, job, deaths>>

\* startGame, once the process exists.
StartGame(m, l) ==
    \E p \in Procs :
       /\ procs[p] = NotLaunched
       /\ procs' = [procs EXCEPT ![p] = Launched]
       /\ Publish(SetPhase([m EXCEPT !.pz = p], "starting"), TRUE, l)

BootLaunches ==
    /\ pc \in {"boot", "restore"}
    /\ pc' = "loop"
    /\ StartGame(mem, log)
    /\ UNCHANGED <<events, envVars, job, deaths>>

-----------------------------------------------------------------------------
(* The loop.  Every arm ends in a publish that is not forced.              *)

TakeOnline ==
    /\ pc = "loop" /\ events # <<>> /\ Head(events) = "online"
    /\ events' = Tail(events)
    /\ Publish(SetPhase(mem, "online"), FALSE, log)
    /\ UNCHANGED <<pc, procs, envVars, job, deaths>>

\* handleExit: a requested stop, one the controller wants anyway, or a crash.
TakeExit ==
    /\ pc = "loop" /\ events # <<>> /\ Head(events) = "exit"
    /\ events' = Tail(events)
    /\ LET m == [mem EXCEPT !.pz = NoProc]
           c == [m EXCEPT !.restarts = @ + 1, !.pending = TRUE]
       IN  \/ /\ m.phase = "stopping" \/ m.intent = "stopped"
              /\ Publish(Park(SetPhase(m, "stopped")), TRUE, log)
           \/ /\ m.phase # "stopping" /\ m.intent = "running"
              /\ c.restarts > MaxRestarts
              /\ Publish(Park(SetPhase(c, "crashed")), TRUE, log)
           \/ /\ m.phase # "stopping" /\ m.intent = "running"
              /\ c.restarts <= MaxRestarts
              /\ Publish([SetPhase(c, "starting") EXCEPT !.relaunch = TRUE], TRUE, log)
    /\ UNCHANGED <<pc, procs, envVars, job, deaths>>

Bug_RelaunchStaysArmed ==
    /\ pc = "loop" /\ mem.relaunch
    /\ StartGame(mem, [log EXCEPT !.relaunches = @ + 1])
    /\ UNCHANGED <<pc, events, envVars, job, deaths>>

\* The backoff is over.  An error of startGame is dropped here.
Relaunch ==
    /\ pc = "loop" /\ mem.relaunch
    /\ LET m == [mem EXCEPT !.relaunch = FALSE]
       IN  \/ /\ ~m.parked
              /\ StartGame(m, [log EXCEPT !.relaunches = @ + 1])
           \/ /\ m.parked \/ "launch" \in AgentFaults
              /\ Publish(m, FALSE, log)
              /\ UNCHANGED procs
    /\ UNCHANGED <<pc, events, envVars, job, deaths>>

Bug_OnlyWhileRunning(m) ==
    /\ ctrl.request # NoReq /\ ctrl.request \notin m.answered
    /\ job = NoReq /\ Running

\* A request stands that this agent has neither answered nor begun.
BackupWanted(m) ==
    /\ ctrl.request # NoReq /\ ctrl.request \notin m.answered
    /\ job = NoReq

\* startBackup: saving is reported only while there is a game to save.
StartBackup(m) ==
    LET s == [m EXCEPT !.backup = [request |-> ctrl.request, state |-> "running"], !.pending = TRUE]
    IN  /\ job' = ctrl.request
        /\ Publish(IF Running THEN SetPhase(s, "saving") ELSE s, TRUE, log)
        /\ UNCHANGED procs

\* stopGame: with no game there is only a phase to put right; otherwise the stop
\* begins on a goroutine of its own, and the exit arrives as an event.
StopGame(m) ==
    \/ /\ ~Running
       /\ Publish(Park(IF Parked(m.phase) THEN m ELSE SetPhase(m, "stopped")), ~Parked(m.phase), log)
       /\ UNCHANGED procs
    \/ /\ Running /\ m.phase = "stopping"
       /\ Publish(m, FALSE, log)
       /\ UNCHANGED procs
    \/ /\ Running /\ m.phase # "stopping"
       /\ Publish(Park(SetPhase(m, "stopping")), TRUE, log)
       /\ procs' = [procs EXCEPT ![m.pz].quit = TRUE]

Bug_StopFirst ==
    /\ pc = "loop"
    /\ LET m == ApplyController(mem)
       IN  \/ m.intent = "stopped" /\ StopGame(m) /\ UNCHANGED job
           \/ m.intent = "running" /\ BackupWanted(m) /\ StartBackup(m)
    /\ UNCHANGED <<pc, events, envVars, deaths>>

\* An outstanding request is answered first, and a stop waits for what is in flight.
Reconcile ==
    /\ pc = "loop"
    /\ LET m == ApplyController(mem)
       IN  \/ BackupWanted(m) /\ StartBackup(m)
           \/ /\ ~BackupWanted(m) /\ m.intent = "stopped" /\ job = NoReq
              /\ StopGame(m)
              /\ UNCHANGED job
           \/ /\ ~BackupWanted(m) /\ (m.intent = "running" \/ job # NoReq)
              /\ Publish(m, FALSE, log)
              /\ UNCHANGED <<procs, job>>
    /\ UNCHANGED <<pc, events, envVars, deaths>>

Bug_RetriesForEver ==
    /\ pc = "loop" /\ job # NoReq
    /\ job' = NoReq
    /\ LET m == [mem EXCEPT !.backup = [request |-> job, state |-> "answered"], !.pending = TRUE]
       IN  Publish(IF Running
                     THEN IF m.phase = "saving" THEN SetPhase(m, "online") ELSE m
                     ELSE IF m.parked THEN m ELSE SetPhase(m, "stopped"), TRUE, log)
    /\ UNCHANGED <<pc, gameVars, envVars, deaths>>

\* The goroutine ends, with an archive uploaded or an error, and finishBackup takes
\* its report: answered whether it succeeded or failed, then back to what is true.
TakeBackup ==
    /\ pc = "loop" /\ job # NoReq
    /\ job' = NoReq
    /\ LET m == [mem EXCEPT !.backup = [request |-> job, state |-> "answered"],
                            !.answered = @ \cup {job}, !.pending = TRUE]
       IN  Publish(IF Running
                     THEN IF m.phase = "saving" THEN SetPhase(m, "online") ELSE m
                     ELSE IF m.parked THEN m ELSE SetPhase(m, "stopped"), TRUE, log)
    /\ UNCHANGED <<pc, gameVars, envVars, deaths>>

\* Published whether or not anything changed: a quiet agent is not a dead one.
Liveness ==
    /\ pc = "loop"
    /\ Publish([mem EXCEPT !.pending = TRUE], TRUE, log)
    /\ UNCHANGED <<pc, gameVars, envVars, job, deaths>>

-----------------------------------------------------------------------------
(* The game and its goroutines.                                            *)

\* The scanner sends the banner it read.
ScannerSends(p) ==
    /\ procs[p].banner = IF procs[p].life = "none" THEN "read" ELSE "unseen"
    /\ procs' = [procs EXCEPT ![p] = IF @ = Leftover THEN NotLaunched ELSE [@ EXCEPT !.banner = "sent"]]
    /\ events' = Append(events, "online")
    /\ UNCHANGED <<agentVars, envVars, job, deaths, log>>

\* The game ends, asked to or not.
GameExits(p) ==
    /\ Up(p)
    /\ procs' = [procs EXCEPT ![p].life = "reaped"]
    /\ UNCHANGED <<agentVars, events, envVars, job, deaths, log>>

\* The exit is sent, perhaps before the banner.
WaiterSends(p) ==
    /\ procs[p].life = "reaped"
    /\ \E rest \in {NotLaunched} \cup (IF procs[p].banner = "unseen" THEN {Leftover} ELSE {}) :
         procs' = [procs EXCEPT ![p] = rest]
    /\ events' = Append(events, "exit")
    /\ UNCHANGED <<agentVars, envVars, job, deaths, log>>

\* The process or the container ends, and everything in it with it.
ContainerGone ==
    /\ pc' = "down" /\ mem' = NewMemory
    /\ procs' = [p \in Procs |-> NotLaunched] /\ events' = <<>> /\ job' = NoReq
    /\ log' = [log EXCEPT !.asked = "running", !.lost = @ \/ mem.restarts > own.restarts]
    /\ UNCHANGED own

ContainerDies ==
    /\ pc # "down" /\ deaths < MaxDeaths
    /\ deaths' = deaths + 1
    /\ ContainerGone
    /\ UNCHANGED envVars

-----------------------------------------------------------------------------
(* The controller, as its document shows it.                               *)

\* A start: the ask is published, the deployment made, the lease recorded later.
Deploy(d) ==
    /\ host = NoDSeq /\ d \notin drawn.leases
    /\ host' = d /\ drawn' = [drawn EXCEPT !.leases = @ \cup {d}]
    /\ ctrl' = [intent |-> "running", request |-> NoReq, lease |-> NoDSeq]
    /\ UNCHANGED <<agentVars, gameVars, job, deaths, log>>

RecordLease ==
    /\ host # NoDSeq /\ ctrl.lease = NoDSeq
    /\ ctrl' = [ctrl EXCEPT !.lease = host]
    /\ UNCHANGED <<agentVars, gameVars, host, drawn, job, deaths, log>>

\* A backup is asked for when none is; a halt asks for one at the same time.
Asks(r) ==
    /\ ctrl.request = NoReq /\ r \notin drawn.requests
    /\ drawn' = [drawn EXCEPT !.requests = @ \cup {r}]

AskBackup(r) ==
    /\ host # NoDSeq /\ ctrl.intent = "running" /\ Asks(r)
    /\ ctrl' = [ctrl EXCEPT !.request = r]
    /\ UNCHANGED <<agentVars, gameVars, host, job, deaths, log>>

Halt ==
    /\ host # NoDSeq /\ ctrl.intent = "running"
    /\ \/ /\ ctrl' = [ctrl EXCEPT !.intent = "stopped"]
          /\ UNCHANGED drawn
       \/ \E r \in ReqID : /\ Asks(r)
                           /\ ctrl' = [ctrl EXCEPT !.intent = "stopped", !.request = r]
    /\ UNCHANGED <<agentVars, gameVars, host, job, deaths, log>>

\* The answer was read, or waited for too long.
ClearRequest ==
    /\ ctrl.request # NoReq
    /\ ctrl' = [ctrl EXCEPT !.request = NoReq]
    /\ UNCHANGED <<agentVars, gameVars, host, drawn, job, deaths, log>>

\* The lease is closed, by the controller or by the provider.
CloseLease ==
    /\ host # NoDSeq
    /\ host' = NoDSeq /\ ctrl' = [ctrl EXCEPT !.intent = "stopped", !.request = NoReq, !.lease = NoDSeq]
    /\ ContainerGone
    /\ UNCHANGED <<drawn, deaths>>

-----------------------------------------------------------------------------
Booting == BootRestores \/ BootFails \/ BootLaunches

Supervise == TakeOnline \/ TakeExit \/ TakeBackup \/ Relaunch \/ Reconcile \/ Liveness

Game == \E p \in Procs : ScannerSends(p) \/ GameExits(p) \/ WaiterSends(p)

ControllerActs ==
    \/ \E d \in DSeq : Deploy(d)
    \/ \E r \in ReqID : AskBackup(r)
    \/ RecordLease \/ Halt \/ ClearRequest \/ CloseLease

Next == Resume \/ Booting \/ Supervise \/ Game \/ ContainerDies \/ ControllerActs

Spec == Init /\ [][Next]_vars
=============================================================================
