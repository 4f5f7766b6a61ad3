----------------------------- MODULE AgentProps -----------------------------
(***************************************************************************)
(* What the supervisor of module Agent must and must not do.               *)
(***************************************************************************)
EXTENDS Agent, FiniteSets

Logs == [settled : SUBSET ReqID, by : DSeq \cup {NoDSeq}, asked : Intents,
         relaunches : Nat, lost : BOOLEAN]

\* The state of the supervisor has its shape.
AgentTypeOK ==
    /\ ctrl \in [intent : Intents, request : ReqID \cup {NoReq},
                 lease : DSeq \cup {NoDSeq}]
    /\ own \in Documents
    /\ pc \in {"down", "boot", "restore", "loop"}
    /\ mem \in Memories
    /\ procs \in [Procs -> ProcStates]
    /\ events \in Seq({"online", "exit"})
    /\ job \in ReqID \cup {NoReq}
    /\ host \in DSeq \cup {NoDSeq}
    /\ drawn \in [leases : SUBSET DSeq, requests : SUBSET ReqID]
    /\ deaths \in Nat
    /\ log \in Logs

\* Two games never write one world: a second process is launched only when the
\* first has been reaped and its exit handled, whatever crosses in the events.
OneGame == \A p, q \in Procs : Up(p) /\ Up(q) => p = q

\* A container that came back during a halt never brings the world up again: it
\* reads the intent before it does anything (Run, resume).
HaltedContainerStaysDown == log.asked = "stopped" => \A p \in Procs : ~Up(p)

\* However often the game and its container die, the game is relaunched at most
\* max_restarts times, unless a push of the counter was lost: the counter is read
\* back from the agent's own branch (resume, ReadOwn).
CrashLoopBounded == log.lost \/ log.relaunches <= MaxRestarts

\* What a container publishes is never attributed to a lease it does not run on,
\* although it begins with the document of the container before it (publish).
AttributedToItsOwnLease == own.dseq # NoDSeq => own.dseq = log.by

\* A halt is a backup, then a stop: the game is asked to quit only after the
\* request standing at that moment was answered (reconcile).
SessionArchivedBeforeStop ==
    [][(\E p \in Procs : procs'[p].quit /\ ~procs[p].quit)
         => ctrl.request = NoReq \/ ctrl.request \in mem.answered]_vars

\* A request whose answer was published is never archived again, by this container
\* or by the next (resume, finishBackup), unless the document could not be read.
AnsweredOnce ==
    [][job' # NoReq /\ job = NoReq => log.lost \/ job' \notin log.settled]_vars

\* The agent never decides to run: the game is launched only while the intent last
\* read is running.
NeverDecidesToRun ==
    [][(\E p \in Procs : procs'[p].life = "up" /\ ~Up(p)) => mem.intent = "running"]_vars

\* PhaseStopped means PZ exited and the agent is parked.
StoppedMeansParked == mem.phase = "stopped" => mem.parked /\ ~Running

-----------------------------------------------------------------------------
(* What the controller may assume.                                         *)

AnswerIn(b) == IF b.state = "answered" THEN b.request ELSE NoReq

\* A deployment without a container, or with one that has not booted, knows nothing.
Remembered == [phase |-> mem.phase, as |-> mem.lease, taking |-> job,
               answered |-> AnswerIn(mem.backup)]
Blank == [phase |-> "starting", as |-> NoDSeq, taking |-> NoReq, answered |-> NoReq]

AgentIn == [d \in DSeq |-> IF d = host THEN Remembered ELSE Blank]

Reported == [dseq |-> own.dseq, phase |-> own.phase, answered |-> AnswerIn(own.backup),
             by |-> log.by]

Assumed == INSTANCE Reporter
             WITH live <- {host} \ {NoDSeq}, lease <- ctrl.lease, request <- ctrl.request,
                  agent <- AgentIn, report <- Reported

\* The supervisor, with its restarts, its pushes put off and its backup goroutine, is
\* an agent as module Controller has it: an answer is to the one request it took up,
\* it names a lease it was given, and a boot takes up the branch and nothing else.
ReportsAsAssumed == Assumed!Spec

-----------------------------------------------------------------------------
(* Liveness.                                                               *)

Pushes == Liveness /\ ~mem'.pending

\* The container is restarted and its boot is bounded; the goroutines send and end;
\* the select chooses at random among what is ready; a push succeeds now and then;
\* a game told to quit is killed at last.
AgentFairness ==
    /\ WF_vars(Resume) /\ WF_vars(Booting)
    /\ \A p \in Procs : /\ WF_vars(WaiterSends(p))
                        /\ WF_vars(procs[p].quit /\ GameExits(p))
    /\ SF_vars(TakeOnline \/ TakeExit) /\ SF_vars(TakeBackup)
    /\ SF_vars(Reconcile) /\ SF_vars(Pushes)

FairSpec == Spec /\ AgentFairness

Halted(d) == host = d /\ ctrl.intent = "stopped"

\* Once the controller wants the server stopped, the game ends and the agent says it
\* is parked, whatever it was doing: booting, archiving, waiting to relaunch.
HaltIsCarriedOut ==
    \A d \in DSeq : Halted(d) ~> (~Halted(d) \/ (Parked(own.phase) /\ \A p \in Procs : ~Up(p)))

\* A request that stays outstanding is answered, across deaths of the container.
RequestIsAnswered ==
    \A r \in ReqID : ctrl.request = r ~> (ctrl.request # r \/ r \in log.settled)
=============================================================================
