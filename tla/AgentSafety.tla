----------------------------- MODULE AgentSafety -----------------------------
(***************************************************************************)
(* What is proved of the supervisor for every value of its constants: any  *)
(* number of leases, requests, launches, restarts and deaths, and whatever *)
(* AgentFaults is.  First its types and the life of a request; then, from  *)
(* one inductive invariant, how the right to launch a game is passed on,   *)
(* how a halt lasts, what a document may say of a lease, what a crash      *)
(* costs and when a request is answered.                                   *)
(***************************************************************************)
EXTENDS AgentProps, TLAPS

-----------------------------------------------------------------------------
(* Types.                                                                  *)

\* A document can be read back into a memory, and a memory makes a document.
LEMMA MemoryTypes ==
    ASSUME AgentTypeOK, NEW m \in Memories
    PROVE  /\ Document(m) \in Documents
           /\ ApplyController(m) \in Memories
           /\ Park(m) \in Memories
           /\ \A phase \in Phases : SetPhase(m, phase) \in Memories
           /\ \A b \in BOOLEAN : [m EXCEPT !.pending = b] \in Memories
           /\ \A b \in BOOLEAN : [m EXCEPT !.relaunch = b] \in Memories
           /\ \A p \in Procs \cup {NoProc} : [m EXCEPT !.pz = p] \in Memories
  <1>1. Document(m) \in Documents
    BY DEF Document, Documents, Memories
  <1>2. ApplyController(m) \in Memories
    BY DEF AgentTypeOK, ApplyController, Memories, Intents
  <1>3. Park(m) \in Memories
    BY DEF Park, Memories
  <1>4. \A phase \in Phases : SetPhase(m, phase) \in Memories
    BY DEF SetPhase, Memories
  <1> QED BY <1>1, <1>2, <1>3, <1>4 DEF Memories

\* What a push does to the state, field by field: nothing of the memory changes but
\* that it may no longer be pending, and the document on the branch is either the
\* old one or this memory's.
LEMMA PublishEffect ==
    ASSUME AgentTypeOK, NEW m \in Memories, NEW f \in BOOLEAN, NEW l \in Logs,
           Publish(m, f, l)
    PROVE  /\ mem' \in Memories /\ own' \in Documents /\ log' \in Logs
           /\ mem'.phase = m.phase /\ mem'.backup = m.backup /\ mem'.restarts = m.restarts
           /\ mem'.intent = m.intent /\ mem'.lease = m.lease /\ mem'.parked = m.parked
           /\ mem'.answered = m.answered /\ mem'.relaunch = m.relaunch /\ mem'.pz = m.pz
           /\ log'.asked = l.asked /\ log'.relaunches = l.relaunches /\ log'.lost = l.lost
           /\ \/ own' = own /\ log' = l
              \/ /\ own' = Document(m) /\ log'.by = host
                 /\ log'.settled = l.settled \cup
                       IF m.backup.state = "answered" THEN {m.backup.request} ELSE {}
  <1>1. CASE /\ m.pending
             /\ own' = Document(m)
             /\ mem' = [m EXCEPT !.pending = FALSE]
             /\ log' = [l EXCEPT !.by = host,
                                 !.settled = @ \cup IF m.backup.state = "answered" THEN {m.backup.request} ELSE {}]
    <2>1. own' \in Documents /\ mem' \in Memories
      BY <1>1, MemoryTypes
    <2>2. (IF m.backup.state = "answered" THEN {m.backup.request} ELSE {}) \subseteq ReqID
      BY DEF Memories, BackupReports, NoBackup
    <2>3. log' \in Logs
      BY <1>1, <2>2 DEF Logs, AgentTypeOK
    <2> QED BY <1>1, <2>1, <2>3 DEF Memories, Logs
  <1>2. CASE mem' = m /\ log' = l /\ UNCHANGED own
    BY <1>2 DEF AgentTypeOK
  <1> QED BY <1>1, <1>2 DEF Publish

\* The first memory of a process, and one that was read back, are memories.
LEMMA ResumedTypes ==
    ASSUME AgentTypeOK
    PROVE  /\ NewMemory \in Memories
           /\ NoDocument \in Documents
           /\ Readable \subseteq Documents
           /\ \A d \in Documents : Resumed(d) \in Memories
  <1>1. NewMemory \in Memories
    BY DEF NewMemory, Memories, Phases, Intents, BackupReports
  <1>2. NoDocument \in Documents
    BY DEF NoDocument, Documents, Phases, BackupReports
  <1>3. Readable \subseteq Documents
    BY <1>2 DEF Readable, AgentTypeOK
  <1>4. ASSUME NEW d \in Documents
        PROVE  Resumed(d) \in Memories
    <2> DEFINE a == IF d.backup.state = "answered" THEN {d.backup.request} ELSE {}
    <2>1. a \subseteq ReqID
      BY DEF Documents, BackupReports, NoBackup
    <2>2. [NewMemory EXCEPT !.restarts = d.restarts, !.backup = d.backup, !.answered = a] \in Memories
      BY <1>1, <2>1 DEF Memories, Documents
    <2> QED BY <2>2, MemoryTypes DEF Resumed
  <1> QED BY <1>1, <1>2, <1>3, <1>4

\* The history keeps its shape whatever a handler adds to it.
LEMMA LogTypes ==
    ASSUME AgentTypeOK
    PROVE  /\ log \in Logs
           /\ [log EXCEPT !.relaunches = @ + 1] \in Logs
           /\ \A i \in Intents, b \in BOOLEAN :
                [log EXCEPT !.asked = i, !.lost = @ \/ b] \in Logs
  <1>1. log \in Logs
    BY DEF AgentTypeOK
  <1>2. [log EXCEPT !.relaunches = @ + 1] \in Logs
    <2>1. log.relaunches + 1 \in Nat
      BY <1>1 DEF Logs
    <2> QED BY <1>1, <2>1 DEF Logs
  <1>3. ASSUME NEW i \in Intents, NEW b \in BOOLEAN
        PROVE  [log EXCEPT !.asked = i, !.lost = @ \/ b] \in Logs
    <2>1. (log.lost \/ b) \in BOOLEAN
      BY Zenon
    <2> DEFINE c == log.lost \/ b
    <2>2. c \in BOOLEAN
      BY <2>1
    <2> HIDE DEF c
    <2>3. [log EXCEPT !.asked = i, !.lost = c] \in Logs
      BY <1>1, <2>2 DEF Logs
    <2> QED BY <2>3 DEF c
  <1> QED BY <1>1, <1>2, <1>3

\* A crash is counted.
LEMMA CountedMemory ==
    ASSUME NEW m \in Memories
    PROVE  [m EXCEPT !.restarts = @ + 1, !.pending = TRUE] \in Memories
  <1>1. m.restarts + 1 \in Nat
    BY DEF Memories
  <1> QED BY <1>1 DEF Memories

\* startGame keeps the shape of the state, and leaves a push behind.
LEMMA StartGameType ==
    ASSUME AgentTypeOK, NEW m \in Memories, NEW l \in Logs, StartGame(m, l)
    PROVE  mem' \in Memories /\ own' \in Documents /\ log' \in Logs /\ procs' \in [Procs -> ProcStates]
  <1>1. PICK p \in Procs : /\ procs' = [procs EXCEPT ![p] = Launched]
                           /\ Publish(SetPhase([m EXCEPT !.pz = p], "starting"), TRUE, l)
    BY DEF StartGame
  <1>2. [m EXCEPT !.pz = p] \in Memories
    BY MemoryTypes
  <1>3. SetPhase([m EXCEPT !.pz = p], "starting") \in Memories
    BY <1>2, MemoryTypes DEF Phases
  <1>4. procs' \in [Procs -> ProcStates]
    BY <1>1 DEF AgentTypeOK, Launched, ProcStates
  <1> QED BY <1>1, <1>3, <1>4, PublishEffect

\* Each arm of boot keeps the shape.
LEMMA BootType ==
    ASSUME AgentTypeOK, Resume \/ Booting
    PROVE  AgentTypeOK'
  <1> USE LogTypes, MemoryTypes, ResumedTypes
  <1>1. CASE Resume
    <2>1. PICK d \in Readable :
            LET m == Resumed(d)
                l == [log EXCEPT !.asked = m.intent, !.lost = @ \/ d # own]
            IN  \/ pc' = "loop" /\ Publish(Park(SetPhase(m, "stopped")), TRUE, l)
                \/ pc' = "boot" /\ mem' = m /\ log' = l /\ UNCHANGED own
      BY <1>1 DEF Resume
    <2> DEFINE m == Resumed(d)
               l == [log EXCEPT !.asked = m.intent, !.lost = @ \/ d # own]
    <2>2. m \in Memories
      OBVIOUS
    <2>3. m.intent \in Intents
      BY <2>2 DEF Memories
    <2>4. l \in Logs
      BY <2>3
    <2>5. Park(SetPhase(m, "stopped")) \in Memories
      <3>1. SetPhase(m, "stopped") \in Memories
        BY <2>2 DEF Phases
      <3> QED BY <3>1
    <2> HIDE DEF m, l
    <2>6. mem' \in Memories /\ own' \in Documents /\ log' \in Logs /\ pc' \in {"boot", "loop"}
      BY <2>1, <2>2, <2>4, <2>5, PublishEffect DEF m, l, AgentTypeOK
    <2> QED BY <1>1, <2>6 DEF Resume, AgentTypeOK, gameVars, envVars
  <1>2. CASE BootRestores
    <2>1. SetPhase(mem, "restoring") \in Memories
      BY DEF Phases, AgentTypeOK
    <2> QED BY <1>2, <2>1, PublishEffect DEF BootRestores, AgentTypeOK, gameVars, envVars
  <1>3. CASE BootFails
    <2>1. PICK phase \in {"crashed", "restore_failed"} :
            Publish([Park(SetPhase(mem, phase)) EXCEPT !.pending = TRUE], TRUE, log)
      BY <1>3 DEF BootFails
    <2>2. SetPhase(mem, phase) \in Memories
      BY DEF Phases, AgentTypeOK
    <2>3. Park(SetPhase(mem, phase)) \in Memories
      BY <2>2
    <2>4. [Park(SetPhase(mem, phase)) EXCEPT !.pending = TRUE] \in Memories
      BY <2>3
    <2> QED BY <1>3, <2>1, <2>4, PublishEffect DEF BootFails, AgentTypeOK, gameVars, envVars
  <1>4. CASE BootLaunches
    BY <1>4, StartGameType DEF BootLaunches, AgentTypeOK, envVars
  <1> QED BY <1>1, <1>2, <1>3, <1>4 DEF Booting

\* Taking an event leaves events.
LEMMA EventTypes ==
    ASSUME AgentTypeOK
    PROVE  /\ events # <<>> => Tail(events) \in Seq({"online", "exit"})
           /\ \A e \in {"online", "exit"} : Append(events, e) \in Seq({"online", "exit"})
  BY DEF AgentTypeOK

\* Each arm of the loop keeps the shape.
LEMMA SuperviseType ==
    ASSUME AgentTypeOK, Supervise
    PROVE  AgentTypeOK'
  <1> USE LogTypes, MemoryTypes, EventTypes
  <1>0. mem \in Memories
    BY DEF AgentTypeOK
  <1>1. CASE TakeOnline
    <2>1. SetPhase(mem, "online") \in Memories
      BY <1>0 DEF Phases
    <2> QED BY <1>1, <2>1, PublishEffect DEF TakeOnline, AgentTypeOK, envVars
  <1>2. CASE TakeExit
    <2> DEFINE m == [mem EXCEPT !.pz = NoProc]
               c == [m EXCEPT !.restarts = @ + 1, !.pending = TRUE]
    <2>0. m \in Memories
      BY <1>0
    <2>1. c \in Memories
      <3> HIDE DEF m
      <3> QED BY <2>0, CountedMemory
    <2>2. \A phase \in Phases : SetPhase(m, phase) \in Memories /\ SetPhase(c, phase) \in Memories
      BY <2>0, <2>1
    <2>3. /\ Park(SetPhase(m, "stopped")) \in Memories
          /\ Park(SetPhase(c, "crashed")) \in Memories
          /\ [SetPhase(c, "starting") EXCEPT !.relaunch = TRUE] \in Memories
      BY <2>2 DEF Phases
    <2>4. \E x \in Memories : Publish(x, TRUE, log)
      BY <1>2, <2>3 DEF TakeExit
    <2>5. mem' \in Memories /\ own' \in Documents /\ log' \in Logs
      BY <2>4, PublishEffect
    <2> QED BY <1>2, <2>5 DEF TakeExit, AgentTypeOK, envVars
  <1>3. CASE TakeBackup
    <2> DEFINE m == [mem EXCEPT !.backup = [request |-> job, state |-> "answered"],
                                !.answered = @ \cup {job}, !.pending = TRUE]
    <2>1. m \in Memories
      <3>1. job \in ReqID
        BY <1>3 DEF TakeBackup, AgentTypeOK
      <3>2. [request |-> job, state |-> "answered"] \in BackupReports
        BY <3>1 DEF BackupReports
      <3>3. mem.answered \cup {job} \in SUBSET ReqID
        BY <1>0, <3>1 DEF Memories
      <3> QED BY <1>0, <3>2, <3>3 DEF Memories
    <2>2. SetPhase(m, "online") \in Memories /\ SetPhase(m, "stopped") \in Memories
      BY <2>1 DEF Phases
    <2>3. \E x \in Memories : Publish(x, TRUE, log)
      BY <1>3, <2>1, <2>2 DEF TakeBackup
    <2>4. mem' \in Memories /\ own' \in Documents /\ log' \in Logs
      BY <2>3, PublishEffect
    <2> QED BY <1>3, <2>4 DEF TakeBackup, AgentTypeOK, gameVars, envVars
  <1>4. CASE Relaunch
    <2> DEFINE m == [mem EXCEPT !.relaunch = FALSE]
    <2>1. m \in Memories
      BY <1>0
    <2>2. \/ StartGame(m, [log EXCEPT !.relaunches = @ + 1])
          \/ Publish(m, FALSE, log) /\ UNCHANGED procs
      BY <1>4 DEF Relaunch
    <2>3. mem' \in Memories /\ own' \in Documents /\ log' \in Logs /\ procs' \in [Procs -> ProcStates]
      BY <2>1, <2>2, StartGameType, PublishEffect DEF AgentTypeOK
    <2> QED BY <1>4, <2>3 DEF Relaunch, AgentTypeOK, envVars
  <1>5. CASE Reconcile
    <2> DEFINE m == ApplyController(mem)
               s == [m EXCEPT !.backup = [request |-> ctrl.request, state |-> "running"], !.pending = TRUE]
    <2>1. m \in Memories
      BY <1>0
    <2> HIDE DEF m
    <2>2. \A phase \in Phases : SetPhase(m, phase) \in Memories /\ Park(SetPhase(m, phase)) \in Memories
      BY <2>1
    <2>3. CASE BackupWanted(m) /\ StartBackup(m)
      <3>1. ctrl.request \in ReqID
        BY <2>3 DEF BackupWanted, AgentTypeOK
      <3>2. s \in Memories
        BY <2>1, <3>1 DEF Memories, BackupReports
      <3>3. SetPhase(s, "saving") \in Memories
        BY <3>2 DEF Phases
      <3>4. \E x \in Memories : Publish(x, TRUE, log)
        BY <2>3, <3>2, <3>3 DEF StartBackup
      <3>5. mem' \in Memories /\ own' \in Documents /\ log' \in Logs
        BY <3>4, PublishEffect
      <3> QED BY <1>5, <2>3, <3>1, <3>5 DEF Reconcile, StartBackup, AgentTypeOK, envVars
    <2>4. CASE StopGame(m) /\ UNCHANGED job
      <3>1. \E x \in Memories, f \in BOOLEAN : Publish(x, f, log)
        BY <2>1, <2>2, <2>4 DEF StopGame, Phases, Parked
      <3>2. mem' \in Memories /\ own' \in Documents /\ log' \in Logs
        BY <3>1, PublishEffect
      <3>3. procs' \in [Procs -> ProcStates]
        <4>1. \A p \in Procs : [procs[p] EXCEPT !.quit = TRUE] \in ProcStates
          BY DEF AgentTypeOK, ProcStates
        <4>2. \/ UNCHANGED procs
              \/ procs' = [procs EXCEPT ![m.pz].quit = TRUE]
          BY <2>4 DEF StopGame
        <4>4. CASE UNCHANGED procs
          BY <4>4 DEF AgentTypeOK
        <4>5. CASE procs' = [procs EXCEPT ![m.pz].quit = TRUE]
          <5>1. \A p \in Procs : procs'[p] = IF p = m.pz THEN [procs[p] EXCEPT !.quit = TRUE] ELSE procs[p]
            BY <4>5 DEF AgentTypeOK
          <5>2. procs' = [p \in Procs |-> procs'[p]]
            BY <4>5 DEF AgentTypeOK
          <5>3. \A p \in Procs : procs[p] \in ProcStates
            BY DEF AgentTypeOK
          <5>4. \A p \in Procs : procs'[p] \in ProcStates
            BY <4>1, <5>1, <5>3, Zenon
          <5>5. [p \in Procs |-> procs'[p]] \in [Procs -> ProcStates]
            BY <5>4
          <5> QED BY <5>2, <5>5
        <4> QED BY <4>2, <4>4, <4>5
      <3> QED BY <1>5, <2>4, <3>2, <3>3 DEF Reconcile, AgentTypeOK, envVars
    <2>5. CASE Publish(m, FALSE, log) /\ UNCHANGED <<procs, job>>
      <3>1. mem' \in Memories /\ own' \in Documents /\ log' \in Logs
        BY <2>1, <2>5, PublishEffect
      <3> QED BY <1>5, <2>5, <3>1 DEF Reconcile, AgentTypeOK, envVars
    <2> QED BY <1>5, <2>3, <2>4, <2>5 DEF Reconcile, m
  <1>6. CASE Liveness
    BY <1>0, <1>6, PublishEffect DEF Liveness, AgentTypeOK, gameVars, envVars
  <1> QED BY <1>1, <1>2, <1>3, <1>4, <1>5, <1>6 DEF Supervise

\* The game's goroutines, deaths of the container and the controller keep the shape.
LEMMA WorldType ==
    ASSUME AgentTypeOK, Game \/ ContainerDies \/ ControllerActs
    PROVE  AgentTypeOK'
  <1> USE EventTypes
  <1>1. CASE Game
    <2>1. PICK p \in Procs : ScannerSends(p) \/ GameExits(p) \/ WaiterSends(p)
      BY <1>1 DEF Game
    <2>2. procs' \in [Procs -> ProcStates]
      <3>1. /\ NotLaunched \in ProcStates /\ Leftover \in ProcStates
            /\ [procs[p] EXCEPT !.banner = "sent"] \in ProcStates
            /\ [procs[p] EXCEPT !.life = "reaped"] \in ProcStates
        BY DEF AgentTypeOK, ProcStates, NotLaunched, Leftover
      <3>2. \E rest \in ProcStates : procs' = [procs EXCEPT ![p] = rest]
        BY <2>1, <3>1 DEF ScannerSends, GameExits, WaiterSends
      <3> QED BY <3>2 DEF AgentTypeOK
    <2>3. events' \in Seq({"online", "exit"})
      BY <2>1 DEF ScannerSends, GameExits, WaiterSends, AgentTypeOK
    <2>4. UNCHANGED <<agentVars, envVars, job, deaths, log>>
      BY <2>1 DEF ScannerSends, GameExits, WaiterSends
    <2> QED BY <2>2, <2>3, <2>4 DEF AgentTypeOK, agentVars, envVars
  <1>2. ASSUME ContainerGone
        PROVE  /\ pc' = "down" /\ mem' \in Memories /\ own' = own
               /\ procs' \in [Procs -> ProcStates] /\ events' \in Seq({"online", "exit"})
               /\ job' = NoReq /\ log' \in Logs
    <2>1. log' \in Logs
      BY <1>2 DEF ContainerGone, AgentTypeOK, Logs, Intents
    <2> QED BY <1>2, <2>1, ResumedTypes DEF ContainerGone, NotLaunched, ProcStates
  <1>3. CASE ContainerDies
    BY <1>2, <1>3 DEF ContainerDies, AgentTypeOK, envVars
  <1>4. CASE CloseLease
    BY <1>2, <1>4 DEF CloseLease, AgentTypeOK, Intents
  <1>5. CASE ControllerActs /\ ~CloseLease
    <2>1. UNCHANGED <<agentVars, gameVars, job, deaths, log>>
      BY <1>5 DEF ControllerActs, Deploy, AskBackup, RecordLease, Halt, ClearRequest
    <2> USE DEF AgentTypeOK, Intents, Asks
    <2>2. CASE \E d \in DSeq : Deploy(d)
      BY <2>1, <2>2 DEF Deploy, agentVars, gameVars
    <2>3. CASE \E r \in ReqID : AskBackup(r)
      BY <2>1, <2>3 DEF AskBackup, agentVars, gameVars
    <2>4. CASE RecordLease
      BY <2>1, <2>4 DEF RecordLease, agentVars, gameVars
    <2>5. CASE Halt
      <3>1. CASE ctrl' = [ctrl EXCEPT !.intent = "stopped"] /\ UNCHANGED drawn
        BY <2>1, <2>5, <3>1 DEF Halt, agentVars, gameVars
      <3>2. CASE \E r \in ReqID : Asks(r) /\ ctrl' = [ctrl EXCEPT !.intent = "stopped", !.request = r]
        <4>1. PICK r \in ReqID : Asks(r) /\ ctrl' = [ctrl EXCEPT !.intent = "stopped", !.request = r]
          BY <3>2
        <4>2. ctrl' \in [intent : Intents, request : ReqID \cup {NoReq}, lease : DSeq \cup {NoDSeq}]
          BY <4>1
        <4>3. drawn' \in [leases : SUBSET DSeq, requests : SUBSET ReqID]
          BY <4>1
        <4>4. UNCHANGED <<agentVars, gameVars, host, job, deaths, log>>
          BY <2>1, <2>5 DEF Halt
        <4> QED BY <4>2, <4>3, <4>4 DEF agentVars, gameVars
      <3> QED BY <2>5, <3>1, <3>2 DEF Halt
    <2>6. CASE ClearRequest
      BY <2>1, <2>6 DEF ClearRequest, agentVars, gameVars
    <2> QED BY <1>5, <2>2, <2>3, <2>4, <2>5, <2>6 DEF ControllerActs
  <1> QED BY <1>1, <1>3, <1>4, <1>5 DEF ControllerActs

\* The state of a world in which nothing was ever deployed has its shape.
LEMMA AgentInitType == Init => AgentTypeOK
  <1> SUFFICES ASSUME Init PROVE AgentTypeOK
    OBVIOUS
  <1>1. NewMemory \in Memories
    BY DEF NewMemory, Memories, Phases, Intents, BackupReports
  <1>2. NoDocument \in Documents
    BY DEF NoDocument, Documents, Phases, BackupReports
  <1> QED BY <1>1, <1>2 DEF Init, AgentTypeOK, Intents, Logs, NotLaunched, ProcStates

\* The state of the supervisor, and of everything around it, always has its shape.
THEOREM AgentTypeCorrect == Spec => []AgentTypeOK
  <1>1. AgentTypeOK /\ [Next]_vars => AgentTypeOK'
    <2> SUFFICES ASSUME AgentTypeOK, [Next]_vars PROVE AgentTypeOK'
      OBVIOUS
    <2>1. CASE UNCHANGED vars
      BY <2>1 DEF vars, agentVars, gameVars, envVars, AgentTypeOK
    <2>2. CASE Next
      BY <2>2, BootType, SuperviseType, WorldType DEF Next
    <2> QED BY <2>1, <2>2
  <1> QED BY <1>1, AgentInitType, PTL DEF Spec

-----------------------------------------------------------------------------
ExitIn(s) == \E i \in 1..Len(s) : s[i] = "exit"
OneExit(s) == \A i, j \in 1..Len(s) : s[i] = "exit" /\ s[j] = "exit" => i = j

Live(p) == procs[p].life # "none"
NoneLive == \A p \in Procs : ~Live(p)

\* There is one right to run a game: it is with a live process, with the exit the
\* waiter sent of it, or with the backoff that exit armed.
TokenInv ==
    /\ \A p, q \in Procs : Live(p) /\ Live(q) => p = q
    /\ OneExit(events)
    /\ ExitIn(events) \/ mem.relaunch \/ pc # "loop" => NoneLive
    /\ mem.relaunch \/ pc # "loop" => ~ExitIn(events)
    /\ pc # "loop" => ~mem.relaunch

\* A container that booted into a halt is parked, and nothing lives in it.
HaltInv == log.asked = "stopped" => pc = "loop" /\ mem.parked /\ NoneLive

\* Whatever lease is known is the one the container runs on.
LeaseInv ==
    /\ ctrl.lease # NoDSeq => ctrl.lease = host
    /\ mem.lease # NoDSeq => mem.lease = host
    /\ AttributedToItsOwnLease

\* Each relaunch is paid for by a restart that was counted, here or on the branch.
CountInv ==
    /\ mem.relaunch => mem.restarts <= MaxRestarts
    /\ ~log.lost =>
         /\ log.relaunches <= MaxRestarts
         /\ log.relaunches <= IF pc = "down" THEN own.restarts ELSE mem.restarts
         /\ mem.relaunch => log.relaunches < mem.restarts

\* Requests the state speaks of were drawn; one that was settled and still stands is
\* the one the last document answers.
AnswerInv ==
    /\ ctrl.request # NoReq => ctrl.request \in drawn.requests
    /\ job # NoReq => job \in drawn.requests
    /\ mem.answered \subseteq drawn.requests
    /\ log.settled \subseteq drawn.requests
    /\ own.backup.state = "answered" => own.backup.request \in drawn.requests
    /\ mem.backup.state = "answered" => mem.backup.request \in mem.answered
    /\ pc = "down" => mem.backup.state # "answered"
    /\ pc # "loop" \/ mem.backup.state = "answered" => job = NoReq
    /\ ~log.lost /\ ctrl.request \in log.settled =>
         /\ own.backup.state = "answered" /\ own.backup.request = ctrl.request
         /\ pc # "down" => ctrl.request \in mem.answered /\ mem.backup = own.backup

AgentInv == TokenInv /\ HaltInv /\ LeaseInv /\ CountInv /\ AnswerInv

-----------------------------------------------------------------------------
(* What the steps of the supervisor do to the parts the invariant reads.   *)

\* What a push leaves on the branch and in the history: what was there, or what the
\* memory says now.
Said ==
    \/ /\ own'.dseq = own.dseq /\ own'.restarts = own.restarts /\ own'.backup = own.backup
       /\ own'.phase = own.phase
       /\ log'.by = log.by /\ log'.settled = log.settled
    \/ /\ own'.dseq = mem'.lease /\ own'.restarts = mem'.restarts /\ own'.backup = mem'.backup
       /\ own'.phase = mem'.phase
       /\ log'.by = host
       /\ log'.settled = log.settled \cup
             IF mem'.backup.state = "answered" THEN {mem'.backup.request} ELSE {}

HistoryKept == log'.asked = log.asked /\ log'.lost = log.lost
RelaunchesKept == log'.relaunches = log.relaunches
LeaseRead == mem'.lease = mem.lease \/ (ctrl.lease # NoDSeq /\ mem'.lease = ctrl.lease)
GamesKept == \A p \in Procs : procs'[p].life = procs[p].life
AnswersKept == mem'.answered = mem.answered /\ mem'.backup = mem.backup /\ job' = job
Parks == mem.parked => mem'.parked
Speaks == Said /\ HistoryKept /\ LeaseRead /\ Parks /\ UNCHANGED envVars

\* Nothing is launched, no exit is taken and nothing is answered.
Quiet ==
    /\ Speaks /\ RelaunchesKept /\ GamesKept
    /\ pc # "down" /\ pc' # "down" /\ (pc = "loop" => pc' = "loop")
    /\ \/ events' = events
       \/ events # <<>> /\ Head(events) = "online" /\ events' = Tail(events)
    /\ mem'.restarts = mem.restarts /\ (mem'.relaunch => mem.relaunch)

BackupBegins ==
    /\ pc = "loop" /\ job = NoReq
    /\ ctrl.request # NoReq /\ ctrl.request \notin mem.answered
    /\ job' = ctrl.request /\ mem'.answered = mem.answered
    /\ mem'.backup.state = "running"

BackupEnds ==
    /\ pc = "loop" /\ job # NoReq
    /\ job' = NoReq /\ mem'.answered = mem.answered \cup {job}
    /\ mem'.backup.state = "answered" /\ mem'.backup.request = job

ExitTaken ==
    /\ Speaks /\ RelaunchesKept /\ GamesKept /\ AnswersKept
    /\ pc = "loop" /\ pc' = "loop"
    /\ events # <<>> /\ Head(events) = "exit" /\ events' = Tail(events)
    /\ \/ mem'.relaunch = mem.relaunch /\ mem'.restarts \in {mem.restarts, mem.restarts + 1}
       \/ mem'.restarts = mem.restarts + 1 /\ mem'.restarts <= MaxRestarts

Launches ==
    /\ Speaks /\ AnswersKept /\ UNCHANGED events
    /\ \E p \in Procs : procs' = [procs EXCEPT ![p] = Launched]
    /\ pc' = "loop" /\ mem'.restarts = mem.restarts
    /\ \/ pc = "loop" /\ mem.relaunch /\ ~mem.parked /\ ~mem'.relaunch
          /\ log'.relaunches = log.relaunches + 1
       \/ pc \in {"boot", "restore"} /\ mem'.relaunch = mem.relaunch /\ RelaunchesKept

Resumes ==
    /\ pc = "down" /\ Said /\ RelaunchesKept /\ UNCHANGED <<envVars, procs, events, job>>
    /\ host # NoDSeq /\ mem'.lease = ctrl.lease /\ ~mem'.relaunch
    /\ \/ pc' = "loop" /\ log'.asked = "stopped" /\ mem'.parked
       \/ pc' = "boot" /\ log'.asked = "running"
    /\ \E d \in Readable :
         /\ log'.lost = (log.lost \/ d # own)
         /\ mem'.restarts = d.restarts /\ mem'.backup = d.backup
         /\ mem'.answered = IF d.backup.state = "answered" THEN {d.backup.request} ELSE {}

\* Which memories say the same of what the invariant reads, parking aside.
Alike(m, n) ==
    /\ m.backup = n.backup /\ m.restarts = n.restarts /\ m.lease = n.lease
    /\ m.answered = n.answered /\ m.relaunch = n.relaunch

\* Phases, parking and pending pushes touch nothing else.
LEMMA AlikeFacts ==
    ASSUME NEW m \in Memories
    PROVE  /\ \A phase \in Phases : Alike(SetPhase(m, phase), m) /\ SetPhase(m, phase).parked = m.parked
           /\ Alike(Park(m), m) /\ Park(m).parked
           /\ \A b \in BOOLEAN : /\ Alike([m EXCEPT !.pending = b], m)
                                 /\ [m EXCEPT !.pending = b].parked = m.parked
           /\ \A p \in Procs \cup {NoProc} : /\ Alike([m EXCEPT !.pz = p], m)
                                             /\ [m EXCEPT !.pz = p].parked = m.parked
  BY DEF Alike, SetPhase, Park, Memories

\* A push says what the memory says, or nothing.
LEMMA PublishSays ==
    ASSUME AgentTypeOK, NEW m \in Memories, NEW f \in BOOLEAN, NEW l \in Logs,
           l.by = log.by, l.settled = log.settled, Publish(m, f, l)
    PROVE  /\ Said /\ Alike(mem', m) /\ mem'.parked = m.parked
           /\ log'.asked = l.asked /\ log'.relaunches = l.relaunches /\ log'.lost = l.lost
  <1>1. CASE own' = own /\ log' = l
    BY <1>1, PublishEffect DEF Said, Alike
  <1>2. CASE /\ own' = Document(m) /\ log'.by = host
             /\ log'.settled = l.settled \cup
                   IF m.backup.state = "answered" THEN {m.backup.request} ELSE {}
    BY <1>2, PublishEffect DEF Said, Alike, Document
  <1> QED BY <1>1, <1>2, PublishEffect

\* A push with the history as it is, and a memory that differs only in how it parks.
LEMMA QuietPublish ==
    ASSUME AgentTypeOK, NEW m \in Memories, NEW f \in BOOLEAN, Publish(m, f, log),
           mem.parked => m.parked, m.lease = mem.lease \/ (ctrl.lease # NoDSeq /\ m.lease = ctrl.lease),
           UNCHANGED envVars
    PROVE  Speaks /\ RelaunchesKept /\ Alike(mem', m)
  BY PublishSays DEF Speaks, HistoryKept, RelaunchesKept, LeaseRead, Parks, Alike, AgentTypeOK

\* startGame brings one process up and says so.
LEMMA StartGameShape ==
    ASSUME AgentTypeOK, NEW m \in Memories, NEW l \in Logs, l.by = log.by, l.settled = log.settled,
           StartGame(m, l)
    PROVE  /\ Said /\ Alike(mem', m) /\ mem'.parked = m.parked
           /\ log'.asked = l.asked /\ log'.relaunches = l.relaunches /\ log'.lost = l.lost
           /\ \E p \in Procs : procs' = [procs EXCEPT ![p] = Launched]
  <1>1. PICK p \in Procs : /\ procs' = [procs EXCEPT ![p] = Launched]
                           /\ Publish(SetPhase([m EXCEPT !.pz = p], "starting"), TRUE, l)
    BY DEF StartGame
  <1> DEFINE n == [m EXCEPT !.pz = p]
             s == SetPhase(n, "starting")
  <1>2. n \in Memories
    BY MemoryTypes
  <1>3. Alike(n, m) /\ n.parked = m.parked
    BY AlikeFacts
  <1> HIDE DEF n
  <1>4. s \in Memories /\ Alike(s, n) /\ s.parked = n.parked
    BY <1>2, MemoryTypes, AlikeFacts DEF Phases
  <1>5. Publish(s, TRUE, l)
    BY <1>1 DEF n
  <1> HIDE DEF s
  <1>6. /\ Said /\ Alike(mem', s) /\ mem'.parked = s.parked
        /\ log'.asked = l.asked /\ log'.relaunches = l.relaunches /\ log'.lost = l.lost
    BY <1>4, <1>5, PublishSays
  <1> QED BY <1>1, <1>3, <1>4, <1>6 DEF Alike

\* Boot, until the game is launched, only speaks.
LEMMA BootShape ==
    ASSUME AgentTypeOK, BootRestores \/ BootFails
    PROVE  Quiet /\ AnswersKept
  <1>1. CASE BootRestores
    <2> DEFINE m == SetPhase(mem, "restoring")
    <2>1. m \in Memories /\ Alike(m, mem) /\ m.parked = mem.parked
      BY MemoryTypes, AlikeFacts DEF AgentTypeOK, Phases
    <2>2. Publish(m, TRUE, log)
      BY <1>1 DEF BootRestores
    <2> HIDE DEF m
    <2>3. Speaks /\ RelaunchesKept /\ Alike(mem', m)
      BY <1>1, <2>1, <2>2, QuietPublish DEF BootRestores, Alike
    <2> QED BY <1>1, <2>1, <2>3 DEF BootRestores, Quiet, Alike, AnswersKept, GamesKept, gameVars
  <1>2. CASE BootFails
    <2>1. PICK phase \in {"crashed", "restore_failed"} :
            Publish([Park(SetPhase(mem, phase)) EXCEPT !.pending = TRUE], TRUE, log)
      BY <1>2 DEF BootFails
    <2> DEFINE s == SetPhase(mem, phase)
               k == Park(s)
               m == [k EXCEPT !.pending = TRUE]
    <2>2. s \in Memories /\ Alike(s, mem)
      BY MemoryTypes, AlikeFacts DEF AgentTypeOK, Phases
    <2>3. Publish(m, TRUE, log)
      BY <2>1
    <2> HIDE DEF s
    <2>4. k \in Memories /\ Alike(k, s) /\ k.parked
      BY <2>2, MemoryTypes, AlikeFacts
    <2> HIDE DEF k
    <2>5. m \in Memories /\ Alike(m, k) /\ m.parked = k.parked
      BY <2>4, MemoryTypes, AlikeFacts
    <2> HIDE DEF m
    <2>6. Alike(m, mem) /\ m.parked
      BY <2>2, <2>4, <2>5 DEF Alike
    <2>7. Speaks /\ RelaunchesKept /\ Alike(mem', m)
      BY <1>2, <2>3, <2>5, <2>6, QuietPublish DEF BootFails, Alike
    <2> QED BY <1>2, <2>6, <2>7 DEF BootFails, Quiet, Alike, AnswersKept, GamesKept, gameVars
  <1> QED BY <1>1, <1>2

\* The arms of the loop that neither launch, nor take an exit, nor answer.
LEMMA QuietArms ==
    ASSUME AgentTypeOK, TakeOnline \/ Liveness
    PROVE  Quiet /\ AnswersKept
  <1>1. CASE TakeOnline
    <2> DEFINE m == SetPhase(mem, "online")
    <2>1. m \in Memories /\ Alike(m, mem) /\ m.parked = mem.parked
      BY MemoryTypes, AlikeFacts DEF AgentTypeOK, Phases
    <2>2. Publish(m, FALSE, log)
      BY <1>1 DEF TakeOnline
    <2> HIDE DEF m
    <2>3. Speaks /\ RelaunchesKept /\ Alike(mem', m)
      BY <1>1, <2>1, <2>2, QuietPublish DEF TakeOnline, Alike
    <2> QED BY <1>1, <2>1, <2>3 DEF TakeOnline, Quiet, Alike, AnswersKept, GamesKept
  <1>2. CASE Liveness
    <2> DEFINE m == [mem EXCEPT !.pending = TRUE]
    <2>1. m \in Memories /\ Alike(m, mem) /\ m.parked = mem.parked
      BY MemoryTypes, AlikeFacts DEF AgentTypeOK
    <2>2. Publish(m, TRUE, log)
      BY <1>2 DEF Liveness
    <2> HIDE DEF m
    <2>3. Speaks /\ RelaunchesKept /\ Alike(mem', m)
      BY <1>2, <2>1, <2>2, QuietPublish DEF Liveness, Alike
    <2> QED BY <1>2, <2>1, <2>3 DEF Liveness, Quiet, Alike, AnswersKept, GamesKept, gameVars
  <1> QED BY <1>1, <1>2

\* applyController reads a lease and an intent.
LEMMA AppliedFacts ==
    ASSUME AgentTypeOK, NEW n \in Memories
    PROVE  LET m == ApplyController(n)
           IN  /\ m \in Memories
               /\ m.backup = n.backup /\ m.restarts = n.restarts /\ m.answered = n.answered
               /\ m.relaunch = n.relaunch /\ m.parked = n.parked /\ m.pz = n.pz
               /\ m.intent = ctrl.intent
               /\ m.lease = IF ctrl.lease # NoDSeq THEN ctrl.lease ELSE n.lease
  <1>1. ApplyController(n) \in Memories
    BY MemoryTypes
  <1> QED BY <1>1 DEF ApplyController, Memories

\* Reconcile speaks, and may begin a backup.
LEMMA ReconcileShape ==
    ASSUME AgentTypeOK, Reconcile
    PROVE  Quiet /\ (AnswersKept \/ BackupBegins)
  <1> DEFINE m == ApplyController(mem)
  <1>0. mem \in Memories
    BY DEF AgentTypeOK
  <1>1. /\ m \in Memories
        /\ m.backup = mem.backup /\ m.restarts = mem.restarts /\ m.answered = mem.answered
        /\ m.relaunch = mem.relaunch /\ m.parked = mem.parked
        /\ m.lease = IF ctrl.lease # NoDSeq THEN ctrl.lease ELSE mem.lease
    BY <1>0, AppliedFacts
  <1> HIDE DEF m
  <1>2. /\ pc = "loop" /\ pc' = "loop" /\ UNCHANGED <<events, envVars>>
        /\ \/ BackupWanted(m) /\ StartBackup(m)
           \/ StopGame(m) /\ UNCHANGED job
           \/ Publish(m, FALSE, log) /\ UNCHANGED <<procs, job>>
    BY DEF Reconcile, m
  <1>3. CASE BackupWanted(m) /\ StartBackup(m)
    <2> DEFINE s == [m EXCEPT !.backup = [request |-> ctrl.request, state |-> "running"], !.pending = TRUE]
               n == IF Running THEN SetPhase(s, "saving") ELSE s
    <2>1. ctrl.request \in ReqID
      BY <1>3 DEF BackupWanted, AgentTypeOK
    <2>2. /\ s \in Memories /\ s.backup.state = "running" /\ s.restarts = m.restarts
          /\ s.lease = m.lease /\ s.answered = m.answered /\ s.relaunch = m.relaunch
          /\ s.parked = m.parked
      BY <1>1, <2>1 DEF Memories, BackupReports
    <2>3. Publish(n, TRUE, log) /\ job' = ctrl.request /\ UNCHANGED procs
      BY <1>3 DEF StartBackup
    <2> HIDE DEF s
    <2>4. n \in Memories /\ Alike(n, s) /\ n.parked = s.parked
      <3>1. SetPhase(s, "saving") \in Memories /\ Alike(SetPhase(s, "saving"), s) /\ SetPhase(s, "saving").parked = s.parked
        BY <2>2, MemoryTypes, AlikeFacts DEF Phases
      <3> QED BY <2>2, <3>1 DEF Alike
    <2> HIDE DEF n
    <2>5. Speaks /\ RelaunchesKept /\ Alike(mem', n)
      BY <1>1, <1>2, <2>2, <2>3, <2>4, QuietPublish DEF Alike
    <2>6. Quiet
      BY <1>1, <1>2, <2>2, <2>3, <2>4, <2>5 DEF Quiet, Alike, GamesKept
    <2>7. BackupBegins
      BY <1>1, <1>2, <1>3, <2>2, <2>3, <2>4, <2>5 DEF BackupBegins, BackupWanted, Alike
    <2> QED BY <2>6, <2>7
  <1>4. CASE StopGame(m) /\ UNCHANGED job
    <2> DEFINE s(phase) == SetPhase(m, phase)
    <2>1. \A phase \in Phases : s(phase) \in Memories /\ Alike(s(phase), m) /\ s(phase).parked = m.parked
      BY <1>1, MemoryTypes, AlikeFacts
    <2>2. \A phase \in Phases : /\ Park(s(phase)) \in Memories /\ Alike(Park(s(phase)), s(phase))
                                /\ Park(s(phase)).parked
      BY <2>1, MemoryTypes, AlikeFacts
    <2>3. Park(m) \in Memories /\ Alike(Park(m), m) /\ Park(m).parked
      BY <1>1, MemoryTypes, AlikeFacts
    <2>4. \A n \in {m, Park(m), Park(s("stopped")), Park(s("stopping"))} :
             n \in Memories /\ Alike(n, m) /\ (m.parked => n.parked)
      BY <1>1, <2>1, <2>2, <2>3 DEF Alike, Phases
    <2>5. \E n \in {m, Park(m), Park(s("stopped")), Park(s("stopping"))}, f \in BOOLEAN : Publish(n, f, log)
      BY <1>4 DEF StopGame, Parked
    <2>6. PICK n \in Memories, f \in BOOLEAN : Publish(n, f, log) /\ Alike(n, m) /\ (m.parked => n.parked)
      BY <2>4, <2>5
    <2>7. Speaks /\ RelaunchesKept /\ Alike(mem', n)
      BY <1>1, <1>2, <2>6, QuietPublish DEF Alike
    <2>8. GamesKept
      <3>1. UNCHANGED procs \/ procs' = [procs EXCEPT ![m.pz].quit = TRUE]
        BY <1>4 DEF StopGame
      <3>2. CASE procs' = [procs EXCEPT ![m.pz].quit = TRUE]
        <4>1. \A p \in Procs : procs'[p] = procs[p] \/ procs'[p] = [procs[p] EXCEPT !.quit = TRUE]
          BY <3>2 DEF AgentTypeOK
        <4>2. \A p \in Procs : [procs[p] EXCEPT !.quit = TRUE].life = procs[p].life
          BY DEF AgentTypeOK, ProcStates
        <4> QED BY <4>1, <4>2 DEF GamesKept
      <3> QED BY <3>1, <3>2 DEF GamesKept
    <2> QED BY <1>1, <1>2, <1>4, <2>6, <2>7, <2>8 DEF Quiet, Alike, AnswersKept
  <1>5. CASE Publish(m, FALSE, log) /\ UNCHANGED <<procs, job>>
    <2>1. Speaks /\ RelaunchesKept /\ Alike(mem', m)
      BY <1>1, <1>2, <1>5, QuietPublish
    <2> QED BY <1>1, <1>2, <1>5, <2>1 DEF Quiet, Alike, AnswersKept, GamesKept
  <1> QED BY <1>2, <1>3, <1>4, <1>5

\* The end of a backup answers its request.
LEMMA BackupShape ==
    ASSUME AgentTypeOK, TakeBackup
    PROVE  Quiet /\ BackupEnds
  <1> DEFINE b == [mem EXCEPT !.backup = [request |-> job, state |-> "answered"],
                              !.answered = @ \cup {job}, !.pending = TRUE]
             n == IF Running
                    THEN IF b.phase = "saving" THEN SetPhase(b, "online") ELSE b
                    ELSE IF b.parked THEN b ELSE SetPhase(b, "stopped")
  <1>0. job \in ReqID /\ mem \in Memories
    BY DEF TakeBackup, AgentTypeOK
  <1>1. /\ b \in Memories /\ b.backup.state = "answered" /\ b.backup.request = job
        /\ b.answered = mem.answered \cup {job} /\ b.restarts = mem.restarts
        /\ b.lease = mem.lease /\ b.relaunch = mem.relaunch /\ b.parked = mem.parked
    <2>1. [request |-> job, state |-> "answered"] \in BackupReports
      BY <1>0 DEF BackupReports
    <2>2. mem.answered \cup {job} \in SUBSET ReqID
      BY <1>0 DEF Memories
    <2> QED BY <1>0, <2>1, <2>2 DEF Memories
  <1>2. Publish(n, TRUE, log) /\ pc = "loop" /\ job # NoReq /\ job' = NoReq
        /\ UNCHANGED <<pc, gameVars, envVars>>
    BY DEF TakeBackup
  <1> HIDE DEF b
  <1>3. n \in Memories /\ Alike(n, b) /\ n.parked = b.parked
    <2>1. \A phase \in {"online", "stopped"} :
             /\ SetPhase(b, phase) \in Memories /\ Alike(SetPhase(b, phase), b)
             /\ SetPhase(b, phase).parked = b.parked
      BY <1>1, MemoryTypes, AlikeFacts DEF Phases
    <2> QED BY <1>1, <2>1 DEF Alike
  <1> HIDE DEF n
  <1>4. Speaks /\ RelaunchesKept /\ Alike(mem', n)
    BY <1>1, <1>2, <1>3, QuietPublish DEF Alike
  <1> QED BY <1>1, <1>2, <1>3, <1>4 DEF Quiet, BackupEnds, Alike, GamesKept, gameVars

\* An exit parks, or arms a relaunch and is counted.
LEMMA ExitShape ==
    ASSUME AgentTypeOK, TakeExit
    PROVE  ExitTaken /\ (mem'.parked \/ mem'.restarts <= MaxRestarts)
  <1> DEFINE m == [mem EXCEPT !.pz = NoProc]
             c == [m EXCEPT !.restarts = @ + 1, !.pending = TRUE]
             s == SetPhase(m, "stopped")
             k == SetPhase(c, "crashed")
             r == SetPhase(c, "starting")
             a == [r EXCEPT !.relaunch = TRUE]
  <1>1. m \in Memories /\ Alike(m, mem) /\ m.parked = mem.parked
    BY MemoryTypes, AlikeFacts DEF AgentTypeOK
  <1>2. /\ pc = "loop" /\ events # <<>> /\ Head(events) = "exit" /\ events' = Tail(events)
        /\ UNCHANGED <<pc, procs, envVars, job>>
        /\ \/ Publish(Park(s), TRUE, log)
           \/ c.restarts > MaxRestarts /\ Publish(Park(k), TRUE, log)
           \/ c.restarts <= MaxRestarts /\ Publish(a, TRUE, log)
    BY DEF TakeExit
  <1> HIDE DEF m
  <1>3. c \in Memories
    BY <1>1, CountedMemory
  <1>4. /\ c.backup = m.backup /\ c.lease = m.lease /\ c.answered = m.answered
        /\ c.relaunch = m.relaunch /\ c.parked = m.parked /\ c.restarts = m.restarts + 1
    BY <1>1 DEF Memories
  <1> HIDE DEF c
  <1>5. /\ s \in Memories /\ Alike(s, m)
        /\ k \in Memories /\ Alike(k, c)
        /\ r \in Memories /\ Alike(r, c) /\ r.parked = c.parked
    BY <1>1, <1>3, MemoryTypes, AlikeFacts DEF Phases
  <1> HIDE DEF s, k, r
  <1>6. /\ Park(s) \in Memories /\ Alike(Park(s), s) /\ Park(s).parked
        /\ Park(k) \in Memories /\ Alike(Park(k), k) /\ Park(k).parked
    BY <1>5, MemoryTypes, AlikeFacts
  <1>7. /\ a \in Memories /\ a.backup = r.backup /\ a.restarts = r.restarts /\ a.lease = r.lease
        /\ a.answered = r.answered /\ a.parked = r.parked
    BY <1>5 DEF Memories
  <1> HIDE DEF a
  <1>8. CASE Publish(Park(s), TRUE, log)
    <2>1. Alike(Park(s), mem)
      BY <1>1, <1>5, <1>6 DEF Alike
    <2>2. Speaks /\ RelaunchesKept /\ Alike(mem', Park(s)) /\ mem'.parked = Park(s).parked
      BY <1>2, <1>6, <1>8, <2>1, QuietPublish, PublishEffect DEF Alike, AgentTypeOK
    <2> QED BY <1>2, <1>6, <2>1, <2>2 DEF ExitTaken, Alike, AnswersKept, GamesKept
  <1>9. CASE Publish(Park(k), TRUE, log)
    <2>1. /\ Park(k).backup = mem.backup /\ Park(k).lease = mem.lease
          /\ Park(k).answered = mem.answered /\ Park(k).relaunch = mem.relaunch
          /\ Park(k).restarts = mem.restarts + 1
      BY <1>1, <1>4, <1>5, <1>6 DEF Alike
    <2>2. Speaks /\ RelaunchesKept /\ Alike(mem', Park(k)) /\ mem'.parked = Park(k).parked
      BY <1>2, <1>6, <1>9, <2>1, QuietPublish, PublishEffect DEF AgentTypeOK
    <2> QED BY <1>2, <1>6, <2>1, <2>2 DEF ExitTaken, Alike, AnswersKept, GamesKept
  <1>10. CASE c.restarts <= MaxRestarts /\ Publish(a, TRUE, log)
    <2>1. /\ a.backup = mem.backup /\ a.lease = mem.lease /\ a.answered = mem.answered
          /\ a.restarts = mem.restarts + 1 /\ a.parked = mem.parked
          /\ a.restarts <= MaxRestarts
      BY <1>1, <1>4, <1>5, <1>7, <1>10 DEF Alike
    <2>2. Speaks /\ RelaunchesKept /\ Alike(mem', a)
      BY <1>2, <1>7, <1>10, <2>1, QuietPublish
    <2> QED BY <1>2, <2>1, <2>2 DEF ExitTaken, Alike, AnswersKept, GamesKept
  <1> QED BY <1>2, <1>8, <1>9, <1>10

\* The end of the backoff launches, or disarms and does nothing.
LEMMA RelaunchShape ==
    ASSUME AgentTypeOK, Relaunch
    PROVE  Launches \/ (Quiet /\ AnswersKept)
  <1> DEFINE m == [mem EXCEPT !.relaunch = FALSE]
             l == [log EXCEPT !.relaunches = @ + 1]
  <1>1. /\ m \in Memories /\ ~m.relaunch /\ m.backup = mem.backup /\ m.restarts = mem.restarts
        /\ m.lease = mem.lease /\ m.answered = mem.answered /\ m.parked = mem.parked
    BY DEF Memories, AgentTypeOK
  <1>2. /\ l \in Logs /\ l.by = log.by /\ l.settled = log.settled /\ l.asked = log.asked
        /\ l.lost = log.lost /\ l.relaunches = log.relaunches + 1
    BY LogTypes DEF Logs
  <1>3. /\ pc = "loop" /\ mem.relaunch /\ UNCHANGED <<pc, events, envVars, job>>
        /\ \/ ~m.parked /\ StartGame(m, l)
           \/ Publish(m, FALSE, log) /\ UNCHANGED procs
    BY DEF Relaunch
  <1> HIDE DEF m, l
  <1>4. CASE ~m.parked /\ StartGame(m, l)
    <2>1. /\ Said /\ Alike(mem', m) /\ mem'.parked = m.parked
          /\ log'.asked = l.asked /\ log'.relaunches = l.relaunches /\ log'.lost = l.lost
          /\ \E p \in Procs : procs' = [procs EXCEPT ![p] = Launched]
      BY <1>1, <1>2, <1>4, StartGameShape
    <2>2. Speaks
      BY <1>1, <1>2, <1>3, <2>1 DEF Speaks, HistoryKept, LeaseRead, Parks, Alike
    <2> QED BY <1>1, <1>2, <1>3, <1>4, <2>1, <2>2 DEF Launches, Alike, AnswersKept
  <1>5. CASE Publish(m, FALSE, log) /\ UNCHANGED procs
    <2>1. Speaks /\ RelaunchesKept /\ Alike(mem', m)
      BY <1>1, <1>3, <1>5, QuietPublish
    <2> QED BY <1>1, <1>3, <1>5, <2>1 DEF Quiet, Alike, AnswersKept, GamesKept
  <1> QED BY <1>3, <1>4, <1>5

\* Boot ends in a launch.
LEMMA BootLaunchShape ==
    ASSUME AgentTypeOK, BootLaunches
    PROVE  Launches
  <1>1. /\ mem \in Memories /\ log \in Logs /\ StartGame(mem, log)
        /\ pc \in {"boot", "restore"} /\ pc' = "loop" /\ UNCHANGED <<events, envVars, job>>
    BY DEF BootLaunches, AgentTypeOK
  <1>2. /\ Said /\ Alike(mem', mem) /\ mem'.parked = mem.parked
        /\ log'.asked = log.asked /\ log'.relaunches = log.relaunches /\ log'.lost = log.lost
        /\ \E p \in Procs : procs' = [procs EXCEPT ![p] = Launched]
    BY <1>1, StartGameShape
  <1>3. Speaks
    BY <1>1, <1>2 DEF Speaks, HistoryKept, LeaseRead, Parks, Alike
  <1> QED BY <1>1, <1>2, <1>3 DEF Launches, Alike, AnswersKept, RelaunchesKept

\* A process that begins takes what it read for its memory, and parks in a halt.
LEMMA ResumeShape ==
    ASSUME AgentTypeOK, Resume
    PROVE  Resumes
  <1>1. PICK d \in Readable :
          LET m == Resumed(d)
              l == [log EXCEPT !.asked = m.intent, !.lost = @ \/ d # own]
          IN  \/ /\ m.intent = "stopped" /\ pc' = "loop"
                 /\ Publish(Park(SetPhase(m, "stopped")), TRUE, l)
              \/ /\ m.intent = "running" /\ pc' = "boot" /\ mem' = m /\ log' = l
                 /\ UNCHANGED own
    BY DEF Resume
  <1> DEFINE a == IF d.backup.state = "answered" THEN {d.backup.request} ELSE {}
             n == [NewMemory EXCEPT !.restarts = d.restarts, !.backup = d.backup, !.answered = a]
             m == Resumed(d)
             l == [log EXCEPT !.asked = m.intent, !.lost = @ \/ d # own]
             s == SetPhase(m, "stopped")
             k == Park(s)
  <1>2. d \in Documents
    BY ResumedTypes
  <1>3. /\ n \in Memories /\ n.backup = d.backup /\ n.restarts = d.restarts /\ n.answered = a
        /\ ~n.relaunch /\ n.lease = NoDSeq
    <2>1. a \subseteq ReqID
      BY <1>2 DEF Documents, BackupReports, NoBackup
    <2>2. NewMemory \in Memories
      BY ResumedTypes
    <2> QED BY <1>2, <2>1, <2>2 DEF Memories, Documents, NewMemory
  <1>4. m = ApplyController(n)
    BY DEF Resumed
  <1> HIDE DEF n, m
  <1>5. /\ m \in Memories /\ m.backup = d.backup /\ m.restarts = d.restarts /\ m.answered = a
        /\ ~m.relaunch /\ m.lease = ctrl.lease /\ m.intent \in Intents
    BY <1>3, <1>4, AppliedFacts DEF Memories
  <1>6. /\ l \in Logs /\ l.by = log.by /\ l.settled = log.settled /\ l.relaunches = log.relaunches
        /\ l.asked = m.intent /\ l.lost = (log.lost \/ d # own)
    <2>1. l \in Logs
      BY <1>5, LogTypes
    <2>2. log \in Logs
      BY DEF AgentTypeOK
    <2> QED BY <2>1, <2>2 DEF Logs
  <1>7. /\ pc = "down" /\ host # NoDSeq /\ UNCHANGED <<envVars, procs, events, job>>
        /\ \/ m.intent = "stopped" /\ pc' = "loop" /\ Publish(k, TRUE, l)
           \/ m.intent = "running" /\ pc' = "boot" /\ mem' = m /\ log' = l /\ UNCHANGED own
    BY <1>1 DEF Resume, m, gameVars
  <1> HIDE DEF l, a
  <1>8. CASE m.intent = "stopped" /\ pc' = "loop" /\ Publish(k, TRUE, l)
    <2>1. s \in Memories /\ Alike(s, m)
      BY <1>5, MemoryTypes, AlikeFacts DEF Phases
    <2> HIDE DEF s
    <2>2. k \in Memories /\ Alike(k, s) /\ k.parked
      BY <2>1, MemoryTypes, AlikeFacts
    <2> HIDE DEF k
    <2>3. /\ Said /\ Alike(mem', k) /\ mem'.parked = k.parked
          /\ log'.asked = l.asked /\ log'.relaunches = l.relaunches /\ log'.lost = l.lost
      BY <1>6, <1>8, <2>2, PublishSays
    <2>4. /\ mem'.restarts = d.restarts /\ mem'.backup = d.backup /\ mem'.answered = a
          /\ ~mem'.relaunch /\ mem'.lease = ctrl.lease
      BY <1>5, <2>1, <2>2, <2>3 DEF Alike
    <2> QED BY <1>6, <1>7, <1>8, <2>2, <2>3, <2>4 DEF Resumes, RelaunchesKept, a
  <1>9. CASE m.intent = "running" /\ pc' = "boot" /\ mem' = m /\ log' = l /\ UNCHANGED own
    <2>1. Said
      BY <1>6, <1>9 DEF Said
    <2> QED BY <1>5, <1>6, <1>7, <1>9, <2>1 DEF Resumes, RelaunchesKept, a
  <1> QED BY <1>7, <1>8, <1>9

Answers == AnswersKept \/ BackupBegins \/ BackupEnds
Shapes == Resumes \/ (Quiet /\ Answers) \/ ExitTaken \/ Launches

\* Every step of the supervisor has one of these shapes.
LEMMA SupervisorShapes ==
    ASSUME AgentTypeOK, Resume \/ Booting \/ Supervise
    PROVE  Shapes
  BY BootShape, QuietArms, ReconcileShape, BackupShape, ExitShape, RelaunchShape,
     BootLaunchShape, ResumeShape
     DEF Booting, Supervise, Shapes, Answers

-----------------------------------------------------------------------------
(* The right to run a game.                                                *)

\* Taking an event leaves no exit that was not there, and takes the only one.
LEMMA TailExits ==
    ASSUME NEW s \in Seq({"online", "exit"}), s # <<>>, OneExit(s)
    PROVE  /\ OneExit(Tail(s))
           /\ ExitIn(Tail(s)) => ExitIn(s) /\ Head(s) # "exit"
           /\ Head(s) = "exit" => ExitIn(s)
  <1>1. \A i \in 1..Len(Tail(s)) : Tail(s)[i] = s[i + 1] /\ i + 1 \in 1..Len(s)
    OBVIOUS
  <1>2. Head(s) = s[1] /\ 1 \in 1..Len(s)
    OBVIOUS
  <1>3. \A i \in 1..Len(Tail(s)) : i \in Nat /\ i + 1 # 1
    OBVIOUS
  <1> QED BY <1>1, <1>2, <1>3 DEF OneExit, ExitIn

\* An exit that is sent is the only one if there was none; a banner changes nothing.
LEMMA AppendExits ==
    ASSUME NEW s \in Seq({"online", "exit"}), OneExit(s)
    PROVE  /\ OneExit(Append(s, "online"))
           /\ ExitIn(Append(s, "online")) => ExitIn(s)
           /\ ~ExitIn(s) => OneExit(Append(s, "exit"))
  <1>1. \A e \in {"online", "exit"} :
          /\ Len(Append(s, e)) = Len(s) + 1
          /\ \A i \in 1..Len(s) : Append(s, e)[i] = s[i]
          /\ Append(s, e)[Len(s) + 1] = e
    OBVIOUS
  <1>2. \A i \in 1..(Len(s) + 1) : i \in 1..Len(s) \/ i = Len(s) + 1
    OBVIOUS
  <1> QED BY <1>1, <1>2 DEF OneExit, ExitIn

\* The supervisor passes the right on and never doubles it.
LEMMA TokenBySupervisor ==
    ASSUME AgentTypeOK, TokenInv, HaltInv, Shapes
    PROVE  TokenInv' /\ HaltInv'
  <1>0. events \in Seq({"online", "exit"}) /\ OneExit(events)
    BY DEF AgentTypeOK, TokenInv
  <1>1. CASE Resumes
    BY <1>1 DEF Resumes, TokenInv, HaltInv, NoneLive, Live
  <1>2. CASE Quiet
    <2>1. \A p \in Procs : Live(p)' = Live(p)
      BY <1>2 DEF Quiet, GamesKept, Live
    <2>2. NoneLive' = NoneLive
      BY <2>1 DEF NoneLive
    <2>3. OneExit(events)' /\ (ExitIn(events)' => ExitIn(events))
      BY <1>0, <1>2, TailExits DEF Quiet
    <2>4. TokenInv'
      BY <1>2, <2>1, <2>2, <2>3 DEF Quiet, TokenInv
    <2>5. HaltInv'
      BY <1>2, <2>2 DEF Quiet, HaltInv, Speaks, HistoryKept, Parks
    <2> QED BY <2>4, <2>5
  <1>3. CASE ExitTaken
    <2>1. \A p \in Procs : Live(p)' = Live(p)
      BY <1>3 DEF ExitTaken, GamesKept, Live
    <2>2. NoneLive' = NoneLive
      BY <2>1 DEF NoneLive
    <2>3. OneExit(events)' /\ ExitIn(events) /\ ~ExitIn(events)'
      BY <1>0, <1>3, TailExits DEF ExitTaken
    <2>4. TokenInv'
      BY <1>3, <2>1, <2>2, <2>3 DEF ExitTaken, TokenInv
    <2>5. HaltInv'
      BY <1>3, <2>2 DEF ExitTaken, HaltInv, Speaks, HistoryKept, Parks
    <2> QED BY <2>4, <2>5
  <1>4. CASE Launches
    <2>1. NoneLive /\ ~ExitIn(events)
      BY <1>4 DEF Launches, TokenInv
    <2>2. PICK p \in Procs : procs' = [procs EXCEPT ![p] = Launched]
      BY <1>4 DEF Launches
    <2>3. \A q \in Procs : Live(q)' => q = p
      BY <2>1, <2>2 DEF NoneLive, Live, AgentTypeOK
    <2>4. ~mem'.relaunch /\ pc' = "loop" /\ events' = events
      BY <1>4 DEF Launches, TokenInv
    <2>5. log'.asked = log.asked /\ log.asked # "stopped"
      BY <1>4 DEF Launches, HaltInv, Speaks, HistoryKept
    <2>6. TokenInv'
      BY <1>0, <2>1, <2>3, <2>4 DEF TokenInv
    <2>7. HaltInv'
      BY <2>5 DEF HaltInv
    <2> QED BY <2>6, <2>7
  <1> QED BY <1>1, <1>2, <1>3, <1>4 DEF Shapes

-----------------------------------------------------------------------------
(* Leases, counts and answers under the supervisor's steps.                *)

\* What is said of a lease is read from the controller.
LEMMA LeaseBySupervisor ==
    ASSUME AgentTypeOK, LeaseInv, Shapes
    PROVE  LeaseInv'
  <1>1. ctrl' = ctrl /\ host' = host /\ Said
    BY DEF Shapes, Resumes, Quiet, ExitTaken, Launches, Speaks, envVars
  <1>2. mem'.lease \in {mem.lease, ctrl.lease, NoDSeq}
    BY DEF Shapes, Resumes, Quiet, ExitTaken, Launches, Speaks, LeaseRead
  <1>3. mem'.lease # NoDSeq => mem'.lease = host
    BY <1>2 DEF LeaseInv
  <1>4. AttributedToItsOwnLease'
    BY <1>1, <1>3 DEF Said, LeaseInv, AttributedToItsOwnLease
  <1> QED BY <1>1, <1>3, <1>4 DEF LeaseInv

\* A relaunch spends what a crash was charged.
LEMMA CountBySupervisor ==
    ASSUME AgentTypeOK, TokenInv, CountInv, Shapes
    PROVE  CountInv'
  <1>0. /\ mem.restarts \in Nat /\ own.restarts \in Nat /\ log.relaunches \in Nat
        /\ MaxRestarts \in Nat /\ log.lost \in BOOLEAN
    BY RestartsAssumption DEF AgentTypeOK, Memories, Documents, Logs
  <1>1. CASE Resumes
    <2>1. PICK d \in Readable : /\ log'.lost = (log.lost \/ d # own)
                                /\ mem'.restarts = d.restarts
      BY <1>1 DEF Resumes
    <2>2. pc = "down" /\ pc' # "down" /\ ~mem'.relaunch /\ log'.relaunches = log.relaunches
      BY <1>1 DEF Resumes, RelaunchesKept
    <2>3. ~log'.lost => ~log.lost /\ mem'.restarts = own.restarts
      BY <2>1
    <2> QED BY <2>2, <2>3 DEF CountInv
  <1>2. CASE Quiet
    BY <1>0, <1>2 DEF Quiet, CountInv, Speaks, HistoryKept, RelaunchesKept
  <1>3. CASE ExitTaken
    <2>1. pc = "loop" /\ pc' = "loop" /\ log'.lost = log.lost /\ log'.relaunches = log.relaunches
      BY <1>3 DEF ExitTaken, Speaks, HistoryKept, RelaunchesKept
    <2>2. ~mem.relaunch
      <3>1. ExitIn(events)
        BY <1>3, TailExits DEF ExitTaken, AgentTypeOK, TokenInv
      <3> QED BY <3>1 DEF TokenInv
    <2>3. \/ mem'.relaunch = mem.relaunch /\ mem'.restarts \in {mem.restarts, mem.restarts + 1}
          \/ mem'.restarts = mem.restarts + 1 /\ mem'.restarts <= MaxRestarts
      BY <1>3 DEF ExitTaken
    <2> QED BY <1>0, <2>1, <2>2, <2>3 DEF CountInv
  <1>4. CASE Launches
    <2>1. /\ pc # "down" /\ pc' = "loop" /\ mem'.restarts = mem.restarts /\ ~mem'.relaunch
          /\ log'.lost = log.lost
      BY <1>4 DEF Launches, Speaks, HistoryKept, TokenInv
    <2>2. \/ mem.relaunch /\ log'.relaunches = log.relaunches + 1
          \/ log'.relaunches = log.relaunches
      BY <1>4 DEF Launches, RelaunchesKept
    <2>3. mem.relaunch /\ ~log.lost => log.relaunches + 1 <= mem.restarts /\ log.relaunches + 1 <= MaxRestarts
      BY <1>0 DEF CountInv
    <2> QED BY <1>0, <2>1, <2>2, <2>3 DEF CountInv
  <1> QED BY <1>1, <1>2, <1>3, <1>4 DEF Shapes

\* A request is answered in the memory before it is answered on the branch, and once.
LEMMA AnswerBySupervisor ==
    ASSUME AgentTypeOK, AnswerInv, Shapes
    PROVE  AnswerInv'
  <1>1. CASE Resumes
    <2>1. PICK d \in Readable :
            /\ log'.lost = (log.lost \/ d # own)
            /\ mem'.backup = d.backup
            /\ mem'.answered = IF d.backup.state = "answered" THEN {d.backup.request} ELSE {}
      BY <1>1 DEF Resumes
    <2>2. /\ pc = "down" /\ pc' # "down" /\ Said /\ job' = job
          /\ ctrl' = ctrl /\ drawn' = drawn
      BY <1>1 DEF Resumes, envVars
    <2>3. d = own \/ d.backup.state = "none"
      BY DEF Readable, NoDocument, NoBackup
    <2>4. d.backup.state = "answered" => d.backup.request \in drawn.requests
      BY <2>3 DEF AnswerInv
    <2>5. job = NoReq
      BY <2>2 DEF AnswerInv
    <2>6. /\ log'.settled \subseteq drawn.requests
          /\ own'.backup.state = "answered" => own'.backup.request \in drawn.requests
      BY <2>1, <2>2, <2>4 DEF Said, AnswerInv
    <2>7. ASSUME ~log'.lost, ctrl.request \in log'.settled
          PROVE  /\ own'.backup.state = "answered" /\ own'.backup.request = ctrl.request
                 /\ ctrl.request \in mem'.answered /\ mem'.backup = own'.backup
      <3>1. d = own /\ ~log.lost
        BY <2>1, <2>7
      <3> QED BY <2>1, <2>2, <2>7, <3>1 DEF Said, AnswerInv
    <2> QED BY <2>1, <2>2, <2>4, <2>5, <2>6, <2>7 DEF AnswerInv
  <1>2. ASSUME Said, AnswersKept, HistoryKept, pc # "down", pc' # "down",
               pc = "loop" => pc' = "loop", ctrl' = ctrl, drawn' = drawn
        PROVE  AnswerInv'
    <2>1. /\ log'.settled \subseteq drawn.requests
          /\ own'.backup.state = "answered" => own'.backup.request \in drawn.requests
      BY <1>2 DEF Said, AnswersKept, AnswerInv
    <2>2. ASSUME ~log'.lost, ctrl.request \in log'.settled
          PROVE  /\ own'.backup.state = "answered" /\ own'.backup.request = ctrl.request
                 /\ ctrl.request \in mem'.answered /\ mem'.backup = own'.backup
      BY <1>2, <2>2 DEF Said, AnswersKept, HistoryKept, AnswerInv
    <2> QED BY <1>2, <2>1, <2>2 DEF AnswersKept, AnswerInv
  <1>3. CASE Quiet /\ BackupBegins
    <2>1. /\ Said /\ log'.lost = log.lost /\ ctrl' = ctrl /\ drawn' = drawn
          /\ pc = "loop" /\ pc' = "loop"
      BY <1>3 DEF Quiet, BackupBegins, Speaks, HistoryKept, envVars
    <2>2. /\ ctrl.request # NoReq /\ ctrl.request \notin mem.answered /\ job' = ctrl.request
          /\ mem'.answered = mem.answered /\ mem'.backup.state = "running"
      BY <1>3 DEF BackupBegins
    <2>3. log'.settled = log.settled
      BY <2>1, <2>2 DEF Said
    <2>4. ~(~log.lost /\ ctrl.request \in log.settled)
      BY <2>1, <2>2 DEF AnswerInv
    <2>5. own'.backup.state = "answered" => own'.backup.request \in drawn.requests
      BY <2>1, <2>2 DEF Said, AnswerInv
    <2> QED BY <2>1, <2>2, <2>3, <2>4, <2>5 DEF AnswerInv
  <1>4. CASE Quiet /\ BackupEnds
    <2>1. /\ Said /\ log'.lost = log.lost /\ ctrl' = ctrl /\ drawn' = drawn
          /\ pc = "loop" /\ pc' = "loop"
      BY <1>4 DEF Quiet, BackupEnds, Speaks, HistoryKept, envVars
    <2>2. /\ job # NoReq /\ job' = NoReq /\ mem'.answered = mem.answered \cup {job}
          /\ mem'.backup.state = "answered" /\ mem'.backup.request = job
      BY <1>4 DEF BackupEnds
    <2>3. job \in drawn.requests
      BY <2>2 DEF AnswerInv
    <2>4. ~(~log.lost /\ ctrl.request \in log.settled)
      BY <2>1, <2>2 DEF AnswerInv
    <2>5. /\ log'.settled \subseteq drawn.requests
          /\ own'.backup.state = "answered" => own'.backup.request \in drawn.requests
      BY <2>1, <2>2, <2>3 DEF Said, AnswerInv
    <2>6. ASSUME ~log'.lost, ctrl.request \in log'.settled
          PROVE  /\ own'.backup.state = "answered" /\ own'.backup.request = ctrl.request
                 /\ ctrl.request \in mem'.answered /\ mem'.backup = own'.backup
      BY <2>1, <2>2, <2>4, <2>6 DEF Said
    <2> QED BY <2>1, <2>2, <2>3, <2>5, <2>6 DEF AnswerInv
  <1>5. CASE (Quiet /\ AnswersKept) \/ ExitTaken \/ Launches
    BY <1>2, <1>5 DEF Quiet, ExitTaken, Launches, Speaks, envVars
  <1> QED BY <1>1, <1>3, <1>4, <1>5 DEF Shapes, Answers

-----------------------------------------------------------------------------
(* The rest of the world.                                                  *)

\* The goroutines hand the right from the process to its exit, and say no more.
LEMMA InvByGame ==
    ASSUME AgentTypeOK, AgentInv, Game
    PROVE  AgentInv'
  <1>0. events \in Seq({"online", "exit"}) /\ OneExit(events)
    BY DEF AgentTypeOK, AgentInv, TokenInv
  <1>1. PICK p \in Procs : ScannerSends(p) \/ GameExits(p) \/ WaiterSends(p)
    BY DEF Game
  <1>2. UNCHANGED <<pc, mem, own, ctrl, host, drawn, job, log>>
    BY <1>1 DEF ScannerSends, GameExits, WaiterSends, agentVars, envVars
  <1>3. LeaseInv' /\ CountInv' /\ AnswerInv'
    BY <1>2 DEF AgentInv, LeaseInv, AttributedToItsOwnLease, CountInv, AnswerInv
  <1>4. CASE ScannerSends(p)
    <2>1. \A q \in Procs : procs'[q].life = procs[q].life
      <3>1. procs[p] \in ProcStates /\ procs \in [Procs -> ProcStates]
        BY DEF AgentTypeOK
      <3>2. [procs[p] EXCEPT !.banner = "sent"].life = procs[p].life
        BY <3>1 DEF ProcStates
      <3>3. procs[p] = Leftover => procs[p].life = "none"
        BY DEF Leftover
      <3>4. NotLaunched.life = "none"
        BY DEF NotLaunched
      <3>5. procs' = [procs EXCEPT ![p] = IF procs[p] = Leftover THEN NotLaunched
                                          ELSE [procs[p] EXCEPT !.banner = "sent"]]
        BY <1>4 DEF ScannerSends
      <3> QED BY <3>1, <3>2, <3>3, <3>4, <3>5
    <2>2. OneExit(events)' /\ (ExitIn(events)' => ExitIn(events))
      BY <1>0, <1>4, AppendExits DEF ScannerSends
    <2>3. (\A q \in Procs : Live(q)' = Live(q)) /\ NoneLive' = NoneLive
      BY <2>1 DEF Live, NoneLive
    <2> QED BY <1>2, <1>3, <2>2, <2>3 DEF AgentInv, TokenInv, HaltInv
  <1>5. CASE GameExits(p)
    <2>1. Live(p) /\ UNCHANGED events
      BY <1>5 DEF GameExits, Up, Live
    <2>2. \A q \in Procs : Live(q)' => Live(q)
      BY <1>5, <2>1 DEF GameExits, Live, AgentTypeOK
    <2>3. ~NoneLive
      BY <2>1 DEF NoneLive
    <2> QED BY <1>0, <1>2, <1>3, <2>1, <2>2, <2>3 DEF AgentInv, TokenInv, HaltInv
  <1>6. CASE WaiterSends(p)
    <2>1. Live(p) /\ events' = Append(events, "exit")
      BY <1>6 DEF WaiterSends, Live
    <2>2. ~NoneLive
      BY <2>1 DEF NoneLive
    <2>3. ~ExitIn(events) /\ ~mem.relaunch /\ pc = "loop"
      BY <2>2 DEF AgentInv, TokenInv
    <2>4. OneExit(events)'
      BY <1>0, <2>1, <2>3, AppendExits
    <2>5. \A q \in Procs : procs'[q].life = IF q = p THEN "none" ELSE procs[q].life
      <3>1. PICK rest \in {NotLaunched, Leftover} : procs' = [procs EXCEPT ![p] = rest]
        BY <1>6 DEF WaiterSends
      <3> QED BY <3>1 DEF AgentTypeOK, NotLaunched, Leftover
    <2>6. NoneLive'
      BY <2>1, <2>5 DEF NoneLive, Live, AgentInv, TokenInv
    <2>7. log.asked # "stopped"
      BY <2>2 DEF AgentInv, HaltInv
    <2> QED BY <1>2, <1>3, <2>3, <2>4, <2>6, <2>7 DEF AgentInv, TokenInv, HaltInv, NoneLive
  <1> QED BY <1>1, <1>4, <1>5, <1>6

\* With the container everything in it goes, and what its lease is owed stays.
LEMMA InvByContainerGone ==
    ASSUME AgentTypeOK, AgentInv, ContainerGone, drawn' = drawn,
           \/ pc # "down" /\ ctrl' = ctrl /\ host' = host
           \/ host' = NoDSeq /\ ctrl' = [ctrl EXCEPT !.intent = "stopped", !.request = NoReq, !.lease = NoDSeq]
    PROVE  AgentInv'
  <1>0. /\ log \in Logs /\ mem \in Memories /\ own \in Documents /\ log.settled \subseteq ReqID
        /\ mem.restarts \in Nat /\ own.restarts \in Nat /\ log.relaunches \in Nat
        /\ \/ ctrl' = ctrl /\ host' = host
           \/ ctrl'.request = NoReq /\ ctrl'.lease = NoDSeq
    BY DEF AgentTypeOK, Logs, Memories, Documents
  <1>1. /\ pc' = "down" /\ own' = own /\ job' = NoReq /\ events' = <<>>
        /\ mem' = NewMemory /\ procs' = [p \in Procs |-> NotLaunched]
        /\ log' = [log EXCEPT !.asked = "running", !.lost = @ \/ mem.restarts > own.restarts]
    BY DEF ContainerGone
  <1>2. /\ log'.asked = "running" /\ log'.relaunches = log.relaunches
        /\ log'.settled = log.settled /\ log'.by = log.by
        /\ log'.lost = (log.lost \/ mem.restarts > own.restarts)
    BY <1>0, <1>1 DEF Logs
  <1>3. /\ ~mem'.relaunch /\ mem'.lease = NoDSeq /\ mem'.answered = {}
        /\ mem'.backup.state = "none"
    BY <1>1 DEF NewMemory, NoBackup
  <1>4. TokenInv'
    BY <1>1, <1>3 DEF TokenInv, NoneLive, Live, NotLaunched, OneExit, ExitIn
  <1>5. HaltInv'
    BY <1>2 DEF HaltInv
  <1>6. LeaseInv'
    <2>1. ctrl'.lease # NoDSeq => ctrl'.lease = host'
      BY <1>0 DEF AgentInv, LeaseInv
    <2>2. AttributedToItsOwnLease'
      BY <1>1, <1>2 DEF AgentInv, LeaseInv, AttributedToItsOwnLease
    <2> QED BY <1>3, <2>1, <2>2 DEF LeaseInv
  <1>7. CountInv'
    <2>1. ASSUME ~log'.lost PROVE ~log.lost /\ mem.restarts <= own.restarts
      <3>1. ~(log.lost \/ mem.restarts > own.restarts)
        BY <1>2, <2>1, Zenon
      <3> QED BY <1>0, <3>1
    <2>2. ~log.lost => /\ log.relaunches <= MaxRestarts
                       /\ log.relaunches <= IF pc = "down" THEN own.restarts ELSE mem.restarts
      BY DEF AgentInv, CountInv
    <2>3. ~log'.lost => log.relaunches <= MaxRestarts /\ log.relaunches <= own.restarts
      BY <1>0, <2>1, <2>2
    <2> QED BY <1>1, <1>2, <1>3, <2>3 DEF CountInv
  <1>8. AnswerInv'
    <2>1. ctrl'.request # NoReq => ctrl'.request = ctrl.request
      BY <1>0
    <2>2. ctrl'.request \in log'.settled => ctrl'.request = ctrl.request
      BY <1>0, <1>2, <2>1, NoReqAssumption
    <2>3. ~log'.lost => ~log.lost
      BY <1>2
    <2> QED BY <1>1, <1>2, <1>3, <2>1, <2>2, <2>3 DEF AgentInv, AnswerInv
  <1> QED BY <1>4, <1>5, <1>6, <1>7, <1>8 DEF AgentInv

\* The controller leaves the container alone: it draws new leases and requests.
LEMMA InvByController ==
    ASSUME AgentTypeOK, AgentInv, ControllerActs, ~CloseLease
    PROVE  AgentInv'
  <1>0. /\ ctrl \in [intent : Intents, request : ReqID \cup {NoReq}, lease : DSeq \cup {NoDSeq}]
        /\ drawn \in [leases : SUBSET DSeq, requests : SUBSET ReqID] /\ log.settled \subseteq ReqID
    BY DEF AgentTypeOK, Logs
  <1>1. UNCHANGED <<pc, mem, own, procs, events, job, log>>
    BY DEF ControllerActs, Deploy, AskBackup, RecordLease, Halt, ClearRequest, agentVars, gameVars
  <1>2. TokenInv' /\ HaltInv' /\ CountInv'
    BY <1>1 DEF AgentInv, TokenInv, NoneLive, Live, HaltInv, CountInv
  <1>3. LeaseInv' /\ drawn.requests \subseteq drawn'.requests
        /\ \/ ctrl'.request \in {ctrl.request, NoReq}
           \/ ctrl'.request \notin drawn.requests /\ ctrl'.request \in drawn'.requests
    <2> USE DEF AgentInv, LeaseInv, AttributedToItsOwnLease
    <2>1. CASE \E d \in DSeq : Deploy(d)
      BY <1>0, <1>1, <2>1 DEF Deploy
    <2>2. CASE RecordLease
      BY <1>0, <1>1, <2>2 DEF RecordLease
    <2>3. CASE \E r \in ReqID : AskBackup(r)
      BY <1>0, <1>1, <2>3 DEF AskBackup, Asks
    <2>4. CASE Halt
      <3>1. \/ ctrl' = [ctrl EXCEPT !.intent = "stopped"] /\ UNCHANGED drawn
            \/ \E r \in ReqID : Asks(r) /\ ctrl' = [ctrl EXCEPT !.intent = "stopped", !.request = r]
        BY <2>4 DEF Halt
      <3>2. UNCHANGED host
        BY <2>4 DEF Halt
      <3>3. CASE ctrl' = [ctrl EXCEPT !.intent = "stopped"] /\ UNCHANGED drawn
        BY <1>0, <1>1, <3>2, <3>3
      <3>4. CASE \E r \in ReqID : Asks(r) /\ ctrl' = [ctrl EXCEPT !.intent = "stopped", !.request = r]
        BY <1>0, <1>1, <3>2, <3>4 DEF Asks
      <3> QED BY <3>1, <3>3, <3>4
    <2>5. CASE ClearRequest
      BY <1>0, <1>1, <2>5 DEF ClearRequest
    <2> QED BY <2>1, <2>2, <2>3, <2>4, <2>5 DEF ControllerActs
  <1>4. AnswerInv'
    <2>1. ctrl'.request \in log.settled => ctrl'.request = ctrl.request
      BY <1>0, <1>3, NoReqAssumption DEF AgentInv, AnswerInv
    <2>2. ctrl'.request # NoReq => ctrl'.request \in drawn'.requests
      BY <1>3 DEF AgentInv, AnswerInv
    <2> QED BY <1>1, <1>3, <2>1, <2>2 DEF AgentInv, AnswerInv
  <1> QED BY <1>2, <1>3, <1>4 DEF AgentInv

-----------------------------------------------------------------------------
(* The theorems.                                                           *)

\* No step, of the supervisor or of the world around it, breaks the invariant.
LEMMA AgentInvInductive ==
    ASSUME AgentTypeOK, AgentInv, [Next]_vars
    PROVE  AgentInv'
  <1>1. CASE UNCHANGED vars
    BY <1>1 DEF vars, agentVars, gameVars, envVars, AgentInv, TokenInv, NoneLive, Live, HaltInv,
                LeaseInv, AttributedToItsOwnLease, CountInv, AnswerInv
  <1>2. CASE Resume \/ Booting \/ Supervise
    BY <1>2, SupervisorShapes, TokenBySupervisor, LeaseBySupervisor, CountBySupervisor,
       AnswerBySupervisor DEF AgentInv
  <1>3. CASE Game
    BY <1>3, InvByGame
  <1>4. CASE ContainerDies
    BY <1>4, InvByContainerGone DEF ContainerDies, envVars
  <1>5. CASE CloseLease
    BY <1>5, InvByContainerGone DEF CloseLease
  <1>6. CASE ControllerActs /\ ~CloseLease
    BY <1>6, InvByController
  <1> QED BY <1>1, <1>2, <1>3, <1>4, <1>5, <1>6 DEF Next

\* The invariant holds throughout.
THEOREM AgentInvAlways == Spec => []AgentInv
  <1>1. Init => AgentInv
    <2> SUFFICES ASSUME Init PROVE AgentInv
      OBVIOUS
    <2> USE DEF Init, NewMemory, NoDocument, NoBackup
    <2>1. TokenInv
      BY DEF TokenInv, NoneLive, Live, OneExit, ExitIn, NotLaunched
    <2>2. HaltInv /\ LeaseInv
      BY DEF HaltInv, LeaseInv, AttributedToItsOwnLease
    <2>3. CountInv
      BY RestartsAssumption DEF CountInv
    <2>4. AnswerInv
      BY DEF AnswerInv
    <2> QED BY <2>1, <2>2, <2>3, <2>4 DEF AgentInv
  <1>2. AgentTypeOK /\ AgentInv /\ [Next]_vars => AgentInv'
    BY AgentInvInductive
  <1> QED BY <1>1, <1>2, AgentTypeCorrect, PTL DEF Spec

\* There is never a second game in the container (startGame, handleExit, the events
\* that cross).
THEOREM OneGameAlways == Spec => []OneGame
  <1>1. AgentInv => OneGame
    BY DEF AgentInv, TokenInv, Live, OneGame, Up
  <1> QED BY <1>1, AgentInvAlways, PTL

\* A container that came back in a halt never launches (Run, resume, park).
THEOREM HaltedAlwaysStaysDown == Spec => []HaltedContainerStaysDown
  <1>1. AgentInv => HaltedContainerStaysDown
    BY DEF AgentInv, HaltInv, NoneLive, Live, HaltedContainerStaysDown, Up
  <1> QED BY <1>1, AgentInvAlways, PTL

\* However the game and its container die, relaunches are bounded unless a count was
\* lost (handleExit, publish, resume).
THEOREM CrashLoopAlwaysBounded == Spec => []CrashLoopBounded
  <1>1. AgentInv => CrashLoopBounded
    BY DEF AgentInv, CountInv, CrashLoopBounded
  <1> QED BY <1>1, AgentInvAlways, PTL

\* No container speaks for a lease it does not run on (applyController, publish).
THEOREM AttributionAlways == Spec => []AttributedToItsOwnLease
  <1>1. AgentInv => AttributedToItsOwnLease
    BY DEF AgentInv, LeaseInv
  <1> QED BY <1>1, AgentInvAlways, PTL

\* No request is archived again once its answer was published (reconcile, resume).
THEOREM AlwaysAnsweredOnce == Spec => AnsweredOnce
  <1>1. ASSUME AgentTypeOK, AgentInv, [Next]_vars, job' # NoReq, job = NoReq
        PROVE  log.lost \/ job' \notin log.settled
    <2>1. Resume \/ Booting \/ Supervise
      BY <1>1 DEF Next, vars, Game, ScannerSends, GameExits, WaiterSends, ContainerDies, ContainerGone,
                  ControllerActs, Deploy, AskBackup, RecordLease, Halt, ClearRequest, CloseLease
    <2>2. BackupBegins
      BY <1>1, <2>1, SupervisorShapes
         DEF Shapes, Answers, Resumes, Quiet, ExitTaken, Launches, AnswersKept, BackupEnds
    <2>3. job' = ctrl.request /\ ctrl.request \notin mem.answered /\ pc = "loop"
      BY <2>2 DEF BackupBegins
    <2>4. AnswerInv
      BY <1>1 DEF AgentInv
    <2>5. ~log.lost /\ ctrl.request \in log.settled => pc = "down" \/ ctrl.request \in mem.answered
      BY <2>4 DEF AnswerInv
    <2> QED BY <2>3, <2>5
  <1>2. AgentTypeOK /\ AgentInv /\ [Next]_vars
          => [job' # NoReq /\ job = NoReq => log.lost \/ job' \notin log.settled]_vars
    BY <1>1
  <1> QED BY <1>2, AgentTypeCorrect, AgentInvAlways, PTL DEF Spec, AnsweredOnce

\* The game is asked to quit only when no request stands unanswered (reconcile).
THEOREM SessionAlwaysArchivedFirst == Spec => SessionArchivedBeforeStop
  <1>1. ASSUME AgentTypeOK, [Next]_vars, NEW p \in Procs, procs'[p].quit, ~procs[p].quit
        PROVE  ctrl.request = NoReq \/ ctrl.request \in mem.answered
    <2>1. procs' # procs
      BY <1>1
    <2>0. procs \in [Procs -> ProcStates]
      BY <1>1 DEF AgentTypeOK
    <2>2. ~(Game \/ ContainerDies \/ ControllerActs)
      <3>1. ASSUME NEW q \in Procs, ScannerSends(q) \/ GameExits(q) \/ WaiterSends(q)
            PROVE  FALSE
        <4>1. PICK x \in {NotLaunched, Leftover, [procs[q] EXCEPT !.banner = "sent"],
                          [procs[q] EXCEPT !.life = "reaped"]} : procs' = [procs EXCEPT ![q] = x]
          BY <3>1 DEF ScannerSends, GameExits, WaiterSends
        <4>2. x.quit => procs[q].quit
          BY <2>0 DEF NotLaunched, Leftover, ProcStates
        <4> QED BY <1>1, <2>0, <4>1, <4>2
      <3>2. ~ContainerGone
        BY <1>1 DEF ContainerGone, NotLaunched
      <3>3. ~(ControllerActs /\ ~CloseLease)
        BY <2>1 DEF ControllerActs, Deploy, AskBackup, RecordLease, Halt, ClearRequest, gameVars
      <3> QED BY <3>1, <3>2, <3>3 DEF Game, ContainerDies, CloseLease
    <2>3. ASSUME NEW n, NEW l, StartGame(n, l)
          PROVE  FALSE
      <3>1. PICK q \in Procs : procs' = [procs EXCEPT ![q] = Launched]
        BY <2>3 DEF StartGame
      <3> QED BY <1>1, <2>0, <3>1 DEF Launched
    <2>4. Reconcile
      <3>1. ~(Resume \/ BootRestores \/ BootFails \/ TakeOnline \/ TakeExit \/ TakeBackup \/ Liveness)
        BY <2>1 DEF gameVars, Resume, BootRestores, BootFails, TakeOnline, TakeExit, TakeBackup, Liveness
      <3>2. ~BootLaunches
        BY <2>3 DEF BootLaunches
      <3>3. ~Relaunch
        BY <2>1, <2>3 DEF Relaunch
      <3> QED BY <1>1, <2>1, <2>2, <3>1, <3>2, <3>3 DEF Next, vars, gameVars, Booting, Supervise
    <2> DEFINE m == ApplyController(mem)
    <2>5. ~BackupWanted(m) /\ job = NoReq
      BY <2>1, <2>4 DEF Reconcile, StartBackup
    <2>6. m.answered = mem.answered
      BY <1>1, AppliedFacts DEF AgentTypeOK
    <2> QED BY <2>5, <2>6 DEF BackupWanted
  <1>2. AgentTypeOK /\ [Next]_vars
          => [(\E p \in Procs : procs'[p].quit /\ ~procs[p].quit)
                => ctrl.request = NoReq \/ ctrl.request \in mem.answered]_vars
    BY <1>1
  <1> QED BY <1>2, AgentTypeCorrect, PTL DEF Spec, SessionArchivedBeforeStop

-----------------------------------------------------------------------------
(* The supervisor is the agent module Controller has.                      *)

\* Where no process runs, nothing is remembered; and none runs without a deployment.
BlankInv ==
    /\ pc = "down" => mem = NewMemory /\ job = NoReq
    /\ host = NoDSeq => pc = "down"

\* A process begins in a container, and what ends one forgets everything.
LEMMA BlankStep ==
    ASSUME AgentTypeOK, BlankInv, [Next]_vars
    PROVE  BlankInv'
  <1>1. CASE Resume \/ Booting \/ Supervise
    <2>1. Shapes
      BY <1>1, SupervisorShapes
    <2>2. pc' # "down" /\ host' = host
      BY <2>1 DEF Shapes, Resumes, Quiet, ExitTaken, Launches, Speaks, envVars
    <2>3. host # NoDSeq
      BY <2>1 DEF Shapes, Resumes, Quiet, ExitTaken, Launches, BlankInv
    <2> QED BY <2>2, <2>3 DEF BlankInv
  <1>2. CASE ContainerDies \/ CloseLease
    BY <1>2 DEF ContainerDies, CloseLease, ContainerGone, BlankInv
  <1>3. CASE Game \/ UNCHANGED vars
    BY <1>3 DEF Game, ScannerSends, GameExits, WaiterSends, agentVars, envVars, vars, BlankInv
  <1>4. CASE \E d \in DSeq : Deploy(d)
    BY <1>4, NoDSeqAssumption DEF Deploy, agentVars, BlankInv
  <1>5. CASE ControllerActs /\ ~CloseLease /\ ~(\E d \in DSeq : Deploy(d))
    BY <1>5 DEF ControllerActs, AskBackup, RecordLease, Halt, ClearRequest, agentVars, BlankInv
  <1> QED BY <1>1, <1>2, <1>3, <1>4, <1>5 DEF Next

\* What the supervisor does in one handler, its agent does between two documents.
LEMMA SupervisorSpeaks ==
    ASSUME AgentTypeOK, AgentTypeOK', AnswerInv, BlankInv, Resume \/ Booting \/ Supervise
    PROVE  Assumed!Speaks(host)
  <1>1. Shapes
    BY SupervisorShapes
  <1>2. /\ Said /\ UNCHANGED <<ctrl, host>>
        /\ host \in DSeq
    BY <1>1 DEF Shapes, Resumes, Quiet, ExitTaken, Launches, Speaks, envVars, BlankInv, AgentTypeOK
  <1>3. AgentIn[host] = Remembered /\ AgentIn'[host] = Remembered'
    BY <1>2 DEF AgentIn
  <1>4. \A e \in DSeq \ {host} : AgentIn'[e] = AgentIn[e]
    BY <1>2 DEF AgentIn
  <1>5. Reported' \in {Reported, Assumed!Written(host, AgentIn'[host])}
    <2>1. CASE /\ own'.dseq = own.dseq /\ own'.phase = own.phase /\ own'.backup = own.backup
               /\ log'.by = log.by
      BY <2>1 DEF Reported
    <2>2. CASE /\ own'.dseq = mem'.lease /\ own'.phase = mem'.phase /\ own'.backup = mem'.backup
               /\ log'.by = host
      BY <1>3, <2>2 DEF Reported, Remembered, Assumed!Written
    <2> QED BY <1>2, <2>1, <2>2 DEF Said
  <1>6. \E m \in {Remembered} \cup (IF Remembered = Blank THEN Assumed!Booted ELSE {}) :
          Assumed!Does(m, Remembered')
    <2>1. Remembered'.phase \in Assumed!Phases
      BY DEF Remembered, AgentTypeOK, Memories, Phases, Assumed!Phases
    <2>2. CASE Resumes
      <3>1. PICK d \in Readable : mem'.backup = d.backup
        BY <2>2 DEF Resumes
      <3> DEFINE m == [Blank EXCEPT !.as = ctrl.lease, !.answered = AnswerIn(d.backup)]
      <3>2. m \in Assumed!Booted
        <4>1. d = own \/ d = NoDocument
          BY <3>1 DEF Readable
        <4>2. AnswerIn(d.backup) \in {Reported.answered, NoReq}
          BY <4>1 DEF Reported, AnswerIn, NoDocument, NoBackup
        <4> QED BY <4>2 DEF Assumed!Booted, Assumed!NewAgent, Blank
      <3>3. Remembered = Blank
        BY <2>2 DEF Resumes, BlankInv, Remembered, Blank, NewMemory, NoBackup, AnswerIn
      <3>4. Assumed!Does(m, Remembered')
        <4>1. mem'.lease = ctrl.lease /\ job' = NoReq
          BY <2>2 DEF Resumes, BlankInv
        <4> QED BY <2>1, <3>1, <4>1
                DEF Assumed!Does, Assumed!Reads, Assumed!Kept, Remembered, Blank, AnswerIn
      <3> QED BY <3>2, <3>3, <3>4
    <2>3. CASE ~Resumes
      <3>1. LeaseRead /\ Answers
        BY <1>1, <2>3 DEF Shapes, Quiet, ExitTaken, Launches, Speaks, Answers
      <3>2. Assumed!Reads(Remembered, Remembered')
        BY <3>1 DEF LeaseRead, Assumed!Reads, Remembered
      <3>3. \/ Assumed!Kept(Remembered, Remembered')
            \/ Assumed!Begins(Remembered, Remembered')
            \/ Assumed!Answers(Remembered, Remembered')
        <4>1. CASE AnswersKept
          BY <4>1 DEF AnswersKept, Assumed!Kept, Remembered, AnswerIn
        <4>2. CASE BackupBegins
          <5>1. ctrl.request # AnswerIn(mem.backup)
            BY <4>2 DEF BackupBegins, AnswerInv, AnswerIn
          <5> QED BY <4>2, <5>1 DEF BackupBegins, Assumed!Begins, Remembered, AnswerIn
        <4>3. CASE BackupEnds
          BY <4>3 DEF BackupEnds, Assumed!Answers, Remembered, AnswerIn
        <4> QED BY <3>1, <4>1, <4>2, <4>3 DEF Answers
      <3>4. Assumed!Does(Remembered, Remembered')
        BY <2>1, <3>2, <3>3 DEF Assumed!Does
      <3> QED BY <3>4
    <2> QED BY <2>2, <2>3
  <1> QED
    BY <1>2, <1>3, <1>4, <1>5, <1>6, NoDSeqAssumption DEF Assumed!Speaks, Assumed!NewAgent, Blank

\* What else happens is no agent's doing.
LEMMA OthersKeepQuiet ==
    ASSUME AgentTypeOK, AgentTypeOK', BlankInv, Game \/ ContainerDies \/ ControllerActs
    PROVE  Assumed!Others
  <1>1. /\ ({host} \ {NoDSeq})' \subseteq DSeq
        /\ ctrl'.lease \in DSeq \cup {NoDSeq} /\ ctrl'.request \in ReqID \cup {NoReq}
    BY DEF AgentTypeOK
  <1>2. own' = own /\ log'.by = log.by
    BY DEF Game, ScannerSends, GameExits, WaiterSends, ContainerDies, ContainerGone, ControllerActs,
           Deploy, AskBackup, RecordLease, Halt, ClearRequest, CloseLease, agentVars, AgentTypeOK, Logs
  <1>3. \A d \in DSeq : AgentIn'[d] \in {AgentIn[d], Blank}
    <2>1. CASE ContainerDies \/ CloseLease
      <3>1. Remembered' = Blank
        BY <2>1 DEF ContainerDies, CloseLease, ContainerGone, Remembered, Blank, NewMemory,
                    NoBackup, AnswerIn
      <3> QED BY <3>1 DEF AgentIn
    <2>2. CASE \E d \in DSeq : Deploy(d)
      <3>1. Remembered' = Blank
        BY <2>2 DEF Deploy, agentVars, BlankInv, Remembered, Blank, NewMemory, NoBackup, AnswerIn
      <3> QED BY <3>1 DEF AgentIn
    <2>3. CASE Game \/ (ControllerActs /\ ~CloseLease /\ ~(\E d \in DSeq : Deploy(d)))
      <3>1. UNCHANGED <<mem, job, host>>
        BY <2>3 DEF Game, ScannerSends, GameExits, WaiterSends, ControllerActs, AskBackup,
                    RecordLease, Halt, ClearRequest, agentVars, envVars
      <3> QED BY <3>1 DEF AgentIn, Remembered
    <2> QED BY <2>1, <2>2, <2>3
  <1>4. Reported' = Reported
    BY <1>2 DEF Reported
  <1> QED BY <1>1, <1>3, <1>4 DEF Assumed!Others, Assumed!NewAgent, Blank

\* Whatever it went through, the agent is one the controller's model has: what is
\* proved of the loop there holds of it with this supervisor (resume, publish,
\* startBackup, finishBackup).
THEOREM SupervisorIsTheAgent == Spec => ReportsAsAssumed
  <1>1. Init => BlankInv /\ Assumed!Init
    <2> SUFFICES ASSUME Init PROVE BlankInv /\ Assumed!Init
      OBVIOUS
    <2>1. BlankInv
      BY DEF Init, BlankInv
    <2>2. Reported = [dseq |-> NoDSeq, phase |-> "starting", answered |-> NoReq, by |-> NoDSeq]
      BY DEF Init, Reported, NoDocument, NoBackup, AnswerIn
    <2>3. AgentIn = [d \in DSeq |-> Blank]
      BY NoDSeqAssumption DEF Init, AgentIn
    <2> QED BY <2>1, <2>2, <2>3 DEF Init, Assumed!Init, Assumed!NewAgent, Blank
  <1>2. AgentTypeOK /\ BlankInv /\ [Next]_vars => BlankInv'
    BY BlankStep
  <1>3. AgentTypeOK /\ AgentTypeOK' /\ AgentInv /\ BlankInv /\ [Next]_vars
          => [Assumed!Next]_(Assumed!reporter)
    <2> SUFFICES ASSUME AgentTypeOK, AgentTypeOK', AgentInv, BlankInv, [Next]_vars
                 PROVE  [Assumed!Next]_(Assumed!reporter)
      OBVIOUS
    <2>1. CASE Resume \/ Booting \/ Supervise
      <3>1. Assumed!Speaks(host)
        BY <2>1, SupervisorSpeaks DEF AgentInv
      <3>2. host \in DSeq
        BY <3>1 DEF Assumed!Speaks, AgentTypeOK
      <3> QED BY <3>1, <3>2 DEF Assumed!Next
    <2>2. CASE Game \/ ContainerDies \/ ControllerActs
      BY <2>2, OthersKeepQuiet DEF Assumed!Next
    <2>3. CASE UNCHANGED vars
      BY <2>3 DEF vars, agentVars, envVars, Assumed!reporter, AgentIn, Remembered, Reported
    <2> QED BY <2>1, <2>2, <2>3 DEF Next
  <1> QED BY <1>1, <1>2, <1>3, AgentTypeCorrect, AgentInvAlways, PTL
          DEF Spec, ReportsAsAssumed, Assumed!Spec

=============================================================================
