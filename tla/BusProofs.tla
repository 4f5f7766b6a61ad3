------------------------------ MODULE BusProofs ------------------------------
(***************************************************************************)
(* The gate (Gate) and the repository behind it (Bus): proofs.             *)
(***************************************************************************)
EXTENDS Gate, Bus, TLAPS

-----------------------------------------------------------------------------
(* The gate.  What a caller waits for is either running, or has left its   *)
(* answer; a context that is done was ended by the deadline, by the        *)
(* process, or by an operation whose answer is already in its channel.     *)

SentIsThere == \A w \in Workers : worker[w].at = "sent" => worker[w].sent = TRUE
DoneForAReason ==
    \A w \in Workers : ended[w].done = TRUE => ended[w].late = TRUE \/ closing = TRUE \/ worker[w].sent = TRUE
WaitsForSomeone == \A c \in Callers : caller[c].at = "idle" <=> caller[c].of = Nobody
LateIsDone == \A c \in Callers : caller[c].at = "late" => ended[caller[c].of].done = TRUE
GateInv == GateTypeOK /\ GateMeansRunning /\ SentIsThere /\ DoneForAReason /\ WaitsForSomeone /\ LateIsDone

\* Before anything is called.
LEMMA GateInitInv == GateInit => GateInv
<1> SUFFICES ASSUME GateInit PROVE GateInv
    OBVIOUS
<1> USE NobodyAssumption DEF GateInit, Idle, NewContext
<1>1. GateTypeOK
    BY DEF GateTypeOK
<1>2. GateMeansRunning
    BY DEF GateMeansRunning
<1>3. SentIsThere /\ DoneForAReason /\ WaitsForSomeone /\ LateIsDone
    BY DEF SentIsThere, DoneForAReason, WaitsForSomeone, LateIsDone
<1> QED BY <1>1, <1>2, <1>3 DEF GateInv

\* Whoever is not idle waits for a worker.
LEMMA WaitsForAWorker ==
    ASSUME GateInv, NEW c \in Callers, caller[c].at # "idle"
    PROVE  caller[c].of \in Workers
<1>1. caller[c] \in [at : {"idle", "waiting", "late"}, of : Workers \cup {Nobody}]
    BY DEF GateInv, GateTypeOK
<1>2. caller[c].of # Nobody
    BY DEF GateInv, WaitsForSomeone
<1> QED BY <1>1, <1>2

\* A new call takes the gate and a worker nobody waits for, or nothing.
LEMMA CallKeeps ==
    ASSUME GateInv, NEW c \in Callers, Call(c)
    PROVE  GateInv'
<1> USE NobodyAssumption DEF GateInv
<1>1. CASE gate # Nobody
    <2>1. said' = [said EXCEPT ![c] = "busy"] /\ UNCHANGED <<gate, worker, ended, caller, closing>>
        BY <1>1 DEF Call
    <2> QED BY <2>1 DEF GateTypeOK, GateMeansRunning, SentIsThere, DoneForAReason, WaitsForSomeone, LateIsDone
<1>2. CASE gate = Nobody
    <2>1. PICK w \in Workers :
             /\ IdleWorker(w)
             /\ gate' = w
             /\ worker' = [worker EXCEPT ![w] = [at |-> "running", sent |-> FALSE]]
             /\ ended' = [ended EXCEPT ![w] = [done |-> closing, late |-> FALSE]]
             /\ caller' = [caller EXCEPT ![c] = [at |-> "waiting", of |-> w]]
             /\ said' = [said EXCEPT ![c] = "nothing"]
             /\ closing' = closing
        BY <1>2 DEF Call
    <2>2. GateTypeOK'
        BY <2>1 DEF GateTypeOK
    <2>3. GateMeansRunning'
        BY <1>2, <2>1 DEF GateTypeOK, GateMeansRunning
    <2>4. SentIsThere' /\ DoneForAReason'
        BY <2>1 DEF GateTypeOK, SentIsThere, DoneForAReason
    <2>5. caller'[c].at = "waiting" /\ caller'[c].of = w /\ w # Nobody
        BY <2>1 DEF GateTypeOK
    <2>6. ASSUME NEW b \in Callers, b # c
          PROVE  caller'[b] = caller[b] /\ ended'[caller[b].of] = ended[caller[b].of]
        BY <2>1, <2>6 DEF IdleWorker, GateTypeOK
    <2>7. WaitsForSomeone' /\ LateIsDone'
        BY <2>5, <2>6 DEF WaitsForSomeone, LateIsDone
    <2> QED BY <2>2, <2>3, <2>4, <2>7
<1> QED BY <1>1, <1>2

\* A caller that is woken, or that reports, moves nobody else.
LEMMA ReturnKeeps ==
    ASSUME GateInv, NEW c \in Callers, Woken(c) \/ TakesLast(c)
    PROVE  GateInv'
<1> USE NobodyAssumption DEF GateInv
<1>1. UNCHANGED <<gate, worker, ended, closing>>
    BY DEF Woken, TakesLast
<1>2. GateMeansRunning' /\ SentIsThere' /\ DoneForAReason'
    BY <1>1 DEF GateMeansRunning, SentIsThere, DoneForAReason
<1>3. CASE \E what \in {"answer", "closing", "timeout"} : Says(c, what)
    BY <1>1, <1>2, <1>3 DEF Says, Idle, GateTypeOK, WaitsForSomeone, LateIsDone
<1>4. CASE Woken(c) /\ ~Says(c, "answer")
    <2>1. /\ caller[c].at = "waiting" /\ ended[caller[c].of].done
          /\ caller' = [caller EXCEPT ![c].at = "late"] /\ said' = said
        BY <1>4 DEF Woken
    <2>2. ended[caller[c].of].done = TRUE
        BY <2>1, WaitsForAWorker DEF GateTypeOK
    <2>3. caller'[c].at = "late" /\ caller'[c].of = caller[c].of /\ \A b \in Callers \ {c} : caller'[b] = caller[b]
        BY <2>1 DEF GateTypeOK
    <2>4. GateTypeOK'
        BY <1>1, <2>1 DEF GateTypeOK
    <2>5. WaitsForSomeone' /\ LateIsDone'
        BY <1>1, <2>1, <2>2, <2>3 DEF WaitsForSomeone, LateIsDone
    <2> QED BY <1>2, <2>4, <2>5
<1> QED BY <1>3, <1>4 DEF TakesLast

\* What one worker does on its way from its operation to its end, and the deadline.
LEMMA WorkerKeeps ==
    ASSUME GateInv, NEW w \in Workers, Release(w) \/ Sent(w) \/ Cancel(w) \/ Deadline(w)
    PROVE  GateInv'
<1> USE NobodyAssumption DEF GateInv
<1>1. UNCHANGED <<caller, said, closing>>
    BY DEF Release, Sent, Cancel, Deadline
<1>2. \A v \in Workers \ {w} : worker'[v] = worker[v] /\ ended'[v] = ended[v]
    BY DEF Release, Sent, Cancel, Deadline, GateTypeOK
<1>3. GateTypeOK'
    <2>1. CASE Release(w)
        BY <1>1, <2>1 DEF Release, GateTypeOK
    <2>2. CASE Sent(w)
        BY <1>1, <2>2 DEF Sent, GateTypeOK
    <2>3. CASE Cancel(w)
        BY <1>1, <2>3 DEF Cancel, GateTypeOK
    <2>4. CASE Deadline(w)
        BY <1>1, <2>4 DEF Deadline, GateTypeOK
    <2> QED BY <2>1, <2>2, <2>3, <2>4
<1>4. /\ ended[w].done = TRUE => ended'[w].done = TRUE
      /\ worker[w].sent = TRUE => worker'[w].sent = TRUE
    BY DEF Release, Sent, Cancel, Deadline, GateTypeOK
<1>5. GateMeansRunning'
    <2>1. CASE Release(w)
        BY <1>2, <2>1 DEF Release, GateTypeOK, GateMeansRunning
    <2>2. CASE Sent(w)
        BY <1>2, <2>2 DEF Sent, GateTypeOK, GateMeansRunning
    <2>3. CASE Cancel(w)
        BY <1>2, <2>3 DEF Cancel, GateTypeOK, GateMeansRunning
    <2>4. CASE Deadline(w)
        BY <2>4 DEF Deadline, GateMeansRunning
    <2> QED BY <2>1, <2>2, <2>3, <2>4
<1>6. SentIsThere' /\ DoneForAReason'
    <2>1. CASE Release(w)
        BY <1>1, <1>2, <2>1 DEF Release, GateTypeOK, SentIsThere, DoneForAReason
    <2>2. CASE Sent(w)
        BY <1>1, <1>2, <2>2 DEF Sent, GateTypeOK, SentIsThere, DoneForAReason
    <2>3. CASE Cancel(w)
        BY <1>1, <1>2, <2>3 DEF Cancel, GateTypeOK, SentIsThere, DoneForAReason
    <2>4. CASE Deadline(w)
        BY <1>1, <1>2, <2>4 DEF Deadline, GateTypeOK, SentIsThere, DoneForAReason
    <2> QED BY <2>1, <2>2, <2>3, <2>4
<1>7. WaitsForSomeone'
    BY <1>1 DEF WaitsForSomeone
<1>8. LateIsDone'
    <2>1. ASSUME NEW c \in Callers, caller'[c].at = "late" PROVE ended'[caller'[c].of].done = TRUE
        <3>1. caller[c].of \in Workers /\ ended[caller[c].of].done = TRUE
            BY <1>1, <2>1, WaitsForAWorker DEF LateIsDone
        <3> QED BY <1>1, <1>2, <1>4, <3>1
    <2> QED BY <2>1 DEF LateIsDone
<1> QED BY <1>3, <1>5, <1>6, <1>7, <1>8

\* The end of the process ends every context under way.
LEMMA ShutDownKeeps ==
    ASSUME GateInv, ShutDown
    PROVE  GateInv'
<1> USE NobodyAssumption DEF GateInv
<1>1. closing' = TRUE /\ UNCHANGED <<gate, worker, caller, said>>
    BY DEF ShutDown
<1>2. GateTypeOK'
    BY <1>1 DEF ShutDown, GateTypeOK
<1>3. \A w \in Workers : ended[w].done = TRUE => ended'[w].done = TRUE
    BY DEF ShutDown, GateTypeOK
<1>4. GateMeansRunning' /\ SentIsThere' /\ DoneForAReason' /\ WaitsForSomeone'
    BY <1>1 DEF GateMeansRunning, SentIsThere, DoneForAReason, WaitsForSomeone
<1>5. LateIsDone'
    <2>1. ASSUME NEW c \in Callers, caller'[c].at = "late" PROVE ended'[caller'[c].of].done = TRUE
        <3>1. caller[c].of \in Workers /\ ended[caller[c].of].done = TRUE
            BY <1>1, <2>1, WaitsForAWorker DEF LateIsDone
        <3> QED BY <1>1, <1>3, <3>1
    <2> QED BY <2>1 DEF LateIsDone
<1> QED BY <1>2, <1>4, <1>5

\* Every step keeps the invariant of the gate.
LEMMA GateNextInv == GateInv /\ [GateNext]_gateVars => GateInv'
<1> SUFFICES ASSUME GateInv, [GateNext]_gateVars PROVE GateInv'
    OBVIOUS
<1>1. CASE UNCHANGED gateVars
    BY <1>1 DEF gateVars, GateInv, GateTypeOK, GateMeansRunning, SentIsThere, DoneForAReason,
                WaitsForSomeone, LateIsDone
<1>2. CASE GateNext
    BY <1>2, CallKeeps, ReturnKeeps, WorkerKeeps, ShutDownKeeps DEF GateNext
<1> QED BY <1>1, <1>2

\* Every operation that runs has the gate and nobody else does: go-git is never used by
\* two at once, and what has ended makes nothing busy (netOp), for any number of callers
\* and operations.
THEOREM GateIsTheOperation == GateSpec => []GateMeansRunning
<1>1. GateSpec => []GateInv
    BY GateInitInv, GateNextInv, PTL DEF GateSpec
<1> QED BY <1>1, PTL DEF GateInv

\* A timeout that is reported is one (netOp): the deadline passed, and no answer lay in
\* the channel.
THEOREM TimeoutsAreTrue == GateSpec => TimeoutMeansLate
<1>1. GateInv /\ [GateNext]_gateVars =>
        \A c \in Callers : caller[c].of # Nobody /\ said'[c] = "timeout" /\ said[c] # "timeout"
           => ended[caller[c].of].late /\ ~worker[caller[c].of].sent
    <2> SUFFICES ASSUME GateInv, [GateNext]_gateVars, NEW c \in Callers,
                        said'[c] = "timeout", said[c] # "timeout"
                 PROVE  ended[caller[c].of].late /\ ~worker[caller[c].of].sent
        OBVIOUS
    <2> USE DEF GateInv
    <2>1. TakesLast(c)
        <3>1. CASE UNCHANGED gateVars
            BY <3>1 DEF gateVars
        <3>2. ASSUME NEW b \in Callers, Call(b) \/ Woken(b) PROVE TakesLast(c)
            BY <3>2 DEF Call, Woken, Says, GateTypeOK
        <3>3. ASSUME NEW b \in Callers, TakesLast(b) PROVE TakesLast(c)
            BY <3>3 DEF TakesLast, Says, GateTypeOK
        <3>4. ASSUME NEW w \in Workers, Release(w) \/ Sent(w) \/ Cancel(w) \/ Deadline(w) PROVE TakesLast(c)
            BY <3>4 DEF Release, Sent, Cancel, Deadline
        <3>5. CASE ShutDown
            BY <3>5 DEF ShutDown
        <3> QED BY <3>1, <3>2, <3>3, <3>4, <3>5 DEF GateNext
    <2>2. caller[c].at = "late" /\ ~worker[caller[c].of].sent /\ ~closing
        BY <2>1 DEF TakesLast, Says, GateTypeOK
    <2>3. caller[c].of \in Workers
        BY <2>2, WaitsForAWorker
    <2>4. ended[caller[c].of].late = TRUE
        BY <2>2, <2>3 DEF LateIsDone, DoneForAReason
    <2> QED BY <2>2, <2>4
<1>2. GateSpec => []GateInv
    BY GateInitInv, GateNextInv, PTL DEF GateSpec
<1> QED BY <1>1, <1>2, PTL DEF GateSpec, TimeoutMeansLate

\* A caller is where the code can have it, and waits for one operation or none, at
\* every moment.
THEOREM GateTypeCorrect == GateSpec => []GateTypeOK
<1>1. GateInv => GateTypeOK
    BY DEF GateInv
<1> QED BY <1>1, GateInitInv, GateNextInv, PTL DEF GateSpec

-----------------------------------------------------------------------------
(* The repository: shapes.                                                 *)

LoopSteps == {"down", "load", "idle", "fetch", "read", "consume", "flush", "publish"}
Operation == [kind : {"none", "fetch", "consume", "publish"}, base : Branch, new : Branch, ring : Seq(Nat),
              state : {"none", "sent", "ok", "moved", "failed"}, waited : BOOLEAN]
Branches == [main : Branch, ring : Seq(Nat)]

\* A branch with a trigger on it has one of the operator's commits for its head, and
\* the requests on it were made.
Owned(b) ==
    /\ b.files # NoFiles => b.head \in 1..Len(asked)
    /\ \A f \in File : b.files[f] <= Len(asked)

\* The loop waits for the operation it began, and reads when there is none.
Awaits ==
    /\ op.waited = TRUE <=> step \in {"load", "fetch", "consume", "publish"}
    /\ step \in {"load", "fetch"} => op.kind = "fetch"
    /\ step = "consume" => op.kind = "consume"
    /\ step = "publish" => op.kind = "publish"
    /\ op.kind = "consume" /\ op.waited = TRUE => step = "consume"
    /\ step = "read" => op.kind = "none"
    /\ op.kind = "none" => op.waited = FALSE /\ op.state = "none"
    /\ op.kind = "consume" => op.base.files # NoFiles /\ op.new = [head |-> Ours(op.base.head), files |-> NoFiles]

BusShape ==
    /\ remote \in Branches /\ mirror \in Branches /\ op \in Operation /\ step \in LoopSteps /\ ring \in Seq(Nat)
    /\ asked \in Seq(File \cup {"content"}) /\ Len(asked) <= MaxCommits
    /\ acted \in [1..MaxCommits -> Nat] /\ lost \subseteq 1..MaxCommits
    /\ Owned(remote.main) /\ Owned(mirror.main) /\ Owned(op.base)

BusBase == BusShape /\ Awaits

\* A repository with nothing in it.
LEMMA RootShape == Root \in Branch /\ Root.files = NoFiles /\ (Len(asked) \in Nat => Owned(Root))
BY BusBoundsAssumption DEF Root, NoFiles, Branch, Owned

\* A process that has not started.
LEMMA BusBaseInit == BusInit => BusBase
<1> SUFFICES ASSUME BusInit PROVE BusBase
    OBVIOUS
<1> USE RootShape, BusBoundsAssumption DEF BusInit
<1>1. remote \in Branches /\ mirror = remote /\ remote.main = Root
    BY DEF Branches
<1>2. op \in Operation /\ op.base = Root /\ op.waited = FALSE /\ op.kind = "none" /\ op.state = "none"
    BY DEF NoOp, Operation
<1>3. asked \in Seq(File \cup {"content"}) /\ Len(asked) = 0
    OBVIOUS
<1>4. BusShape
    BY <1>1, <1>2, <1>3 DEF BusShape, LoopSteps
<1>5. Awaits
    BY <1>2 DEF Awaits
<1> QED BY <1>4, <1>5 DEF BusBase

\* Every head and every file has its shape.
LEMMA BranchFields ==
    ASSUME NEW b \in Branch
    PROVE  b.head \in 0..(2 * MaxCommits) /\ b.files \in [File -> 0..MaxCommits]
BY DEF Branch

\* A branch and its owner's count, one commit later.
LEMMA OwnedLater ==
    ASSUME NEW b \in Branch, Owned(b), NEW n \in Nat, n >= Len(asked), Len(asked) \in Nat
    PROVE  /\ b.files # NoFiles => b.head \in 1..n
           /\ \A f \in File : b.files[f] <= n
BY BusBoundsAssumption, BranchFields DEF Owned

\* The operator's commit.
LEMMA PushBase ==
    ASSUME BusBase, NEW what \in File \cup {"content"}, NEW files,
           OperatorPushes(what, files), UNCHANGED lost \/ lost' \subseteq 1..MaxCommits,
           files = remote.main.files \/ \E f \in File : files = [remote.main.files EXCEPT ![f] = Len(asked) + 1]
    PROVE  /\ BusBase'
           /\ asked' = Append(asked, what) /\ Len(asked') = Len(asked) + 1
           /\ remote'.main.head = Len(asked') /\ remote'.main.files = files /\ remote'.ring = remote.ring
           /\ UNCHANGED <<mirror, op, step, ring, pending, queue, acted, busCrashes>>
<1> USE BusBoundsAssumption DEF BusBase, BusShape
<1>1. /\ asked' = Append(asked, what) /\ Len(asked') = Len(asked) + 1 /\ Len(asked') <= MaxCommits
      /\ asked' \in Seq(File \cup {"content"})
      /\ remote' = [remote EXCEPT !.main = [head |-> Len(asked'), files |-> files]]
      /\ UNCHANGED <<mirror, op, step, ring, pending, queue, acted, busCrashes>>
    BY DEF OperatorPushes
<1>2. /\ remote'.main = [head |-> Len(asked'), files |-> files]
      /\ remote'.ring = remote.ring
    BY <1>1 DEF Branches
<1>3. remote.main.files \in [File -> 0..MaxCommits] /\ \A f \in File : remote.main.files[f] <= Len(asked)
    BY BranchFields DEF Branches, Owned
<1>4. files \in [File -> 0..MaxCommits] /\ \A f \in File : files[f] <= Len(asked')
    <2>1. CASE files = remote.main.files
        BY <1>1, <1>3, <2>1
    <2>2. ASSUME NEW f \in File, files = [remote.main.files EXCEPT ![f] = Len(asked) + 1]
          PROVE  files \in [File -> 0..MaxCommits] /\ \A g \in File : files[g] <= Len(asked')
        BY <1>1, <1>3, <2>2
    <2> QED BY <2>1, <2>2
<1>5. remote'.main \in Branch /\ remote' \in Branches
    <2>1. Len(asked') \in 0..(2 * MaxCommits)
        BY <1>1
    <2> QED BY <1>1, <1>2, <1>4, <2>1 DEF Branches, Branch
<1>6. Owned(remote.main)'
    BY <1>1, <1>2, <1>4 DEF Owned
<1>7. Owned(mirror.main)' /\ Owned(op.base)'
    <2>1. mirror.main \in Branch /\ op.base \in Branch
        BY DEF Branches, Operation
    <2>2. Len(asked') \in Nat /\ Len(asked') >= Len(asked) /\ Len(asked) \in Nat
        BY <1>1
    <2>3. ASSUME NEW b \in Branch, Owned(b)
          PROVE  (b.files # NoFiles => b.head \in 1..Len(asked')) /\ \A f \in File : b.files[f] <= Len(asked')
        BY <2>2, <2>3, OwnedLater
    <2>4. mirror'.main = mirror.main /\ op'.base = op.base
        BY <1>1
    <2> QED BY <2>1, <2>3, <2>4 DEF Owned
<1> QED BY <1>1, <1>2, <1>5, <1>6, <1>7 DEF Awaits

\* No operation.
LEMMA NoOpShape ==
    /\ NoOp \in Operation /\ NoOp.base = Root
    /\ NoOp.kind = "none" /\ NoOp.state = "none" /\ NoOp.waited = FALSE
BY RootShape DEF NoOp, Operation

\* What the loop's wait may end with.
LEMMA WaitEnds ==
    ASSUME BusBase, OpLost \/ (\E what \in {"ok"} : Answers(what))
    PROVE  /\ op' \in Operation /\ Owned(op.base) /\ op.waited = TRUE /\ op'.waited = FALSE
           /\ \/ op'.kind = "none" /\ op'.state = "none" /\ op'.base = Root
              \/ op'.kind = op.kind /\ op'.state = op.state /\ op'.base = op.base /\ op'.new = op.new
<1> USE NoOpShape DEF BusBase, BusShape
<1>1. op.waited = TRUE
    BY DEF OpLost, Answers, Operation
<1>2. CASE op' = NoOp
    BY <1>1, <1>2
<1>3. CASE op' = [op EXCEPT !.waited = FALSE]
    BY <1>1, <1>3 DEF Operation
<1> QED BY <1>2, <1>3 DEF OpLost, Answers

\* An operation that is begun.
LEMMA BeginShape ==
    ASSUME BusBase, NEW kind \in {"fetch", "consume", "publish"}, NEW base \in Branch, NEW new \in Branch,
           Begin(kind, base, new)
    PROVE  /\ op' \in Operation /\ op'.kind = kind /\ op'.base = base /\ op'.new = new
           /\ op'.state = "sent" /\ op'.waited = TRUE /\ op'.ring = ring
BY DEF Begin, Operation, BusBase, BusShape

\* LoopSteps that leave the branches alone and begin nothing.
QuietStep ==
    \/ \E d \in hooks : Deliver(d)
    \/ OpFails \/ OpGone \/ Loaded \/ LoadFails \/ PollIgnored \/ Fetched \/ NothingToDo \/ Wake \/ Published

\* They keep the base of the invariant, and what the requests are counted by.
LEMMA QuietBase ==
    ASSUME BusBase, QuietStep
    PROVE  BusBase' /\ UNCHANGED <<remote, mirror, acted, lost, asked>>
<1> USE NoOpShape, RootShape DEF BusBase
<1>1. UNCHANGED <<remote, mirror, acted, lost, asked>>
    BY DEF QuietStep, Deliver, OpFails, OpGone, Loaded, LoadFails, PollIgnored, Fetched, NothingToDo, Wake, Published
<1>2. ring' \in Seq(Nat) /\ step' \in LoopSteps
    BY DEF QuietStep, Deliver, OpFails, OpGone, Loaded, LoadFails, PollIgnored, Fetched, NothingToDo, Wake, Published,
           BusShape, Branches, LoopSteps
<1>3. op' \in Operation /\ Owned(op.base)' /\ Awaits'
    <2> USE <1>1
    <2>a. Owned(Root)' /\ Owned(op.base)
        BY DEF BusShape, Owned
    <2>1. CASE (\E d \in hooks : Deliver(d)) \/ PollIgnored \/ NothingToDo \/ Wake
        <3>1. op' = op
            BY <2>1 DEF Deliver, PollIgnored, NothingToDo, Wake
        <3>2. Awaits'
            BY <2>1, <3>1 DEF Deliver, PollIgnored, NothingToDo, Wake, Awaits
        <3> QED BY <3>1, <3>2, <2>a DEF BusShape, Owned
    <2>2. CASE OpFails
        <3>1. op' = [op EXCEPT !.state = "failed"] /\ step' = step /\ op.state # "none"
            BY <2>2 DEF OpFails
        <3>2. op' \in Operation /\ op'.base = op.base /\ op'.kind = op.kind /\ op'.new = op.new /\ op'.waited = op.waited
            BY <3>1 DEF BusShape, Operation
        <3>3. Awaits'
            BY <3>1, <3>2 DEF Awaits
        <3> QED BY <2>a, <3>2, <3>3 DEF Owned
    <2>3. CASE OpGone
        <3>1. op' = NoOp /\ step' = step /\ op.waited # TRUE
            BY <2>3 DEF OpGone
        <3>2. Awaits'
            BY <3>1 DEF Awaits
        <3> QED BY <2>a, <3>1, <3>2
    <2>4. CASE Loaded \/ LoadFails \/ Fetched \/ Published
        <3>1. OpLost \/ (\E what \in {"ok"} : Answers(what))
            BY <2>4 DEF Loaded, LoadFails, Fetched, Published
        <3>2. Awaits'
            <4>1. CASE step' # "read"
                <5>1. step' \in {"idle", "down", "flush"}
                    BY <2>4, <4>1 DEF Loaded, LoadFails, Fetched, Published
                <5> QED BY <3>1, <5>1, WaitEnds DEF Awaits
            <4>2. CASE step' = "read"
                <5>1. op' = NoOp
                    BY <2>4, <4>2 DEF Loaded, LoadFails, Fetched, Published, Answers
                <5> QED BY <4>2, <5>1 DEF Awaits
            <4> QED BY <4>1, <4>2
        <3> QED BY <2>a, <3>1, <3>2, WaitEnds DEF Owned
    <2> QED BY <2>1, <2>2, <2>3, <2>4 DEF QuietStep
<1>4. Owned(remote.main)' /\ Owned(mirror.main)'
    BY <1>1 DEF BusShape, Owned
<1> QED BY <1>1, <1>2, <1>3, <1>4 DEF BusShape

\* LoopSteps of the loop that begin a fetch, or find the gate taken.
LEMMA AsksBase ==
    ASSUME BusBase, LoadState \/ PollBranch
    PROVE  /\ BusBase' /\ UNCHANGED <<remote, mirror, acted, lost, asked>>
           /\ op' = op \/ (op'.kind = "fetch" /\ op'.state = "sent")
           /\ step' # "read"
<1> USE NoOpShape, RootShape DEF BusBase
<1>1. UNCHANGED <<remote, mirror, acted, lost, asked, ring>>
    BY DEF LoadState, PollBranch
<1>2. Owned(Root)' /\ Owned(remote.main)' /\ Owned(mirror.main)'
    BY <1>1 DEF BusShape, Owned
<1>3. CASE Begin("fetch", Root, Root)
    <2>1. /\ op' \in Operation /\ op'.kind = "fetch" /\ op'.base = Root /\ op'.state = "sent" /\ op'.waited = TRUE
        BY <1>3, BeginShape
    <2>2. step' \in {"load", "fetch"}
        BY <2>1 DEF LoadState, PollBranch, Awaits, NoOpRuns
    <2>3. Owned(op.base)'
        BY <1>2, <2>1 DEF Owned
    <2>4. Awaits'
        <3>1. CASE step' = "load"
            BY <2>1, <3>1 DEF Awaits
        <3>2. CASE step' = "fetch"
            BY <2>1, <3>2 DEF Awaits
        <3> QED BY <2>2, <3>1, <3>2
    <2> QED BY <1>1, <1>2, <2>1, <2>2, <2>3, <2>4 DEF BusShape, LoopSteps
<1>4. CASE op' = op /\ step = "idle" /\ step' = "flush"
    BY <1>1, <1>2, <1>4 DEF BusShape, Owned, Awaits, LoopSteps
<1> QED BY <1>3, <1>4 DEF LoadState, PollBranch

\* The consuming commit: on top of the mirror's head, which has triggers, so it is one
\* of the operator's.
LEMMA ConsumeBase ==
    ASSUME BusBase, Consume
    PROVE  /\ BusBase' /\ UNCHANGED <<remote, acted, lost, asked>>
           /\ step = "read" /\ op'.kind = "consume" /\ op'.state = "sent" /\ op'.base = mirror.main
           /\ op'.waited = TRUE
<1> USE BusBoundsAssumption DEF BusBase
<1> DEFINE new == [head |-> Ours(mirror.main.head), files |-> NoFiles]
<1>1. /\ step = "read" /\ step' = "consume" /\ mirror.main.files # NoFiles
      /\ mirror' = [mirror EXCEPT !.main = new]
      /\ UNCHANGED <<remote, ring, acted, lost, asked>>
    BY DEF Consume
<1>2. mirror.main \in Branch /\ mirror.main.head \in 1..MaxCommits /\ Len(asked) \in Nat
    BY <1>1 DEF BusShape, Branches, Owned
<1>3. new \in Branch /\ Owned(new)
    BY <1>2 DEF Branch, Ours, NoFiles, Owned
<1>4. mirror'.main = new /\ mirror' \in Branches
    BY <1>1, <1>3 DEF BusShape, Branches
<1> HIDE DEF new
<1>5. Begin("consume", mirror.main, new)
    BY <1>4 DEF Consume
<1>6. /\ op' \in Operation /\ op'.kind = "consume" /\ op'.base = mirror.main /\ op'.new = new
      /\ op'.state = "sent" /\ op'.waited = TRUE
    BY <1>2, <1>3, <1>5, BeginShape
<1>7. Owned(remote.main)' /\ Owned(mirror.main)' /\ Owned(op.base)'
    BY <1>1, <1>3, <1>4, <1>6 DEF BusShape, Owned
<1>8. Awaits'
    BY <1>1, <1>6 DEF Awaits, new
<1> QED BY <1>1, <1>4, <1>6, <1>7, <1>8 DEF BusShape, LoopSteps

\* Its answer.
LEMMA ConsumedBase ==
    ASSUME BusBase, Consumed
    PROVE  /\ BusBase' /\ UNCHANGED <<remote, mirror, lost, asked>>
           /\ op.kind = "consume" /\ op.state = "ok" /\ op.waited = TRUE /\ op' = NoOp /\ step' = "flush"
           /\ Acts(Requested(op.base.files))
<1> USE NoOpShape, RootShape, RingAssumption DEF BusBase
<1>1. /\ step = "consume" /\ step' = "flush" /\ op' = NoOp /\ op.state = "ok" /\ op.waited
      /\ ring' = Marked(ring, op.new.head) /\ Acts(Requested(op.base.files))
      /\ UNCHANGED <<remote, mirror, lost, asked>>
    BY DEF Consumed, Answers
<1>2. op.waited = TRUE /\ op.kind = "consume"
    BY <1>1 DEF BusShape, Operation, Awaits
<1>3. ring' \in Seq(Nat)
    <2>1. op.new.head \in Nat
        BY BusBoundsAssumption DEF BusShape, Operation, Branch
    <2>2. Append(ring, op.new.head) \in Seq(Nat) /\ Append(ring, op.new.head) # <<>>
        BY <2>1 DEF BusShape
    <2> QED BY <1>1, <2>1, <2>2 DEF BusShape, Marked, Recent
<1>4. acted' \in [1..MaxCommits -> Nat]
    BY <1>1 DEF Acts, BusShape
<1>5. Owned(remote.main)' /\ Owned(mirror.main)' /\ Owned(Root)'
    BY <1>1 DEF BusShape, Owned
<1>6. Owned(op.base)'
    BY <1>1, <1>5 DEF Owned
<1>7. Awaits'
    BY <1>1 DEF Awaits
<1> QED BY <1>1, <1>2, <1>3, <1>4, <1>5, <1>6, <1>7 DEF BusShape, LoopSteps

\* No answer, or a refusal: the mirror's head is put back.
LEMMA ConsumeFailsBase ==
    ASSUME BusBase, ConsumeFails
    PROVE  /\ BusBase' /\ UNCHANGED <<remote, acted, asked>>
           /\ op.kind = "consume" /\ op.waited = TRUE /\ step' = "flush"
           /\ lost' = IF op.state = "moved" THEN lost ELSE lost \cup Requested(op.base.files)
           /\ \/ op'.kind = "none"
              \/ op'.kind = op.kind /\ op'.state = op.state /\ op'.base = op.base /\ op'.waited = FALSE
<1> USE RootShape DEF BusBase
<1>1. /\ step = "consume" /\ step' = "flush" /\ OpLost /\ mirror' = [mirror EXCEPT !.main = op.base]
      /\ UNCHANGED <<remote, acted, asked, ring>>
      /\ lost' = IF op.state = "moved" THEN lost ELSE lost \cup Requested(op.base.files)
    BY DEF ConsumeFails
<1>2. /\ op' \in Operation /\ Owned(op.base) /\ op.waited = TRUE /\ op'.waited = FALSE
      /\ \/ op'.kind = "none" /\ op'.state = "none" /\ op'.base = Root
         \/ op'.kind = op.kind /\ op'.state = op.state /\ op'.base = op.base /\ op'.new = op.new
    BY <1>1, WaitEnds
<1>3. op.kind = "consume"
    BY <1>1, <1>2 DEF Awaits
<1>4. op.base \in Branch /\ mirror' \in Branches /\ mirror'.main = op.base
    BY <1>1 DEF BusShape, Branches, Operation
<1>5. Requested(op.base.files) \subseteq 1..MaxCommits
    BY <1>4, BranchFields, BusBoundsAssumption DEF Requested
<1>6. Owned(remote.main)' /\ Owned(op.base) /\ Owned(Root)'
    BY <1>1, <1>2 DEF BusShape, Owned
<1>7. Owned(mirror.main)' /\ Owned(op.base)'
    BY <1>1, <1>2, <1>4, <1>6 DEF Owned
<1>8. Awaits'
    BY <1>1, <1>2 DEF Awaits
<1>9. lost' \subseteq 1..MaxCommits
    BY <1>1, <1>5 DEF BusShape
<1> QED BY <1>1, <1>2, <1>3, <1>4, <1>6, <1>7, <1>8, <1>9 DEF BusShape, LoopSteps

\* The document becomes the mirror's, and its push is begun if nothing runs.
LEMMA FlushBase ==
    ASSUME BusBase, FlushState
    PROVE  /\ BusBase' /\ UNCHANGED <<remote, acted, lost, asked>> /\ mirror'.main = mirror.main
           /\ step' \notin {"read", "fetch", "load"}
           /\ op' = op \/ op'.kind = "publish"
<1> USE RootShape DEF BusBase
<1>1. UNCHANGED <<remote, ring, acted, lost, asked>> /\ step = "flush" /\ step' \in {"idle", "publish"}
    BY DEF FlushState
<1>2. mirror'.main = mirror.main /\ mirror' \in Branches
    <2>1. CASE mirror' = mirror
        BY <2>1 DEF BusShape
    <2>2. CASE mirror' = [mirror EXCEPT !.ring = ring]
        BY <2>2 DEF BusShape, Branches
    <2> QED BY <2>1, <2>2 DEF FlushState
<1>3. Owned(remote.main)' /\ Owned(mirror.main)' /\ Owned(op.base) /\ Owned(Root)'
    BY <1>1, <1>2 DEF BusShape, Owned
<1>4. CASE op' = op /\ step' = "idle"
    BY <1>1, <1>2, <1>3, <1>4 DEF BusShape, Owned, Awaits, LoopSteps
<1>5. CASE step' = "publish" /\ Begin("publish", Root, Root)
    <2>1. /\ op' \in Operation /\ op'.kind = "publish" /\ op'.base = Root /\ op'.state = "sent" /\ op'.waited = TRUE
        BY <1>5, BeginShape
    <2>2. Owned(op.base)'
        BY <1>3, <2>1 DEF Owned
    <2>3. Awaits'
        BY <1>5, <2>1 DEF Awaits
    <2> QED BY <1>1, <1>2, <1>3, <1>5, <2>1, <2>2, <2>3 DEF BusShape, LoopSteps
<1> QED BY <1>4, <1>5 DEF FlushState

\* What an operation does to the remote and to the mirror.
LEMMA ReachBase ==
    ASSUME BusBase, OpReaches
    PROVE  /\ BusBase' /\ UNCHANGED <<step, acted, lost, asked>> /\ op.state = "sent"
           /\ op'.kind = op.kind /\ op'.base = op.base /\ op'.new = op.new /\ op'.waited = op.waited
           /\ CASE op.kind = "fetch" -> mirror' = remote /\ remote' = remote /\ op'.state = "ok"
                [] op.kind = "publish" -> mirror' = mirror /\ remote'.main = remote.main /\ op'.state = "ok"
                [] op.kind = "consume" -> /\ mirror' = mirror /\ remote'.main = Landed
                                          /\ op'.state = IF Landed = op.new THEN "ok" ELSE "moved"
           /\ op.kind \in {"fetch", "publish", "consume"}
<1> USE DEF BusBase
<1>1. op.state = "sent" /\ Reach /\ UNCHANGED <<step, ring, pending, queue, acted, lost, asked, busCrashes>>
    BY DEF OpReaches
<1>2. op.kind \in {"fetch", "publish", "consume"}
    BY <1>1 DEF BusShape, Operation, Awaits
<1>3. CASE op.kind = "fetch"
    <2>1. mirror' = remote /\ remote' = remote /\ op' = [op EXCEPT !.state = "ok"]
        BY <1>1, <1>3 DEF Reach, Mirrored
    <2>2. op' \in Operation /\ op'.state = "ok" /\ op'.kind = op.kind /\ op'.base = op.base /\ op'.new = op.new /\ op'.waited = op.waited
        BY <2>1 DEF BusShape, Operation
    <2>3. Owned(remote.main)' /\ Owned(mirror.main)' /\ Owned(op.base)'
        BY <1>1, <2>1, <2>2 DEF BusShape, Owned
    <2>4. Awaits'
        BY <1>1, <1>3, <2>2 DEF Awaits
    <2> QED BY <1>1, <1>3, <2>1, <2>2, <2>3, <2>4 DEF BusShape
<1>4. CASE op.kind = "publish"
    <2>1. remote' = [remote EXCEPT !.ring = op.ring] /\ mirror' = mirror /\ op' = [op EXCEPT !.state = "ok"]
        BY <1>1, <1>4 DEF Reach
    <2>2. op' \in Operation /\ op'.state = "ok" /\ op'.kind = op.kind /\ op'.base = op.base /\ op'.new = op.new /\ op'.waited = op.waited
        BY <2>1 DEF BusShape, Operation
    <2>3. remote' \in Branches /\ remote'.main = remote.main
        BY <2>1 DEF BusShape, Operation, Branches
    <2>4. Owned(remote.main)' /\ Owned(mirror.main)' /\ Owned(op.base)'
        BY <1>1, <2>1, <2>2, <2>3 DEF BusShape, Owned
    <2>5. Awaits'
        BY <1>1, <1>4, <2>2 DEF Awaits
    <2> QED BY <1>1, <1>4, <2>1, <2>2, <2>3, <2>4, <2>5 DEF BusShape
<1>5. CASE op.kind = "consume"
    <2>1. /\ remote' = [remote EXCEPT !.main = Landed] /\ mirror' = mirror
          /\ op' = [op EXCEPT !.state = IF Landed = op.new THEN "ok" ELSE "moved"]
        BY <1>1, <1>5 DEF Reach
    <2>2. /\ op' \in Operation /\ op'.kind = op.kind /\ op'.base = op.base /\ op'.new = op.new /\ op'.waited = op.waited
          /\ op'.state = IF Landed = op.new THEN "ok" ELSE "moved"
        BY <2>1 DEF BusShape, Operation
    <2>3. op.new = [head |-> Ours(op.base.head), files |-> NoFiles] /\ op.new \in Branch
        BY <1>5 DEF Awaits, BusShape, Operation
    <2>4. Owned(op.new)
        BY <2>3 DEF BusShape, Owned, NoFiles
    <2>5. Landed \in Branch /\ Owned(Landed)
        BY <2>3, <2>4 DEF Landed, BusShape, Branches
    <2>6. remote' \in Branches /\ remote'.main = Landed
        BY <2>1, <2>5 DEF BusShape, Branches
    <2>7. Owned(remote.main)' /\ Owned(mirror.main)' /\ Owned(op.base)'
        BY <1>1, <2>1, <2>2, <2>5, <2>6 DEF BusShape, Owned
    <2>8. Awaits'
        BY <1>1, <1>5, <2>2 DEF Awaits
    <2> QED BY <1>1, <1>5, <2>1, <2>2, <2>6, <2>7, <2>8 DEF BusShape
<1> QED BY <1>2, <1>3, <1>4, <1>5

\* The process dies.
LEMMA CrashBase ==
    ASSUME BusBase, BusCrash
    PROVE  /\ BusBase' /\ UNCHANGED <<remote, acted, asked>> /\ op' = NoOp /\ step' = "down"
           /\ lost' = IF step = "consume" THEN lost \cup Requested(op.base.files) ELSE lost
<1> USE NoOpShape, RootShape DEF BusBase
<1>1. /\ UNCHANGED <<remote, acted, asked>> /\ op' = NoOp /\ step' = "down" /\ ring' = <<>>
      /\ lost' = IF step = "consume" THEN lost \cup Requested(op.base.files) ELSE lost
      /\ mirror' \in {mirror, [main |-> Root, ring |-> <<>>]}
    BY DEF BusCrash
<1>2. mirror' \in Branches /\ (mirror'.main = mirror.main \/ mirror'.main = Root)
    <2>1. CASE mirror' = mirror
        BY <2>1 DEF BusShape
    <2>2. CASE mirror' = [main |-> Root, ring |-> <<>>]
        <3>1. <<>> \in Seq(Nat)
            OBVIOUS
        <3> QED BY <2>2, <3>1 DEF Branches
    <2> QED BY <1>1, <2>1, <2>2
<1>3. Owned(remote.main)' /\ Owned(mirror.main) /\ Owned(Root)'
    BY <1>1 DEF BusShape, Owned
<1>4. Owned(mirror.main)' /\ Owned(op.base)'
    BY <1>1, <1>2, <1>3 DEF Owned
<1>5. Requested(op.base.files) \subseteq 1..MaxCommits
    BY BranchFields, BusBoundsAssumption DEF Requested, BusShape, Operation
<1>6. Awaits'
    BY <1>1 DEF Awaits
<1>7. lost' \subseteq 1..MaxCommits
    BY <1>1, <1>5 DEF BusShape
<1>8. ring' \in Seq(Nat)
    BY <1>1
<1> QED BY <1>1, <1>2, <1>3, <1>4, <1>6, <1>7, <1>8 DEF BusShape, LoopSteps

-----------------------------------------------------------------------------
(* The requests.                                                           *)

\* What was read of the branch is still so, or the operator has moved on and what
\* was replaced is known.
Fresh(b) ==
    b.files # NoFiles =>
        /\ remote.main = b \/ (b.head < remote.main.head /\ remote.main.head <= Len(asked))
        /\ \A f \in File : b.files[f] # 0 => remote.main.files[f] = b.files[f] \/ b.files[f] \in lost
ReadsTheBranch ==
    /\ (step = "fetch" /\ op.state = "ok") \/ step = "read" => Fresh(mirror.main)
    /\ op.kind = "consume" /\ op.state \in {"sent", "moved"} => Fresh(op.base)

\* What can still be acted on was not: what is on the branch, what is not asked for
\* yet, and what the push in hand has taken off the branch.
Pending ==
    /\ \A r \in Requested(remote.main.files) : acted[r] = 0
    /\ \A r \in 1..MaxCommits : r > Len(asked) => acted[r] = 0
    /\ op.kind = "consume" /\ op.state = "ok" /\ op.waited = TRUE =>
          \A r \in Requested(op.base.files) : acted[r] = 0 /\ r \notin Requested(remote.main.files)

\* A push nobody waits for any more may land later: its requests count as lost.
AbandonedIsLost ==
    op.kind = "consume" /\ op.waited = FALSE /\ op.state = "sent" => Requested(op.base.files) \subseteq lost

BusInv == BusBase /\ ReadsTheBranch /\ Pending /\ ActedOnce /\ AbandonedIsLost /\ NoneForgotten

\* Nothing is asked for.
LEMMA BusInvInit == BusInit => BusInv
<1> SUFFICES ASSUME BusInit PROVE BusInv
    OBVIOUS
<1> USE BusBoundsAssumption DEF BusInit
<1>1. BusBase
    BY BusBaseInit
<1>2. remote.main = Root /\ op = NoOp /\ op.kind = "none" /\ Len(asked) = 0 /\ step = "down"
    BY DEF NoOp
<1>3. Requested(remote.main.files) = {}
    BY <1>2 DEF Requested, Root, NoFiles
<1>4. ReadsTheBranch /\ AbandonedIsLost /\ NoneForgotten
    BY <1>2 DEF ReadsTheBranch, AbandonedIsLost, NoneForgotten
<1>5. Pending /\ ActedOnce
    BY <1>2, <1>3 DEF Pending, ActedOnce
<1> QED BY <1>1, <1>4, <1>5 DEF BusInv

\* The operator commits: a trigger, or something else.
APushByHand == (\E f \in File : PushTrigger(f)) \/ PushContent

\* What a commit of the operator's does to the files and to the history.
LEMMA OperatorFacts ==
    ASSUME BusBase, APushByHand
    PROVE  /\ BusBase' /\ Len(asked) \in Nat /\ Len(asked') = Len(asked) + 1 /\ lost \subseteq lost'
           /\ remote'.main.head = Len(asked') /\ remote'.ring = remote.ring
           /\ UNCHANGED <<mirror, op, step, acted>>
           /\ \A r \in 1..Len(asked) : asked'[r] = asked[r]
           /\ \A g \in File : \/ remote'.main.files[g] = remote.main.files[g]
                             \/ /\ remote'.main.files[g] = Len(asked')
                                /\ remote.main.files[g] # 0 => remote.main.files[g] \in lost'
           /\ \/ asked'[Len(asked')] = "content"
              \/ remote'.main.files[asked'[Len(asked')]] = Len(asked')
<1> USE DEF BusBase, BusShape
<1>0. remote.main.files \in [File -> 0..MaxCommits] /\ Len(asked) \in Nat
    BY BranchFields DEF Branches
<1>1. CASE PushContent
    <2>1. OperatorPushes("content", remote.main.files) /\ lost' = lost
        BY <1>1 DEF PushContent
    <2>2. /\ BusBase' /\ asked' = Append(asked, "content") /\ Len(asked') = Len(asked) + 1
          /\ remote'.main.head = Len(asked') /\ remote'.main.files = remote.main.files /\ remote'.ring = remote.ring
          /\ UNCHANGED <<mirror, op, step, acted>>
        BY <2>1, PushBase
    <2>3. asked'[Len(asked')] = "content" /\ \A r \in 1..Len(asked) : asked'[r] = asked[r]
        BY <2>2
    <2> QED BY <1>0, <2>1, <2>2, <2>3
<1>2. ASSUME NEW f \in File, PushTrigger(f)
      PROVE  /\ BusBase' /\ Len(asked') = Len(asked) + 1 /\ lost \subseteq lost'
             /\ remote'.main.head = Len(asked') /\ remote'.ring = remote.ring
             /\ UNCHANGED <<mirror, op, step, acted>>
             /\ \A r \in 1..Len(asked) : asked'[r] = asked[r]
             /\ \A g \in File : \/ remote'.main.files[g] = remote.main.files[g]
                               \/ /\ remote'.main.files[g] = Len(asked')
                                  /\ remote.main.files[g] # 0 => remote.main.files[g] \in lost'
             /\ remote'.main.files[asked'[Len(asked')]] = Len(asked')
    <2> DEFINE files == [remote.main.files EXCEPT ![f] = Len(asked) + 1]
    <2>1. OperatorPushes(f, files) /\ lost' = lost \cup ({remote.main.files[f]} \ {0})
        BY <1>2 DEF PushTrigger
    <2>2. lost' \subseteq 1..MaxCommits
        <3>1. remote.main.files[f] \in Nat /\ remote.main.files[f] <= MaxCommits
            BY <1>0, BusBoundsAssumption
        <3>2. lost \subseteq 1..MaxCommits /\ MaxCommits \in Nat
            BY BusBoundsAssumption
        <3>3. {remote.main.files[f]} \ {0} \subseteq 1..MaxCommits
            BY <3>1, <3>2
        <3> HIDE DEF BusBase, BusShape
        <3> QED BY <2>1, <3>2, <3>3
    <2>3. /\ BusBase' /\ asked' = Append(asked, f) /\ Len(asked') = Len(asked) + 1
          /\ remote'.main.head = Len(asked') /\ remote'.main.files = files /\ remote'.ring = remote.ring
          /\ UNCHANGED <<mirror, op, step, acted>>
        <3> HIDE DEF BusBase, BusShape
        <3> QED BY <2>1, <2>2, PushBase
    <2>4. asked'[Len(asked')] = f /\ \A r \in 1..Len(asked) : asked'[r] = asked[r]
        BY <2>3
    <2>5. files[f] = Len(asked) + 1 /\ \A g \in File \ {f} : files[g] = remote.main.files[g]
        BY <1>0
    <2> HIDE DEF files
    <2> QED BY <1>0, <2>1, <2>3, <2>4, <2>5
<1> QED BY <1>0, <1>1, <1>2 DEF APushByHand

\* A branch that was read is as fresh after the operator's next commit.
LEMMA FreshPush ==
    ASSUME BusBase, APushByHand, NEW b \in Branch, Owned(b), Fresh(b)
    PROVE  Fresh(b)'
<1> SUFFICES ASSUME b.files # NoFiles
             PROVE  /\ remote'.main = b \/ (b.head < remote'.main.head /\ remote'.main.head <= Len(asked'))
                    /\ \A f \in File : b.files[f] # 0 => remote'.main.files[f] = b.files[f] \/ b.files[f] \in lost'
    BY DEF Fresh
<1>1. b.head \in 1..Len(asked) /\ Len(asked) \in Nat /\ remote'.main.head = Len(asked) + 1 /\ Len(asked') = Len(asked) + 1
    BY OperatorFacts DEF Owned
<1>2. ASSUME NEW f \in File, b.files[f] # 0 PROVE remote'.main.files[f] = b.files[f] \/ b.files[f] \in lost'
    BY <1>2, OperatorFacts DEF Fresh
<1> QED BY <1>1, <1>2

\* The steps, in the groups above.
LEMMA BusStepIs ==
    ASSUME [BusNext]_busVars
    PROVE  \/ APushByHand \/ QuietStep \/ LoadState \/ PollBranch \/ Consume \/ Consumed \/ ConsumeFails
           \/ FlushState \/ OpReaches \/ BusCrash \/ UNCHANGED busVars
BY DEF BusNext, LoopStep, APushByHand, QuietStep

\* Shapes and waits, whatever the step.
LEMMA BusBaseNext == BusBase /\ [BusNext]_busVars => BusBase'
<1> SUFFICES ASSUME BusBase, [BusNext]_busVars PROVE BusBase'
    OBVIOUS
<1>1. CASE UNCHANGED busVars
    BY <1>1 DEF busVars, BusBase, BusShape, Owned, Awaits
<1> QED BY <1>1, BusStepIs, OperatorFacts, QuietBase, AsksBase, ConsumeBase, ConsumedBase, ConsumeFailsBase,
           FlushBase, ReachBase, CrashBase

\* What the mirror holds when it is read, and what is built on it, is fresh.
LEMMA ReadsNext ==
    ASSUME BusBase, ReadsTheBranch, [BusNext]_busVars
    PROVE  ReadsTheBranch'
<1>0. mirror.main \in Branch /\ op.base \in Branch /\ Owned(mirror.main) /\ Owned(op.base)
    BY DEF BusBase, BusShape, Branches, Operation
<1>1. CASE APushByHand
    <2>1. UNCHANGED <<mirror, op, step>>
        BY <1>1, OperatorFacts
    <2>2. (step = "fetch" /\ op.state = "ok") \/ step = "read" => Fresh(mirror.main)'
        <3>1. Fresh(mirror.main) => \A b : b = mirror.main => Fresh(b)'
            BY <1>0, <1>1, FreshPush
        <3> QED BY <2>1, <3>1 DEF ReadsTheBranch, Fresh
    <2>3. op.kind = "consume" /\ op.state \in {"sent", "moved"} => Fresh(op.base)'
        <3>1. Fresh(op.base) => \A b : b = op.base => Fresh(b)'
            BY <1>0, <1>1, FreshPush
        <3> QED BY <2>1, <3>1 DEF ReadsTheBranch, Fresh
    <2> QED BY <2>1, <2>2, <2>3 DEF ReadsTheBranch
<1>2. ASSUME remote'.main = remote.main, asked' = asked, lost \subseteq lost',
             mirror'.main = mirror.main, op'.base = op.base
      PROVE  /\ Fresh(mirror.main) => Fresh(mirror.main)'
             /\ Fresh(op.base) => Fresh(op.base)'
    BY <1>2 DEF Fresh
<1>3. CASE QuietStep
    <2>1. UNCHANGED <<remote, mirror, lost, asked>>
        BY <1>3, QuietBase
    <2>2. (step' = "fetch" /\ op'.state = "ok") \/ step' = "read" => Fresh(mirror.main)
        <3>1. CASE step' = "read" /\ step # "read"
            <4>1. Fetched /\ Answers("ok")
                BY <1>3, <3>1 DEF QuietStep, Deliver, OpFails, OpGone, Loaded, LoadFails, PollIgnored, Fetched,
                                  NothingToDo, Wake, Published
            <4> QED BY <4>1 DEF Fetched, Answers, ReadsTheBranch
        <3>2. CASE step' = "fetch"
            <4>1. step = "fetch" /\ (op' = op \/ op'.state # "ok")
                <5>1. CASE OpGone
                    BY <5>1, <3>2 DEF OpGone, BusBase, Awaits, NoOp
                <5>2. CASE OpFails
                    BY <5>2, <3>2 DEF OpFails, BusBase, BusShape, Operation
                <5>3. CASE ~OpGone /\ ~OpFails
                    BY <1>3, <3>2, <5>3 DEF QuietStep, Deliver, Loaded, LoadFails, PollIgnored, Fetched,
                                  NothingToDo, Wake, Published
                <5> QED BY <5>1, <5>2, <5>3
            <4> QED BY <3>2, <4>1 DEF ReadsTheBranch
        <3>3. CASE step' = "read" /\ step = "read"
            BY <3>3 DEF ReadsTheBranch
        <3> QED BY <3>1, <3>2, <3>3
    <2>3. op'.kind = "consume" /\ op'.state \in {"sent", "moved"} =>
            op'.kind = op.kind /\ op'.state = op.state /\ op'.base = op.base
        <3>1. CASE OpGone
            BY <3>1 DEF OpGone, NoOp
        <3>2. CASE OpFails
            BY <3>2 DEF OpFails, BusBase, BusShape, Operation
        <3>3. CASE Loaded \/ LoadFails \/ Fetched \/ Published
            <4>1. OpLost \/ (\E what \in {"ok"} : Answers(what))
                BY <3>3 DEF Loaded, LoadFails, Fetched, Published
            <4> QED BY <4>1, WaitEnds
        <3>4. CASE (\E d \in hooks : Deliver(d)) \/ PollIgnored \/ NothingToDo \/ Wake
            BY <3>4 DEF Deliver, PollIgnored, NothingToDo, Wake
        <3> QED BY <1>3, <3>1, <3>2, <3>3, <3>4 DEF QuietStep
    <2> QED BY <2>1, <2>2, <2>3 DEF ReadsTheBranch, Fresh
<1>4. CASE LoadState \/ PollBranch
    <2>1. /\ UNCHANGED <<remote, mirror, lost, asked>> /\ step' # "read"
          /\ op' = op \/ (op'.kind = "fetch" /\ op'.state = "sent")
        BY <1>4, AsksBase
    <2>2. step' = "fetch" => op'.state = "sent"
        BY <1>4 DEF LoadState, PollBranch, Begin
    <2> QED BY <2>1, <2>2 DEF ReadsTheBranch, Fresh
<1>5. CASE Consume
    <2>1. /\ UNCHANGED <<remote, lost, asked>> /\ step = "read" /\ step' = "consume" /\ op'.base = mirror.main
        BY <1>5, ConsumeBase DEF Consume
    <2> QED BY <2>1 DEF ReadsTheBranch, Fresh
<1>6. CASE Consumed
    <2>1. UNCHANGED <<remote, lost, asked>> /\ step' = "flush" /\ op' = NoOp
        BY <1>6, ConsumedBase
    <2> QED BY <2>1 DEF ReadsTheBranch, NoOp
<1>7. CASE ConsumeFails
    <2>1. /\ UNCHANGED <<remote, asked>> /\ step' = "flush" /\ lost \subseteq lost'
          /\ \/ op'.kind = "none"
             \/ op'.kind = op.kind /\ op'.state = op.state /\ op'.base = op.base
        BY <1>7, ConsumeFailsBase
    <2>2. CASE op'.kind = "none"
        BY <2>1, <2>2 DEF ReadsTheBranch
    <2>3. CASE op'.kind = op.kind /\ op'.state = op.state /\ op'.base = op.base
        <3>1. Fresh(op.base) => Fresh(op.base)'
            BY <2>1, <2>3 DEF Fresh
        <3> QED BY <2>1, <2>3, <3>1 DEF ReadsTheBranch
    <2> QED BY <2>1, <2>2, <2>3
<1>8. CASE FlushState
    <2>1. /\ UNCHANGED <<remote, lost, asked>> /\ step' \notin {"read", "fetch", "load"}
          /\ op' = op \/ op'.kind = "publish"
        BY <1>8, FlushBase
    <2> QED BY <2>1 DEF ReadsTheBranch, Fresh
<1>9. CASE OpReaches
    <2>1. /\ UNCHANGED <<step, lost, asked>> /\ op.state = "sent" /\ op.kind \in {"fetch", "publish", "consume"}
          /\ op'.kind = op.kind /\ op'.base = op.base
        BY <1>9, ReachBase
    <2>2. CASE op.kind = "fetch"
        <3>1. mirror' = remote /\ remote' = remote
            BY <1>9, <2>2, ReachBase
        <3>2. Fresh(mirror.main)'
            BY <3>1 DEF Fresh
        <3> QED BY <2>1, <2>2, <3>2 DEF ReadsTheBranch
    <2>3. CASE op.kind = "publish"
        <3>1. mirror' = mirror /\ remote'.main = remote.main /\ step \notin {"fetch", "read"}
            BY <1>9, <2>3, ReachBase DEF BusBase, Awaits
        <3> QED BY <2>1, <2>3, <3>1 DEF ReadsTheBranch
    <2>4. CASE op.kind = "consume"
        <3>1. /\ mirror' = mirror /\ remote'.main = Landed /\ op'.state = IF Landed = op.new THEN "ok" ELSE "moved"
              /\ step \notin {"fetch", "read"}
            BY <1>9, <2>4, ReachBase DEF BusBase, Awaits
        <3>2. op'.state = "moved" => remote'.main = remote.main
            BY <3>1 DEF Landed
        <3>3. op'.state \in {"sent", "moved"} => Fresh(op.base)'
            BY <1>2, <2>1, <2>4, <3>1, <3>2 DEF ReadsTheBranch
        <3> QED BY <2>1, <2>4, <3>1, <3>3 DEF ReadsTheBranch
    <2> QED BY <2>1, <2>2, <2>3, <2>4
<1>10. CASE BusCrash
    BY <1>10, CrashBase DEF ReadsTheBranch, NoOp
<1>11. CASE UNCHANGED busVars
    BY <1>11 DEF busVars, ReadsTheBranch, Fresh
<1> QED BY <1>1, <1>3, <1>4, <1>5, <1>6, <1>7, <1>8, <1>9, <1>10, <1>11, BusStepIs

\* What is acted on was never acted on: an answered push has taken it off the branch.
LEMMA PendingNext ==
    ASSUME BusBase, ReadsTheBranch, Pending, ActedOnce, [BusNext]_busVars
    PROVE  Pending' /\ ActedOnce'
<1>1. CASE APushByHand
    <2>1. \A r \in Requested(remote'.main.files) : r \in Requested(remote.main.files) \/ r = Len(asked')
        BY <1>1, OperatorFacts DEF Requested
    <2>2. Len(asked) \in Nat /\ Len(asked') = Len(asked) + 1 /\ Len(asked') <= MaxCommits /\ UNCHANGED <<op, acted>>
        BY <1>1, OperatorFacts DEF BusBase, BusShape
    <2>3. acted[Len(asked')] = 0
        BY <2>2, BusBoundsAssumption DEF Pending
    <2>4. \A r \in Requested(op.base.files) : r <= Len(asked)
        BY DEF BusBase, BusShape, Owned, Requested
    <2> QED BY <2>1, <2>2, <2>3, <2>4 DEF Pending, ActedOnce
<1>2. ASSUME UNCHANGED <<acted, asked>>, remote'.main = remote.main,
             op'.kind # "consume" \/ op'.state # "ok" \/ op'.waited # TRUE
                \/ (op'.kind = op.kind /\ op'.state = op.state /\ op'.waited = op.waited /\ op'.base = op.base)
      PROVE  Pending' /\ ActedOnce'
    BY <1>2 DEF Pending, ActedOnce
<1>3. CASE QuietStep
    <2>1. op'.kind # "consume" \/ op'.state # "ok" \/ op'.waited # TRUE
             \/ (op'.kind = op.kind /\ op'.state = op.state /\ op'.waited = op.waited /\ op'.base = op.base)
        <3>1. CASE OpGone
            BY <3>1 DEF OpGone, NoOp
        <3>2. CASE OpFails
            BY <3>2 DEF OpFails, BusBase, BusShape, Operation
        <3>3. CASE Loaded \/ LoadFails \/ Fetched \/ Published
            <4>1. OpLost \/ (\E what \in {"ok"} : Answers(what))
                BY <3>3 DEF Loaded, LoadFails, Fetched, Published
            <4> QED BY <4>1, WaitEnds
        <3>4. CASE (\E d \in hooks : Deliver(d)) \/ PollIgnored \/ NothingToDo \/ Wake
            BY <3>4 DEF Deliver, PollIgnored, NothingToDo, Wake
        <3> QED BY <1>3, <3>1, <3>2, <3>3, <3>4 DEF QuietStep
    <2> QED BY <1>2, <1>3, <2>1, QuietBase
<1>4. CASE LoadState \/ PollBranch
    BY <1>2, <1>4, AsksBase
<1>5. CASE Consume
    BY <1>2, <1>5, ConsumeBase
<1>6. CASE Consumed
    <2>1. /\ UNCHANGED <<remote, asked>> /\ op' = NoOp /\ Acts(Requested(op.base.files))
          /\ \A r \in Requested(op.base.files) : acted[r] = 0 /\ r \notin Requested(remote.main.files)
        BY <1>6, ConsumedBase DEF Pending
    <2>2. \A r \in Requested(op.base.files) : r <= Len(asked)
        BY DEF BusBase, BusShape, Owned, Requested
    <2>3. Requested(remote.main.files) \subseteq 1..MaxCommits /\ Len(asked) \in Nat
        BY BranchFields, BusBoundsAssumption DEF BusBase, BusShape, Branches, Requested
    <2>4. acted' = [r \in 1..MaxCommits |-> IF r \in Requested(op.base.files) THEN acted[r] + 1 ELSE acted[r]]
        BY <2>1 DEF Acts
    <2>5. acted \in [1..MaxCommits -> Nat]
        BY DEF BusBase, BusShape
    <2>6. ActedOnce'
        BY <2>1, <2>4, <2>5 DEF ActedOnce
    <2>7. Pending'
        BY <2>1, <2>2, <2>3, <2>4, <2>5 DEF Pending, NoOp
    <2> QED BY <2>6, <2>7
<1>7. CASE ConsumeFails
    BY <1>2, <1>7, ConsumeFailsBase
<1>8. CASE FlushState
    BY <1>2, <1>8, FlushBase
<1>9. CASE OpReaches
    <2>1. UNCHANGED <<step, lost, asked, acted>> /\ op'.kind = op.kind /\ op'.base = op.base /\ op.state = "sent"
          /\ op.kind \in {"fetch", "publish", "consume"}
        BY <1>9, ReachBase
    <2>2. CASE op.kind # "consume"
        BY <1>2, <1>9, <2>1, <2>2, ReachBase
    <2>3. CASE op.kind = "consume"
        <3>1. remote'.main = Landed /\ op'.state = IF Landed = op.new THEN "ok" ELSE "moved"
            BY <1>9, <2>3, ReachBase
        <3>2. CASE remote.main = op.base
            <4>1. remote'.main = op.new /\ op.new.files = NoFiles
                BY <2>3, <3>1, <3>2 DEF Landed, BusBase, Awaits
            <4>2. Requested(remote'.main.files) = {}
                BY <4>1 DEF Requested, NoFiles
            <4> QED BY <2>1, <3>2, <4>2 DEF Pending, ActedOnce
        <3>3. CASE remote.main # op.base
            <4>1. remote'.main = remote.main
                BY <3>1, <3>3 DEF Landed
            <4>2. op.base.files # NoFiles /\ op.new.head = Ours(op.base.head) /\ op.base.head \in 1..Len(asked)
                BY <2>3 DEF BusBase, BusShape, Awaits, Owned
            <4>3. remote.main.head <= Len(asked) /\ Len(asked) <= MaxCommits /\ Len(asked) \in Nat
                BY <2>1, <2>3, <3>3, <4>2 DEF ReadsTheBranch, Fresh, BusBase, BusShape
            <4>4. remote.main.head \in Nat
                BY BranchFields, BusBoundsAssumption DEF BusBase, BusShape, Branches
            <4>5. remote.main # op.new
                BY <4>2, <4>3, <4>4, BusBoundsAssumption DEF Ours
            <4>6. op'.state = "moved"
                BY <3>1, <3>3, <4>5 DEF Landed
            <4> QED BY <1>2, <2>1, <4>1, <4>6
        <3> QED BY <3>2, <3>3
    <2> QED BY <2>2, <2>3
<1>10. CASE BusCrash
    <2>1. /\ UNCHANGED <<remote, acted, asked>> /\ op'.kind # "consume"
        BY <1>10, CrashBase, NoOpShape
    <2> QED BY <1>2, <2>1
<1>11. CASE UNCHANGED busVars
    BY <1>2, <1>11 DEF busVars
<1> QED BY <1>1, <1>3, <1>4, <1>5, <1>6, <1>7, <1>8, <1>9, <1>10, <1>11, BusStepIs

\* A request that leaves the branch is acted on, or known to be lost.
LEMMA LostNext ==
    ASSUME BusBase, ReadsTheBranch, Pending, AbandonedIsLost, NoneForgotten, [BusNext]_busVars
    PROVE  AbandonedIsLost' /\ NoneForgotten'
<1>0. /\ remote.main.files \in [File -> 0..MaxCommits] /\ op.base.files \in [File -> 0..MaxCommits]
      /\ op.waited \in BOOLEAN /\ acted \in [1..MaxCommits -> Nat] /\ MaxCommits \in Nat
      /\ DOMAIN asked = 1..Len(asked) /\ Len(asked) \in Nat /\ Len(asked) <= MaxCommits
      /\ \A r \in DOMAIN asked : asked[r] # "content" => asked[r] \in File
    BY BranchFields, BusBoundsAssumption DEF BusBase, BusShape, Branches, Operation
<1>1. CASE APushByHand
    <2>1. /\ Len(asked') = Len(asked) + 1 /\ lost \subseteq lost' /\ UNCHANGED <<op, acted>>
          /\ \A r \in 1..Len(asked) : asked'[r] = asked[r]
          /\ DOMAIN asked' = 1..Len(asked')
        BY <1>1, OperatorFacts DEF BusBase, BusShape
    <2>2. AbandonedIsLost'
        BY <2>1 DEF AbandonedIsLost
    <2>3. ASSUME NEW r \in DOMAIN asked', asked'[r] # "content"
          PROVE  \/ acted'[r] > 0 \/ r \in lost'
                 \/ remote'.main.files[asked'[r]] = r
                 \/ op'.kind = "consume" /\ op'.waited /\ op'.base.files[asked'[r]] = r
        <3>1. CASE r = Len(asked')
            BY <1>1, <2>3, <3>1, OperatorFacts
        <3>2. CASE r # Len(asked')
            <4>1. r \in DOMAIN asked /\ asked'[r] = asked[r] /\ asked[r] \in File /\ r # 0
                BY <1>0, <2>1, <2>3, <3>2
            <4>2. remote.main.files[asked[r]] = r => remote'.main.files[asked[r]] = r \/ r \in lost'
                BY <1>1, <4>1, OperatorFacts
            <4> QED BY <2>1, <2>3, <4>1, <4>2 DEF NoneForgotten
        <3> QED BY <3>1, <3>2
    <2> QED BY <2>2, <2>3 DEF NoneForgotten
<1>2. ASSUME UNCHANGED asked, remote'.main = remote.main, lost \subseteq lost',
             \A r \in 1..MaxCommits : acted[r] > 0 => acted'[r] > 0,
             op.kind = "consume" /\ op.waited => \/ op'.kind = "consume" /\ op'.waited /\ op'.base = op.base
                                               \/ \A f \in File : op.base.files[f] # 0 =>
                                                     \/ op.base.files[f] \in lost' \/ acted'[op.base.files[f]] > 0
                                                     \/ remote.main.files[f] = op.base.files[f]
      PROVE  NoneForgotten'
    <2> SUFFICES ASSUME NEW r \in DOMAIN asked, asked[r] # "content"
                 PROVE  \/ acted'[r] > 0 \/ r \in lost'
                        \/ remote.main.files[asked[r]] = r
                        \/ op'.kind = "consume" /\ op'.waited /\ op'.base.files[asked[r]] = r
        BY <1>2 DEF NoneForgotten
    <2>1. r \in 1..MaxCommits /\ r # 0 /\ asked[r] \in File
        BY <1>0
    <2>2. \/ acted[r] > 0 \/ r \in lost
          \/ remote.main.files[asked[r]] = r
          \/ op.kind = "consume" /\ op.waited /\ op.base.files[asked[r]] = r
        BY DEF NoneForgotten
    <2> QED BY <1>2, <2>1, <2>2
<1>3. CASE QuietStep
    <2>1. UNCHANGED <<remote, acted, lost, asked>>
        BY <1>3, QuietBase
    <2>2. /\ op.kind = "consume" /\ op.waited => op'.kind = "consume" /\ op'.waited /\ op'.base = op.base
          /\ op'.kind = "consume" /\ op'.waited = FALSE /\ op'.state = "sent" =>
                op.kind = "consume" /\ op.waited = FALSE /\ op.state = "sent" /\ op'.base = op.base
        <3>1. CASE OpGone
            BY <3>1 DEF OpGone, NoOp
        <3>2. CASE OpFails
            BY <3>2 DEF OpFails, BusBase, BusShape, Operation
        <3>3. CASE Loaded \/ LoadFails \/ Fetched \/ Published
            <4>1. OpLost \/ (\E what \in {"ok"} : Answers(what))
                BY <3>3 DEF Loaded, LoadFails, Fetched, Published
            <4>2. op.waited = TRUE /\ op.kind # "consume"
                BY <3>3, <4>1, WaitEnds DEF BusBase, Awaits, Loaded, LoadFails, Fetched, Published
            <4> QED BY <4>1, <4>2, WaitEnds
        <3>4. CASE (\E d \in hooks : Deliver(d)) \/ PollIgnored \/ NothingToDo \/ Wake
            BY <3>4 DEF Deliver, PollIgnored, NothingToDo, Wake
        <3> QED BY <1>3, <3>1, <3>2, <3>3, <3>4 DEF QuietStep
    <2>3. AbandonedIsLost'
        BY <2>1, <2>2 DEF AbandonedIsLost
    <2> QED BY <1>2, <2>1, <2>2, <2>3
<1>4. CASE LoadState \/ PollBranch
    <2>1. UNCHANGED <<remote, acted, lost, asked>> /\ (op' = op \/ (op'.kind = "fetch" /\ op'.state = "sent"))
        BY <1>4, AsksBase
    <2>2. op' = op \/ op.kind = "none"
        BY <1>4 DEF LoadState, PollBranch, NoOpRuns
    <2>3. AbandonedIsLost'
        BY <2>1 DEF AbandonedIsLost
    <2> QED BY <1>2, <2>1, <2>2, <2>3
<1>5. CASE Consume
    <2>1. /\ UNCHANGED <<remote, acted, lost, asked>> /\ step = "read" /\ op'.kind = "consume" /\ op'.waited = TRUE
          /\ op.kind = "none"
        BY <1>5, ConsumeBase DEF BusBase, Awaits
    <2> QED BY <1>2, <2>1 DEF AbandonedIsLost
<1>6. CASE Consumed
    <2>1. /\ UNCHANGED <<remote, lost, asked>> /\ op' = NoOp /\ op'.kind = "none" /\ Acts(Requested(op.base.files))
        BY <1>6, ConsumedBase, NoOpShape
    <2>2. acted' = [r \in 1..MaxCommits |-> IF r \in Requested(op.base.files) THEN acted[r] + 1 ELSE acted[r]]
        BY <2>1 DEF Acts
    <2>3. \A r \in 1..MaxCommits : acted[r] > 0 => acted'[r] > 0
        BY <1>0, <2>2
    <2>4. ASSUME NEW f \in File, op.base.files[f] # 0 PROVE acted'[op.base.files[f]] > 0
        <3>1. op.base.files[f] \in 1..MaxCommits /\ op.base.files[f] \in Requested(op.base.files)
            BY <1>0, <2>4 DEF Requested
        <3> QED BY <1>0, <2>2, <3>1
    <2> QED BY <1>2, <2>1, <2>3, <2>4 DEF AbandonedIsLost
<1>7. CASE ConsumeFails
    <2>1. /\ UNCHANGED <<remote, acted, asked>> /\ op.kind = "consume" /\ op.waited = TRUE
          /\ lost' = IF op.state = "moved" THEN lost ELSE lost \cup Requested(op.base.files)
          /\ \/ op'.kind = "none"
             \/ op'.kind = op.kind /\ op'.state = op.state /\ op'.base = op.base /\ op'.waited = FALSE
        BY <1>7, ConsumeFailsBase
    <2>2. ASSUME NEW f \in File, op.base.files[f] # 0
          PROVE  op.base.files[f] \in lost' \/ remote.main.files[f] = op.base.files[f]
        <3>1. CASE op.state = "moved"
            <4>1. op.base.files # NoFiles
                BY <2>2 DEF NoFiles
            <4> QED BY <2>1, <2>2, <3>1, <4>1 DEF ReadsTheBranch, Fresh
        <3>2. CASE op.state # "moved"
            BY <2>1, <2>2, <3>2 DEF Requested
        <3> QED BY <3>1, <3>2
    <2>3. AbandonedIsLost'
        BY <2>1 DEF AbandonedIsLost
    <2> QED BY <1>2, <2>1, <2>2, <2>3
<1>8. CASE FlushState
    <2>1. UNCHANGED <<remote, acted, lost, asked>> /\ (op' = op \/ op'.kind = "publish")
        BY <1>8, FlushBase
    <2>2. op' = op \/ op.kind = "none"
        BY <1>8 DEF FlushState, NoOpRuns
    <2>3. AbandonedIsLost'
        BY <2>1 DEF AbandonedIsLost
    <2> QED BY <1>2, <2>1, <2>2, <2>3
<1>9. CASE OpReaches
    <2>1. /\ UNCHANGED <<lost, asked, acted>> /\ op.state = "sent"
          /\ op'.kind = op.kind /\ op'.base = op.base /\ op'.waited = op.waited
          /\ op.kind \in {"fetch", "publish", "consume"}
        BY <1>9, ReachBase
    <2>2. CASE op.kind # "consume"
        BY <1>2, <1>9, <2>1, <2>2, ReachBase DEF AbandonedIsLost
    <2>3. CASE op.kind = "consume"
        <3>1. remote'.main = Landed /\ op'.state = IF Landed = op.new THEN "ok" ELSE "moved"
            BY <1>9, <2>3, ReachBase
        <3>2. AbandonedIsLost'
            BY <2>1, <3>1 DEF AbandonedIsLost
        <3>3. CASE remote.main # op.base
            <4>1. remote'.main = remote.main
                BY <3>1, <3>3 DEF Landed
            <4> QED BY <1>2, <2>1, <3>2, <4>1
        <3>4. CASE remote.main = op.base /\ op.waited
            <4>1. ASSUME NEW r \in DOMAIN asked, asked[r] # "content"
                  PROVE  acted[r] > 0 \/ r \in lost \/ (op.waited /\ op.base.files[asked[r]] = r)
                BY <3>4, <4>1 DEF NoneForgotten
            <4> QED BY <2>1, <2>3, <3>2, <4>1 DEF NoneForgotten
        <3>5. CASE remote.main = op.base /\ ~op.waited
            <4>1. Requested(op.base.files) \subseteq lost
                BY <1>0, <2>1, <2>3, <3>5 DEF AbandonedIsLost
            <4>2. ASSUME NEW r \in DOMAIN asked, asked[r] # "content"
                  PROVE  acted[r] > 0 \/ r \in lost
                <5>1. asked[r] \in File /\ r # 0
                    BY <1>0, <4>2
                <5>2. op.base.files[asked[r]] = r => r \in lost
                    BY <4>1, <5>1 DEF Requested
                <5> QED BY <3>5, <4>2, <5>2 DEF NoneForgotten
            <4> QED BY <2>1, <3>2, <4>2 DEF NoneForgotten
        <3> QED BY <3>3, <3>4, <3>5
    <2> QED BY <2>2, <2>3
<1>10. CASE BusCrash
    <2>1. /\ UNCHANGED <<remote, acted, asked>> /\ op'.kind = "none"
          /\ lost' = IF step = "consume" THEN lost \cup Requested(op.base.files) ELSE lost
        BY <1>10, CrashBase, NoOpShape
    <2>2. op.kind = "consume" /\ op.waited => step = "consume"
        BY <1>0 DEF BusBase, Awaits
    <2>3. ASSUME NEW f \in File, op.base.files[f] # 0, op.kind = "consume" /\ op.waited
          PROVE  op.base.files[f] \in lost'
        BY <2>1, <2>2, <2>3 DEF Requested
    <2> QED BY <1>2, <2>1, <2>3 DEF AbandonedIsLost
<1>11. CASE UNCHANGED busVars
    BY <1>11 DEF busVars, AbandonedIsLost, NoneForgotten
<1> QED BY <1>1, <1>3, <1>4, <1>5, <1>6, <1>7, <1>8, <1>9, <1>10, <1>11, BusStepIs

\* All of it.
LEMMA BusInvNext == BusInv /\ [BusNext]_busVars => BusInv'
BY BusBaseNext, ReadsNext, PendingNext, LostNext DEF BusInv

\* Nothing an operator asks for is done twice (consumeTriggers, Commit), for any
\* triggers, commits, deliveries and faults.
THEOREM RequestsAreServedOnce == BusSpec => []ActedOnce
<1>1. BusSpec => []BusInv
    BY BusInvInit, BusInvNext, PTL DEF BusSpec
<1> QED BY <1>1, PTL DEF BusInv

\* Nothing an operator asks for is forgotten but what the operator replaced and what a
\* push without an answer took (consumeTriggers, Commit).
THEOREM RequestsAreKept == BusSpec => []NoneForgotten
<1>1. BusSpec => []BusInv
    BY BusInvInit, BusInvNext, PTL DEF BusSpec
<1> QED BY <1>1, PTL DEF BusInv

\* Triggers are read out of the mirror only when no fetch writes to it, abandoned ones
\* included (onPoll, netOp).
THEOREM MirrorIsReadAlone == BusSpec => []ReadsAreQuiet
<1>1. BusSpec => []BusBase
    BY BusBaseInit, BusBaseNext, PTL DEF BusSpec
<1>2. BusBase => ReadsAreQuiet
    BY DEF BusBase, Awaits, ReadsAreQuiet, NoOpRuns
<1> QED BY <1>1, <1>2, PTL

-----------------------------------------------------------------------------
(* A start reads what is published.                                        *)

LoadsThePublished == step = "load" /\ op.state = "ok" => mirror.ring = remote.ring

\* Between the answer of the first fetch and the read nothing else is under way.
LEMMA LoadNext ==
    ASSUME BusBase, LoadsThePublished, [BusNext]_busVars
    PROVE  LoadsThePublished'
<1> SUFFICES ASSUME step' = "load", op'.state = "ok" PROVE mirror'.ring = remote'.ring
    BY DEF LoadsThePublished
<1>1. CASE APushByHand
    BY <1>1, OperatorFacts DEF LoadsThePublished
<1>2. CASE QuietStep
    <2>1. UNCHANGED <<remote, mirror>>
        BY <1>2, QuietBase
    <2>2. CASE OpGone
        BY <2>2, NoOpShape DEF OpGone
    <2>3. CASE OpFails
        BY <2>3 DEF OpFails, BusBase, BusShape, Operation
    <2>4. CASE ~OpGone /\ ~OpFails
        <3>1. step = "load" /\ op' = op
            BY <1>2, <2>4 DEF QuietStep, Deliver, Loaded, LoadFails, PollIgnored, Fetched, NothingToDo, Wake, Published
        <3> QED BY <2>1, <3>1 DEF LoadsThePublished
    <2> QED BY <2>1, <2>2, <2>3, <2>4
<1>3. CASE LoadState
    BY <1>3 DEF LoadState, Begin
<1>4. CASE PollBranch \/ Consume \/ Consumed \/ ConsumeFails \/ FlushState
    BY <1>4 DEF PollBranch, Consume, Consumed, ConsumeFails, FlushState
<1>5. CASE OpReaches
    BY <1>5, ReachBase DEF BusBase, Awaits
<1>6. CASE BusCrash
    BY <1>6, CrashBase
<1>7. CASE UNCHANGED busVars
    BY <1>7 DEF busVars, LoadsThePublished
<1> QED BY <1>1, <1>2, <1>3, <1>4, <1>5, <1>6, <1>7, BusStepIs

\* A restart resumes from what is published, whatever a failed push left in the mirror
\* (Store.Load, fetch).
THEOREM RestartResumes == BusSpec => ResumesFromPublished
<1>1. BusBase /\ LoadsThePublished /\ [BusNext]_busVars => (Loaded => ring' = remote.ring)
    BY DEF Loaded, Answers, LoadsThePublished
<1>2. BusInit => LoadsThePublished
    BY DEF BusInit, LoadsThePublished
<1>3. BusSpec => [](BusBase /\ LoadsThePublished)
    BY <1>2, BusBaseInit, BusBaseNext, LoadNext, PTL DEF BusSpec
<1> QED BY <1>1, <1>3, PTL DEF BusSpec, ResumesFromPublished

-----------------------------------------------------------------------------
(* The ring and the queue at their limits.                                 *)

\* The ring in memory, and every copy of it that was published, is read or is on its
\* way, is no longer than its cap; the queue holds SHAs, and no more than it has room for.
Short(seq) == Len(seq) <= RingCap
Limits ==
    /\ Short(ring) /\ Short(remote.ring) /\ Short(mirror.ring) /\ Short(op.ring)
    /\ queue \in Seq(Nat) /\ Len(queue) <= QueueCap
    /\ \A d \in hooks : d.sha \in Nat

\* A ring that takes one more drops its oldest.
LEMMA MarkedShort ==
    ASSUME NEW seq \in Seq(Nat), Short(seq), NEW sha \in Nat
    PROVE  Short(Marked(seq, sha))
<1>1. CASE Len(seq) < RingCap
    <2>1. Append(seq, sha) \in Seq(Nat) /\ Len(Append(seq, sha)) = Len(seq) + 1
        OBVIOUS
    <2>2. Len(Append(seq, sha)) <= RingCap
        BY <1>1, <2>1, RingAssumption
    <2> QED BY <2>1, <2>2, RingAssumption DEF Marked, Recent, Short
<1>2. CASE Len(seq) = RingCap
    <2> DEFINE longer == Append(seq, sha)
    <2>1. longer \in Seq(Nat) /\ Len(longer) = RingCap + 1
        BY <1>2
    <2> HIDE DEF longer
    <2>2. Len(Tail(longer)) = RingCap
        BY <2>1, RingAssumption
    <2>3. Len(longer) > RingCap
        BY <2>1, RingAssumption
    <2>4. Marked(seq, sha) = seq \/ Marked(seq, sha) = Tail(longer)
        BY <2>3 DEF Marked, Recent, longer
    <2> QED BY <2>2, <2>4, RingAssumption DEF Short
<1> QED BY <1>1, <1>2, RingAssumption DEF Short

\* A step that leaves rings, queue and deliveries alone, or drops them.
LEMMA LimitsStay ==
    ASSUME Limits, BusBase,
           ring' \in {ring, mirror.ring, <<>>}, remote'.ring \in {remote.ring, op.ring},
           mirror'.ring \in {mirror.ring, ring, remote.ring, <<>>}, op'.ring \in {op.ring, ring, <<>>},
           queue' = queue \/ queue' = <<>> \/ (queue # <<>> /\ queue' = Tail(queue)),
           \A d \in hooks' : d \in hooks \/ d.sha \in Nat
    PROVE  Limits'
<1>1. Short(ring) /\ Short(remote.ring) /\ Short(mirror.ring) /\ Short(op.ring) /\ Short(<<>>)
    BY RingAssumption DEF Limits, Short
<1>2. Short(ring') /\ Short(remote'.ring) /\ Short(mirror'.ring) /\ Short(op'.ring)
    BY <1>1
<1>3. queue' \in Seq(Nat) /\ Len(queue') <= QueueCap
    <2>1. queue \in Seq(Nat) /\ Len(queue) <= QueueCap
        BY DEF Limits
    <2>2. CASE queue # <<>> /\ queue' = Tail(queue)
        BY <2>1, <2>2, RingAssumption
    <2>3. CASE queue' = <<>>
        BY <2>3, RingAssumption
    <2> QED BY <2>1, <2>2, <2>3
<1>4. \A d \in hooks' : d.sha \in Nat
    BY DEF Limits
<1> QED BY <1>2, <1>3, <1>4 DEF Limits, Short

\* Every step stays within them.
LEMMA LimitsNext == BusBase /\ Limits /\ [BusNext]_busVars => Limits'
<1> SUFFICES ASSUME BusBase, Limits, [BusNext]_busVars PROVE Limits'
    OBVIOUS
<1>0. /\ remote \in Branches /\ mirror \in Branches /\ op \in Operation /\ NoOp.ring = <<>>
      /\ ring \in Seq(Nat) /\ Len(asked) \in Nat
    BY DEF BusBase, BusShape, NoOp
<1>1. ASSUME NEW kind, NEW base, NEW new, Begin(kind, base, new) PROVE op'.ring = ring
    BY <1>1 DEF Begin
<1>2. OpLost => op'.ring \in {op.ring, <<>>}
    BY <1>0 DEF OpLost, Operation
<1>3. ASSUME NEW what, Answers(what) PROVE op'.ring = <<>>
    BY <1>0, <1>3 DEF Answers
<1>4. CASE UNCHANGED busVars
    BY <1>4 DEF busVars, Limits, Short
<1>5. ASSUME NEW what, NEW files, OperatorPushes(what, files), NEW paths,
             hooks' = hooks \cup {Delivery("main", Len(asked'), paths)}
      PROVE  Limits'
    <2>1. remote'.ring = remote.ring /\ Len(asked') \in Nat /\ UNCHANGED <<mirror, op, ring, queue>>
        BY <1>0, <1>5 DEF OperatorPushes, Branches, BusBase, BusShape
    <2>2. \A d \in hooks' : d \in hooks \/ d.sha \in Nat
        BY <1>5, <2>1 DEF Delivery
    <2> QED BY <2>1, <2>2, LimitsStay
<1>6. CASE (\E f \in File : PushTrigger(f)) \/ PushContent
    BY <1>5, <1>6 DEF PushTrigger, PushContent
<1>7. ASSUME NEW d \in hooks, Deliver(d) PROVE Limits'
    <2>1. queue' = Queued(queue, d.sha) /\ UNCHANGED <<remote, mirror, op, ring, hooks>>
        BY <1>7 DEF Deliver
    <2>2. queue \in Seq(Nat) /\ Len(queue) <= QueueCap /\ d.sha \in Nat /\ QueueCap \in Nat
        BY RingAssumption DEF Limits
    <2>3. queue' \in Seq(Nat) /\ Len(queue') <= QueueCap
        BY <2>1, <2>2 DEF Queued
    <2> QED BY <2>1, <2>3 DEF Limits, Short
<1>8. CASE OpReaches
    <2>1. UNCHANGED <<ring, queue>> /\ Reach
        BY <1>8 DEF OpReaches
    <2>2. CASE op.kind = "fetch"
        <3>1. UNCHANGED <<remote, hooks>> /\ mirror' = remote /\ op'.ring = op.ring
            BY <1>0, <2>1, <2>2 DEF Reach, Mirrored, Operation
        <3> QED BY <2>1, <3>1, LimitsStay
    <2>3. CASE op.kind = "publish"
        <3>1. /\ remote'.ring = op.ring /\ op'.ring = op.ring /\ UNCHANGED mirror
              /\ hooks' = hooks \cup {Delivery("state", 0, "content")}
            BY <1>0, <2>1, <2>3 DEF Reach, Operation, Branches
        <3>2. \A d \in hooks' : d \in hooks \/ d.sha \in Nat
            BY <3>1 DEF Delivery
        <3> QED BY <2>1, <3>1, <3>2, LimitsStay
    <2>4. CASE op.kind = "consume"
        <3>1. /\ remote'.ring = remote.ring /\ op'.ring = op.ring /\ UNCHANGED mirror
              /\ hooks' = hooks \/ hooks' = hooks \cup {Delivery("main", op.new.head, "triggers")}
            BY <1>0, <2>1, <2>4 DEF Reach, Operation, Branches
        <3>2. op.new.head \in Nat
            BY <1>0, BusBoundsAssumption DEF Operation, Branch
        <3>3. \A d \in hooks' : d \in hooks \/ d.sha \in Nat
            BY <3>1, <3>2 DEF Delivery
        <3> QED BY <2>1, <3>1, <3>3, LimitsStay
    <2>5. op.kind \in {"fetch", "consume", "publish"}
        BY <1>0, <1>8 DEF BusBase, Awaits, OpReaches, Operation
    <2> QED BY <2>2, <2>3, <2>4, <2>5
<1>9. CASE OpFails \/ OpGone
    <2>1. UNCHANGED <<remote, mirror, ring, queue, hooks>> /\ op'.ring \in {op.ring, <<>>}
        BY <1>0, <1>9 DEF OpFails, OpGone, Operation
    <2> QED BY <2>1, LimitsStay
<1>10. CASE LoadState \/ Loaded \/ LoadFails \/ Fetched \/ NothingToDo \/ Published \/ Wake
    <2>1. UNCHANGED <<remote, mirror, queue, hooks>>
        BY <1>10 DEF LoadState, Loaded, LoadFails, Fetched, NothingToDo, Published, Wake
    <2>2. ring' \in {ring, mirror.ring}
        BY <1>10 DEF LoadState, Loaded, LoadFails, Fetched, NothingToDo, Published, Wake
    <2>3. op'.ring \in {op.ring, ring, <<>>}
        BY <1>1, <1>2, <1>3, <1>10 DEF LoadState, Loaded, LoadFails, Fetched, NothingToDo, Published, Wake
    <2> QED BY <2>1, <2>2, <2>3, LimitsStay
<1>11. CASE PollBranch \/ PollIgnored
    <2>1. UNCHANGED <<remote, mirror, ring, hooks>>
        BY <1>11 DEF PollBranch, PollIgnored
    <2>2. queue' = queue \/ (queue # <<>> /\ queue' = Tail(queue))
        BY <1>11 DEF PollBranch, PollIgnored
    <2>3. op'.ring \in {op.ring, ring}
        BY <1>1, <1>11 DEF PollBranch, PollIgnored
    <2> QED BY <2>1, <2>2, <2>3, LimitsStay
<1>12. CASE Consume
    <2>1. UNCHANGED <<remote, ring, queue, hooks>> /\ mirror'.ring = mirror.ring
        BY <1>0, <1>12 DEF Consume, Branches
    <2>2. op'.ring = ring
        BY <1>1, <1>12 DEF Consume
    <2> QED BY <2>1, <2>2, LimitsStay
<1>13. CASE Consumed
    <2>1. UNCHANGED <<remote, mirror, queue, hooks>> /\ ring' = Marked(ring, op.new.head)
        BY <1>13 DEF Consumed
    <2>2. op'.ring = <<>>
        BY <1>3, <1>13 DEF Consumed
    <2>3. op.new.head \in Nat
        BY <1>0, BusBoundsAssumption DEF Operation, Branch
    <2>4. Short(ring') /\ Short(<<>>)
        BY <1>0, <2>1, <2>3, MarkedShort, RingAssumption DEF Limits, Short
    <2> QED BY <2>1, <2>2, <2>4 DEF Limits, Short
<1>14. CASE ConsumeFails
    <2>1. UNCHANGED <<remote, ring, queue, hooks>> /\ mirror'.ring = mirror.ring
        BY <1>0, <1>14 DEF ConsumeFails, Branches
    <2>2. op'.ring \in {op.ring, <<>>}
        BY <1>2, <1>14 DEF ConsumeFails
    <2> QED BY <2>1, <2>2, LimitsStay
<1>15. CASE FlushState
    <2>1. UNCHANGED <<remote, ring, queue, hooks>> /\ mirror'.ring \in {mirror.ring, ring}
        BY <1>0, <1>15 DEF FlushState, Branches
    <2>2. op'.ring \in {op.ring, ring}
        BY <1>1, <1>15 DEF FlushState
    <2> QED BY <2>1, <2>2, LimitsStay
<1>16. CASE BusCrash
    <2>1. UNCHANGED <<remote, hooks>> /\ ring' = <<>> /\ queue' = <<>> /\ op'.ring = <<>> /\ mirror'.ring \in {mirror.ring, <<>>}
        BY <1>0, <1>16 DEF BusCrash
    <2> QED BY <2>1, LimitsStay
<1> QED BY <1>4, <1>6, <1>7, <1>8, <1>9, <1>10, <1>11, <1>12, <1>13, <1>14, <1>15, <1>16 DEF BusNext, LoopStep

\* Empty at first.
LEMMA LimitsInit == BusInit => Limits
<1> SUFFICES ASSUME BusInit PROVE Limits
    OBVIOUS
<1>1. /\ ring = <<>> /\ remote.ring = <<>> /\ mirror.ring = <<>> /\ op.ring = <<>>
      /\ queue = <<>> /\ hooks = {}
    BY DEF BusInit, NoOp
<1> QED BY <1>1, RingAssumption DEF Limits, Short

\* And that is what the invariant says.
LEMMA LimitsTypeOK == BusBase /\ Limits => BusTypeOK
BY DEF BusBase, BusShape, Limits, Short, BusTypeOK, Branches, Operation, LoopSteps

\* The shapes of the bus; the ring within its cap in memory, in every published copy, in
\* the mirror and in a commit under way, and the queue within its room, at every moment,
\* whatever is delivered and however often (MarkProcessed, OnPush).
THEOREM BusStaysWithinLimits == BusSpec => []BusTypeOK
BY LimitsInit, LimitsTypeOK, BusBaseInit, BusBaseNext, LimitsNext, PTL DEF BusSpec
=============================================================================
