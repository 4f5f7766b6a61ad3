-------------------------------- MODULE Bus ---------------------------------
(***************************************************************************)
(* The repository as the controller uses it (gitbus), the webhook receiver *)
(* (webhook) and the way from a trigger file to what is done about it      *)
(* (fsm).                                                                  *)
(*                                                                         *)
(* There is the remote, a mirror of it on the controller's disk, and at    *)
(* most one remote operation, which reaches the remote once, or never, and *)
(* whose answer may be lost, or come after the controller gave up on it    *)
(* (netOp; Gate has its steps).  The loop fetches, reads the triggers out  *)
(* of the mirror, deletes them in a commit it pushes without force, and    *)
(* only then acts on them; its own document it force-pushes to a branch of *)
(* its own.  Pushes come back as webhook deliveries: late, in any order,   *)
(* repeated, or not at all.                                                *)
(***************************************************************************)
EXTENDS Naturals, Sequences, FiniteSets

CONSTANTS
    File,           \* trigger names the loop knows
    RingCap,        \* ProcessedSHACap
    QueueCap,       \* eventBuffer
    BusFaults,      \* what goes wrong, see BusFaultKinds
    MaxCommits,     \* bound: commits the operator pushes
    MaxBusCrashes   \* bound: deaths of the controller

BusFaultKinds == {
    "net",          \* an operation fails and does not reach the remote
    "ack",          \* it reaches the remote and fails all the same
    "overrun",      \* it outlives the caller's deadline
    "crash"}        \* the process dies

ASSUME RingAssumption == RingCap \in Nat \ {0} /\ QueueCap \in Nat
ASSUME BusBoundsAssumption == MaxCommits \in Nat /\ MaxBusCrashes \in Nat /\ BusFaults \subseteq BusFaultKinds

VARIABLES
    remote,     \* the operator's branch, and the ring in the published document
    mirror,     \* the same branches in the mirror
    op,         \* the remote operation under way, and whether the loop waits for it
    step,       \* the loop: what it waits for, or does next
    ring,       \* Controller.ProcessedSHAs in memory
    pending,    \* the document has changed since it was published
    queue,      \* Machine.events: the SHAs of polls that wait
    hooks,      \* deliveries GitHub may make, again and again
    acted,      \* how often each request was acted on
    lost,       \* history: requests the operator replaced by a new one of that name,
                \* and those whose consuming commit got no answer
    asked,      \* history: the operator's commits, each a trigger or "content"
    busCrashes

busVars == <<remote, mirror, op, step, ring, pending, queue, hooks, acted, lost, asked, busCrashes>>

\* A branch is its head and, for each trigger file, the request in it; 0 is none.
\* The operator's commits, and the requests they make, are numbered; the one commit
\* of the controller's that the remote can accept on top of one has its number too.
NoFiles == [f \in File |-> 0]
Root == [head |-> 0, files |-> NoFiles]
NoOp == [kind |-> "none", base |-> Root, new |-> Root, ring |-> <<>>, state |-> "none", waited |-> FALSE]
Ours(head) == MaxCommits + head
NoOpRuns == op.kind = "none"
Requested(files) == {files[f] : f \in File} \ {0}

BusInit ==
    /\ remote = [main |-> Root, ring |-> <<>>] /\ mirror = remote
    /\ op = NoOp /\ step = "down" /\ ring = <<>> /\ pending = FALSE
    /\ queue = <<>> /\ hooks = {} /\ acted = [r \in 1..MaxCommits |-> 0] /\ lost = {}
    /\ asked = <<>> /\ busCrashes = 0

-----------------------------------------------------------------------------
(* The operator, GitHub and the webhook receiver.                          *)

Delivery(ref, sha, paths) == [ref |-> ref, sha |-> sha, paths |-> paths]

OperatorPushes(what, files) ==
    /\ Len(asked) < MaxCommits /\ asked' = Append(asked, what)
    /\ remote' = [remote EXCEPT !.main = [head |-> Len(asked'), files |-> files]]
    /\ UNCHANGED <<mirror, op, step, ring, pending, queue, acted, busCrashes>>

PushTrigger(f) ==
    /\ OperatorPushes(f, [remote.main.files EXCEPT ![f] = Len(asked) + 1])
    /\ lost' = lost \cup ({remote.main.files[f]} \ {0})
    /\ hooks' = hooks \cup {Delivery("main", Len(asked'), "triggers")}

\* Mods, the world, config.yaml: the branch moves, no trigger does.
PushContent ==
    /\ OperatorPushes("content", remote.main.files) /\ UNCHANGED lost
    /\ hooks' = hooks \cup {Delivery("main", Len(asked'), "content")}

\* Decide: the operator's branch, and a trigger or a watched file; a push too large
\* for GitHub to list its paths is one that may have them.
Decide(d) == d.ref = "main" /\ d.paths # "content"

\* OnPush: Send never blocks, and drops what does not fit.
Queued(q, sha) == IF Len(q) < QueueCap THEN Append(q, sha) ELSE q
Deliver(d) ==
    /\ step # "down" /\ Decide(d)
    /\ queue' = Queued(queue, d.sha)
    /\ UNCHANGED <<remote, mirror, op, step, ring, pending, hooks, acted, lost, asked, busCrashes>>

-----------------------------------------------------------------------------
(* Remote operations.                                                      *)

\* netOp: with the gate taken the operation is not begun.
Begin(kind, base, new) ==
    op' = [kind |-> kind, base |-> base, new |-> new, ring |-> ring, state |-> "sent", waited |-> TRUE]

\* What a push without force, a forced one and a forced fetch of every branch do.
Mirrored == remote
Bug_ForcesThePush == op.new
Landed == IF remote.main = op.base THEN op.new ELSE remote.main
Reach ==
    CASE op.kind = "fetch" ->
           mirror' = Mirrored /\ UNCHANGED <<remote, hooks>> /\ op' = [op EXCEPT !.state = "ok"]
      [] op.kind = "publish" ->
           /\ remote' = [remote EXCEPT !.ring = op.ring]
           /\ hooks' = hooks \cup {Delivery("state", 0, "content")}
           /\ op' = [op EXCEPT !.state = "ok"] /\ UNCHANGED mirror
      [] op.kind = "consume" ->
           /\ remote' = [remote EXCEPT !.main = Landed]
           /\ hooks' = IF Landed = op.new THEN hooks \cup {Delivery("main", op.new.head, "triggers")} ELSE hooks
           /\ op' = [op EXCEPT !.state = IF Landed = op.new THEN "ok" ELSE "moved"] /\ UNCHANGED mirror
OpReaches ==
    /\ op.state = "sent" /\ Reach
    /\ UNCHANGED <<step, ring, pending, queue, acted, lost, asked, busCrashes>>

OpFails ==
    /\ \/ op.state = "sent" /\ "net" \in BusFaults
       \/ op.state = "ok" /\ "ack" \in BusFaults
    /\ op' = [op EXCEPT !.state = "failed"]
    /\ UNCHANGED <<remote, mirror, step, ring, pending, queue, hooks, acted, lost, asked, busCrashes>>

\* An abandoned operation ends, and gives the gate back.
OpGone ==
    /\ ~NoOpRuns /\ ~op.waited /\ op.state # "sent" /\ op' = NoOp
    /\ UNCHANGED <<remote, mirror, step, ring, pending, queue, hooks, acted, lost, asked, busCrashes>>

\* What the loop gets: the operation's answer, or its own deadline.
Answers(what) == op.waited /\ op.state = what /\ op' = NoOp
OpLost ==
    /\ op.waited
    /\ \/ op.state \in {"moved", "failed"} /\ op' = NoOp
       \/ "overrun" \in BusFaults /\ op' = [op EXCEPT !.waited = FALSE]

-----------------------------------------------------------------------------
(* The loop: load, then polls, ticks and the flush timer.                  *)

LoadState ==
    /\ step = "down" /\ NoOpRuns
    /\ step' = "load" /\ Begin("fetch", Root, Root)
    /\ UNCHANGED <<remote, mirror, ring, pending, queue, hooks, acted, lost, asked, busCrashes>>
Loaded ==
    /\ step = "load" /\ Answers("ok")
    /\ ring' = mirror.ring /\ step' = "idle"
    /\ UNCHANGED <<remote, mirror, pending, queue, hooks, acted, lost, asked, busCrashes>>
\* Without its own document the controller does not start.
LoadFails ==
    /\ step = "load" /\ OpLost /\ step' = "down"
    /\ UNCHANGED <<remote, mirror, ring, pending, queue, hooks, acted, lost, asked, busCrashes>>

\* onPoll: a delivery already acted on is not worth a fetch; the timer always is.
Bug_OnlyDeliveries ==
    /\ step = "idle" /\ queue # <<>> /\ queue' = Tail(queue)
    /\ IF NoOpRuns THEN step' = "fetch" /\ Begin("fetch", Root, Root)
                ELSE step' = "flush" /\ UNCHANGED op
    /\ UNCHANGED <<remote, mirror, ring, pending, hooks, acted, lost, asked, busCrashes>>
PollBranch ==
    /\ step = "idle"
    /\ \/ UNCHANGED queue
       \/ queue # <<>> /\ queue' = Tail(queue) /\ \A i \in 1..Len(ring) : ring[i] # Head(queue)
    /\ IF NoOpRuns THEN step' = "fetch" /\ Begin("fetch", Root, Root)
                ELSE step' = "flush" /\ UNCHANGED op
    /\ UNCHANGED <<remote, mirror, ring, pending, hooks, acted, lost, asked, busCrashes>>
PollIgnored ==
    /\ step = "idle" /\ queue # <<>> /\ \E i \in 1..Len(ring) : ring[i] = Head(queue)
    /\ queue' = Tail(queue) /\ step' = "flush"
    /\ UNCHANGED <<remote, mirror, op, ring, pending, hooks, acted, lost, asked, busCrashes>>

Fetched ==
    /\ step = "fetch"
    /\ \/ Answers("ok") /\ step' = "read"
       \/ OpLost /\ step' = "flush"
    /\ UNCHANGED <<remote, mirror, ring, pending, queue, hooks, acted, lost, asked, busCrashes>>

\* consumeTriggers: everything found is deleted in one commit on top of the mirror's
\* head, which becomes the mirror's head before it is pushed.
Acts(found) == acted' = [r \in 1..MaxCommits |-> IF r \in found THEN acted[r] + 1 ELSE acted[r]]
Consume ==
    /\ step = "read" /\ mirror.main.files # NoFiles /\ step' = "consume"
    /\ mirror' = [mirror EXCEPT !.main = [head |-> Ours(mirror.main.head), files |-> NoFiles]]
    /\ Begin("consume", mirror.main, mirror'.main)
    /\ UNCHANGED <<remote, ring, pending, queue, hooks, acted, lost, asked, busCrashes>>
NothingToDo ==
    /\ step = "read" /\ mirror.main.files = NoFiles /\ step' = "flush"
    /\ UNCHANGED <<remote, mirror, op, ring, pending, queue, hooks, acted, lost, asked, busCrashes>>

\* MarkProcessed: the newest, once each.
Recent(seq) == IF Len(seq) > RingCap THEN Tail(seq) ELSE seq
Marked(seq, sha) == IF \E i \in 1..Len(seq) : seq[i] = sha THEN seq ELSE Recent(Append(seq, sha))

Consumed ==
    /\ step = "consume" /\ Answers("ok")
    /\ ring' = Marked(ring, op.new.head) /\ pending' = TRUE
    /\ Acts(Requested(op.base.files))
    /\ step' = "flush"
    /\ UNCHANGED <<remote, mirror, queue, hooks, lost, asked, busCrashes>>

\* Not acted on; the local head is put back.
Bug_ActsAllTheSame ==
    /\ step = "consume" /\ OpLost
    /\ mirror' = [mirror EXCEPT !.main = op.base]
    /\ Acts(Requested(op.base.files)) /\ UNCHANGED lost
    /\ step' = "flush"
    /\ UNCHANGED <<remote, ring, pending, queue, hooks, asked, busCrashes>>
ConsumeFails ==
    /\ step = "consume" /\ OpLost
    /\ mirror' = [mirror EXCEPT !.main = op.base]
    /\ lost' = IF op.state = "moved" THEN lost ELSE lost \cup Requested(op.base.files)
    /\ step' = "flush"
    /\ UNCHANGED <<remote, ring, pending, queue, hooks, acted, asked, busCrashes>>

\* flush: nothing to publish, too soon, or PutOrphan: the document becomes the
\* mirror's head of its branch, and is force-pushed if the gate is open.
FlushState ==
    /\ step = "flush"
    /\ \/ step' = "idle" /\ UNCHANGED <<mirror, op>>
       \/ /\ pending /\ mirror' = [mirror EXCEPT !.ring = ring]
          /\ IF NoOpRuns THEN step' = "publish" /\ Begin("publish", Root, Root)
                      ELSE step' = "idle" /\ UNCHANGED op
    /\ UNCHANGED <<remote, ring, pending, queue, hooks, acted, lost, asked, busCrashes>>
Published ==
    /\ step = "publish"
    /\ \/ Answers("ok") /\ pending' = FALSE
       \/ OpLost /\ UNCHANGED pending
    /\ step' = "idle"
    /\ UNCHANGED <<remote, mirror, ring, queue, hooks, acted, lost, asked, busCrashes>>

\* A tick, or the flush timer.
Wake ==
    /\ step = "idle" /\ pending /\ step' = "flush"
    /\ UNCHANGED <<remote, mirror, op, ring, pending, queue, hooks, acted, lost, asked, busCrashes>>

\* The mirror outlives the process or not; an operation that had not reached the
\* remote does not.
BusCrash ==
    /\ "crash" \in BusFaults /\ busCrashes < MaxBusCrashes /\ step # "down"
    /\ busCrashes' = busCrashes + 1
    /\ lost' = IF step = "consume" THEN lost \cup Requested(op.base.files) ELSE lost
    /\ mirror' \in {mirror, [main |-> Root, ring |-> <<>>]}
    /\ op' = NoOp /\ step' = "down" /\ ring' = <<>> /\ pending' = FALSE /\ queue' = <<>>
    /\ UNCHANGED <<remote, hooks, acted, asked>>

LoopStep ==
    \/ LoadState \/ Loaded \/ LoadFails \/ PollBranch \/ PollIgnored \/ Fetched
    \/ Consume \/ NothingToDo \/ Consumed \/ ConsumeFails
    \/ FlushState \/ Published \/ Wake
BusNext ==
    \/ \E f \in File : PushTrigger(f)
    \/ PushContent
    \/ \E d \in hooks : Deliver(d)
    \/ OpReaches \/ OpFails \/ OpGone
    \/ LoopStep \/ BusCrash

BusSpec == BusInit /\ [][BusNext]_busVars

-----------------------------------------------------------------------------
Branch == [head : 0..(2 * MaxCommits), files : [File -> 0..MaxCommits]]
BusTypeOK ==
    /\ remote \in [main : Branch, ring : Seq(Nat)] /\ mirror \in [main : Branch, ring : Seq(Nat)]
    /\ op \in [kind : {"none", "fetch", "consume", "publish"}, base : Branch, new : Branch, ring : Seq(Nat),
              state : {"none", "sent", "ok", "moved", "failed"}, waited : BOOLEAN]
    /\ step \in {"down", "load", "idle", "fetch", "read", "consume", "flush", "publish"}
    /\ ring \in Seq(Nat) /\ \A seq \in {ring, remote.ring, mirror.ring, op.ring} : Len(seq) <= RingCap
    /\ queue \in Seq(Nat) /\ Len(queue) <= QueueCap
    /\ acted \in [1..MaxCommits -> Nat] /\ lost \subseteq 1..MaxCommits

\* Nothing an operator asks for is done twice: not because its push was delivered
\* again, its consuming commit timed out and landed after all, or the controller died
\* between deleting the file and remembering that it did (consumeTriggers).
ActedOnce == \A r \in DOMAIN acted : acted[r] <= 1

\* Every request is still on the branch, or being consumed, or was acted on; the ones
\* that are none of these were replaced by a later one of the same name, or their
\* consuming commit got no answer - which is the only way to lose one.
NoneForgotten ==
    \A r \in DOMAIN asked : asked[r] # "content" =>
        \/ acted[r] > 0 \/ r \in lost
        \/ remote.main.files[asked[r]] = r
        \/ op.kind = "consume" /\ op.waited /\ op.base.files[asked[r]] = r

\* go-git is not safe for concurrent use of one repository: triggers are read only
\* when no fetch, abandoned ones included, is still writing to the mirror (netOp).
ReadsAreQuiet == step = "read" => NoOpRuns

\* A restart resumes from what is published, whatever the mirror kept of a push that
\* failed: a state branch holds local commits the remote never saw until the next
\* fetch takes them back (PutOrphan, fetch).
ResumesFromPublished == [][Loaded => ring' = remote.ring]_busVars

\* A trigger is seen to whether its delivery came, came twice, was dropped from a
\* full queue or never came at all: the poll loop asks on its own schedule.
TriggerIsSeenTo == \A f \in File : remote.main.files[f] # 0 ~> remote.main.files[f] = 0
=============================================================================
