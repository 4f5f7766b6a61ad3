# Verification of pzctl

`pzctl` runs a Project Zomboid server on the Akash network. A long-lived
*controller* buys a deployment when the operator asks for a server, an *agent*
inside that deployment runs the game, and the two talk through documents on git
branches. Real money is spent while a deployment is open, and the world is lost
when it is closed without a backup; almost everything that can go wrong does so
between two processes, a slow provider and a git remote. This directory holds the
TLA+ models of that machinery, the TLC runs that check them and the proofs TLAPS
checks.

    tlc -workers 2 -config MCController_money.cfg MCController
    tlapm ControllerLeases.tla
    tlc -workers 2 -config MCAgent_safety.cfg MCAgent
    tlapm AgentSafety.tla
    tlc -workers 2 -config MCParts_parts.cfg MCParts
    tlc -workers 2 -config MCLive_live.cfg MCLive
    tlapm BackupsProofs.tla

All source paths below are relative to `src/pzctl/internal/` unless they say
otherwise.

## 1. Inventory

| Component | State | Operations | Talks to | What makes it correct |
| --- | --- | --- | --- | --- |
| Documents (`state`) | `controller.json`, `agent.json`, `backups.json` | the transition table, requests, answers, the processed-SHA ring, repair on read, retention | everyone reads them | only legal status changes; a request answered once, by its own answer; the newest archive never expires; a damaged file never makes a running server forgotten |
| State machine (`fsm`) | the document, the agent's last report, the job in flight, attempt counters | poll, tick, deploy result, close result, publish, start up, shut down | git, provider, store, agent (through git) | one deployment at most, none forgotten, every operation ends, no stale report believed |
| Akash driver (`akash`) | skip list | Deploy, Quote, Close, Alive, Adopt, Escrow, TopUp, SelfURL, bid selection | the Console API and providers | the dseq of whatever was created is handed up whatever failed later; the bid taken is a good one; close is idempotent |
| Agent (`agent`) | phase, intent, lease, restarts, parked, answered requests, the game process, the backup job | boot, reconcile, process events, backup, park, publish | git, controller's HTTP API, the game | a halt is never undone, a request is answered once, a parked phase means parked |
| Git bus (`gitbus`) | a mirror, the gate, the SHAs pushed | fetch, orphan publish, fast-forward commit | the remote | one writer per branch; an abandoned operation keeps everybody else out |
| Store and HTTP (`httpapi`) | archives on disk, their index, attempt counters | put, open, prune, rescan, unlock | agent, operator, fsm | the index is the directory; no half-written archive has a name; attempts stay bounded |
| Funds (`fsm/funds.go`) | time of the last check | read the escrow, top up | provider | a lease that bills does not run dry; no deposit without a reason |
| Routes (`fsm/self.go`, `agent/client.go`) | the controller's address, the agent's bases | discover, publish, learn, call, retry | provider, git, HTTP | no single address decides |
| DNS (`dns`) | the zone's records and rules | sync, clear | Cloudflare | converges after a sync that failed half-way; other people's records are left alone |
| Webhook (`webhook`) | none | verify, filter, hand to the loop | GitHub, fsm | our own pushes never re-enter |
| Command line (`cmd/pzctl`) | none that lasts | deploy with retries, sync DNS, adapt driver and DNS to the loop | provider, Cloudflare | never two attempts open at once; the game's name follows the server |
| `sdl`, `config`, `secrets`, `denom`, `dashboard`, `bootstrap` | none of the lifecycle's | parse, validate, render, wire up | | functions of their input |

How they interact. The loop is one goroutine (`Machine.Run`): polls (fetch, read
the agent, take triggers, advance), ticks, results of the one *job* goroutine that
talks to the provider, and a timer for publishes that were put off. The agent is
another process on another machine; it reads the controller's branch and writes
its own. The operator pushes files to a third branch. The provider's view of what
is deployed changes under all of them.

What is hard here: a crash between any two of these steps; a report that outlives
the container that wrote it; results, halts and retries that cross; answers the
provider or git never delivers; timeouts that race a late answer; and an operation
that must end although nobody answers. `PROJECT.json` lists each hazard at its line.

## 2. Plan

Order, most important first.

1. **`Lifecycle`, `Controller`** - the loop with everything it acts on, and the
   abstract **`ServerLedger`** it promises. *Done, checked and proved.*
2. **`Agent`** - the supervisor's own loop, and **`Reporter`**, what the loop assumes of
   it. *Done, checked and proved, the refinement of one by the other included.*
3. **`Backups`** - store, index, retention, restore target and pin, agent reports
   and prunes in any order. *Done, checked and proved.*
4. **`Gate`** and **`Bus`** - the lock that abandoned operations keep; commits, refs,
   lost acknowledgements, deliveries, the ring and the queue. *Done, checked and
   proved; that a trigger is seen to is checked under fairness.*
5. **`Driver`** - bids, settle window, skip list, request retries, sweeps, and the
   command line's deploy. *Done, checked and proved.*
6. **`Dns`, `Funds`, `Limiter`, `Documents`, `Routes`** - the smaller machines. *Done, checked
   and proved.*

Left for later: a `System` module with the real `Agent` inside `Controller`, and in it a
halt followed from the operator's push to the closed lease; the same for the provider, git
and store of `Controller`, whose places `Driver`, `Bus` and `Backups` would take.

## 3. The modules

| Module | What it is |
| --- | --- |
| `Lifecycle` | `state/doc.go` and the part of `state/controller.go` that steers: statuses, phases, the transition table, and the mutators as operators from a document to a document |
| `Controller` | `fsm` in full control flow, with git, the provider, the agents and the operator around it; `Spec` |
| `ControllerProps` | invariants, action properties, fairness, liveness, the refinement mapping |
| `ServerLedger` | the abstract promise: one deployment at a time, each paid for by an ask |
| `MCController` | model values and symmetry for TLC; the safety runs |
| `ControllerSafety`, `ControllerLeases` | the theorems: those of any world, and those of a disciplined one (deployments, reports, the refinement) |
| `Agent` | `agent` in full control flow: boot, the loop, the game and its goroutines, the backup goroutine, container and lease around it |
| `AgentProps`, `MCAgent` | its properties and fairness, and the mapping to `Reporter`; model values and symmetry |
| `Reporter` | the agent as `Controller` assumes it; `Agent` refines it |
| `AgentSafety` | the theorems about it |
| `Gate` | `Repo.netOp` of `gitbus`: the lock, the goroutine, the deadline and the channel |
| `Bus` | `gitbus` and `webhook` with the loop's way from a trigger file to an act, and its publishes |
| `Backups` | `httpapi`'s store, `state`'s retention, and what `fsm` decides about restores and prunes |
| `Driver` | `akash` from the shopping list to the lease, the sweep, and `cmd/pzctl`'s retry loop |
| `Dns` | `dns` request by request, its two users, and people who edit the zone |
| `Funds` | `fsm/funds.go` with the escrow it reads and fills |
| `Limiter` | `httpapi`'s limiter of password attempts |
| `Documents` | `state/codec.go`, `state/normalize.go`: reading damaged documents, and what a start makes of them |
| `Routes` | `fsm/self.go`, `akash/self.go`, `agent/client.go`: the controller's addresses and the agent's way to it |
| `Filter` | what a loop that appends the entries it keeps has kept: used by `Dns` for rules and by `Documents` for the ring |
| `BusProofs`, `DriverProofs`, `BackupsProofs`, `DnsProofs` | the theorems about `Gate` and `Bus`, `Driver`, `Backups`, `Dns` |
| `PartsProofs` | the theorems about `Funds`, `Limiter`, `Routes`, `Documents`, and about `MCParts` |
| `MCParts` | the nine modules above side by side, for TLC: a behaviour is one of one part |
| `MCLive` | the loop and the bus side by side, each under its own fairness |

### How `Controller` corresponds to the code

| In the model | In the code |
| --- | --- |
| `doc`, `pub` | `Machine.doc` and `controller.json` on its branch |
| `clock` | whether `Since` and `RequestedAt` are older than their timeouts; `SetDoc` makes them young again when what they stamp changes |
| `report`, `mem.seen` | `agent.json` on its branch, and `Machine.agentRaw`, the copy of the last read |
| `triggers`, `mem.acts` | trigger files on the operator's branch; those consumed and not yet acted on |
| `job` | `Machine.job` together with what its goroutine knows and has returned |
| `mem.attempts`, `mem.closes` | `deployAttempts`, `closeAttempts` |
| `dep`, `agent` | the provider's deployments; the agent inside each |
| `pc` | the step of the current handler that comes next |
| `budget`, `answeredBy` | history: nothing reads them but the properties |

A handler is cut where the rest of the world can interfere, or where a crash would
leave a different trace: between consuming triggers and acting on them, between
deciding to deploy and the publish that puts it on record, between that and the
job, between `advance` and the publish at the end. Between two cuts the loop touches
only its own memory, so one action stands for all of it. `Crash` may happen at every
cut: memory is lost, the document reverts to what was published, the job's goroutine
dies with its process, and what it did at the provider remains. (A create request
still in flight at the crash that lands later is the case of a deployment the next
listing does not show: fault `adopt`.)

The controller's document keeps the fields some decision reads: status, intent, the
lease's dseq, the outstanding request's identity, whether a stop is scheduled. Prices,
endpoints, URLs, error texts and wording steer nothing here. Stamps become two
booleans, which may turn true at any time; `TimePasses` lets the stopping budget run
out only after `halt_timeout`, of which it is a sum with more terms
(`fsm/advance.go:131`). A publish at the end of a handler may be put off by
`min_push_interval` or fail, and both are followed by the same timer.

The agent inside a deployment is deliberately weak: it may read the controller's
document or not, move between phases in any order (there is no transition table for
phases), take up a request it sees, answer it later whatever was asked since, and publish -
so that nothing proved of the controller depends on how well an agent behaves. A timed-out,
failed and successful backup answer are one: `settleBackup` treats them alike for the
lifecycle. An agent that boots knows the lease its controller names and the answer on the
branch, be that another lease's, or nothing if the document cannot be read; a container boots once,
or under fault `restart` at any time, and forgets what it had not published.

That the supervisor is such an agent is checked and proved, not assumed: `Agent` refines
`Reporter` (`ReportsAsAssumed`), with `job` as what it has taken up, the answer in
`mem.backup` as what it answered, `mem.lease` as the lease it reports for, and the writer
of its document as `by`. A step of `Reporter`, `Speaks`, is a sequence of `Controller`'s:
`AgentBoots` if the container is new, `AgentReads`, `AgentMoves`, one of `AgentBegins` and
`AgentAnswers` or neither, `AgentPublishes`. Where `Reporter` lets a container die the
agent in `Controller` stays as it was until `AgentBoots` under `restart`, or until its
deployment is gone. What the controller makes of its own document and of deployments is
`Reporter!Others`.

Faults are a constant: `Faults` is the subset of `FaultKinds` an instance allows, and
each fault enlarges the outcomes of the action it belongs to. The operator is a
client too: under `eager` a start may be pushed at any time; otherwise the operator
waits until the document on the branch says offline or failed, which is what the
dashboard invites.

### How `Agent` corresponds to the code

| In the model | In the code |
| --- | --- |
| `mem` | the `Agent` struct: `doc.Phase`, `doc.Backup`, `restarts`, `intent`, `leaseDSeq`, `parked`, `answered`, `pending` (empty or not), `pz`; `relaunch` is the loop's armed timer |
| `own`, `ctrl` | the agent's document and the controller's, as published |
| `pc` | no process; in `boot` before or after the restore began; in `loop` |
| `procs` | each process of the container: alive, reaped with its exit not sent, gone; and whether its banner was read and sent |
| `events` | `Agent.events`, in the order in which the two goroutines sent |
| `job` | `Agent.backup` and its goroutine |
| `host`, `drawn`, `deaths` | the lease the container runs on; identities used; the bound on deaths |
| `log` | history for the properties: answers published, who wrote the document, the intent read at boot, relaunches, whether a count was lost |

Each arm of the `select` of `loop` is an action, with the handler it calls and the
publish that ends the iteration; what a handler starts on a goroutine of its own (a
stop, a backup) ends in a later action. `Publish(m, forced, l)` is the push of a handler
that leaves memory `m`: done, or put off by `min_push_interval`, or (fault `publish`)
failed. A failed fetch leaves everything as it is. `pz.Running` asks whether the process
was reaped, which happens before the exit is sent: `Up` and the waiter's action are
apart. A banner that was read before the end may be sent after the exit: a slot in
`procs` stays taken by it (`Leftover`).

The controller here is its document: `Deploy`, `RecordLease`, `AskBackup`, `Halt`,
`ClearRequest` and `CloseLease` change it as `fsm` does, and in any order their guards
allow. A container that died is restarted at once or later (`Resume`); a new lease
begins with a new container and the old container's document still on the branch. SIGTERM
(`shutdown`) and a kill are one: what the dying process saves on its disk is not state
of the lifecycle.

### How the smaller machines correspond to the code

`Gate`. `gate` is `Repo.gate` with its holder, `worker` the goroutine `netOp` starts
(running, its gate released, its answer sent) and the slot of its channel, `ended` its context. The
caller's `select` chooses among what is ready. Releasing the gate, sending the answer and
cancelling are three steps in the order `netOp` gives them, which is what its comment on
three orderings is about.

`Bus`. `remote` and `mirror` hold the operator's branch as commits (their files, by the
identity of the push that put them there) and the ring in the published document; `op` is
the operation under way and whether the loop still waits for it. An operation reaches the
remote or not, and its answer comes, is lost (`ack`) or comes after the caller gave up
(`overrun`). `step` is where `onPoll` is: fetch, read, consume, act, publish. `Deliver` is a
webhook delivery of a push, any number of times and in any order; `Queued` drops it at a full
queue; `Decide` ignores what is in the ring. Content pushes and trigger pushes are told apart,
what a trigger says is not.

`Backups`. `disk`, `idx` and `scan` are the directory, `Store.idx` and a listing that has
been read and not yet indexed (it holds `Store.mu`); `req` the requests in progress, cut at
each step that does not hold the lock: body, rename, listing for an upload; look, open,
serve for a download. `goal` is `RestoreTarget` with `RestorePinned`; `loop` the prune
between its decision and its last removal. `branch` is what of it is published, to which a
`Restart` reverts. A digest is the content, or `unread` when a file changed while it was read;
a clock in days is what retention sees. `blind` and `unlisted` are history: a listing failed and
none has succeeded since, now or when the prune was decided.

`Driver`. `job` is a call of `Deploy` or `Quote` with what it knows, `chain` what the provider
has, `market` the bids; `known` what was handed up to somebody who can close it, `strays` what
a lost answer or the death of the process left behind. The settle window, the deadline (`due`)
and the skip list count polls down. The caller of a deploy closes and tries again, or ends (`NextAttempt`). `sweep` is
`Adopt` reading deployments one at a time.

`Dns`. Each client (the loop's task, an operator's command) is a list of stages; every request
fails, works, or works and fails (`Request`). A sync reads before it writes, record by record.
`alone` says that nobody else wrote to the zone since the task began: what
another hand undoes after the read no sync can promise. The three settings of the zone
(`ssl`, `browser_check`, `security_level`) are one boolean, read and written once: they are
brought into line one after the other in the same way, and no property tells them apart.

`Funds`. `escrow` falls by the price as time passes; `checked` is `lastFunds`. The numbers are
whole: a price per unit of time, a margin in percent. Reading the escrow and depositing are
one step: `topUpEscrow` does both in one call on the loop, which is also the only writer of the lease, so
the record cannot change in between (what the provider does to the lease meanwhile is
not seen). `Documents`. `raw` is the file as fields
of which some are damaged; `Decode`, `Normalized` and `Load` are what reading, repairing and
starting make of it, in the code's order; one field, or one file, is damaged at a time. A file
that is absent is read as never published. A change and its publication are one step here,
since `Controller` has them apart. `Limiter`. Taking, comparing and penalising are three steps
of an attempt. `Routes`. `place` is where the controller answers, `self` what it found of
that, `urls` what it published, `known` what the agent read, `routes` the bases of its client; a
call tries route after route (`RouteOf`) and ends for good, or again, as `permanent` says.

## 4. What TLC checks

| Run | Question | Result |
| --- | --- | --- |
| `money` | Can there be two deployments, or one nobody knows of? Does a lease stay on record until it is closed? Is the ask published first? Does the loop keep the ledger? | holds |
| `reports` | Can a boot or a backup be settled by somebody else's word, with containers that restart and take up former answers? | never |
| `faults` | With every fault: does a launch outlive its authorisation, do job and document disagree? | never |
| `live` | Does every operation end, is every halt carried out, and is a trigger seen to although its delivery is lost? | yes |
| `parts` | Each of the nine smaller machines by itself, with its faults (below) | holds |
| `failed` | Is a lease that bills under *failed* closed, as the comment says? | **no**, finding 1 |
| `eager` | Is there one deployment if starts are pushed at any time? | **no**, finding 2 |
| `adopt` | Does offline mean nothing is billing? | **no**, finding 3 |
| `agent` | Is there one game, does a halted container stay down, are crashes bounded, reports attributed, sessions archived before a stop, requests archived once? | yes |
| `agent_live` | Is every halt carried out and every request answered, whatever the agent was doing? Is the supervisor the agent `Controller` assumes? | yes |
| `agent_decides` | Is the game launched only while the intent that was read is running? | **no**, finding 4 |
| `agent_parked` | Does *stopped* mean exited and parked? | **no**, finding 5 |

What `parts` asks, machine by machine:

| Machine | Property | In words |
| --- | --- | --- |
| `Backups` | `IndexAgrees` | once nothing is under way, the index is the directory |
| | `Restorable` | the archive the next boot is sent to is on the disk, and no prune takes the last one, while listings succeed |
| | `PinHolds` | only the operator moves a pin |
| `Gate` | `GateMeansRunning` | who runs has the gate, so no two do |
| | `TimeoutMeansLate` | a timeout is never reported in the place of an answer that was there |
| `Bus` | `ActedOnce`, `NoneForgotten` | a request is acted on once at most, and lost only when the operator replaces it or the push that consumes it gets no answer |
| `Driver` | `NothingUnaccounted` | every open escrow is on record, in hand, or left by a lost answer or a death, and then swept up |
| | `OneAttemptOpen` | no attempt on top of another |
| | `TakesAGoodBid` | cheap enough, near, not at rest, of the right kind |
| `Dns` | `SuccessMeansRight` | a sync that says so has made it so, whatever it found |
| | `OthersUntouched` | a name is never emptied on the way, and what is not ours stays |
| | `NameFollowsServer` | the game's name is the running server's address, or nothing |
| `Funds` | `RunwayKept`, `SpendsWithReason` | a lease does not run dry while checks get through, and no deposit is needless |
| `Limiter` | `RateBounded` | attempts stay bounded with a full table and concurrent requests |
| `Documents` | `DamageIsSeen` | one damage costs one field, and never a running server |
| `Routes` | `EveryRouteTried` | no call gives up for good before each route was tried |

Bounds. Two deployments (`DSeq`) are what it takes to have one too many, a stale
report, and a retry; two request identities what it takes to have a stale answer.
`MaxDeployAttempts` and `MaxCloseAttempts` are 2: below, at and over the limit are
reached; `live` has one close at a time, of which one may fail and one be cut off by a
crash. `reports` leaves out `stop_at`, which asks no agent anything and is in `faults`, and of
the parked phases has *restore_failed*, the only one `advance` tells apart; *stopped* is in
`money` and `faults` (`reports` was run with it too: 4.5 million states, no violation). `MaxPushes` 2 or 3 gives start-halt-start; `MaxCrashes` 1 gives a crash at
every cut of every behaviour, and the proofs remove both bounds for safety.
`AgentPhases` holds the phases the run's decisions tell apart: a run needs only
one of those `advance` treats alike. Deployments and requests are symmetric
(`Symmetry`), used for safety only. Each instance is exhausted: 0.1 to 2.8 million
distinct states. Deadlock is checked in all of them: the loop always ticks.

`parts`: the machines share no variable, so one run explores them side by side and its
states are the sum of theirs, 1.1 million. Two names and two uploads with retention of one
give a prune that races an upload, a tie and a last archive (`Restorable` and `IndexAgrees`
were also checked with four uploads: 3 million states; the proofs remove the bound). A ring
and a queue of one overflow at once; two commits of the operator's give one that comes while
the other is consumed. Two providers, of which the nearer has the address, and two prices tell
a good bid from a bad one; two deployments are a retry. Seven record ids, none used twice, of which an
earlier version left three and a stranger one, are a zone that has to converge. Prices 0, 1 and 3 against
a minimum deposit of 2 put the balance on both sides of the floor and on it. Two attempts at
once are the fewest that exceed the limit by one. One damage at a time is what the repair
promises to survive (`MaxSpoils`). Two places and one move give a stale address, and three
attempts reach each of two routes and wrap. Deadlock is not checked: their clocks and budgets
run out. `live` bounds the bus by one commit, since `TriggerIsSeenTo` is about one trigger and
every fault may precede it.

For the agent, two leases give a document left by another lease; one request is enough
to be answered twice or lost, and the proofs remove the bound; two process slots let a
banner or an exit of one process cross with the next one (a second live process would
fit, so `OneGame` is not the bound's doing); `MaxRestarts` 1 reaches a relaunch and a
budget that is spent; one death of the container may fall anywhere. `events` is bounded
by the slots. 0.15 to 2.6 million distinct states. `agent_live` has one lease, with which
`ReportsAsAssumed` holds in a few minutes; two leases were tried as well, and
`SupervisorIsTheAgent` is for any number. Deadlock is not checked: once all
leases are drawn and the last is closed nothing is left to happen.

Every property has a mutant, a definition named `Bug_...` that stands beside the one it
would replace and is used by nothing: the lease recorded on success only, a publish put
off, a start that ignores the recorded lease, a report believed whichever lease it is
of, a retry without a limit. Each makes TLC refute its property.

Fairness (`Fairness`), and why the code justifies it. A handler that began runs to
its end, and a process that died is restarted (`WF` of `Handler`; the deployment's
supervisor restarts the container). A job ends, because each has a context with a
deadline and each request a timeout (`WF` of `JobStep`). Time passes. The `select` of
`Machine.Run` chooses at random among the events that are ready, so an event that is
ready again and again is taken: `SF` of the tick, of job results and of the flush timer.
Nothing is assumed of the operator, of the agents, or of the provider's good will: in
`live` the agent may stay silent for ever and closes may be refused.

On the bus's side of `live` (`LiveFairness`): the loop runs (`WF` of its steps; a dead
process is restarted), an operation that was given up on ends, because the transport has its
own timeouts (`WF` of `OpGone`), a fetch and a consume that are tried again and again reach
the remote with an answer now and then (`SF`), and the poll timer is taken from the `select` (`SF` of
`PollBranch`). No delivery need ever arrive, and an operator may push at any time.

`AgentFairness`: the container is restarted and its boot is bounded by timeouts (`WF` of
`Resume` and `Booting`); a process that ended is reaped and its exit sent, and one told to
quit ends, because `pz.Stop` escalates to a kill (`WF`); the `select` of `loop` takes an
event, a finished backup, a tick that are ready again and again (`SF`); and among the
unconditional liveness pushes one succeeds now and then (`SF` of `Pushes`). Nothing is
assumed of a game nobody told to quit, of the controller, or of the relaunch.

## 5. What is proved

For every value of the constants - any number of deployments, requests, pushes,
crashes and attempts - with TLAPS:

| Theorem | States | Assumes |
| --- | --- | --- |
| `TypeCorrect` | `[]TypeOK` | - |
| `JobAlwaysMatches` | `[]JobMatchesStatus` | - |
| `LaunchesAreAuthorised` | `[]LaunchAuthorised` | - |
| `OneDeploymentAlways` | `[]OneDeployment` | `Disciplined` |
| `NothingIsForgotten` | `[]NothingForgotten` | `Disciplined` |
| `LeaseIsKeptUntilClosed` | `LeaseKeptUntilClosed`, an action property | `Disciplined` |
| `AskAlwaysOnRecord` | `[]AskOnRecord` | `Disciplined` |
| `LedgerIsKept` | the loop refines `ServerLedger` | `Disciplined` |
| `AgentTypeCorrect` | `[]AgentTypeOK` | - |
| `OneGameAlways` | `[]OneGame` | - |
| `HaltedAlwaysStaysDown` | `[]HaltedContainerStaysDown` | - |
| `CrashLoopAlwaysBounded` | `[]CrashLoopBounded` | - |
| `AttributionAlways` | `[]AttributedToItsOwnLease` | - |
| `AlwaysAnsweredOnce` | `AnsweredOnce`, an action property | - |
| `SessionAlwaysArchivedFirst` | `SessionArchivedBeforeStop`, an action property | - |
| `SupervisorIsTheAgent` | `ReportsAsAssumed`: the supervisor refines the agent `Controller` assumes | - |
| `GateIsTheOperation` | `[]GateMeansRunning` | - |
| `TimeoutsAreTrue` | `TimeoutMeansLate`, an action property | - |
| `RequestsAreServedOnce` | `[]ActedOnce` | - |
| `RequestsAreKept` | `[]NoneForgotten` | - |
| `MirrorIsReadAlone` | `[]ReadsAreQuiet`: triggers are read only when no operation runs | - |
| `RestartResumes` | `ResumesFromPublished`: a start goes on from the remote's document | - |
| `EscrowsAreAccountedFor` | `[]NothingUnaccounted` | - |
| `AttemptsFollowCloses` | `[]OneAttemptOpen` | - |
| `BidsAreGood` | `[]TakesAGoodBid` | - |
| `ArchivesAreThere` | `[]Restorable` | - |
| `IndexIsTheDirectory` | `[]IndexAgrees` | - |
| `PinsHold` | `PinHolds`, an action property | - |
| `StampsAreKept` | `StampKept`, an action property: that a copy was downloaded is not forgotten by an upload, a rescan or a prune, nor, once published, by a restart | - |
| `BootIsJudgedByItsOwnAgent` | `BootJudgedByItsOwnAgent`, an action property | `Disciplined` |
| `BackupIsSettledByItsOwnAnswer` | `BackupSettledByItsOwnAnswer`, an action property | `Disciplined` |
| `NameFollowsTheServer` | `[]NameFollowsServer` | - |
| `SuccessIsRight` | `SuccessMeansRight`, an action property | - |
| `OthersAreLeftAlone` | `OthersUntouched`, an action property | - |
| `RunwayAlwaysKept` | `[]RunwayKept` | `IntervalDefends` |
| `DepositsHaveReason` | `SpendsWithReason`, an action property | - |
| `AttemptsAreBounded` | `[]RateBounded` | - |
| `NoSingleAddressDecides` | `[]EveryRouteTried` | - |
| `DocumentsAreSound` | `[]DocumentsTypeOK`: what is in memory is a fixed point of the repair | - |
| `DamageIsAlwaysSeen` | `DamageIsSeen`, an action property | - |
| `GateTypeCorrect`, `BusStaysWithinLimits`, `DriverTypeCorrect`, `BackupsTypeCorrect`, `DnsTypeCorrect`, `FundsTypeCorrect`, `LimiterTypeCorrect`, `RoutesTypeCorrect` | the type invariant of each machine; the bus's caps the ring wherever it is (in memory, in a commit under way, in the mirror, on the remote) and the queue | - |
| `PartsTypeCorrect` | `[]PartsTypeOK`: the machines as `parts` runs them | - |

`-` means: whatever `Faults` (or `AgentFaults`) is. `Disciplined` excludes exactly five of the eleven
faults (failed urgent pushes, unreliable listings, lost answers to creates, corrupt documents,
eager starts) and has `akash.adopt_unleased` on; crashes, refused fetches, refused or
unanswered closes, an API that does not answer, leases that die and containers that restart
remain. It is
needed: `eager` and `adopt` are counterexamples without two of its parts. `IntervalDefends`:
checks are made at all, and more often than the horizon and the first deposit last
(`DeployDays` and `Deposit` are whole days, the interval is ten minutes unless configured;
`config/validate.go:442` asks only that it is positive).

The assumptions on constants say what a configuration or a library gives: paths, names and
model values that stand for different things are different, bounds are numbers, a margin is a
hundred percent or more. Two say more. `RecordsAssumption` (`Dns`): in a zone as it is found, and in what
people add, an address is of its own type, which Cloudflare sees to. `UnsetAssumption`
(`Documents`): a field that is missing is unlike every value it could have had. TLC evaluates all of
them on the instances of the runs.

The arguments.

* *Jobs.* `JobMatchesStatus` is inductive with one more fact: a controller that is down
  has no job. Every handler either leaves status and lease alone while a job runs, or
  ends it. `ControllerSafety` shows it per operation on documents first (`HaltFacts`,
  `StartFacts`, `BackupFacts`), then per action.
* *Authorisations.* `LaunchAuthorised` alone is not inductive: a retry is decided from
  `deployAttempts` and the intent. `CreditInv` says that while the intent is running, what
  the ask still authorises and what has been used make up the limit.
* *Money.* `MoneyInv` adds to the three invariants what a crash needs: whatever can run
  a server is known (`HeldKnown`) and can be found from the *published* document (`FoundAgain`), since that is all a
  restarted controller has; a launch is reached only with empty hands (`LaunchClear`); a
  start that waits meets a settled document (`StartsSettled`); while deploying no lease is
  on record. TLC checked it as an invariant of `money` before it was proved. Each handler
  either keeps the recorded lease, or makes no more held than before, and three lemmas for
  these shapes (`MoneyWrite`, `MoneyLeaseKept`, `MoneyShrinks`) carry most actions.
  An open deployment holds escrow (`Escrowed`) although its lease is dead, and of those
  `MoneyInv` says nothing. `EscrowInv` does: what is on record was created (`RecordsExist`), a
  close that is reported to have worked did (`CloseDone`), and in the first life of the process a dead
  lease is on record too (`DeadKnown`), because until a death every document is about what
  this process did (`FirstLife`). It was checked in `money` first as well, and gives both
  `NothingIsForgotten` and `LeaseIsKeptUntilClosed`.
* *Refinement.* `held` is what can run a server, `credit` the unused launches including
  one in a job's hand that has created nothing yet. A create is `Acquire`, a close or a
  dying lease `Release`, a start `Authorise`, everything that stops `Forgo`; all other
  steps stutter.

* *The agent.* `AgentInv` is the conjunction of five invariants, each of which TLC checked
  first. `TokenInv`: there is one right to run a game; a live process has it, or the exit
  of it in the queue, or the backoff that exit armed. `OneGame` alone says nothing of the
  latter two, and a relaunch would break it. `HaltInv`: who booted into a halt is parked.
  `LeaseInv`: a lease that is known, to the controller or the agent, is the one the
  container runs on. `CountInv`: a relaunch was paid for by a counted restart, in memory
  or, with the process gone, on the branch. `AnswerInv`: requests are drawn before anything
  speaks of them, and a settled one that still stands is the one the document answers,
  so a new process knows it. Every step of the supervisor has one of four shapes
  (`SupervisorShapes`: resumes, speaks, takes an exit, launches); the invariants are shown
  per shape, then for the goroutines, deaths and the controller.

* *The agent Controller assumes.* `BlankInv` says that where no process runs nothing is
  remembered, which a boot in `Reporter` begins from, and that none runs outside a
  deployment. Each shape of the supervisor's step is one `Speaks`: resuming is a boot, a
  backup taken up or finished is `Begins` or `Answers`, the rest moves phases. Goroutines,
  deaths and the controller are `Others`, or stutter.

* *The gate.* `GateInv`: besides the property, a context is done because its deadline passed,
  the process stops, or an answer is in the channel already (`DoneForAReason`), and a caller that
  gave up saw it done.
* *The bus.* `BusInv` ties the requests to the commits: what the loop read is still on the
  branch, or the operator moved on and what was replaced counts as lost (`ReadsTheBranch`), a request not acted on is where it was put or in the commit
  under way (`Pending`), and one in an abandoned commit is counted as lost before it lands
  (`AbandonedIsLost`) - without which a push that lands late would break `NoneForgotten`.
* *The driver.* `DriverInv` adds to the property that former attempts are closed, and that a
  sweep under way has found every stray it has passed. `TakesAGoodBid` needs that a
  cheapest bid and a closest in the band exist at all: a `CHOOSE` says nothing otherwise.
  `LeastNat` gives it from the library's theorem on minimal elements, `LeastOf` lifts it to
  prices and distances, and `SelectsAGoodBid` is the pure lemma the invariant cites.
* *The store.* `BackupsInv` says who owns the lock, that when nothing is
  half-way a listing is of the directory as it is and the index is the directory (`ListFresh`,
  `IndexFresh`), that a name in either and not on the disk is one a prune took that is not over,
  and not the target (`ListGhosts`, `Ghosts`), that
  a prune spares the target (`Spared`) and leaves one (`LeavesOne`). The proof attempt showed
  why `blind` is there: with four uploads a prune decided on an index whose listing had failed,
  overtaken by an upload's good listing, still takes the last archive. `Restorable` claims
  nothing of such a prune.

* *Reports.* `ReportsInv`: a report is told by who it names (`OwnName`); a document whose
  status is that of a running server has its lease (`ServersLeased`); each request is, and was, about
  one deployment (`OneOwner`), which needs that an identity nobody drew concerns nobody
  (`Drawn`); and an answer was given by somebody who took the request (`AnswersTaken`), however
  often it was copied. `OneOwner` holds because a request is dropped with its lease and
  identities are not drawn twice; it is what makes a late answer harmless. It rests on *Money*: with
  two deployments open, the agent of the former reads the new lease in the controller's document and
  speaks for it, which is why both theorems assume `Disciplined`.
* *The zone.* `TasksOK` says what a task that is about to write knows: a record it listed
  is an address of that name still, or gone, since ids are not used twice; of a name nobody else
  touched, the addresses are exactly those listed, and after the write one right one and
  those to be deleted. `ControllerOK` and `OperatorOK` carry on what the stages behind a task have
  achieved. What a rewrite keeps of a list of rules is the loop's result, whose facts need
  induction on the list; the library's induction theorems cannot be instantiated here, so
  `DnsProofs` shows by a least counterexample, from the theorem on minimal elements, that the loop's
  recursive function exists and keeps what `Kept` says, in its order.
* *The escrow.* `RunwayInv`: what a lease had after its last check that got through, or
  its first deposit, less a price for each unit since then. `Age` bounds that time by the interval,
  because time does not pass a check that is due.
* *Attempts.* `CountInv`: what was compared is counted or still owed, and what is counted with
  all that may still be exceeds the ceiling by less than the number of attempts. `RateBounded` alone
  says nothing of what is owed, so it is not inductive. `TableInv` bounds the table itself.
* *Routes.* `CallInv` relates the number of attempts to the routes they went through: none, the
  first, then both, which holds because the rotation begins at the preferred one and is taken
  once per attempt.
* *Documents.* `DocumentsInv`: a field nobody damaged since the last write is as it was written
  (`StillAsWritten`), and what the loop writes is honest: a status that bills has its lease. `Normalized`
  is then shown idempotent, field by field, and to reach no further than `Reached` says.
* *Side by side.* `PartsInv` has, of the part under way, what its own proof rests on; a step is a
  step of that part, and the others stand still.

Model-checked only: liveness under fairness (`BusyEnds`, `HaltSettles`, `TriggerIsSeenTo`,
`HaltIsCarriedOut`, `RequestIsAnswered`), which is out of the proof system's reach. Every
other property of a passing run is stated by one of the theorems.

## 6. Findings

1. `fsm/advance.go:124`: *failed* cannot go to *closing*, so `beginClose` is refused and a
   lease that is still billing after a failed close, a failed restore or an adoption is
   never closed, although the comment above says this cannot wait.
2. `fsm/advance.go:485`: a start that is waiting when a controller comes back in the
   middle of a deploy launches a second one before `advance` looks for the first.
3. `fsm/advance.go:37`: after a restart mid-deploy, a listing that fails or does not show the
   deployment leads to *offline* with a deployment that bills.
4. `agent/loop.go:50`: a halt that comes with a backup request and is read during the
   backoff after a crash begins the backup; the stop waits for it and nothing parks, so
   the timer launches the game although the intent in memory is *stopped*. It is stopped
   again when the backup ends (`HaltIsCarriedOut` holds), but a game was started in the
   middle of a halt, and its world is written while it is archived.
5. `agent/backup.go:186`: a backup that ends during that backoff reports *stopped* although
   the agent is not parked and will relaunch; the controller takes a parked phase for the
   end of the world, halts and closes the lease.

Noticed and not stated as a property: a late banner of a game that is gone turns the
phase of a parked, crashed agent back to *online* (`agent/loop.go:76`); a relaunch whose
launcher fails leaves *starting* for ever (`agent/loop.go:52`); restarts are inherited by
the next lease, where `state/controller.go:361` says they are counted under the current one.

The deposit of a lease that died is another disagreement. `akash/lifecycle.go:55` says that
an open deployment "holds escrow whether or not anything is running in it", and of one whose lease
the provider closed that "the close that follows collects what is left of the deposit". But a
controller that starts and is told that the recorded lease is gone (`fsm/fsm.go:824`, `reconcileLease`)
drops the dseq and fails, without closing; and a deployment whose lease died in an interrupted
deploy is not in the listing `advance` adopts from. What is left stays in escrow until somebody
closes it by hand. The model does this, and `NothingForgotten` and `LeaseKeptUntilClosed` name it
as their one exception: only a dead lease, and only where a process died or starts. A controller
that keeps running forgets none.

Noticed in the smaller machines, in the model but in nobody's property:

* *Bus.* A push that landed and whose answer was lost leaves triggers that nothing acts on,
  although `fsm/triggers.go:92` says the files are still there. `PutOrphan` and `Commit` write to
  the mirror before `netOp` takes the gate (`gitbus/gitbus.go:293`), beside an abandoned fetch.
  `ShouldAct` and `WasOurs` are not called by the program. Publishes of the program's own fill the
  ring of processed SHAs.
* *Store.* After a failed listing a prune decides on a stale index and can delete the last
  archive. A published target may name an archive that was pruned while the publish was put
  off. A fresh upload under a name that just expired is deleted after it was accepted.
  The stamp of a download is kept by name only. A digest is reused for a file of the
  same second and size. `Open` may serve new bytes with the old entry's digest.
* *Driver.* `akash/deploy.go:13` ("every return path below carries the identity of whatever it
  created") and `cmd/pzctl/akash.go:455` ("nothing was created") do not hold when the answer to
  a create is lost, which `do.go` repeats. A bid that was withdrawn is still taken
  (`akash/wait.go:43`), refused, and its provider put to rest. Not every failure that may be
  retried skip-lists its provider (`cmd/pzctl/akash.go:412`). `server.ip_lease` is read twice.
  `Adopt` does not see deployments whose lease is closed or whose services report nothing.
* *DNS.* Rules are read, merged and written back whole, so one added in between is lost, despite
  `dns/zone.go:12`. Two clients that change one name at once can empty it. The loop never
  retries a record whose sync failed, and a lease lost at the provider leaves its name up.
  "Already exists" (81057) is not taken for success on a POST (`dns/api.go:79`).
* *Funds and address.* A deposit whose answer is lost is made twice, or reported as failed.
  `lastFunds` outlives a lease. `SelfURL` passes over deployments it cannot read, so with one
  candidate left another controller's address is taken for good, despite "not guessing which one
  is us".
* *Documents.* A lease without a dseq is "dropped, reconcile against Akash before deploying"
  (`state/normalize.go:35`), but only a file that is no object makes the loop ask the provider:
  from *failed*, a start then deploys a second server. Nothing in `fsm` looks at the version it
  is told not to write over (`state/normalize.go:25`). A garbage `backups.json` alone is fatal for
  `controller.json` too, and fails a healthy server. A status that is mistyped is read as *offline* with its
  lease kept. A phase read as *crashed*, for which `state/normalize.go:119` leaves the controller's view
  authoritative, is a parked one and halts an online server. A deleted file is no damage at all.
* *Routes.* "A wrong first base costs one attempt" (`agent/client.go:31`) does not hold when the
  stale address answers: a stranger's 401 or 404 is permanent, and its 404 on `common.zip` is
  taken as *absent*. The agent learns the direct address once; if it was not known yet, large
  uploads go through the proxy for the container's life. `runBackup` reads the document off the
  loop, although `agent/backup.go:74` says it touches no field.
* *Limiter.* Asking and penalising are apart, so concurrent attempts exceed the limit by their
  number; `RateBounded` states the bound that holds.

## 7. Not modelled

Configuration, SDL rendering, secrets, denominations, the dashboard's pages and the
bootstrap: functions of their input, whose content is wording and layout. Lease data other
than the dseq and its price; player counts; the work an agent's step does on files only
(layout, rendering, unpacking, the archive's content, the console's save). Of the HTTP server,
sessions' cookies and the streaming of files; of the git bus, authentication and packing; of DNS,
the lookup of the zone. Two controllers on one repository: the code assumes one.

Of `Controller`'s environment the agent is shown to be an abstraction of `Agent`, by way of
`Reporter`; that a step of `Reporter` is a sequence of `Controller`'s is argued in section 3. Its
provider, git and store are weaker than, and not composed with, `Driver`, `Bus` and
`Backups`. Each of the smaller machines stands by itself.
