------------------------------- MODULE Driver -------------------------------
(***************************************************************************)
(* The Akash driver (akash) and the two callers that retry it: the         *)
(* command line's deploy (cmd/pzctl) and, in the same shape, the           *)
(* controller.  A deploy shops for providers, creates a deployment, waits  *)
(* for bids, takes a lease and waits for an address; a quote stops at the  *)
(* bids.  From the create on there is an escrow to close, whatever fails.  *)
(*                                                                         *)
(* The market, the providers and the API are the environment: bids come    *)
(* and go, a workload starts or never does, a lease ends, an answer is     *)
(* lost and the request repeated.  Deadlines are counted down, so that no  *)
(* bound on the clock is needed.                                           *)
(***************************************************************************)
EXTENDS Naturals, FiniteSets

CONSTANTS
    Provider,           \* providers, numbered: the order of owner addresses
    HasIP,              \* those that lease dedicated addresses
    Distance,           \* of each from the players
    Prices, MaxPrice,   \* what they bid a day; akash.price.max_usd_per_day
    Tolerance,          \* akash.price.tolerance, in percent
    IPLease,            \* server.ip_lease
    AdoptUnleased,      \* akash.adopt_unleased
    Settle, BidWait, LeaseReady, SkipTTL,   \* akash.timeouts and skip_ttl, in polls
    MaxAttempts,        \* akash.max_deploy_attempts
    Roles,              \* what is asked of the driver: "server", "controller", "quote"
    NoProvider,             \* no provider
    MaxDeployments,     \* bound: deployments ever created
    MaxDriverCrashes    \* bound: deaths of the process

ASSUME MarketAssumption == Provider \subseteq Nat /\ HasIP \subseteq Provider /\ NoProvider \notin Provider
                           /\ Distance \in [Provider -> Nat] /\ Prices \subseteq Nat \ {0}
ASSUME DriverConfigAssumption == MaxPrice \in Nat /\ Tolerance \in Nat /\ IPLease \in BOOLEAN
                                 /\ AdoptUnleased \in BOOLEAN /\ MaxAttempts \in Nat \ {0}
                                 /\ Roles \subseteq {"server", "controller", "quote"}
ASSUME TimeoutsAssumption == Settle \in Nat /\ BidWait \in Nat /\ LeaseReady \in Nat /\ SkipTTL \in Nat
ASSUME DriverBoundsAssumption == MaxDeployments \in Nat /\ MaxDriverCrashes \in Nat

VARIABLES
    chain,      \* every deployment: whether it is open, what it asks for, its lease
    made,       \* how many there are
    market,     \* the open bids on the deployment that is being shopped for
    job,        \* what the driver is doing, and for whom
    skips,      \* Driver.skips: how long each provider is still left alone
    known,      \* deployments somebody was told of, by number
    strays,     \* history: those whose create got no answer, or whose deploy died
    sweep,      \* Adopt: what it is still to look at, what it claims, if it saw all
    driverCrashes

driverVars == <<chain, made, market, job, skips, known, strays, sweep, driverCrashes>>

Seqs == 1..MaxDeployments
NoBids == [p \in Provider |-> 0]
NotCreated == [open |-> FALSE, ip |-> FALSE, tenant |-> NoProvider, lease |-> "none", up |-> "no"]
NoJob == [role |-> "none", pc |-> "idle", attempt |-> 0, dseq |-> 0, eligible |-> {},
          best |-> NoProvider, list |-> NoBids, settle |-> 0, due |-> 0, again |-> FALSE, mine |-> {}]
NoSweep == [on |-> FALSE, todo |-> {}, claimed |-> {}, whole |-> FALSE]

DriverInit ==
    /\ chain = [d \in Seqs |-> NotCreated] /\ made = 0 /\ market = NoBids
    /\ job = NoJob /\ skips = [p \in Provider |-> 0] /\ known = {} /\ strays = {}
    /\ sweep = NoSweep /\ driverCrashes = 0

-----------------------------------------------------------------------------
(* Selection: pure.                                                        *)

\* plan: one read of the flag decides the market and the address waited for.
WantsIP(role) == role \in {"server", "quote"} /\ IPLease

\* SelectProviders: of those that qualify on paper, the ones with an address to
\* lease, if one is wanted, and not left alone.
Eligible(role, online) == {p \in online : skips[p] = 0 /\ (WantsIP(role) => p \in HasIP)}

\* SelectBid: of the open bids we may take and can afford, the band within the
\* tolerance of the cheapest, and of that the closest.
Affordable(list, eligible) == {p \in eligible : list[p] \in 1..MaxPrice}
Cheaper(list, p, q) ==
    \/ list[p] < list[q]
    \/ list[p] = list[q] /\ Distance[p] < Distance[q]
    \/ list[p] = list[q] /\ Distance[p] = Distance[q] /\ p < q
InBand(list, p, low) == 100 * list[p] <= (100 + Tolerance) * list[low]
Bug_ClosestOfAll(list, eligible) ==
    LET cands == Affordable(list, eligible) IN
    IF cands = {} THEN NoProvider
    ELSE CHOOSE p \in cands : \A q \in cands : Distance[p] <= Distance[q]
SelectBid(list, eligible) ==
    LET cands == Affordable(list, eligible)
        low == CHOOSE p \in cands : \A q \in cands \ {p} : Cheaper(list, p, q)
        band == {p \in cands : InBand(list, p, low)}
    IN  IF cands = {} THEN NoProvider
        ELSE CHOOSE p \in band : \A q \in band \ {p} :
                Distance[p] < Distance[q] \/ (Distance[p] = Distance[q] /\ Cheaper(list, p, q))

-----------------------------------------------------------------------------
(* How a call returns.  What was created is handed up on every path; the   *)
(* callers close it, and only then try again.                              *)

\* The driver returns an error: its caller closes what it was told of, if anything.
Bug_HandsUpOnSuccess(j) == job' = NoJob /\ UNCHANGED known
Fails(j) ==
    IF j.dseq = 0 THEN job' = NoJob /\ UNCHANGED known
    ELSE /\ job' = [j EXCEPT !.pc = "closing", !.list = NoBids, !.again = j.role # "quote"]
         /\ known' = IF j.role = "quote" THEN known ELSE known \cup {j.dseq}
Skip(p) == skips' = [skips EXCEPT ![p] = SkipTTL]

Start(role) ==
    /\ job.pc = "idle" /\ ~sweep.on
    /\ job' = [NoJob EXCEPT !.role = role, !.pc = "shop", !.attempt = 1]
    /\ sweep' = NoSweep
    /\ UNCHANGED <<chain, made, market, skips, known, strays, driverCrashes>>

\* The rate, the criteria, the rendered SDL and the providers, before anything is
\* created; with no provider nothing is.
Shop ==
    /\ job.pc = "shop"
    /\ \/ \E online \in SUBSET Provider :
             job' = IF Eligible(job.role, online) = {} THEN NoJob
                    ELSE [job EXCEPT !.pc = "create", !.eligible = Eligible(job.role, online)]
       \/ job' = NoJob
    /\ UNCHANGED <<chain, made, market, skips, known, strays, sweep, driverCrashes>>

-----------------------------------------------------------------------------
(* create: POST /v1/deployments, repeated by the client when no answer     *)
(* comes.                                                                  *)

Created ==
    /\ made < MaxDeployments /\ made' = made + 1
    /\ chain' = [chain EXCEPT ![made + 1] = [NotCreated EXCEPT !.open = TRUE, !.ip = WantsIP(job.role)]]
    /\ market' = NoBids

Create ==
    /\ job.pc = "create" /\ Created
    /\ LET j == [job EXCEPT !.dseq = made + 1, !.mine = @ \cup {made + 1}] IN
       \/ job' = [j EXCEPT !.pc = "bids", !.due = BidWait] /\ UNCHANGED known
       \/ Fails(j)      \* it came without its manifest
    /\ UNCHANGED <<skips, strays, sweep, driverCrashes>>
CreateUnanswered ==
    /\ job.pc = "create" /\ Created
    /\ strays' = strays \cup {made + 1}
    /\ UNCHANGED <<job, skips, known, sweep, driverCrashes>>
CreateFails ==
    /\ job.pc = "create" /\ Fails(job)
    /\ UNCHANGED <<chain, made, market, skips, strays, sweep, driverCrashes>>

-----------------------------------------------------------------------------
(* waitForBid and, for a quote, collectBids.                               *)

\* One poll: the whole list is read, and the newest choice replaces the former.
Polled ==
    LET choice == SelectBid(market, job.eligible) IN
    IF choice = NoProvider THEN job
    ELSE [job EXCEPT !.best = choice, !.list = market,
                     !.settle = IF job.best = NoProvider THEN Settle ELSE @]
ReadBids ==
    /\ job.pc = "bids" /\ job.role # "quote"
    /\ \/ Polled.best # NoProvider /\ (Polled.settle = 0 \/ job.due = 0)
          /\ job' = [Polled EXCEPT !.pc = "lease"] /\ UNCHANGED known
       \/ Polled.best = NoProvider /\ job.due = 0 /\ Fails(job)
       \/ ~(Polled.best # NoProvider /\ Polled.settle = 0) /\ job.due > 0
          /\ job' = [Polled EXCEPT !.pc = "wait"] /\ UNCHANGED known
    /\ UNCHANGED <<chain, made, market, skips, strays, sweep, driverCrashes>>
\* A quote wants the market, not a bid: it waits out bid_wait, and closes.
CollectBids ==
    /\ job.pc = "bids" /\ job.role = "quote"
    /\ job' = [job EXCEPT !.pc = IF job.due = 0 THEN "closing" ELSE "wait"]
    /\ UNCHANGED <<chain, made, market, skips, known, strays, sweep, driverCrashes>>
\* The list cannot be read, or the context ends.
BidsFail ==
    /\ job.pc \in {"bids", "wait"} /\ Fails(job)
    /\ UNCHANGED <<chain, made, market, skips, strays, sweep, driverCrashes>>

-----------------------------------------------------------------------------
(* lease: POST /v1/leases on the bid chosen, if it is still there.         *)

Leased == [chain EXCEPT ![job.dseq].tenant = job.best, ![job.dseq].lease = "active"]
CanLease == chain[job.dseq].open /\ chain[job.dseq].lease = "none" /\ market[job.best] # 0
TakeLease ==
    /\ job.pc = "lease" /\ CanLease
    /\ chain' = Leased /\ market' = NoBids
    /\ job' = [job EXCEPT !.pc = "status", !.due = LeaseReady, !.list = NoBids]
    /\ UNCHANGED <<made, skips, known, strays, sweep, driverCrashes>>
\* Refused, or taken and the answer lost, or not active: all the same to the caller.
LeaseFails ==
    /\ job.pc = "lease"
    /\ \/ UNCHANGED chain
       \/ CanLease /\ chain' = Leased
    /\ Skip(job.best) /\ Fails(job)
    /\ UNCHANGED <<made, market, strays, sweep, driverCrashes>>

-----------------------------------------------------------------------------
(* waitForEndpoint: the Console API, now and then the provider itself.     *)

\* endpointFrom: an address of the shape that is waited for.
Routable == chain[job.dseq].up = "routable" /\ chain[job.dseq].ip = WantsIP(job.role)
Routed ==
    /\ job.pc = "status" /\ Routable
    /\ known' = known \cup {job.dseq}
    /\ \/ job' = NoJob
       \/ job' = [job EXCEPT !.pc = "closing", !.again = FALSE]     \* --close
    /\ UNCHANGED <<chain, made, market, skips, strays, sweep, driverCrashes>>
\* Not yet, or neither source says so yet.
NotRouted ==
    /\ job.pc = "status" /\ job.due > 0 /\ job' = [job EXCEPT !.pc = "poll"]
    /\ UNCHANGED <<chain, made, market, skips, known, strays, sweep, driverCrashes>>
NeverRouted ==
    /\ \/ job.pc = "status" /\ job.due = 0
       \/ job.pc = "poll"       \* the context ends
    /\ Skip(job.best) /\ Fails(job)
    /\ UNCHANGED <<chain, made, market, strays, sweep, driverCrashes>>

-----------------------------------------------------------------------------
(* Close, and what the caller does next.                                   *)

Closed(d) == [chain EXCEPT ![d].open = FALSE, ![d].up = "no",
                           ![d].lease = IF chain[d].lease = "active" THEN "closed" ELSE chain[d].lease]

\* akashDeploy: another attempt only when the last one left nothing behind.
NextAttempt ==
    IF job.again /\ job.attempt < MaxAttempts
    THEN [NoJob EXCEPT !.role = job.role, !.pc = "shop", !.attempt = job.attempt + 1, !.mine = job.mine]
    ELSE NoJob
CloseOwn ==
    /\ job.pc = "closing"
    /\ chain' = Closed(job.dseq) /\ market' = NoBids /\ job' = NextAttempt
    /\ UNCHANGED <<made, skips, known, strays, sweep, driverCrashes>>
\* Its number goes into the error, and nothing more is committed.
Bug_RetriesAnyway ==
    /\ job.pc = "closing"
    /\ chain' \in {chain, Closed(job.dseq)} /\ job' = NextAttempt
    /\ known' = known \cup {job.dseq}
    /\ UNCHANGED <<made, market, skips, strays, sweep, driverCrashes>>
CloseOwnFails ==
    /\ job.pc = "closing"
    /\ chain' \in {chain, Closed(job.dseq)} /\ job' = NoJob
    /\ known' = known \cup {job.dseq}
    /\ UNCHANGED <<made, market, skips, strays, sweep, driverCrashes>>

\* pzctl akash close, or the controller's close of what it has on record.
CloseKnown(d) ==
    /\ job.pc = "idle" /\ ~sweep.on /\ d \in known /\ chain[d].open
    /\ chain' = Closed(d)
    /\ UNCHANGED <<made, market, job, skips, known, strays, sweep, driverCrashes>>

-----------------------------------------------------------------------------
(* Adopt: the list, then each open deployment by itself.                   *)

AdoptList ==
    /\ job.pc = "idle" /\ ~sweep.on
    /\ sweep' = [on |-> TRUE, todo |-> {d \in Seqs : chain[d].open}, claimed |-> {}, whole |-> TRUE]
    /\ UNCHANGED <<chain, made, market, job, skips, known, strays, driverCrashes>>

\* adoptable: an active lease that reports the server's service, or no lease at all.
Adoptable(d) ==
    \/ chain[d].lease = "active" /\ chain[d].up # "no"
    \/ chain[d].lease = "none" /\ AdoptUnleased
AdoptLook ==
    \E d \in sweep.todo :
        /\ \/ sweep' = [sweep EXCEPT !.todo = @ \ {d},
                                     !.claimed = IF Adoptable(d) THEN @ \cup {d} ELSE @]
           \/ sweep' = [sweep EXCEPT !.todo = @ \ {d}, !.whole = FALSE]     \* unreadable
        /\ UNCHANGED <<chain, made, market, job, skips, known, strays, driverCrashes>>
AdoptEnd ==
    /\ sweep.on /\ sweep.todo = {}
    /\ known' = known \cup sweep.claimed
    /\ sweep' = [sweep EXCEPT !.on = FALSE, !.claimed = {}]
    /\ UNCHANGED <<chain, made, market, job, skips, strays, driverCrashes>>

-----------------------------------------------------------------------------
(* The environment.                                                        *)

Shopping == job.pc \in {"bids", "wait", "lease"}
BidArrives(p, price) ==
    /\ Shopping /\ chain[job.dseq].open /\ market[p] = 0
    /\ market' = [market EXCEPT ![p] = price]
    /\ UNCHANGED <<chain, made, job, skips, known, strays, sweep, driverCrashes>>
BidGone(p) ==
    /\ Shopping /\ market[p] # 0
    /\ market' = [market EXCEPT ![p] = 0]
    /\ UNCHANGED <<chain, made, job, skips, known, strays, sweep, driverCrashes>>

\* The container runs, and its address is given out.
WorkloadUp(d) ==
    /\ chain[d].open /\ chain[d].lease = "active" /\ chain[d].up # "routable"
    /\ chain' = [chain EXCEPT ![d].up = IF @ = "no" THEN "ready" ELSE "routable"]
    /\ UNCHANGED <<made, market, job, skips, known, strays, sweep, driverCrashes>>
\* The provider ends the lease; the escrow stays.
LeaseEnds(d) ==
    /\ chain[d].open /\ chain[d].lease = "active"
    /\ chain' = [chain EXCEPT ![d].lease = "closed", ![d].up = "no"]
    /\ UNCHANGED <<made, market, job, skips, known, strays, sweep, driverCrashes>>

Less(n) == IF n = 0 THEN 0 ELSE n - 1
Tick ==
    /\ skips' = [p \in Provider |-> Less(skips[p])]
    /\ job' = [job EXCEPT !.due = Less(@), !.settle = Less(@),
                          !.pc = CASE @ = "wait" -> "bids" [] @ = "poll" -> "status" [] OTHER -> @]
    /\ UNCHANGED <<chain, made, market, known, strays, sweep, driverCrashes>>

\* The process dies; the skip list and what nobody was told die with it.
DriverCrash ==
    /\ driverCrashes < MaxDriverCrashes /\ driverCrashes' = driverCrashes + 1
    /\ strays' = strays \cup ({job.dseq} \ ({0} \cup known))
    /\ job' = NoJob /\ sweep' = NoSweep /\ skips' = [p \in Provider |-> 0]
    /\ UNCHANGED <<chain, made, market, known>>

JobStep ==
    \/ Shop \/ Create \/ CreateUnanswered \/ CreateFails
    \/ ReadBids \/ CollectBids \/ BidsFail
    \/ TakeLease \/ LeaseFails \/ Routed \/ NotRouted \/ NeverRouted
    \/ CloseOwn \/ CloseOwnFails
AdoptStep == AdoptLook \/ AdoptEnd
DriverNext ==
    \/ \E role \in Roles : Start(role)
    \/ JobStep
    \/ \E d \in Seqs : CloseKnown(d) \/ WorkloadUp(d) \/ LeaseEnds(d)
    \/ AdoptList \/ AdoptStep
    \/ \E p \in Provider, price \in Prices : BidArrives(p, price)
    \/ \E p \in Provider : BidGone(p)
    \/ Tick \/ DriverCrash

DriverSpec == DriverInit /\ [][DriverNext]_driverVars

-----------------------------------------------------------------------------
DriverTypeOK ==
    /\ chain \in [Seqs -> [open : BOOLEAN, ip : BOOLEAN, tenant : Provider \cup {NoProvider},
                          lease : {"none", "active", "closed"}, up : {"no", "ready", "routable"}]]
    /\ made \in 0..MaxDeployments /\ market \in [Provider -> Prices \cup {0}]
    /\ job.role \in Roles \cup {"none"} /\ job.attempt \in 0..MaxAttempts /\ job.dseq \in 0..made
    /\ job.pc \in {"idle", "shop", "create", "bids", "wait", "lease", "status", "poll", "closing"}
    /\ job.eligible \subseteq Provider /\ job.best \in Provider \cup {NoProvider}
    /\ skips \in [Provider -> 0..SkipTTL]
    /\ known \subseteq Seqs /\ strays \subseteq Seqs

\* There is no funded escrow nobody can close: every open deployment is one somebody
\* was told of by number, or the one being worked on - or it is what an answer that
\* never came, or a death, left behind (deploy.go's "the caller must be handed the
\* dseq", QuoteServer's close on every path).  Those a sweep that could read everything
\* finds, unless they were leased before the process died: an unanswered create never
\* leads to a lease (Adopt, adopt_unleased).
StraysFound ==
    sweep.whole /\ ~sweep.on /\ AdoptUnleased =>
        \A d \in strays : chain[d].open /\ chain[d].lease = "none" => d \in known
NothingUnaccounted ==
    /\ \A d \in Seqs : chain[d].open => d \in known \/ d = job.dseq \/ d \in strays
    /\ StraysFound

\* No attempt is made on top of another: while one is under way the ones before it
\* are closed, so there are never two servers on one world (akashDeploy).
OneAttemptOpen == \A d \in job.mine \ {job.dseq} : ~chain[d].open

\* The bid that is taken is a good one of the list it was chosen from: within the
\* tolerance of the cheapest that could be had, and no other in reach both nearer and
\* as cheap (SelectBid).  Its provider is not one at rest for having failed before, in
\* this attempt or a former one, and can give the address that will be waited for: a
\* wait for the other kind would time out on a lease that bills (Skip, plan.kind).
TakesAGoodBid ==
    job.pc = "lease" =>
        LET cands == Affordable(job.list, job.eligible) IN
        /\ job.best \in cands
        /\ \A q \in cands :
            /\ InBand(job.list, job.best, q)
            /\ ~(Distance[q] < Distance[job.best] /\ job.list[q] <= job.list[job.best])
        /\ skips[job.best] = 0
        /\ WantsIP(job.role) => job.best \in HasIP
=============================================================================
