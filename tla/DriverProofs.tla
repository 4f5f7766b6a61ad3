----------------------------- MODULE DriverProofs -----------------------------
(***************************************************************************)
(* The Akash driver (Driver): proofs that no escrow is left without        *)
(* someone who can close it, that no attempt is made on top of another, and*)
(* that the bid that is taken is a good one.                               *)
(***************************************************************************)
EXTENDS Driver, WellFoundedInduction, TLAPS

Pcs == {"idle", "shop", "create", "bids", "wait", "lease", "status", "poll", "closing"}
Before == {"idle", "shop", "create"}

\* Which bid was chosen, from which list, and who has a lease is of no account here: T
\* is any set that has them.
Deployment(T) == [open : BOOLEAN, ip : BOOLEAN, tenant : T, lease : {"none", "active", "closed"},
                  up : {"no", "ready", "routable"}]
Work(T) == [role : {"none", "server", "controller", "quote"}, pc : Pcs, attempt : Nat, dseq : Nat,
            eligible : SUBSET Provider, best : T, list : T, settle : Nat, due : Nat, again : BOOLEAN,
            mine : SUBSET Nat]
Typed(T) ==
    /\ NoProvider \in T /\ NoBids \in T
    /\ job \in Work(T) /\ chain \in [Seqs -> Deployment(T)]

\* A deployment is in hand from its create to its close.
OneInHand ==
    /\ job.mine \subseteq 1..made
    /\ job.pc \in Before => job.dseq = 0
    /\ job.pc \notin Before => job.dseq \in 1..made
DriverBase ==
    /\ \E T : Typed(T)
    /\ OneInHand /\ made \in 0..MaxDeployments
    /\ \A d \in Seqs : chain[d].open = TRUE => d <= made
    /\ known \subseteq Seqs /\ strays \subseteq Seqs
    /\ sweep \in [on : BOOLEAN, todo : SUBSET Seqs, claimed : SUBSET Seqs, whole : BOOLEAN]
    /\ job.pc # "idle" => sweep.on = FALSE /\ sweep.whole = FALSE

\* What is in hand, or was told of, or is known to have gone astray; and what a former
\* attempt had is closed.
Accounted == \A d \in Seqs : chain[d].open = TRUE => d \in known \/ d = job.dseq \/ d \in strays
FormerClosed == \A d \in job.mine \ {job.dseq} : chain[d].open = FALSE
\* A sweep that could read everything has, or will have, every stray without a lease.
SweepFinds ==
    sweep.whole = TRUE /\ AdoptUnleased =>
        \A d \in strays : chain[d].open = TRUE /\ chain[d].lease = "none" =>
            d \in known \/ (sweep.on = TRUE /\ d \in sweep.todo \cup sweep.claimed)

DriverInv == DriverBase /\ Accounted /\ FormerClosed /\ SweepFinds

\* Nothing was created yet.
LEMMA DriverInvInit == DriverInit => DriverInv
<1> SUFFICES ASSUME DriverInit PROVE DriverInv
    OBVIOUS
<1> USE DriverBoundsAssumption DEF DriverInit
<1> DEFINE T == {NoProvider, NoBids}
<1>1. NotCreated \in Deployment(T) /\ NotCreated.open = FALSE
    BY DEF NotCreated, Deployment
<1>2. NoJob \in Work(T) /\ NoJob.pc = "idle" /\ NoJob.dseq = 0 /\ NoJob.mine = {}
    BY DEF NoJob, Work, Pcs
<1>3. Typed(T)
    BY <1>1, <1>2 DEF Typed
<1>4. DriverBase
    BY <1>1, <1>2, <1>3 DEF DriverBase, OneInHand, Before, NoSweep
<1>5. Accounted /\ FormerClosed /\ SweepFinds
    BY <1>1, <1>2 DEF Accounted, FormerClosed, SweepFinds
<1> QED BY <1>4, <1>5 DEF DriverInv

-----------------------------------------------------------------------------
(* What each change of the chain does.                                     *)

\* Nothing is opened, and no lease is forgotten.
NoneOpened ==
    \A e \in Seqs : /\ chain'[e].open = TRUE => chain[e].open = TRUE
                    /\ chain'[e].lease = "none" => chain[e].lease = "none"

\* As when nothing is changed.
LEMMA SameChain == chain' = chain => NoneOpened
BY DEF NoneOpened

\* A deployment is created: one more number, open.
LEMMA CreatedFacts ==
    ASSUME NEW T, chain \in [Seqs -> Deployment(T)], NoProvider \in T, made \in 0..MaxDeployments, Created
    PROVE  /\ chain' \in [Seqs -> Deployment(T)] /\ made' = made + 1 /\ made' \in 0..MaxDeployments
           /\ made + 1 \in Seqs /\ chain'[made + 1].open = TRUE
           /\ \A d \in Seqs \ {made + 1} : chain'[d] = chain[d]
<1>1. made' = made + 1 /\ made + 1 \in Seqs /\ made' \in 0..MaxDeployments
    BY DriverBoundsAssumption DEF Created, Seqs
<1> DEFINE new == [NotCreated EXCEPT !.open = TRUE, !.ip = WantsIP(job.role)]
<1>2. chain' = [chain EXCEPT ![made + 1] = new]
    BY DEF Created
<1>3. NotCreated \in Deployment(T)
    BY DEF NotCreated, Deployment
<1>4. WantsIP(job.role) \in BOOLEAN
    BY DriverConfigAssumption DEF WantsIP
<1>5. new \in Deployment(T) /\ new.open = TRUE
    BY <1>3, <1>4 DEF Deployment
<1> HIDE DEF new
<1> QED BY <1>1, <1>2, <1>5

\* Closing one.
LEMMA ClosedFacts ==
    ASSUME NEW T, chain \in [Seqs -> Deployment(T)], NEW d \in Seqs, chain' = Closed(d)
    PROVE  /\ chain' \in [Seqs -> Deployment(T)] /\ chain'[d].open = FALSE
           /\ NoneOpened
<1> DEFINE c == [chain[d] EXCEPT !.open = FALSE, !.up = "no",
                                 !.lease = IF chain[d].lease = "active" THEN "closed" ELSE chain[d].lease]
<1>1. chain[d] \in Deployment(T)
    OBVIOUS
<1>2. chain' = [chain EXCEPT ![d] = c]
    BY <1>1 DEF Closed, Deployment
<1>3. c \in Deployment(T) /\ c.open = FALSE /\ (c.lease = "none" => chain[d].lease = "none")
    BY <1>1 DEF Deployment
<1> HIDE DEF c
<1> QED BY <1>2, <1>3 DEF NoneOpened

\* A lease is taken.
LEMMA LeasedFacts ==
    ASSUME NEW T, Typed(T), job.dseq \in Seqs, chain' = Leased
    PROVE  /\ chain' \in [Seqs -> Deployment(T)]
           /\ NoneOpened
<1> DEFINE d == job.dseq
           c == [chain[d] EXCEPT !.tenant = job.best, !.lease = "active"]
<1>1. chain[d] \in Deployment(T) /\ job.best \in T
    BY DEF Typed, Work
<1>2. c \in Deployment(T) /\ c.open = chain[d].open /\ c.lease = "active"
    BY <1>1 DEF Deployment
<1>3. chain' = [chain EXCEPT ![d] = c]
    BY <1>1 DEF Leased, Deployment, Typed
<1> HIDE DEF c
<1> QED BY <1>2, <1>3 DEF Typed, NoneOpened

\* The container comes up, or the provider ends the lease.
LEMMA ProviderFacts ==
    ASSUME NEW T, Typed(T), NEW d \in Seqs, WorkloadUp(d) \/ LeaseEnds(d)
    PROVE  /\ chain' \in [Seqs -> Deployment(T)]
           /\ NoneOpened
<1>1. chain[d] \in Deployment(T) /\ chain \in [Seqs -> Deployment(T)]
    BY DEF Typed
<1>2. CASE WorkloadUp(d)
    <2> DEFINE c == [chain[d] EXCEPT !.up = IF chain[d].up = "no" THEN "ready" ELSE "routable"]
    <2>1. chain' = [chain EXCEPT ![d] = c]
        BY <1>2 DEF WorkloadUp
    <2>2. c \in Deployment(T) /\ c.open = chain[d].open /\ c.lease = chain[d].lease
        BY <1>1 DEF Deployment
    <2> HIDE DEF c
    <2> QED BY <1>1, <2>1, <2>2 DEF NoneOpened
<1>3. CASE LeaseEnds(d)
    <2> DEFINE c == [chain[d] EXCEPT !.lease = "closed", !.up = "no"]
    <2>1. chain' = [chain EXCEPT ![d] = c]
        BY <1>1, <1>3 DEF LeaseEnds, Deployment
    <2>2. c \in Deployment(T) /\ c.open = chain[d].open /\ c.lease = "closed"
        BY <1>1 DEF Deployment
    <2> HIDE DEF c
    <2> QED BY <1>1, <2>1, <2>2 DEF NoneOpened
<1> QED BY <1>2, <1>3

-----------------------------------------------------------------------------
(* What each change of the job does.                                       *)

\* No job, and no sweep.
LEMMA NoJobFacts ==
    ASSUME NEW T, NoProvider \in T, NoBids \in T
    PROVE  NoJob \in Work(T) /\ NoJob.pc = "idle" /\ NoJob.dseq = 0 /\ NoJob.mine = {}
BY DEF NoJob, Work, Pcs

\* A failed call hands up what it made, which is then to be closed.
LEMMA FailsFacts ==
    ASSUME NEW T, NoProvider \in T, NoBids \in T, NEW j \in Work(T), Fails(j)
    PROVE  /\ job' \in Work(T)
           /\ j.dseq = 0 => job'.pc = "idle" /\ job'.dseq = 0 /\ job'.mine = {}
           /\ j.dseq # 0 => job'.pc = "closing" /\ job'.dseq = j.dseq /\ job'.mine = j.mine
           /\ known' = known \/ (j.dseq # 0 /\ known' = known \cup {j.dseq})
<1>1. CASE j.dseq = 0
    BY <1>1, NoJobFacts DEF Fails
<1>2. CASE j.dseq # 0
    <2>1. job' = [j EXCEPT !.pc = "closing", !.list = NoBids, !.again = j.role # "quote"]
        BY <1>2 DEF Fails
    <2>2. job' \in Work(T) /\ job'.pc = "closing" /\ job'.dseq = j.dseq /\ job'.mine = j.mine
        BY <2>1 DEF Work, Pcs
    <2> QED BY <1>2, <2>2 DEF Fails
<1> QED BY <1>1, <1>2

\* A step that makes nothing keeps the invariant if what it lets go of is told of or
\* closed.
LEMMA Keeps ==
    ASSUME DriverInv, NEW T, Typed(T)', made' = made,
           NoneOpened,
           known \subseteq known', known' \subseteq Seqs, strays \subseteq strays', strays' \subseteq Seqs,
           sweep' = NoSweep \/ (sweep' = sweep /\ strays' = strays),
           job'.pc # "idle" => job.pc # "idle" \/ sweep' = NoSweep,
           job'.mine \subseteq job.mine,
           \/ job'.pc \notin Before /\ job.pc \notin Before /\ job'.dseq = job.dseq
           \/ /\ job'.pc \in Before /\ job'.dseq = 0
              /\ \/ job.pc \in Before
                 \/ /\ job.dseq \in known' \cup strays' \/ chain'[job.dseq].open = FALSE
                    /\ job'.mine = {} \/ chain'[job.dseq].open = FALSE
    PROVE  DriverInv'
<1> USE DriverBoundsAssumption
<1>0. /\ made \in 0..MaxDeployments /\ job.mine \subseteq 1..made /\ 1..made \subseteq Seqs
      /\ job.pc \in Before => job.dseq = 0
      /\ \A e \in Seqs : chain'[e].open \in BOOLEAN
      /\ \A e \in Seqs : chain[e].open \in BOOLEAN
    <2>1. made \in 0..MaxDeployments /\ job.mine \subseteq 1..made /\ (job.pc \in Before => job.dseq = 0)
        BY DEF DriverInv, DriverBase, OneInHand
    <2>2. \A e \in Seqs : chain'[e].open \in BOOLEAN
        BY DEF Typed, Deployment
    <2>3. \A e \in Seqs : chain[e].open \in BOOLEAN
        BY DEF DriverInv, DriverBase, Typed, Deployment
    <2> QED BY <2>1, <2>2, <2>3 DEF Seqs
<1>1. OneInHand'
    BY DEF DriverInv, DriverBase, OneInHand
<1>2. NoSweep \in [on : BOOLEAN, todo : SUBSET Seqs, claimed : SUBSET Seqs, whole : BOOLEAN]
      /\ NoSweep.on = FALSE /\ NoSweep.whole = FALSE
    BY DEF NoSweep
<1>3. DriverBase'
    <2>1. \A d \in Seqs : chain'[d].open = TRUE => d <= made'
        BY DEF DriverInv, DriverBase, NoneOpened
    <2>2. sweep' \in [on : BOOLEAN, todo : SUBSET Seqs, claimed : SUBSET Seqs, whole : BOOLEAN]
        BY <1>2 DEF DriverInv, DriverBase
    <2>3. job'.pc # "idle" => sweep'.on = FALSE /\ sweep'.whole = FALSE
        BY <1>2 DEF DriverInv, DriverBase
    <2>4. \E U : Typed(U)'
        OBVIOUS
    <2> QED BY <1>0, <1>1, <2>1, <2>2, <2>3, <2>4 DEF DriverBase
<1>4. Accounted'
    <2> SUFFICES ASSUME NEW d \in Seqs, chain'[d].open = TRUE
                 PROVE  d \in known' \/ d = job'.dseq \/ d \in strays'
        BY DEF Accounted
    <2>1. d \in known \/ d = job.dseq \/ d \in strays
        BY DEF DriverInv, Accounted, NoneOpened
    <2>2. d # 0
        BY DEF Seqs
    <2> QED BY <1>0, <2>1, <2>2
<1>5. FormerClosed'
    <2> SUFFICES ASSUME NEW d \in job'.mine, d # job'.dseq
                 PROVE  chain'[d].open = FALSE
        BY DEF FormerClosed
    <2>1. d \in job.mine /\ d \in Seqs /\ d # 0
        BY <1>0 DEF Seqs
    <2>2. d # job.dseq => chain[d].open = FALSE
        BY <2>1 DEF DriverInv, FormerClosed
    <2> QED BY <1>0, <2>1, <2>2 DEF NoneOpened
<1>6. SweepFinds'
    BY <1>2 DEF DriverInv, SweepFinds, NoneOpened
<1> QED BY <1>3, <1>4, <1>5, <1>6 DEF DriverInv

-----------------------------------------------------------------------------
(* The steps.                                                              *)

\* The fields of the job, and what is in hand.
LEMMA Hand ==
    ASSUME DriverInv
    PROVE  /\ made \in 0..MaxDeployments /\ 1..made \subseteq Seqs /\ job.mine \subseteq 1..made
           /\ job.pc \in Before => job.dseq = 0
           /\ job.pc \notin Before => job.dseq \in 1..made /\ job.dseq \in Seqs /\ job.dseq # 0
           /\ known \subseteq Seqs /\ strays \subseteq Seqs
           /\ \E T : Typed(T)
BY DriverBoundsAssumption DEF DriverInv, DriverBase, OneInHand, Seqs

\* Starting, and shopping.
LEMMA ShopKeeps ==
    ASSUME DriverInv, (\E role \in Roles : Start(role)) \/ Shop
    PROVE  DriverInv'
<1>0. PICK T : Typed(T)
    BY Hand
<1>1. ASSUME NEW role \in Roles, Start(role) PROVE DriverInv'
    <2>1. /\ job.pc = "idle" /\ UNCHANGED <<chain, made, known, strays>> /\ sweep' = NoSweep
          /\ job' = [NoJob EXCEPT !.role = role, !.pc = "shop", !.attempt = 1]
        BY <1>1 DEF Start
    <2>2. job' \in Work(T) /\ job'.pc = "shop" /\ job'.dseq = 0 /\ job'.mine = {}
        BY <1>0, <2>1, DriverConfigAssumption DEF NoJob, Work, Pcs, Typed
    <2>3. Typed(T)'
        BY <1>0, <2>1, <2>2 DEF Typed
    <2> QED BY <2>1, <2>2, <2>3, SameChain, Hand, Keeps DEF Before
<1>2. CASE Shop
    <2>1. job.pc = "shop" /\ UNCHANGED <<chain, made, known, strays, sweep>>
        BY <1>2 DEF Shop
    <2>2. CASE job' = NoJob
        <3>1. Typed(T)' /\ job'.pc = "idle" /\ job'.dseq = 0 /\ job'.mine = {}
            BY <1>0, <2>1, <2>2, NoJobFacts DEF Typed
        <3> QED BY <2>1, <3>1, SameChain, Hand, Keeps DEF Before
    <2>3. ASSUME NEW online \in SUBSET Provider,
                 job' = [job EXCEPT !.pc = "create", !.eligible = Eligible(job.role, online)]
          PROVE  DriverInv'
        <3>1. Eligible(job.role, online) \subseteq Provider
            BY DEF Eligible
        <3>2. job \in Work(T)
            BY <1>0 DEF Typed
        <3>3. job' \in Work(T) /\ job'.pc = "create" /\ job'.dseq = job.dseq /\ job'.mine = job.mine
            BY <2>3, <3>1, <3>2 DEF Work, Pcs
        <3>4. Typed(T)'
            BY <1>0, <2>1, <3>3 DEF Typed
        <3> QED BY <2>1, <3>3, <3>4, SameChain, Hand, Keeps DEF Before
    <2> QED BY <1>2, <2>2, <2>3 DEF Shop
<1> QED BY <1>1, <1>2

\* A call that fails without having made anything more.
LEMMA FailKeeps ==
    ASSUME DriverInv, NEW T, Typed(T), Fails(job), job.pc # "idle", UNCHANGED <<made, strays, sweep>>,
           chain' \in [Seqs -> Deployment(T)],
           NoneOpened
    PROVE  DriverInv'
<1>1. /\ job' \in Work(T)
      /\ job.dseq = 0 => job'.pc = "idle" /\ job'.dseq = 0 /\ job'.mine = {}
      /\ job.dseq # 0 => job'.pc = "closing" /\ job'.dseq = job.dseq /\ job'.mine = job.mine
      /\ known' = known \/ (job.dseq # 0 /\ known' = known \cup {job.dseq})
    BY FailsFacts DEF Typed
<1>2. Typed(T)'
    BY <1>1 DEF Typed
<1>3. known \subseteq known' /\ known' \subseteq Seqs
    BY <1>1, Hand
<1>4. CASE job.dseq = 0
    BY <1>1, <1>2, <1>3, <1>4, SameChain, Hand, Keeps DEF Before
<1>5. CASE job.dseq # 0
    <2>1. job'.pc \notin Before /\ job.pc \notin Before
        BY <1>1, <1>5, Hand DEF Before
    <2> QED BY <1>1, <1>2, <1>3, <1>5, <2>1, SameChain, Hand, Keeps
<1> QED BY <1>4, <1>5

\* The steps of the job between a create and a close that move it without an end.
LEMMA MoveKeeps ==
    ASSUME DriverInv, NEW T, Typed(T)', UNCHANGED <<made, strays, sweep, known>>,
           job.pc \notin Before, job'.pc \notin Before, job'.dseq = job.dseq, job'.mine = job.mine,
           NoneOpened
    PROVE  DriverInv'
BY SameChain, Hand, Keeps DEF Before

\* Waiting for bids.
LEMMA BidsKeep ==
    ASSUME DriverInv, ReadBids \/ CollectBids \/ BidsFail \/ CreateFails
    PROVE  DriverInv'
<1>0. PICK T : Typed(T)
    BY Hand
<1>1. UNCHANGED <<chain, made, strays, sweep>>
    BY DEF ReadBids, CollectBids, BidsFail, CreateFails
<1>2. CASE Fails(job) /\ job.pc # "idle"
    BY <1>0, <1>1, <1>2, SameChain, FailKeeps DEF Typed
<1>3. CASE CollectBids
    <2> DEFINE pc == IF job.due = 0 THEN "closing" ELSE "wait"
    <2>1. job.pc = "bids" /\ known' = known /\ job' = [job EXCEPT !.pc = pc] /\ pc \in {"closing", "wait"}
        BY <1>3 DEF CollectBids
    <2>2. job' \in Work(T) /\ job'.pc = pc /\ job'.dseq = job.dseq /\ job'.mine = job.mine
        BY <1>0, <2>1 DEF Typed, Work, Pcs
    <2> HIDE DEF pc
    <2>3. Typed(T)'
        BY <1>0, <1>1, <2>2 DEF Typed
    <2>4. job.pc \notin Before /\ job'.pc \notin Before
        BY <2>1, <2>2 DEF Before
    <2> QED BY <1>1, <2>1, <2>2, <2>3, <2>4, SameChain, MoveKeeps
<1>4. CASE ReadBids /\ ~Fails(job)
    <2>u. PICK U : U = T \cup {SelectBid(market, job.eligible), market}
        OBVIOUS
    <2>1. /\ job.pc = "bids" /\ known' = known
          /\ job' = [Polled EXCEPT !.pc = "lease"] \/ job' = [Polled EXCEPT !.pc = "wait"]
        BY <1>4 DEF ReadBids
    <2>2. job \in Work(T) /\ Settle \in Nat
        BY <1>0, TimeoutsAssumption DEF Typed
    <2>3. Polled \in Work(U) /\ Polled.dseq = job.dseq /\ Polled.mine = job.mine
        <3>1. CASE Polled = job
            BY <2>u, <2>2, <3>1 DEF Work
        <3>2. CASE Polled # job
            <4> DEFINE n == IF job.best = NoProvider THEN Settle ELSE job.settle
            <4>1. Polled = [job EXCEPT !.best = SelectBid(market, job.eligible), !.list = market, !.settle = n]
                BY <2>2, <3>2 DEF Polled, Work
            <4>2. n \in Nat
                BY <2>2 DEF Work
            <4> HIDE DEF n
            <4> QED BY <2>u, <2>2, <4>1, <4>2 DEF Work
        <3> QED BY <3>1, <3>2
    <2>4. job' \in Work(U) /\ job'.pc \in {"lease", "wait"} /\ job'.dseq = job.dseq /\ job'.mine = job.mine
        BY <2>1, <2>3 DEF Work, Pcs
    <2>5. chain' \in [Seqs -> Deployment(U)]
        BY <1>0, <1>1, <2>u DEF Typed, Deployment
    <2>6. Typed(U)'
        <3>1. NoProvider \in U /\ NoBids \in U
            BY <1>0, <2>u DEF Typed
        <3> QED BY <2>4, <2>5, <3>1 DEF Typed
    <2>7. job.pc \notin Before /\ job'.pc \notin Before
        BY <2>1, <2>4 DEF Before
    <2> QED BY <1>1, <2>1, <2>4, <2>6, <2>7, SameChain, MoveKeeps
<1>5. job.pc # "idle"
    BY DEF ReadBids, CollectBids, BidsFail, CreateFails
<1> QED BY <1>2, <1>3, <1>4, <1>5 DEF BidsFail, CreateFails

\* Taking a lease, and waiting for an address.
LEMMA LeaseKeeps ==
    ASSUME DriverInv, TakeLease \/ LeaseFails \/ Routed \/ NotRouted \/ NeverRouted
    PROVE  DriverInv'
<1>0. PICK T : Typed(T)
    BY Hand
<1>1. /\ UNCHANGED <<made, strays, sweep>> /\ job.pc \in {"lease", "status", "poll"} /\ job.pc \notin Before
      /\ job.dseq \in Seqs /\ job \in Work(T) /\ job.pc # "idle"
    <2>1. job.pc \in {"lease", "status", "poll"} /\ UNCHANGED <<made, strays, sweep>>
        BY DEF TakeLease, LeaseFails, Routed, NotRouted, NeverRouted
    <2> QED BY <1>0, <2>1, Hand DEF Before, Typed
<1>2. CASE TakeLease
    <2>1. /\ chain' = Leased /\ known' = known
          /\ job' = [job EXCEPT !.pc = "status", !.due = LeaseReady, !.list = NoBids]
        BY <1>2 DEF TakeLease
    <2>2. job' \in Work(T) /\ job'.pc = "status" /\ job'.dseq = job.dseq /\ job'.mine = job.mine
        BY <1>0, <1>1, <2>1, TimeoutsAssumption DEF Typed, Work, Pcs
    <2>3. Typed(T)'
        BY <1>0, <1>1, <2>1, <2>2, LeasedFacts DEF Typed
    <2>4. job'.pc \notin Before
        BY <2>2 DEF Before
    <2> QED BY <1>0, <1>1, <2>1, <2>2, <2>3, <2>4, LeasedFacts, MoveKeeps
<1>3. CASE LeaseFails
    <2>1. Fails(job) /\ (chain' = chain \/ chain' = Leased)
        BY <1>3 DEF LeaseFails
    <2>2. CASE chain' = chain
        <3>1. chain' \in [Seqs -> Deployment(T)]
            BY <1>0, <2>2 DEF Typed
        <3> QED BY <1>0, <1>1, <2>1, <2>2, <3>1, SameChain, FailKeeps
    <2>3. CASE chain' = Leased
        <3>1. /\ chain' \in [Seqs -> Deployment(T)]
              /\ NoneOpened
            BY <1>0, <1>1, <2>3, LeasedFacts
        <3> QED BY <1>0, <1>1, <2>1, <3>1, SameChain, FailKeeps
    <2> QED BY <2>1, <2>2, <2>3
<1>4. CASE Routed
    <2>1. chain' = chain /\ known' = known \cup {job.dseq}
        BY <1>4 DEF Routed
    <2>2. CASE job' = NoJob
        <3>1. Typed(T)' /\ job'.pc = "idle" /\ job'.dseq = 0 /\ job'.mine = {}
            BY <1>0, <2>1, <2>2, NoJobFacts DEF Typed
        <3>2. known \subseteq known' /\ known' \subseteq Seqs /\ job.dseq \in known'
            BY <1>1, <2>1, Hand
        <3> QED BY <1>1, <2>1, <3>1, <3>2, SameChain, Hand, Keeps DEF Before
    <2>3. CASE job' = [job EXCEPT !.pc = "closing", !.again = FALSE]
        <3>1. job' \in Work(T) /\ job'.pc = "closing" /\ job'.dseq = job.dseq /\ job'.mine = job.mine
            BY <1>1, <2>3 DEF Work, Pcs
        <3>2. Typed(T)'
            BY <1>0, <2>1, <3>1 DEF Typed
        <3>3. known \subseteq known' /\ known' \subseteq Seqs /\ job'.pc \notin Before
            BY <1>1, <2>1, <3>1, Hand DEF Before
        <3> QED BY <1>1, <2>1, <3>1, <3>2, <3>3, SameChain, Hand, Keeps
    <2> QED BY <1>4, <2>2, <2>3 DEF Routed
<1>5. CASE NotRouted
    <2>1. chain' = chain /\ known' = known /\ job' = [job EXCEPT !.pc = "poll"]
        BY <1>5 DEF NotRouted
    <2>2. job' \in Work(T) /\ job'.pc = "poll" /\ job'.dseq = job.dseq /\ job'.mine = job.mine
        BY <1>1, <2>1 DEF Work, Pcs
    <2>3. Typed(T)' /\ job'.pc \notin Before
        BY <1>0, <2>1, <2>2 DEF Typed, Before
    <2> QED BY <1>1, <2>1, <2>2, <2>3, SameChain, MoveKeeps
<1>6. CASE NeverRouted
    <2>1. Fails(job) /\ chain' = chain
        BY <1>6 DEF NeverRouted
    <2>2. chain' \in [Seqs -> Deployment(T)]
        BY <1>0, <2>1 DEF Typed
    <2> QED BY <1>0, <1>1, <2>1, <2>2, SameChain, FailKeeps
<1> QED BY <1>2, <1>3, <1>4, <1>5, <1>6

\* Closing, by whoever.
LEMMA CloseKeeps ==
    ASSUME DriverInv, CloseOwn \/ CloseOwnFails \/ (\E d \in Seqs : CloseKnown(d))
    PROVE  DriverInv'
<1>0. PICK T : Typed(T)
    BY Hand
<1>a. chain \in [Seqs -> Deployment(T)] /\ job \in Work(T)
    BY <1>0 DEF Typed
<1>1. CASE CloseOwn
    <2>1. job.pc \notin Before /\ job.dseq \in Seqs
        BY <1>1, Hand DEF CloseOwn, Before
    <2>2. chain' = Closed(job.dseq) /\ job' = NextAttempt /\ UNCHANGED <<made, known, strays, sweep>>
        BY <1>1 DEF CloseOwn
    <2>3. chain' \in [Seqs -> Deployment(T)] /\ chain'[job.dseq].open = FALSE
        BY <1>a, <2>1, <2>2, SameChain, ClosedFacts
    <2>4. job' \in Work(T) /\ job'.pc \in Before /\ job'.dseq = 0 /\ job'.mine \subseteq job.mine
        <3>1. CASE job' = NoJob
            BY <1>0, <3>1, NoJobFacts DEF Typed, Before
        <3>2. CASE job' = [NoJob EXCEPT !.role = job.role, !.pc = "shop", !.attempt = job.attempt + 1, !.mine = job.mine]
            <4>1. NoJob \in Work(T) /\ NoJob.dseq = 0
                BY <1>0, NoJobFacts DEF Typed
            <4>2. job.attempt + 1 \in Nat
                BY <1>a DEF Work
            <4> QED BY <1>a, <3>2, <4>1, <4>2 DEF Work, Pcs, Before
        <3> QED BY <2>2, <3>1, <3>2 DEF NextAttempt
    <2>5. Typed(T)'
        BY <1>0, <2>3, <2>4 DEF Typed
    <2>6. NoneOpened
        BY <1>a, <2>1, <2>2, SameChain, ClosedFacts
    <2>7. job.pc # "idle"
        BY <1>1 DEF CloseOwn
    <2> QED BY <2>1, <2>2, <2>3, <2>4, <2>5, <2>6, <2>7, SameChain, Hand, Keeps
<1>2. CASE CloseOwnFails
    <2>1. job.pc \notin Before /\ job.dseq \in Seqs
        BY <1>2, Hand DEF CloseOwnFails, Before
    <2>2. /\ chain' = chain \/ chain' = Closed(job.dseq)
          /\ job' = NoJob /\ known' = known \cup {job.dseq} /\ UNCHANGED <<made, strays, sweep>>
        BY <1>2 DEF CloseOwnFails
    <2>3. /\ chain' \in [Seqs -> Deployment(T)]
          /\ NoneOpened
        BY <1>a, <2>1, <2>2, SameChain, ClosedFacts
    <2>4. job' \in Work(T) /\ job'.pc = "idle" /\ job'.dseq = 0 /\ job'.mine = {}
        BY <1>0, <2>2, NoJobFacts DEF Typed
    <2>5. Typed(T)' /\ known \subseteq known' /\ known' \subseteq Seqs /\ job.dseq \in known'
        BY <1>0, <2>1, <2>2, <2>3, <2>4, Hand DEF Typed
    <2> QED BY <2>1, <2>2, <2>3, <2>4, <2>5, SameChain, Hand, Keeps DEF Before
<1>3. ASSUME NEW d \in Seqs, CloseKnown(d) PROVE DriverInv'
    <2>1. job.pc = "idle" /\ chain' = Closed(d) /\ UNCHANGED <<made, job, known, strays, sweep>>
        BY <1>3 DEF CloseKnown
    <2>2. /\ chain' \in [Seqs -> Deployment(T)]
          /\ NoneOpened
        BY <1>a, <2>1, ClosedFacts
    <2>3. Typed(T)' /\ job.dseq = 0
        BY <1>0, <2>1, <2>2, Hand DEF Typed, Before
    <2> QED BY <2>1, <2>2, <2>3, SameChain, Hand, Keeps DEF Before
<1> QED BY <1>1, <1>2, <1>3

\* The market, the providers and the clock.
LEMMA MarketKeeps ==
    ASSUME DriverInv,
           \/ \E d \in Seqs : WorkloadUp(d) \/ LeaseEnds(d)
           \/ \E p \in Provider, price \in Prices : BidArrives(p, price)
           \/ \E p \in Provider : BidGone(p)
           \/ Tick \/ UNCHANGED driverVars
    PROVE  DriverInv'
<1>0. PICK T : Typed(T)
    BY Hand
<1>1. ASSUME job' = job, chain' \in [Seqs -> Deployment(T)], UNCHANGED <<made, known, strays, sweep>>,
             NoneOpened
      PROVE  DriverInv'
    <2>1. Typed(T)'
        BY <1>0, <1>1 DEF Typed
    <2> QED BY <1>1, <2>1, SameChain, Hand, Keeps
<1>2. ASSUME NEW d \in Seqs, WorkloadUp(d) \/ LeaseEnds(d) PROVE DriverInv'
    <2>1. UNCHANGED <<made, job, known, strays, sweep>>
        BY <1>2 DEF WorkloadUp, LeaseEnds
    <2>2. /\ chain' \in [Seqs -> Deployment(T)]
          /\ NoneOpened
        BY <1>0, <1>2, ProviderFacts
    <2> QED BY <1>1, <2>1, <2>2
<1>3. CASE Tick
    <2>1. UNCHANGED <<chain, made, known, strays, sweep>>
        BY <1>3 DEF Tick
    <2> DEFINE pc == CASE job.pc = "wait" -> "bids" [] job.pc = "poll" -> "status" [] OTHER -> job.pc
    <2>2. job \in Work(T)
        BY <1>0 DEF Typed
    <2>3. job' = [job EXCEPT !.due = Less(job.due), !.settle = Less(job.settle), !.pc = pc]
        BY <1>3, <2>2 DEF Tick, Work
    <2>4. Less(job.due) \in Nat /\ Less(job.settle) \in Nat
        BY <2>2 DEF Less, Work
    <2>5. pc \in Pcs /\ (pc \in Before <=> job.pc \in Before) /\ (job.pc = "idle" => pc = "idle")
        BY <2>2 DEF Work, Pcs, Before
    <2> HIDE DEF pc
    <2>6. job' \in Work(T) /\ job'.pc = pc /\ job'.dseq = job.dseq /\ job'.mine = job.mine
        BY <2>2, <2>3, <2>4, <2>5 DEF Work
    <2>7. Typed(T)'
        BY <1>0, <2>1, <2>6 DEF Typed
    <2> QED BY <2>1, <2>5, <2>6, <2>7, SameChain, Hand, Keeps
<1>4. CASE UNCHANGED driverVars
    BY <1>0, <1>1, <1>4, SameChain DEF driverVars, Typed
<1>5. CASE (\E p \in Provider, price \in Prices : BidArrives(p, price)) \/ (\E p \in Provider : BidGone(p))
    <2>1. UNCHANGED <<chain, made, job, known, strays, sweep>>
        BY <1>5 DEF BidArrives, BidGone
    <2> QED BY <1>0, <1>1, <2>1, SameChain DEF Typed
<1> QED BY <1>2, <1>3, <1>4, <1>5

\* A create: what it made is in hand, or astray.
LEMMA CreateKeeps ==
    ASSUME DriverInv, Create \/ CreateUnanswered
    PROVE  DriverInv'
<1>0. PICK T : Typed(T)
    BY Hand
<1>1. job.pc = "create" /\ Created /\ sweep' = sweep
    BY DEF Create, CreateUnanswered
<1>2. job.dseq = 0 /\ made \in 0..MaxDeployments /\ job.mine \subseteq 1..made /\ job \in Work(T)
    BY <1>0, <1>1, Hand DEF Before, Typed
<1>3. /\ chain' \in [Seqs -> Deployment(T)] /\ made' = made + 1 /\ made' \in 0..MaxDeployments
      /\ made + 1 \in Seqs /\ chain'[made + 1].open = TRUE
      /\ \A d \in Seqs \ {made + 1} : chain'[d] = chain[d]
    BY <1>0, <1>1, <1>2, CreatedFacts DEF Typed
<1>4. sweep.on = FALSE /\ sweep.whole = FALSE
    BY <1>1 DEF DriverInv, DriverBase
<1>5. SweepFinds'
    BY <1>1, <1>4 DEF SweepFinds
<1>6. \A d \in Seqs : chain'[d].open = TRUE => d <= made'
    <2>1. \A d \in Seqs : chain[d].open = TRUE => d <= made
        BY DEF DriverInv, DriverBase
    <2> QED BY <1>2, <1>3, <2>1 DEF Seqs
<1>7. sweep' \in [on : BOOLEAN, todo : SUBSET Seqs, claimed : SUBSET Seqs, whole : BOOLEAN]
    BY <1>1 DEF DriverInv, DriverBase
<1>8. \A d \in job.mine : d \in Seqs /\ d # made + 1 /\ chain[d].open = FALSE
    <2>1. \A d \in job.mine : d \in 1..made /\ d # 0 /\ d # made + 1 /\ d \in Seqs
        BY <1>2, DriverBoundsAssumption DEF Seqs
    <2> QED BY <1>2, <2>1 DEF DriverInv, FormerClosed
<1>9. \A d \in Seqs \ {made + 1} : chain'[d].open = TRUE => d \in known \/ d \in strays
    <2>1. \A d \in Seqs : d # 0
        BY DEF Seqs
    <2> QED BY <1>2, <1>3, <2>1 DEF DriverInv, Accounted
<1>10. CASE Create
    <2> DEFINE j == [job EXCEPT !.dseq = made + 1, !.mine = job.mine \cup {made + 1}]
    <2>1. j \in Work(T) /\ j.dseq = made + 1 /\ j.mine = job.mine \cup {made + 1} /\ j.dseq # 0
        <3>1. made + 1 \in Nat /\ made + 1 # 0 /\ job.mine \cup {made + 1} \in SUBSET Nat
            BY <1>2 DEF Work
        <3> QED BY <1>2, <3>1 DEF Work
    <2>2. /\ strays' = strays
          /\ \/ job' = [j EXCEPT !.pc = "bids", !.due = BidWait] /\ known' = known
             \/ Fails(j)
        BY <1>10 DEF Create
    <2> HIDE DEF j
    <2>3. /\ job' \in Work(T) /\ job'.pc \in {"bids", "closing"} /\ job'.dseq = made + 1
          /\ job'.mine = job.mine \cup {made + 1}
          /\ known' = known \/ known' = known \cup {made + 1}
        <3>1. CASE Fails(j)
            <4>1. NoProvider \in T /\ NoBids \in T
                BY <1>0 DEF Typed
            <4> QED BY <2>1, <3>1, <4>1, FailsFacts
        <3>2. CASE job' = [j EXCEPT !.pc = "bids", !.due = BidWait] /\ known' = known
            BY <2>1, <3>2, TimeoutsAssumption DEF Work, Pcs
        <3> QED BY <2>2, <3>1, <3>2
    <2>4. Typed(T)'
        BY <1>0, <1>3, <2>3 DEF Typed
    <2>5. job'.mine \subseteq 1..made' /\ job'.dseq \in 1..made'
        BY <1>2, <1>3, <2>3
    <2>6. OneInHand'
        BY <2>3, <2>5 DEF OneInHand, Before
    <2>7. known' \subseteq Seqs /\ strays' \subseteq Seqs /\ known \subseteq known'
        BY <1>3, <2>2, <2>3, Hand
    <2>8. \E U : Typed(U)'
        BY <2>4
    <2>9. DriverBase'
        BY <1>1, <1>3, <1>4, <1>6, <1>7, <2>6, <2>7, <2>8 DEF DriverBase
    <2>10. Accounted'
        BY <1>9, <2>2, <2>3, <2>7 DEF Accounted
    <2>11. FormerClosed'
        BY <1>3, <1>8, <2>3 DEF FormerClosed
    <2> QED BY <1>5, <2>9, <2>10, <2>11 DEF DriverInv
<1>11. CASE CreateUnanswered
    <2>1. job' = job /\ known' = known /\ strays' = strays \cup {made + 1}
        BY <1>11 DEF CreateUnanswered
    <2>2. Typed(T)'
        BY <1>0, <1>3, <2>1 DEF Typed
    <2>3. OneInHand'
        BY <1>1, <1>2, <1>3, <2>1 DEF OneInHand, Before
    <2>4. known' \subseteq Seqs /\ strays' \subseteq Seqs
        BY <1>3, <2>1, Hand
    <2>5. \E U : Typed(U)'
        BY <2>2
    <2>6. DriverBase'
        BY <1>1, <1>3, <1>4, <1>6, <1>7, <2>3, <2>4, <2>5 DEF DriverBase
    <2>7. Accounted'
        BY <1>9, <2>1 DEF Accounted
    <2>8. FormerClosed'
        BY <1>3, <1>8, <2>1 DEF FormerClosed
    <2> QED BY <1>5, <2>6, <2>7, <2>8 DEF DriverInv
<1> QED BY <1>10, <1>11

\* Sweeping: nothing is made or closed, and more may come to be known.
LEMMA SweepKeeps ==
    ASSUME DriverInv, AdoptList \/ AdoptStep
    PROVE  DriverInv'
<1>0. PICK T : Typed(T)
    BY Hand
<1> DEFINE Sweeps == [on : BOOLEAN, todo : SUBSET Seqs, claimed : SUBSET Seqs, whole : BOOLEAN]
<1>1. UNCHANGED <<chain, made, job, strays>>
    BY DEF AdoptList, AdoptStep, AdoptLook, AdoptEnd
<1>2. sweep \in Sweeps
    BY DEF DriverInv, DriverBase
<1>3. SUFFICES ASSUME sweep' \in Sweeps, known \subseteq known', known' \subseteq Seqs,
                      job.pc # "idle" => sweep'.on = FALSE /\ sweep'.whole = FALSE, SweepFinds'
               PROVE  DriverInv'
    <2>1. CASE AdoptList
        <3> DEFINE opened == {d \in Seqs : chain[d].open}
        <3>1. sweep' = [on |-> TRUE, todo |-> opened, claimed |-> {}, whole |-> TRUE]
              /\ known' = known /\ job.pc = "idle"
            BY <2>1 DEF AdoptList
        <3>2. \A d \in strays : chain[d].open = TRUE => d \in opened
            BY Hand
        <3>3. opened \subseteq Seqs
            OBVIOUS
        <3> HIDE DEF opened
        <3>4. SweepFinds'
            BY <1>1, <3>1, <3>2 DEF SweepFinds
        <3> QED BY <1>3, <3>1, <3>3, <3>4, Hand
    <2>2. CASE AdoptLook
        <3>1. PICK d \in sweep.todo :
                \/ sweep' = [sweep EXCEPT !.todo = @ \ {d},
                                          !.claimed = IF Adoptable(d) THEN @ \cup {d} ELSE @]
                \/ sweep' = [sweep EXCEPT !.todo = @ \ {d}, !.whole = FALSE]
            BY <2>2 DEF AdoptLook
        <3>2. known' = known
            BY <2>2 DEF AdoptLook
        <3>3. job.pc # "idle" => sweep.on = FALSE /\ sweep.whole = FALSE
            BY DEF DriverInv, DriverBase
        <3>4. CASE sweep' = [sweep EXCEPT !.todo = @ \ {d}, !.whole = FALSE]
            <4>1. sweep' \in Sweeps /\ sweep'.whole = FALSE /\ sweep'.on = sweep.on
                BY <1>2, <3>4
            <4>2. SweepFinds'
                BY <4>1 DEF SweepFinds
            <4> QED BY <1>3, <3>2, <3>3, <4>1, <4>2, Hand
        <3>5. CASE sweep' = [sweep EXCEPT !.todo = @ \ {d},
                                          !.claimed = IF Adoptable(d) THEN @ \cup {d} ELSE @]
            <4> DEFINE c == IF Adoptable(d) THEN sweep.claimed \cup {d} ELSE sweep.claimed
            <4>1. c \subseteq Seqs /\ sweep.claimed \subseteq c /\ (Adoptable(d) => d \in c)
                BY <1>2, <3>1
            <4>2. sweep' = [sweep EXCEPT !.todo = sweep.todo \ {d}, !.claimed = c]
                BY <1>2, <3>5
            <4> HIDE DEF c
            <4>3. /\ sweep' \in Sweeps /\ sweep'.whole = sweep.whole /\ sweep'.on = sweep.on
                  /\ sweep'.todo = sweep.todo \ {d} /\ sweep'.claimed = c
                BY <1>2, <4>1, <4>2
            <4>4. ASSUME sweep.whole = TRUE, AdoptUnleased, NEW e \in strays,
                         chain[e].open = TRUE, chain[e].lease = "none", e \notin known
                  PROVE  sweep.on = TRUE /\ e \in (sweep.todo \ {d}) \cup c
                <5>1. sweep.on = TRUE /\ e \in sweep.todo \cup sweep.claimed
                    BY <4>4 DEF DriverInv, SweepFinds
                <5>2. e = d => Adoptable(d)
                    BY <4>4 DEF Adoptable
                <5> QED BY <4>1, <5>1, <5>2
            <4>5. SweepFinds'
                BY <1>1, <3>2, <4>3, <4>4 DEF SweepFinds
            <4> QED BY <1>3, <3>2, <3>3, <4>3, <4>5, Hand
        <3> QED BY <3>1, <3>4, <3>5
    <2>3. CASE AdoptEnd
        <3>1. /\ sweep.on /\ sweep.todo = {} /\ known' = known \cup sweep.claimed
              /\ sweep' = [sweep EXCEPT !.on = FALSE, !.claimed = {}]
            BY <2>3 DEF AdoptEnd
        <3>2. sweep' \in Sweeps /\ sweep'.on = FALSE /\ sweep'.whole = sweep.whole
            BY <1>2, <3>1
        <3>3. job.pc # "idle" => sweep.whole = FALSE
            BY DEF DriverInv, DriverBase
        <3>4. SweepFinds'
            BY <1>1, <3>1, <3>2 DEF DriverInv, SweepFinds
        <3>5. known \subseteq known' /\ known' \subseteq Seqs
            BY <1>2, <3>1, Hand
        <3> QED BY <1>3, <3>2, <3>3, <3>4, <3>5
    <2> QED BY <2>1, <2>2, <2>3 DEF AdoptStep
<1>4. Typed(T)'
    BY <1>0, <1>1 DEF Typed
<1>5. \E U : Typed(U)'
    BY <1>4
<1>6. DriverBase'
    BY <1>1, <1>3, <1>5 DEF DriverInv, DriverBase, OneInHand
<1>7. Accounted'
    BY <1>1, <1>3 DEF DriverInv, Accounted
<1>8. FormerClosed'
    BY <1>1 DEF DriverInv, FormerClosed
<1> QED BY <1>3, <1>6, <1>7, <1>8 DEF DriverInv

\* A death: what was in hand is astray, if nobody was told of it.
LEMMA CrashKeeps == ASSUME DriverInv, DriverCrash PROVE DriverInv'
<1>0. PICK T : Typed(T)
    BY Hand
<1>1. /\ strays' = strays \cup ({job.dseq} \ ({0} \cup known))
      /\ job' = NoJob /\ sweep' = NoSweep /\ UNCHANGED <<chain, made, known>>
    BY DEF DriverCrash
<1>2. Typed(T)' /\ job'.pc = "idle" /\ job'.dseq = 0 /\ job'.mine = {}
    BY <1>0, <1>1, NoJobFacts DEF Typed
<1>3. strays \subseteq strays' /\ strays' \subseteq Seqs
    BY <1>1, Hand
<1>4. job.pc \in Before \/ job.dseq \in known' \cup strays'
    BY <1>1, Hand
<1> QED BY <1>1, <1>2, <1>3, <1>4, SameChain, Hand, Keeps DEF Before

-----------------------------------------------------------------------------
\* The invariant is inductive.
LEMMA DriverInvNext == ASSUME DriverInv, [DriverNext]_driverVars PROVE DriverInv'
<1>1. CASE \E role \in Roles : Start(role)
    BY <1>1, ShopKeeps
<1>2. CASE JobStep
    BY <1>2, ShopKeeps, CreateKeeps, BidsKeep, LeaseKeeps, CloseKeeps DEF JobStep
<1>3. CASE \E d \in Seqs : CloseKnown(d)
    BY <1>3, CloseKeeps
<1>4. CASE AdoptList \/ AdoptStep
    BY <1>4, SweepKeeps
<1>5. CASE DriverCrash
    BY <1>5, CrashKeeps
<1>6. CASE \/ \E d \in Seqs : WorkloadUp(d) \/ LeaseEnds(d)
           \/ \E p \in Provider, price \in Prices : BidArrives(p, price)
           \/ \E p \in Provider : BidGone(p)
           \/ Tick \/ UNCHANGED driverVars
    BY <1>6, MarketKeeps
<1>7. QED
    BY <1>1, <1>2, <1>3, <1>4, <1>5, <1>6 DEF DriverNext

\* Every open deployment is on somebody's list, in hand, or astray after an answer that
\* never came or a death; and a sweep that read everything leaves no stray that was never
\* leased unknown (deploy.go, QuoteServer, Adopt).
THEOREM EscrowsAreAccountedFor == DriverSpec => []NothingUnaccounted
<1>1. DriverInv => NothingUnaccounted
    <2> SUFFICES ASSUME DriverInv PROVE NothingUnaccounted
        OBVIOUS
    <2>1. PICK T : Typed(T)
        BY Hand
    <2>2. \A d \in Seqs : chain[d].open \in BOOLEAN
        BY <2>1 DEF Typed, Deployment
    <2>3. sweep.on \in BOOLEAN /\ sweep.whole \in BOOLEAN /\ strays \subseteq Seqs
        BY DEF DriverInv, DriverBase
    <2>4. ASSUME NEW d \in Seqs, chain[d].open PROVE d \in known \/ d = job.dseq \/ d \in strays
        BY <2>2, <2>4 DEF DriverInv, Accounted
    <2>5. ASSUME sweep.whole, ~sweep.on, AdoptUnleased, NEW d \in strays,
                 chain[d].open, chain[d].lease = "none"
          PROVE  d \in known
        <3>1. sweep.whole = TRUE /\ sweep.on = FALSE /\ chain[d].open = TRUE
            BY <2>2, <2>3, <2>5
        <3> QED BY <2>5, <3>1 DEF DriverInv, SweepFinds
    <2> QED BY <2>4, <2>5 DEF NothingUnaccounted, StraysFound
<1>2. QED
    BY <1>1, DriverInvInit, DriverInvNext, PTL DEF DriverSpec

\* While an attempt is under way the deployments of the ones before it are closed: there
\* are never two servers on one world (akashDeploy).
THEOREM AttemptsFollowCloses == DriverSpec => []OneAttemptOpen
<1>1. DriverInv => OneAttemptOpen
    BY DEF DriverInv, FormerClosed, OneAttemptOpen
<1>2. QED
    BY <1>1, DriverInvInit, DriverInvNext, PTL DEF DriverSpec

-----------------------------------------------------------------------------
(* Selection.                                                              *)

\* Of some naturals one is the least.
LEMMA LeastNat == ASSUME NEW S \in SUBSET Nat, S # {} PROVE \E x \in S : \A y \in S : x <= y
<1> DEFINE R == {ss \in Nat \X Nat : ss[1] < ss[2]}
<1>1. IsWellFoundedOn(R, Nat)
    BY NatLessThanWellFounded DEF OpToRel
<1>2. PICK x \in S : \A y \in S : ~(<<y, x>> \in R)
    <2> HIDE DEF R
    <2> QED BY <1>1, WFMin
<1>3. \A y \in S : x <= y
    <2> TAKE y \in S
    <2>1. ~(<<y, x>> \in R) /\ x \in Nat /\ y \in Nat
        BY <1>2
    <2>2. ~(y < x)
        BY <2>1, SMT
    <2> QED BY <2>1, <2>2
<1> QED BY <1>3

\* Of some things with a measure one has the least.
LEMMA LeastOf ==
    ASSUME NEW S, S # {}, NEW f, \A x \in S : f[x] \in Nat
    PROVE  \E x \in S : \A y \in S : f[x] <= f[y]
<1> DEFINE N == {f[x] : x \in S}
<1>1. PICK n \in N : \A m \in N : n <= m
    <2>1. N \in SUBSET Nat /\ N # {}
        OBVIOUS
    <2> HIDE DEF N
    <2> QED BY <2>1, LeastNat
<1>2. PICK x \in S : n = f[x]
    OBVIOUS
<1> QED BY <1>1, <1>2

\* The order of the bids has a first one in every list.
LEMMA CheapestExists ==
    ASSUME NEW C \in SUBSET Provider, C # {}, NEW list, \A p \in C : list[p] \in Nat
    PROVE  \E low \in C : \A q \in C \ {low} : Cheaper(list, low, q)
<1>0. \A p \in C : Distance[p] \in Nat /\ p \in Nat
    BY MarketAssumption
<1>1. PICK a \in C : \A q \in C : list[a] <= list[q]
    BY LeastOf
<1> DEFINE A == {q \in C : list[q] = list[a]}
<1>2. PICK b \in A : \A q \in A : Distance[b] <= Distance[q]
    <2>1. A # {} /\ \A q \in A : Distance[q] \in Nat
        BY <1>0
    <2> HIDE DEF A
    <2> QED BY <2>1, LeastOf
<1> DEFINE B == {q \in A : Distance[q] = Distance[b]}
<1>3. PICK c \in B : \A q \in B : c <= q
    <2>1. B \in SUBSET Nat /\ B # {}
        BY <1>0
    <2> HIDE DEF B
    <2> QED BY <2>1, LeastNat
<1>4. ASSUME NEW q \in C, q # c PROVE Cheaper(list, c, q)
    <2>1. list[c] = list[a] /\ Distance[c] = Distance[b] /\ list[a] <= list[q]
        BY <1>1
    <2>2. list[q] = list[a] => Distance[b] <= Distance[q]
        BY <1>2
    <2>3. list[q] = list[a] /\ Distance[q] = Distance[b] => c <= q
        BY <1>3
    <2>4. {list[a], list[q], Distance[b], Distance[q], c, q} \subseteq Nat
        BY <1>0
    <2> QED BY <1>4, <2>1, <2>2, <2>3, <2>4 DEF Cheaper
<1> QED BY <1>4

\* A product grows with its factor.
LEMMA Grows == \A a, b, c \in Nat : a <= b => c * a <= c * b
OBVIOUS

GoodBid(best, list, eligible) ==
    LET cands == Affordable(list, eligible) IN
    /\ best \in cands
    /\ \A q \in cands :
        /\ InBand(list, best, q)
        /\ ~(Distance[q] < Distance[best] /\ list[q] <= list[best])

\* What SelectBid gives is a good bid.
LEMMA SelectsAGoodBid ==
    ASSUME NEW list \in [Provider -> Nat], NEW eligible \in SUBSET Provider,
           SelectBid(list, eligible) # NoProvider
    PROVE  GoodBid(SelectBid(list, eligible), list, eligible)
<1> DEFINE C == Affordable(list, eligible)
           low == CHOOSE p \in C : \A q \in C \ {p} : Cheaper(list, p, q)
           band == {p \in C : InBand(list, p, low)}
           First(p) == \A q \in band \ {p} :
                Distance[p] < Distance[q] \/ (Distance[p] = Distance[q] /\ Cheaper(list, p, q))
           choice == CHOOSE p \in band : First(p)
<1>0. C \in SUBSET Provider /\ C # {} /\ \A p \in C : list[p] \in Nat /\ Distance[p] \in Nat /\ p \in Nat
    <2>1. C # {}
        BY DEF SelectBid
    <2> QED BY <2>1, MarketAssumption DEF Affordable
<1>1. SelectBid(list, eligible) = choice
    BY <1>0 DEF SelectBid
<1> HIDE DEF C
<1>2. low \in C /\ \A q \in C \ {low} : Cheaper(list, low, q)
    BY <1>0, CheapestExists
<1> HIDE DEF low
<1>3. \A q \in C : list[low] <= list[q]
    BY <1>0, <1>2 DEF Cheaper
<1>4. low \in band
    <2>1. 100 * list[low] <= (100 + Tolerance) * list[low]
        BY <1>0, <1>2, DriverConfigAssumption
    <2> QED BY <1>2, <2>1 DEF InBand
<1>5. \E p \in band : First(p)
    <2>1. band # {} /\ \A p \in band : Distance[p] \in Nat /\ p \in C
        BY <1>0, <1>4
    <2>2. PICK b \in band : \A q \in band : Distance[b] <= Distance[q]
        <3> HIDE DEF band
        <3> QED BY <2>1, LeastOf
    <2> DEFINE D == {q \in band : Distance[q] = Distance[b]}
    <2>3. PICK c \in D : \A q \in D \ {c} : Cheaper(list, c, q)
        <3>1. D \in SUBSET Provider /\ D # {} /\ \A p \in D : list[p] \in Nat
            BY <1>0, <2>1
        <3> HIDE DEF D
        <3> QED BY <3>1, CheapestExists
    <2>4. ASSUME NEW q \in band, q # c
          PROVE  Distance[c] < Distance[q] \/ (Distance[c] = Distance[q] /\ Cheaper(list, c, q))
        <3>1. Distance[c] = Distance[b] /\ Distance[b] <= Distance[q]
            BY <2>2
        <3>2. Distance[q] = Distance[b] => Cheaper(list, c, q)
            BY <2>3, <2>4
        <3> HIDE DEF band
        <3> QED BY <2>1, <3>1, <3>2
    <2> QED BY <2>4
<1>6. choice \in band /\ First(choice)
    BY <1>5
<1> HIDE DEF choice
<1>7. choice \in C /\ InBand(list, choice, low)
    BY <1>6
<1>8. ASSUME NEW q \in C PROVE InBand(list, choice, q)
    <2>1. (100 + Tolerance) * list[low] <= (100 + Tolerance) * list[q]
        BY <1>0, <1>2, <1>3, DriverConfigAssumption, Grows
    <2>2. 100 * list[choice] <= (100 + Tolerance) * list[low]
        BY <1>7 DEF InBand
    <2>3. 100 * list[choice] \in Nat
        BY <1>0, <1>7
    <2>4. (100 + Tolerance) * list[low] \in Nat /\ (100 + Tolerance) * list[q] \in Nat
        BY <1>0, <1>2, DriverConfigAssumption
    <2> QED BY <2>1, <2>2, <2>3, <2>4 DEF InBand
<1>9. ASSUME NEW q \in C, Distance[q] < Distance[choice], list[q] <= list[choice] PROVE FALSE
    <2>1. 100 * list[q] <= 100 * list[choice] /\ 100 * list[choice] <= (100 + Tolerance) * list[low]
        BY <1>0, <1>7, <1>9 DEF InBand
    <2>2. 100 * list[q] \in Nat /\ 100 * list[choice] \in Nat /\ (100 + Tolerance) * list[low] \in Nat
        BY <1>0, <1>2, <1>7, DriverConfigAssumption
    <2>3. q \in band
        BY <2>1, <2>2 DEF InBand
    <2>4. q # choice
        BY <1>0, <1>9
    <2>5. Distance[choice] <= Distance[q]
        BY <1>0, <1>6, <1>7, <2>3, <2>4
    <2> QED BY <1>0, <1>7, <1>9, <2>5
<1> QED BY <1>1, <1>7, <1>8, <1>9 DEF GoodBid, C

\* Those a job may take can give the address it will wait for, and none failed lately;
\* its choice is a good one of the list it remembers.
BidInv ==
    /\ market \in [Provider -> Nat] /\ skips \in [Provider -> Nat]
    /\ job.pc \in {"shop", "create"} => job.best = NoProvider
    /\ job.pc \in {"create", "bids", "wait", "lease"} =>
        \A p \in job.eligible : p \in Provider /\ skips[p] = 0 /\ (WantsIP(job.role) => p \in HasIP)
    /\ job.pc \in {"bids", "wait", "lease"} =>
        job.best = NoProvider \/ GoodBid(job.best, job.list, job.eligible)
    /\ job.pc = "lease" => job.best # NoProvider

\* Between jobs, and once a lease is taken or given up, nothing is to be chosen.
LEMMA NothingToChoose ==
    ASSUME job'.pc \in {"idle", "status", "poll", "closing"}, market' \in [Provider -> Nat],
           skips' \in [Provider -> Nat]
    PROVE  BidInv'
BY DEF BidInv

\* Leaving a provider alone, and passing the time.
LEMMA SkipsTyped ==
    ASSUME skips \in [Provider -> Nat], Skip(job.best)
    PROVE  skips' \in [Provider -> Nat]
BY TimeoutsAssumption DEF Skip

\* The steps that choose keep it.
LEMMA BidInvNext == ASSUME DriverInv, BidInv, [DriverNext]_driverVars PROVE BidInv'
<1>0. PICK T : Typed(T)
    BY Hand
<1>a. job \in Work(T) /\ market \in [Provider -> Nat] /\ skips \in [Provider -> Nat] /\ NoBids \in [Provider -> Nat]
    BY <1>0 DEF Typed, BidInv, NoBids
<1>b. NoJob.pc = "idle" /\ NoJob.best = NoProvider
    BY DEF NoJob
<1>c. ASSUME Fails(job) PROVE job'.pc \in {"idle", "closing"}
    BY <1>0, <1>a, <1>c, FailsFacts DEF Typed
<1>d. ASSUME UNCHANGED <<market, job, skips>> PROVE BidInv'
    BY <1>d DEF BidInv
<1>1. ASSUME NEW role \in Roles, Start(role) PROVE BidInv'
    <2>1. job' = [NoJob EXCEPT !.role = role, !.pc = "shop", !.attempt = 1] /\ UNCHANGED <<market, skips>>
        BY <1>1 DEF Start
    <2>2. job'.pc = "shop" /\ job'.best = NoProvider
        BY <2>1 DEF NoJob
    <2> QED BY <1>a, <2>1, <2>2 DEF BidInv
<1>2. CASE Shop
    <2>1. job.pc = "shop" /\ UNCHANGED <<market, skips>>
        BY <1>2 DEF Shop
    <2>2. CASE job' = NoJob
        BY <1>a, <1>b, <2>1, <2>2, NothingToChoose
    <2>3. ASSUME NEW online \in SUBSET Provider,
                 job' = [job EXCEPT !.pc = "create", !.eligible = Eligible(job.role, online)]
          PROVE  BidInv'
        <3>1. job'.pc = "create" /\ job'.best = NoProvider /\ job'.role = job.role
              /\ job'.eligible = Eligible(job.role, online)
            BY <1>a, <2>1, <2>3 DEF Work, BidInv
        <3> QED BY <1>a, <2>1, <3>1 DEF BidInv, Eligible, WantsIP
    <2> QED BY <1>2, <2>2, <2>3 DEF Shop
<1>3. CASE Create
    <2> DEFINE j == [job EXCEPT !.dseq = made + 1, !.mine = job.mine \cup {made + 1}]
    <2>1. /\ job.pc = "create" /\ market' = NoBids /\ UNCHANGED skips
          /\ \/ job' = [j EXCEPT !.pc = "bids", !.due = BidWait]
             \/ Fails(j)
        BY <1>3 DEF Create, Created
    <2>2. /\ j \in Work(T) /\ j.best = job.best /\ j.eligible = job.eligible /\ j.role = job.role
        <3>1. job.dseq = 0 /\ made + 1 \in Nat /\ job.mine \cup {made + 1} \in SUBSET Nat
            BY <1>a, <2>1, Hand DEF Work, Before
        <3> QED BY <1>a, <3>1 DEF Work
    <2> HIDE DEF j
    <2>3. CASE Fails(j)
        <3>1. job'.pc \in {"idle", "closing"}
            BY <1>0, <2>2, <2>3, FailsFacts DEF Typed
        <3> QED BY <1>a, <2>1, <3>1, NothingToChoose
    <2>4. CASE job' = [j EXCEPT !.pc = "bids", !.due = BidWait]
        <3>1. job'.pc = "bids" /\ job'.best = NoProvider /\ job'.eligible = job.eligible /\ job'.role = job.role
            BY <2>1, <2>2, <2>4 DEF Work, BidInv
        <3> QED BY <1>a, <2>1, <3>1 DEF BidInv, WantsIP
    <2> QED BY <2>1, <2>3, <2>4
<1>4. CASE CreateUnanswered
    <2>1. market' = NoBids /\ UNCHANGED <<job, skips>> /\ job.pc = "create"
        BY <1>4 DEF CreateUnanswered, Created
    <2> QED BY <1>a, <2>1 DEF BidInv
<1>5. CASE CreateFails \/ BidsFail
    <2>1. Fails(job) /\ UNCHANGED <<market, skips>>
        BY <1>5 DEF CreateFails, BidsFail
    <2> QED BY <1>a, <1>c, <2>1, NothingToChoose
<1>6. CASE ReadBids
    <2>1. job.pc = "bids" /\ UNCHANGED <<market, skips>>
        BY <1>6 DEF ReadBids
    <2>2. CASE Fails(job)
        BY <1>a, <1>c, <2>1, <2>2, NothingToChoose
    <2>3. CASE ~Fails(job)
        <3> DEFINE choice == SelectBid(market, job.eligible)
                   n == IF job.best = NoProvider THEN Settle ELSE job.settle
        <3>1. \/ job' = [Polled EXCEPT !.pc = "lease"] /\ Polled.best # NoProvider
              \/ job' = [Polled EXCEPT !.pc = "wait"]
            BY <1>6, <2>3 DEF ReadBids
        <3>2. \/ Polled = job
              \/ choice # NoProvider /\ Polled = [job EXCEPT !.best = choice, !.list = market, !.settle = n]
            BY <1>a DEF Polled, Work
        <3> HIDE DEF choice, n
        <3>3. Polled.eligible = job.eligible /\ Polled.role = job.role
              /\ \/ Polled.best = job.best /\ Polled.list = job.list
                 \/ choice # NoProvider /\ Polled.best = choice /\ Polled.list = market
            BY <1>a, <3>2 DEF Work
        <3>4. Polled.best = NoProvider \/ GoodBid(Polled.best, Polled.list, Polled.eligible)
            <4>1. job.eligible \in SUBSET Provider
                BY <1>a DEF Work
            <4>2. choice # NoProvider => GoodBid(choice, market, job.eligible)
                BY <1>a, <4>1, SelectsAGoodBid DEF choice
            <4> QED BY <2>1, <3>3, <4>2 DEF BidInv
        <3>5. /\ job'.best = Polled.best /\ job'.list = Polled.list /\ job'.eligible = job.eligible
              /\ job'.role = job.role
              /\ job'.pc = "wait" \/ (job'.pc = "lease" /\ Polled.best # NoProvider)
            <4>1. PICK U : Polled \in Work(U)
                <5>1. PICK U : U = T \cup {choice, market}
                    OBVIOUS
                <5>2. job \in Work(U)
                    BY <1>a, <5>1 DEF Work
                <5>3. n \in Nat
                    BY <1>a, TimeoutsAssumption DEF n, Work
                <5>4. Polled \in Work(U)
                    BY <3>2, <5>1, <5>2, <5>3 DEF Work
                <5> QED BY <5>4
            <4> QED BY <3>1, <3>3, <4>1 DEF Work
        <3> QED BY <1>a, <2>1, <3>3, <3>4, <3>5 DEF BidInv, WantsIP
    <2> QED BY <2>2, <2>3
<1>7. CASE CollectBids
    <2>1. job.pc = "bids" /\ UNCHANGED <<market, skips>>
          /\ job' = [job EXCEPT !.pc = IF job.due = 0 THEN "closing" ELSE "wait"]
        BY <1>7 DEF CollectBids
    <2>2. /\ job'.pc \in {"closing", "wait"} /\ job'.best = job.best /\ job'.list = job.list
          /\ job'.eligible = job.eligible /\ job'.role = job.role
        BY <1>a, <2>1 DEF Work
    <2> QED BY <2>1, <2>2 DEF BidInv, WantsIP
<1>8. CASE TakeLease
    <2>1. market' = NoBids /\ UNCHANGED skips /\ job' = [job EXCEPT !.pc = "status", !.due = LeaseReady, !.list = NoBids]
        BY <1>8 DEF TakeLease
    <2>2. job'.pc = "status"
        BY <1>a, <2>1 DEF Work
    <2> QED BY <1>a, <2>1, <2>2, NothingToChoose
<1>9. CASE LeaseFails \/ NeverRouted
    <2>1. Fails(job) /\ Skip(job.best) /\ UNCHANGED market
        BY <1>9 DEF LeaseFails, NeverRouted
    <2> QED BY <1>a, <1>c, <2>1, SkipsTyped, NothingToChoose
<1>10. CASE Routed
    <2>1. UNCHANGED <<market, skips>> /\ (job' = NoJob \/ job' = [job EXCEPT !.pc = "closing", !.again = FALSE])
        BY <1>10 DEF Routed
    <2>2. job'.pc \in {"idle", "closing"}
        BY <1>a, <1>b, <2>1 DEF Work
    <2> QED BY <1>a, <2>1, <2>2, NothingToChoose
<1>11. CASE NotRouted
    <2>1. UNCHANGED <<market, skips>> /\ job' = [job EXCEPT !.pc = "poll"]
        BY <1>11 DEF NotRouted
    <2>2. job'.pc = "poll"
        BY <1>a, <2>1 DEF Work
    <2> QED BY <1>a, <2>1, <2>2, NothingToChoose
<1>12. CASE CloseOwn
    <2>1. market' = NoBids /\ UNCHANGED skips /\ job' = NextAttempt
        BY <1>12 DEF CloseOwn
    <2>2. job'.pc \in {"idle", "shop"} /\ job'.best = NoProvider
        BY <2>1 DEF NextAttempt, NoJob
    <2> QED BY <1>a, <2>1, <2>2 DEF BidInv
<1>13. CASE CloseOwnFails
    <2>1. UNCHANGED <<market, skips>> /\ job' = NoJob
        BY <1>13 DEF CloseOwnFails
    <2> QED BY <1>a, <1>b, <2>1, NothingToChoose
<1>14. ASSUME NEW p \in Provider, NEW price \in Prices, BidArrives(p, price) PROVE BidInv'
    <2>1. price \in Nat
        BY MarketAssumption
    <2>2. market' \in [Provider -> Nat] /\ UNCHANGED <<job, skips>>
        BY <1>a, <1>14, <2>1 DEF BidArrives
    <2> QED BY <2>2 DEF BidInv
<1>15. ASSUME NEW p \in Provider, BidGone(p) PROVE BidInv'
    <2>1. market' \in [Provider -> Nat] /\ UNCHANGED <<job, skips>>
        BY <1>a, <1>15 DEF BidGone
    <2> QED BY <2>1 DEF BidInv
<1>16. CASE Tick
    <2> DEFINE pc == CASE job.pc = "wait" -> "bids" [] job.pc = "poll" -> "status" [] OTHER -> job.pc
    <2>1. job' = [job EXCEPT !.due = Less(job.due), !.settle = Less(job.settle), !.pc = pc]
          /\ UNCHANGED market /\ skips' = [p \in Provider |-> Less(skips[p])]
        BY <1>a, <1>16 DEF Tick, Work
    <2>2. \/ pc = job.pc
          \/ job.pc = "wait" /\ pc = "bids"
          \/ pc = "status"
        OBVIOUS
    <2> HIDE DEF pc
    <2>3. /\ job'.pc = pc /\ job'.best = job.best /\ job'.list = job.list /\ job'.eligible = job.eligible
          /\ job'.role = job.role
        BY <1>a, <2>1 DEF Work
    <2>4. skips' \in [Provider -> Nat] /\ \A p \in Provider : skips[p] = 0 => skips'[p] = 0
        BY <1>a, <2>1 DEF Less
    <2> QED BY <1>a, <2>1, <2>2, <2>3, <2>4 DEF BidInv, WantsIP
<1>17. CASE DriverCrash
    <2>1. job' = NoJob /\ UNCHANGED market /\ skips' = [p \in Provider |-> 0]
        BY <1>17 DEF DriverCrash
    <2> QED BY <1>a, <1>b, <2>1, NothingToChoose
<1>18. CASE AdoptList \/ AdoptStep \/ UNCHANGED driverVars
            \/ \E d \in Seqs : CloseKnown(d) \/ WorkloadUp(d) \/ LeaseEnds(d)
    <2>1. UNCHANGED <<market, job, skips>>
        BY <1>18 DEF AdoptList, AdoptStep, AdoptLook, AdoptEnd, driverVars, CloseKnown, WorkloadUp, LeaseEnds
    <2> QED BY <1>d, <2>1
<1>19. QED
    BY <1>1, <1>2, <1>3, <1>4, <1>5, <1>6, <1>7, <1>8, <1>9, <1>10, <1>11, <1>12, <1>13, <1>14, <1>15, <1>16, <1>17,
       <1>18 DEF DriverNext, JobStep

\* Nothing is to be chosen yet.
LEMMA BidInvInit == DriverInit => BidInv
BY DEF DriverInit, BidInv, NoBids, NoJob

\* The bid that is taken is a good one of the list it was chosen from, of a provider
\* that is not at rest and can give the address that will be waited for (SelectBid,
\* SelectProviders, Skip).
THEOREM BidsAreGood == DriverSpec => []TakesAGoodBid
<1>1. BidInv => TakesAGoodBid
    <2> SUFFICES ASSUME BidInv, job.pc = "lease" PROVE TakesAGoodBid
        BY DEF TakesAGoodBid
    <2>1. GoodBid(job.best, job.list, job.eligible) /\ job.best \in job.eligible
        BY DEF BidInv, GoodBid, Affordable
    <2> QED BY <2>1 DEF BidInv, TakesAGoodBid, GoodBid
<1>2. QED
    BY <1>1, BidInvInit, BidInvNext, DriverInvInit, DriverInvNext, PTL DEF DriverSpec

-----------------------------------------------------------------------------
(* Types: whose the lease is, what is bid and who is left alone.           *)

Lessor == Provider \cup {NoProvider}
JobTypes(j) == j.role \in Roles \cup {"none"} /\ j.attempt \in 0..MaxAttempts /\ j.best \in Lessor
TenantTypes == \A d \in Seqs : chain[d].tenant \in Lessor
TableTypes == market \in [Provider -> Prices \cup {0}] /\ skips \in [Provider -> 0..SkipTTL]
DriverTypes == JobTypes(job) /\ TenantTypes /\ TableTypes

\* The fields of an idle job, and of one whose call failed.
LEMMA NoJobTypes == JobTypes(NoJob) /\ NoJob.attempt = 0
BY DriverConfigAssumption DEF NoJob, JobTypes, Lessor

\* As above.
LEMMA FailsTypes ==
    ASSUME NEW T, NEW j \in Work(T), JobTypes(j), Fails(j)
    PROVE  JobTypes(job')
<1>1. CASE j.dseq = 0
    BY <1>1, NoJobTypes DEF Fails
<1>2. CASE j.dseq # 0
    <2>1. job' = [j EXCEPT !.pc = "closing", !.list = NoBids, !.again = j.role # "quote"]
        BY <1>2 DEF Fails
    <2>2. job'.role = j.role /\ job'.attempt = j.attempt /\ job'.best = j.best
        BY <2>1 DEF Work
    <2> QED BY <2>2 DEF JobTypes
<1> QED BY <1>1, <1>2

\* Whatever is done to a deployment, its lease is with a provider, or with none.
LEMMA TenantsTyped ==
    ASSUME NEW T, Typed(T), job.dseq \in Seqs \/ chain' # Leased, JobTypes(job), TenantTypes, made \in 0..MaxDeployments,
           \/ chain' = chain \/ Created \/ chain' = Leased
           \/ \E d \in Seqs : chain' = Closed(d) \/ WorkloadUp(d) \/ LeaseEnds(d)
    PROVE  TenantTypes'
<1> SUFFICES ASSUME NEW e \in Seqs PROVE chain'[e].tenant \in Lessor
    BY DEF TenantTypes
<1>0. /\ chain \in [Seqs -> Deployment(T)] /\ chain[e] \in Deployment(T) /\ chain[e].tenant \in Lessor
      /\ NoProvider \in Lessor /\ job.best \in Lessor
    BY DEF Typed, TenantTypes, Lessor, JobTypes
<1>1. CASE chain' = chain
    BY <1>0, <1>1
<1>2. CASE Created
    <2>1. chain' = [chain EXCEPT ![made + 1] = [NotCreated EXCEPT !.open = TRUE, !.ip = WantsIP(job.role)]]
        BY <1>2 DEF Created
    <2>2. [NotCreated EXCEPT !.open = TRUE, !.ip = WantsIP(job.role)].tenant = NoProvider
        BY DEF NotCreated
    <2> QED BY <1>0, <2>1, <2>2
<1>3. CASE chain' = Leased
    <2> DEFINE c == [chain[job.dseq] EXCEPT !.tenant = job.best, !.lease = "active"]
    <2>1. job.dseq \in Seqs
        BY <1>3
    <2>2. chain[job.dseq] \in Deployment(T)
        BY <1>0, <2>1
    <2>3. chain' = [chain EXCEPT ![job.dseq] = c]
        BY <1>0, <1>3, <2>1, <2>2 DEF Leased, Deployment
    <2>4. c.tenant = job.best
        BY <2>2 DEF Deployment
    <2> HIDE DEF c
    <2> QED BY <1>0, <2>3, <2>4
<1>4. ASSUME NEW d \in Seqs, chain' = Closed(d) \/ WorkloadUp(d) \/ LeaseEnds(d)
      PROVE  chain'[e].tenant \in Lessor
    <2>0. chain[d] \in Deployment(T)
        BY <1>0
    <2>1. PICK u, l, o : chain' = [chain EXCEPT ![d] = [chain[d] EXCEPT !.open = o, !.up = u, !.lease = l]]
        <3>1. CASE chain' = Closed(d)
            <4>1. chain' = [chain EXCEPT ![d] = [chain[d] EXCEPT !.open = FALSE, !.up = "no",
                                 !.lease = IF chain[d].lease = "active" THEN "closed" ELSE chain[d].lease]]
                BY <1>0, <2>0, <3>1 DEF Closed, Deployment
            <4> QED BY <4>1
        <3>2. CASE WorkloadUp(d)
            <4> DEFINE u == IF chain[d].up = "no" THEN "ready" ELSE "routable"
            <4>1. chain' = [chain EXCEPT ![d] = [chain[d] EXCEPT !.up = u]]
                BY <3>2 DEF WorkloadUp
            <4> HIDE DEF u
            <4>2. [chain[d] EXCEPT !.up = u] = [chain[d] EXCEPT !.open = chain[d].open, !.up = u, !.lease = chain[d].lease]
                BY <2>0 DEF Deployment
            <4> QED BY <4>1, <4>2
        <3>3. CASE LeaseEnds(d)
            <4>1. chain' = [chain EXCEPT ![d] = [chain[d] EXCEPT !.lease = "closed", !.up = "no"]]
                BY <1>0, <2>0, <3>3 DEF LeaseEnds, Deployment
            <4>2. [chain[d] EXCEPT !.lease = "closed", !.up = "no"] =
                    [chain[d] EXCEPT !.open = chain[d].open, !.up = "no", !.lease = "closed"]
                BY <2>0 DEF Deployment
            <4> QED BY <4>1, <4>2
        <3> QED BY <1>4, <3>1, <3>2, <3>3
    <2>2. [chain[d] EXCEPT !.open = o, !.up = u, !.lease = l].tenant = chain[d].tenant
        BY <2>0 DEF Deployment
    <2> QED BY <1>0, <2>1, <2>2 DEF TenantTypes
<1> QED BY <1>1, <1>2, <1>3, <1>4

\* One step of the job.
LEMMA JobTypesStep ==
    ASSUME DriverInv, BidInv, JobTypes(job), [DriverNext]_driverVars
    PROVE  JobTypes(job')
<1>0. PICK T : Typed(T)
    BY Hand
<1>a. job \in Work(T)
    BY <1>0 DEF Typed
<1>1. ASSUME NEW role \in Roles, Start(role) PROVE JobTypes(job')
    <2>1. job' = [NoJob EXCEPT !.role = role, !.pc = "shop", !.attempt = 1]
        BY <1>1 DEF Start
    <2>2. job'.role = role /\ job'.attempt = 1 /\ job'.best = NoProvider
        BY <2>1 DEF NoJob
    <2> QED BY <2>2, DriverConfigAssumption DEF JobTypes, Lessor
<1>2. CASE Shop
    <2>1. ASSUME NEW eligible, job' = [job EXCEPT !.pc = "create", !.eligible = eligible] PROVE JobTypes(job')
        BY <1>a, <2>1 DEF Work, JobTypes
    <2> QED BY <1>2, <2>1, NoJobTypes DEF Shop
<1>3. CASE Create
    <2> DEFINE j == [job EXCEPT !.dseq = made + 1, !.mine = job.mine \cup {made + 1}]
    <2>1. /\ job.pc = "create"
          /\ \/ job' = [j EXCEPT !.pc = "bids", !.due = BidWait]
             \/ Fails(j)
        BY <1>3 DEF Create
    <2>2. job.dseq = 0 /\ made + 1 \in Nat /\ job.mine \cup {made + 1} \in SUBSET Nat
        BY <1>a, <2>1, Hand DEF Work, Before
    <2>3. j \in Work(T)
        BY <1>a, <2>2 DEF Work
    <2>4. JobTypes(j)
        BY <1>a DEF Work, JobTypes
    <2> HIDE DEF j
    <2>5. job' = [j EXCEPT !.pc = "bids", !.due = BidWait] => JobTypes(job')
        BY <2>3, <2>4 DEF Work, JobTypes
    <2> QED BY <2>1, <2>3, <2>4, <2>5, FailsTypes
<1>4. CASE CreateFails \/ BidsFail \/ LeaseFails \/ NeverRouted
    <2>1. Fails(job)
        BY <1>4 DEF CreateFails, BidsFail, LeaseFails, NeverRouted
    <2> QED BY <1>a, <2>1, FailsTypes
<1>5. CASE ReadBids
    <2>1. CASE Fails(job)
        BY <1>a, <2>1, FailsTypes
    <2>2. CASE ~Fails(job)
        <3> DEFINE choice == SelectBid(market, job.eligible)
                   n == IF job.best = NoProvider THEN Settle ELSE job.settle
        <3>1. PICK pc : job' = [Polled EXCEPT !.pc = pc]
            BY <1>5, <2>2 DEF ReadBids
        <3>2. choice # NoProvider => choice \in Provider
            <4>1. job.eligible \in SUBSET Provider /\ market \in [Provider -> Nat]
                BY <1>a DEF Work, BidInv
            <4>2. choice # NoProvider => GoodBid(choice, market, job.eligible)
                BY <4>1, SelectsAGoodBid DEF choice
            <4> QED BY <4>1, <4>2 DEF GoodBid, Affordable
        <3>3. \/ Polled = job
              \/ choice # NoProvider /\ Polled = [job EXCEPT !.best = choice, !.list = market, !.settle = n]
            BY <1>a DEF Polled, Work
        <3> HIDE DEF choice, n
        <3>4. CASE Polled = job
            BY <1>a, <3>1, <3>4 DEF Work, JobTypes
        <3>5. CASE choice # NoProvider /\ Polled = [job EXCEPT !.best = choice, !.list = market, !.settle = n]
            <4>1. job' = [job EXCEPT !.best = choice, !.list = market, !.settle = n, !.pc = pc]
                BY <3>1, <3>5
            <4>2. job'.role = job.role /\ job'.attempt = job.attempt /\ job'.best = choice
                BY <1>a, <4>1 DEF Work
            <4> QED BY <3>2, <3>5, <4>2 DEF JobTypes, Lessor
        <3> QED BY <3>3, <3>4, <3>5
    <2> QED BY <2>1, <2>2
<1>6. CASE CollectBids \/ TakeLease \/ Routed \/ NotRouted \/ Tick
    <2>1. ASSUME CollectBids PROVE JobTypes(job')
        BY <1>a, <2>1 DEF CollectBids, Work, JobTypes
    <2>2. ASSUME TakeLease PROVE JobTypes(job')
        BY <1>a, <2>2 DEF TakeLease, Work, JobTypes
    <2>3. ASSUME Routed PROVE JobTypes(job')
        BY <1>a, <2>3, NoJobTypes DEF Routed, Work, JobTypes
    <2>4. ASSUME NotRouted PROVE JobTypes(job')
        BY <1>a, <2>4 DEF NotRouted, Work, JobTypes
    <2>5. ASSUME Tick PROVE JobTypes(job')
        <3> DEFINE pc == CASE job.pc = "wait" -> "bids" [] job.pc = "poll" -> "status" [] OTHER -> job.pc
        <3>1. job' = [job EXCEPT !.due = Less(job.due), !.settle = Less(job.settle), !.pc = pc]
            BY <1>a, <2>5 DEF Tick, Work
        <3> HIDE DEF pc
        <3> QED BY <1>a, <3>1 DEF Work, JobTypes
    <2> QED BY <1>6, <2>1, <2>2, <2>3, <2>4, <2>5
<1>7. CASE CloseOwn
    <2>1. job' = NextAttempt
        BY <1>7 DEF CloseOwn
    <2>2. CASE job.again /\ job.attempt < MaxAttempts
        <3>1. job' = [NoJob EXCEPT !.role = job.role, !.pc = "shop", !.attempt = job.attempt + 1, !.mine = job.mine]
            BY <2>1, <2>2 DEF NextAttempt
        <3>2. job'.role = job.role /\ job'.attempt = job.attempt + 1 /\ job'.best = NoProvider
            BY <3>1 DEF NoJob
        <3>3. job.attempt + 1 \in 0..MaxAttempts
            BY <2>2, DriverConfigAssumption DEF JobTypes
        <3> QED BY <3>2, <3>3 DEF JobTypes, Lessor
    <2>3. CASE ~(job.again /\ job.attempt < MaxAttempts)
        BY <2>1, <2>3, NoJobTypes DEF NextAttempt
    <2> QED BY <2>2, <2>3
<1>8. CASE CloseOwnFails \/ DriverCrash
    <2>1. job' = NoJob
        BY <1>8 DEF CloseOwnFails, DriverCrash
    <2> QED BY <2>1, NoJobTypes
<1>9. CASE job' = job
    BY <1>9
<1>10. ASSUME CreateUnanswered \/ AdoptList \/ AdoptStep \/ UNCHANGED driverVars
              \/ (\E d \in Seqs : CloseKnown(d) \/ WorkloadUp(d) \/ LeaseEnds(d))
              \/ (\E p \in Provider : BidGone(p) \/ (\E price \in Prices : BidArrives(p, price)))
       PROVE  job' = job
    BY <1>10 DEF CreateUnanswered, AdoptList, AdoptStep, AdoptLook, AdoptEnd, driverVars, CloseKnown, WorkloadUp,
       LeaseEnds, BidArrives, BidGone
<1> QED
    BY <1>1, <1>2, <1>3, <1>4, <1>5, <1>6, <1>7, <1>8, <1>9, <1>10 DEF DriverNext, JobStep

\* What a step does to the chain.
LEMMA TenantTypesStep ==
    ASSUME DriverInv, JobTypes(job), TenantTypes, [DriverNext]_driverVars
    PROVE  TenantTypes'
<1>0. PICK T : Typed(T)
    BY Hand
<1>a. made \in 0..MaxDeployments
    BY Hand
<1>1. CASE Create \/ CreateUnanswered
    <2>1. Created /\ job.pc = "create"
        BY <1>1 DEF Create, CreateUnanswered
    <2> DEFINE new == [NotCreated EXCEPT !.open = TRUE, !.ip = WantsIP(job.role)]
    <2>2. chain' = [chain EXCEPT ![made + 1] = new]
        BY <2>1 DEF Created
    <2>3. new.tenant = NoProvider
        BY DEF NotCreated
    <2> HIDE DEF new
    <2> QED BY <1>0, <2>2, <2>3 DEF TenantTypes, Typed, Lessor
<1>2. CASE TakeLease \/ LeaseFails
    <2>1. job.pc = "lease" /\ (chain' = Leased \/ chain' = chain)
        BY <1>2 DEF TakeLease, LeaseFails
    <2>2. job.dseq \in Seqs
        BY <2>1, Hand DEF Before
    <2> QED BY <1>0, <1>a, <2>1, <2>2, TenantsTyped
<1>3. CASE CloseOwn \/ CloseOwnFails
    <2>1. job.pc = "closing" /\ (chain' = Closed(job.dseq) \/ chain' = chain)
        BY <1>3 DEF CloseOwn, CloseOwnFails
    <2>2. job.dseq \in Seqs
        BY <2>1, Hand DEF Before
    <2> QED BY <1>0, <1>a, <2>1, <2>2, TenantsTyped
<1>4. ASSUME NEW d \in Seqs, CloseKnown(d) \/ WorkloadUp(d) \/ LeaseEnds(d) PROVE TenantTypes'
    <2>1. CASE job.dseq \in Seqs
        BY <1>0, <1>4, <1>a, <2>1, TenantsTyped DEF CloseKnown
    <2>2. CASE chain' # Leased
        BY <1>0, <1>4, <1>a, <2>2, TenantsTyped DEF CloseKnown
    <2>3. CASE chain' = Leased /\ job.dseq \notin Seqs
        <3>1. Leased = chain
            BY <1>0, <2>3 DEF Leased, Typed
        <3> QED BY <2>3, <3>1 DEF TenantTypes
    <2> QED BY <2>1, <2>2, <2>3
<1>5. CASE chain' = chain
    BY <1>5 DEF TenantTypes
<1>6. ASSUME \/ \E role \in Roles : Start(role)
             \/ Shop \/ CreateFails \/ ReadBids \/ CollectBids \/ BidsFail \/ Routed \/ NotRouted \/ NeverRouted
             \/ AdoptList \/ AdoptStep \/ Tick \/ DriverCrash \/ UNCHANGED driverVars
             \/ (\E p \in Provider : BidGone(p) \/ (\E price \in Prices : BidArrives(p, price)))
      PROVE  chain' = chain
    BY <1>6 DEF Start, Shop, CreateFails, ReadBids, CollectBids, BidsFail, Routed, NotRouted, NeverRouted, AdoptList,
       AdoptStep, AdoptLook, AdoptEnd, Tick, DriverCrash, driverVars, BidGone, BidArrives
<1> QED BY <1>1, <1>2, <1>3, <1>4, <1>5, <1>6 DEF DriverNext, JobStep

\* What a step does to the bids and to the list of those left alone.
LEMMA TableTypesStep ==
    ASSUME TableTypes, [DriverNext]_driverVars
    PROVE  TableTypes'
<1>0. NoBids \in [Provider -> Prices \cup {0}]
    BY DEF NoBids
<1>1. market' \in [Provider -> Prices \cup {0}]
    <2>1. ASSUME NEW p \in Provider, NEW price \in Prices, BidArrives(p, price) PROVE market' \in [Provider -> Prices \cup {0}]
        BY <2>1 DEF BidArrives, TableTypes
    <2>2. ASSUME NEW p \in Provider, BidGone(p) PROVE market' \in [Provider -> Prices \cup {0}]
        BY <2>2 DEF BidGone, TableTypes
    <2>3. CASE Create \/ CreateUnanswered \/ TakeLease \/ CloseOwn
        BY <1>0, <2>3 DEF Create, CreateUnanswered, Created, TakeLease, CloseOwn
    <2>4. CASE market' = market
        BY <2>4 DEF TableTypes
    <2>5. ASSUME \/ \E role \in Roles : Start(role)
                 \/ Shop \/ CreateFails \/ ReadBids \/ CollectBids \/ BidsFail \/ LeaseFails \/ Routed \/ NotRouted
                 \/ NeverRouted \/ CloseOwnFails \/ AdoptList \/ AdoptStep \/ Tick \/ DriverCrash \/ UNCHANGED driverVars
                 \/ \E d \in Seqs : CloseKnown(d) \/ WorkloadUp(d) \/ LeaseEnds(d)
          PROVE  market' = market
        BY <2>5 DEF Start, Shop, CreateFails, ReadBids, CollectBids, BidsFail, LeaseFails, Routed, NotRouted, NeverRouted,
           CloseOwnFails, AdoptList, AdoptStep, AdoptLook, AdoptEnd, Tick, DriverCrash, driverVars, CloseKnown,
           WorkloadUp, LeaseEnds
    <2> QED BY <2>1, <2>2, <2>3, <2>4, <2>5 DEF DriverNext, JobStep
<1>2. skips' \in [Provider -> 0..SkipTTL]
    <2>1. CASE LeaseFails \/ NeverRouted
        BY <2>1, TimeoutsAssumption DEF LeaseFails, NeverRouted, Skip, TableTypes
    <2>2. CASE Tick
        <3>1. \A p \in Provider : Less(skips[p]) \in 0..SkipTTL
            BY TimeoutsAssumption DEF TableTypes, Less
        <3> QED BY <2>2, <3>1 DEF Tick
    <2>3. CASE DriverCrash
        BY <2>3, TimeoutsAssumption DEF DriverCrash
    <2>4. CASE skips' = skips
        BY <2>4 DEF TableTypes
    <2>5. ASSUME \/ \E role \in Roles : Start(role)
                 \/ Shop \/ Create \/ CreateUnanswered \/ CreateFails \/ ReadBids \/ CollectBids \/ BidsFail \/ TakeLease
                 \/ Routed \/ NotRouted \/ CloseOwn \/ CloseOwnFails \/ AdoptList \/ AdoptStep \/ UNCHANGED driverVars
                 \/ (\E d \in Seqs : CloseKnown(d) \/ WorkloadUp(d) \/ LeaseEnds(d))
                 \/ (\E p \in Provider : BidGone(p) \/ (\E price \in Prices : BidArrives(p, price)))
          PROVE  skips' = skips
        BY <2>5 DEF Start, Shop, Create, CreateUnanswered, CreateFails, ReadBids, CollectBids, BidsFail, TakeLease,
           Routed, NotRouted, CloseOwn, CloseOwnFails, AdoptList, AdoptStep, AdoptLook, AdoptEnd, driverVars, CloseKnown,
           WorkloadUp, LeaseEnds, BidGone, BidArrives
    <2> QED BY <2>1, <2>2, <2>3, <2>4, <2>5 DEF DriverNext, JobStep
<1> QED BY <1>1, <1>2 DEF TableTypes

\* Nothing was chosen yet.
LEMMA DriverTypesInit == DriverInit => DriverTypes
<1> SUFFICES ASSUME DriverInit PROVE DriverTypes
    OBVIOUS
<1>1. TenantTypes
    BY DEF DriverInit, TenantTypes, NotCreated, Lessor
<1>2. TableTypes
    BY TimeoutsAssumption DEF DriverInit, TableTypes, NoBids
<1> QED BY <1>1, <1>2, NoJobTypes DEF DriverInit, DriverTypes

\* Every step keeps the types.
LEMMA DriverTypesNext == DriverInv /\ BidInv /\ DriverTypes /\ [DriverNext]_driverVars => DriverTypes'
BY JobTypesStep, TenantTypesStep, TableTypesStep DEF DriverTypes

\* And that is what the invariant says.
LEMMA DriverTypesAre == DriverInv /\ DriverTypes => DriverTypeOK
<1> SUFFICES ASSUME DriverInv, DriverTypes PROVE DriverTypeOK
    OBVIOUS
<1>0. PICK T : Typed(T)
    BY Hand
<1>1. chain \in [Seqs -> [open : BOOLEAN, ip : BOOLEAN, tenant : Provider \cup {NoProvider},
                      lease : {"none", "active", "closed"}, up : {"no", "ready", "routable"}]]
    BY <1>0 DEF Typed, Deployment, DriverTypes, TenantTypes, Lessor
<1>2. job \in Work(T)
    BY <1>0 DEF Typed
<1>3. job.eligible \subseteq Provider /\ job.pc \in Pcs
    BY <1>2 DEF Work
<1>4. job.dseq \in 0..made
    BY Hand
<1> QED BY <1>1, <1>3, <1>4, Hand DEF DriverTypeOK, DriverTypes, JobTypes, TableTypes, Lessor, Pcs

\* The shapes of the chain, of the job and of the list of those left alone, at every
\* moment: what is bid was bid, an attempt is one of those allowed, and a lease is with
\* a provider that was chosen.
THEOREM DriverTypeCorrect == DriverSpec => []DriverTypeOK
BY DriverTypesInit, DriverTypesNext, DriverTypesAre, BidInvInit, BidInvNext, DriverInvInit, DriverInvNext, PTL DEF DriverSpec
=============================================================================
