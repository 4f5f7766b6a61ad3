-------------------------------- MODULE Funds --------------------------------
(***************************************************************************)
(* What the controller does on its housekeeping tick besides its lifecycle *)
(* (fsm/funds.go): it keeps the escrow of the current lease supplied       *)
(* (akash Escrow, TopUp).                                                  *)
(*                                                                         *)
(* Time and money are whole numbers: the price is what a unit of time      *)
(* costs.  A deposit is a request that may be repeated: its answer can be  *)
(* lost after the money has moved.                                         *)
(***************************************************************************)
EXTENDS Naturals, FiniteSets

CONSTANTS
    LeasePrices,    \* what a lease may cost a unit of time; 0 is not recorded
    DeployDays,     \* akash.deploy_days: the horizon
    Margin,         \* akash.funds.margin, in percent
    MinTopup,       \* akash.funds.min_topup_usd
    CheckInterval,  \* akash.funds.check_interval; 0 disables
    Deposit,        \* what a deploy puts down, in units of its price
    FundsFaults,    \* what goes wrong, see FundsFaultKinds
    MaxLeases, Horizon  \* bounds: leases, and the clock

FundsFaultKinds == {
    "read",         \* the escrow cannot be read
    "unpriced",     \* it holds nothing this build can price
    "topup",        \* a deposit is refused
    "ack"}          \* a deposit is made, its answer lost, and made again or not

ASSUME FundsAssumption == LeasePrices \subseteq Nat /\ DeployDays \in Nat /\ Margin \in Nat
                          /\ Margin >= 100 /\ MinTopup \in Nat /\ CheckInterval \in Nat /\ Deposit \in Nat
ASSUME FundsBoundsAssumption == MaxLeases \in Nat /\ Horizon \in Nat /\ FundsFaults \subseteq FundsFaultKinds

VARIABLES
    lease,      \* Controller.Lease with its price, and whether the status is billing
    escrow,     \* what is left in it, and how many deposits it got
    checked,    \* Machine.lastFunds, as the time since; NotYet before the first
    failed,     \* history: the last check of this lease did not get through
    topped,     \* history: the last deposit, as what was left before it and after
    leases, clock

fundsVars == <<lease, escrow, checked, failed, topped, leases, clock>>

NotYet == Horizon + 1
NoLease == [price |-> 0, billing |-> FALSE, open |-> FALSE]
NoDeposit == [before |-> 0, after |-> 0, twice |-> FALSE]

FundsInit ==
    /\ lease = NoLease /\ escrow = 0 /\ checked = NotYet
    /\ failed = FALSE /\ topped = NoDeposit /\ leases = 0 /\ clock = 0

-----------------------------------------------------------------------------
(* The top-up.                                                             *)

Due == checked = NotYet \/ checked >= CheckInterval
Floor == lease.price * DeployDays
Target == (Floor * Margin) \div 100
Bug_ADayIsEnough == escrow >= lease.price
Enough == escrow >= Floor

\* TopUp: never less than what the API accepts.
Added == IF Target - escrow < MinTopup THEN MinTopup ELSE Target - escrow

\* topUpEscrow: the stamp comes before the reading, so that a check that fails waits
\* out the interval as well.
Bug_ChecksAnything == CheckInterval > 0 /\ Due /\ lease.open
Checks == CheckInterval > 0 /\ Due /\ lease.open /\ lease.billing

CheckEnough ==
    /\ Checks /\ checked' = 0 /\ lease.price > 0 /\ Enough
    /\ failed' = FALSE
    /\ UNCHANGED <<lease, escrow, topped, leases, clock>>
CheckFails ==
    /\ Checks /\ checked' = 0
    /\ \/ lease.price = 0
       \/ {"read", "unpriced"} \cap FundsFaults # {}
       \/ ~Enough /\ "topup" \in FundsFaults
    /\ failed' = TRUE
    /\ UNCHANGED <<lease, escrow, topped, leases, clock>>
TopUp ==
    /\ Checks /\ checked' = 0 /\ lease.price > 0 /\ ~Enough
    /\ \E twice, unsure \in BOOLEAN :
         /\ twice \/ unsure => "ack" \in FundsFaults
         /\ escrow' = escrow + (IF twice THEN 2 ELSE 1) * Added
         /\ topped' = [before |-> escrow, after |-> escrow', twice |-> twice]
         /\ failed' = unsure
    /\ UNCHANGED <<lease, leases, clock>>

-----------------------------------------------------------------------------
(* The rest of the controller, the provider and time.                      *)

LeaseDeployed(price) ==
    /\ ~lease.open /\ leases < MaxLeases /\ leases' = leases + 1
    /\ lease' = [price |-> price, billing |-> TRUE, open |-> TRUE]
    /\ escrow' = price * Deposit /\ failed' = FALSE /\ topped' = NoDeposit
    /\ UNCHANGED <<checked, clock>>
LeaseClosing ==
    /\ lease.billing /\ lease' = [lease EXCEPT !.billing = FALSE]
    /\ UNCHANGED <<escrow, checked, failed, topped, leases, clock>>
LeaseGone ==
    /\ lease.open /\ ~lease.billing /\ lease' = NoLease /\ escrow' = 0
    /\ UNCHANGED <<checked, failed, topped, leases, clock>>

Since(t) == IF t = NotYet THEN t ELSE t + 1
\* A due check is not put off past its tick.
Drain ==
    /\ clock < Horizon /\ clock' = clock + 1 /\ ~Checks
    /\ escrow' = IF escrow < lease.price THEN 0 ELSE escrow - lease.price
    /\ checked' = Since(checked)
    /\ UNCHANGED <<lease, failed, topped, leases>>

\* The clocks of the loop die with the process.
ControllerRestarts ==
    /\ checked # NotYet /\ checked' = NotYet
    /\ UNCHANGED <<lease, escrow, failed, topped, leases, clock>>

FundsNext ==
    \/ CheckEnough \/ CheckFails \/ TopUp
    \/ \E p \in LeasePrices : LeaseDeployed(p)
    \/ LeaseClosing \/ LeaseGone \/ Drain \/ ControllerRestarts

FundsSpec == FundsInit /\ [][FundsNext]_fundsVars

-----------------------------------------------------------------------------
FundsTypeOK ==
    /\ lease \in [price : LeasePrices \cup {0}, billing : BOOLEAN, open : BOOLEAN]
    /\ escrow \in Nat /\ checked \in 0..NotYet
    /\ failed \in BOOLEAN /\ leases \in 0..MaxLeases /\ clock \in 0..Horizon

\* A lease that bills at a recorded price does not run dry while its checks get
\* through, deposits at the API's minimum and restarts included: the interval is
\* shorter than the horizon it defends, from the first deposit on (topUpEscrow).
RunwayKept == lease.billing /\ lease.price > 0 /\ ~failed => escrow > 0

\* Each deposit is a real transaction: it is made only below the horizon, leaves the
\* escrow above it by the margin and no more than the margin or the minimum asks for,
\* so that the next check does not make another (the gap in topUpEscrow).
SpendsWithReason ==
    [][topped' # topped /\ topped'.after > 0 =>
         /\ lease.billing
         /\ topped'.before < Floor
         /\ topped'.after >= Target
         /\ ~topped'.twice => topped'.after <= Target \/ topped'.after = topped'.before + MinTopup]_fundsVars
=============================================================================
