----------------------------- MODULE PartsProofs -----------------------------
(***************************************************************************)
(* What is proved of four small parts for every value of their constants:  *)
(* the escrow's supply, the limiter of passwords, the agent's routes and   *)
(* the published documents, which may be damaged between two starts (what  *)
(* their ring keeps is a loop's, with the lemmas of DnsProofs); and, of    *)
(* all the parts side by side, that each keeps its types.                  *)
(***************************************************************************)
EXTENDS MCParts, BackupsProofs, BusProofs, DriverProofs, DnsProofs

-----------------------------------------------------------------------------
(* Escrow.                                                                 *)

\* A margin of a hundred percent or more takes a sum to itself or beyond.
LEMMA MarginAdds ==
    ASSUME NEW f \in Nat, NEW m \in Nat, m >= 100
    PROVE  (f * m) \div 100 \in Nat /\ (f * m) \div 100 >= f
  <1>1. f * m \in Nat /\ f * m >= f * 100
    BY Z3
  <1> DEFINE x == f * m
  <1>2. x \in Nat /\ x >= f * 100
    BY <1>1
  <1> HIDE DEF x
  <1>3. x \div 100 \in Nat /\ x \div 100 >= f
    BY <1>2
  <1> QED BY <1>3 DEF x

\* A price is a sum of money, recorded or not.
LEMMA PricesAreSums == \A p \in LeasePrices \cup {0} : p \in Nat
  BY FundsAssumption

\* The horizon, and what a deposit fills up to, are sums of money.
LEMMA TargetFacts ==
    ASSUME FundsTypeOK
    PROVE  Floor \in Nat /\ Target \in Nat /\ Target >= Floor
  <1>1. lease.price \in Nat
    BY PricesAreSums DEF FundsTypeOK
  <1>2. Floor \in Nat
    BY <1>1, FundsAssumption, Z3 DEF Floor
  <1> QED BY <1>2, MarginAdds, FundsAssumption DEF Target

\* What a deposit adds, and what it leaves.
LEMMA AddedFacts ==
    ASSUME FundsTypeOK, ~Enough
    PROVE  /\ Added \in Nat /\ escrow + Added >= Target
           /\ escrow + Added = Target \/ Added = MinTopup
  <1>1. escrow \in Nat /\ Floor \in Nat /\ Target \in Nat /\ Target >= Floor
    BY TargetFacts DEF FundsTypeOK
  <1>2. escrow < Target
    BY <1>1 DEF Enough
  <1> QED BY <1>1, <1>2, FundsAssumption DEF Added

\* The shape of the state is kept.
LEMMA FundsTypes == FundsTypeOK /\ [FundsNext]_fundsVars => FundsTypeOK'
  <1> SUFFICES ASSUME FundsTypeOK, [FundsNext]_fundsVars PROVE FundsTypeOK'
    OBVIOUS
  <1> DEFINE Leases == [price : LeasePrices \cup {0}, billing : BOOLEAN, open : BOOLEAN]
  <1>1. /\ lease \in Leases /\ escrow \in Nat /\ checked \in 0..NotYet
        /\ failed \in BOOLEAN /\ leases \in 0..MaxLeases /\ clock \in 0..Horizon
    BY DEF FundsTypeOK
  <1>2. NotYet \in Nat /\ {0, NotYet} \subseteq 0..NotYet /\ MaxLeases \in Nat /\ Horizon \in Nat
    BY FundsBoundsAssumption DEF NotYet
  <1>3. lease' \in Leases
    <2>1. CASE \E p \in LeasePrices : LeaseDeployed(p)
      BY <2>1 DEF LeaseDeployed
    <2>2. CASE LeaseClosing
      BY <1>1, <2>2 DEF LeaseClosing
    <2>3. CASE LeaseGone
      BY <2>3 DEF LeaseGone, NoLease
    <2> QED BY <1>1, <2>1, <2>2, <2>3 DEF FundsNext, CheckEnough, CheckFails, TopUp, Drain,
             ControllerRestarts, fundsVars
  <1> HIDE DEF Leases
  <1>4. escrow' \in Nat
    <2>1. CASE TopUp
      <3>1. PICK twice \in BOOLEAN : escrow' = escrow + (IF twice THEN 2 ELSE 1) * Added
        BY <2>1 DEF TopUp
      <3>2. Added \in Nat
        BY <2>1, AddedFacts DEF TopUp
      <3>3. escrow' = escrow + 2 * Added \/ escrow' = escrow + Added
        BY <3>1, <3>2
      <3> QED BY <1>1, <3>2, <3>3
    <2>2. CASE \E p \in LeasePrices : LeaseDeployed(p)
      <3>1. PICK p \in LeasePrices : escrow' = p * Deposit
        BY <2>2 DEF LeaseDeployed
      <3>2. p \in Nat /\ Deposit \in Nat
        BY FundsAssumption
      <3> QED BY <3>1, <3>2, Z3
    <2>3. CASE Drain
      <3>1. lease.price \in Nat
        BY <1>1, PricesAreSums DEF Leases
      <3>2. escrow' = IF escrow < lease.price THEN 0 ELSE escrow - lease.price
        BY <2>3 DEF Drain
      <3> QED BY <1>1, <3>1, <3>2
    <2>4. CASE LeaseGone
      BY <2>4 DEF LeaseGone
    <2> QED BY <1>1, <2>1, <2>2, <2>3, <2>4 DEF FundsNext, CheckEnough, CheckFails, LeaseClosing,
             ControllerRestarts, fundsVars
  <1>5. checked' \in 0..NotYet
    <2>1. CASE Drain
      <3>1. checked = NotYet => checked' = checked
        BY <2>1 DEF Drain, Since
      <3>2. checked # NotYet => checked' = checked + 1
        BY <2>1 DEF Drain, Since
      <3> QED BY <1>1, <1>2, <3>1, <3>2
    <2> QED BY <1>1, <1>2, <2>1 DEF FundsNext, CheckEnough, CheckFails, TopUp, LeaseDeployed,
             LeaseClosing, LeaseGone, ControllerRestarts, fundsVars
  <1>6. failed' \in BOOLEAN
    BY <1>1 DEF FundsNext, CheckEnough, CheckFails, TopUp, LeaseDeployed, LeaseClosing, LeaseGone,
       Drain, ControllerRestarts, fundsVars
  <1>7. leases' \in 0..MaxLeases
    <2>1. leases' = leases \/ (leases < MaxLeases /\ leases' = leases + 1)
      BY DEF FundsNext, CheckEnough, CheckFails, TopUp, LeaseDeployed, LeaseClosing, LeaseGone,
         Drain, ControllerRestarts, fundsVars
    <2> QED BY <1>1, <1>2, <2>1
  <1>8. clock' \in 0..Horizon
    <2>1. clock' = clock \/ (clock < Horizon /\ clock' = clock + 1)
      BY DEF FundsNext, CheckEnough, CheckFails, TopUp, LeaseDeployed, LeaseClosing, LeaseGone,
         Drain, ControllerRestarts, fundsVars
    <2> QED BY <1>1, <1>2, <2>1
  <1> QED BY <1>3, <1>4, <1>5, <1>6, <1>7, <1>8 DEF FundsTypeOK, Leases

\* And is there from the start.
LEMMA FundsTypesInit == FundsInit => FundsTypeOK
  <1>1. NotYet \in Nat /\ NotYet \in 0..NotYet /\ 0 \in 0..MaxLeases /\ 0 \in 0..Horizon
    BY FundsBoundsAssumption DEF NotYet
  <1>2. NoLease \in [price : LeasePrices \cup {0}, billing : BOOLEAN, open : BOOLEAN]
    BY DEF NoLease
  <1> SUFFICES ASSUME FundsInit PROVE FundsTypeOK
    OBVIOUS
  <1>3. lease = NoLease /\ escrow \in Nat /\ failed \in BOOLEAN
    BY DEF FundsInit
  <1>4. checked \in 0..NotYet /\ leases \in 0..MaxLeases /\ clock \in 0..Horizon
    BY <1>1 DEF FundsInit
  <1> QED BY <1>2, <1>3, <1>4 DEF FundsTypeOK

\* The escrow and the lease it pays have the shapes the code gives them.
THEOREM FundsTypeCorrect == FundsSpec => []FundsTypeOK
  BY FundsTypesInit, FundsTypes, PTL DEF FundsSpec

\* Each deposit is made below the horizon only, for a lease that bills, and leaves
\* the escrow where the next check finds enough.
THEOREM DepositsHaveReason == FundsSpec => SpendsWithReason
  <1> DEFINE A == topped' # topped /\ topped'.after > 0 =>
                    /\ lease.billing
                    /\ topped'.before < Floor
                    /\ topped'.after >= Target
                    /\ ~topped'.twice => topped'.after <= Target \/ topped'.after = topped'.before + MinTopup
  <1>1. ASSUME FundsTypeOK, FundsNext PROVE A
    <2>1. CASE TopUp
      <3>1. escrow \in Nat /\ Floor \in Nat /\ Target \in Nat /\ MinTopup \in Nat /\ ~Enough
        BY <1>1, <2>1, TargetFacts, FundsAssumption DEF FundsTypeOK, TopUp
      <3>2. /\ Added \in Nat /\ escrow + Added >= Target
            /\ escrow + Added = Target \/ Added = MinTopup
        BY <1>1, <3>1, AddedFacts
      <3>3. PICK twice \in BOOLEAN :
              /\ escrow' = escrow + (IF twice THEN 2 ELSE 1) * Added
              /\ topped' = [before |-> escrow, after |-> escrow', twice |-> twice]
        BY <2>1 DEF TopUp
      <3>4. lease.billing /\ escrow < Floor
        BY <2>1, <3>1 DEF TopUp, Checks, Enough
      <3>5. ~twice => escrow' = escrow + Added
        BY <3>1, <3>2, <3>3
      <3>6. escrow' >= Target
        <4>1. escrow' = escrow + 2 * Added \/ escrow' = escrow + Added
          BY <3>2, <3>3
        <4> QED BY <3>1, <3>2, <4>1
      <3>7. ~twice => escrow' <= Target \/ escrow' = escrow + MinTopup
        BY <3>1, <3>2, <3>5
      <3> QED BY <3>3, <3>4, <3>6, <3>7
    <2>2. CASE UNCHANGED topped
      BY <2>2
    <2>3. CASE \E p \in LeasePrices : LeaseDeployed(p)
      BY <2>3 DEF LeaseDeployed, NoDeposit
    <2> QED BY <1>1, <2>1, <2>2, <2>3 DEF FundsNext, CheckEnough, CheckFails, LeaseClosing,
             LeaseGone, Drain, ControllerRestarts
  <1>2. FundsTypeOK /\ [FundsNext]_fundsVars => [A]_fundsVars
    BY <1>1
  <1> QED BY <1>2, FundsTypes, FundsTypesInit, PTL DEF FundsSpec, SpendsWithReason

\* What the check defends against: an interval that is as long as the horizon, or as
\* what a deploy puts down.
IntervalDefends == 0 < CheckInterval /\ CheckInterval < DeployDays /\ CheckInterval < Deposit

\* How long ago, at most, the escrow held what a check or a deploy leaves in it.
Age == IF Due THEN CheckInterval ELSE checked

\* A lease whose last check got through has that much left, less what has been spent.
RunwayInv ==
    /\ lease.billing => lease.open
    /\ lease.billing /\ lease.price > 0 /\ ~failed =>
         \E days \in {DeployDays, Deposit} : escrow + lease.price * Age >= lease.price * days

\* The arithmetic of a drain: a unit of time costs the price, and the age has grown.
LEMMA DrainLeaves ==
    ASSUME NEW p \in Nat, NEW e \in Nat, NEW a \in Nat, NEW b \in Nat, NEW k \in Nat,
           e + p * a >= p * k, a < b, b <= k
    PROVE  e >= p /\ (e - p) + p * b >= p * k
  <1>1. p * (a + 1) <= p * b /\ p * b <= p * k
    BY Z3
  <1>2. p * (a + 1) = p * a + p
    BY Z3
  <1>3. p * a \in Nat /\ p * b \in Nat /\ p * k \in Nat
    BY Z3
  <1> QED BY <1>1, <1>2, <1>3

\* And what is left before the horizon is something.
LEMMA RunwayLeaves ==
    ASSUME NEW p \in Nat, NEW e \in Nat, NEW a \in Nat, NEW k \in Nat,
           e + p * a >= p * k, a < k, p > 0
    PROVE  e > 0
  <1>1. p * (a + 1) <= p * k
    BY Z3
  <1>2. p * (a + 1) = p * a + p
    BY Z3
  <1>3. p * a \in Nat /\ p * k \in Nat
    BY Z3
  <1> QED BY <1>1, <1>2, <1>3
\* Nothing but the checks and the drain moves money while a lease bills.
LEMMA RunwayStep ==
    ASSUME IntervalDefends, FundsTypeOK, RunwayInv, [FundsNext]_fundsVars
    PROVE  RunwayInv'
  <1> DEFINE Runway == lease.billing /\ lease.price > 0 /\ ~failed
             Supplied == \E days \in {DeployDays, Deposit} :
                            escrow + lease.price * Age >= lease.price * days
  <1>1. /\ lease.price \in Nat /\ escrow \in Nat /\ checked \in 0..NotYet
        /\ DeployDays \in Nat /\ Deposit \in Nat /\ CheckInterval \in Nat /\ NotYet \in Nat
    <2>1. lease.price \in Nat /\ escrow \in Nat /\ checked \in 0..NotYet
      BY PricesAreSums DEF FundsTypeOK
    <2>2. NotYet \in Nat
      BY FundsBoundsAssumption DEF NotYet
    <2> QED BY <2>1, <2>2, FundsAssumption
  <1>2. Age \in 0..CheckInterval
    BY <1>1 DEF Age, Due
  <1>3. (lease.billing => lease.open)'
    BY DEF RunwayInv, FundsNext, CheckEnough, CheckFails, TopUp, LeaseDeployed, LeaseClosing,
       LeaseGone, NoLease, Drain, ControllerRestarts, fundsVars, FundsTypeOK
  <1> SUFFICES ASSUME Runway' PROVE Supplied'
    BY <1>3 DEF RunwayInv
  <1> HIDE DEF Supplied
  <1>4. ASSUME checked' \in 0..NotYet, lease'.price \in Nat, escrow' \in Nat,
               NEW days \in {DeployDays, Deposit}, escrow' >= lease'.price * days
        PROVE  Supplied'
    <2>1. Age' \in Nat
      BY <1>1, <1>4 DEF Age, Due
    <2>2. lease'.price * Age' \in Nat /\ lease'.price * days \in Nat
      BY <1>1, <1>4, <2>1, Z3
    <2>3. escrow' + lease'.price * Age' >= lease'.price * days
      BY <1>4, <2>2
    <2> QED BY <2>3 DEF Supplied
  <1>5. checked' \in 0..NotYet /\ lease'.price \in Nat /\ escrow' \in Nat
    BY FundsTypes, PricesAreSums DEF FundsTypeOK
  <1>6. CASE CheckEnough \/ TopUp
    <2>1. escrow' >= lease.price * DeployDays
      <3>1. Floor \in Nat /\ Target \in Nat /\ Target >= Floor
        BY TargetFacts
      <3>2. CASE CheckEnough
        BY <1>1, <3>1, <3>2 DEF CheckEnough, Enough, Floor
      <3>3. CASE TopUp
        <4>1. Added \in Nat /\ escrow + Added >= Target
          BY <3>3, AddedFacts DEF TopUp
        <4>2. PICK twice \in BOOLEAN : escrow' = escrow + (IF twice THEN 2 ELSE 1) * Added
          BY <3>3 DEF TopUp
        <4>3. escrow' = escrow + 2 * Added \/ escrow' = escrow + Added
          BY <4>1, <4>2
        <4>4. escrow' >= Floor
          BY <1>1, <3>1, <4>1, <4>3
        <4> QED BY <4>4 DEF Floor
      <3> QED BY <1>6, <3>2, <3>3
    <2>2. UNCHANGED lease
      BY <1>6 DEF CheckEnough, TopUp
    <2> QED BY <1>4, <1>5, <2>1, <2>2
  <1>7. CASE CheckFails
    BY <1>7 DEF CheckFails
  <1>8. CASE \E p \in LeasePrices : LeaseDeployed(p)
    <2>1. PICK p \in LeasePrices : LeaseDeployed(p)
      BY <1>8
    <2>2. escrow' = p * Deposit /\ lease'.price = p
      BY <2>1 DEF LeaseDeployed
    <2>3. escrow' >= lease'.price * Deposit
      BY <1>5, <2>2
    <2> QED BY <1>4, <1>5, <2>3
  <1>9. CASE LeaseClosing \/ LeaseGone
    BY <1>9 DEF LeaseClosing, LeaseGone, NoLease, FundsTypeOK
  <1>10. CASE Drain
    <2>1. UNCHANGED <<lease, failed>> /\ ~Checks
      BY <1>10 DEF Drain
    <2>2. ~Due
      BY <2>1 DEF Checks, IntervalDefends, RunwayInv
    <2>3. PICK days \in {DeployDays, Deposit} : escrow + lease.price * Age >= lease.price * days
      BY <2>1 DEF RunwayInv
    <2>4. Age = checked /\ checked < CheckInterval /\ checked' = checked + 1
      BY <1>1, <1>10, <2>2 DEF Age, Due, Drain, Since
    <2>5. Age < Age' /\ Age' \in Nat /\ Age' <= days
      <3>1. days > CheckInterval
        BY DEF IntervalDefends
      <3>2. checked \in Nat /\ Age' \in {CheckInterval, checked'}
        BY <1>1 DEF Age
      <3>3. Age' <= CheckInterval
        BY <1>1, <2>4, <3>2
      <3> QED BY <1>1, <2>4, <3>1, <3>2, <3>3
    <2>6. escrow >= lease.price /\ (escrow - lease.price) + lease.price * Age' >= lease.price * days
      BY <1>1, <1>2, <2>3, <2>5, DrainLeaves
    <2>7. escrow' = escrow - lease.price
      BY <1>1, <1>10, <2>6 DEF Drain
    <2> QED BY <2>1, <2>6, <2>7 DEF Supplied
  <1>11. CASE ControllerRestarts \/ UNCHANGED fundsVars
    <2>1. UNCHANGED <<lease, escrow, failed>> /\ (checked' = checked \/ checked' = NotYet)
      BY <1>11 DEF ControllerRestarts, fundsVars
    <2>2. PICK days \in {DeployDays, Deposit} : escrow + lease.price * Age >= lease.price * days
      BY <2>1 DEF RunwayInv
    <2>3. Age' \in Nat /\ Age' >= Age
      <3>1. checked' = checked => Age' = Age
        BY DEF Age, Due
      <3>2. checked' = NotYet => Age' = CheckInterval
        BY DEF Age, Due
      <3> QED BY <1>1, <1>2, <2>1, <3>1, <3>2
    <2>4. lease.price * Age' >= lease.price * Age /\ lease.price * Age' \in Nat
      BY <1>1, <1>2, <2>3, Z3
    <2>5. lease.price * Age \in Nat /\ lease.price * days \in Nat
      BY <1>1, <1>2, Z3
    <2>6. escrow + lease.price * Age' >= lease.price * days
      BY <1>1, <2>2, <2>4, <2>5
    <2> QED BY <2>1, <2>6 DEF Supplied
  <1> QED BY <1>6, <1>7, <1>8, <1>9, <1>10, <1>11 DEF FundsNext

\* A lease that bills does not run dry while its checks get through.
THEOREM RunwayAlwaysKept ==
    ASSUME IntervalDefends
    PROVE  FundsSpec => []RunwayKept
  <1>1. FundsInit => FundsTypeOK /\ RunwayInv
    BY FundsTypesInit DEF FundsInit, RunwayInv, NoLease
  <1>2. FundsTypeOK /\ RunwayInv /\ [FundsNext]_fundsVars => FundsTypeOK' /\ RunwayInv'
    BY FundsTypes, RunwayStep
  <1>3. FundsTypeOK /\ RunwayInv => RunwayKept
    <2> SUFFICES ASSUME FundsTypeOK, RunwayInv, lease.billing, lease.price > 0, ~failed
                 PROVE  escrow > 0
      BY DEF RunwayKept
    <2>1. PICK days \in {DeployDays, Deposit} : escrow + lease.price * Age >= lease.price * days
      BY DEF RunwayInv
    <2>2. /\ lease.price \in Nat /\ escrow \in Nat /\ days \in Nat
          /\ Age \in Nat /\ Age < days
      <3>1. lease.price \in Nat /\ escrow \in Nat /\ checked \in Nat
        BY PricesAreSums, FundsBoundsAssumption DEF FundsTypeOK, NotYet
      <3>2. Age \in Nat /\ Age <= CheckInterval
        BY <3>1, FundsAssumption DEF Age, Due
      <3> QED BY <3>1, <3>2, FundsAssumption DEF IntervalDefends
    <2> QED BY <2>1, <2>2, RunwayLeaves
  <1> QED BY <1>1, <1>2, <1>3, PTL DEF FundsSpec
-----------------------------------------------------------------------------
(* The limiter.                                                            *)

Within == {a \in Attempt : attempt[a].pc # "none"}
Owed == {a \in Attempt : attempt[a].pc = "penalise"}
Ceiling == Limit * AllFactor

\* What has been compared is counted or owed; and what is counted, with all that may
\* still be, stays under the limit by less than the requests there are.
CountInv ==
    /\ wrong <= all.count + Cardinality(Owed)
    /\ all.count + Cardinality(Within) <= Ceiling + Cardinality(Attempt) - 1

TableInv == IsFiniteSet(Counters(clients)) /\ Cardinality(Counters(clients)) <= MaxClients

\* A set of requests is finite, and grows or shrinks by the one that moved.
LEMMA AttemptSets ==
    ASSUME NEW S \in SUBSET Attempt, NEW a \in Attempt
    PROVE  /\ IsFiniteSet(S) /\ Cardinality(S) \in 0..Cardinality(Attempt)
           /\ Cardinality(Attempt) \in Nat \ {0}
           /\ a \notin S => Cardinality(S \cup {a}) = Cardinality(S) + 1
           /\ a \in S => Cardinality(S \ {a}) = Cardinality(S) - 1
  <1>1. IsFiniteSet(Attempt) /\ Cardinality(Attempt) \in Nat
    BY LimiterAssumption, FS_CardinalityType
  <1>2. IsFiniteSet(S) /\ Cardinality(S) <= Cardinality(Attempt) /\ Cardinality(S) \in Nat
    BY <1>1, FS_Subset, FS_CardinalityType
  <1>3. Cardinality(Attempt) # 0
    BY <1>1, FS_EmptySet
  <1>4. a \notin S => Cardinality(S \cup {a}) = Cardinality(S) + 1
    BY <1>2, FS_AddElement
  <1>5. a \in S => Cardinality(S \ {a}) = Cardinality(S) - 1
    BY <1>2, FS_RemoveElement
  <1> QED BY <1>1, <1>2, <1>3, <1>4, <1>5

\* The ceiling, and the sizes of the sets.
LEMMA Sizes ==
    /\ Ceiling \in Nat \ {0} /\ Cardinality(Attempt) \in Nat
    /\ Cardinality(Within) \in 0..Cardinality(Attempt)
    /\ Cardinality(Owed) \in 0..Cardinality(Within)
    /\ Cardinality(Within)' \in 0..Cardinality(Attempt)
    /\ Cardinality(Owed)' \in 0..Cardinality(Within)'
  <1>1. Ceiling \in Nat \ {0}
    BY LimiterAssumption, Z3 DEF Ceiling
  <1>2. IsFiniteSet(Attempt) /\ Cardinality(Attempt) \in Nat
    BY LimiterAssumption, FS_CardinalityType
  <1>3. ASSUME NEW S \in SUBSET Attempt, NEW T \in SUBSET S
        PROVE  Cardinality(S) \in 0..Cardinality(Attempt) /\ Cardinality(T) \in 0..Cardinality(S)
    <2>1. IsFiniteSet(S) /\ Cardinality(S) <= Cardinality(Attempt) /\ Cardinality(S) \in Nat
      BY <1>2, FS_Subset, FS_CardinalityType
    <2>2. Cardinality(T) <= Cardinality(S) /\ Cardinality(T) \in Nat
      BY <2>1, FS_Subset, FS_CardinalityType
    <2> QED BY <1>2, <2>1, <2>2
  <1>4. Within \in SUBSET Attempt /\ Owed \in SUBSET Within
    BY DEF Within, Owed
  <1>5. Within' \in SUBSET Attempt /\ Owed' \in SUBSET Within'
    BY DEF Within, Owed
  <1> QED BY <1>1, <1>2, <1>3, <1>4, <1>5

\* The shape of the state is kept.
LEMMA LimiterTypes == LimiterTypeOK /\ [LimiterNext]_limiterVars => LimiterTypeOK'
  <1> SUFFICES ASSUME LimiterTypeOK, [LimiterNext]_limiterVars PROVE LimiterTypeOK'
    OBVIOUS
  <1> DEFINE Counter == [count : Nat, until : Nat, on : BOOLEAN]
             RequestShape == [pc : {"none", "verify", "penalise"}, by : Visitor \cup {NoVisitor}]
  <1>1. /\ now \in 0..MaxNow /\ all \in Counter /\ all.on = TRUE /\ wrong \in Nat
        /\ clients \in [Visitor -> Counter] /\ attempt \in [Attempt -> RequestShape]
    BY DEF LimiterTypeOK
  <1>2. now \in Nat /\ now + Window \in Nat /\ MaxNow \in Nat
    BY <1>1, LimiterAssumption
  <1>3. \A c \in Counter : /\ Restarted(c) \in Counter /\ Restarted(c).on = c.on
                           /\ Counted(c) \in Counter /\ Counted(c).on = TRUE
    <2> SUFFICES ASSUME NEW c \in Counter
                 PROVE  /\ Restarted(c) \in Counter /\ Restarted(c).on = c.on
                        /\ Counted(c) \in Counter /\ Counted(c).on = TRUE
      OBVIOUS
    <2>1. Restarted(c) \in Counter /\ Restarted(c).on = c.on
      BY <1>2 DEF Restarted
    <2>2. \A r \in Counter, n \in Nat : /\ [r EXCEPT !.count = n, !.on = TRUE] \in Counter
                                         /\ [r EXCEPT !.count = n, !.on = TRUE].on = TRUE
      OBVIOUS
    <2>3. Restarted(c).count + 1 \in Nat
      BY <2>1
    <2> QED BY <2>1, <2>2, <2>3 DEF Counted
  <1>4. NoCounter \in Counter /\ NoAttempt \in RequestShape
    BY DEF NoCounter, NoAttempt
  <1> HIDE DEF Counter
  <1>5. CASE \E a \in Attempt, v \in Visitor : Take(a, v)
    <2>1. PICK a \in Attempt, v \in Visitor : Take(a, v)
      BY <1>5
    <2>2. all' \in Counter /\ all'.on = TRUE
      BY <1>1, <1>3, <2>1 DEF Take
    <2>3. clients' \in [Visitor -> Counter]
      <3>1. clients' = clients \/ clients' = [clients EXCEPT ![v] = Restarted(clients[v])]
        BY <2>1 DEF Take
      <3>2. Restarted(clients[v]) \in Counter
        BY <1>1, <1>3
      <3> QED BY <1>1, <3>1, <3>2
    <2>4. attempt' \in [Attempt -> RequestShape]
      BY <1>1, <2>1 DEF Take
    <2>5. wrong' \in Nat /\ now' = now
      BY <1>1, <2>1 DEF Take
    <2> QED BY <1>1, <2>2, <2>3, <2>4, <2>5 DEF LimiterTypeOK, Counter
  <1>6. CASE \E a \in Attempt : Right(a)
    <2>1. attempt' \in [Attempt -> RequestShape] /\ UNCHANGED <<now, all, clients, wrong>>
      BY <1>1, <1>4, <1>6 DEF Right
    <2> QED BY <1>1, <2>1 DEF LimiterTypeOK, Counter
  <1>7. CASE \E a \in Attempt : Wrong(a)
    <2>1. attempt' \in [Attempt -> RequestShape] /\ wrong' \in Nat /\ UNCHANGED <<now, all, clients>>
      BY <1>1, <1>7 DEF Wrong
    <2> QED BY <1>1, <2>1 DEF LimiterTypeOK, Counter
  <1>8. CASE \E a \in Attempt : Penalise(a)
    <2>1. PICK a \in Attempt : Penalise(a)
      BY <1>8
    <2>2. all' \in Counter /\ all'.on = TRUE
      BY <1>1, <1>3, <2>1 DEF Penalise
    <2>3. \A v : \A t \in [Visitor -> Counter] : Penalised(t, v) \in [Visitor -> Counter]
      <3> SUFFICES ASSUME NEW t \in [Visitor -> Counter], NEW v
                   PROVE  Penalised(t, v) \in [Visitor -> Counter]
        OBVIOUS
      <3>1. Evicted(t) \in [Visitor -> Counter]
        BY <1>4 DEF Evicted
      <3>2. \A u \in [Visitor -> Counter], c \in Counter : [u EXCEPT ![v] = c] \in [Visitor -> Counter]
        OBVIOUS
      <3>3. v \in Visitor => Counted(t[v]) \in Counter
        BY <1>3
      <3>4. [t EXCEPT ![v] = Counted(t[v])] \in [Visitor -> Counter]
        BY <3>3
      <3> QED BY <1>3, <1>4, <3>1, <3>2, <3>4 DEF Penalised
    <2>4. clients' \in [Visitor -> Counter]
      BY <1>1, <2>1, <2>3 DEF Penalise
    <2>5. attempt' \in [Attempt -> RequestShape] /\ wrong' \in Nat /\ now' = now
      BY <1>1, <1>4, <2>1 DEF Penalise
    <2> QED BY <1>1, <2>2, <2>4, <2>5 DEF LimiterTypeOK, Counter
  <1>9. CASE Clock \/ UNCHANGED limiterVars
    <2>1. now' \in 0..MaxNow /\ UNCHANGED <<all, clients, attempt, wrong>>
      BY <1>1, <1>2, <1>9 DEF Clock, limiterVars
    <2> QED BY <1>1, <2>1 DEF LimiterTypeOK, Counter
  <1> QED BY <1>5, <1>6, <1>7, <1>8, <1>9 DEF LimiterNext

\* And is there from the start.
LEMMA LimiterTypesInit == LimiterInit => LimiterTypeOK
  BY LimiterAssumption DEF LimiterInit, LimiterTypeOK, NoCounter, NoAttempt

\* The counters, their table and the attempts have the shapes the code gives them.
THEOREM LimiterTypeCorrect == LimiterSpec => []LimiterTypeOK
  BY LimiterTypesInit, LimiterTypes, PTL DEF LimiterSpec

\* What one request's step does to the requests that are within, or owe a failure.
LEMMA Moved ==
    ASSUME LimiterTypeOK, NEW a \in Attempt, NEW s, attempt' = [attempt EXCEPT ![a] = s]
    PROVE  /\ s.pc = "none" => Within' = Within \ {a}
           /\ s.pc # "none" => Within' = Within \cup {a}
           /\ s.pc = "penalise" => Owed' = Owed \cup {a}
           /\ s.pc # "penalise" => Owed' = Owed \ {a}
  <1>1. attempt'[a] = s /\ \A b \in Attempt \ {a} : attempt'[b] = attempt[b]
    BY DEF LimiterTypeOK
  <1> QED BY <1>1 DEF Within, Owed

\* Every failure that is compared is counted or owed.
LEMMA CountStep ==
    ASSUME LimiterTypeOK, CountInv, [LimiterNext]_limiterVars
    PROVE  CountInv'
  <1>1. /\ all.count \in Nat /\ wrong \in Nat /\ now \in Nat
        /\ Within \in SUBSET Attempt /\ Owed \in SUBSET Attempt
    BY DEF LimiterTypeOK, Within, Owed
  <1> DEFINE w == Cardinality(Within)
             o == Cardinality(Owed)
             n == Cardinality(Attempt)
  <1>2. /\ Ceiling \in Nat \ {0} /\ n \in Nat /\ w \in 0..n /\ o \in 0..w
        /\ w' \in 0..n /\ o' \in 0..w'
    BY Sizes
  <1>3. wrong <= all.count + o /\ all.count + w <= Ceiling + n - 1
    BY DEF CountInv
  <1>4. SUFFICES wrong' <= all'.count + o' /\ all'.count + w' <= Ceiling + n - 1
    BY DEF CountInv
  <1>5. CASE \E a \in Attempt, v \in Visitor : Take(a, v)
    <2>1. PICK a \in Attempt, v \in Visitor : Take(a, v)
      BY <1>5
    <2>2. /\ now < all.until => all' = all /\ wrong' = wrong
          /\ ~(now < all.until) => all'.count = 0 /\ wrong' = 0
      BY <2>1 DEF Take, Restarted, LimiterTypeOK
    <2>3. a \notin Within
      BY <2>1 DEF Take, NoAttempt, Within
    <2>4. \/ attempt' = attempt
          \/ /\ all'.count < Ceiling
             /\ attempt' = [attempt EXCEPT ![a] = [pc |-> "verify", by |-> v]]
      BY <2>1 DEF Take, Allows, AllAllows, Ceiling
    <2>5. o' = o
      <3>1. a \notin Owed
        BY <2>3 DEF Owed, Within
      <3>2. Owed' = Owed
        BY <2>4, <3>1, Moved DEF Owed
      <3> QED BY <3>2
    <2>6. w' = w \/ (all'.count < Ceiling /\ w' = w + 1)
      <3>1. Within' = Within \/ (all'.count < Ceiling /\ Within' = Within \cup {a})
        BY <2>4, Moved DEF Within
      <3> QED BY <1>1, <2>3, <3>1, AttemptSets
    <2>7. wrong' <= all'.count + o'
      BY <1>1, <1>2, <1>3, <2>2, <2>5
    <2>8. all'.count \in Nat
      BY <1>1, <2>2
    <2>9. all'.count + w' <= Ceiling + n - 1
      <3>1. CASE all'.count < Ceiling
        BY <1>2, <2>8, <3>1
      <3>2. CASE ~(all'.count < Ceiling)
        <4>1. w' = w /\ all' = all
          BY <1>2, <2>2, <2>6, <3>2
        <4> QED BY <1>3, <4>1
      <3> QED BY <3>1, <3>2
    <2> QED BY <2>7, <2>9
  <1>6. CASE \E a \in Attempt : Right(a)
    <2>1. PICK a \in Attempt : Right(a)
      BY <1>6
    <2>2. a \in Within /\ a \notin Owed /\ UNCHANGED <<all, wrong>>
      BY <2>1 DEF Right, Within, Owed
    <2>3. Within' = Within \ {a} /\ Owed' = Owed \ {a}
      <3>1. attempt' = [attempt EXCEPT ![a] = NoAttempt]
        BY <2>1 DEF Right
      <3>2. NoAttempt.pc = "none"
        BY DEF NoAttempt
      <3> QED BY <3>1, <3>2, Moved
    <2>4. Owed' = Owed
      BY <2>2, <2>3
    <2>5. w' = w - 1 /\ o' = o
      BY <1>1, <2>2, <2>3, <2>4, AttemptSets
    <2> QED BY <1>1, <1>2, <1>3, <2>2, <2>5
  <1>7. CASE \E a \in Attempt : Wrong(a)
    <2>1. PICK a \in Attempt : Wrong(a)
      BY <1>7
    <2>2. a \in Within /\ a \notin Owed /\ UNCHANGED all /\ wrong' = wrong + 1
      BY <2>1 DEF Wrong, Within, Owed
    <2>3. Within' = Within \cup {a} /\ Owed' = Owed \cup {a}
      <3>1. attempt' = [attempt EXCEPT ![a] = [attempt[a] EXCEPT !.pc = "penalise"]]
        BY <2>1 DEF Wrong
      <3>2. [attempt[a] EXCEPT !.pc = "penalise"].pc = "penalise"
        BY DEF LimiterTypeOK
      <3> QED BY <3>1, <3>2, Moved
    <2>4. Within' = Within
      BY <2>2, <2>3
    <2>5. w' = w /\ o' = o + 1
      BY <1>1, <2>2, <2>3, <2>4, AttemptSets
    <2> QED BY <1>1, <1>2, <1>3, <2>2, <2>5
  <1>8. CASE \E a \in Attempt : Penalise(a)
    <2>1. PICK a \in Attempt : Penalise(a)
      BY <1>8
    <2>2. a \in Within /\ a \in Owed
      BY <2>1 DEF Penalise, Within, Owed
    <2>3. Within' = Within \ {a} /\ Owed' = Owed \ {a}
      <3>1. attempt' = [attempt EXCEPT ![a] = NoAttempt]
        BY <2>1 DEF Penalise
      <3>2. NoAttempt.pc = "none"
        BY DEF NoAttempt
      <3> QED BY <3>1, <3>2, Moved
    <2>4. w' = w - 1 /\ o' = o - 1
      BY <1>1, <2>2, <2>3, AttemptSets
    <2>5. all'.count = Restarted(all).count + 1
      <3>1. all \in [count : Nat, until : Nat, on : {TRUE}]
        BY DEF LimiterTypeOK
      <3>2. Restarted(all) \in {all, [all EXCEPT !.count = 0, !.until = now + Window]}
        BY DEF Restarted
      <3>3. \E c, u : Restarted(all) = [count |-> c, until |-> u, on |-> TRUE]
        BY <3>1, <3>2
      <3> QED BY <2>1, <3>3 DEF Penalise, Counted
    <2>6. /\ now < all.until => Restarted(all).count = all.count /\ wrong' = wrong
          /\ ~(now < all.until) => Restarted(all).count = 0 /\ wrong' = 1
      BY <2>1 DEF Penalise, Restarted, LimiterTypeOK
    <2> QED BY <1>1, <1>2, <1>3, <2>4, <2>5, <2>6
  <1>9. CASE Clock \/ UNCHANGED limiterVars
    <2>1. UNCHANGED <<all, attempt, wrong>>
      BY <1>9 DEF Clock, limiterVars
    <2>2. Within' = Within /\ Owed' = Owed
      BY <2>1 DEF Within, Owed
    <2> QED BY <1>3, <2>1, <2>2
  <1> QED BY <1>5, <1>6, <1>7, <1>8, <1>9 DEF LimiterNext

\* A smaller table of counters is no larger.
LEMMA SmallerTable ==
    ASSUME NEW t, NEW u, Counters(u) \subseteq Counters(t), IsFiniteSet(Counters(t))
    PROVE  IsFiniteSet(Counters(u)) /\ Cardinality(Counters(u)) <= Cardinality(Counters(t))
  BY FS_Subset

\* One element makes a finite set larger by at most one.
LEMMA OneMore ==
    ASSUME NEW S, NEW x, IsFiniteSet(S)
    PROVE  IsFiniteSet(S \cup {x}) /\ Cardinality(S \cup {x}) <= Cardinality(S) + 1
  <1>1. Cardinality(S) \in Nat
    BY FS_CardinalityType
  <1>2. IsFiniteSet(S \cup {x})
    BY FS_AddElement
  <1>3. Cardinality(S \cup {x}) \in {Cardinality(S), Cardinality(S) + 1}
    BY FS_AddElement
  <1> QED BY <1>1, <1>2, <1>3

\* A visitor gets a counter only where there is room for it.
LEMMA PenalisedTable ==
    ASSUME LimiterTypeOK, TableInv, NEW v
    PROVE  /\ IsFiniteSet(Counters(Penalised(clients, v)))
           /\ Cardinality(Counters(Penalised(clients, v))) <= MaxClients
  <1> DEFINE t == clients
             room == IF Cardinality(Counters(t)) >= MaxClients THEN Evicted(t) ELSE t
  <1>1. Counters(Evicted(t)) \subseteq Counters(t)
    BY DEF Counters, Evicted, NoCounter
  <1>2. /\ IsFiniteSet(Counters(room)) /\ Cardinality(Counters(room)) \in Nat
        /\ Cardinality(Counters(room)) <= MaxClients
    <2>1. Cardinality(Counters(t)) <= MaxClients /\ IsFiniteSet(Counters(t))
      BY DEF TableInv
    <2>2. IsFiniteSet(Counters(room)) /\ Cardinality(Counters(room)) <= Cardinality(Counters(t))
      <3>1. Counters(room) \subseteq Counters(t)
        BY <1>1
      <3> QED BY <2>1, <3>1, SmallerTable
    <2>3. Cardinality(Counters(room)) \in Nat /\ Cardinality(Counters(t)) \in Nat
      BY <2>1, <2>2, FS_CardinalityType
    <2> QED BY <2>1, <2>2, <2>3, LimiterAssumption
  <1>3. CASE t[v].on
    <2>1. Penalised(t, v) = [t EXCEPT ![v] = Counted(t[v])]
      BY <1>3 DEF Penalised
    <2>2. Counters(Penalised(t, v)) \subseteq Counters(t)
      BY <1>3, <2>1 DEF Counters, LimiterTypeOK
    <2>3. Cardinality(Counters(t)) \in Nat /\ MaxClients \in Nat
      BY FS_CardinalityType, LimiterAssumption DEF TableInv
    <2>4. /\ IsFiniteSet(Counters(Penalised(t, v)))
          /\ Cardinality(Counters(Penalised(t, v))) <= Cardinality(Counters(t))
      BY <2>2, SmallerTable DEF TableInv
    <2>5. Cardinality(Counters(Penalised(t, v))) \in Nat
      BY <2>4, FS_CardinalityType
    <2> QED BY <2>3, <2>4, <2>5 DEF TableInv
  <1>4. CASE ~t[v].on /\ Cardinality(Counters(room)) >= MaxClients
    BY <1>2, <1>4 DEF Penalised
  <1>5. CASE ~t[v].on /\ ~(Cardinality(Counters(room)) >= MaxClients)
    <2>1. Penalised(t, v) = [room EXCEPT ![v] = Counted(NoCounter)]
      BY <1>5 DEF Penalised
    <2>2. DOMAIN room = Visitor
      BY DEF Evicted, LimiterTypeOK
    <2> HIDE DEF room
    <2>3. Counters(Penalised(t, v)) \subseteq Counters(room) \cup {v}
      BY <2>1, <2>2 DEF Counters
    <2>4. /\ IsFiniteSet(Counters(room) \cup {v})
          /\ Cardinality(Counters(room) \cup {v}) <= Cardinality(Counters(room)) + 1
      BY <1>2, OneMore
    <2>5. /\ IsFiniteSet(Counters(Penalised(t, v)))
          /\ Cardinality(Counters(Penalised(t, v))) <= Cardinality(Counters(room) \cup {v})
      BY <2>3, <2>4, FS_Subset
    <2>6. /\ Cardinality(Counters(room) \cup {v}) \in Nat
          /\ Cardinality(Counters(Penalised(t, v))) \in Nat
      BY <2>4, <2>5, FS_CardinalityType
    <2> QED BY <1>2, <1>5, <2>4, <2>5, <2>6, LimiterAssumption
  <1> QED BY <1>3, <1>4, <1>5

\* The table is bounded.
LEMMA TableStep ==
    ASSUME LimiterTypeOK, TableInv, [LimiterNext]_limiterVars
    PROVE  TableInv'
  <1>1. CASE Counters(clients)' = Counters(clients)
    BY <1>1 DEF TableInv
  <1>2. CASE \E a \in Attempt, v \in Visitor : Take(a, v)
    <2>1. PICK a \in Attempt, v \in Visitor : Take(a, v)
      BY <1>2
    <2>2. \A c \in [count : Nat, until : Nat, on : BOOLEAN] : Restarted(c).on = c.on
      BY DEF Restarted
    <2>3. clients' = clients \/ clients' = [clients EXCEPT ![v] = Restarted(clients[v])]
      BY <2>1 DEF Take
    <2>4. \A u \in Visitor : clients'[u].on = clients[u].on
      BY <2>2, <2>3 DEF LimiterTypeOK
    <2> QED BY <1>1, <2>4 DEF Counters
  <1>3. CASE \E a \in Attempt : Penalise(a)
    <2>1. PICK a \in Attempt : Penalise(a)
      BY <1>3
    <2>2. clients' = Penalised(clients, attempt[a].by)
      BY <2>1 DEF Penalise
    <2> QED BY <2>2, PenalisedTable DEF TableInv
  <1>4. CASE UNCHANGED clients
    BY <1>1, <1>4
  <1> QED BY <1>2, <1>3, <1>4 DEF LimiterNext, Right, Wrong, Clock, limiterVars

\* Nothing has been compared or counted at the start.
LEMMA CountsInit == LimiterInit => CountInv /\ TableInv
  <1> SUFFICES ASSUME LimiterInit PROVE CountInv /\ TableInv
    OBVIOUS
  <1>1. Within = {} /\ Owed = {}
    BY DEF LimiterInit, NoAttempt, Within, Owed
  <1>2. Counters(clients) = {}
    BY DEF LimiterInit, NoCounter, Counters
  <1>3. Cardinality({}) = 0
    BY FS_EmptySet
  <1>4. IsFiniteSet({})
    BY FS_EmptySet
  <1>5. all.count = 0 /\ wrong = 0
    BY DEF LimiterInit
  <1>6. Ceiling \in Nat \ {0} /\ Cardinality(Attempt) \in Nat
    BY Sizes
  <1> QED BY <1>1, <1>2, <1>3, <1>4, <1>5, <1>6, LimiterAssumption DEF CountInv, TableInv

\* However many requests are between asking, comparing and reporting at once, what is
\* compared in one window of the process exceeds its limit by less than their number,
\* and the table of counters never outgrows its bound (take, verify, penalise, evict).
THEOREM AttemptsAreBounded == LimiterSpec => []RateBounded
  <1>1. LimiterInit => LimiterTypeOK /\ CountInv /\ TableInv
    BY LimiterTypesInit, CountsInit
  <1>2. LimiterTypeOK /\ CountInv /\ TableInv /\ [LimiterNext]_limiterVars
          => (LimiterTypeOK /\ CountInv /\ TableInv)'
    BY LimiterTypes, CountStep, TableStep
  <1>3. LimiterTypeOK /\ CountInv /\ TableInv => RateBounded
    <2> SUFFICES ASSUME LimiterTypeOK, CountInv, TableInv PROVE RateBounded
      OBVIOUS
    <2>1. all.count \in Nat /\ wrong \in Nat
      BY DEF LimiterTypeOK
    <2>2. /\ Ceiling \in Nat \ {0} /\ Cardinality(Attempt) \in Nat
          /\ Cardinality(Within) \in 0..Cardinality(Attempt) /\ Cardinality(Owed) \in 0..Cardinality(Within)
      BY Sizes
    <2>3. wrong <= Ceiling + Cardinality(Attempt) - 1
      BY <2>1, <2>2 DEF CountInv
    <2> QED BY <2>3 DEF RateBounded, TableInv, Ceiling
  <1> QED BY <1>1, <1>2, <1>3, PTL DEF LimiterSpec
-----------------------------------------------------------------------------
(* The routes.                                                             *)

\* What a call is, of a client with these routes.
RouteAnswers == {"done", "again", "refused", "missing", "too_large"}
Whys == RouteAnswers \cup {"none", "no route", "budget"}
Calls(seq) == [on : BOOLEAN, attempts : Nat, tried : SUBSET Range(seq), why : Whys]

\* No call is a call that is not on.
LEMMA NoCallYet ==
    ASSUME NEW seq
    PROVE  /\ NoCall \in Calls(seq) /\ NoCall.on = FALSE /\ NoCall.attempts = 0
           /\ NoCall.tried = {} /\ NoCall.why = "none"
  BY DEF NoCall, Calls, Whys

\* One refused for want of a route is still not on, and says so.
LEMMA CallRefused ==
    ASSUME NEW seq
    PROVE  LET c == [NoCall EXCEPT !.why = "no route"]
           IN  c \in Calls(seq) /\ c.on = FALSE /\ c.tried = {} /\ c.why = "no route"
  BY DEF NoCall, Calls, Whys

\* One that is begun has tried nothing.
LEMMA CallBegun ==
    ASSUME NEW seq
    PROVE  LET c == [NoCall EXCEPT !.on = TRUE]
           IN  c \in Calls(seq) /\ c.on = TRUE /\ c.attempts = 0 /\ c.tried = {} /\ c.why = "none"
  BY DEF NoCall, Calls, Whys

\* What is true of the call under way: its attempts are not used up, and went through
\* the routes in turn, the first, then the other.
CallInv ==
    /\ routes \in Seq(Range(routes)) /\ Len(routes) \in 0..2
    /\ call \in Calls(routes)
    /\ call.on =>
         /\ routes # <<>> /\ call.attempts \in 0..(Retries - 1) /\ call.why = "none"
         /\ call.attempts = 0 => call.tried = {}
         /\ call.attempts = 1 => call.tried = {routes[1]}
         /\ call.attempts > 1 => call.tried = Range(routes)

\* Before the client is built there are none.
LEMMA NoRoutes == <<>> \in Seq(Range(<<>>)) /\ Len(<<>>) = 0
  OBVIOUS

\* Two routes one after the other are a pair of them.
LEMMA PairOfRoutes == ASSUME NEW x, NEW y PROVE <<x>> \o <<y>> = <<x, y>>
  <1> DEFINE s == <<x>> \o <<y>>
  <1>1. <<x>> \in Seq({x, y}) /\ <<y>> \in Seq({x, y}) /\ <<x, y>> \in Seq({x, y})
    OBVIOUS
  <1>2. s \in Seq({x, y}) /\ Len(s) = 2
    BY <1>1
  <1>3. s[1] = x /\ s[2] = y
    BY <1>1
  <1> HIDE DEF s
  <1>4. s = <<x, y>>
    BY <1>1, <1>2, <1>3, SeqEqual
  <1> QED BY <1>4 DEF s

\* A client has at most two routes, the empty and the repeated dropped.
LEMMA FewRoutes ==
    ASSUME NEW first, NEW second
    PROVE  RoutesOf(first, second) \in Seq(Range(RoutesOf(first, second))) /\ Len(RoutesOf(first, second)) \in 0..2
  <1>1. \/ RoutesOf(first, second) = <<>>
        \/ RoutesOf(first, second) = <<first>>
        \/ RoutesOf(first, second) = <<second>>
        \/ RoutesOf(first, second) = <<first, second>>
    <2>1. ASSUME NEW x PROVE <<>> \o <<>> = <<>> /\ <<x>> \o <<>> = <<x>> /\ <<>> \o <<x>> = <<x>>
      OBVIOUS
    <2>2. <<first>> \o <<second>> = <<first, second>>
      BY PairOfRoutes
    <2> QED BY <2>1, <2>2, Zenon DEF RoutesOf
  <1>2. <<>> \in Seq(Range(<<>>)) /\ Len(<<>>) = 0
    BY NoRoutes
  <1>3. ASSUME NEW x PROVE <<x>> \in Seq(Range(<<x>>)) /\ Len(<<x>>) = 1
    BY DEF Range
  <1>4. <<first, second>> \in Seq(Range(<<first, second>>)) /\ Len(<<first, second>>) = 2
    BY DEF Range
  <1>5. ASSUME NEW r, r \in Seq(Range(r)), Len(r) \in {0, 1, 2}, RoutesOf(first, second) = r
        PROVE  RoutesOf(first, second) \in Seq(Range(RoutesOf(first, second))) /\ Len(RoutesOf(first, second)) \in 0..2
    BY <1>5
  <1> QED BY <1>1, <1>2, <1>3, <1>4, <1>5, Zenon

\* The attempts of a call take the routes in turn, so two of them have taken all.
LEMMA RoutesInTurn ==
    ASSUME routes \in Seq(Range(routes)), Len(routes) \in 1..2, NEW n \in Nat
    PROVE  /\ RouteOf(0) = routes[1] /\ RouteOf(n) \in Range(routes)
           /\ Range(routes) = {RouteOf(0), RouteOf(1)}
           /\ Len(routes) = 1 => Range(routes) = {routes[1]}
  <1>1. DOMAIN routes = 1..Len(routes)
    OBVIOUS
  <1>2. CASE Len(routes) = 1
    <2>1. Range(routes) = {routes[1]}
      BY <1>1, <1>2 DEF Range
    <2>2. 0 % 1 = 0 /\ 1 % 1 = 0 /\ n % 1 = 0
      OBVIOUS
    <2> QED BY <1>2, <2>1, <2>2 DEF RouteOf
  <1>3. CASE Len(routes) = 2
    <2>1. Range(routes) = {routes[1], routes[2]}
      BY <1>1, <1>3 DEF Range
    <2>2. 0 % 2 = 0 /\ 1 % 2 = 1 /\ n % 2 \in {0, 1}
      OBVIOUS
    <2> QED BY <1>3, <2>1, <2>2 DEF RouteOf
  <1> QED BY <1>2, <1>3

\* One attempt of a call keeps what is true of it, or ends it with every route tried.
LEMMA TryStep ==
    ASSUME CallInv, EveryRouteTried, NEW answer \in RouteAnswers, Try(answer), UNCHANGED routes
    PROVE  CallInv' /\ EveryRouteTried'
  <1> DEFINE tried == call.tried \cup {RouteOf(call.attempts)}
             n == call.attempts + 1
  <1>1. /\ call.on /\ routes # <<>> /\ call.attempts \in 0..(Retries - 1) /\ Retries \in Nat
        /\ call.why = "none" /\ routes \in Seq(Range(routes)) /\ Len(routes) \in 1..2
    BY RoutesAssumption DEF CallInv, Try
  <1>2. /\ Tries \in Calls(routes) /\ Tries.on = call.on /\ Tries.attempts = n
        /\ Tries.tried = tried /\ Tries.why = call.why
    <2>2. call \in Calls(routes) /\ n \in Nat
      BY <1>1 DEF CallInv
    <2>3. tried \in SUBSET Range(routes)
      BY <1>1, <2>2, RoutesInTurn DEF Calls
    <2>4. Tries = [call EXCEPT !.attempts = n, !.tried = tried]
      BY DEF Tries
    <2> HIDE DEF n, tried
    <2> QED BY <2>2, <2>3, <2>4 DEF Calls
  <1>3. /\ n = 1 => tried = {routes[1]}
        /\ n > 1 => tried = Range(routes)
        /\ n >= 1
    <2>1. /\ RouteOf(0) = routes[1] /\ RouteOf(call.attempts) \in Range(routes)
          /\ Range(routes) = {RouteOf(0), RouteOf(1)}
      BY <1>1, RoutesInTurn
    <2>2. CASE call.attempts = 0
      <3>1. n = 1 /\ tried = {routes[1]}
        BY <1>1, <2>1, <2>2 DEF CallInv
      <3> QED BY <3>1
    <2>3. CASE call.attempts = 1
      <3>1. n = 2 /\ call.tried = {routes[1]}
        BY <1>1, <2>3 DEF CallInv
      <3>2. tried = Range(routes)
        BY <2>1, <2>3, <3>1
      <3> QED BY <3>1, <3>2
    <2>4. CASE call.attempts > 1
      <3>1. n \in Nat /\ n > 2 /\ call.tried = Range(routes)
        BY <1>1, <2>4 DEF CallInv
      <3>2. tried = Range(routes)
        BY <2>1, <3>1
      <3> QED BY <3>1, <3>2
    <2>5. call.attempts = 0 \/ call.attempts = 1 \/ call.attempts > 1
      BY <1>1
    <2> HIDE DEF n, tried
    <2> QED BY <2>2, <2>3, <2>4, <2>5
  <1>4. CASE answer # "done" /\ ~EndsCall(answer) /\ Tries.attempts # Retries
    <2>1. call' = Tries
      BY <1>4 DEF Try
    <2>2. n \in 0..(Retries - 1) /\ n # 0
      BY <1>1, <1>2, <1>4
    <2>3. CallInv'
      BY <1>1, <1>2, <1>3, <2>1, <2>2 DEF CallInv
    <2> QED BY <1>1, <1>2, <2>1, <2>3 DEF EveryRouteTried
  <1>5. CASE ~(answer # "done" /\ ~EndsCall(answer) /\ Tries.attempts # Retries)
    <2>1. call' = [Tries EXCEPT !.on = FALSE, !.why = answer]
      BY <1>5 DEF Try
    <2>2. call' \in Calls(routes) /\ call'.on = FALSE /\ call'.tried = tried /\ call'.why = answer
      <3>1. answer \in Whys
        BY DEF Whys
      <3> HIDE DEF n, tried
      <3> QED BY <1>2, <2>1, <3>1 DEF Calls
    <2>4. CallInv'
      BY <1>1, <2>2 DEF CallInv
    <2>3. ASSUME answer \in {"again", "too_large"}
          PROVE  tried = Range(routes) \/ Cardinality(tried) = Retries
      <3>1. (answer = "too_large" /\ Len(routes) = 1) \/ n = Retries
        BY <1>2, <1>5, <2>3 DEF EndsCall
      <3>2. CASE n > 1
        BY <1>3, <3>2
      <3>3. CASE n = 1 /\ Len(routes) = 1
        BY <1>1, <1>3, <3>3, RoutesInTurn
      <3>4. CASE n = 1 /\ n = Retries
        BY <1>3, <3>4, FS_Singleton
      <3> QED BY <1>1, <1>3, <3>1, <3>2, <3>3, <3>4
    <2> QED BY <2>2, <2>3, <2>4 DEF EveryRouteTried
  <1> QED BY <1>4, <1>5

\* Before the first call nothing was tried.
LEMMA RoutesInitOK == RoutesInit => CallInv /\ EveryRouteTried
  <1> SUFFICES ASSUME RoutesInit PROVE CallInv /\ EveryRouteTried
    OBVIOUS
  <1>1. routes = <<>> /\ call = NoCall
    BY DEF RoutesInit
  <1>2. call \in Calls(routes) /\ call.on = FALSE /\ call.why = "none"
    BY <1>1, NoCallYet
  <1>3. routes \in Seq(Range(routes)) /\ Len(routes) \in 0..2
    BY <1>1, NoRoutes
  <1> QED BY <1>2, <1>3 DEF CallInv, EveryRouteTried

\* Every step keeps what is true of the call.
LEMMA RoutesStep == CallInv /\ EveryRouteTried /\ [RoutesNext]_routesVars => (CallInv /\ EveryRouteTried)'
  <1> SUFFICES ASSUME CallInv, EveryRouteTried, [RoutesNext]_routesVars
               PROVE  CallInv' /\ EveryRouteTried'
    OBVIOUS
  <1>1. ASSUME UNCHANGED <<call, routes>> PROVE CallInv' /\ EveryRouteTried'
    BY <1>1 DEF CallInv, EveryRouteTried
  <1>2. CASE AgentStarts
    <2>1. routes' = <<>> /\ call' = NoCall
      BY <1>2 DEF AgentStarts
    <2>2. call' \in Calls(routes') /\ call'.on = FALSE /\ call'.why = "none"
      BY <2>1, NoCallYet
    <2>3. routes' \in Seq(Range(routes')) /\ Len(routes') \in 0..2
      BY <2>1, NoRoutes
    <2> QED BY <2>2, <2>3 DEF CallInv, EveryRouteTried
  <1>3. CASE BeginCall
    <2>1. /\ routes' = routes \/ routes' = RoutesOf(direct, base)
          /\ \/ call' = [NoCall EXCEPT !.why = "no route"]
             \/ routes' # <<>> /\ call' = [NoCall EXCEPT !.on = TRUE]
      BY <1>3 DEF BeginCall
    <2>2. routes' \in Seq(Range(routes')) /\ Len(routes') \in 0..2
      <3>1. CASE routes' = routes
        BY <3>1 DEF CallInv
      <3>2. CASE routes' = RoutesOf(direct, base)
        BY <3>2, FewRoutes
      <3> QED BY <2>1, <3>1, <3>2
    <2>3. CASE call' = [NoCall EXCEPT !.why = "no route"]
      <3>1. call' \in Calls(routes') /\ call'.on = FALSE /\ call'.why = "no route"
        BY <2>3, CallRefused
      <3> QED BY <2>2, <3>1 DEF CallInv, EveryRouteTried
    <2>4. CASE routes' # <<>> /\ call' = [NoCall EXCEPT !.on = TRUE]
      <3>1. /\ call' \in Calls(routes') /\ call'.attempts = 0 /\ call'.tried = {}
            /\ call'.why = "none"
        BY <2>4, CallBegun
      <3>2. 0 \in 0..(Retries - 1)
        BY RoutesAssumption
      <3> QED BY <2>2, <2>4, <3>1, <3>2 DEF CallInv, EveryRouteTried
    <2> QED BY <2>1, <2>3, <2>4
  <1>4. CASE TimeIsUp
    <2>1. /\ routes' = routes
          /\ call' \in Calls(routes) /\ call'.on = FALSE /\ call'.why = "budget"
      <3>1. routes' = routes /\ call' = [call EXCEPT !.on = FALSE, !.why = "budget"]
        BY <1>4 DEF TimeIsUp
      <3>2. call \in Calls(routes) /\ "budget" \in Whys
        BY DEF CallInv, Whys
      <3> QED BY <3>1, <3>2 DEF Calls
    <2> QED BY <2>1 DEF CallInv, EveryRouteTried
  <1>5. CASE \E a \in {"done", "again", "refused", "missing", "too_large"} : Try(a)
    <2>1. PICK a \in RouteAnswers : Try(a)
      BY <1>5 DEF RouteAnswers
    <2>2. UNCHANGED routes
      BY <2>1 DEF Try
    <2> QED BY <2>1, <2>2, TryStep
  <1>6. CASE LookForSelf \/ ReadsUrls \/ \E p \in Place : ControllerStarts(p) \/ OtherController(p)
    BY <1>1, <1>6 DEF LookForSelf, ReadsUrls, ControllerStarts, OtherController
  <1>7. CASE UNCHANGED routesVars
    BY <1>1, <1>7 DEF routesVars
  <1> QED BY <1>2, <1>3, <1>4, <1>5, <1>6, <1>7 DEF RoutesNext

\* A call has gone to every route the agent knows, as far as its attempts reach, before
\* it says that there is no answer, or that its body is too large (Client.retry).
THEOREM NoSingleAddressDecides == RoutesSpec => []EveryRouteTried
  BY RoutesInitOK, RoutesStep, PTL DEF RoutesSpec

\* What is known of the addresses, of the boot and of what is counted.
RoutesShape ==
    /\ config \in Configs /\ place \in Place /\ others \subseteq Place \ {place}
    /\ self \in Url /\ base \in Url /\ direct \in Url
    /\ urls \in [public : Url, raw : Url] /\ Range(routes) \subseteq Url \ {NoUrl}
    /\ stage \in BootStages /\ call.attempts \in 0..Retries
    /\ moves \in 0..MaxMoves /\ uploads \in 0..MaxCalls

\* What the controller publishes of an address is an address.
LEMMA PublishedUrls ==
    ASSUME NEW own \in Url
    PROVE  WantedUrls(own) \in [public : Url, raw : Url]
  BY DEF WantedUrls, Raw, Url

\* And so is what the agent takes from it.
LEMMA UrlsRead ==
    ASSUME urls \in [public : Url, raw : Url]
    PROVE  BaseOf(urls) \in Url /\ DirectOf(urls) \in Url /\ ControllerURL \in Url
  <1>1. urls.public \in Url /\ urls.raw \in Url /\ config.flag \in Url
    BY DEF Url
  <1> QED BY <1>1 DEF BaseOf, DirectOf, ControllerURL

\* No route is empty, and each is one the agent was given.
LEMMA RoutesAreGiven ==
    ASSUME NEW first, NEW second
    PROVE  Range(RoutesOf(first, second)) \subseteq {first, second} \ {NoUrl} /\ Range(<<>>) = {}
  <1>1. \/ RoutesOf(first, second) = <<>>
        \/ RoutesOf(first, second) = <<first>> /\ first # NoUrl
        \/ RoutesOf(first, second) = <<second>> /\ second # NoUrl
        \/ RoutesOf(first, second) = <<first, second>> /\ first # NoUrl /\ second # NoUrl
    <2>1. ASSUME NEW x PROVE <<>> \o <<>> = <<>> /\ <<x>> \o <<>> = <<x>> /\ <<>> \o <<x>> = <<x>>
      OBVIOUS
    <2>2. <<first>> \o <<second>> = <<first, second>>
      BY PairOfRoutes
    <2>3. CASE first = NoUrl /\ second = NoUrl
      BY <2>1, <2>3, Zenon DEF RoutesOf
    <2>4. CASE first = NoUrl /\ second # NoUrl
      <3>1. second \notin {NoUrl, first}
        BY <2>4
      <3> QED BY <2>1, <2>4, <3>1, Zenon DEF RoutesOf
    <2>5. CASE first # NoUrl /\ second \in {NoUrl, first}
      BY <2>1, <2>5, Zenon DEF RoutesOf
    <2>6. CASE first # NoUrl /\ second \notin {NoUrl, first}
      <3>1. second # NoUrl
        BY <2>6
      <3> QED BY <2>2, <2>6, <3>1, Zenon DEF RoutesOf
    <2> QED BY <2>3, <2>4, <2>5, <2>6
  <1>2. Range(<<>>) = {} /\ (\A x : Range(<<x>>) = {x}) /\ (\A x, y : Range(<<x, y>>) = {x, y})
    BY DEF Range
  <1>3. ASSUME NEW r, RoutesOf(first, second) = r, Range(r) \subseteq {first, second} \ {NoUrl}
        PROVE  Range(RoutesOf(first, second)) \subseteq {first, second} \ {NoUrl}
    BY <1>3
  <1>4. CASE RoutesOf(first, second) = <<>>
    BY <1>2, <1>3, <1>4
  <1>5. CASE RoutesOf(first, second) = <<first>> /\ first # NoUrl
    BY <1>2, <1>3, <1>5
  <1>6. CASE RoutesOf(first, second) = <<second>> /\ second # NoUrl
    BY <1>2, <1>3, <1>6
  <1>7. CASE RoutesOf(first, second) = <<first, second>> /\ first # NoUrl /\ second # NoUrl
    BY <1>2, <1>3, <1>7
  <1> QED BY <1>1, <1>2, <1>4, <1>5, <1>6, <1>7

\* What a call's end makes of the boot is a stage of it.
LEMMA StagesOfABoot ==
    /\ {"off", "ready", "failed", "restore_failed", "health", "common", "server", "archive"} \subseteq BootStages
    /\ \A what, answer : Later(what) \in BootStages /\ Given(what, answer) \in BootStages
  <1>1. {"off", "ready", "failed", "restore_failed", "health", "common", "server", "archive"} \subseteq BootStages
    <2>1. Range(BootCalls) = {"health", "common", "server", "archive"}
      BY DEF BootCalls, Range
    <2> QED BY <2>1 DEF BootStages
  <1>2. \A what : Later(what) \in {"ready", "common", "server", "archive"}
    BY DEF Later
  <1>3. \A what, answer : Given(what, answer) \in {"ready", "failed", "restore_failed", "server"}
    BY DEF Given
  <1> QED BY <1>1, <1>2, <1>3

\* Before anything is published.
LEMMA RoutesShapeInit == RoutesInit => RoutesShape
  <1> SUFFICES ASSUME RoutesInit PROVE RoutesShape
    OBVIOUS
  <1>1. /\ config \in Configs /\ place \in Place /\ others = {} /\ self = NoUrl /\ urls = WantedUrls(NoUrl)
        /\ base = NoUrl /\ direct = NoUrl /\ routes = <<>> /\ stage = "off" /\ call = NoCall /\ moves = 0 /\ uploads = 0
    BY DEF RoutesInit
  <1>2. NoUrl \in Url
    BY DEF Url
  <1>3. urls \in [public : Url, raw : Url]
    BY <1>1, <1>2, PublishedUrls
  <1>4. call.attempts = 0 /\ Retries \in Nat /\ MaxMoves \in Nat /\ MaxCalls \in Nat
    BY <1>1, RoutesAssumption, RoutesBoundsAssumption DEF NoCall
  <1>5. Range(routes) = {} /\ stage \in BootStages
    BY <1>1, RoutesAreGiven, StagesOfABoot
  <1> QED BY <1>1, <1>2, <1>3, <1>4, <1>5 DEF RoutesShape

\* And after every step.
LEMMA RoutesShapeStep == CallInv /\ RoutesShape /\ [RoutesNext]_routesVars => RoutesShape'
  <1> SUFFICES ASSUME CallInv, RoutesShape, [RoutesNext]_routesVars PROVE RoutesShape'
    OBVIOUS
  <1>0. /\ MaxMoves \in Nat /\ MaxCalls \in Nat /\ Retries \in Nat \ {0}
        /\ moves \in 0..MaxMoves /\ uploads \in 0..MaxCalls /\ NoUrl \in Url /\ Place \subseteq Url
    BY RoutesAssumption, RoutesBoundsAssumption DEF RoutesShape, Url
  <1>a. config' = config /\ Url' = Url
    <2>1. config' = config
      BY DEF RoutesNext, routesVars, LookForSelf, ReadsUrls, AgentStarts, BeginCall, TimeIsUp, ControllerStarts,
         OtherController, Try
    <2> QED BY <2>1 DEF Url
  <1>1. CASE UNCHANGED routesVars
    BY <1>1, <1>a DEF routesVars, RoutesShape
  <1>2. ASSUME NEW p \in Place, ControllerStarts(p) PROVE RoutesShape'
    <2>1. /\ place' = p /\ p \notin others /\ self' = NoUrl /\ urls' = WantedUrls(NoUrl)
          /\ moves < MaxMoves /\ moves' = moves + 1
          /\ UNCHANGED <<others, base, direct, routes, stage, call, uploads>>
      BY <1>2 DEF ControllerStarts
    <2>2. urls' \in [public : Url, raw : Url] /\ moves' \in 0..MaxMoves
      BY <1>0, <2>1, PublishedUrls
    <2>3. others' \subseteq Place \ {place'}
      BY <2>1 DEF RoutesShape
    <2> QED BY <1>0, <1>a, <1>2, <2>1, <2>2, <2>3 DEF RoutesShape
  <1>3. CASE LookForSelf
    <2>1. PICK found \in SUBSET (others \cup {place}) : self' \in Answer(found) \ {NoUrl}
      BY <1>3 DEF LookForSelf
    <2>2. self' \in Place
      BY <2>1 DEF Answer, RoutesShape
    <2>3. urls' = WantedUrls(self') /\ UNCHANGED <<place, others, base, direct, routes, stage, call, moves, uploads>>
      BY <1>3 DEF LookForSelf
    <2>4. self' \in Url /\ urls' \in [public : Url, raw : Url]
      BY <1>0, <2>2, <2>3, PublishedUrls
    <2> QED BY <1>a, <2>3, <2>4 DEF RoutesShape
  <1>4. ASSUME NEW p \in Place, OtherController(p) PROVE RoutesShape'
    <2>1. /\ p # place /\ others' \in {others \ {p}, others \cup {p}}
          /\ UNCHANGED <<place, self, urls, base, direct, routes, stage, call, moves, uploads>>
      BY <1>4 DEF OtherController
    <2>2. others' \subseteq Place \ {place'}
      BY <1>4, <2>1 DEF RoutesShape
    <2> QED BY <1>a, <2>1, <2>2 DEF RoutesShape
  <1>5. CASE ReadsUrls
    <2>1. /\ base' \in {base, BaseOf(urls)} /\ direct' \in {direct, DirectOf(urls)}
          /\ UNCHANGED <<place, others, self, urls, routes, stage, call, moves, uploads>>
      BY <1>5 DEF ReadsUrls
    <2>2. base' \in Url /\ direct' \in Url
      BY <2>1, UrlsRead DEF RoutesShape
    <2> QED BY <1>a, <2>1, <2>2 DEF RoutesShape
  <1>6. CASE AgentStarts
    <2>1. /\ base' \in {ControllerURL, BaseOf(urls)} /\ direct' = DirectOf(urls) /\ routes' = <<>>
          /\ stage' = "health" /\ call' = NoCall /\ uploads' = 0 /\ UNCHANGED <<place, others, self, urls, moves>>
      BY <1>6 DEF AgentStarts
    <2>2. base' \in Url /\ direct' \in Url
      BY <2>1, UrlsRead DEF RoutesShape
    <2>3. Range(routes') = {} /\ stage' \in BootStages
      BY <2>1, RoutesAreGiven, StagesOfABoot
    <2>4. call'.attempts \in 0..Retries /\ uploads' \in 0..MaxCalls
      BY <1>0, <2>1 DEF NoCall
    <2> QED BY <1>a, <2>1, <2>2, <2>3, <2>4 DEF RoutesShape
  <1>7. CASE BeginCall
    <2>1. /\ routes' \in {routes, RoutesOf(direct, base)} /\ stage' \in {stage, "failed"}
          /\ call' = [NoCall EXCEPT !.why = "no route"] \/ call' = [NoCall EXCEPT !.on = TRUE]
          /\ stage = "ready" => uploads < MaxCalls
          /\ uploads' = uploads + (IF stage = "ready" THEN 1 ELSE 0)
          /\ UNCHANGED <<place, others, self, urls, base, direct, moves>>
      BY <1>7 DEF BeginCall
    <2>2. Range(routes') \subseteq Url \ {NoUrl}
      <3>1. Range(RoutesOf(direct, base)) \subseteq {direct, base} \ {NoUrl}
        BY RoutesAreGiven
      <3>2. direct \in Url /\ base \in Url /\ Range(routes) \subseteq Url \ {NoUrl}
        BY DEF RoutesShape
      <3>3. CASE routes' = routes
        BY <3>2, <3>3
      <3>4. CASE routes' = RoutesOf(direct, base)
        BY <3>1, <3>2, <3>4
      <3> QED BY <2>1, <3>3, <3>4
    <2>3. stage' \in BootStages
      <3>1. "failed" \in BootStages /\ stage \in BootStages
        BY StagesOfABoot DEF RoutesShape
      <3> QED BY <2>1, <3>1
    <2>4. call'.attempts = 0
      BY <2>1 DEF NoCall
    <2>5. uploads' \in 0..MaxCalls
      <3>1. CASE stage = "ready"
        <4>1. uploads' = uploads + 1 /\ uploads < MaxCalls
          BY <2>1, <3>1
        <4> QED BY <1>0, <4>1
      <3>2. CASE stage # "ready"
        <4>1. uploads' = uploads + 0
          BY <2>1, <3>2
        <4> QED BY <1>0, <4>1
      <3> QED BY <3>1, <3>2
    <2>6. call'.attempts \in 0..Retries
      BY <1>0, <2>4
    <2>7. UNCHANGED <<place, others, self, urls, base, direct, moves>>
      BY <2>1
    <2> QED BY <1>a, <2>2, <2>3, <2>5, <2>6, <2>7 DEF RoutesShape
  <1>8. CASE TimeIsUp
    <2>1. /\ stage' = Given(What, "again") /\ call' = [call EXCEPT !.on = FALSE, !.why = "budget"]
          /\ UNCHANGED <<place, others, self, urls, base, direct, routes, moves, uploads>>
      BY <1>8 DEF TimeIsUp
    <2>2. call \in Calls(routes)
      BY DEF CallInv
    <2>3. call'.attempts = call.attempts
      BY <2>1, <2>2 DEF Calls
    <2>4. stage' \in BootStages
      BY <2>1, StagesOfABoot
    <2> QED BY <1>a, <2>1, <2>3, <2>4 DEF RoutesShape
  <1>9. ASSUME NEW a \in RouteAnswers, Try(a) PROVE RoutesShape'
    <2>1. /\ stage' \in {stage, Later(What), Given(What, a)}
          /\ call' = Tries \/ \E why : call' = [Tries EXCEPT !.on = FALSE, !.why = why]
          /\ UNCHANGED <<place, others, self, urls, base, direct, routes, moves, uploads>>
      BY <1>9 DEF Try
    <2>2. call \in Calls(routes) /\ call.attempts \in 0..(Retries - 1)
      BY <1>9 DEF CallInv, Try
    <2>3. call'.attempts = call.attempts + 1
      <3>1. Tries.attempts = call.attempts + 1 /\ "attempts" \in DOMAIN Tries /\ "on" \in DOMAIN Tries /\ "why" \in DOMAIN Tries
        BY <2>2 DEF Tries, Calls
      <3> QED BY <2>1, <3>1
    <2>4. call'.attempts \in 0..Retries
      BY <1>0, <2>2, <2>3
    <2>5. stage' \in BootStages
      <3>1. Later(What) \in BootStages /\ Given(What, a) \in BootStages /\ stage \in BootStages
        BY StagesOfABoot DEF RoutesShape
      <3> QED BY <2>1, <3>1
    <2> QED BY <1>a, <2>1, <2>4, <2>5 DEF RoutesShape
  <1> QED BY <1>1, <1>2, <1>3, <1>4, <1>5, <1>6, <1>7, <1>8, <1>9 DEF RoutesNext, RouteAnswers

\* As the invariant says it.
LEMMA RoutesTypesAre == CallInv /\ RoutesShape => RoutesTypeOK
  <1> SUFFICES ASSUME CallInv, RoutesShape PROVE RoutesTypeOK
    OBVIOUS
  <1>1. call.tried \subseteq Range(routes) /\ Len(routes) \in 0..2
    BY DEF CallInv, Calls
  <1> QED BY <1>1 DEF RoutesShape, RoutesTypeOK

\* Every address that is published, learned or tried is one that the installation was
\* given or that a provider gave it, and no route is empty (resolveURLs, applyController,
\* NewClient).
THEOREM RoutesTypeCorrect == RoutesSpec => []RoutesTypeOK
  BY RoutesInitOK, RoutesStep, RoutesShapeInit, RoutesShapeStep, RoutesTypesAre, PTL DEF RoutesSpec

-----------------------------------------------------------------------------
(* The documents.                                                          *)

\* The fields of a document, and the values they may have after a repair.
Fields == {"version", "intent", "status", "lease", "stop", "shas", "target", "pinned", "request"}
DocSet == [version : {1, 2}, intent : Intents, status : Statuses, lease : DSeq \cup {NoDSeq},
           stop : {"none", "set"}, shas : Seq(Sha), target : {NoArchive, "archive"},
           pinned : BOOLEAN, request : ReqID \cup {NoReq}]
Once(seq) == \A i, j \in 1..Len(seq) : seq[i] = seq[j] => i = j
RingOK(seq) == seq \in Seq(Sha) /\ Len(seq) <= ShaCap /\ Once(seq)
\* A document the controller's own decisions can rest on: nothing is left to repair.
DocOK(d) == d \in DocSet /\ RingOK(d.shas) /\ (d.pinned => d.target # NoArchive)
\* Without a lease no status admits one.
Honest(d) == d.lease = NoDSeq => ~Billed(d)

\* What a file's fields may be, and what is left of them where one cannot be decoded.
ReadSet == [version : {0, 1, 2}, intent : Intents \cup {"unusable"}, status : Statuses \cup {"unusable"},
            lease : DSeq \cup {NoDSeq, Nameless}, stop : {"none", "set", "zero"},
            shas : Seq(Sha \cup {Nameless}), target : {NoArchive, "archive", "junk"},
            pinned : BOOLEAN, request : ReqID \cup {NoReq, Nameless}]
RawSet == [version : {0, 1, 2, Unset}, intent : Intents \cup {"unusable", Unset},
           status : Statuses \cup {"unusable", Unset}, lease : DSeq \cup {NoDSeq, Nameless, Unset},
           stop : {"none", "set", "zero", Unset}, shas : Seq(Sha \cup {Nameless}) \cup {Unset},
           target : {NoArchive, "archive", "junk", Unset}, pinned : BOOLEAN \cup {Unset},
           request : ReqID \cup {NoReq, Nameless, Unset}]
BackupSet == [id : ReqID \cup {NoReq}, state : {"none", "running", "done", "failed", "unusable"}, archive : BOOLEAN]
ReportSet == [dseq : DSeq \cup {NoDSeq, Unset}, phase : Phases \cup {"unusable"}, counted : BOOLEAN \cup {Unset},
              at : BOOLEAN \cup {Unset}, restarts : {-1, 0}, backup : BackupSet]

\* The ring's first occurrences are one of each, and none is nameless.
LEMMA RingIs == ASSUME NEW seq \in Seq(Sha \cup {Nameless}) PROVE RingOK(Ring(seq))
  <1> DEFINE seen(i) == \E j \in 1..(i - 1) : seq[j] = seq[i]
             S == {i \in DOMAIN seq : seq[i] # Nameless /\ ~seen(i)}
             k == Kept(seq, S)
             l == Len(k)
             last == SubSeq(k, l - ShaCap + 1, l)
  <1>1. \A i, j \in S \cap DOMAIN seq : seq[i] = seq[j] => i = j
    <2> SUFFICES ASSUME NEW i \in S, NEW j \in S, seq[i] = seq[j], i # j PROVE FALSE
      OBVIOUS
    <2>1. i \in Nat /\ j \in Nat /\ i >= 1 /\ j >= 1 /\ ~seen(i) /\ ~seen(j)
      OBVIOUS
    <2>2. j \in 1..(i - 1) \/ i \in 1..(j - 1)
      BY <2>1
    <2> QED BY <2>1, <2>2
  <1>2. \A i \in S \cap DOMAIN seq : seq[i] \in Sha
    OBVIOUS
  <1> HIDE DEF S
  <1>3. /\ k \in Seq(Sha \cup {Nameless}) /\ l \in Nat
        /\ \A j \in 1..l : \E i \in S \cap DOMAIN seq : k[j] = seq[i]
    <2>1. k \in Seq(Sha \cup {Nameless}) /\ \A j \in 1..Len(k) : \E i \in S \cap DOMAIN seq : k[j] = seq[i]
      BY KeptType
    <2> HIDE DEF k
    <2> QED BY <2>1
  <1>4. Once(k)
    <2>1. \A i, j \in 1..Len(k) : k[i] = k[j] => i = j
      BY <1>1, KeptOnce
    <2> QED BY <2>1 DEF Once
  <1> HIDE DEF k
  <1>5. \A j \in 1..l : k[j] \in Sha
    BY <1>2, <1>3
  <1>6. k \in Seq(Sha)
    BY <1>3, <1>5
  <1>7. Ring(seq) = IF l > ShaCap THEN last ELSE k
    BY DEF Ring, k, S
  <1>8. CASE l > ShaCap
    <2>1. ShaCap \in Nat /\ l - ShaCap \in Nat /\ l - ShaCap + 1 \in 1..l /\ (l - ShaCap + 1) - 1 = l - ShaCap
      BY <1>3, <1>8, DocumentsAssumption
    <2> DEFINE m == l - ShaCap
    <2>2. /\ last \in Seq(Sha) /\ Len(last) = ShaCap /\ \A i \in 1..ShaCap : last[i] = k[m + i]
      <3>1. last = [i \in 1..ShaCap |-> k[m + i]]
        BY <1>3, <1>6, <2>1
      <3>2. \A i \in 1..ShaCap : m + i \in 1..l
        BY <1>3, <2>1
      <3> HIDE DEF last, m
      <3>3. \A i \in 1..ShaCap : k[m + i] \in Sha
        BY <1>5, <3>2
      <3> QED BY <2>1, <3>1, <3>3
    <2> HIDE DEF last
    <2>3. Once(last)
      <3> SUFFICES ASSUME NEW i \in 1..ShaCap, NEW j \in 1..ShaCap, last[i] = last[j] PROVE i = j
        BY <2>2 DEF Once
      <3>1. m + i \in 1..l /\ m + j \in 1..l /\ k[m + i] = k[m + j]
        BY <1>3, <2>1, <2>2
      <3>2. m + i = m + j
        BY <1>4, <3>1 DEF Once
      <3> QED BY <2>1, <3>2
    <2> QED BY <1>7, <1>8, <2>1, <2>2, <2>3 DEF RingOK
  <1>9. CASE ~(l > ShaCap)
    BY <1>3, <1>4, <1>6, <1>7, <1>9, DocumentsAssumption DEF RingOK
  <1> QED BY <1>8, <1>9

\* Such a ring is what it is.
LEMMA RingSame == ASSUME NEW seq, RingOK(seq) PROVE Ring(seq) = seq
  <1> DEFINE seen(i) == \E j \in 1..(i - 1) : seq[j] = seq[i]
             S == {i \in DOMAIN seq : seq[i] # Nameless /\ ~seen(i)}
  <1>1. seq \in Seq(Sha) /\ Len(seq) <= ShaCap /\ Len(seq) \in Nat /\ DOMAIN seq = 1..Len(seq)
    BY DEF RingOK
  <1>2. ASSUME NEW i \in DOMAIN seq PROVE i \in S
    <2>1. seq[i] # Nameless
      BY <1>1, NamelessAssumption
    <2>2. ASSUME NEW j \in 1..(i - 1), seq[j] = seq[i] PROVE FALSE
      <3>1. j \in 1..Len(seq) /\ i \in 1..Len(seq) /\ j # i
        BY <1>1
      <3> QED BY <2>2, <3>1 DEF RingOK, Once
    <2> QED BY <2>1, <2>2
  <1> HIDE DEF S
  <1>3. Kept(seq, S) = seq
    BY <1>1, <1>2, KeptAll
  <1>4. Ring(seq) = IF Len(seq) > ShaCap THEN SubSeq(seq, Len(seq) - ShaCap + 1, Len(seq)) ELSE seq
    BY <1>3 DEF Ring, S
  <1>5. ~(Len(seq) > ShaCap)
    BY <1>1, DocumentsAssumption
  <1> QED BY <1>4, <1>5

\* What a repair leaves is sound, whatever was read.
LEMMA NormalizedOK == ASSUME NEW d \in ReadSet PROVE DocOK(Normalized(d))
  <1> DEFINE n == Normalized(d)
  <1>1. RingOK(Ring(d.shas))
    BY RingIs DEF ReadSet
  <1>2. /\ n = [version |-> n.version, intent |-> n.intent, status |-> n.status, lease |-> n.lease, stop |-> n.stop,
                shas |-> n.shas, target |-> n.target, pinned |-> n.pinned, request |-> n.request]
        /\ n.version \in {1, 2} /\ n.lease \in DSeq \cup {NoDSeq} /\ n.intent \in Intents
        /\ n.stop \in {"none", "set"} /\ n.shas = Ring(d.shas)
        /\ n.target \in {NoArchive, "archive"} /\ n.pinned \in BOOLEAN /\ n.request \in ReqID \cup {NoReq}
        /\ n.pinned => n.target # NoArchive
    <2>1. /\ d.version \in {0, 1, 2} /\ d.lease \in DSeq \cup {NoDSeq, Nameless} /\ d.stop \in {"none", "set", "zero"}
          /\ d.target \in {NoArchive, "archive", "junk"} /\ d.pinned \in BOOLEAN
          /\ d.request \in ReqID \cup {NoReq, Nameless}
      BY DEF ReadSet
    <2>2. n = [version |-> n.version, intent |-> n.intent, status |-> n.status, lease |-> n.lease, stop |-> n.stop,
               shas |-> n.shas, target |-> n.target, pinned |-> n.pinned, request |-> n.request]
      BY DEF Normalized
    <2>3. n.version = (IF d.version = 0 THEN Newest ELSE d.version) /\ n.shas = Ring(d.shas)
      BY DEF Normalized
    <2>4. n.lease = Known(d.lease, NoDSeq) /\ n.request = Known(d.request, NoReq)
      BY DEF Normalized
    <2>5. n.intent = (IF d.intent \in Intents THEN d.intent ELSE "stopped")
      BY DEF Normalized
    <2>6. n.stop = (IF d.stop = "zero" THEN "none" ELSE d.stop)
      BY DEF Normalized
    <2>7. n.target = (IF d.target = "junk" THEN NoArchive ELSE d.target) /\ n.pinned = (d.pinned /\ n.target # NoArchive)
      BY DEF Normalized
    <2> HIDE DEF n
    <2>8. n.version \in {1, 2} /\ n.stop \in {"none", "set"} /\ n.target \in {NoArchive, "archive"}
      BY <2>1, <2>3, <2>6, <2>7 DEF Newest
    <2>9. n.lease \in DSeq \cup {NoDSeq} /\ n.request \in ReqID \cup {NoReq}
      BY <2>1, <2>4 DEF Known
    <2>10. n.intent \in Intents
      BY <2>5 DEF Intents
    <2>11. n.pinned \in BOOLEAN /\ (n.pinned => n.target # NoArchive)
      BY <2>1, <2>7
    <2> QED BY <2>2, <2>3, <2>8, <2>9, <2>10, <2>11
  <1>3. n.status \in Statuses
    BY DEF Normalized, UnknownStatus, Statuses
  <1> HIDE DEF n
  <1>4. n.shas \in Seq(Sha)
    BY <1>1, <1>2 DEF RingOK
  <1>5. n \in DocSet
    BY <1>2, <1>3, <1>4 DEF DocSet
  <1>6. DocOK(n)
    BY <1>1, <1>2, <1>5 DEF DocOK
  <1> QED BY <1>6 DEF n

\* And a sound document has nothing to repair.
LEMMA NormalizedSame == ASSUME NEW d, DocOK(d) PROVE Normalized(d) = d
  <1>1. /\ d = [version |-> d.version, intent |-> d.intent, status |-> d.status, lease |-> d.lease, stop |-> d.stop,
                shas |-> d.shas, target |-> d.target, pinned |-> d.pinned, request |-> d.request]
        /\ d.version \in {1, 2} /\ d.intent \in Intents /\ d.status \in Statuses /\ d.lease \in DSeq \cup {NoDSeq}
        /\ d.stop \in {"none", "set"} /\ d.target \in {NoArchive, "archive"} /\ d.pinned \in BOOLEAN
        /\ d.request \in ReqID \cup {NoReq} /\ (d.pinned => d.target # NoArchive)
    BY DEF DocOK, DocSet
  <1>2. Ring(d.shas) = d.shas
    BY RingSame DEF DocOK
  <1>3. /\ Known(d.lease, NoDSeq) = d.lease /\ Known(d.request, NoReq) = d.request
    BY <1>1, NamelessAssumption DEF Known
  <1>4. (IF d.target = "junk" THEN NoArchive ELSE d.target) = d.target
    BY <1>1
  <1>5. (d.pinned /\ d.target # NoArchive) = d.pinned
    BY <1>1
  <1>6. (IF d.version = 0 THEN Newest ELSE d.version) = d.version /\ (IF d.stop = "zero" THEN "none" ELSE d.stop) = d.stop
    BY <1>1
  <1>7. (IF d.intent \in Intents THEN d.intent ELSE "stopped") = d.intent
    BY <1>1
  <1>8. (IF d.status \in Statuses THEN d.status ELSE UnknownStatus(Known(d.lease, NoDSeq))) = d.status
    BY <1>1
  <1> QED BY <1>1, <1>2, <1>3, <1>4, <1>5, <1>6, <1>7, <1>8 DEF Normalized

\* Five things, or fewer, are finitely many.
LEMMA FiveAreFinite ==
    ASSUME NEW a, NEW b, NEW c, NEW d, NEW e
    PROVE  IsFiniteSet({a, b, c, d, e})
  <1>1. IsFiniteSet({a})
    BY FS_Singleton
  <1>2. IsFiniteSet({a} \cup {b})
    BY <1>1, FS_AddElement
  <1>3. IsFiniteSet(({a} \cup {b}) \cup {c})
    BY <1>2, FS_AddElement
  <1>4. IsFiniteSet((({a} \cup {b}) \cup {c}) \cup {d})
    BY <1>3, FS_AddElement
  <1>5. IsFiniteSet(((({a} \cup {b}) \cup {c}) \cup {d}) \cup {e})
    BY <1>4, FS_AddElement
  <1>6. ((({a} \cup {b}) \cup {c}) \cup {d}) \cup {e} = {a, b, c, d, e}
    OBVIOUS
  <1> QED BY <1>5, <1>6

\* Two different things are two.
LEMMA PairIsTwo ==
    ASSUME NEW a, NEW b, a # b
    PROVE  Cardinality({a, b}) = 2
  <1>1. IsFiniteSet({a}) /\ Cardinality({a}) = 1
    BY FS_Singleton
  <1>2. Cardinality({a} \cup {b}) = Cardinality({a}) + 1
    BY <1>1, FS_AddElement
  <1>3. {a} \cup {b} = {a, b}
    OBVIOUS
  <1> QED BY <1>1, <1>2, <1>3

\* The document of a controller that never wrote.
LEMMA NewControllerOK ==
    /\ DocOK(NewController) /\ Honest(NewController) /\ NewController \in RawSet /\ DOMAIN NewController = Fields
    /\ NewController.lease = NoDSeq
  <1>1. DOMAIN NewController = Fields
    BY DEF NewController, Fields
  <1>2. <<>> \in Seq(Sha) /\ Len(<<>>) = 0 /\ <<>> \in Seq(Sha \cup {Nameless})
    OBVIOUS
  <1>3. RingOK(<<>>)
    BY <1>2, DocumentsAssumption DEF RingOK, Once
  <1>4. NewController \in DocSet
    BY <1>2 DEF NewController, DocSet, Newest, Intents, Statuses
  <1>5. NewController \in RawSet
    BY <1>2 DEF NewController, RawSet, Newest, Intents, Statuses
  <1>6. NewController.shas = <<>> /\ NewController.pinned = FALSE /\ NewController.status = "offline" /\ NewController.lease = NoDSeq
    BY DEF NewController
  <1> QED BY <1>1, <1>3, <1>4, <1>5, <1>6 DEF DocOK, Honest, Billed, BillingStatuses

\* A sound document is one a file may hold, and none of its fields is missing.
LEMMA SoundIsRaw == ASSUME NEW d, DocOK(d) PROVE d \in RawSet /\ \A f \in Fields : d[f] # Unset
  <1>1. /\ d = [version |-> d.version, intent |-> d.intent, status |-> d.status, lease |-> d.lease, stop |-> d.stop,
                shas |-> d.shas, target |-> d.target, pinned |-> d.pinned, request |-> d.request]
        /\ d.version \in {1, 2} /\ d.intent \in Intents /\ d.status \in Statuses /\ d.lease \in DSeq \cup {NoDSeq}
        /\ d.stop \in {"none", "set"} /\ d.target \in {NoArchive, "archive"} /\ d.pinned \in BOOLEAN
        /\ d.request \in ReqID \cup {NoReq} /\ d.shas \in Seq(Sha)
    BY DEF DocOK, DocSet
  <1>2. d.shas \in Seq(Sha \cup {Nameless})
    BY <1>1, SeqMonotonic
  <1>3. d \in RawSet
    BY <1>1, <1>2 DEF RawSet
  <1>4. /\ d.version # Unset /\ d.intent # Unset /\ d.status # Unset /\ d.lease # Unset /\ d.stop # Unset
        /\ d.shas # Unset /\ d.target # Unset /\ d.pinned # Unset /\ d.request # Unset
    BY <1>1, UnsetAssumption
  <1> QED BY <1>3, <1>4 DEF Fields

\* What is read of a file, field by field.
LEMMA DecodedIs ==
    ASSUME NEW r \in RawSet, NEW d, d = Decode(r, NewController)
    PROVE  d \in ReadSet /\ \A f \in Fields : d[f] = IF r[f] = Unset THEN NewController[f] ELSE r[f]
  <1>1. d = [f \in Fields |-> IF r[f] = Unset THEN NewController[f] ELSE r[f]]
    BY NewControllerOK DEF Decode
  <1>2. /\ r.version \in {0, 1, 2, Unset} /\ r.intent \in Intents \cup {"unusable", Unset}
        /\ r.status \in Statuses \cup {"unusable", Unset} /\ r.lease \in DSeq \cup {NoDSeq, Nameless, Unset}
        /\ r.stop \in {"none", "set", "zero", Unset} /\ r.shas \in Seq(Sha \cup {Nameless}) \cup {Unset}
        /\ r.target \in {NoArchive, "archive", "junk", Unset} /\ r.pinned \in BOOLEAN \cup {Unset}
        /\ r.request \in ReqID \cup {NoReq, Nameless, Unset}
    BY DEF RawSet
  <1>3. /\ NewController.version = 1 /\ NewController.intent \in Intents /\ NewController.status \in Statuses
        /\ NewController.lease = NoDSeq /\ NewController.stop = "none" /\ NewController.shas = <<>>
        /\ NewController.target = NoArchive /\ NewController.pinned = FALSE /\ NewController.request = NoReq
    BY DEF NewController, Newest, Intents, Statuses
  <1>4. /\ d.version \in {0, 1, 2}
        /\ d.intent \in Intents \cup {"unusable"}
        /\ d.status \in Statuses \cup {"unusable"}
        /\ d.lease \in DSeq \cup {NoDSeq, Nameless}
        /\ d.stop \in {"none", "set", "zero"}
        /\ d.target \in {NoArchive, "archive", "junk"}
        /\ d.pinned \in BOOLEAN
        /\ d.request \in ReqID \cup {NoReq, Nameless}
    <2>1. d.version \in {0, 1, 2}
      <3>1. d.version = IF r.version = Unset THEN NewController.version ELSE r.version
        BY <1>1 DEF Fields
      <3> QED BY <1>2, <1>3, <3>1
    <2>2. d.intent \in Intents \cup {"unusable"}
      <3>1. d.intent = IF r.intent = Unset THEN NewController.intent ELSE r.intent
        BY <1>1 DEF Fields
      <3> QED BY <1>2, <1>3, <3>1
    <2>3. d.status \in Statuses \cup {"unusable"}
      <3>1. d.status = IF r.status = Unset THEN NewController.status ELSE r.status
        BY <1>1 DEF Fields
      <3> QED BY <1>2, <1>3, <3>1
    <2>4. d.lease \in DSeq \cup {NoDSeq, Nameless}
      <3>1. d.lease = IF r.lease = Unset THEN NewController.lease ELSE r.lease
        BY <1>1 DEF Fields
      <3> QED BY <1>2, <1>3, <3>1
    <2>5. d.stop \in {"none", "set", "zero"}
      <3>1. d.stop = IF r.stop = Unset THEN NewController.stop ELSE r.stop
        BY <1>1 DEF Fields
      <3> QED BY <1>2, <1>3, <3>1
    <2>6. d.target \in {NoArchive, "archive", "junk"}
      <3>1. d.target = IF r.target = Unset THEN NewController.target ELSE r.target
        BY <1>1 DEF Fields
      <3> QED BY <1>2, <1>3, <3>1
    <2>7. d.pinned \in BOOLEAN
      <3>1. d.pinned = IF r.pinned = Unset THEN NewController.pinned ELSE r.pinned
        BY <1>1 DEF Fields
      <3> QED BY <1>2, <1>3, <3>1
    <2>8. d.request \in ReqID \cup {NoReq, Nameless}
      <3>1. d.request = IF r.request = Unset THEN NewController.request ELSE r.request
        BY <1>1 DEF Fields
      <3> QED BY <1>2, <1>3, <3>1
    <2> QED BY <2>1, <2>2, <2>3, <2>4, <2>5, <2>6, <2>7, <2>8
  <1>5. d.shas \in Seq(Sha \cup {Nameless})
    <2>1. d.shas = IF r.shas = Unset THEN <<>> ELSE r.shas
      BY <1>1, <1>3 DEF Fields
    <2>2. <<>> \in Seq(Sha \cup {Nameless})
      OBVIOUS
    <2> QED BY <1>2, <2>1, <2>2
  <1>6. d = [version |-> d.version, intent |-> d.intent, status |-> d.status, lease |-> d.lease, stop |-> d.stop,
                shas |-> d.shas, target |-> d.target, pinned |-> d.pinned, request |-> d.request]
    BY <1>1 DEF Fields
  <1>7. d \in ReadSet
    BY <1>4, <1>5, <1>6 DEF ReadSet
  <1> QED BY <1>1, <1>7

\* What is known of the files and of the document at every moment: a field nobody
\* damaged since the last write is as it was written, save for a pin whose target
\* is lost.
StillAsWritten ==
    body = "object" => \A f \in Fields \ damaged : raw[f] = doc[f] \/ (f = "pinned" /\ "target" \in damaged)
DocumentsInv ==
    /\ up \in BOOLEAN /\ body \in {"object", "garbage", "absent"} /\ index \in {"fine", "garbage"}
    /\ DocOK(doc) /\ Honest(doc) /\ raw \in RawSet /\ report \in ReportSet
    /\ alive \subseteq DSeq /\ damaged \subseteq Fields \cup {"report"}
    /\ unanswered \in BOOLEAN /\ spoils \in 0..MaxSpoils
    /\ StillAsWritten
    /\ "lease" \in damaged => raw.lease \in {Unset, Nameless}
    /\ body = "absent" => doc = NewController

\* What the controller has of its file is sound.
LEMMA OwnDocOK == DocumentsInv => DocOK(OwnDoc)
  <1> SUFFICES ASSUME DocumentsInv PROVE DocOK(OwnDoc)
    OBVIOUS
  <1>1. CASE body = "object"
    <2>1. Decode(raw, NewController) \in ReadSet
      BY DecodedIs DEF DocumentsInv
    <2> QED BY <1>1, <2>1, NormalizedOK DEF OwnDoc
  <1>2. CASE body # "object"
    BY <1>2, NormalizedSame, NewControllerOK DEF OwnDoc
  <1> QED BY <1>1, <1>2

\* A field that nobody damaged is read as it was written; a pin only with its target.
LEMMA OwnDocKept ==
    ASSUME DocumentsInv, body = "object", NEW f \in Fields \ damaged
    PROVE  OwnDoc[f] = doc[f] \/ (f = "pinned" /\ "target" \in damaged)
  <1> DEFINE d == Decode(raw, NewController)
             n == Normalized(d)
  <1>1. raw \in RawSet /\ DocOK(doc)
    BY DEF DocumentsInv
  <1>2. \A g \in Fields : d[g] = IF raw[g] = Unset THEN NewController[g] ELSE raw[g]
    BY <1>1, DecodedIs
  <1>3. \A g \in Fields : doc[g] # Unset
    BY <1>1, SoundIsRaw
  <1> HIDE DEF d
  <1>4. \A g \in Fields \ damaged : d[g] = doc[g] \/ (g = "pinned" /\ "target" \in damaged)
    BY <1>2, <1>3 DEF DocumentsInv, StillAsWritten
  <1>5. n = OwnDoc
    BY DEF OwnDoc, d
  <1>6. Normalized(doc) = doc
    BY <1>1, NormalizedSame
  <1>7. /\ d.version = doc.version => n.version = doc.version
        /\ d.intent = doc.intent => n.intent = doc.intent
        /\ d.lease = doc.lease => n.lease = doc.lease
        /\ d.stop = doc.stop => n.stop = doc.stop
        /\ d.shas = doc.shas => n.shas = doc.shas
        /\ d.target = doc.target => n.target = doc.target
        /\ d.request = doc.request => n.request = doc.request
        /\ d.target = doc.target /\ d.pinned = doc.pinned => n.pinned = doc.pinned
    <2> DEFINE m == Normalized(doc)
    <2>1. /\ d.version = doc.version => n.version = m.version
          /\ d.intent = doc.intent => n.intent = m.intent
          /\ d.lease = doc.lease => n.lease = m.lease
          /\ d.stop = doc.stop => n.stop = m.stop
          /\ d.shas = doc.shas => n.shas = m.shas
          /\ d.target = doc.target => n.target = m.target
          /\ d.request = doc.request => n.request = m.request
          /\ d.target = doc.target /\ d.pinned = doc.pinned => n.pinned = m.pinned
      BY DEF Normalized
    <2> HIDE DEF n, m
    <2> QED BY <1>6, <2>1 DEF m
  <1>8. d.status = doc.status => n.status = doc.status
    <2>1. doc.status \in Statuses
      BY <1>1 DEF DocOK, DocSet
    <2> QED BY <2>1 DEF Normalized
  <1> HIDE DEF n
  <1>9. \/ f = "version" \/ f = "intent" \/ f = "status" \/ f = "lease" \/ f = "stop" \/ f = "shas" \/ f = "target"
        \/ f = "pinned" \/ f = "request"
    BY DEF Fields
  <1>10. CASE f = "pinned"
    <2>1. CASE "target" \in damaged
      BY <1>10, <2>1
    <2>2. CASE "target" \notin damaged
      <3>1. "target" \in Fields \ damaged
        BY <2>2 DEF Fields
      <3>2. d.target = doc.target
        BY <1>4, <3>1
      <3>3. d.pinned = doc.pinned
        BY <1>4, <1>10, <2>2
      <3> QED BY <1>5, <1>7, <1>10, <3>2, <3>3
    <2> QED BY <2>1, <2>2
  <1>11. CASE f # "pinned"
    <2>1. d[f] = doc[f]
      BY <1>4, <1>11
    <2> QED BY <1>5, <1>7, <1>8, <1>9, <1>11, <2>1
  <1> QED BY <1>10, <1>11

\* A lease that was damaged is read as none.
LEMMA LeaseLost == ASSUME DocumentsInv, body = "object", "lease" \in damaged PROVE OwnDoc.lease = NoDSeq
  <1>1. raw.lease \in {Unset, Nameless} /\ raw \in RawSet
    BY DEF DocumentsInv
  <1>2. "lease" \in Fields
    BY DEF Fields
  <1> DEFINE d == Decode(raw, NewController)
  <1>3. d.lease = IF raw.lease = Unset THEN NewController.lease ELSE raw.lease
    BY <1>1, <1>2, DecodedIs
  <1> HIDE DEF d
  <1>4. d.lease \in {NoDSeq, Nameless}
    BY <1>1, <1>3, NewControllerOK
  <1>5. Normalized(d).lease = NoDSeq
    BY <1>4 DEF Normalized, Known
  <1> QED BY <1>5 DEF OwnDoc, d

\* What is written is sound, and the file is what was written.
LEMMA WrittenOK ==
    ASSUME DocumentsInv, DocOK(doc'), Honest(doc'), raw' = doc', body' = "object", index' = "fine", damaged' = {},
           up' \in BOOLEAN, unanswered' \in BOOLEAN, report' \in ReportSet, alive' \subseteq DSeq, spoils' \in 0..MaxSpoils
    PROVE  DocumentsInv'
  <1>1. raw' \in RawSet
    BY SoundIsRaw
  <1>2. StillAsWritten'
    BY DEF StillAsWritten
  <1> QED BY <1>1, <1>2 DEF DocumentsInv

\* The decisions that change the document publish a sound one.
LEMMA PublishedOK ==
    ASSUME DocumentsInv, NEW d, DocOK(d), Honest(d), Publishes(d), alive' \subseteq DSeq
    PROVE  DocumentsInv'
  BY WrittenOK DEF DocumentsInv, Publishes

\* A sound document with another status, lease, request, target or pin is sound.
LEMMA SoundStays ==
    ASSUME NEW d, DocOK(d), NEW e, DOMAIN e = DOMAIN d, e.version = d.version, e.shas = d.shas,
           e = [f \in DOMAIN e |-> e[f]],
           e.intent \in Intents, e.status \in Statuses, e.lease \in DSeq \cup {NoDSeq}, e.stop \in {"none", "set"},
           e.target \in {NoArchive, "archive"}, e.pinned \in BOOLEAN, e.request \in ReqID \cup {NoReq},
           e.pinned => e.target # NoArchive
    PROVE  DocOK(e)
  <1>1. d \in DocSet /\ RingOK(d.shas)
    BY DEF DocOK
  <1>2. DOMAIN d = Fields
    BY <1>1 DEF DocSet, Fields
  <1>3. e = [version |-> e.version, intent |-> e.intent, status |-> e.status, lease |-> e.lease, stop |-> e.stop,
             shas |-> e.shas, target |-> e.target, pinned |-> e.pinned, request |-> e.request]
    BY <1>2 DEF Fields
  <1>4. e.version \in {1, 2} /\ e.shas \in Seq(Sha)
    BY <1>1 DEF DocSet
  <1>5. e \in DocSet
    BY <1>3, <1>4 DEF DocSet
  <1> QED BY <1>1, <1>5 DEF DocOK

\* The fields of a sound document.
LEMMA DocIs ==
    ASSUME NEW d, DocOK(d)
    PROVE  /\ DOMAIN d = Fields /\ d = [f \in DOMAIN d |-> d[f]]
           /\ d.version \in {1, 2} /\ d.intent \in Intents /\ d.status \in Statuses /\ d.lease \in DSeq \cup {NoDSeq}
           /\ d.stop \in {"none", "set"} /\ d.target \in {NoArchive, "archive"} /\ d.pinned \in BOOLEAN
           /\ d.request \in ReqID \cup {NoReq} /\ d.shas \in Seq(Sha) /\ RingOK(d.shas)
           /\ d.pinned => d.target # NoArchive
  BY DEF DocOK, DocSet, Fields

\* The loop's own steps.
LEMMA DocumentsLoopStep ==
    ASSUME DocumentsInv,
           \/ Undeployed \/ Settles \/ Schedules
           \/ \E dseq \in DSeq : Deploys(dseq)
           \/ \E to \in Statuses \ {"offline", "deploying"} : Proceeds(to)
           \/ \E id \in ReqID : Asks(id)
           \/ \E p \in BOOLEAN : Chooses(p)
           \/ \E s \in Sha : Hears(s)
    PROVE  DocumentsInv'
  <1>1. DocOK(doc) /\ Honest(doc) /\ alive \subseteq DSeq
    BY DEF DocumentsInv
  <1>2. /\ DOMAIN doc = Fields /\ doc = [f \in DOMAIN doc |-> doc[f]]
        /\ doc.version \in {1, 2} /\ doc.intent \in Intents /\ doc.status \in Statuses /\ doc.lease \in DSeq \cup {NoDSeq}
        /\ doc.stop \in {"none", "set"} /\ doc.target \in {NoArchive, "archive"} /\ doc.pinned \in BOOLEAN
        /\ doc.request \in ReqID \cup {NoReq} /\ doc.shas \in Seq(Sha) /\ RingOK(doc.shas)
        /\ doc.pinned => doc.target # NoArchive
    BY <1>1, DocIs
  <1>3. ASSUME NEW d, Publishes(d), alive' \subseteq DSeq,
               DOMAIN d = DOMAIN doc, d = [f \in DOMAIN d |-> d[f]], d.version = doc.version, d.shas = doc.shas,
               d.intent \in Intents, d.status \in Statuses, d.lease \in DSeq \cup {NoDSeq}, d.stop \in {"none", "set"},
               d.target \in {NoArchive, "archive"}, d.pinned \in BOOLEAN, d.request \in ReqID \cup {NoReq},
               d.pinned => d.target # NoArchive, Honest(d)
        PROVE  DocumentsInv'
    <2>1. DocOK(d)
      BY <1>1, <1>3, SoundStays
    <2> QED BY <1>3, <2>1, PublishedOK
  <1>4. CASE Undeployed
    <2> DEFINE d == [doc EXCEPT !.status = "offline", !.intent = "stopped", !.lease = NoDSeq]
    <2>1. Publishes(d) /\ alive' \subseteq DSeq
      BY <1>1, <1>4 DEF Undeployed
    <2>2. Honest(d)
      BY <1>2 DEF Honest, Billed, BillingStatuses, Fields
    <2>3. /\ DOMAIN d = DOMAIN doc /\ d = [f \in DOMAIN d |-> d[f]] /\ d.version = doc.version /\ d.shas = doc.shas
          /\ d.intent = "stopped" /\ d.status = "offline" /\ d.lease = NoDSeq /\ d.stop = doc.stop
          /\ d.target = doc.target /\ d.pinned = doc.pinned /\ d.request = doc.request
      BY <1>2 DEF Fields
    <2> HIDE DEF d
    <2> QED BY <1>2, <1>3, <2>1, <2>2, <2>3 DEF Intents, Statuses
  <1>5. CASE Settles
    <2> DEFINE answer == BackupAnswer(doc, ReadAgent)
               aim == IF answer = "done" /\ ~doc.pinned THEN "archive" ELSE doc.target
               d == [ClearBackupRequest(doc) EXCEPT !.target = aim]
    <2>1. Publishes(d) /\ alive' \subseteq DSeq
      <3>1. [ClearBackupRequest(doc) EXCEPT !.target = IF answer = "done" /\ ~doc.pinned THEN "archive" ELSE @] = d
        BY <1>2 DEF ClearBackupRequest, Fields
      <3> QED BY <1>1, <1>5, <3>1 DEF Settles
    <2>2. aim \in {NoArchive, "archive"} /\ (doc.pinned => aim = doc.target)
      BY <1>2
    <2> HIDE DEF aim
    <2>3. /\ DOMAIN d = DOMAIN doc /\ d = [f \in DOMAIN d |-> d[f]] /\ d.version = doc.version /\ d.shas = doc.shas
          /\ d.intent = doc.intent /\ d.status = doc.status /\ d.lease = doc.lease /\ d.stop = doc.stop
          /\ d.target = aim /\ d.pinned = doc.pinned /\ d.request = NoReq
      BY <1>2 DEF ClearBackupRequest, Fields
    <2> HIDE DEF d
    <2>4. Honest(d)
      BY <1>1, <2>3 DEF Honest, Billed
    <2> QED BY <1>2, <1>3, <2>1, <2>2, <2>3, <2>4
  <1>6. CASE Schedules
    <2> DEFINE d == [doc EXCEPT !.stop = "set"]
    <2>1. Publishes(d) /\ alive' \subseteq DSeq
      BY <1>1, <1>6 DEF Schedules
    <2>2. /\ DOMAIN d = DOMAIN doc /\ d = [f \in DOMAIN d |-> d[f]] /\ d.version = doc.version /\ d.shas = doc.shas
          /\ d.intent = doc.intent /\ d.status = doc.status /\ d.lease = doc.lease /\ d.stop = "set"
          /\ d.target = doc.target /\ d.pinned = doc.pinned /\ d.request = doc.request
      BY <1>2 DEF Fields
    <2> HIDE DEF d
    <2>3. Honest(d)
      BY <1>1, <2>2 DEF Honest, Billed
    <2> QED BY <1>2, <1>3, <2>1, <2>2, <2>3
  <1>7. ASSUME NEW dseq \in DSeq, Deploys(dseq) PROVE DocumentsInv'
    <2> DEFINE d == [doc EXCEPT !.status = "booting", !.intent = "running", !.lease = dseq]
    <2>1. Publishes(d) /\ alive' \subseteq DSeq
      BY <1>1, <1>7 DEF Deploys
    <2>2. /\ DOMAIN d = DOMAIN doc /\ d = [f \in DOMAIN d |-> d[f]] /\ d.version = doc.version /\ d.shas = doc.shas
          /\ d.intent = "running" /\ d.status = "booting" /\ d.lease = dseq /\ d.stop = doc.stop
          /\ d.target = doc.target /\ d.pinned = doc.pinned /\ d.request = doc.request
      BY <1>2 DEF Fields
    <2> HIDE DEF d
    <2>3. Honest(d)
      BY <2>2, NoDSeqAssumption DEF Honest
    <2> QED BY <1>2, <1>3, <2>1, <2>2, <2>3 DEF Intents, Statuses
  <1>8. ASSUME NEW to \in Statuses, Proceeds(to) PROVE DocumentsInv'
    <2> DEFINE e == SetStatus(doc, to)
               d == IF to = "closing" THEN ClearBackupRequest(e) ELSE e
    <2>1. Publishes(d) /\ alive' \subseteq DSeq /\ doc.lease # NoDSeq /\ CanTransition(doc.status, to)
      BY <1>1, <1>8 DEF Proceeds
    <2>2. /\ DOMAIN e = DOMAIN doc /\ e = [f \in DOMAIN e |-> e[f]] /\ e.version = doc.version /\ e.shas = doc.shas
          /\ e.intent = doc.intent /\ e.status = to /\ e.lease = doc.lease /\ e.stop = doc.stop
          /\ e.target = doc.target /\ e.pinned = doc.pinned /\ e.request = doc.request
      BY <1>2, <2>1 DEF Fields, SetStatus
    <2> HIDE DEF e
    <2>3. /\ DOMAIN d = DOMAIN doc /\ d = [f \in DOMAIN d |-> d[f]] /\ d.version = doc.version /\ d.shas = doc.shas
          /\ d.intent = doc.intent /\ d.status = to /\ d.lease = doc.lease /\ d.stop = doc.stop
          /\ d.target = doc.target /\ d.pinned = doc.pinned /\ d.request \in {doc.request, NoReq}
      BY <1>2, <2>2 DEF Fields, ClearBackupRequest
    <2> HIDE DEF d
    <2>4. Honest(d)
      BY <2>1, <2>3 DEF Honest
    <2> QED BY <1>2, <1>3, <2>1, <2>3, <2>4
  <1>9. ASSUME NEW id \in ReqID, Asks(id) PROVE DocumentsInv'
    <2> DEFINE d == RequestBackup(doc, id)
    <2>1. Publishes(d) /\ alive' \subseteq DSeq
      BY <1>1, <1>9 DEF Asks
    <2>2. /\ DOMAIN d = DOMAIN doc /\ d = [f \in DOMAIN d |-> d[f]] /\ d.version = doc.version /\ d.shas = doc.shas
          /\ d.intent = doc.intent /\ d.status = doc.status /\ d.lease = doc.lease /\ d.stop = doc.stop
          /\ d.target = doc.target /\ d.pinned = doc.pinned /\ d.request \in {doc.request, id}
      BY <1>2 DEF Fields, RequestBackup
    <2> HIDE DEF d
    <2>3. Honest(d)
      BY <1>1, <2>2 DEF Honest, Billed
    <2> QED BY <1>2, <1>3, <2>1, <2>2, <2>3
  <1>10. ASSUME NEW p \in BOOLEAN, Chooses(p) PROVE DocumentsInv'
    <2> DEFINE d == [doc EXCEPT !.target = "archive", !.pinned = p]
    <2>1. Publishes(d) /\ alive' \subseteq DSeq
      BY <1>1, <1>10 DEF Chooses
    <2>2. /\ DOMAIN d = DOMAIN doc /\ d = [f \in DOMAIN d |-> d[f]] /\ d.version = doc.version /\ d.shas = doc.shas
          /\ d.intent = doc.intent /\ d.status = doc.status /\ d.lease = doc.lease /\ d.stop = doc.stop
          /\ d.target = "archive" /\ d.pinned = p /\ d.request = doc.request
      BY <1>2 DEF Fields
    <2> HIDE DEF d
    <2>3. Honest(d)
      BY <1>1, <2>2 DEF Honest, Billed
    <2> QED BY <1>2, <1>3, <2>1, <2>2, <2>3, UnsetAssumption
  <1>11. ASSUME NEW s \in Sha, Hears(s) PROVE DocumentsInv'
    <2> DEFINE shas == Ring(Append(doc.shas, s))
               d == [doc EXCEPT !.shas = shas]
    <2>1. Publishes(d) /\ alive' \subseteq DSeq
      BY <1>1, <1>11 DEF Hears
    <2>2. RingOK(shas)
      <3>1. Append(doc.shas, s) \in Seq(Sha \cup {Nameless})
        <4>1. doc.shas \in Seq(Sha \cup {Nameless})
          BY <1>2, SeqMonotonic
        <4> QED BY <4>1
      <3> QED BY <3>1, RingIs
    <2> HIDE DEF shas
    <2>3. /\ d = [version |-> doc.version, intent |-> doc.intent, status |-> doc.status, lease |-> doc.lease,
                  stop |-> doc.stop, shas |-> shas, target |-> doc.target, pinned |-> doc.pinned, request |-> doc.request]
      BY <1>2 DEF Fields
    <2>4. shas \in Seq(Sha)
      BY <2>2 DEF RingOK
    <2>5. d \in DocSet
      BY <1>2, <2>3, <2>4 DEF DocSet
    <2>6. d.shas = shas /\ d.pinned = doc.pinned /\ d.target = doc.target /\ d.lease = doc.lease /\ d.status = doc.status
      BY <2>3
    <2> HIDE DEF d
    <2>7. DocOK(d) /\ Honest(d)
      BY <1>1, <1>2, <2>2, <2>5, <2>6 DEF DocOK, Honest, Billed
    <2> QED BY <2>1, <2>7, PublishedOK
  <1> QED BY <1>4, <1>5, <1>6, <1>7, <1>8, <1>9, <1>10, <1>11

\* What is not the loop's, and what is done to the files of a process that is dead.
LEMMA AroundStep ==
    ASSUME DocumentsInv,
           \/ Dies \/ DamageFile \/ DamageReport
           \/ \E dseq \in DSeq : ProviderEnds(dseq)
           \/ \E s \in {"running", "done", "failed"} : Reports(s)
           \/ \E f \in DOMAIN NewController : DamageField(f)
    PROVE  DocumentsInv'
  <1>1. CASE Dies
    BY <1>1 DEF Dies, DocumentsInv, StillAsWritten
  <1>2. CASE \E dseq \in DSeq : ProviderEnds(dseq)
    BY <1>2 DEF ProviderEnds, DocumentsInv, StillAsWritten
  <1>3. CASE DamageFile
    <2>1. /\ UNCHANGED <<up, doc, raw, report, alive, damaged, unanswered>> /\ spoils' = spoils + 1 /\ spoils < MaxSpoils
          /\ body' \in {body, "garbage"} /\ index' \in {index, "garbage"}
      BY <1>3 DEF DamageFile
    <2>2. spoils' \in 0..MaxSpoils
      BY <2>1, DocumentsAssumption DEF DocumentsInv
    <2>3. StillAsWritten'
      BY <2>1 DEF DocumentsInv, StillAsWritten
    <2> QED BY <2>1, <2>2, <2>3 DEF DocumentsInv
  <1>4. CASE \E s \in {"running", "done", "failed"} : Reports(s)
    <2>1. PICK s \in {"running", "done", "failed"} : Reports(s)
      BY <1>4
    <2>2. doc.request \in ReqID /\ doc.lease \in DSeq
      <3>1. DocOK(doc)
        BY DEF DocumentsInv
      <3>2. doc.request \in ReqID \cup {NoReq} /\ doc.lease \in DSeq \cup {NoDSeq}
        BY <3>1, DocIs
      <3> QED BY <2>1, <3>2 DEF Reports
    <2> DEFINE b == [id |-> doc.request, state |-> s, archive |-> s = "done"]
               r == [NewAgent EXCEPT !.dseq = doc.lease, !.phase = "online", !.counted = TRUE, !.at = TRUE, !.backup = b]
    <2>3. b \in BackupSet
      BY <2>2 DEF BackupSet
    <2> HIDE DEF b
    <2>4. r = [dseq |-> doc.lease, phase |-> "online", counted |-> TRUE, at |-> TRUE, restarts |-> 0, backup |-> b]
      <3>1. /\ DOMAIN r = {"dseq", "phase", "counted", "at", "restarts", "backup"} /\ r = [f \in DOMAIN r |-> r[f]]
            /\ r.dseq = doc.lease /\ r.phase = "online" /\ r.counted = TRUE /\ r.at = TRUE /\ r.backup = b
        BY DEF NewAgent
      <3>2. r.restarts = 0
        BY DEF NewAgent
      <3> HIDE DEF r
      <3> QED BY <3>1, <3>2
    <2>5. r \in ReportSet
      BY <2>2, <2>3, <2>4 DEF ReportSet, Phases
    <2>6. report' = r
      BY <2>1 DEF Reports, b
    <2> QED BY <2>1, <2>5, <2>6 DEF Reports, DocumentsInv, StillAsWritten
  <1>5. CASE DamageReport
    <2>1. /\ UNCHANGED <<up, doc, body, raw, index, alive, unanswered>> /\ damaged' = damaged \cup {"report"}
          /\ spoils' = spoils + 1 /\ spoils < MaxSpoils
      BY <1>5 DEF DamageReport
    <2>2. spoils' \in 0..MaxSpoils
      BY <2>1, DocumentsAssumption DEF DocumentsInv
    <2>3. report' \in ReportSet
      <3>1. PICK f \in DOMAIN NewAgent :
                report' = [report EXCEPT ![f] = CASE f = "backup" -> [@ EXCEPT !.state = "unusable"]
                                                  [] f = "restarts" -> -1
                                                  [] f = "phase" -> "unusable"
                                                  [] OTHER -> Unset]
        BY <1>5 DEF DamageReport
      <3>2. f = "dseq" \/ f = "phase" \/ f = "counted" \/ f = "at" \/ f = "restarts" \/ f = "backup"
        BY DEF NewAgent
      <3>3. report \in ReportSet
        BY DEF DocumentsInv
      <3>4. CASE f = "backup"
        <4> DEFINE b == [report.backup EXCEPT !.state = "unusable"]
        <4>1. b \in BackupSet
          BY <3>3 DEF ReportSet, BackupSet
        <4>2. report' = [report EXCEPT !.backup = b]
          BY <3>1, <3>3, <3>4 DEF ReportSet
        <4> HIDE DEF b
        <4> QED BY <3>3, <4>1, <4>2 DEF ReportSet
      <3>5. CASE f = "restarts"
        <4>1. report' = [report EXCEPT !.restarts = -1]
          BY <3>1, <3>5
        <4> QED BY <3>3, <4>1 DEF ReportSet
      <3>6. CASE f = "phase"
        <4>1. report' = [report EXCEPT !.phase = "unusable"]
          BY <3>1, <3>6
        <4> QED BY <3>3, <4>1 DEF ReportSet
      <3>7. CASE f \in {"dseq", "counted", "at"}
        <4>1. report' = [report EXCEPT ![f] = Unset]
          BY <3>1, <3>7
        <4> QED BY <3>3, <3>7, <4>1 DEF ReportSet
      <3> QED BY <3>2, <3>4, <3>5, <3>6, <3>7
    <2>4. StillAsWritten'
      BY <2>1 DEF DocumentsInv, StillAsWritten, Fields
    <2> QED BY <2>1, <2>2, <2>3, <2>4 DEF DocumentsInv, Fields
  <1>6. CASE \E f \in DOMAIN NewController : DamageField(f)
    <2>1. PICK f \in Fields : DamageField(f)
      BY <1>6, NewControllerOK
    <2>2. PICK x \in Worse(f) : raw' = [raw EXCEPT ![f] = x]
      BY <2>1 DEF DamageField
    <2>3. /\ UNCHANGED <<up, doc, body, index, report, alive, unanswered>> /\ damaged' = damaged \cup {f}
          /\ spoils' = spoils + 1 /\ spoils < MaxSpoils /\ body = "object" /\ f \notin damaged
      BY <2>1 DEF DamageField
    <2>4. spoils' \in 0..MaxSpoils
      BY <2>3, DocumentsAssumption DEF DocumentsInv
    <2>5. raw \in RawSet /\ DocOK(doc)
      BY DEF DocumentsInv
    <2>6. f = "lease" => x \in {Unset, Nameless}
      BY <2>2 DEF Worse
    <2>7. raw' \in RawSet
      <3>1. CASE x = Unset
        <4>1. raw' = [raw EXCEPT ![f] = Unset]
          BY <2>2, <3>1
        <4> QED BY <2>5, <4>1 DEF RawSet, Fields
      <3>2. CASE f = "shas" /\ x # Unset
        <4>1. x \in {raw.shas \o raw.shas, <<Nameless>> \o raw.shas}
          BY <2>2, <3>2 DEF Worse
        <4>2. raw.shas = doc.shas
          BY <2>3, <3>2 DEF DocumentsInv, StillAsWritten
        <4>3. doc.shas \in Seq(Sha \cup {Nameless})
          BY <2>5, DocIs, SeqMonotonic
        <4>4. x \in Seq(Sha \cup {Nameless})
          <5>1. <<Nameless>> \in Seq(Sha \cup {Nameless})
            OBVIOUS
          <5>2. \A y, z \in Seq(Sha \cup {Nameless}) : y \o z \in Seq(Sha \cup {Nameless})
            BY ConcatProperties
          <5>3. x = raw.shas \o raw.shas \/ x = <<Nameless>> \o raw.shas
            BY <4>1
          <5> QED BY <4>2, <4>3, <5>1, <5>2, <5>3
        <4>5. raw' = [raw EXCEPT !.shas = x]
          BY <2>2, <3>2
        <4> QED BY <2>5, <4>4, <4>5 DEF RawSet
      <3>3. CASE f = "version" /\ x # Unset
        <4>1. x \in {0, 2} /\ raw' = [raw EXCEPT !.version = x]
          BY <2>2, <3>3 DEF Worse
        <4> QED BY <2>5, <4>1 DEF RawSet
      <3>4. CASE f \in {"intent", "status"} /\ x # Unset
        <4>1. x = "unusable"
          BY <2>2, <3>4 DEF Worse
        <4> QED BY <2>2, <2>5, <3>4, <4>1 DEF RawSet
      <3>5. CASE f \in {"lease", "request"} /\ x # Unset
        <4>1. x = Nameless
          BY <2>2, <3>5 DEF Worse
        <4> QED BY <2>2, <2>5, <3>5, <4>1 DEF RawSet
      <3>6. CASE f = "stop" /\ x # Unset
        <4>1. x = "zero" /\ raw' = [raw EXCEPT !.stop = x]
          BY <2>2, <3>6 DEF Worse
        <4> QED BY <2>5, <4>1 DEF RawSet
      <3>7. CASE f = "target" /\ x # Unset
        <4>1. x = "junk" /\ raw' = [raw EXCEPT !.target = x]
          BY <2>2, <3>7 DEF Worse
        <4> QED BY <2>5, <4>1 DEF RawSet
      <3>8. CASE f = "pinned" /\ x # Unset
        BY <2>2, <3>8 DEF Worse
      <3>9. \/ f = "version" \/ f \in {"intent", "status"} \/ f \in {"lease", "request"} \/ f = "stop" \/ f = "shas"
            \/ f = "target" \/ f = "pinned"
        BY DEF Fields
      <3> QED BY <3>1, <3>2, <3>3, <3>4, <3>5, <3>6, <3>7, <3>8, <3>9
    <2>8. \A g \in Fields : g # f => raw'[g] = raw[g]
      BY <2>2, <2>5 DEF RawSet
    <2>9. StillAsWritten'
      BY <2>3, <2>8 DEF DocumentsInv, StillAsWritten
    <2>10. "lease" \in damaged' => raw'.lease \in {Unset, Nameless}
      <3>1. CASE f = "lease"
        <4>1. raw'.lease = x
          BY <2>2, <2>5, <3>1 DEF RawSet
        <4> QED BY <2>6, <3>1, <4>1
      <3>2. CASE f # "lease"
        <4>1. "lease" \in Fields
          BY DEF Fields
        <4> QED BY <2>3, <2>8, <3>2, <4>1 DEF DocumentsInv
      <3> QED BY <3>1, <3>2
    <2> QED BY <2>3, <2>4, <2>7, <2>9, <2>10 DEF DocumentsInv
  <1> QED BY <1>1, <1>2, <1>3, <1>4, <1>5, <1>6

\* What the start makes of what it read: a sound document, whatever the provider says.
LEMMA ReconciledOK ==
    ASSUME NEW d, DocOK(d), NEW gone \in BOOLEAN, NEW e, e = Reconciled(d, gone)
    PROVE  /\ DocOK(e) /\ Honest(e)
           /\ \A f \in Fields \ {"status", "lease", "request"} : e[f] = d[f]
           /\ d.lease = NoDSeq => e.lease = d.lease /\ e.request = d.request /\ e.status = (IF Billed(d) THEN "failed" ELSE d.status)
           /\ d.lease # NoDSeq /\ ~gone => e = d
  <1>1. /\ DOMAIN d = Fields /\ d = [f \in DOMAIN d |-> d[f]]
        /\ d.version \in {1, 2} /\ d.intent \in Intents /\ d.status \in Statuses /\ d.lease \in DSeq \cup {NoDSeq}
        /\ d.stop \in {"none", "set"} /\ d.target \in {NoArchive, "archive"} /\ d.pinned \in BOOLEAN
        /\ d.request \in ReqID \cup {NoReq} /\ d.shas \in Seq(Sha) /\ RingOK(d.shas)
        /\ d.pinned => d.target # NoArchive
    BY DocIs
  <1>2. CASE d.lease = NoDSeq /\ ~Billed(d)
    <2>1. e = d
      BY <1>2 DEF Reconciled
    <2> QED BY <1>2, <2>1 DEF Honest
  <1>3. CASE d.lease # NoDSeq /\ ~gone
    <2>1. e = d
      BY <1>3 DEF Reconciled
    <2> QED BY <1>3, <2>1 DEF Honest
  <1>4. ~Billed([status |-> "failed"])
    BY DEF Billed
  <1>5. CASE d.lease = NoDSeq /\ Billed(d)
    <2>1. e = Fail(d)
      BY <1>5 DEF Reconciled
    <2>2. /\ DOMAIN e = DOMAIN d /\ e = [f \in DOMAIN e |-> e[f]] /\ e.status = "failed"
          /\ \A f \in Fields \ {"status"} : e[f] = d[f]
      BY <1>1, <2>1 DEF Fail, Fields
    <2>3. /\ e.version = d.version /\ e.shas = d.shas /\ e.intent = d.intent /\ e.lease = d.lease /\ e.stop = d.stop
          /\ e.target = d.target /\ e.pinned = d.pinned /\ e.request = d.request
      BY <2>2 DEF Fields
    <2>4. DocOK(e)
      BY <1>1, <2>2, <2>3, SoundStays DEF Statuses
    <2>5. Honest(e)
      BY <2>2 DEF Honest, Billed
    <2> QED BY <1>5, <2>2, <2>3, <2>4, <2>5
  <1>6. CASE d.lease # NoDSeq /\ gone
    <2>1. e = [Fail(ClearBackupRequest(d)) EXCEPT !.lease = NoDSeq]
      BY <1>6 DEF Reconciled
    <2>2. /\ DOMAIN e = DOMAIN d /\ e = [f \in DOMAIN e |-> e[f]] /\ e.status = "failed"
          /\ e.lease = NoDSeq /\ e.request = NoReq
      BY <1>1, <2>1 DEF Fail, ClearBackupRequest, Fields
    <2>3. \A f \in Fields \ {"status", "lease", "request"} : e[f] = d[f]
      BY <1>1, <2>1 DEF Fail, ClearBackupRequest, Fields
    <2>4. /\ e.version = d.version /\ e.shas = d.shas /\ e.intent = d.intent /\ e.stop = d.stop
          /\ e.target = d.target /\ e.pinned = d.pinned
      BY <2>3 DEF Fields
    <2>5. DocOK(e)
      BY <1>1, <2>2, <2>4, SoundStays DEF Statuses
    <2>6. Honest(e)
      BY <2>2 DEF Honest, Billed
    <2> QED BY <1>6, <2>2, <2>3, <2>5, <2>6
  <1> QED BY <1>2, <1>3, <1>5, <1>6

\* And so is one that takes a deployment over.
LEMMA AdoptedOK ==
    ASSUME NEW d, DocOK(d), NEW dseq \in DSeq, NEW e, e = Adopted(d, dseq)
    PROVE  DocOK(e) /\ e.lease = dseq /\ e.status = "failed"
  <1>1. /\ DOMAIN d = Fields /\ d = [f \in DOMAIN d |-> d[f]]
        /\ d.version \in {1, 2} /\ d.intent \in Intents /\ d.stop \in {"none", "set"}
        /\ d.target \in {NoArchive, "archive"} /\ d.pinned \in BOOLEAN
        /\ d.request \in ReqID \cup {NoReq} /\ (d.pinned => d.target # NoArchive)
    BY DocIs
  <1>2. e = [Fail(d) EXCEPT !.lease = dseq]
    BY DEF Adopted
  <1>3. /\ DOMAIN e = DOMAIN d /\ e = [f \in DOMAIN e |-> e[f]] /\ e.status = "failed" /\ e.lease = dseq
        /\ e.version = d.version /\ e.shas = d.shas /\ e.intent = d.intent /\ e.stop = d.stop
        /\ e.target = d.target /\ e.pinned = d.pinned /\ e.request = d.request
    BY <1>1, <1>2 DEF Fail, Fields
  <1> QED BY <1>1, <1>3, SoundStays DEF Statuses

\* A start that leaves the files alone leaves the document as it was read.
LEMMA LeftAlone ==
    ASSUME DocumentsInv, doc' = OwnDoc, body # "absent", UNCHANGED <<raw, body, damaged>>
    PROVE  StillAsWritten'
  <1> SUFFICES ASSUME body = "object", NEW f \in Fields \ damaged
               PROVE  raw[f] = OwnDoc[f] \/ (f = "pinned" /\ "target" \in damaged)
    BY DEF StillAsWritten
  <1>1. OwnDoc[f] = doc[f] \/ (f = "pinned" /\ "target" \in damaged)
    BY OwnDocKept
  <1>2. raw[f] = doc[f] \/ (f = "pinned" /\ "target" \in damaged)
    BY DEF DocumentsInv, StillAsWritten
  <1> QED BY <1>1, <1>2

\* The start: the document is sound again, and says what was lost.
LEMMA LoadStep == DocumentsInv /\ Load => DocumentsInv' /\ StartRight
  <1> SUFFICES ASSUME DocumentsInv, Load PROVE DocumentsInv' /\ StartRight
    OBVIOUS
  <1>1. PICK deaf \in SUBSET DocFaults :
          /\ unanswered' = (deaf # {})
          /\ LET adopts == FatalRead /\ "adopt" \notin deaf /\ alive # {}
             IN  \E d \in IF adopts THEN {Adopted(OwnDoc, dseq) : dseq \in alive} ELSE {OwnDoc} :
                   /\ doc' = Reconciled(d, "alive" \notin deaf /\ d.lease \notin alive)
                   /\ WritesBack(doc', adopts)
    BY DEF Load
  <1> DEFINE adopts == FatalRead /\ "adopt" \notin deaf /\ alive # {}
             gone(d) == "alive" \notin deaf /\ d.lease \notin alive
  <1>2. PICK d \in IF adopts THEN {Adopted(OwnDoc, dseq) : dseq \in alive} ELSE {OwnDoc} :
          doc' = Reconciled(d, gone(d)) /\ WritesBack(doc', adopts)
    BY <1>1
  <1>3. DocOK(OwnDoc) /\ DocOK(doc) /\ Honest(doc) /\ alive \subseteq DSeq
    BY OwnDocOK DEF DocumentsInv
  <1>4. up' = TRUE /\ UNCHANGED <<report, alive, spoils>> /\ unanswered' = (deaf # {})
    BY <1>1 DEF Load
  <1> HIDE DEF adopts
  <1>5. adopts => DocOK(d) /\ d.lease \in alive /\ d.status = "failed"
    <2> SUFFICES ASSUME adopts PROVE DocOK(d) /\ d.lease \in alive /\ d.status = "failed"
      OBVIOUS
    <2>1. PICK dseq \in alive : d = Adopted(OwnDoc, dseq)
      BY <1>2
    <2> QED BY <1>3, <2>1, AdoptedOK
  <1>6. ~adopts => d = OwnDoc
    BY <1>2
  <1>7. DocOK(d)
    BY <1>3, <1>5, <1>6
  <1>8. /\ DocOK(doc') /\ Honest(doc')
        /\ \A f \in Fields \ {"status", "lease", "request"} : doc'[f] = d[f]
        /\ d.lease = NoDSeq => /\ doc'.lease = d.lease /\ doc'.request = d.request
                               /\ doc'.status = (IF Billed(d) THEN "failed" ELSE d.status)
        /\ d.lease # NoDSeq /\ ~gone(d) => doc' = d
    <2>1. gone(d) \in BOOLEAN
      OBVIOUS
    <2> HIDE DEF gone
    <2> QED BY <1>2, <1>7, <2>1, ReconciledOK
  <1>9. DocumentsInv'
    <2>1. CASE adopts \/ doc' # OwnDoc \/ body = "absent"
      <3>1. raw' = doc' /\ body' = "object" /\ index' = "fine" /\ damaged' = {}
        BY <1>2, <2>1 DEF WritesBack
      <3> QED BY <1>3, <1>4, <1>8, <3>1, WrittenOK DEF DocumentsInv
    <2>2. CASE ~(adopts \/ doc' # OwnDoc \/ body = "absent")
      <3>1. UNCHANGED <<raw, body, index, damaged>> /\ doc' = OwnDoc /\ body # "absent"
        BY <1>2, <2>2 DEF WritesBack
      <3>2. StillAsWritten'
        BY <3>1, LeftAlone
      <3> QED BY <1>4, <1>8, <3>1, <3>2 DEF DocumentsInv
    <2> QED BY <2>1, <2>2
  <1>10. StartRight
    <2> SUFFICES ASSUME Cardinality(damaged) <= 1, ~unanswered'
                 PROVE  /\ doc.lease \in alive /\ doc.status \in BillingStatuses =>
                             doc'.lease = doc.lease \/ doc'.status = "failed"
                        /\ doc.lease \in alive \cup {NoDSeq} /\ ~FatalRead /\ body = "object" =>
                             \A f \in DOMAIN doc : doc'[f] # doc[f] => \E g \in damaged : f \in Reached(g)
      BY DEF StartRight
    <2>1. deaf = {} /\ (gone(d) <=> d.lease \notin alive) /\ (adopts <=> FatalRead /\ alive # {})
      BY <1>4 DEF adopts
    <2>2. NoDSeq \notin alive
      BY <1>3, NoDSeqAssumption
    <2>3. "lease" \in Fields /\ "status" \in Fields
      BY DEF Fields
    <2>4. body = "object" /\ "lease" \notin damaged => OwnDoc.lease = doc.lease
      BY <2>3, OwnDocKept
    <2>5. body = "object" /\ "status" \notin damaged => OwnDoc.status = doc.status
      BY <2>3, OwnDocKept
    <2>6. body = "object" /\ "lease" \in damaged => OwnDoc.lease = NoDSeq
      BY LeaseLost
    <2>7. ASSUME doc.lease \in alive, doc.status \in BillingStatuses
          PROVE  doc'.lease = doc.lease \/ doc'.status = "failed"
      <3>1. CASE FatalRead
        <4>1. adopts
          BY <2>1, <2>7, <3>1
        <4>2. d.lease # NoDSeq /\ ~gone(d)
          BY <1>5, <2>1, <2>2, <4>1
        <4> QED BY <1>5, <1>8, <4>1, <4>2
      <3>2. CASE ~FatalRead
        <4>1. d = OwnDoc
          BY <1>6, <2>1, <3>2
        <4>2. body = "object"
          <5>1. body # "garbage"
            BY <3>2 DEF FatalRead
          <5>2. body # "absent"
            BY <2>2, <2>7, NewControllerOK DEF DocumentsInv
          <5> QED BY <5>1, <5>2 DEF DocumentsInv
        <4>3. CASE "lease" \notin damaged
          <5>1. d.lease = doc.lease /\ d.lease # NoDSeq /\ ~gone(d)
            BY <2>1, <2>2, <2>4, <2>7, <4>1, <4>2, <4>3
          <5> QED BY <1>8, <5>1
        <4>4. CASE "lease" \in damaged
          <5>1. "status" \notin damaged
            <6> SUFFICES ASSUME "status" \in damaged PROVE FALSE
              OBVIOUS
            <6>1. IsFiniteSet({"version", "intent", "status", "lease", "stop", "shas", "target", "pinned", "request", "report"})
              <7>1. IsFiniteSet({"version", "intent", "status", "lease", "stop"})
                BY FiveAreFinite
              <7>2. IsFiniteSet({"shas", "target", "pinned", "request", "report"})
                BY FiveAreFinite
              <7>3. IsFiniteSet({"version", "intent", "status", "lease", "stop"}
                                \cup {"shas", "target", "pinned", "request", "report"})
                BY <7>1, <7>2, FS_Union
              <7>4. {"version", "intent", "status", "lease", "stop"} \cup {"shas", "target", "pinned", "request", "report"}
                      = {"version", "intent", "status", "lease", "stop", "shas", "target", "pinned", "request", "report"}
                OBVIOUS
              <7> QED BY <7>3, <7>4
            <6>2. damaged \subseteq {"version", "intent", "status", "lease", "stop", "shas", "target", "pinned", "request", "report"}
              BY DEF DocumentsInv, Fields
            <6>3. IsFiniteSet(damaged)
              BY <6>1, <6>2, FS_Subset
            <6>4. Cardinality({"lease", "status"}) = 2
              <7>1. "lease" # "status"
                OBVIOUS
              <7> QED BY <7>1, PairIsTwo
            <6>5. {"lease", "status"} \subseteq damaged
              BY <4>4
            <6>6. Cardinality({"lease", "status"}) <= Cardinality(damaged)
              BY <6>3, <6>5, FS_Subset
            <6>7. Cardinality(damaged) \in Nat
              BY <6>3, FS_CardinalityType
            <6> QED BY <6>4, <6>6, <6>7
          <5>2. d.lease = NoDSeq /\ d.status = doc.status
            BY <2>5, <2>6, <4>1, <4>2, <4>4, <5>1
          <5>3. doc'.status = IF Billed(d) THEN "failed" ELSE d.status
            BY <1>8, <5>2
          <5>4. ~Billed(d) => d.status = "failed"
            BY <2>7, <5>2 DEF Billed
          <5> QED BY <5>3, <5>4
        <4> QED BY <4>3, <4>4
      <3> QED BY <3>1, <3>2
    <2>8. ASSUME doc.lease \in alive \cup {NoDSeq}, ~FatalRead, body = "object", NEW f \in DOMAIN doc, doc'[f] # doc[f]
          PROVE  \E g \in damaged : f \in Reached(g)
      <3>1. d = OwnDoc /\ f \in Fields
        BY <1>3, <1>6, <2>1, <2>8, DocIs
      <3>2. \A g \in damaged : g \in Reached(g)
        BY DEF Reached
      <3>3. "lease" \in damaged => "status" \in Reached("lease")
        BY DEF Reached
      <3>4. "target" \in damaged => "pinned" \in Reached("target")
        BY DEF Reached
      <3>5. f \in damaged \/ d[f] = doc[f] \/ (f = "pinned" /\ "target" \in damaged)
        BY <2>8, <3>1, OwnDocKept
      <3>6. SUFFICES ASSUME f \notin damaged, d[f] = doc[f] PROVE \E g \in damaged : f \in Reached(g)
        BY <3>2, <3>4, <3>5
      <3>7. CASE "lease" \notin damaged
        <4>1. d.lease = doc.lease
          BY <2>4, <2>8, <3>1, <3>7
        <4>2. CASE doc.lease # NoDSeq
          <5>1. ~gone(d) /\ d.lease # NoDSeq
            BY <2>1, <2>8, <4>1, <4>2
          <5> QED BY <1>8, <2>8, <3>6, <5>1
        <4>3. CASE doc.lease = NoDSeq
          <5>1. doc'.lease = d.lease /\ doc'.request = d.request
            BY <1>8, <4>1, <4>3
          <5>2. f = "status"
            BY <1>8, <2>8, <3>1, <3>6, <5>1
          <5>3. d.status = doc.status
            BY <3>6, <5>2
          <5>4. ~Billed(d)
            BY <1>3, <4>3, <5>3 DEF Honest, Billed
          <5>5. doc'.status = doc.status
            BY <1>8, <4>1, <4>3, <5>3, <5>4
          <5> QED BY <2>8, <5>2, <5>5
        <4> QED BY <4>2, <4>3
      <3>8. CASE "lease" \in damaged
        <4>1. d.lease = NoDSeq
          BY <2>6, <2>8, <3>1, <3>8
        <4>2. doc'.lease = d.lease /\ doc'.request = d.request
          BY <1>8, <4>1
        <4>3. f = "status"
          BY <1>8, <2>8, <3>1, <3>6, <4>2
        <4> QED BY <3>3, <3>8, <4>3
      <3> QED BY <3>7, <3>8
    <2> QED BY <2>7, <2>8
  <1> QED BY <1>9, <1>10

\* Nothing has been written, and nothing damaged.
LEMMA DocumentsInitOK == DocumentsInit => DocumentsInv
  <1> SUFFICES ASSUME DocumentsInit PROVE DocumentsInv
    OBVIOUS
  <1>1. NewAgent \in ReportSet
    <2>1. NoReport \in BackupSet
      BY DEF NoReport, BackupSet
    <2> QED BY <2>1 DEF NewAgent, ReportSet, Phases
  <1>2. 0 \in 0..MaxSpoils
    BY DocumentsAssumption
  <1> QED BY <1>1, <1>2, NewControllerOK DEF DocumentsInit, DocumentsInv, StillAsWritten

\* Every step keeps what is known, and every start is right.
LEMMA DocumentsStep ==
    DocumentsInv /\ [DocumentsNext]_documentsVars => DocumentsInv' /\ [StartRight]_documentsVars
  <1> SUFFICES ASSUME DocumentsInv, [DocumentsNext]_documentsVars
               PROVE  DocumentsInv' /\ [StartRight]_documentsVars
    OBVIOUS
  <1>1. CASE UNCHANGED documentsVars
    BY <1>1 DEF documentsVars, DocumentsInv, StillAsWritten
  <1>2. CASE Load
    BY <1>2, LoadStep
  <1>3. CASE \/ Undeployed \/ Settles \/ Schedules
             \/ \E dseq \in DSeq : Deploys(dseq)
             \/ \E to \in Statuses \ {"offline", "deploying"} : Proceeds(to)
             \/ \E id \in ReqID : Asks(id)
             \/ \E p \in BOOLEAN : Chooses(p)
             \/ \E s \in Sha : Hears(s)
    <2>1. up
      BY <1>3 DEF Undeployed, Settles, Schedules, Deploys, Proceeds, Asks, Chooses, Hears, Publishes
    <2> QED BY <1>3, <2>1, DocumentsLoopStep DEF StartRight
  <1>4. CASE \/ Dies \/ DamageFile \/ DamageReport
             \/ \E dseq \in DSeq : ProviderEnds(dseq)
             \/ \E s \in {"running", "done", "failed"} : Reports(s)
             \/ \E f \in DOMAIN NewController : DamageField(f)
    <2>1. up \/ ~up'
      BY <1>4 DEF Dies, DamageFile, DamageReport, ProviderEnds, Reports, DamageField
    <2> QED BY <1>4, <2>1, AroundStep DEF StartRight
  <1> QED BY <1>1, <1>2, <1>3, <1>4 DEF DocumentsNext

\* What the agent's report is after a repair, field by field.
LEMMA NormalAgentIs ==
    ASSUME NEW a, a = [dseq |-> a.dseq, phase |-> a.phase, counted |-> a.counted, at |-> a.at,
                       restarts |-> a.restarts, backup |-> a.backup]
    PROVE  NormalAgent(a) = [dseq |-> a.dseq, phase |-> IF a.phase \in Phases THEN a.phase ELSE "crashed",
             counted |-> a.counted /\ a.at, at |-> a.at /\ a.counted,
             restarts |-> IF a.restarts < 0 THEN 0 ELSE a.restarts, backup |-> NormalReport(a.backup)]
  <1> DEFINE n == NormalAgent(a)
             names == {"dseq", "phase", "counted", "at", "restarts", "backup"}
  <1>1. DOMAIN a = names
    OBVIOUS
  <1>2. n = [f \in names |-> n[f]]
    BY <1>1 DEF NormalAgent
  <1>3. n.dseq = a.dseq
    BY <1>1 DEF NormalAgent
  <1>4. n.phase = IF a.phase \in Phases THEN a.phase ELSE "crashed"
    BY <1>1 DEF NormalAgent
  <1>5. n.counted = (a.counted /\ a.at)
    BY <1>1 DEF NormalAgent
  <1>6. n.at = (a.at /\ a.counted)
    BY <1>1 DEF NormalAgent
  <1>7. n.restarts = IF a.restarts < 0 THEN 0 ELSE a.restarts
    BY <1>1 DEF NormalAgent
  <1>8. n.backup = NormalReport(a.backup)
    BY <1>1 DEF NormalAgent
  <1> HIDE DEF n
  <1>9. n = [dseq |-> n.dseq, phase |-> n.phase, counted |-> n.counted, at |-> n.at, restarts |-> n.restarts, backup |-> n.backup]
    BY <1>2
  <1>10. n = [dseq |-> a.dseq, phase |-> IF a.phase \in Phases THEN a.phase ELSE "crashed",
             counted |-> a.counted /\ a.at, at |-> a.at /\ a.counted,
             restarts |-> IF a.restarts < 0 THEN 0 ELSE a.restarts, backup |-> NormalReport(a.backup)]
    BY <1>3, <1>4, <1>5, <1>6, <1>7, <1>8, <1>9
  <1> QED BY <1>10 DEF n

\* What the agent's file says is repaired once and for all.
LEMMA ReadAgentOK ==
    ASSUME report \in ReportSet
    PROVE  NormalAgent(ReadAgent) = ReadAgent /\ ReadAgent.phase \in Phases /\ ReadAgent.restarts \in Nat
  <1> DEFINE a == Decode(report, NewAgent)
             n == NormalAgent(a)
  <1>1. a = [dseq |-> a.dseq, phase |-> a.phase, counted |-> a.counted, at |-> a.at, restarts |-> a.restarts, backup |-> a.backup]
    BY DEF Decode, NewAgent
  <1>2. a.counted \in BOOLEAN /\ a.at \in BOOLEAN /\ a.restarts \in {-1, 0}
    <2>1. /\ a.counted = IF report.counted = Unset THEN FALSE ELSE report.counted
          /\ a.at = IF report.at = Unset THEN FALSE ELSE report.at
          /\ a.restarts = IF report.restarts = Unset THEN 0 ELSE report.restarts
      BY DEF Decode, NewAgent
    <2>2. report.counted \in BOOLEAN \cup {Unset} /\ report.at \in BOOLEAN \cup {Unset} /\ report.restarts \in {-1, 0}
      BY DEF ReportSet
    <2> QED BY <2>1, <2>2
  <1>3. a.backup \in BackupSet
    <2>1. a.backup = IF report.backup = Unset THEN NoReport ELSE report.backup
      BY DEF Decode, NewAgent
    <2>2. NoReport \in BackupSet
      BY DEF NoReport, BackupSet
    <2> QED BY <2>1, <2>2 DEF ReportSet
  <1> HIDE DEF a
  <1>4. \A b \in BackupSet : NormalReport(b) \in BackupSet /\ NormalReport(NormalReport(b)) = NormalReport(b)
    <2> TAKE b \in BackupSet
    <2>1. CASE b.id \in {Nameless, NoReq}
      BY <2>1 DEF NormalReport, NoReport, BackupSet
    <2>2. CASE b.id \notin {Nameless, NoReq}
      <3> DEFINE state == IF b.state \notin {"running", "done", "failed"} \/ (b.state = "done" /\ ~b.archive)
                          THEN "failed" ELSE b.state
                 c == [b EXCEPT !.state = state]
      <3>1. NormalReport(b) = c
        BY <2>2 DEF NormalReport, BackupSet
      <3>2. state \in {"running", "done", "failed"} /\ ~(state = "done" /\ ~b.archive)
        OBVIOUS
      <3> HIDE DEF state
      <3>3. c \in BackupSet /\ c.id = b.id /\ c.state = state /\ c.archive = b.archive
        BY <3>2 DEF BackupSet
      <3> HIDE DEF c
      <3>4. NormalReport(c) = [c EXCEPT !.state = state]
        BY <2>2, <3>2, <3>3 DEF NormalReport
      <3>5. [c EXCEPT !.state = state] = c
        BY <3>3 DEF BackupSet
      <3> QED BY <3>1, <3>3, <3>4, <3>5
    <2> QED BY <2>1, <2>2
  <1>5. n = [dseq |-> a.dseq, phase |-> IF a.phase \in Phases THEN a.phase ELSE "crashed",
             counted |-> a.counted /\ a.at, at |-> a.at /\ a.counted,
             restarts |-> IF a.restarts < 0 THEN 0 ELSE a.restarts, backup |-> NormalReport(a.backup)]
    BY <1>1, NormalAgentIs
  <1>6. n.phase \in Phases /\ n.restarts = 0 /\ n.counted = n.at /\ n.counted \in BOOLEAN
    BY <1>2, <1>5 DEF Phases
  <1>7. n = [dseq |-> n.dseq, phase |-> n.phase, counted |-> n.counted, at |-> n.at, restarts |-> n.restarts,
             backup |-> n.backup] /\ n.backup = NormalReport(a.backup)
    BY <1>5
  <1> HIDE DEF n
  <1>8. NormalReport(n.backup) = n.backup
    BY <1>3, <1>4, <1>7
  <1>9. NormalAgent(n) = n
    <2>1. NormalAgent(n) = [dseq |-> n.dseq, phase |-> IF n.phase \in Phases THEN n.phase ELSE "crashed",
                            counted |-> n.counted /\ n.at, at |-> n.at /\ n.counted,
                            restarts |-> IF n.restarts < 0 THEN 0 ELSE n.restarts, backup |-> NormalReport(n.backup)]
      BY <1>7, NormalAgentIs
    <2>2. (n.counted /\ n.at) = n.counted /\ (n.at /\ n.counted) = n.at
      BY <1>6
    <2> QED BY <1>6, <1>7, <1>8, <2>1, <2>2
  <1>10. ReadAgent = n
    BY DEF ReadAgent, n, a
  <1> QED BY <1>6, <1>9, <1>10

\* As the invariant says it.
LEMMA DocumentsTypesAre == DocumentsInv => DocumentsTypeOK
  <1> SUFFICES ASSUME DocumentsInv PROVE DocumentsTypeOK
    OBVIOUS
  <1>1. Normalized(doc) = doc
    BY NormalizedSame DEF DocumentsInv
  <1>2. NormalAgent(ReadAgent) = ReadAgent /\ ReadAgent.phase \in Phases /\ ReadAgent.restarts \in Nat
    BY ReadAgentOK DEF DocumentsInv
  <1>3. DOMAIN NewController = Fields
    BY NewControllerOK
  <1>4. doc \in DocSet
    BY DEF DocumentsInv, DocOK
  <1> QED BY <1>1, <1>2, <1>3, <1>4 DEF DocumentsInv, DocumentsTypeOK, DocSet

\* Whatever is read, the loop's document and the agent's report are ones decisions can
\* rest on, and a second repair has nothing to do (Controller.Normalize, Agent.Normalize).
THEOREM DocumentsAreSound == DocumentsSpec => []DocumentsTypeOK
  BY DocumentsTypesAre, DocumentsInitOK, DocumentsStep, PTL DEF DocumentsSpec

\* A start after one damaged field loses that field and what rests on it, and no more; and
\* a deployment that was on record and is still there is on record again, or the status
\* says failed, even after a whole file was lost, as long as the provider answers
\* (state/codec.go, fsm's load, adopt and reconcileLease).
THEOREM DamageIsAlwaysSeen == DocumentsSpec => DamageIsSeen
  BY DocumentsInitOK, DocumentsStep, PTL DEF DocumentsSpec, DamageIsSeen, StartRight

-----------------------------------------------------------------------------
(* The parts side by side.                                                 *)

\* Of the part under way, what its own proof rests on.
PartsInv ==
    /\ part = "backups" => BackupsInv
    /\ part = "gate" => GateInv
    /\ part = "bus" => BusBase /\ Limits
    /\ part = "driver" => DriverInv /\ BidInv /\ DriverTypes
    /\ part = "dns" => TasksOK /\ ControllerOK /\ DnsTypes
    /\ part = "funds" => FundsTypeOK
    /\ part = "limiter" => LimiterTypeOK
    /\ part = "documents" => DocumentsInv
    /\ part = "routes" => CallInv /\ EveryRouteTried /\ RoutesShape

\* A part that stands still keeps it.
LEMMA PartsStandStill == PartsInv /\ UNCHANGED allVars => PartsInv'
  <1> SUFFICES ASSUME PartsInv, UNCHANGED allVars PROVE PartsInv'
    OBVIOUS
  <1>1. /\ UNCHANGED part /\ UNCHANGED backupsVars /\ UNCHANGED gateVars /\ UNCHANGED busVars /\ UNCHANGED driverVars
        /\ UNCHANGED dnsVars /\ UNCHANGED fundsVars /\ UNCHANGED limiterVars /\ UNCHANGED documentsVars
        /\ UNCHANGED routesVars
    BY DEF allVars
  <1>2. part = "backups" => BackupsInv'
    BY <1>1, BackupsInvNext DEF PartsInv
  <1>3. part = "gate" => GateInv'
    BY <1>1, GateNextInv DEF PartsInv
  <1>4. part = "bus" => BusBase' /\ Limits'
    BY <1>1, BusBaseNext, LimitsNext DEF PartsInv
  <1>5. part = "driver" => DriverInv' /\ BidInv' /\ DriverTypes'
    BY <1>1, DriverInvNext, BidInvNext, DriverTypesNext DEF PartsInv
  <1>6. part = "dns" => TasksOK' /\ ControllerOK' /\ DnsTypes'
    BY <1>1, DnsStep, DnsTypesStep DEF PartsInv
  <1>7. part = "funds" => FundsTypeOK'
    BY <1>1, FundsTypes DEF PartsInv
  <1>8. part = "limiter" => LimiterTypeOK'
    BY <1>1, LimiterTypes DEF PartsInv
  <1>9. part = "documents" => DocumentsInv'
    BY <1>1, DocumentsStep DEF PartsInv
  <1>10. part = "routes" => CallInv' /\ EveryRouteTried' /\ RoutesShape'
    BY <1>1, RoutesStep, RoutesShapeStep DEF PartsInv
  <1> QED BY <1>1, <1>2, <1>3, <1>4, <1>5, <1>6, <1>7, <1>8, <1>9, <1>10 DEF PartsInv

\* And so does the one that moves, while the others stand still.
LEMMA PartsMove == PartsInv /\ PartsNext => PartsInv'
  <1> SUFFICES ASSUME PartsInv, PartsNext PROVE PartsInv'
    OBVIOUS
  <1>1. CASE part = "backups" /\ BackupsNext /\ part' = part
    BY <1>1, BackupsInvNext DEF PartsInv
  <1>2. CASE part = "gate" /\ GateNext /\ part' = part
    BY <1>2, GateNextInv DEF PartsInv
  <1>3. CASE part = "bus" /\ BusNext /\ part' = part
    BY <1>3, BusBaseNext, LimitsNext DEF PartsInv
  <1>4. CASE part = "driver" /\ DriverNext /\ part' = part
    BY <1>4, DriverInvNext, BidInvNext, DriverTypesNext DEF PartsInv
  <1>5. CASE part = "dns" /\ DnsNext /\ part' = part
    BY <1>5, DnsStep, DnsTypesStep DEF PartsInv
  <1>6. CASE part = "funds" /\ FundsNext /\ part' = part
    BY <1>6, FundsTypes DEF PartsInv
  <1>7. CASE part = "limiter" /\ LimiterNext /\ part' = part
    BY <1>7, LimiterTypes DEF PartsInv
  <1>8. CASE part = "documents" /\ DocumentsNext /\ part' = part
    BY <1>8, DocumentsStep DEF PartsInv
  <1>9. CASE part = "routes" /\ RoutesNext /\ part' = part
    BY <1>9, RoutesStep, RoutesShapeStep DEF PartsInv
  <1>10. \/ part = "backups" /\ BackupsNext /\ part' = part
         \/ part = "gate" /\ GateNext /\ part' = part
         \/ part = "bus" /\ BusNext /\ part' = part
         \/ part = "driver" /\ DriverNext /\ part' = part
         \/ part = "dns" /\ DnsNext /\ part' = part
         \/ part = "funds" /\ FundsNext /\ part' = part
         \/ part = "limiter" /\ LimiterNext /\ part' = part
         \/ part = "documents" /\ DocumentsNext /\ part' = part
         \/ part = "routes" /\ RoutesNext /\ part' = part
    BY Zenon DEF PartsNext
  <1> QED BY <1>1, <1>2, <1>3, <1>4, <1>5, <1>6, <1>7, <1>8, <1>9, <1>10

\* It holds at the start of each.
LEMMA PartsBegin == PartsInit => PartsInv
  <1> SUFFICES ASSUME PartsInit PROVE PartsInv
    OBVIOUS
  <1>1. /\ BackupsInit /\ GateInit /\ BusInit /\ DriverInit /\ DnsInit /\ FundsInit /\ LimiterInit /\ DocumentsInit
        /\ RoutesInit
    BY DEF PartsInit
  <1>2. BackupsInv /\ GateInv /\ BusBase /\ Limits
    BY <1>1, BackupsInvInit, GateInitInv, BusBaseInit, LimitsInit
  <1>3. DriverInv /\ BidInv /\ DriverTypes /\ TasksOK /\ ControllerOK /\ DnsTypes
    BY <1>1, DriverInvInit, BidInvInit, DriverTypesInit, DnsInitOK, DnsTypesInit
  <1>4. FundsTypeOK /\ LimiterTypeOK /\ DocumentsInv /\ CallInv /\ EveryRouteTried /\ RoutesShape
    BY <1>1, FundsTypesInit, LimiterTypesInit, DocumentsInitOK, RoutesInitOK, RoutesShapeInit
  <1> QED BY <1>2, <1>3, <1>4 DEF PartsInv

\* And gives each its types.
LEMMA PartsAreTyped == PartsInv => PartsTypeOK
  <1> SUFFICES ASSUME PartsInv PROVE PartsTypeOK
    OBVIOUS
  <1>1. (part = "backups" => BackupsTypeOK) /\ (part = "gate" => GateTypeOK)
    BY DEF PartsInv, BackupsInv, GateInv
  <1>2. (part = "bus" => BusTypeOK) /\ (part = "driver" => DriverTypeOK) /\ (part = "dns" => DnsTypeOK)
    BY LimitsTypeOK, DriverTypesAre, DnsTypesAre DEF PartsInv
  <1>3. (part = "funds" => FundsTypeOK) /\ (part = "limiter" => LimiterTypeOK)
    BY DEF PartsInv
  <1>4. (part = "documents" => DocumentsTypeOK) /\ (part = "routes" => RoutesTypeOK)
    BY DocumentsTypesAre, RoutesTypesAre DEF PartsInv
  <1> QED BY <1>1, <1>2, <1>3, <1>4 DEF PartsTypeOK

\* Whichever part is under way, every variable of it has the shape its code gives it:
\* the invariant the parts' run checks.
THEOREM PartsTypeCorrect == PartsSpec => []PartsTypeOK
  <1>1. PartsInv /\ [PartsNext]_allVars => PartsInv'
    BY PartsStandStill, PartsMove
  <1> QED BY <1>1, PartsBegin, PartsAreTyped, PTL DEF PartsSpec
==============================================================================
