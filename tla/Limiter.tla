------------------------------- MODULE Limiter -------------------------------
(***************************************************************************)
(* The limiter of password attempts on the dashboard (httpapi).  An        *)
(* attempt asks the limiter, compares, and reports a failure, each under   *)
(* the lock by itself, so several may be between two of these steps.  The  *)
(* windows are fixed: one begins with the first look at a counter after    *)
(* the last one ended.  The table of counters is bounded.                  *)
(***************************************************************************)
EXTENDS Naturals, FiniteSets

CONSTANTS
    Visitor, NoVisitor, \* clientKey: what attempts are counted against
    Attempt,        \* requests that may be in progress at once
    Limit,          \* dashboard.unlock_attempts
    Window,         \* dashboard.unlock_window
    AllFactor,      \* how many visitors' limits the process as a whole has
    MaxClients,     \* the most counters that are kept
    MaxNow          \* bound: the clock

ASSUME LimiterAssumption == Limit \in Nat \ {0} /\ Window \in Nat \ {0} /\ AllFactor \in Nat \ {0}
                            /\ MaxClients \in Nat /\ MaxNow \in Nat /\ NoVisitor \notin Visitor
                            /\ IsFiniteSet(Attempt)

VARIABLES
    now,
    all,        \* sessions.all: failures, and until when they count
    clients,    \* sessions.clients: the same for each visitor that has a counter
    attempt,    \* the requests in progress
    wrong       \* history: wrong passwords compared since all's window began

limiterVars == <<now, all, clients, attempt, wrong>>

NoCounter == [count |-> 0, until |-> 0, on |-> FALSE]
NoAttempt == [pc |-> "none", by |-> NoVisitor]

LimiterInit ==
    /\ now = 0 /\ all = [count |-> 0, until |-> 0, on |-> TRUE]
    /\ clients = [v \in Visitor |-> NoCounter] /\ attempt = [a \in Attempt |-> NoAttempt]
    /\ wrong = 0

\* allows and add restart a counter whose window has passed.
Restarted(c) == IF now < c.until THEN c ELSE [c EXCEPT !.count = 0, !.until = now + Window]
Counted(c) == [Restarted(c) EXCEPT !.count = @ + 1, !.on = TRUE]
Counters(t) == {v \in Visitor : t[v].on}

\* evict: those whose window has passed.
Evicted(t) == [v \in Visitor |-> IF t[v].on /\ now < t[v].until THEN t[v] ELSE NoCounter]

\* penalise: a visitor without a counter gets one if there is room, or room can be made.
Penalised(t, v) ==
    LET room == IF Cardinality(Counters(t)) >= MaxClients THEN Evicted(t) ELSE t IN
    IF t[v].on THEN [t EXCEPT ![v] = Counted(t[v])]
    ELSE IF Cardinality(Counters(room)) >= MaxClients THEN room
    ELSE [room EXCEPT ![v] = Counted(NoCounter)]

\* take: the process's counter, then the visitor's.
AllAllows == Restarted(all).count < Limit * AllFactor
Bug_OnlyTheVisitors(v) == clients[v].on => Restarted(clients[v]).count < Limit
Allows(v) == AllAllows /\ (clients[v].on => Restarted(clients[v]).count < Limit)
Take(a, v) ==
    /\ attempt[a] = NoAttempt
    /\ all' = Restarted(all)
    /\ clients' = IF clients[v].on /\ AllAllows THEN [clients EXCEPT ![v] = Restarted(@)] ELSE clients
    /\ wrong' = IF now < all.until THEN wrong ELSE 0
    /\ attempt' = IF Allows(v) THEN [attempt EXCEPT ![a] = [pc |-> "verify", by |-> v]] ELSE attempt
    /\ UNCHANGED now

\* verify: a right password is not counted.
Right(a) ==
    /\ attempt[a].pc = "verify" /\ attempt' = [attempt EXCEPT ![a] = NoAttempt]
    /\ UNCHANGED <<now, all, clients, wrong>>
Wrong(a) ==
    /\ attempt[a].pc = "verify"
    /\ attempt' = [attempt EXCEPT ![a].pc = "penalise"] /\ wrong' = wrong + 1
    /\ UNCHANGED <<now, all, clients>>

\* penalise: the process's counter has every failure, the table or not.
Penalise(a) ==
    /\ attempt[a].pc = "penalise"
    /\ all' = Counted(all) /\ clients' = Penalised(clients, attempt[a].by)
    /\ wrong' = IF now < all.until THEN wrong ELSE 1
    /\ attempt' = [attempt EXCEPT ![a] = NoAttempt]
    /\ UNCHANGED now

Clock == now < MaxNow /\ now' = now + 1 /\ UNCHANGED <<all, clients, attempt, wrong>>

LimiterNext ==
    \/ \E a \in Attempt, v \in Visitor : Take(a, v)
    \/ \E a \in Attempt : Right(a) \/ Wrong(a) \/ Penalise(a)
    \/ Clock
LimiterSpec == LimiterInit /\ [][LimiterNext]_limiterVars

-----------------------------------------------------------------------------
LimiterTypeOK ==
    /\ now \in 0..MaxNow /\ all \in [count : Nat, until : Nat, on : {TRUE}] /\ wrong \in Nat
    /\ clients \in [Visitor -> [count : Nat, until : Nat, on : BOOLEAN]]
    /\ attempt \in [Attempt -> [pc : {"none", "verify", "penalise"}, by : Visitor \cup {NoVisitor}]]

\* The table is bounded whatever the requests say of themselves, and still what is
\* compared in one window of the process exceeds its limit by no more than what was
\* being compared when it was reached: full table or not, every failure counts (take,
\* penalise, maxClients).
RateBounded ==
    /\ Cardinality(Counters(clients)) <= MaxClients
    /\ wrong <= Limit * AllFactor + Cardinality(Attempt) - 1
=============================================================================
