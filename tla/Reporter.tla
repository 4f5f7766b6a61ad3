------------------------------ MODULE Reporter ------------------------------
(***************************************************************************)
(* What the controller may assume of the agents inside its deployments:    *)
(* what each remembers that its document shows, and what it may make of    *)
(* the controller's document and of the branch before it publishes again.  *)
(*                                                                         *)
(* Module Controller takes these steps one by one (AgentBoots, AgentReads, *)
(* AgentMoves, AgentBegins, AgentAnswers, AgentPublishes); a handler of    *)
(* the supervisor (module Agent) takes several at once.                    *)
(***************************************************************************)
EXTENDS Lifecycle

VARIABLES
    live,       \* the deployments with a container
    lease,      \* the lease the controller's published document names
    request,    \* the backup request outstanding in it
    agent,      \* what the agent of each deployment remembers
    report      \* the agents' document, as published

reporter == <<live, lease, request, agent, report>>

NewAgent == [phase |-> "starting", as |-> NoDSeq, taking |-> NoReq, answered |-> NoReq]

Init ==
    /\ live = {} /\ lease = NoDSeq /\ request = NoReq
    /\ agent = [d \in DSeq |-> NewAgent]
    /\ report = [dseq |-> NoDSeq, phase |-> "starting", answered |-> NoReq, by |-> NoDSeq]

-----------------------------------------------------------------------------
\* An agent that boots remembers nothing but the document on the branch, whoever
\* wrote it and provided it can be read.
Booted == {[NewAgent EXCEPT !.as = lease, !.answered = a] : a \in {report.answered, NoReq}}

\* A lease once known is kept until the controller's document names another.
Reads(m, n) == n.as = m.as \/ (n.as = lease /\ lease # NoDSeq)

\* One backup is taken at a time, and an answer is forgotten when the next begins.
Kept(m, n)    == n.taking = m.taking /\ n.answered = m.answered
Begins(m, n)  == /\ m.taking = NoReq /\ request \notin {NoReq, m.answered}
                 /\ n.taking = request /\ n.answered = NoReq
Answers(m, n) == /\ m.taking # NoReq
                 /\ n.taking = NoReq /\ n.answered = m.taking

Written(d, n) == [dseq |-> n.as, phase |-> n.phase, answered |-> n.answered, by |-> d]

\* What the agent does before it publishes, if it does.  Phases have no transition
\* table.
Does(m, n) == /\ n.phase \in Phases
              /\ Reads(m, n)
              /\ Kept(m, n) \/ Begins(m, n) \/ Answers(m, n)

\* What is published is what is remembered.
Speaks(d) ==
    /\ d \in live
    /\ \E m \in {agent[d]} \cup (IF agent[d] = NewAgent THEN Booted ELSE {}) : Does(m, agent'[d])
    /\ \A e \in DSeq \ {d} : agent'[e] = agent[e]
    /\ report' \in {report, Written(d, agent'[d])}
    /\ UNCHANGED <<live, lease, request>>

\* The controller publishes, deployments come and go, containers die: no agent
\* speaks meanwhile, and some are gone.
Others ==
    /\ UNCHANGED report
    /\ live' \subseteq DSeq /\ lease' \in DSeq \cup {NoDSeq} /\ request' \in ReqID \cup {NoReq}
    /\ \A d \in DSeq : agent'[d] \in {agent[d], NewAgent}

Next == Others \/ \E d \in DSeq : Speaks(d)

Spec == Init /\ [][Next]_reporter
=============================================================================
