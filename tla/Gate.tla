-------------------------------- MODULE Gate --------------------------------
(***************************************************************************)
(* Repo.netOp (gitbus): one remote operation at a time, under a deadline   *)
(* the caller does not outlive.                                            *)
(*                                                                         *)
(* The caller takes the gate and starts a goroutine that runs the          *)
(* operation, gives the gate back, leaves the answer in a channel and      *)
(* cancels the context; the caller waits for the answer or the context.    *)
(* An operation that overruns is abandoned: it keeps the gate until it     *)
(* ends, if it ever does.                                                  *)
(***************************************************************************)
EXTENDS Naturals

CONSTANTS
    Callers,    \* the goroutines that fetch and push
    Workers,    \* the goroutines netOp starts; enough of them that one is idle
    Nobody      \* a gate that is open, a caller that waits for no one

ASSUME NobodyAssumption == Nobody \notin Workers

VARIABLES
    gate,       \* the worker whose operation holds Repo.gate
    worker,     \* where each worker is, and what is in its channel
    ended,      \* whether its context is done, and whether the deadline did it
    caller,     \* what each caller is doing, and for which worker it waits
    said,       \* what netOp last returned to each caller
    closing     \* the callers' own context is done: the process is to stop

gateVars == <<gate, worker, ended, caller, said, closing>>

Idle == [at |-> "idle", of |-> Nobody]
NewContext == [done |-> FALSE, late |-> FALSE]

GateInit ==
    /\ gate = Nobody
    /\ worker = [w \in Workers |-> [at |-> "idle", sent |-> FALSE]]
    /\ ended = [w \in Workers |-> NewContext]
    /\ caller = [c \in Callers |-> Idle] /\ said = [c \in Callers |-> "nothing"]
    /\ closing = FALSE

\* TryLock: an operation is started, or another one has not ended.
IdleWorker(w) == worker[w].at = "idle" /\ \A c \in Callers : caller[c].of # w
Call(c) ==
    /\ caller[c].at = "idle"
    /\ \/ /\ gate # Nobody
          /\ said' = [said EXCEPT ![c] = "busy"]
          /\ UNCHANGED <<gate, worker, ended, caller>>
       \/ \E w \in Workers :
             /\ gate = Nobody /\ IdleWorker(w)
             /\ gate' = w
             /\ worker' = [worker EXCEPT ![w] = [at |-> "running", sent |-> FALSE]]
             /\ ended' = [ended EXCEPT ![w] = [done |-> closing, late |-> FALSE]]
             /\ caller' = [caller EXCEPT ![c] = [at |-> "waiting", of |-> w]]
             /\ said' = [said EXCEPT ![c] = "nothing"]
    /\ UNCHANGED closing

\* fn returns and the deferred Unlock runs, before the answer is sent ...
Bug_SendsFirst(w) ==
    /\ worker[w].at = "running"
    /\ worker' = [worker EXCEPT ![w] = [at |-> "released", sent |-> TRUE]]
    /\ UNCHANGED <<gate, ended, caller, said, closing>>
Release(w) ==
    /\ worker[w].at = "running"
    /\ gate' = Nobody
    /\ worker' = [worker EXCEPT ![w].at = "released"]
    /\ UNCHANGED <<ended, caller, said, closing>>

\* ... the channel has room for it, so this never blocks ...
Bug_CancelsFirst(w) ==
    /\ worker[w].at = "released"
    /\ \/ ~ended[w].done /\ ended' = [ended EXCEPT ![w].done = TRUE] /\ UNCHANGED worker
       \/ ended[w].done /\ worker' = [worker EXCEPT ![w] = [at |-> "sent", sent |-> TRUE]] /\ UNCHANGED ended
    /\ UNCHANGED <<gate, caller, said, closing>>
Sent(w) ==
    /\ worker[w].at = "released"
    /\ worker' = [worker EXCEPT ![w] = [at |-> "sent", sent |-> TRUE]]
    /\ UNCHANGED <<gate, ended, caller, said, closing>>

\* ... and the context ends last.
Cancel(w) ==
    /\ worker[w].at = "sent"
    /\ worker' = [worker EXCEPT ![w].at = "idle"]
    /\ ended' = [ended EXCEPT ![w].done = TRUE]
    /\ UNCHANGED <<gate, caller, said, closing>>

\* The deadline; operations need not heed it.
Deadline(w) ==
    /\ worker[w].at # "idle" /\ ~ended[w].done
    /\ ended' = [ended EXCEPT ![w] = [done |-> TRUE, late |-> TRUE]]
    /\ UNCHANGED <<gate, worker, caller, said, closing>>

ShutDown ==
    /\ ~closing /\ closing' = TRUE
    /\ ended' = [w \in Workers |-> IF worker[w].at = "idle" THEN ended[w] ELSE [ended[w] EXCEPT !.done = TRUE]]
    /\ UNCHANGED <<gate, worker, caller, said>>

Says(c, what) == caller' = [caller EXCEPT ![c] = Idle] /\ said' = [said EXCEPT ![c] = what]

\* The select; when both cases are ready it may take either.
Woken(c) ==
    /\ caller[c].at = "waiting"
    /\ \/ worker[caller[c].of].sent /\ Says(c, "answer")
       \/ ended[caller[c].of].done /\ caller' = [caller EXCEPT ![c].at = "late"] /\ UNCHANGED said
    /\ UNCHANGED <<gate, worker, ended, closing>>

\* The context is done: an answer that waits outranks it.
TakesLast(c) ==
    /\ caller[c].at = "late"
    /\ Says(c, IF worker[caller[c].of].sent THEN "answer" ELSE IF closing THEN "closing" ELSE "timeout")
    /\ UNCHANGED <<gate, worker, ended, closing>>

GateNext ==
    \/ \E c \in Callers : Call(c) \/ Woken(c) \/ TakesLast(c)
    \/ \E w \in Workers : Release(w) \/ Sent(w) \/ Cancel(w) \/ Deadline(w)
    \/ ShutDown

GateSpec == GateInit /\ [][GateNext]_gateVars

-----------------------------------------------------------------------------
GateTypeOK ==
    /\ gate \in Workers \cup {Nobody}
    /\ worker \in [Workers -> [at : {"idle", "running", "released", "sent"}, sent : BOOLEAN]]
    /\ ended \in [Workers -> [done : BOOLEAN, late : BOOLEAN]]
    /\ caller \in [Callers -> [at : {"idle", "waiting", "late"}, of : Workers \cup {Nobody}]]
    /\ said \in [Callers -> {"nothing", "busy", "answer", "timeout", "closing"}]
    /\ closing \in BOOLEAN

\* go-git is not safe for concurrent use of one repository: an operation that runs has
\* the gate, so no two run at once, abandoned ones included, although nobody waits for
\* those.  And one that has ended never makes the next one busy: whoever has its
\* answer, and fetches and then at once publishes, finds the gate open or held by an
\* operation that does run (the first of the three orderings in netOp).
GateMeansRunning == \A w \in Workers : gate = w <=> worker[w].at = "running"

\* A timeout is reported only when the deadline passed, and never in place of an
\* answer that was there to be had: the cancel that ends an operation cannot be taken
\* for its deadline (the second ordering, and the second look at the channel).
TimeoutMeansLate ==
    [][\A c \in Callers : caller[c].of # Nobody /\ said'[c] = "timeout" /\ said[c] # "timeout"
         => ended[caller[c].of].late /\ ~worker[caller[c].of].sent]_gateVars
=============================================================================
