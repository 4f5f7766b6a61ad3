----------------------------- MODULE Lifecycle -----------------------------
(***************************************************************************)
(* The vocabulary of pzctl's state documents and the pure operations on    *)
(* the controller's one (internal/state).  A document is a record; every   *)
(* mutator of the Go type is an operator from a document to a document.    *)
(*                                                                         *)
(* Only the fields some decision reads are kept: the status, the intent,   *)
(* the recorded lease, the outstanding backup request and whether a stop   *)
(* is scheduled.  Stamps are left to the clock of the module that uses the *)
(* document; prices, endpoints, URLs and error texts steer nothing.        *)
(***************************************************************************)
CONSTANTS
    DSeq,       \* the deployments the provider may ever create
    ReqID,      \* the identities backup requests are given
    NoDSeq,     \* "no lease recorded"
    NoReq       \* "no backup request outstanding"

ASSUME NoDSeqAssumption == NoDSeq \notin DSeq
ASSUME NoReqAssumption  == NoReq \notin ReqID

Statuses == {"offline", "deploying", "booting", "online",
             "backing_up", "stopping", "closing", "failed"}

\* A multi-step operation is in flight.
Busy == {"deploying", "booting", "backing_up", "stopping", "closing"}

\* A lease may exist, so money may be draining.
BillingStatuses == {"booting", "online", "backing_up", "stopping", "closing", "failed"}

\* The complete set of legal status changes.
Transitions ==
    ({"offline"}    \X {"deploying", "failed"})
      \cup ({"deploying"}  \X {"booting", "offline", "closing", "failed"})
      \cup ({"booting"}    \X {"online", "stopping", "closing", "failed"})
      \cup ({"online"}     \X {"backing_up", "stopping", "closing", "failed"})
      \cup ({"backing_up"} \X {"online", "stopping", "closing", "failed"})
      \cup ({"stopping"}   \X {"closing", "offline", "failed"})
      \cup ({"closing"}    \X {"offline", "failed"})
      \cup ({"failed"}     \X {"offline"})

CanTransition(from, to) == from = to \/ <<from, to>> \in Transitions

Intents == {"running", "stopped"}

Phases == {"starting", "restoring", "restore_failed", "online",
           "saving", "stopping", "stopped", "crashed"}

\* The agent has stopped working and merely holds its container open.
Parked(phase) == phase \in {"stopped", "crashed", "restore_failed"}

-----------------------------------------------------------------------------
Docs == [status  : Statuses,
         intent  : Intents,
         lease   : DSeq \cup {NoDSeq},
         request : ReqID \cup {NoReq},
         stop    : BOOLEAN]

NewDoc == [status |-> "offline", intent |-> "stopped", lease |-> NoDSeq,
           request |-> NoReq, stop |-> FALSE]

\* An illegal change is refused and the document is left as it was.
SetStatus(d, to) ==
    [d EXCEPT !.status = IF CanTransition(@, to) THEN to ELSE @]

Bug_FailForgetsLease(d) == [d EXCEPT !.status = "failed", !.lease = NoDSeq]

\* Recording a failure is legal from everywhere.
Fail(d) == [d EXCEPT !.status = "failed"]

\* An outstanding request is never overwritten, and one without an identity is
\* never made.
RequestBackup(d, id) ==
    [d EXCEPT !.request = IF @ = NoReq THEN id ELSE @]

ClearBackupRequest(d) == [d EXCEPT !.request = NoReq]
=============================================================================
