------------------------------- MODULE Routes -------------------------------
(***************************************************************************)
(* How the agent finds the controller.  The controller asks the provider   *)
(* where it was put (fsm/self.go, akash/self.go), publishes that address   *)
(* beside its name in the zone (fsm resolveURLs), the agent reads both     *)
(* (agent applyController) and its HTTP client goes through them attempt   *)
(* by attempt (agent/client.go) for the calls of a boot and an upload      *)
(* (agent/boot.go, agent/backup.go).                                       *)
(*                                                                         *)
(* The name goes through a proxy that refuses a large body.  An address    *)
(* the controller has left may be dead or a stranger's.                    *)
(***************************************************************************)
EXTENDS Naturals, FiniteSets, Sequences, SequencesExt

CONSTANTS
    Place,          \* addresses a controller may be given by its provider
    Configs,        \* ControllerPublicURL and --controller-url, each perhaps NoUrl
    NoUrl,
    Retries,        \* agent.restore_download_retries
    Restoring,      \* the controller names an archive to restore
    RouteFaults,    \* what goes wrong, see RouteFaultKinds
    MaxMoves, MaxCalls  \* bounds: moves of the controller, and uploads

RouteFaultKinds == {
    "look",         \* a deployment cannot be read while the controller looks for itself
    "net",          \* no answer, or one that may be another the next time
    "stranger",     \* an address the controller has left answers, with a refusal of its own
    "missing",      \* the controller has no such file: 404
    "budget"}       \* the time of a call is up

ASSUME RoutesAssumption == /\ NoUrl \notin Place /\ Retries \in Nat \ {0}
                           /\ \A c \in Configs : DOMAIN c = {"public", "flag"} /\ c.public \notin Place
ASSUME RoutesBoundsAssumption == MaxMoves \in Nat /\ MaxCalls \in Nat /\ RouteFaults \subseteq RouteFaultKinds

VARIABLES
    config,     \* what this installation has of the two
    place,      \* where the controller answers
    others,     \* where other controllers of this wallet do
    self,       \* Machine.selfURL
    urls,       \* Controller.URLs, as published
    base,       \* Agent.controllerURL
    direct,     \* Agent.directURL
    routes,     \* Client.bases; none before the client is built
    stage,       \* how far the agent's boot is
    call,       \* the call under way: its attempts, and the routes it took
    moves, uploads

routesVars == <<config, place, others, self, urls, base, direct, routes, stage, call, moves, uploads>>

Url == Place \cup {config.public, config.flag, NoUrl}
NoCall == [on |-> FALSE, attempts |-> 0, tried |-> {}, why |-> "none"]
BootCalls == <<"health", "common", "server", "archive">>
BootStages == {"off", "ready", "failed", "restore_failed"} \cup Range(BootCalls)

-----------------------------------------------------------------------------
(* The controller's side.                                                  *)

\* resolveURLs: without a name the address takes its place.
Raw(own) == IF config.flag # NoUrl THEN config.flag ELSE own
WantedUrls(own) == IF config.public = NoUrl THEN [public |-> Raw(own), raw |-> NoUrl] ELSE [public |-> config.public, raw |-> Raw(own)]
BaseOf(u) == IF u.public # NoUrl THEN u.public ELSE u.raw
DirectOf(u) == IF u.raw # NoUrl THEN u.raw ELSE u.public
\* controllerURL: what a deployed server is told.
ControllerURL == IF BaseOf(urls) # NoUrl THEN BaseOf(urls) ELSE config.flag

\* A new process, perhaps elsewhere, knows its address no more.
ControllerStarts(p) ==
    /\ moves < MaxMoves /\ moves' = moves + 1 /\ p \notin others
    /\ place' = p /\ self' = NoUrl /\ urls' = WantedUrls(NoUrl)
    /\ UNCHANGED <<config, others, base, direct, routes, stage, call, uploads>>

\* SelfURL: of one controller it is the address, of several nobody knows.  Those that
\* cannot be read are passed over.
Answer(found) == IF Cardinality(found) = 1 THEN found ELSE {NoUrl}
LookForSelf ==
    /\ self = NoUrl /\ config.flag = NoUrl
    /\ \E found \in IF "look" \in RouteFaults THEN SUBSET (others \cup {place}) ELSE {others \cup {place}} :
         self' \in Answer(found) \ {NoUrl}
    /\ urls' = WantedUrls(self')
    /\ UNCHANGED <<config, place, others, base, direct, routes, stage, call, moves, uploads>>

OtherController(p) ==
    /\ p # place
    /\ others' = IF p \in others THEN others \ {p} ELSE others \cup {p}
    /\ UNCHANGED <<config, place, self, urls, base, direct, routes, stage, call, moves, uploads>>

-----------------------------------------------------------------------------
(* The agent's client.                                                     *)

\* applyController: each is learned once.
ReadsUrls ==
    /\ stage # "off"
    /\ base' = IF base = NoUrl THEN BaseOf(urls) ELSE base
    /\ direct' = IF direct = NoUrl THEN DirectOf(urls) ELSE direct
    /\ <<base, direct>>' # <<base, direct>>
    /\ UNCHANGED <<config, place, others, self, urls, routes, stage, call, moves, uploads>>

\* NewClient: the direct route first, and what is empty or repeated dropped.
RoutesOf(first, second) ==
    (IF first = NoUrl THEN <<>> ELSE <<first>>)
      \o (IF second \in {NoUrl, first} THEN <<>> ELSE <<second>>)

\* A container starts with the address its deploy was given, and reads the document
\* before it boots (resume).
AgentStarts ==
    /\ base' = IF ControllerURL # NoUrl THEN ControllerURL ELSE BaseOf(urls)
    /\ direct' = DirectOf(urls) /\ routes' = <<>>
    /\ stage' = "health" /\ call' = NoCall /\ uploads' = 0
    /\ UNCHANGED <<config, place, others, self, urls, moves>>

\* What a route may answer.  The zone's name always leads to the controller.
MayAnswer(url, what) ==
    LET ours == url \in {place, config.public, config.flag}
    IN  (IF "net" \in RouteFaults \/ ~ours THEN {"again"} ELSE {})
          \cup (IF ~ours /\ "stranger" \in RouteFaults THEN {"refused", "missing"} ELSE {})
          \cup (IF url = config.public /\ what = "upload" THEN {"too_large"}
                ELSE IF ours THEN {"done"} \cup (IF what \in {"common", "server", "archive"} /\ "missing" \in RouteFaults
                                                THEN {"missing"} ELSE {})
                ELSE {})

What == IF stage = "ready" THEN "upload" ELSE stage

BeginCall ==
    /\ ~call.on /\ stage \in Range(BootCalls) \cup {"ready"}
    /\ stage = "ready" => uploads < MaxCalls
    /\ routes' = IF routes = <<>> THEN RoutesOf(direct, base) ELSE routes
    /\ IF routes' = <<>> THEN stage' = "failed" /\ call' = [NoCall EXCEPT !.why = "no route"]
       ELSE UNCHANGED stage /\ call' = [NoCall EXCEPT !.on = TRUE]
    /\ uploads' = uploads + (IF stage = "ready" THEN 1 ELSE 0)
    /\ UNCHANGED <<config, place, others, self, urls, base, direct, moves>>

Bug_PreferredEachTime(attempts) == routes[1]
RouteOf(attempts) == routes[(attempts % Len(routes)) + 1]

\* 413 is the proxy's refusal of a size, worth another route; any other refusal ends
\* the call.
EndsCall(answer) ==
    \/ answer \in {"refused", "missing"}
    \/ answer = "too_large" /\ Len(routes) = 1

Later(what) ==
    CASE what = "health" -> "common" [] what = "common" -> "server"
      [] what = "server" -> IF Restoring THEN "archive" ELSE "ready"
      [] OTHER -> "ready"
\* boot, fetchServerFiles, restore: what a failed call means to its caller.  Only
\* common.zip may be absent; an upload that fails leaves the server as it is.
Given(what, answer) ==
    CASE what = "common" /\ answer = "missing" -> "server"
      [] what = "archive" -> "restore_failed"
      [] what = "upload" -> "ready"
      [] OTHER -> "failed"

Tries == [call EXCEPT !.attempts = @ + 1, !.tried = @ \cup {RouteOf(call.attempts)}]
Try(answer) ==
    /\ call.on /\ answer \in MayAnswer(RouteOf(call.attempts), What)
    /\ IF answer = "done"
       THEN stage' = Later(What) /\ call' = [Tries EXCEPT !.on = FALSE, !.why = "done"]
       ELSE IF EndsCall(answer) \/ Tries.attempts = Retries
       THEN stage' = Given(What, answer) /\ call' = [Tries EXCEPT !.on = FALSE, !.why = answer]
       ELSE UNCHANGED stage /\ call' = Tries
    /\ UNCHANGED <<config, place, others, self, urls, base, direct, routes, moves, uploads>>
TimeIsUp ==
    /\ call.on /\ "budget" \in RouteFaults
    /\ stage' = Given(What, "again") /\ call' = [call EXCEPT !.on = FALSE, !.why = "budget"]
    /\ UNCHANGED <<config, place, others, self, urls, base, direct, routes, moves, uploads>>

-----------------------------------------------------------------------------
RoutesInit ==
    /\ config \in Configs /\ place \in Place /\ others = {} /\ self = NoUrl /\ urls = WantedUrls(NoUrl)
    /\ base = NoUrl /\ direct = NoUrl /\ routes = <<>> /\ stage = "off" /\ call = NoCall
    /\ moves = 0 /\ uploads = 0
RoutesNext ==
    \/ LookForSelf \/ ReadsUrls \/ AgentStarts \/ BeginCall \/ TimeIsUp
    \/ \E p \in Place : ControllerStarts(p) \/ OtherController(p)
    \/ \E a \in {"done", "again", "refused", "missing", "too_large"} : Try(a)
RoutesSpec == RoutesInit /\ [][RoutesNext]_routesVars

-----------------------------------------------------------------------------
RoutesTypeOK ==
    /\ config \in Configs /\ place \in Place /\ others \subseteq Place \ {place} /\ {self, base, direct} \subseteq Url
    /\ urls \in [public : Url, raw : Url]
    /\ Len(routes) \in 0..2 /\ Range(routes) \subseteq Url \ {NoUrl}
    /\ stage \in BootStages /\ call.attempts \in 0..Retries /\ call.tried \subseteq Range(routes)
    /\ moves \in 0..MaxMoves /\ uploads \in 0..MaxCalls

\* No single address decides: a call that found no answer has gone to every route the
\* agent knows, as far as its attempts reach, and a size is refused for good only
\* where there is no route around the proxy (retry; the rotation of Client).
EveryRouteTried ==
    call.why \in {"again", "too_large"} =>
        \/ call.tried = Range(routes)
        \/ Cardinality(call.tried) = Retries
=============================================================================
