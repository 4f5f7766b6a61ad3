--------------------------------- MODULE Dns ---------------------------------
(***************************************************************************)
(* The Cloudflare zone (dns) and who writes to it: the controller, which   *)
(* points the game record at every server it deploys and takes it down     *)
(* after every close (cmd/pzctl/driver.go), and an operator at a command   *)
(* line, who points the apex at the controller (cmd/pzctl/dns.go).         *)
(*                                                                         *)
(* Every change is a read and then writes decided from it, one request at  *)
(* a time; a request can fail, or do its work and fail all the same.  The  *)
(* zone is shared with people: their records and rules are none of ours.   *)
(***************************************************************************)
EXTENDS Naturals, Sequences, FiniteSets, Filter

CONSTANTS
    Host,           \* zone.ControllerHosts: the apex and perhaps www
    Game,           \* zone.GameHost
    Addr, NoAddr,   \* addresses, and none
    Kind,           \* recordType of each: "A", "AAAA" or "CNAME"
    Port, Plain,    \* origin ports, and those that need no rule: 80 and 443
    Proxied,        \* dns.proxied
    ClearRedirects, \* dns.clear_redirect_rules
    Slot,           \* record ids, never used twice; also a bound on their number
    OldZones,       \* the zone as it may be found
    OldRules,       \* the origin rules as they may be found, or be set by hand
    ByHand,         \* records that may be added by hand
    DnsFaults,      \* what goes wrong, see DnsFaultKinds
    MaxTasks,       \* bound: syncs and clears
    MaxEdits        \* bound: changes by hand

DnsFaultKinds == {"net", "ack", "crash"}    \* no effect, no answer, the controller dies

Address == {"A", "AAAA", "CNAME"}
Sites == Host \cup {Game}
StageNames == {"redirects", "settings", "origin", "clear"}
ASSUME ZoneAssumption == /\ IsFiniteSet(Host) /\ Host # {} /\ Game \notin Host /\ Sites \cap StageNames = {}
                         /\ NoAddr \notin Addr /\ Kind \in [Addr -> Address] /\ 0 \notin Port /\ Plain \subseteq Port
                         /\ Proxied \in BOOLEAN /\ ClearRedirects \in BOOLEAN
ASSUME DnsBoundsAssumption == /\ Slot = 1..Cardinality(Slot) /\ \A z \in OldZones : DOMAIN z = Slot
                              /\ \A seq \in OldRules : seq \in Seq({seq[i] : i \in DOMAIN seq})
                              /\ MaxTasks \in Nat /\ MaxEdits \in Nat /\ DnsFaults \subseteq DnsFaultKinds

VARIABLES
    zone,       \* the records, by id
    rules,      \* the origin rules, in the order they are tried
    redirects,  \* whether there are redirect rules
    setting,    \* whether the zone settings are what dns: says
    client,     \* what the controller and the operator are doing to the zone
    server,     \* the address of the server that is up
    sure,       \* history: the controller's last task ended well, and nobody has
                \* touched the game record or lost the server since
    tasks, edits

dnsVars == <<zone, rules, redirects, setting, client, server, sure, tasks, edits>>

Clients == {"controller", "operator"}
NoRecord == [name |-> NoAddr, type |-> "none", addr |-> NoAddr, proxied |-> FALSE]
Gone == [NoRecord EXCEPT !.type = "gone"]   \* what is left of a record's id
\* A record of one of our names: an address is of its own type.
Fits(r) == /\ r.name \in Sites /\ r.addr \in Addr \cup {NoAddr}
           /\ r.type \in Address => r.addr \in Addr /\ r.type = Kind[r.addr]
ASSUME RecordsAssumption == /\ \A z \in OldZones : \A i \in Slot : z[i] = NoRecord \/ Fits(z[i])
                            /\ \A r \in ByHand : Fits(r)
At(z, n) == {i \in Slot : z[i].name = n /\ z[i].type \in Address}
Unused == {i \in Slot : zone[i] = NoRecord}
NewId == CHOOSE i \in Unused : TRUE
NoTask == [todo |-> <<>>, pc |-> "idle", addr |-> NoAddr, port |-> 0, keep |-> 0, doomed |-> {},
           read |-> <<>>, ok |-> TRUE, alone |-> TRUE]
Task(todo, a, p) == [NoTask EXCEPT !.todo = todo, !.pc = "read", !.addr = a, !.port = p]
InTask(c) == client[c].pc # "idle"
On(c, stage) == InTask(c) /\ Head(client[c].todo) = stage

DnsInit ==
    /\ zone \in OldZones
    /\ rules \in OldRules /\ redirects = TRUE /\ setting = FALSE
    /\ client = [c \in Clients |-> NoTask] /\ server = NoAddr /\ sure = FALSE
    /\ tasks = 0 /\ edits = 0

-----------------------------------------------------------------------------
(* A stage ends, well or not, and the next one is begun all the same; the  *)
(* errors are returned together.                                           *)

Onward(t, ok) ==
    [t EXCEPT !.todo = Tail(@), !.pc = IF Len(t.todo) = 1 THEN "idle" ELSE "read",
              !.ok = @ /\ ok, !.keep = 0, !.doomed = {}, !.read = <<>>]
\* What the others are doing was decided before this change.
Disturbs(c) == [d \in Clients |-> IF d = c THEN client[d] ELSE [client[d] EXCEPT !.alone = FALSE]]
Goes(c, t) == client' = [client EXCEPT ![c] = t]
Writes(c, t) == client' = [Disturbs(c) EXCEPT ![c] = t]

\* Whether the controller's task has just ended well; a write of the operator's to
\* the game record leaves nothing sure.
Sure(c, stage, t) ==
    sure' = IF c = "controller" THEN t.pc = "idle" /\ t.ok /\ t.alone
            ELSE sure /\ stage # Game

\* One request: it is answered, fails without effect, or fails with it.
Request(c, done, failed, stage, effect, none) ==
    \/ effect /\ Writes(c, done) /\ Sure(c, stage, done)
    \/ "ack" \in DnsFaults /\ effect /\ Writes(c, failed) /\ Sure(c, stage, failed)
    \/ "net" \in DnsFaults /\ none /\ Goes(c, failed) /\ Sure(c, stage, failed)

-----------------------------------------------------------------------------
(* Records: list, then upsert or deleteByName.                             *)

Wanted(t, n) == [name |-> n, type |-> Kind[t.addr], addr |-> t.addr, proxied |-> n # Game /\ Proxied]

\* The record to keep is one of the right type if there is one.
Keepable(found, z, want) ==
    LET right == {i \in found : z[i].type = want.type} IN IF right # {} THEN right ELSE found

ListRecords(c, n) ==
    /\ On(c, n) /\ client[c].pc = "read"
    /\ LET t == client[c]  found == At(zone, n) IN
       \/ found = {} /\ Goes(c, [t EXCEPT !.pc = "write"])
       \/ \E i \in Keepable(found, zone, Wanted(t, n)) :
             Goes(c, [t EXCEPT !.pc = IF zone[i] = Wanted(t, n) THEN "prune" ELSE "write",
                               !.keep = i, !.doomed = found \ {i}])
       \/ "net" \in DnsFaults /\ Goes(c, Onward(t, FALSE))
    /\ UNCHANGED <<zone, rules, redirects, setting, server, sure, tasks, edits>>

\* POST, or PUT to the record that is kept if it is still there.
WriteRecord(c, n) ==
    /\ On(c, n) /\ client[c].pc = "write"
    /\ LET t == client[c]  want == Wanted(t, n)
           exists == \E i \in At(zone, n) : zone[i] = want
       IN  IF t.keep = 0
           THEN \/ exists /\ Goes(c, Onward(t, FALSE)) /\ UNCHANGED zone /\ Sure(c, n, Onward(t, FALSE))
                \/ ~exists /\ Unused # {}
                   /\ Request(c, [t EXCEPT !.pc = "prune"], Onward(t, FALSE), n,
                              zone' = [zone EXCEPT ![NewId] = want], UNCHANGED zone)
           ELSE \/ zone[t.keep] = Gone /\ Goes(c, Onward(t, FALSE)) /\ UNCHANGED zone /\ Sure(c, n, Onward(t, FALSE))
                \/ zone[t.keep] # Gone
                   /\ Request(c, [t EXCEPT !.pc = "prune"], Onward(t, FALSE), n,
                              zone' = [zone EXCEPT ![t.keep] = want], UNCHANGED zone)
    /\ UNCHANGED <<rules, redirects, setting, server, tasks, edits>>

\* The others go one by one, after the one that is kept is right; one that is gone
\* already is no failure.
DeleteRecord(c, n) ==
    /\ On(c, n) /\ client[c].pc = "prune"
    /\ LET t == client[c] IN
       \/ t.doomed = {} /\ Goes(c, Onward(t, TRUE)) /\ UNCHANGED zone /\ Sure(c, n, Onward(t, TRUE))
       \/ \E i \in t.doomed :
             Request(c, [t EXCEPT !.doomed = @ \ {i}], Onward(t, FALSE), n,
                     zone' = [zone EXCEPT ![i] = Gone], UNCHANGED zone)
    /\ UNCHANGED <<rules, redirects, setting, server, tasks, edits>>

\* ClearGame.
ListDoomed(c) ==
    /\ On(c, "clear") /\ client[c].pc = "read"
    /\ LET t == client[c] IN
       \/ Goes(c, [t EXCEPT !.todo = <<Game>>, !.pc = "prune", !.doomed = At(zone, Game)]) /\ UNCHANGED sure
       \/ "net" \in DnsFaults /\ Goes(c, Onward(t, FALSE)) /\ Sure(c, Game, Onward(t, FALSE))
    /\ UNCHANGED <<zone, rules, redirects, setting, server, tasks, edits>>

-----------------------------------------------------------------------------
(* Zone settings and rulesets.                                             *)

\* setSetting: a value that cannot be read is written anyway.
ReadSetting(c) ==
    /\ On(c, "settings") /\ client[c].pc = "read"
    /\ \/ setting /\ Goes(c, Onward(client[c], TRUE))
       \/ (~setting \/ "net" \in DnsFaults) /\ Goes(c, [client[c] EXCEPT !.pc = "write"])
    /\ UNCHANGED <<zone, rules, redirects, setting, server, sure, tasks, edits>>
PatchSetting(c) ==
    /\ On(c, "settings") /\ client[c].pc = "write"
    /\ Request(c, Onward(client[c], TRUE), Onward(client[c], FALSE), "settings", setting' = TRUE, UNCHANGED setting)
    /\ UNCHANGED <<zone, rules, redirects, server, tasks, edits>>

\* clearAllRules.
ClearRules(c) ==
    /\ On(c, "redirects")
    /\ \/ ~redirects /\ Goes(c, Onward(client[c], TRUE)) /\ UNCHANGED <<redirects, sure>>
       \/ redirects /\ Request(c, Onward(client[c], TRUE), Onward(client[c], FALSE), "redirects",
                               redirects' = FALSE, UNCHANGED redirects)
    /\ UNCHANGED <<zone, rules, setting, server, tasks, edits>>

ours(rule) == rule.by \in {"pzctl", "v1"}
Theirs(seq) == Kept(seq, {i \in DOMAIN seq : ~ours(seq[i])})
Mine(seq) == Kept(seq, {i \in DOMAIN seq : ours(seq[i])})
Route(p) == [by |-> "pzctl", port |-> p]

\* setOriginPort and dropOriginRule: what the rules are to be, and whether they are.
Bug_ReplacesAll(seq, p) == IF p \in Plain THEN <<>> ELSE <<Route(p)>>
Merged(seq, p) == IF p \in Plain THEN Theirs(seq) ELSE <<Route(p)>> \o Theirs(seq)
Bug_LooksAtTheFirst(seq, p) ==
    IF p \in Plain THEN Mine(seq) = <<>> ELSE seq # <<>> /\ seq[1] = Route(p)
AsWanted(seq, p) ==
    IF p \in Plain THEN Mine(seq) = <<>> ELSE Len(Mine(seq)) = 1 /\ seq[1] = Route(p)

ReadRules(c) ==
    /\ On(c, "origin") /\ client[c].pc = "read"
    /\ LET t == client[c] IN
       \/ AsWanted(rules, t.port) /\ Goes(c, Onward(t, TRUE))
       \/ ~AsWanted(rules, t.port) /\ Goes(c, [t EXCEPT !.pc = "write", !.read = rules])
       \/ "net" \in DnsFaults /\ Goes(c, Onward(t, FALSE))
    /\ UNCHANGED <<zone, rules, redirects, setting, server, sure, tasks, edits>>
PutRules(c) ==
    /\ On(c, "origin") /\ client[c].pc = "write"
    /\ LET t == client[c] IN
       Request(c, Onward(t, TRUE), Onward(t, FALSE), "origin", rules' = Merged(t.read, t.port), UNCHANGED rules)
    /\ UNCHANGED <<zone, redirects, setting, server, tasks, edits>>

-----------------------------------------------------------------------------
(* What the operator asks for.                                             *)

HostSeqs == {s \in [1..Cardinality(Host) -> Host] : \A i, j \in DOMAIN s : s[i] = s[j] => i = j}
Stages(hosts) ==
    (IF ClearRedirects THEN <<"redirects">> ELSE <<>>) \o (IF Proxied THEN <<"settings">> ELSE <<>>)
        \o hosts \o (IF Proxied THEN <<"origin">> ELSE <<>>)

OperatorAsks(t) ==
    /\ ~InTask("operator") /\ tasks < MaxTasks /\ tasks' = tasks + 1
    /\ client' = [client EXCEPT !["operator"] = t]
    /\ UNCHANGED <<zone, rules, redirects, setting, server, sure, edits>>
SyncController(a, p) == OperatorAsks(Task(Stages(CHOOSE s \in HostSeqs : TRUE), a, p))
SyncGame(a) == OperatorAsks(Task(<<Game>>, a, 0))
ClearGame == OperatorAsks(Task(<<"clear">>, NoAddr, 0))

-----------------------------------------------------------------------------
(* What the controller's driver does around a deploy and a close.          *)

Deployed(a) ==
    /\ server = NoAddr /\ ~InTask("controller") /\ tasks < MaxTasks
    /\ server' = a /\ client' = [client EXCEPT !["controller"] = Task(<<Game>>, a, 0)]
    /\ sure' = FALSE /\ tasks' = tasks + 1
    /\ UNCHANGED <<zone, rules, redirects, setting, edits>>
\* The record is taken down after the close, and only if it succeeded.
Bug_ClearsFirst ==
    /\ server # NoAddr /\ ~InTask("controller") /\ tasks < MaxTasks
    /\ server' \in {NoAddr, server} /\ client' = [client EXCEPT !["controller"] = Task(<<"clear">>, NoAddr, 0)]
    /\ sure' = FALSE /\ tasks' = tasks + 1
    /\ UNCHANGED <<zone, rules, redirects, setting, edits>>
Closes ==
    /\ server # NoAddr /\ ~InTask("controller") /\ tasks < MaxTasks
    /\ server' = NoAddr /\ client' = [client EXCEPT !["controller"] = Task(<<"clear">>, NoAddr, 0)]
    /\ sure' = FALSE /\ tasks' = tasks + 1
    /\ UNCHANGED <<zone, rules, redirects, setting, edits>>

\* The provider drops it; nobody looks at the zone.
ServerLost ==
    /\ server # NoAddr /\ server' = NoAddr /\ sure' = FALSE
    /\ client' = [client EXCEPT !["controller"].alone = ~InTask("controller")]
    /\ UNCHANGED <<zone, rules, redirects, setting, tasks, edits>>
ControllerDies ==
    /\ "crash" \in DnsFaults /\ InTask("controller")
    /\ client' = [client EXCEPT !["controller"] = NoTask] /\ sure' = FALSE
    /\ UNCHANGED <<zone, rules, redirects, setting, server, tasks, edits>>

\* Somebody at Cloudflare's own pages: another address for a name, a rule.
EditRecord(r) ==
    /\ edits < MaxEdits /\ edits' = edits + 1 /\ Unused # {} /\ \A i \in Slot : zone[i] # r
    /\ zone' = [zone EXCEPT ![NewId] = r]
    /\ sure' = (sure /\ r.name # Game) /\ client' = Disturbs("nobody")
    /\ UNCHANGED <<rules, redirects, setting, server, tasks>>
EditRules(seq) ==
    /\ edits < MaxEdits /\ edits' = edits + 1 /\ rules # seq
    /\ rules' = seq /\ client' = Disturbs("nobody")
    /\ UNCHANGED <<zone, redirects, setting, server, sure, tasks>>

RecordStep(c) == \E n \in Sites : ListRecords(c, n) \/ WriteRecord(c, n) \/ DeleteRecord(c, n)
DnsNext ==
    \/ \E c \in Clients : RecordStep(c) \/ ListDoomed(c)
    \/ \E c \in Clients : ReadSetting(c) \/ PatchSetting(c) \/ ClearRules(c) \/ ReadRules(c) \/ PutRules(c)
    \/ \E a \in Addr, p \in Port : SyncController(a, p)
    \/ \E a \in Addr : SyncGame(a) \/ Deployed(a)
    \/ ClearGame \/ Closes \/ ServerLost \/ ControllerDies
    \/ \E r \in ByHand : EditRecord(r)
    \/ \E seq \in OldRules : EditRules(seq)

DnsSpec == DnsInit /\ [][DnsNext]_dnsVars

-----------------------------------------------------------------------------
DnsTypeOK ==
    /\ \A i \in Slot : zone[i] \in {NoRecord, Gone} \/ Fits(zone[i])
    /\ redirects \in BOOLEAN /\ setting \in BOOLEAN /\ sure \in BOOLEAN
    /\ \A c \in Clients : client[c].pc \in {"idle", "read", "write", "prune"}
                          /\ client[c].keep \in Slot \cup {0} /\ client[c].doomed \subseteq Slot
                          /\ (client[c].pc = "idle" <=> client[c].todo = <<>>)
    /\ server \in Addr \cup {NoAddr} /\ tasks \in 0..MaxTasks /\ edits \in 0..MaxEdits

\* A sync that reports success has brought the zone to what it was asked for,
\* whatever a former one that failed half-way, version 1 or a former provider left in
\* it: each name has one address, the target's, and one rule of ours, the first,
\* names its port (SyncController).
Points(z, n, t) == \E i \in Slot : At(z, n) = {i} /\ z[i] = Wanted(t, n)
EndsRight ==
    LET t == client["operator"]  d == client'["operator"] IN
    InTask("operator") /\ t.addr # NoAddr /\ d.pc = "idle" /\ d.ok /\ t.alone =>
      IF t.port = 0 THEN Points(zone', Game, t)
      ELSE /\ \A n \in Host : Points(zone', n, t)
           /\ Proxied => /\ setting'
                         /\ Mine(rules') = (IF t.port \in Plain THEN <<>> ELSE <<Route(t.port)>>)
                         /\ t.port \in Plain \/ rules'[1] = Route(t.port)
SuccessMeansRight == [][EndsRight]_dnsVars

\* A write disturbs nothing it should not.  A name is never left without an address
\* on the way to a new one, whichever request fails, unless two change it at once
\* (upsert).  And what others wrote stays: their records at our own names, and their
\* rules in their order, if they were there when the write was decided (zone.go's
\* "rules we did not write are preserved").
NameNotEmptied ==
    \A n \in Sites : At(zone, n) # {} /\ At(zone', n) = {} =>
        \E c \in Clients : On(c, n) /\ (client[c].addr = NoAddr \/ ~client[c].alone)
RecordsKept == \A i \in Slot : zone[i] # NoRecord /\ zone[i].type \notin Address => zone'[i] = zone[i]
RulesKept ==
    edits' = edits =>
        \A c \in Clients : On(c, "origin") /\ rules' # rules => Theirs(rules') = Theirs(client[c].read)
OthersUntouched == [][(zone' # zone => NameNotEmptied /\ RecordsKept) /\ RulesKept]_dnsVars

\* The game's name and the server agree once the controller's task has ended well:
\* it is the running server's address and no other, and without a server the name
\* resolves to nothing - it is never taken down while a close may yet fail (Close).
NameFollowsServer ==
    sure /\ ~InTask("controller") =>
        IF server = NoAddr THEN At(zone, Game) = {}
        ELSE Points(zone, Game, [addr |-> server])
=============================================================================
