------------------------------- MODULE MCParts -------------------------------
(***************************************************************************)
(* The parts of the system that share nothing but the process they run in, *)
(* checked side by side: a behaviour is one of one part, the others stand  *)
(* still.                                                                  *)
(***************************************************************************)
EXTENDS Backups, Gate, Bus, Driver, Dns, Funds, Limiter, Documents, Routes

VARIABLE part

Parts == {"backups", "gate", "bus", "driver", "dns", "funds", "limiter", "documents", "routes"}
MCDistance == [p \in Provider |-> IF p = 1 THEN 2 ELSE 1]
MCKind == [a \in Addr |-> IF a = "host" THEN "CNAME" ELSE "A"]
Record(n, a, edge) == [name |-> n, type |-> MCKind[a], addr |-> a, proxied |-> edge]
Mail == [name |-> Game, type |-> "MX", addr |-> NoAddr, proxied |-> FALSE]
MCZones == {<<Mail, Record("apex", "ip", TRUE), Record("apex", "host", FALSE), Record(Game, "host", FALSE),
              NoRecord, NoRecord, NoRecord>>}
MCByHand == {Record(n, "host", FALSE) : n \in {"apex", Game}}
Theirs1 == [by |-> "them", port |-> 1]
MCConfigs == [public : {"name", NoUrl}, flag : {NoUrl, "given"}]
MCRules == {<<Theirs1, [by |-> "pzctl", port |-> 8]>>,
            <<[by |-> "pzctl", port |-> 8], [by |-> "v1", port |-> 9], Theirs1>>}

PartsInit ==
    /\ part \in Parts
    /\ BackupsInit /\ GateInit /\ BusInit /\ DriverInit /\ DnsInit /\ FundsInit
    /\ LimiterInit /\ DocumentsInit /\ RoutesInit
    /\ part # "dns" => zone = CHOOSE z \in OldZones : TRUE
    /\ part # "dns" => rules = CHOOSE seq \in OldRules : TRUE
    /\ part # "routes" => config = CHOOSE c \in Configs : TRUE
    /\ part # "routes" => place = CHOOSE p \in Place : TRUE

PartsNext ==
    \/ /\ part = "backups" /\ BackupsNext
       /\ UNCHANGED <<part, gateVars, busVars, driverVars, dnsVars, fundsVars, limiterVars, documentsVars, routesVars>>
    \/ /\ part = "gate" /\ GateNext
       /\ UNCHANGED <<part, backupsVars, busVars, driverVars, dnsVars, fundsVars, limiterVars, documentsVars, routesVars>>
    \/ /\ part = "bus" /\ BusNext
       /\ UNCHANGED <<part, backupsVars, gateVars, driverVars, dnsVars, fundsVars, limiterVars, documentsVars, routesVars>>
    \/ /\ part = "driver" /\ DriverNext
       /\ UNCHANGED <<part, backupsVars, gateVars, busVars, dnsVars, fundsVars, limiterVars, documentsVars, routesVars>>
    \/ /\ part = "dns" /\ DnsNext
       /\ UNCHANGED <<part, backupsVars, gateVars, busVars, driverVars, fundsVars, limiterVars, documentsVars, routesVars>>
    \/ /\ part = "funds" /\ FundsNext
       /\ UNCHANGED <<part, backupsVars, gateVars, busVars, driverVars, dnsVars, limiterVars, documentsVars, routesVars>>
    \/ /\ part = "limiter" /\ LimiterNext
       /\ UNCHANGED <<part, backupsVars, gateVars, busVars, driverVars, dnsVars, fundsVars, documentsVars, routesVars>>
    \/ /\ part = "documents" /\ DocumentsNext
       /\ UNCHANGED <<part, backupsVars, gateVars, busVars, driverVars, dnsVars, fundsVars, limiterVars, routesVars>>
    \/ /\ part = "routes" /\ RoutesNext
       /\ UNCHANGED <<part, backupsVars, gateVars, busVars, driverVars, dnsVars, fundsVars, limiterVars, documentsVars>>

allVars == <<part, backupsVars, gateVars, busVars, driverVars, dnsVars, fundsVars, limiterVars, documentsVars, routesVars>>
PartsSpec == PartsInit /\ [][PartsNext]_allVars

\* Every variable of the part under way has the shape its code gives it; those of the
\* others are as Init left them.
PartsTypeOK ==
    /\ part = "backups" => BackupsTypeOK
    /\ part = "gate" => GateTypeOK
    /\ part = "bus" => BusTypeOK
    /\ part = "driver" => DriverTypeOK
    /\ part = "dns" => DnsTypeOK
    /\ part = "funds" => FundsTypeOK
    /\ part = "limiter" => LimiterTypeOK
    /\ part = "documents" => DocumentsTypeOK
    /\ part = "routes" => RoutesTypeOK
=============================================================================
