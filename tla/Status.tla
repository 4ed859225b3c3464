-------------------------------- MODULE Status --------------------------------
(***************************************************************************)
(* What Admin makes of its observations of the services: the state of each *)
(* one, the incidents, the overall state, and the actions it offers        *)
(* (admin/main.go, incidents.go, actions.go).  All of it is a function of  *)
(* one page: the registry entry of each service together with what         *)
(* launchctl and the three probes said about it.                           *)
(***************************************************************************)
EXTENDS Registry

\* launchctl's word for a job; "none" when no plist of the service is
\* installed, empty when what launchctl prints of the job has no state in it,
\* "other" for all states but the three the code looks for.
LaunchdStates == {"none", "not loaded", "not running", "running", "other", Empty}

\* The outcome of a port, route or HTTP probe; "none" when it was not made.
Checks == {"none", "ok", "failed"}

ServiceStatus ==
    [desired : Service, launchd : LaunchdStates,
     port : Checks, route : Checks, http : Checks]

Pages == [Names -> ServiceStatus \cup {Absent}]

Listed(page) == {n \in Names : page[n] # Absent}

\* The page of registry r on launchd states l and probes c: a disabled service
\* is listed with its launchd state, and never probed.
Page(r, l, c) ==
    [n \in Names |->
        IF n \in Registered(r)
        THEN [desired |-> r[n], launchd |-> l[n],
              port |-> c[n].port, route |-> c[n].route, http |-> c[n].http]
        ELSE Absent]

\* The probes of one service that can be made at all, with any outcome.
\* `probed' says that its health has an http_url.
ChecksOf(svc, probed) ==
    LET outcomes(made) == IF made /\ IsEnabled(svc) THEN {"ok", "failed"} ELSE {"none"}
    IN  [port  : outcomes(svc.upstream # Empty),
         route : outcomes(RoutableHost(svc) # NoHost),
         http  : outcomes(probed)]

-----------------------------------------------------------------------------
(* The state of a service *)

Probes(s) == {s.port, s.route, s.http}

\* A job in the state it should be in; one that is not installed counts as no
\* check at all.
LaunchdOK(s) ==
    \/ s.launchd \in {"none", "running"}
    \/ s.launchd = "not running" /\ s.desired.kind = "scheduled"

deriveOverall(s) ==
    IF s.launchd = "not loaded" \/ "failed" \in Probes(s) THEN "down"
    ELSE IF s.launchd = "none" /\ Probes(s) = {"none"} THEN "unknown"
    ELSE IF LaunchdOK(s) THEN "ok"
    ELSE "warn"

OverallState(s) == IF IsEnabled(s.desired) THEN deriveOverall(s) ELSE "disabled"

\* The buckets of the counts, as the sets of the services counted in them.
Bucket == [ok |-> "healthy", warn |-> "degraded", down |-> "down",
           unknown |-> "unknown", disabled |-> "disabled"]

countServiceStates(page) ==
    [b \in {Bucket[o] : o \in DOMAIN Bucket} |->
        {n \in Listed(page) : Bucket[OverallState(page[n])] = b}]

-----------------------------------------------------------------------------
(* Incidents *)

isOptionalService(n, svc) ==
    \/ svc.type = "task"
    \/ svc.kind \in {"scheduled", "testing"}
    \/ n = "dev-gateway"

\* Wrong on purpose: a job that is loaded is taken for one that runs.
TroubleUnlessLoaded(s) ==
    IF ~IsEnabled(s.desired)
    THEN IF s.launchd = "running" THEN "disabled-loaded" ELSE "none"
    ELSE IF s.launchd = "not loaded" THEN "launchd"
    ELSE IF s.port = "failed"  THEN "port"
    ELSE IF s.route = "failed" THEN "route"
    ELSE IF s.http = "failed"  THEN "http"
    ELSE "none"

\* The one thing an incident is raised about, the first that is wrong.  A job
\* without a state raises none.
Trouble(s) ==
    IF ~IsEnabled(s.desired)
    THEN IF s.launchd = "running" THEN "disabled-loaded" ELSE "none"
    ELSE IF s.launchd \notin {"none", "running", Empty} THEN "launchd"
    ELSE IF s.port = "failed"  THEN "port"
    ELSE IF s.route = "failed" THEN "route"
    ELSE IF s.http = "failed"  THEN "http"
    ELSE "none"

Severity(n, s) ==
    IF Trouble(s) = "disabled-loaded" \/ isOptionalService(n, s.desired) THEN "info"
    ELSE IF Trouble(s) \in {"launchd", "port"} THEN "critical"
    ELSE "warning"

deriveIncidents(page) ==
    { [service |-> n, trouble |-> Trouble(page[n]), severity |-> Severity(n, page[n])] :
        n \in {m \in Listed(page) : Trouble(page[m]) # "none"} }

overallStateFromIncidents(incidents) ==
    IF \E i \in incidents : i.severity = "critical" THEN "down"
    ELSE IF \E i \in incidents : i.severity = "warning" THEN "degraded"
    ELSE "healthy"

-----------------------------------------------------------------------------
(* Actions *)

\* The action that performs a launchd operation.
serviceActionID == [start |-> "service.start", stop |-> "service.stop",
                    restart |-> "service.restart", reload |-> "caddy.reload"]

\* The actions offered for a service, next to its state.
actionsForService(n, svc) ==
    LET ops == serviceOperations(n, svc)
    IN  IF ops = {} THEN {}
        ELSE {serviceActionID[op] : op \in ops}
                \cup (IF svc.type = "system" THEN {"caddy.validate"} ELSE {})
                \cup (IF n = "admin" THEN {"admin.restart"} ELSE {})

-----------------------------------------------------------------------------
(* The portal's view of a page *)

portalState == [ok |-> "healthy", warn |-> "degraded", down |-> "unavailable",
                unknown |-> "unknown", disabled |-> "unknown"]

portalProcessSignal(s) ==
    IF s.launchd = "none" THEN "not_managed"
    ELSE IF s.desired.kind = "scheduled" /\ s.launchd # "running" THEN "scheduled"
    ELSE IF s.launchd = "running" THEN "running"
    ELSE IF s.launchd \in {"not running", "not loaded"} THEN "stopped"
    ELSE "unknown"

portalCheckSignal(check, healthy, unhealthy, absent) ==
    [ok |-> healthy, failed |-> unhealthy, none |-> absent][check]

portalHealthSignals(s) ==
    [process |-> portalProcessSignal(s),
     network |-> portalCheckSignal(s.port, "reachable", "unreachable", "not_checked"),
     route   |-> portalCheckSignal(s.route, "ready", "missing", "not_applicable"),
     http    |-> portalCheckSignal(s.http, "healthy", "unhealthy", "not_checked")]

\* Wrong on purpose: degraded services are passed over.
aggregateOfDown(states) ==
    IF states \subseteq {"unknown"} THEN "unknown"
    ELSE IF "unavailable" \in states THEN "unavailable"
    ELSE IF "unknown" \in states THEN "degraded"
    ELSE "healthy"

aggregatePortalState(states) ==
    IF "unavailable" \in states THEN "unavailable"
    ELSE IF states \subseteq {"unknown"} THEN "unknown"
    ELSE IF states \cap {"degraded", "unknown"} # {} THEN "degraded"
    ELSE "healthy"

\* A disabled service has a state, and no part in the aggregate.
buildPortalStatus(page) ==
    LET state(n) == portalState[OverallState(page[n])]
    IN  [overall  |-> aggregatePortalState(
                          {state(n) : n \in {m \in Listed(page) : IsEnabled(page[m].desired)}}),
         services |-> [n \in Listed(page) |->
                          [state |-> state(n), signals |-> portalHealthSignals(page[n])]]]
===============================================================================
