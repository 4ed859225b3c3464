--------------------------------- MODULE Admin --------------------------------
(***************************************************************************)
(* The Admin server between a request and what it does (admin/main.go,     *)
(* actions.go, events.go): authentication, the check of an action's target *)
(* against the registry, its second check just before the script runs, the *)
(* audit event, and the answer; and the status pages, derived from the     *)
(* registry, a cache of launchd's states and probes.                       *)
(*                                                                         *)
(* Each request is a goroutine: between two of its steps operators edit    *)
(* the registry file, the cache expires, and Admin may be killed.  What    *)
(* the actions do to files and jobs is in RegistryStore, Deploy and        *)
(* LaunchdScripts; here it succeeds or fails.  A request that is refused   *)
(* on arrival changes nothing and is not shown.                            *)
(***************************************************************************)
EXTENDS Status

CONSTANTS
    Requests,         \* requests served at the same time
    Users,            \* identities the ingress resolves
    Username,         \* HOME_STACK_ADMIN_USERNAME
    ProxySecretSet,   \* whether HOME_STACK_ADMIN_PROXY_SECRET is set
    PasswordSet,      \* whether HOME_STACK_ADMIN_PASSWORD is set
    RegistryContents, \* what services.yaml may hold, invalid registries included
    Readings,         \* what launchctl may say of all services
    Probed,           \* values of `about' whose health has an http_url
    NoEvent

ASSUME AdminAssumption ==
    /\ RegistryContents \subseteq Registries
    /\ EmptyRegistry \in RegistryContents
    /\ Readings \subseteq [Names -> LaunchdStates]
    /\ Username # Empty /\ Empty \notin Users

VARIABLES registry, \* the contents of services.yaml
          cache,    \* launchdCache, and whether it is younger than 30 seconds
          request   \* the state of each request

vars == <<registry, cache, request>>

-----------------------------------------------------------------------------
(* Who is asking *)

\* The credentials of a request: whether it carries the ingress's secret, the
\* identity header if any, and its Basic Auth.
Callers == [secret : BOOLEAN, user : Users \cup {Empty},
            basic : {"none", "wrong", "right"}]

\* Wrong on purpose: the identity header is believed by itself.
ProxyIdentityUnproven(c) == c.user

proxyIdentity(c) == IF ProxySecretSet /\ c.secret THEN c.user ELSE Empty

PasswordOK(c) == PasswordSet /\ c.basic = "right"

withAuth(c) == proxyIdentity(c) # Empty \/ PasswordOK(c)

\* The name in the Basic Auth header, right or wrong.
BasicName(c) == IF c.basic = "none" THEN Empty ELSE Username

\* Wrong on purpose: the actor is read from Basic Auth only.
ActorFromBasic(c) == BasicName(c)

\* Whom an action is attributed to.
Actor(c) == IF proxyIdentity(c) # Empty THEN proxyIdentity(c) ELSE BasicName(c)

-----------------------------------------------------------------------------
(* What may be asked *)

ServiceActions == {"service.start", "service.stop", "service.restart"}
CaddyActions   == {"caddy.validate", "caddy.reload"}
SystemActions  == {"deploy.preview", "deploy.apply", "registry.add", "registry.remove"}
Actions == ServiceActions \cup CaddyActions \cup {"admin.restart"} \cup SystemActions

RequiresConfirmation(a) == a \notin {"caddy.validate", "deploy.preview"}

Targets == Names \cup {"caddy", "admin", "system"}

AllowedTargets(a) ==
    IF a \in CaddyActions THEN {"caddy"}
    ELSE IF a = "admin.restart" THEN {"admin"}
    ELSE IF a \in SystemActions THEN {"system"} ELSE {}

\* The launchd operation an action performs on its target.
Operation == [a \in ServiceActions \cup {"admin.restart"} |->
                 CASE a = "service.start" -> "start"
                   [] a = "service.stop"  -> "stop"
                   [] OTHER               -> "restart"]

\* The check runServiceAction makes on the registry it loads.
Authorised(r, a, t) ==
    /\ Validate(r)
    /\ t \in Registered(r)
    /\ Operation[a] \in serviceOperations(t, r[t])

\* Wrong on purpose: disabled services take no action at all.
EnabledTargetAllowed(r, a, t) ==
    IF a \in ServiceActions THEN Authorised(r, a, t) /\ IsEnabled(r[t])
                            ELSE t \in AllowedTargets(a)

targetAllowed(r, a, t) ==
    IF a \in ServiceActions THEN Authorised(r, a, t) ELSE t \in AllowedTargets(a)

-----------------------------------------------------------------------------
(* The state of a request *)

Steps == {"idle", "check", "authorise", "script", "perform", "audit", "respond",
          "load", "page"}

NoPage == [n \in Names |-> Absent]

\* `granted' says that the operation was authorised by a registry that was in
\* place at some time since the request was accepted, `ran' that it was begun.
Idle == [step |-> "idle", caller |-> [secret |-> FALSE, user |-> Empty, basic |-> "none"],
         action |-> "deploy.preview", target |-> "system", confirm |-> FALSE,
         granted |-> FALSE, ran |-> FALSE, ok |-> FALSE, event |-> NoEvent,
         snapshot |-> EmptyRegistry, page |-> NoPage]

Become(p, state) == request' = [request EXCEPT ![p] = state]

Goto(p, s) == Become(p, [request[p] EXCEPT !.step = s])

PerformsOperation(q) == q.action \in DOMAIN Operation

-----------------------------------------------------------------------------
(* Actions *)

\* POST /api/actions, past withAuth and with a body that decodes.
Receive(p) ==
    /\ request[p].step = "idle"
    /\ \E c \in Callers, a \in Actions, t \in Targets, k \in BOOLEAN :
          /\ withAuth(c)
          /\ Become(p, [Idle EXCEPT !.step = "check", !.caller = c, !.action = a,
                                    !.target = t, !.confirm = k])
    /\ UNCHANGED <<registry, cache>>

\* validateActionRequest, on a first load of the registry.
CheckRequest(p) ==
    LET q == request[p]
        accepted == /\ targetAllowed(registry, q.action, q.target)
                    /\ RequiresConfirmation(q.action) => q.confirm
    IN  /\ q.step = "check"
        /\ Become(p, IF ~accepted THEN Idle
                     ELSE IF PerformsOperation(q)
                     THEN [q EXCEPT !.step = "authorise",
                                    !.granted = Authorised(registry, q.action, q.target)]
                     ELSE [q EXCEPT !.step = "perform"])
        /\ UNCHANGED <<registry, cache>>

\* Wrong on purpose: the check made on arrival is trusted.
AuthoriseOnce(p) ==
    /\ request[p].step = "authorise"
    /\ Become(p, [request[p] EXCEPT !.step = "script", !.ran = TRUE])
    /\ UNCHANGED <<registry, cache>>

\* runServiceAction loads the registry again, and refuses or starts the script.
Authorise(p) ==
    LET q == request[p]
    IN  /\ q.step = "authorise"
        /\ Become(p, IF Authorised(registry, q.action, q.target)
                     THEN [q EXCEPT !.step = "script", !.ran = TRUE]
                     ELSE [q EXCEPT !.step = "audit"])
        /\ UNCHANGED <<registry, cache>>

\* service-launchd.sh ends, or is killed because a minute has passed or the
\* client is gone.
ScriptEnds(p) ==
    /\ request[p].step = "script"
    /\ \E ok \in BOOLEAN : Become(p, [request[p] EXCEPT !.step = "audit", !.ok = ok])
    /\ UNCHANGED <<registry, cache>>

\* The actions on Caddy, the deployment and the registry.
Perform(p) ==
    /\ request[p].step = "perform"
    /\ \E ok \in BOOLEAN :
          Become(p, [request[p] EXCEPT !.step = "audit", !.ok = ok, !.ran = TRUE])
    /\ UNCHANGED <<registry, cache>>

EventOf(q) == [actor |-> Actor(q.caller), action |-> q.action, target |-> q.target,
               ok |-> q.ok]

\* Wrong on purpose: an event that could not be written goes unnoticed.
AuditUnnoticed(p) ==
    LET q == request[p]
    IN  /\ q.step = "audit"
        /\ \E e \in {NoEvent, EventOf(q)} :
              Become(p, [q EXCEPT !.step = "respond", !.event = e])
        /\ UNCHANGED <<registry, cache>>

\* appendEvent: one append of one line, or an error that fails the action.
Audit(p) ==
    LET q == request[p]
    IN  /\ q.step = "audit"
        /\ \/ Become(p, [q EXCEPT !.step = "respond", !.event = EventOf(q)])
           \/ Become(p, [q EXCEPT !.step = "respond", !.ok = FALSE])
        /\ UNCHANGED <<registry, cache>>

-----------------------------------------------------------------------------
(* Status pages *)

\* GET /api/services, /api/overview or /api/incidents: collectServices loads
\* the registry; a load that fails is answered at once.
BeginPage(p) ==
    /\ request[p].step = "idle"
    /\ Validate(registry)
    /\ Become(p, [Idle EXCEPT !.step = "load", !.snapshot = registry])
    /\ UNCHANGED <<registry, cache>>

MayCheck(svc) == ChecksOf(svc, svc.about \in Probed)

\* launchdServices answers from the cache while it is fresh, else asks
\* launchctl and fills it; then each service is probed.
Collect(p) ==
    LET r == request[p].snapshot
    IN  /\ request[p].step = "load"
        /\ \E l \in Readings :
              /\ cache.fresh => l = cache.jobs
              /\ cache' = [fresh |-> TRUE, jobs |-> l]
              /\ \E c \in [Registered(r) -> UNION {MayCheck(r[n]) : n \in Registered(r)}] :
                    /\ \A n \in Registered(r) : c[n] \in MayCheck(r[n])
                    /\ Become(p, [request[p] EXCEPT !.step = "page", !.page = Page(r, l, c)])
        /\ UNCHANGED registry

-----------------------------------------------------------------------------
(* The surroundings and the specification *)

Respond(p) ==
    /\ request[p].step \in {"respond", "page"}
    /\ Become(p, Idle)
    /\ UNCHANGED <<registry, cache>>

\* An operator or another request changes services.yaml.
Edit ==
    /\ registry' \in RegistryContents
    /\ request' = [p \in Requests |->
          LET q == request[p]
          IN  IF q.step = "authorise"
              THEN [q EXCEPT !.granted = @ \/ Authorised(registry', q.action, q.target)]
              ELSE q]
    /\ UNCHANGED cache

Expire ==
    /\ cache' = [cache EXCEPT !.fresh = FALSE]
    /\ UNCHANGED <<registry, request>>

\* Admin exits - by admin.restart, with or without the time to answer, or
\* killed - and launchd starts it again.
Relaunch ==
    /\ request' = [p \in Requests |-> Idle]
    /\ cache' = [cache EXCEPT !.fresh = FALSE]
    /\ UNCHANGED registry

Init ==
    /\ registry \in RegistryContents
    /\ cache \in [fresh : {FALSE}, jobs : Readings]
    /\ request = [p \in Requests |-> Idle]

Step(p) ==
    \/ Receive(p) \/ CheckRequest(p) \/ Authorise(p) \/ ScriptEnds(p) \/ Perform(p)
    \/ Audit(p) \/ BeginPage(p) \/ Collect(p) \/ Respond(p)

Next == Edit \/ Expire \/ Relaunch \/ \E p \in Requests : Step(p)

Spec == Init /\ [][Next]_vars

-----------------------------------------------------------------------------
(* Properties *)

Event == [actor : Users \cup {Username}, action : Actions, target : Targets,
          ok : BOOLEAN]

ASSUME NoEventAssumption == NoEvent \notin Event

RequestState ==
    [step : Steps, caller : Callers, action : Actions, target : Targets,
     confirm : BOOLEAN, granted : BOOLEAN, ran : BOOLEAN, ok : BOOLEAN,
     event : Event \cup {NoEvent}, snapshot : RegistryContents, page : Pages]

(* The registry and the cache hold what may be in them; a request is well  *)
(* formed, an action's was let in by withAuth, and an event has an actor   *)
(* with a name.                                                            *)
TypeOK ==
    /\ registry \in RegistryContents
    /\ cache \in [fresh : BOOLEAN, jobs : Readings]
    /\ request \in [Requests -> RequestState]
    /\ \A p \in Requests :
          request[p].step \notin {"idle", "load", "page"} => withAuth(request[p].caller)

(* Whatever operators do to the registry meanwhile, launchd is asked to    *)
(* start, stop or restart a service only if a registry that was in place   *)
(* since the request was accepted allows it - admin.restart, whose target  *)
(* list does not look at the registry, included.                           *)
ScriptsAreAuthorised ==
    \A p \in Requests : request[p].step = "script" => request[p].granted

(* What the client is told and what the audit log says agree: an action    *)
(* that reports success ran and has its event, an event has the outcome    *)
(* the client saw, and an action whose event is missing is not a success.  *)
AnswersAreAudited ==
    \A p \in Requests :
        LET q == request[p]
        IN  q.step = "respond" =>
              /\ q.ok => q.ran
              /\ q.event = NoEvent => ~q.ok
              /\ q.event # NoEvent => q.event.action = q.action
                                       /\ q.event.target = q.target
                                       /\ q.event.ok = q.ok

(* "Mutations are attributed to whichever identity authenticated": the     *)
(* actor of an event is the user the ingress vouched for, or the account   *)
(* whose password was right, never a name that was merely sent.            *)
ActorIsAuthenticated ==
    \A p \in Requests :
        LET q == request[p]
        IN  q.event # NoEvent =>
              \/ q.event.actor = q.caller.user /\ ProxySecretSet /\ q.caller.secret
              \/ /\ q.event.actor = Username /\ PasswordOK(q.caller)
                 /\ proxyIdentity(q.caller) = Empty

Required(page, n) ==
    IsEnabled(page[n].desired) /\ ~isOptionalService(n, page[n].desired)

\* All that is wrong with a job is that launchctl gave no state for it.
Unreported(s) == s.launchd = Empty /\ "failed" \notin Probes(s)

(* The two readings of a page agree, but for one case: the overall state,  *)
(* derived from incidents, is healthy exactly when every required service  *)
(* that is counted as down or degraded is one of which launchctl gave no   *)
(* state - deriveOverall warns of it, deriveIncidents passes over it - and *)
(* an optional or disabled one never makes the stack look worse.           *)
TriageAgrees ==
    \A p \in Requests :
        LET page == request[p].page
            counts == countServiceStates(page)
        IN  overallStateFromIncidents(deriveIncidents(page)) = "healthy" <=>
              \A n \in counts["down"] \cup counts["degraded"] :
                  Required(page, n) => Unreported(page[n])

(* Of the actions a page offers for a service, validateActionRequest       *)
(* accepts for that service, on the registry the page was made from, all   *)
(* but these: the actions on Caddy are offered for every service of type   *)
(* "system", and accepted for the one named caddy.  The stop that an       *)
(* incident about a managed service recommends, when it is disabled but    *)
(* still running, is among those offered.                                  *)
OffersAreAccepted ==
    \A p \in Requests :
        LET q == request[p]
        IN  \A n \in Listed(q.page) :
              LET svc == q.page[n].desired
              IN  /\ \A a \in actionsForService(n, svc) :
                        targetAllowed(q.snapshot, a, n) <=> (a \in CaddyActions => n = "caddy")
                  /\ Trouble(q.page[n]) = "disabled-loaded" /\ svc.lifecycle = "managed"
                        => "service.stop" \in actionsForService(n, svc)

(* The portal, which aggregates the same page by rules of its own, is      *)
(* never rosier than Admin: it is healthy only when Admin is, and          *)
(* unavailable exactly when a service is counted down.  And its signals    *)
(* account for its states: no signal is bad for a healthy service, and one *)
(* is for an unavailable service - except a scheduled one, whose process   *)
(* signal does not tell a job that waits from one that is not loaded       *)
(* (buildPortalStatus against deriveIncidents and countServiceStates).     *)
PortalNeverRosier ==
    \A p \in Requests :
        LET page   == request[p].page
            portal == buildPortalStatus(page)
            bad(n) ==
                LET signals == portal.services[n].signals
                IN  \/ signals.process = "stopped" \/ signals.network = "unreachable"
                    \/ signals.route = "missing"   \/ signals.http = "unhealthy"
        IN  /\ portal.overall = "healthy" =>
                  overallStateFromIncidents(deriveIncidents(page)) = "healthy"
            /\ portal.overall = "unavailable" <=> countServiceStates(page)["down"] # {}
            /\ \A n \in Listed(page) :
                  /\ portal.services[n].state = "healthy" => ~bad(n)
                  /\ portal.services[n].state = "unavailable" =>
                        bad(n) \/ page[n].desired.kind = "scheduled"
===============================================================================
