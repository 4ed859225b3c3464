------------------------------ MODULE AdminProofs -----------------------------
(***************************************************************************)
(* Admin's type invariant, and that its scripts are authorised, its        *)
(* answers audited and its actors authenticated, for any users, registries *)
(* and number of requests; how far the two readings of a status page       *)
(* agree, for any page; and which of the actions it offers are accepted.   *)
(*                                                                         *)
(* A request's safety rests on what it has done so far: nothing has run    *)
(* and nothing is logged before the audit, and whatever the registry       *)
(* allows while a request waits for its second check has been granted.     *)
(***************************************************************************)
EXTENDS Admin, TLAPS

Waiting == {"idle", "check", "authorise", "perform", "script", "load", "page"}

\* What request q has done by its step, when the registry is r.
Progress(q, r) ==
    /\ q.step = "authorise" /\ Authorised(r, q.action, q.target) => q.granted
    /\ q.step = "script" => q.granted /\ q.ran
    /\ q.step \in Waiting => ~q.ok /\ q.event = NoEvent
    /\ q.step = "audit" => (q.ok => q.ran) /\ q.event = NoEvent
    /\ q.step = "respond" => /\ q.ok => q.ran /\ q.event # NoEvent
                             /\ q.event # NoEvent => q.event = EventOf(q)
    /\ q.step \notin {"idle", "load", "page"} => withAuth(q.caller)

AdminInv == TypeOK /\ \A p \in Requests : Progress(request[p], registry)

-----------------------------------------------------------------------------
(* Values *)

LEMMA NoPageIsAPage == NoPage \in Pages
  BY DEF NoPage, Pages

LEMMA IdleIsARequest ==
  /\ Idle \in RequestState
  /\ \A r : Progress(Idle, r)
<1>1. Idle \in RequestState
  BY NoPageIsAPage, AdminAssumption
     DEF Idle, RequestState, Steps, Callers, Actions, SystemActions, Targets
<1>2. QED
  BY <1>1 DEF Idle, Progress, Waiting

\* The actor of a request that was let in has a name.
LEMMA ActorsHaveNames ==
  ASSUME NEW c \in Callers, withAuth(c)
  PROVE  Actor(c) \in Users \cup {Username}
  BY AdminAssumption DEF Callers, withAuth, Actor, proxyIdentity, PasswordOK, BasicName

LEMMA EventsAreEvents ==
  ASSUME NEW q \in RequestState, withAuth(q.caller)
  PROVE  EventOf(q) \in Event
  BY ActorsHaveNames DEF EventOf, Event, RequestState

LEMMA PagesArePages ==
  ASSUME NEW r \in Registries, NEW l \in Readings,
         NEW c \in [Registered(r) -> [port : Checks, route : Checks, http : Checks]]
  PROVE  Page(r, l, c) \in Pages
<1>1. ASSUME NEW n \in Registered(r)
      PROVE  [desired |-> r[n], launchd |-> l[n], port |-> c[n].port,
              route |-> c[n].route, http |-> c[n].http] \in ServiceStatus
  BY <1>1, AdminAssumption DEF ServiceStatus, Registered, Registries
<1>2. QED
  BY <1>1 DEF Page, Pages

-----------------------------------------------------------------------------
(* Every step keeps the invariant *)

\* A step of one request keeps it if what the request becomes is a request.
LEMMA BecomeKeeps ==
  ASSUME AdminInv, NEW p \in Requests, NEW s \in RequestState,
         Progress(s, registry), Become(p, s),
         registry' = registry, cache' \in [fresh : BOOLEAN, jobs : Readings]
  PROVE  AdminInv'
<1>1. request' = [request EXCEPT ![p] = s]
  BY DEF Become
<1>2. request' \in [Requests -> RequestState]
  BY <1>1 DEF AdminInv, TypeOK
<1>3. \A x \in Requests : Progress(request'[x], registry')
  BY <1>1 DEF AdminInv, TypeOK
<1>4. \A x \in Requests :
        request'[x].step \notin {"idle", "load", "page"} => withAuth(request'[x].caller)
  BY <1>3 DEF Progress
<1>5. registry' \in RegistryContents
  BY DEF AdminInv, TypeOK
<1>6. TypeOK'
  BY <1>2, <1>4, <1>5 DEF TypeOK
<1>7. QED
  BY <1>3, <1>6 DEF AdminInv

LEMMA ReceiveKeeps ==
  ASSUME AdminInv, NEW p \in Requests, Receive(p)
  PROVE  AdminInv'
<1>1. PICK c \in Callers, a \in Actions, t \in Targets, k \in BOOLEAN :
        /\ withAuth(c)
        /\ Become(p, [Idle EXCEPT !.step = "check", !.caller = c, !.action = a,
                                  !.target = t, !.confirm = k])
  BY DEF Receive
<1> DEFINE s == [Idle EXCEPT !.step = "check", !.caller = c, !.action = a,
                             !.target = t, !.confirm = k]
<1>2. s \in RequestState
  BY IdleIsARequest DEF RequestState, Steps
<1>3. /\ s.step = "check" /\ s.caller = c /\ s.ok = FALSE /\ s.event = NoEvent
  BY DEF Idle
<1>4. Progress(s, registry)
  BY <1>1, <1>3 DEF Progress, Waiting
<1>5. registry' = registry /\ cache' \in [fresh : BOOLEAN, jobs : Readings]
  BY DEF Receive, AdminInv, TypeOK
<1> HIDE DEF s
<1>6. Become(p, s)
  BY <1>1 DEF s
<1>7. QED
  BY <1>2, <1>4, <1>5, <1>6, BecomeKeeps

\* What is known of a request in progress.
LEMMA RequestFacts ==
  ASSUME AdminInv, NEW p \in Requests
  PROVE  /\ request[p] \in RequestState
         /\ Progress(request[p], registry)
         /\ registry \in RegistryContents
         /\ cache \in [fresh : BOOLEAN, jobs : Readings]
  BY DEF AdminInv, TypeOK

LEMMA CheckRequestKeeps ==
  ASSUME AdminInv, NEW p \in Requests, CheckRequest(p)
  PROVE  AdminInv'
<1> DEFINE q == request[p]
           auth == [q EXCEPT !.step = "authorise",
                             !.granted = Authorised(registry, q.action, q.target)]
           perf == [q EXCEPT !.step = "perform"]
<1>1. q \in RequestState /\ Progress(q, registry)
  BY RequestFacts
<1>2. q.step = "check" /\ UNCHANGED <<registry, cache>>
  BY DEF CheckRequest
<1>3. registry' = registry /\ cache' \in [fresh : BOOLEAN, jobs : Readings]
  BY <1>2, RequestFacts
<1>4. withAuth(q.caller) /\ q.ok = FALSE /\ q.event = NoEvent
  BY <1>1, <1>2 DEF Progress, Waiting, RequestState
<1>5. auth \in RequestState /\ Progress(auth, registry)
  <2>1. auth \in RequestState
    BY <1>1 DEF RequestState, Steps, Authorised
  <2>2. /\ auth.step = "authorise" /\ auth.caller = q.caller /\ auth.ok = q.ok
        /\ auth.event = q.event /\ auth.action = q.action /\ auth.target = q.target
        /\ auth.granted = Authorised(registry, q.action, q.target)
    BY <1>1 DEF RequestState
  <2>3. QED
    BY <2>1, <2>2, <1>4 DEF Progress, Waiting
<1>6. perf \in RequestState /\ Progress(perf, registry)
  <2>1. perf \in RequestState
    BY <1>1 DEF RequestState, Steps
  <2>2. /\ perf.step = "perform" /\ perf.caller = q.caller /\ perf.ok = q.ok
        /\ perf.event = q.event
    BY <1>1 DEF RequestState
  <2>3. QED
    BY <2>1, <2>2, <1>4 DEF Progress, Waiting
<1>7. Become(p, Idle) \/ Become(p, auth) \/ Become(p, perf)
  BY DEF CheckRequest
<1> HIDE DEF auth, perf
<1>8. QED
  BY <1>3, <1>5, <1>6, <1>7, IdleIsARequest, BecomeKeeps

LEMMA AuthoriseKeeps ==
  ASSUME AdminInv, NEW p \in Requests, Authorise(p)
  PROVE  AdminInv'
<1> DEFINE q == request[p]
           runs    == [q EXCEPT !.step = "script", !.ran = TRUE]
           refuses == [q EXCEPT !.step = "audit"]
<1>1. q \in RequestState /\ Progress(q, registry)
  BY RequestFacts
<1>2. q.step = "authorise" /\ UNCHANGED <<registry, cache>>
  BY DEF Authorise
<1>3. registry' = registry /\ cache' \in [fresh : BOOLEAN, jobs : Readings]
  BY <1>2, RequestFacts
<1>4. /\ withAuth(q.caller) /\ q.ok = FALSE /\ q.event = NoEvent
      /\ Authorised(registry, q.action, q.target) => q.granted
  BY <1>1, <1>2 DEF Progress, Waiting, RequestState
<1>5. /\ runs \in RequestState
      /\ runs.step = "script" /\ runs.caller = q.caller /\ runs.ok = q.ok
      /\ runs.event = q.event /\ runs.granted = q.granted /\ runs.ran = TRUE
  BY <1>1 DEF RequestState, Steps
<1>6. /\ refuses \in RequestState
      /\ refuses.step = "audit" /\ refuses.caller = q.caller /\ refuses.ok = q.ok
      /\ refuses.event = q.event
  BY <1>1 DEF RequestState, Steps
<1>7. \/ Authorised(registry, q.action, q.target) /\ Become(p, runs)
      \/ Become(p, refuses)
  BY DEF Authorise
<1> HIDE DEF runs, refuses
<1>8. Progress(refuses, registry)
  BY <1>4, <1>6 DEF Progress, Waiting
<1>9. CASE Authorised(registry, q.action, q.target) /\ Become(p, runs)
  <2>1. Progress(runs, registry)
    BY <1>4, <1>5, <1>9 DEF Progress, Waiting
  <2>2. QED
    BY <1>3, <1>5, <1>9, <2>1, BecomeKeeps
<1>10. CASE Become(p, refuses)
  BY <1>3, <1>6, <1>8, <1>10, BecomeKeeps
<1>11. QED
  BY <1>7, <1>9, <1>10

LEMMA ScriptEndsKeeps ==
  ASSUME AdminInv, NEW p \in Requests, ScriptEnds(p)
  PROVE  AdminInv'
<1>1. PICK ok \in BOOLEAN : Become(p, [request[p] EXCEPT !.step = "audit", !.ok = ok])
  BY DEF ScriptEnds
<1> DEFINE q == request[p]
           s == [q EXCEPT !.step = "audit", !.ok = ok]
<1>2. q \in RequestState /\ Progress(q, registry)
  BY RequestFacts
<1>3. q.step = "script" /\ UNCHANGED <<registry, cache>>
  BY DEF ScriptEnds
<1>4. withAuth(q.caller) /\ q.ran /\ q.event = NoEvent
  BY <1>2, <1>3 DEF Progress, Waiting
<1>5. /\ s \in RequestState
      /\ s.step = "audit" /\ s.caller = q.caller /\ s.ran = q.ran /\ s.event = q.event
  BY <1>2 DEF RequestState, Steps
<1>6. Become(p, s)
  BY <1>1
<1> HIDE DEF s
<1>7. Progress(s, registry)
  BY <1>4, <1>5 DEF Progress, Waiting
<1>8. QED
  BY <1>3, <1>5, <1>6, <1>7, RequestFacts, BecomeKeeps

LEMMA PerformKeeps ==
  ASSUME AdminInv, NEW p \in Requests, Perform(p)
  PROVE  AdminInv'
<1>1. PICK ok \in BOOLEAN :
        Become(p, [request[p] EXCEPT !.step = "audit", !.ok = ok, !.ran = TRUE])
  BY DEF Perform
<1> DEFINE q == request[p]
           s == [q EXCEPT !.step = "audit", !.ok = ok, !.ran = TRUE]
<1>2. q \in RequestState /\ Progress(q, registry)
  BY RequestFacts
<1>3. q.step = "perform" /\ UNCHANGED <<registry, cache>>
  BY DEF Perform
<1>4. withAuth(q.caller) /\ q.event = NoEvent
  BY <1>2, <1>3 DEF Progress, Waiting
<1>5. /\ s \in RequestState
      /\ s.step = "audit" /\ s.caller = q.caller /\ s.ran = TRUE /\ s.event = q.event
  BY <1>2 DEF RequestState, Steps
<1>6. Become(p, s)
  BY <1>1
<1> HIDE DEF s
<1>7. Progress(s, registry)
  BY <1>4, <1>5 DEF Progress, Waiting
<1>8. QED
  BY <1>3, <1>5, <1>6, <1>7, RequestFacts, BecomeKeeps

LEMMA AuditKeeps ==
  ASSUME AdminInv, NEW p \in Requests, Audit(p)
  PROVE  AdminInv'
<1> DEFINE q == request[p]
           logged == [q EXCEPT !.step = "respond", !.event = EventOf(q)]
           failed == [q EXCEPT !.step = "respond", !.ok = FALSE]
<1>1. q \in RequestState /\ Progress(q, registry)
  BY RequestFacts
<1>2. q.step = "audit" /\ UNCHANGED <<registry, cache>>
  BY DEF Audit
<1>3. withAuth(q.caller) /\ (q.ok => q.ran) /\ q.event = NoEvent
  BY <1>1, <1>2 DEF Progress, Waiting
<1>4. EventOf(q) \in Event
  BY <1>1, <1>3, EventsAreEvents
<1>5. /\ logged \in RequestState
      /\ logged.step = "respond" /\ logged.event = EventOf(q)
      /\ logged.ok = q.ok /\ logged.ran = q.ran /\ logged.caller = q.caller
      /\ logged.action = q.action /\ logged.target = q.target
  BY <1>1, <1>4 DEF RequestState, Steps
<1>6. EventOf(logged) = EventOf(q)
  BY <1>5 DEF EventOf
<1>7. /\ failed \in RequestState
      /\ failed.step = "respond" /\ failed.ok = FALSE /\ failed.event = q.event
      /\ failed.caller = q.caller
  BY <1>1 DEF RequestState, Steps
<1>8. Become(p, logged) \/ Become(p, failed)
  BY DEF Audit
<1> HIDE DEF logged, failed
<1>9. Progress(logged, registry)
  BY <1>3, <1>4, <1>5, <1>6, NoEventAssumption DEF Progress, Waiting
<1>10. Progress(failed, registry)
  BY <1>3, <1>7 DEF Progress, Waiting
<1>11. QED
  BY <1>2, <1>5, <1>7, <1>8, <1>9, <1>10, RequestFacts, BecomeKeeps

LEMMA BeginPageKeeps ==
  ASSUME AdminInv, NEW p \in Requests, BeginPage(p)
  PROVE  AdminInv'
<1> DEFINE s == [Idle EXCEPT !.step = "load", !.snapshot = registry]
<1>1. /\ s \in RequestState
      /\ s.step = "load" /\ s.ok = FALSE /\ s.event = NoEvent
  BY IdleIsARequest, RequestFacts DEF RequestState, Steps, Idle
<1>2. Become(p, s) /\ UNCHANGED <<registry, cache>>
  BY DEF BeginPage
<1> HIDE DEF s
<1>3. Progress(s, registry)
  BY <1>1 DEF Progress, Waiting
<1>4. QED
  BY <1>1, <1>2, <1>3, RequestFacts, BecomeKeeps

LEMMA CollectKeeps ==
  ASSUME AdminInv, NEW p \in Requests, Collect(p)
  PROVE  AdminInv'
<1> DEFINE q == request[p]
           r == q.snapshot
<1>1. PICK l \in Readings, c \in [Registered(r) -> UNION {MayCheck(r[n]) : n \in Registered(r)}] :
        /\ cache' = [fresh |-> TRUE, jobs |-> l]
        /\ Become(p, [q EXCEPT !.step = "page", !.page = Page(r, l, c)])
  BY DEF Collect
<1> DEFINE s == [q EXCEPT !.step = "page", !.page = Page(r, l, c)]
<1>2. q \in RequestState /\ Progress(q, registry)
  BY RequestFacts
<1>3. q.step = "load" /\ registry' = registry
  BY DEF Collect
<1>4. q.ok = FALSE /\ q.event = NoEvent
  BY <1>2, <1>3 DEF Progress, Waiting, RequestState
<1>5. r \in Registries
  BY <1>2, AdminAssumption DEF RequestState
<1>6. UNION {MayCheck(r[n]) : n \in Registered(r)}
        \subseteq [port : Checks, route : Checks, http : Checks]
  BY DEF MayCheck, ChecksOf, Checks
<1>7. Page(r, l, c) \in Pages
  BY <1>1, <1>5, <1>6, PagesArePages
<1>8. /\ s \in RequestState
      /\ s.step = "page" /\ s.ok = q.ok /\ s.event = q.event
  BY <1>2, <1>7 DEF RequestState, Steps
<1>9. Become(p, s) /\ cache' \in [fresh : BOOLEAN, jobs : Readings]
  BY <1>1
<1> HIDE DEF s
<1>10. Progress(s, registry)
  BY <1>4, <1>8 DEF Progress, Waiting
<1>11. QED
  BY <1>3, <1>8, <1>9, <1>10, BecomeKeeps

LEMMA EditKeeps ==
  ASSUME AdminInv, Edit
  PROVE  AdminInv'
<1> DEFINE grant(q) == [q EXCEPT !.granted = @ \/ Authorised(registry', q.action, q.target)]
<1>1. \A p \in Requests :
        request'[p] = IF request[p].step = "authorise" THEN grant(request[p]) ELSE request[p]
  BY DEF Edit
<1>2. ASSUME NEW p \in Requests
      PROVE  request'[p] \in RequestState /\ Progress(request'[p], registry')
  <2> DEFINE q == request[p]
  <2>1. q \in RequestState /\ Progress(q, registry)
    BY RequestFacts
  <2>2. CASE q.step = "authorise"
    <3>1. /\ grant(q) \in RequestState
          /\ grant(q).step = q.step /\ grant(q).ok = q.ok /\ grant(q).event = q.event
          /\ grant(q).action = q.action /\ grant(q).target = q.target
          /\ grant(q).caller = q.caller
          /\ grant(q).granted = (q.granted \/ Authorised(registry', q.action, q.target))
      BY <2>1 DEF RequestState, Authorised
    <3>2. request'[p] = grant(q)
      BY <1>1, <2>2
    <3> HIDE DEF grant
    <3>3. Progress(grant(q), registry')
      BY <2>1, <2>2, <3>1 DEF Progress, Waiting
    <3>4. QED
      BY <3>1, <3>2, <3>3
  <2>3. CASE q.step # "authorise"
    BY <1>1, <2>1, <2>3 DEF Progress, EventOf
  <2>4. QED
    BY <2>2, <2>3
<1>3. request' \in [Requests -> RequestState]
  <2>1. request' = [p \in Requests |-> request'[p]]
    BY DEF Edit
  <2>2. QED
    BY <1>2, <2>1
<1>4. registry' \in RegistryContents /\ cache' \in [fresh : BOOLEAN, jobs : Readings]
  BY DEF Edit, AdminInv, TypeOK
<1>5. QED
  BY <1>2, <1>3, <1>4 DEF AdminInv, TypeOK, Progress

LEMMA RelaunchKeeps ==
  ASSUME AdminInv, Relaunch
  PROVE  AdminInv'
<1>1. \A p \in Requests : request'[p] = Idle
  BY DEF Relaunch
<1>2. request' \in [Requests -> RequestState]
  BY IdleIsARequest DEF Relaunch
<1>3. registry' \in RegistryContents /\ cache' \in [fresh : BOOLEAN, jobs : Readings]
  BY DEF Relaunch, AdminInv, TypeOK
<1>4. \A p \in Requests : Progress(request'[p], registry')
  BY <1>1, IdleIsARequest
<1>5. QED
  BY <1>2, <1>3, <1>4 DEF AdminInv, TypeOK, Progress

LEMMA AdminInductive == Spec => []AdminInv
<1>1. Init => AdminInv
  <2> SUFFICES ASSUME Init PROVE AdminInv
    OBVIOUS
  <2>1. \A p \in Requests : request[p] = Idle
    BY DEF Init
  <2>2. TypeOK
    BY <2>1, IdleIsARequest DEF Init, TypeOK, Idle
  <2>3. QED
    BY <2>1, <2>2, IdleIsARequest DEF AdminInv
<1>2. AdminInv /\ [Next]_vars => AdminInv'
  <2> SUFFICES ASSUME AdminInv, [Next]_vars PROVE AdminInv'
    OBVIOUS
  <2>1. CASE Edit
    BY <2>1, EditKeeps
  <2>2. CASE Expire
    BY <2>2 DEF Expire, AdminInv, TypeOK, Progress, EventOf
  <2>3. CASE Relaunch
    BY <2>3, RelaunchKeeps
  <2>4. ASSUME NEW p \in Requests, Step(p) PROVE AdminInv'
    <3>1. CASE Respond(p)
      BY <3>1, IdleIsARequest, RequestFacts, BecomeKeeps DEF Respond
    <3>2. QED
      BY <2>4, <3>1, ReceiveKeeps, CheckRequestKeeps, AuthoriseKeeps, ScriptEndsKeeps,
         PerformKeeps, AuditKeeps, BeginPageKeeps, CollectKeeps
         DEF Step
  <2>5. CASE UNCHANGED vars
    BY <2>5 DEF vars, AdminInv, TypeOK, Progress, EventOf
  <2>6. QED
    BY <2>1, <2>2, <2>3, <2>4, <2>5 DEF Next
<1>3. QED
  BY <1>1, <1>2, PTL DEF Spec

-----------------------------------------------------------------------------
(* What follows for requests *)

(* Admin's types: every request in progress was authenticated, every event *)
(* names an actor.                                                         *)
THEOREM AdminTypes == Spec => []TypeOK
<1>1. AdminInv => TypeOK
  BY DEF AdminInv
<1>2. QED
  BY <1>1, AdminInductive, PTL

(* A script runs only if a registry in place since the request's first     *)
(* check allows it, however the registry is edited meanwhile.              *)
THEOREM ScriptsAuthorised == Spec => []ScriptsAreAuthorised
<1>1. AdminInv => ScriptsAreAuthorised
  BY DEF AdminInv, Progress, ScriptsAreAuthorised
<1>2. QED
  BY <1>1, AdminInductive, PTL

(* The client and the audit log are told the same, and no success is       *)
(* reported of an action that did not run or is not in the log.            *)
THEOREM AnswersAudited == Spec => []AnswersAreAudited
<1>1. AdminInv => AnswersAreAudited
  <2>1. ASSUME AdminInv, NEW p \in Requests, request[p].step = "respond"
        PROVE  /\ request[p].ok => request[p].ran /\ request[p].event # NoEvent
               /\ request[p].event # NoEvent =>
                     /\ request[p].event.action = request[p].action
                     /\ request[p].event.target = request[p].target
                     /\ request[p].event.ok = request[p].ok
    <3>1. Progress(request[p], registry)
      BY <2>1, RequestFacts
    <3>2. /\ request[p].ok => request[p].ran /\ request[p].event # NoEvent
          /\ request[p].event # NoEvent => request[p].event = EventOf(request[p])
      BY <2>1, <3>1 DEF Progress
    <3>3. QED
      BY <3>2 DEF EventOf
  <2>2. QED
    BY <2>1 DEF AnswersAreAudited
<1>2. QED
  BY <1>1, AdminInductive, PTL

(* An event's actor is the identity that authenticated its request.        *)
THEOREM ActorsAuthenticated == Spec => []ActorIsAuthenticated
<1>1. AdminInv => ActorIsAuthenticated
  <2> SUFFICES ASSUME AdminInv, NEW p \in Requests, request[p].event # NoEvent
               PROVE  LET q == request[p]
                      IN  \/ q.event.actor = q.caller.user /\ ProxySecretSet /\ q.caller.secret
                          \/ /\ q.event.actor = Username /\ PasswordOK(q.caller)
                             /\ proxyIdentity(q.caller) = Empty
    BY DEF ActorIsAuthenticated
  <2> DEFINE q == request[p]
  <2>1. q \in RequestState /\ Progress(q, registry)
    BY RequestFacts
  <2>2. q.step = "respond"
    BY <2>1 DEF Progress, Waiting, RequestState, Steps
  <2>3. q.event.actor = Actor(q.caller) /\ withAuth(q.caller)
    BY <2>1, <2>2 DEF Progress, EventOf
  <2>4. QED
    BY <2>3 DEF Actor, proxyIdentity, withAuth, PasswordOK, BasicName
<1>2. QED
  BY <1>1, AdminInductive, PTL

-----------------------------------------------------------------------------
(* The readings of a page *)

\* Service by service: a required service is in trouble exactly when it is
\* counted as down or degraded and its state is known, and then not for
\* information only.
LEMMA TroubleIsCounted ==
  ASSUME NEW n, NEW s \in ServiceStatus
  PROVE  /\ IsEnabled(s.desired) /\ ~isOptionalService(n, s.desired) =>
              /\ Trouble(s) # "none" <=>
                    Bucket[OverallState(s)] \in {"down", "degraded"} /\ ~Unreported(s)
              /\ Severity(n, s) \in {"critical", "warning"}
         /\ ~(IsEnabled(s.desired) /\ ~isOptionalService(n, s.desired)) /\ Trouble(s) # "none" =>
              Severity(n, s) = "info"
<1> DEFINE enabled == IsEnabled(s.desired)
           optional == isOptionalService(n, s.desired)
<1>1. ASSUME enabled, ~optional
      PROVE  /\ Trouble(s) # "none" <=>
                   Bucket[OverallState(s)] \in {"down", "degraded"} /\ ~Unreported(s)
             /\ Severity(n, s) \in {"critical", "warning"}
  <2>1. s.desired.kind # "scheduled"
    BY <1>1 DEF isOptionalService
  <2>2. /\ s.launchd \in {"none", "not loaded", "not running", "running", "other", Empty}
        /\ s.port \in {"none", "ok", "failed"}
        /\ s.route \in {"none", "ok", "failed"}
        /\ s.http \in {"none", "ok", "failed"}
    BY DEF ServiceStatus, LaunchdStates, Checks
  <2>3. Trouble(s) # "none" <=>
           s.launchd \notin {"none", "running", Empty} \/ "failed" \in Probes(s)
    BY <1>1, <2>2 DEF Trouble, Probes, Empty
  <2>4. OverallState(s) = deriveOverall(s)
    BY <1>1 DEF OverallState
  <2>5. OverallState(s) \in {"down", "warn"} <=>
           s.launchd \notin {"none", "running"} \/ "failed" \in Probes(s)
    BY <2>1, <2>2, <2>4 DEF deriveOverall, LaunchdOK, Probes, Empty
  <2>6. OverallState(s) \in {"ok", "warn", "down", "unknown", "disabled"}
    BY <2>4 DEF deriveOverall
  <2>7. Bucket[OverallState(s)] \in {"down", "degraded"} <=> OverallState(s) \in {"down", "warn"}
    BY <2>6 DEF Bucket
  <2>8. Trouble(s) # "disabled-loaded"
    BY <1>1 DEF Trouble
  <2>9. Severity(n, s) \in {"critical", "warning"}
    BY <1>1, <2>8 DEF Severity
  <2>10. QED
    BY <2>3, <2>5, <2>7, <2>9 DEF Unreported, Empty
<1>2. ASSUME ~(enabled /\ ~optional), Trouble(s) # "none"
      PROVE  Severity(n, s) = "info"
  BY <1>2 DEF Trouble, Severity
<1>3. QED
  BY <1>1, <1>2

LEMMA PageTriage ==
  ASSUME NEW page \in Pages
  PROVE  overallStateFromIncidents(deriveIncidents(page)) = "healthy" <=>
           \A n \in countServiceStates(page)["down"] \cup countServiceStates(page)["degraded"] :
             Required(page, n) => Unreported(page[n])
<1> DEFINE incidents == deriveIncidents(page)
           counts == countServiceStates(page)
           Alarming(n) == Trouble(page[n]) # "none"
                             /\ Severity(n, page[n]) \in {"critical", "warning"}
<1>1. \A n \in Listed(page) : page[n] \in ServiceStatus
  BY DEF Pages, Listed
<1>2. overallStateFromIncidents(incidents) = "healthy" <=>
         \A i \in incidents : i.severity \notin {"critical", "warning"}
  BY DEF overallStateFromIncidents
<1>3. (\A i \in incidents : i.severity \notin {"critical", "warning"}) <=>
         \A n \in Listed(page) : ~Alarming(n)
  <2> DEFINE incident(n) == [service |-> n, trouble |-> Trouble(page[n]),
                             severity |-> Severity(n, page[n])]
  <2>1. \A i : i \in incidents <=>
           \E n \in Listed(page) : Trouble(page[n]) # "none" /\ i = incident(n)
    BY DEF deriveIncidents
  <2>2. \A n : incident(n).severity = Severity(n, page[n])
    OBVIOUS
  <2> HIDE DEF incident, incidents
  <2>3. QED
    BY <2>1, <2>2
<1>4. counts["down"] \cup counts["degraded"] =
         {n \in Listed(page) : Bucket[OverallState(page[n])] \in {"down", "degraded"}}
  <2>1. {"down", "degraded"} \subseteq {Bucket[o] : o \in DOMAIN Bucket}
    BY DEF Bucket
  <2>2. QED
    BY <2>1 DEF countServiceStates
<1>5. ASSUME NEW n \in Listed(page)
      PROVE  Alarming(n) <=> /\ Bucket[OverallState(page[n])] \in {"down", "degraded"}
                             /\ Required(page, n) /\ ~Unreported(page[n])
  BY <1>1, TroubleIsCounted DEF Required
<1> HIDE DEF incidents, counts, Alarming
<1>6. QED
  BY <1>2, <1>3, <1>4, <1>5 DEF incidents, counts

(* On every status page the overall state is healthy exactly when the      *)
(* required services that are counted as down or degraded are all ones     *)
(* that launchctl gave no state for.                                       *)
THEOREM PagesAgree == Spec => []TriageAgrees
<1>1. TypeOK => TriageAgrees
  BY PageTriage DEF TypeOK, RequestState, TriageAgrees
<1>2. QED
  BY <1>1, AdminTypes, PTL

\* The state the portal shows of a service is its overall state in the words of
\* the portal's schema.
LEMMA PortalStates ==
  ASSUME NEW s \in ServiceStatus
  PROVE  /\ OverallState(s) \in {"ok", "warn", "down", "unknown", "disabled"}
         /\ OverallState(s) = "disabled" <=> ~IsEnabled(s.desired)
         /\ portalState[OverallState(s)] = "healthy" <=> OverallState(s) = "ok"
         /\ portalState[OverallState(s)] = "unavailable" <=> OverallState(s) = "down"
         /\ portalState[OverallState(s)] = "degraded" <=> OverallState(s) = "warn"
<1>1. deriveOverall(s) \in {"ok", "warn", "down", "unknown"}
  BY DEF deriveOverall
<1>2. /\ OverallState(s) \in {"ok", "warn", "down", "unknown", "disabled"}
      /\ OverallState(s) = "disabled" <=> ~IsEnabled(s.desired)
  BY <1>1 DEF OverallState
<1>3. QED
  BY <1>2 DEF portalState

\* No signal of a service in order is bad, and one of a service that is down
\* is, unless it is scheduled.
LEMMA SignalsAccount ==
  ASSUME NEW s \in ServiceStatus,
         NEW signals, signals = portalHealthSignals(s),
         NEW bad, bad = (\/ signals.process = "stopped" \/ signals.network = "unreachable"
                         \/ signals.route = "missing"   \/ signals.http = "unhealthy")
  PROVE  /\ OverallState(s) = "ok" => ~bad
         /\ OverallState(s) = "down" => bad \/ s.desired.kind = "scheduled"
<1>1. /\ s.port \in Checks /\ s.route \in Checks /\ s.http \in Checks
      /\ s.launchd \in LaunchdStates
  BY DEF ServiceStatus
<1>2. /\ signals.network = "unreachable" <=> s.port = "failed"
      /\ signals.route = "missing" <=> s.route = "failed"
      /\ signals.http = "unhealthy" <=> s.http = "failed"
  BY <1>1 DEF portalHealthSignals, portalCheckSignal, Checks
<1>3. signals.process = portalProcessSignal(s)
  BY DEF portalHealthSignals
<1>4. signals.process = "stopped" <=>
        s.desired.kind # "scheduled" /\ s.launchd \in {"not running", "not loaded"}
  BY <1>1, <1>3 DEF portalProcessSignal, LaunchdStates, Empty
<1>5. OverallState(s) = "ok" =>
        /\ "failed" \notin Probes(s) /\ s.launchd # "not loaded" /\ LaunchdOK(s)
  BY DEF OverallState, deriveOverall
<1>6. OverallState(s) = "down" => s.launchd = "not loaded" \/ "failed" \in Probes(s)
  BY DEF OverallState, deriveOverall
<1>7. QED
  BY <1>2, <1>4, <1>5, <1>6 DEF Probes, LaunchdOK

LEMMA PagePortal ==
  ASSUME NEW page \in Pages
  PROVE  LET portal == buildPortalStatus(page)
             bad(n) ==
                 LET signals == portal.services[n].signals
                 IN  \/ signals.process = "stopped" \/ signals.network = "unreachable"
                     \/ signals.route = "missing"   \/ signals.http = "unhealthy"
         IN  /\ portal.overall = "healthy" =>
                   overallStateFromIncidents(deriveIncidents(page)) = "healthy"
             /\ portal.overall = "unavailable" <=> countServiceStates(page)["down"] # {}
             /\ \A n \in Listed(page) :
                   /\ portal.services[n].state = "healthy" => ~bad(n)
                   /\ portal.services[n].state = "unavailable" =>
                         bad(n) \/ page[n].desired.kind = "scheduled"
<1> DEFINE portal == buildPortalStatus(page)
           state(n) == portalState[OverallState(page[n])]
           states == {state(n) : n \in {m \in Listed(page) : IsEnabled(page[m].desired)}}
           signals(n) == portal.services[n].signals
           bad(n) == \/ signals(n).process = "stopped" \/ signals(n).network = "unreachable"
                     \/ signals(n).route = "missing"   \/ signals(n).http = "unhealthy"
           counts == countServiceStates(page)
<1>1. \A n \in Listed(page) : page[n] \in ServiceStatus
  BY DEF Pages, Listed
<1>2. portal.overall = aggregatePortalState(states)
  BY DEF buildPortalStatus
<1>3. \A n \in Listed(page) :
        portal.services[n].state = state(n) /\ signals(n) = portalHealthSignals(page[n])
  BY DEF buildPortalStatus
<1>4. /\ counts["down"] = {n \in Listed(page) : Bucket[OverallState(page[n])] = "down"}
      /\ counts["degraded"] = {n \in Listed(page) : Bucket[OverallState(page[n])] = "degraded"}
  <2>1. {"down", "degraded"} \subseteq {Bucket[o] : o \in DOMAIN Bucket}
    BY DEF Bucket
  <2>2. QED
    BY <2>1 DEF countServiceStates
<1>5. \A n \in Listed(page) :
        /\ Bucket[OverallState(page[n])] = "down" <=> OverallState(page[n]) = "down"
        /\ Bucket[OverallState(page[n])] = "degraded" <=> OverallState(page[n]) = "warn"
  BY <1>1, PortalStates DEF Bucket
<1>6. "unavailable" \in states <=> counts["down"] # {}
  <2>1. "unavailable" \in states <=>
          \E n \in Listed(page) : IsEnabled(page[n].desired) /\ state(n) = "unavailable"
    OBVIOUS
  <2>2. QED
    BY <1>1, <1>4, <1>5, <2>1, PortalStates
<1>7. portal.overall = "unavailable" <=> "unavailable" \in states
  BY <1>2 DEF aggregatePortalState
<1>8. portal.overall = "healthy" => states \cap {"unavailable", "degraded"} = {}
  BY <1>2 DEF aggregatePortalState
<1>9. states \cap {"unavailable", "degraded"} = {} =>
        counts["down"] \cup counts["degraded"] = {}
  <2> SUFFICES ASSUME states \cap {"unavailable", "degraded"} = {}, NEW n \in Listed(page)
               PROVE  OverallState(page[n]) \notin {"down", "warn"}
    BY <1>4, <1>5
  <2>1. CASE IsEnabled(page[n].desired)
    <3>1. state(n) \in states
      BY <2>1
    <3>2. QED
      BY <1>1, <3>1, PortalStates
  <2>2. CASE ~IsEnabled(page[n].desired)
    BY <1>1, <2>2, PortalStates
  <2>3. QED
    BY <2>1, <2>2
<1>10. portal.overall = "healthy" => overallStateFromIncidents(deriveIncidents(page)) = "healthy"
  BY <1>8, <1>9, PageTriage
<1>11. ASSUME NEW n \in Listed(page)
       PROVE  /\ portal.services[n].state = "healthy" => ~bad(n)
              /\ portal.services[n].state = "unavailable" =>
                    bad(n) \/ page[n].desired.kind = "scheduled"
  <2>1. page[n] \in ServiceStatus /\ signals(n) = portalHealthSignals(page[n])
    BY <1>1, <1>3
  <2>2. /\ OverallState(page[n]) = "ok" => ~bad(n)
        /\ OverallState(page[n]) = "down" => bad(n) \/ page[n].desired.kind = "scheduled"
    BY <2>1, SignalsAccount
  <2>3. QED
    BY <1>3, <2>1, <2>2, PortalStates
<1>12. QED
  BY <1>6, <1>7, <1>10, <1>11

(* The portal never shows a page healthier than Admin does, and its        *)
(* signals account for the states it shows.                                *)
THEOREM PortalAgrees == Spec => []PortalNeverRosier
<1>1. TypeOK => PortalNeverRosier
  BY PagePortal DEF TypeOK, RequestState, PortalNeverRosier
<1>2. QED
  BY <1>1, AdminTypes, PTL

-----------------------------------------------------------------------------
(* What a page offers *)

\* A page shows the services of the valid registry it was made from.
Shows(q) ==
    /\ q.step = "load" => Validate(q.snapshot)
    /\ \A n \in Listed(q.page) :
          /\ Validate(q.snapshot)
          /\ n \in Registered(q.snapshot)
          /\ q.page[n].desired = q.snapshot[n]

AllShow == \A p \in Requests : Shows(request[p])

LEMMA IdleShows == Shows(Idle)
  BY DEF Shows, Idle, NoPage, Listed

\* A step that is not about a page leaves it.
LEMMA PageKept ==
  ASSUME NEW q, Shows(q), NEW s, s.step # "load", s.page = q.page, s.snapshot = q.snapshot
  PROVE  Shows(s)
  BY DEF Shows

LEMMA BecomeShows ==
  ASSUME TypeOK, AllShow, NEW p \in Requests, NEW s, Shows(s), Become(p, s)
  PROVE  AllShow'
<1>1. \A x \in Requests : request'[x] = IF x = p THEN s ELSE request[x]
  BY DEF TypeOK, Become
<1>2. QED
  BY <1>1 DEF AllShow, Shows

LEMMA ActionShows ==
  ASSUME TypeOK, AllShow, NEW p \in Requests,
         \/ Receive(p) \/ CheckRequest(p) \/ Authorise(p) \/ ScriptEnds(p)
         \/ Perform(p) \/ Audit(p) \/ Respond(p)
  PROVE  AllShow'
<1> DEFINE q == request[p]
<1>1. q \in RequestState /\ Shows(q)
  BY DEF TypeOK, AllShow
<1>2. CASE Receive(p)
  <2>1. PICK c \in Callers, a \in Actions, t \in Targets, k \in BOOLEAN :
          Become(p, [Idle EXCEPT !.step = "check", !.caller = c, !.action = a,
                                 !.target = t, !.confirm = k])
    BY <1>2 DEF Receive
  <2> DEFINE s == [Idle EXCEPT !.step = "check", !.caller = c, !.action = a,
                               !.target = t, !.confirm = k]
  <2>2. s.step = "check" /\ s.page = Idle.page /\ s.snapshot = Idle.snapshot
    BY DEF Idle
  <2> HIDE DEF s
  <2>3. Shows(s)
    BY <2>2, IdleShows, PageKept
  <2>4. QED
    BY <2>1, <2>3, BecomeShows DEF s
<1>3. CASE CheckRequest(p)
  <2> DEFINE auth == [q EXCEPT !.step = "authorise",
                               !.granted = Authorised(registry, q.action, q.target)]
             perf == [q EXCEPT !.step = "perform"]
  <2>1. /\ auth.step = "authorise" /\ auth.page = q.page /\ auth.snapshot = q.snapshot
        /\ perf.step = "perform" /\ perf.page = q.page /\ perf.snapshot = q.snapshot
    BY <1>1 DEF RequestState
  <2>2. Become(p, Idle) \/ Become(p, auth) \/ Become(p, perf)
    BY <1>3 DEF CheckRequest
  <2> HIDE DEF auth, perf
  <2>3. Shows(auth) /\ Shows(perf)
    BY <1>1, <2>1, PageKept
  <2>4. QED
    BY <2>2, <2>3, IdleShows, BecomeShows
<1>4. CASE Authorise(p)
  <2> DEFINE runs    == [q EXCEPT !.step = "script", !.ran = TRUE]
             refuses == [q EXCEPT !.step = "audit"]
  <2>1. /\ runs.step = "script" /\ runs.page = q.page /\ runs.snapshot = q.snapshot
        /\ refuses.step = "audit" /\ refuses.page = q.page /\ refuses.snapshot = q.snapshot
    BY <1>1 DEF RequestState
  <2>2. Become(p, runs) \/ Become(p, refuses)
    BY <1>4 DEF Authorise
  <2> HIDE DEF runs, refuses
  <2>3. Shows(runs) /\ Shows(refuses)
    BY <1>1, <2>1, PageKept
  <2>4. QED
    BY <2>2, <2>3, BecomeShows
<1>5. CASE ScriptEnds(p) \/ Perform(p)
  <2>1. PICK ok \in BOOLEAN : \/ Become(p, [q EXCEPT !.step = "audit", !.ok = ok])
                              \/ Become(p, [q EXCEPT !.step = "audit", !.ok = ok, !.ran = TRUE])
    BY <1>5 DEF ScriptEnds, Perform
  <2> DEFINE ended == [q EXCEPT !.step = "audit", !.ok = ok]
             performed == [q EXCEPT !.step = "audit", !.ok = ok, !.ran = TRUE]
  <2>2. /\ ended.step = "audit" /\ ended.page = q.page /\ ended.snapshot = q.snapshot
        /\ performed.step = "audit" /\ performed.page = q.page
        /\ performed.snapshot = q.snapshot
    BY <1>1 DEF RequestState
  <2>3. Become(p, ended) \/ Become(p, performed)
    BY <2>1
  <2> HIDE DEF ended, performed
  <2>4. Shows(ended) /\ Shows(performed)
    BY <1>1, <2>2, PageKept
  <2>5. QED
    BY <2>3, <2>4, BecomeShows
<1>6. CASE Audit(p)
  <2> DEFINE logged == [q EXCEPT !.step = "respond", !.event = EventOf(q)]
             failed == [q EXCEPT !.step = "respond", !.ok = FALSE]
  <2>1. /\ logged.step = "respond" /\ logged.page = q.page /\ logged.snapshot = q.snapshot
        /\ failed.step = "respond" /\ failed.page = q.page /\ failed.snapshot = q.snapshot
    BY <1>1 DEF RequestState
  <2>2. Become(p, logged) \/ Become(p, failed)
    BY <1>6 DEF Audit
  <2> HIDE DEF logged, failed
  <2>3. Shows(logged) /\ Shows(failed)
    BY <1>1, <2>1, PageKept
  <2>4. QED
    BY <2>2, <2>3, BecomeShows
<1>7. CASE Respond(p)
  BY <1>7, IdleShows, BecomeShows DEF Respond
<1>8. QED
  BY <1>2, <1>3, <1>4, <1>5, <1>6, <1>7

\* A page begins with a registry that loads, and is made of it.
LEMMA PageShows ==
  ASSUME TypeOK, AllShow, NEW p \in Requests, BeginPage(p) \/ Collect(p)
  PROVE  AllShow'
<1> DEFINE q == request[p]
<1>1. q \in RequestState /\ Shows(q)
  BY DEF TypeOK, AllShow
<1>2. CASE BeginPage(p)
  <2> DEFINE s == [Idle EXCEPT !.step = "load", !.snapshot = registry]
  <2>1. s.page = Idle.page /\ s.snapshot = registry /\ Idle.page = NoPage
    BY DEF Idle
  <2>2. Become(p, s) /\ Validate(registry)
    BY <1>2 DEF BeginPage
  <2> HIDE DEF s
  <2>3. Shows(s)
    BY <2>1, <2>2 DEF Shows, NoPage, Listed
  <2>4. QED
    BY <2>2, <2>3, BecomeShows
<1>3. CASE Collect(p)
  <2> DEFINE r == q.snapshot
  <2>1. PICK l, c : Become(p, [q EXCEPT !.step = "page", !.page = Page(r, l, c)])
    BY <1>3 DEF Collect
  <2> DEFINE s == [q EXCEPT !.step = "page", !.page = Page(r, l, c)]
  <2>2. s.step = "page" /\ s.page = Page(r, l, c) /\ s.snapshot = r
    BY <1>1 DEF RequestState
  <2>3. Become(p, s)
    BY <2>1
  <2>4. Validate(r)
    BY <1>1, <1>3 DEF Collect, Shows
  <2> HIDE DEF s
  <2>5. \A n \in Listed(Page(r, l, c)) :
          n \in Registered(r) /\ Page(r, l, c)[n].desired = r[n]
    BY DEF Listed, Page
  <2>6. Shows(s)
    BY <2>2, <2>4, <2>5 DEF Shows
  <2>7. QED
    BY <2>3, <2>6, BecomeShows
<1>4. QED
  BY <1>2, <1>3

LEMMA PagesShow == Spec => []AllShow
<1>1. Init => AllShow
  BY IdleShows DEF Init, AllShow
<1>2. TypeOK /\ AllShow /\ [Next]_vars => AllShow'
  <2> SUFFICES ASSUME TypeOK, AllShow, [Next]_vars PROVE AllShow'
    OBVIOUS
  <2>1. CASE Edit
    <3>1. ASSUME NEW p \in Requests
          PROVE  Shows(request'[p])
      <4> DEFINE q == request[p]
                 g == [q EXCEPT !.granted = @ \/ Authorised(registry', q.action, q.target)]
      <4>1. q \in RequestState /\ Shows(q)
        BY DEF TypeOK, AllShow
      <4>2. g.step = q.step /\ g.page = q.page /\ g.snapshot = q.snapshot
        BY <4>1 DEF RequestState
      <4>3. request'[p] = IF q.step = "authorise" THEN g ELSE q
        BY <2>1 DEF Edit
      <4> HIDE DEF g
      <4>4. q.step = "authorise" => Shows(g)
        BY <4>1, <4>2, PageKept
      <4>5. QED
        BY <4>1, <4>3, <4>4
    <3>2. QED
      BY <3>1 DEF AllShow, Shows
  <2>2. CASE Relaunch
    <3>1. \A p \in Requests : request'[p] = Idle
      BY <2>2 DEF Relaunch
    <3>2. QED
      BY <3>1, IdleShows DEF AllShow, Shows
  <2>3. CASE Expire \/ UNCHANGED vars
    BY <2>3 DEF Expire, vars, AllShow, Shows
  <2>4. ASSUME NEW p \in Requests, Step(p)
        PROVE  AllShow'
    BY <2>4, ActionShows, PageShows DEF Step
  <2>5. QED
    BY <2>1, <2>2, <2>3, <2>4 DEF Next
<1>3. QED
  BY <1>1, <1>2, AdminTypes, PTL DEF Spec

\* The actions offered for a service of a valid registry.
LEMMA OfferIsAllowed ==
  ASSUME NEW r, Validate(r), NEW n \in Registered(r), NEW a \in actionsForService(n, r[n])
  PROVE  targetAllowed(r, a, n) <=> (a \in CaddyActions => n = "caddy")
<1> DEFINE ops == serviceOperations(n, r[n])
<1>1. ops \subseteq {"start", "stop", "restart", "reload"}
      /\ ("reload" \in ops => r[n].type = "system")
  BY DEF serviceOperations
<1>2. CASE a \in ServiceActions
  <2>1. \E op \in ops : a = serviceActionID[op]
    BY <1>2 DEF actionsForService, ServiceActions
  <2>2. Operation[a] \in ops
    BY <1>1, <1>2, <2>1 DEF serviceActionID, Operation, ServiceActions
  <2>3. QED
    BY <1>2, <2>2 DEF targetAllowed, Authorised, ServiceActions, CaddyActions
<1>3. CASE a \notin ServiceActions
  <2>1. \/ a \in CaddyActions /\ r[n].type = "system"
        \/ a = "admin.restart" /\ n = "admin"
    BY <1>1, <1>3 DEF actionsForService, serviceActionID, ServiceActions, CaddyActions
  <2>2. QED
    BY <1>3, <2>1 DEF targetAllowed, AllowedTargets, CaddyActions
<1>4. QED
  BY <1>2, <1>3

(* For any registries, of the actions a page offers those on Caddy are     *)
(* accepted for the service named caddy only, and all the others are, on   *)
(* the registry the page was made from; and the stop that an incident      *)
(* recommends is offered.                                                  *)
THEOREM OffersAccepted == Spec => []OffersAreAccepted
<1>1. TypeOK /\ AllShow => OffersAreAccepted
  <2> SUFFICES ASSUME TypeOK, AllShow, NEW p \in Requests, NEW n \in Listed(request[p].page)
               PROVE  LET q == request[p]
                          svc == q.page[n].desired
                      IN  /\ \A a \in actionsForService(n, svc) :
                                targetAllowed(q.snapshot, a, n) <=>
                                    (a \in CaddyActions => n = "caddy")
                          /\ Trouble(q.page[n]) = "disabled-loaded" /\ svc.lifecycle = "managed"
                                => "service.stop" \in actionsForService(n, svc)
    BY DEF OffersAreAccepted
  <2> DEFINE q == request[p]
             r == q.snapshot
             svc == q.page[n].desired
  <2>1. Validate(r) /\ n \in Registered(r) /\ svc = r[n]
    BY DEF AllShow, Shows
  <2>2. \A a \in actionsForService(n, svc) :
          targetAllowed(r, a, n) <=> (a \in CaddyActions => n = "caddy")
    BY <2>1, OfferIsAllowed
  <2>3. Trouble(q.page[n]) = "disabled-loaded" => ~IsEnabled(svc)
    BY DEF Trouble
  <2>4. ~IsEnabled(svc) /\ svc.lifecycle = "managed" => "service.stop" \in actionsForService(n, svc)
    BY DEF actionsForService, serviceOperations, serviceActionID
  <2>5. QED
    BY <2>2, <2>3, <2>4
<1>2. QED
  BY <1>1, AdminTypes, PagesShow, PTL
===============================================================================
