-------------------------- MODULE RegistryCellProofs --------------------------
(***************************************************************************)
(* What every sequence of edits keeps true of the registry, for any names  *)
(* and services.  The inductive invariant is that the registry is valid;   *)
(* the two invariants about the generated artifacts follow from it.        *)
(***************************************************************************)
EXTENDS Gateway, TLAPS

LEMMA EditTypes ==
  ASSUME NEW r \in Registries, NEW n \in Names, NEW svc \in Service
  PROVE  WithService(r, n, svc) \in Registries /\ WithoutService(r, n) \in Registries
  BY DEF Registries, WithService, WithoutService

LEMMA EmptyRegistryValid == EmptyRegistry \in Registries /\ Validate(EmptyRegistry)
  BY DEF EmptyRegistry, Registries, Validate, Registered, BrokerOK

\* In a valid registry, a service behind the broker that is enabled has an
\* enabled broker with an upstream: the per-service check finds the broker and
\* its upstream, the check after the loop that it is enabled.
LEMMA GateHasBroker ==
  ASSUME NEW r \in Registries, Validate(r),
         NEW n \in Registered(r), IsEnabled(r[n]), RequiresAuthBroker(r[n])
  PROVE  /\ Broker \in Registered(r)
         /\ IsEnabled(r[Broker])
         /\ r[Broker].upstream \in Upstreams
<1>1. Broker \in Registered(r) /\ r[Broker].upstream # Empty
  BY DEF Validate, ValidService, AuthOK
<1>2. IsEnabled(r[Broker])
  <2>1. CASE n = Broker
    BY <2>1
  <2>2. CASE n # Broker
    BY <1>1, <2>2 DEF Validate, BrokerOK
  <2>3. QED
    BY <2>1, <2>2
<1>3. r[Broker] \in Service
  BY <1>1 DEF Registered, Registries
<1>4. QED
  BY <1>1, <1>2, <1>3 DEF Service

\* The url of a service is the host its route matches when it has a route and
\* that host is no wildcard, and none otherwise.
LEMMA UrlIsRoute ==
  ASSUME NEW r \in Registries, NEW n \in Registered(r)
  PROVE  RoutableURL(r[n]) =
           IF n \in RoutedNames(r) /\ ~IsWildcard(ResolvedHost(r[n]))
           THEN ResolvedHost(r[n]) ELSE NoHost
<1>1. CASE ~IsEnabled(r[n])
  BY <1>1 DEF RoutableURL, RoutedNames
<1>2. CASE IsEnabled(r[n]) /\ ~HasAddress(r[n])
  <2>1. ResolvedHost(r[n]) = NoHost
    BY <1>2 DEF HasAddress, ResolvedHost, NoHost
  <2>2. QED
    BY <1>2, <2>1 DEF RoutableURL, RoutableHost, RoutedNames
<1>3. CASE IsEnabled(r[n]) /\ ResolvedHost(r[n]) = <<"subdomain", Apex>>
  <2>1. IsWildcard(ResolvedHost(r[n]))
    BY <1>3 DEF IsWildcard
  <2>2. QED
    BY <2>1 DEF RoutableURL, RoutableHost
<1>4. CASE n \in RoutedNames(r)
  BY <1>4 DEF RoutedNames, RoutableURL, RoutableHost
<1>5. QED
  BY <1>1, <1>2, <1>3, <1>4 DEF RoutedNames

\* A service has a url exactly when it has a route that is no wildcard.
LEMMA HasUrl ==
  ASSUME NEW r \in Registries, NEW n \in Registered(r)
  PROVE  RoutableURL(r[n]) # NoHost <=>
           n \in RoutedNames(r) /\ ~IsWildcard(ResolvedHost(r[n]))
<1>1. n \in RoutedNames(r) => ResolvedHost(r[n]) # NoHost
  BY DEF RoutedNames, HasAddress, ResolvedHost, NoHost
<1>2. QED
  BY <1>1, UrlIsRoute

\* The catalog shows the portal all of a service that it looks at.
LEMMA PortalEntry ==
  ASSUME NEW r \in Registries, NEW n \in Registered(r)
  PROVE  buildPortalCatalog(r)[n] = projectCatalogService(r[n])
<1> DEFINE entry == buildCatalog(r)[n].service
<1>1. r[n] \in Service
  BY DEF Registered, Registries
<1>2. entry = [f \in DOMAIN r[n] \ {"private"} |-> r[n][f]]
  BY DEF buildCatalog
<1>3. {"type", "lifecycle", "enabled", "subdomain", "host"} \subseteq DOMAIN r[n] \ {"private"}
  BY <1>1 DEF Service
<1>4. /\ entry.type = r[n].type /\ entry.lifecycle = r[n].lifecycle
      /\ entry.enabled = r[n].enabled
      /\ entry.subdomain = r[n].subdomain /\ entry.host = r[n].host
  BY <1>2, <1>3
<1>5. buildPortalCatalog(r)[n] = projectCatalogService(entry)
  BY DEF buildPortalCatalog, buildCatalog
<1> HIDE DEF entry
<1>6. ResolvedHost(entry) = ResolvedHost(r[n])
  BY <1>4 DEF ResolvedHost
<1>7. RoutableURL(entry) = RoutableURL(r[n])
  BY <1>4, <1>6 DEF RoutableURL, RoutableHost, IsEnabled
<1>8. projectCatalogService(entry) = projectCatalogService(r[n])
  BY <1>4, <1>7 DEF projectCatalogService
<1>9. QED
  BY <1>5, <1>8

-----------------------------------------------------------------------------
(* The registry is a registry: every entry is a service or absent.         *)
THEOREM CellTypes == Spec => []TypeOK
<1>1. Init => TypeOK
  BY CellAssumption, EmptyRegistryValid DEF Init, TypeOK
<1>2. TypeOK /\ [Next]_registry => TypeOK'
  <2> SUFFICES ASSUME TypeOK, [Next]_registry
               PROVE  TypeOK'
    OBVIOUS
  <2>1. ASSUME NEW n \in Names, NEW svc \in Candidates, Put(n, svc)
        PROVE  TypeOK'
    BY <2>1, CellAssumption, EditTypes DEF TypeOK, Put
  <2>2. ASSUME NEW n \in Names, Delete(n)
        PROVE  TypeOK'
    BY <2>2 DEF TypeOK, Delete, WithoutService, Registries
  <2>3. CASE UNCHANGED registry
    BY <2>3 DEF TypeOK
  <2>4. QED
    BY <2>1, <2>2, <2>3 DEF Next
<1>3. QED
  BY <1>1, <1>2, PTL DEF Spec

(* No edit that is accepted leaves an invalid registry behind.             *)
THEOREM CellValid == Spec => []Validate(registry)
<1>1. Init => Validate(registry)
  BY CellAssumption, EmptyRegistryValid DEF Init
<1>2. Validate(registry) /\ [Next]_registry => Validate(registry)'
  <2> SUFFICES ASSUME Validate(registry), [Next]_registry
               PROVE  Validate(registry)'
    OBVIOUS
  <2>1. CASE Next
    BY <2>1 DEF Next, Put, Delete
  <2>2. CASE UNCHANGED registry
    <3>1. registry' = registry
      BY <2>2
    <3>2. QED
      BY <3>1
  <2>3. QED
    BY <2>1, <2>2
<1>3. QED
  BY <1>1, <1>2, PTL DEF Spec

(* Every gate of an enabled route forwards to a registered and enabled     *)
(* broker, whatever sequence of adds and removes led to the registry.      *)
THEOREM GatesAreServed == Spec => []BrokerGatesServed
<1>1. TypeOK /\ Validate(registry) => BrokerGatesServed
  <2> SUFFICES ASSUME TypeOK, Validate(registry),
                      NEW n \in RoutedNames(registry), RequiresAuthBroker(registry[n])
               PROVE  /\ Broker \in Registered(registry)
                      /\ IsEnabled(registry[Broker])
                      /\ GenerateCaddyfile(registry)[n].gate.forward
                            \in Upstreams \cap {registry[Broker].upstream}
    BY DEF BrokerGatesServed
  <2>1. n \in Registered(registry) /\ IsEnabled(registry[n])
    BY DEF RoutedNames
  <2>2. /\ Broker \in Registered(registry)
        /\ IsEnabled(registry[Broker])
        /\ registry[Broker].upstream \in Upstreams
    BY <2>1, GateHasBroker DEF TypeOK
  <2>3. GenerateCaddyfile(registry)[n].gate.forward = registry[Broker].upstream
    BY <2>2 DEF GenerateCaddyfile, Gate
  <2>4. QED
    BY <2>2, <2>3
<1>2. QED
  BY <1>1, CellTypes, CellValid, PTL

(* The catalog, the plists and the Caddyfile never disagree about where a  *)
(* service is reached.                                                     *)
THEOREM UrlsAreRoutes == Spec => []PublishedUrlsAreRoutes
<1>1. TypeOK => PublishedUrlsAreRoutes
  <2> SUFFICES ASSUME TypeOK, NEW n \in Registered(registry)
               PROVE  /\ n \in AgentNames(registry) =>
                            GenerateLaunchdPlist(n, registry[n]).selfURL
                              = buildCatalog(registry)[n].url
                      /\ IF n \in DOMAIN GenerateCaddyfile(registry)
                            /\ ~IsWildcard(GenerateCaddyfile(registry)[n].host)
                         THEN buildCatalog(registry)[n].url = GenerateCaddyfile(registry)[n].host
                         ELSE buildCatalog(registry)[n].url = NoHost
    BY DEF PublishedUrlsAreRoutes
  <2>1. buildCatalog(registry)[n].url = RoutableURL(registry[n])
    BY DEF buildCatalog
  <2>2. GenerateLaunchdPlist(n, registry[n]).selfURL = RoutableURL(registry[n])
    BY DEF GenerateLaunchdPlist
  <2>3. DOMAIN GenerateCaddyfile(registry) = RoutedNames(registry)
    BY DEF GenerateCaddyfile
  <2>4. n \in RoutedNames(registry) =>
          GenerateCaddyfile(registry)[n].host = ResolvedHost(registry[n])
    BY DEF GenerateCaddyfile
  <2>5. RoutableURL(registry[n]) =
           IF n \in RoutedNames(registry) /\ ~IsWildcard(ResolvedHost(registry[n]))
           THEN ResolvedHost(registry[n]) ELSE NoHost
    BY UrlIsRoute DEF TypeOK
  <2>6. QED
    BY <2>1, <2>2, <2>3, <2>4, <2>5
<1>2. QED
  BY <1>1, CellTypes, PTL

(* What the portal shows of a service - whether it can be opened, where,   *)
(* and who runs it - is what the generators made of it.                    *)
THEOREM PortalIsTruthful == Spec => []PortalShowsWhatIsDeployed
<1> DEFINE caddyfile == GenerateCaddyfile(registry)
           portal    == buildPortalCatalog(registry)
<1>1. ASSUME TypeOK, NEW n \in Registered(registry)
      PROVE  /\ portal[n].launchable <=>
                    n \in DOMAIN caddyfile /\ ~IsWildcard(caddyfile[n].host)
             /\ portal[n].launchable =>
                    (portal[n].scope = "tailnet" <=> caddyfile[n].host[1] = "subdomain")
             /\ portal[n].lifecycle = "managed" /\ portal[n].launchable =>
                    /\ n \in AgentNames(registry)
                    /\ "restart" \in serviceOperations(n, registry[n])
             /\ portal[n].lifecycle \in {"static", "system"} => n \notin AgentNames(registry)
  <2> DEFINE svc == registry[n]
  <2>1. portal[n] = projectCatalogService(svc)
    BY <1>1, PortalEntry DEF TypeOK
  <2>2. DOMAIN caddyfile = RoutedNames(registry)
    BY DEF GenerateCaddyfile
  <2>3. n \in RoutedNames(registry) => caddyfile[n].host = ResolvedHost(svc)
    BY DEF GenerateCaddyfile
  <2>4. portal[n].launchable <=> RoutableURL(svc) # NoHost
    <3>1. projectCatalogService(svc).launchable = (RoutableURL(svc) # NoHost)
      BY Zenon DEF projectCatalogService
    <3>2. QED
      BY <2>1, <3>1
  <2>5. portal[n].launchable <=>
          n \in RoutedNames(registry) /\ ~IsWildcard(ResolvedHost(svc))
    BY <1>1, <2>4, HasUrl DEF TypeOK
  <2>6. ResolvedHost(svc)[1] = "subdomain" <=> svc.subdomain # Empty
    BY DEF ResolvedHost
  <2>7. portal[n].scope = "tailnet" <=> svc.subdomain # Empty
    BY <2>1 DEF projectCatalogService
  <2>8. portal[n].launchable => IsEnabled(svc)
    BY <2>5 DEF RoutedNames
  <2>9. portal[n].lifecycle = "managed" =>
          svc.type \notin {"static", "system"} /\ svc.lifecycle = "managed"
    BY <2>1 DEF projectCatalogService
  <2>10. IsEnabled(svc) /\ svc.type \notin {"static", "system"} /\ svc.lifecycle = "managed" =>
           n \in AgentNames(registry) /\ "restart" \in serviceOperations(n, svc)
    BY <1>1 DEF AgentNames, generatesAgentPlist, serviceOperations
  <2>11. portal[n].lifecycle \in {"static", "system"} => n \notin AgentNames(registry)
    BY <2>1 DEF projectCatalogService, AgentNames, generatesAgentPlist
  <2>12. QED
    BY <2>2, <2>3, <2>5, <2>6, <2>7, <2>8, <2>9, <2>10, <2>11
<1>2. TypeOK => PortalShowsWhatIsDeployed
  BY <1>1 DEF PortalShowsWhatIsDeployed
<1>3. QED
  BY <1>2, CellTypes, PTL

\* What a valid registry says of a proxy or split service found by its host.
LEMMA HostIsRouted ==
  ASSUME NEW r \in Registries, Validate(r), NEW n \in Registered(r),
         IsEnabled(r[n]), r[n].host # Empty, r[n].type \in {"proxy", "split"}
  PROVE  /\ n \in DOMAIN GenerateCaddyfile(r)
         /\ GenerateCaddyfile(r)[n].host = <<"host", r[n].host>>
         /\ GenerateCaddyfile(r)[n].body.upstream = r[n].upstream
         /\ r[n].upstream # Empty
<1>1. r[n].subdomain = Empty /\ r[n].upstream # Empty
  BY DEF Validate, ValidService, ShapeOK, AddressOK
<1>2. ResolvedHost(r[n]) = <<"host", r[n].host>>
  BY <1>1 DEF ResolvedHost
<1>3. n \in RoutedNames(r)
  BY <1>2 DEF RoutedNames, HasAddress
<1>4. n \in DOMAIN GenerateCaddyfile(r) /\ GenerateCaddyfile(r)[n].host = ResolvedHost(r[n])
  BY <1>3 DEF GenerateCaddyfile
<1>5. GenerateCaddyfile(r)[n].body.upstream = r[n].upstream
  BY <1>3 DEF GenerateCaddyfile, Body
<1>6. QED
  BY <1>1, <1>2, <1>4, <1>5

\* A handle that admits a request is the handle of a service the gateway's loop
\* matches.
LEMMA HandleIsMatched ==
  ASSUME NEW r \in Registries, NEW h \in RequestHosts,
         NEW n \in Handles(GenerateCaddyfile(r), h)
  PROVE  n \in Registered(r) /\ Matches(r[n], h)
<1> DEFINE caddyfile == GenerateCaddyfile(r)
<1>1. n \in DOMAIN caddyfile
  BY DEF Handles
<1>2. DOMAIN caddyfile = RoutedNames(r)
  BY DEF GenerateCaddyfile
<1>3. n \in Registered(r) /\ IsEnabled(r[n])
  BY <1>1, <1>2 DEF RoutedNames
<1>4. caddyfile[n].host = ResolvedHost(r[n])
  BY <1>1, <1>2 DEF GenerateCaddyfile
<1>5. \A w : ResolvedHost(r[n]) = <<"host", w>> => r[n].host = w
  BY DEF ResolvedHost
<1>6. CASE caddyfile[n].host = <<"host", h>>
  BY <1>3, <1>4, <1>5, <1>6, GatewayAssumption DEF Matches
<1>7. CASE \E w \in WildHosts : caddyfile[n].host = <<"host", w>> /\ <<h, w>> \in OneLabel
  <2>1. PICK w \in WildHosts : caddyfile[n].host = <<"host", w>> /\ <<h, w>> \in OneLabel
    BY <1>7
  <2>2. r[n].host = w
    BY <1>4, <1>5, <2>1
  <2>3. w # Empty /\ <<h, w>> \in Suffixed
    BY <2>1, FieldsAssumption, GatewayAssumption
  <2>4. QED
    BY <1>3, <2>2, <2>3 DEF Matches
<1>8. QED
  BY <1>6, <1>7 DEF Handles

(* Whatever host a request asks for and however the registry was edited,   *)
(* the development gateway forwards only to enabled services and as Caddy  *)
(* would, except where a wildcard's star stands for more than one label,   *)
(* and what Caddy has a handle for is among its choices.                   *)
THEOREM GatewayAgrees == Spec => []GatewayFollowsCaddy
<1> DEFINE caddyfile == GenerateCaddyfile(registry)
<1>1. ASSUME TypeOK, Validate(registry), NEW h \in RequestHosts,
             NEW n \in GatewayTargets(registry, h),
             registry[n].type \in {"proxy", "split"}
      PROVE  /\ n \in DOMAIN caddyfile
             /\ caddyfile[n].body.upstream = registry[n].upstream
             /\ registry[n].upstream # Empty
             /\ \/ n \in Handles(caddyfile, h)
                \/ <<h, registry[n].host>> \in Suffixed \ OneLabel
  <2>1. n \in Registered(registry) /\ Matches(registry[n], h)
    BY <1>1 DEF GatewayTargets
  <2>2. /\ n \in DOMAIN caddyfile
        /\ caddyfile[n].host = <<"host", registry[n].host>>
        /\ caddyfile[n].body.upstream = registry[n].upstream
        /\ registry[n].upstream # Empty
    BY <1>1, <2>1, HostIsRouted DEF TypeOK, Matches
  <2>3. CASE registry[n].host = h
    BY <2>2, <2>3 DEF Handles
  <2>4. CASE <<h, registry[n].host>> \in OneLabel
    <3>1. registry[n].host \in WildHosts
      BY <2>4, GatewayAssumption
    <3>2. QED
      BY <2>2, <2>4, <3>1 DEF Handles
  <2>5. CASE <<h, registry[n].host>> \in Suffixed \ OneLabel
    BY <2>2, <2>5
  <2>6. QED
    BY <2>1, <2>2, <2>3, <2>4, <2>5 DEF Matches
<1>2. ASSUME TypeOK, NEW h \in RequestHosts
      PROVE  Handles(caddyfile, h) \ {Self} \subseteq GatewayTargets(registry, h)
  BY <1>2, HandleIsMatched, GatewayAssumption DEF TypeOK, GatewayTargets
<1>3. TypeOK /\ Validate(registry) => GatewayFollowsCaddy
  BY <1>1, <1>2 DEF GatewayFollowsCaddy
<1>4. QED
  BY <1>3, CellTypes, CellValid, PTL
===============================================================================
