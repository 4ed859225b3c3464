----------------------------- MODULE RegistryCell -----------------------------
(***************************************************************************)
(* What services.yaml promises its readers: one value, always valid, that  *)
(* changes only by a whole edit of one entry.  loadRegistry validates what *)
(* it reads and AddService and RemoveService validate what they are about  *)
(* to write, so an edit whose result Validate refuses has no effect.       *)
(* RegistryStore, where an edit is a sequence of file operations, is shown *)
(* to implement this module for one writer at a time.                      *)
(***************************************************************************)
EXTENDS Registry

CONSTANTS
    Candidates,     \* the services an operator may register
    InitialContents \* what services.yaml may hold at the start

ASSUME CellAssumption ==
    /\ Candidates \subseteq Service
    /\ \A r \in InitialContents : r \in Registries /\ Validate(r)

VARIABLE registry

\* AddService's effect: the entry is set, whatever it was before.
Put(n, svc) ==
    /\ Validate(WithService(registry, n, svc))
    /\ registry' = WithService(registry, n, svc)

\* RemoveService's effect.
Delete(n) ==
    /\ Validate(WithoutService(registry, n))
    /\ registry' = WithoutService(registry, n)

\* A profile that has no services.yaml yet counts as an empty registry.
Init == registry \in InitialContents \cup {EmptyRegistry}

Next == \E n \in Names : (\E svc \in Candidates : Put(n, svc)) \/ Delete(n)

Spec == Init /\ [][Next]_registry

-----------------------------------------------------------------------------

TypeOK == registry \in Registries

(* Every enabled route gated by the broker forwards to the upstream of a   *)
(* broker that is registered and enabled: no order of edits leaves a route *)
(* answering 502 because nothing supervises its gate (Validate, both the   *)
(* per-service check and the disabled-broker check after the loop).        *)
BrokerGatesServed ==
    \A n \in RoutedNames(registry) :
        RequiresAuthBroker(registry[n]) =>
            /\ Broker \in Registered(registry)
            /\ IsEnabled(registry[Broker])
            /\ GenerateCaddyfile(registry)[n].gate.forward
                  \in Upstreams \cap {registry[Broker].upstream}

(* The three artifacts agree on where a service lives: the url in the      *)
(* catalog and the one injected in its plist are the same, a url is        *)
(* published exactly for the non-wildcard routes of the Caddyfile, and it  *)
(* is the host that route matches (RoutableURL against GenerateCaddyfile). *)
PublishedUrlsAreRoutes ==
    LET caddyfile == GenerateCaddyfile(registry)
        catalog   == buildCatalog(registry)
    IN  \A n \in Registered(registry) :
            /\ n \in AgentNames(registry) =>
                  GenerateLaunchdPlist(n, registry[n]).selfURL = catalog[n].url
            /\ IF n \in DOMAIN caddyfile /\ ~IsWildcard(caddyfile[n].host)
               THEN catalog[n].url = caddyfile[n].host
               ELSE catalog[n].url = NoHost

(* The portal, which knows only the catalog, tells the truth about what is *)
(* deployed: it launches exactly what Caddy has a concrete route for, with *)
(* the scope of that route's certificate; what it shows as managed and     *)
(* launchable is a job with a plist that Admin can operate, and what it    *)
(* shows as static or system never has an agent (projectCatalogService     *)
(* against GenerateCaddyfile, generatesAgentPlist and serviceOperations).  *)
PortalShowsWhatIsDeployed ==
    LET caddyfile == GenerateCaddyfile(registry)
        portal    == buildPortalCatalog(registry)
    IN  \A n \in Registered(registry) :
            /\ portal[n].launchable <=>
                  n \in DOMAIN caddyfile /\ ~IsWildcard(caddyfile[n].host)
            /\ portal[n].launchable =>
                  (portal[n].scope = "tailnet" <=> caddyfile[n].host[1] = "subdomain")
            /\ portal[n].lifecycle = "managed" /\ portal[n].launchable =>
                  /\ n \in AgentNames(registry)
                  /\ "restart" \in serviceOperations(n, registry[n])
            /\ portal[n].lifecycle \in {"static", "system"} => n \notin AgentNames(registry)
===============================================================================
