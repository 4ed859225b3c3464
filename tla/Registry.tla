------------------------------- MODULE Registry -------------------------------
(***************************************************************************)
(* The service registry (profiles/<name>/services.yaml) and everything the *)
(* engine derives from it: what Validate accepts, which operations Admin   *)
(* may perform on a service, and the generated artifacts - the Caddyfile,  *)
(* the launchd plists and catalog.json.  The derivations are pure, so this *)
(* module has no variables: the modules that store, deploy and operate on  *)
(* registries extend it.                                                   *)
(*                                                                         *)
(* A service is the record of admin/engine.go's Service with the fields    *)
(* these derivations read.  Values whose text does not matter are members  *)
(* of the constant sets: `root' stands for root and api_path, `program'    *)
(* for binary, working_dir and interval_seconds, `private' for args and    *)
(* env (which only the plist shows), `about' for display_name, health and  *)
(* install (which only the catalog shows), `wellFormed' for the character  *)
(* checks on all of them.                                                  *)
(***************************************************************************)
EXTENDS FiniteSets

CONSTANTS
    Names,          \* service names an operator may use
    MalformedNames, \* those of them serviceNamePattern refuses
    Subdomains,     \* ordinary subdomain labels
    WildSubdomains, \* labels of the form "*.x" (one wildcard below the parent)
    Hosts,          \* full host names outside the parent domain
    WildHosts,      \* host names of the form "*.x"
    ParentHosts,    \* host names inside the parent domain
    Upstreams,      \* host:port values of an upstream
    Roots,          \* static roots
    Programs, Privates, Abouts,
    Absent          \* the entry of a name that is not registered

\* The absent value of an optional text field, Go's zero string.
Empty == ""

\* Subdomain "*" composes the wildcard of the whole parent domain, the
\* address the Caddyfile's outer block already serves.
Apex == "*"

ASSUME NamesAssumption == MalformedNames \subseteq Names

ASSUME FieldsAssumption ==
    /\ Empty \notin UNION {Subdomains, WildSubdomains, Hosts, WildHosts,
                           ParentHosts, Upstreams, Roots}
    /\ Apex \notin Subdomains \cup WildSubdomains
    /\ Subdomains \cap WildSubdomains = {}
    /\ Hosts \cap WildHosts = {}
    /\ ParentHosts \cap (Hosts \cup WildHosts) = {}

-----------------------------------------------------------------------------
(* Services and registries *)

Types      == {"system", "task", "split", "static", "proxy", "unsupported"}
Lifecycles == {Empty, "managed", "external", "custom", "unsupported"}
Auths      == {Empty, "none", "tailnet", "sso", "tailnet-or-sso", "unsupported"}

Service ==
    [type : Types, kind : {Empty, "scheduled", "testing"}, lifecycle : Lifecycles,
     enabled : BOOLEAN, auth : Auths, identity : {Empty, "upstream", "unsupported"},
     subdomain : {Empty, Apex} \cup Subdomains \cup WildSubdomains,
     host : {Empty} \cup Hosts \cup WildHosts \cup ParentHosts,
     upstream : {Empty} \cup Upstreams, root : {Empty} \cup Roots,
     program : Programs, private : Privates, about : Abouts,
     wellFormed : BOOLEAN]

ASSUME AbsentAssumption == Absent \notin Service

\* A registry maps each name to its service, or to Absent.
Registries == [Names -> Service \cup {Absent}]

EmptyRegistry == [n \in Names |-> Absent]

Registered(r) == {n \in Names : r[n] # Absent}

\* Wrong on purpose: an added entry whose root lands in its upstream.
WithServiceSwapped(r, n, svc) == [r EXCEPT ![n] = [svc EXCEPT !.upstream = svc.root]]

\* The registry with one entry set, and with one entry dropped.
WithService(r, n, svc) == [r EXCEPT ![n] = svc]
WithoutService(r, n)   == [r EXCEPT ![n] = Absent]

Broker == "tinyauth"

-----------------------------------------------------------------------------
(* Addresses *)

IsEnabled(svc) == svc.enabled

HasAddress(svc) == svc.subdomain # Empty \/ svc.host # Empty

\* A host name, or a label under the parent domain, is kept as the pair of the
\* field it came from and its value.
ResolvedHost(svc) ==
    IF svc.subdomain # Empty THEN <<"subdomain", svc.subdomain>>
                             ELSE <<"host", svc.host>>

NoHost == <<"host", Empty>>

IsWildcard(h) ==
    h \in {"subdomain"} \X (WildSubdomains \cup {Apex})
        \cup {"host"} \X WildHosts

RoutableHost(svc) ==
    IF IsWildcard(ResolvedHost(svc)) THEN NoHost ELSE ResolvedHost(svc)

\* Wrong on purpose: a disabled service keeps its url.
RoutableURLOfDisabled(svc) == RoutableHost(svc)

RoutableURL(svc) == IF IsEnabled(svc) THEN RoutableHost(svc) ELSE NoHost

-----------------------------------------------------------------------------
(* Validation *)

RequiresAuthBroker(svc) == svc.auth \in {"sso", "tailnet-or-sso"}

\* The address of a routed shape: one of subdomain and host, not both, and a
\* host the parent domain's certificate does not already cover.
AddressOK(svc) ==
    /\ svc.subdomain = Empty \/ svc.host = Empty
    /\ svc.host \notin ParentHosts

\* What each type demands of the address, the upstream and the root.
ShapeOK(svc) ==
    \/ svc.type \in {"system", "task"}
    \/ /\ svc.type = "split"
       /\ HasAddress(svc) /\ AddressOK(svc)
       /\ svc.upstream # Empty /\ svc.root # Empty
    \/ /\ svc.type = "static"
       /\ HasAddress(svc) /\ AddressOK(svc)
       /\ svc.root # Empty
    \/ /\ svc.type = "proxy"
       /\ AddressOK(svc)
       /\ svc.upstream # Empty

\* A gate needs a route to sit on, and a broker gate a broker with an upstream.
AuthOK(r, svc) ==
    /\ svc.auth # "unsupported"
    /\ svc.auth \notin {Empty, "none"} => HasAddress(svc)
    /\ RequiresAuthBroker(svc) =>
          Broker \in Registered(r) /\ r[Broker].upstream # Empty

ValidService(r, n) ==
    LET svc == r[n]
    IN  /\ n \notin MalformedNames
        /\ svc.type # "unsupported"
        /\ svc.type = "system" => IsEnabled(svc)
        /\ n = "admin" => IsEnabled(svc)
        /\ svc.lifecycle # "unsupported"
        /\ svc.identity # "unsupported"
        /\ svc.identity = "upstream" => svc.type \in {"proxy", "split"}
        /\ AuthOK(r, svc)
        /\ ShapeOK(svc)
        /\ svc.wellFormed

\* Wrong on purpose: the broker may be disabled under its dependents.
BrokerUnchecked(r) == TRUE

\* A disabled broker may have no enabled dependents other than itself.
BrokerOK(r) ==
    Broker \in Registered(r) /\ ~IsEnabled(r[Broker]) =>
        \A n \in Registered(r) \ {Broker} :
            IsEnabled(r[n]) => ~RequiresAuthBroker(r[n])

Validate(r) == (\A n \in Registered(r) : ValidService(r, n)) /\ BrokerOK(r)

-----------------------------------------------------------------------------
(* Operations *)

IsScheduledTask(svc) == svc.type = "task" \/ svc.kind = "scheduled"

serviceOperations(n, svc) ==
    IF ~IsEnabled(svc)
    THEN IF svc.lifecycle = "managed" THEN {"stop"} ELSE {}
    ELSE IF svc.type = "system" THEN {"reload"}
    ELSE IF n = "admin" THEN {"restart"}
    ELSE IF svc.lifecycle # "managed" THEN {}
    ELSE IF IsScheduledTask(svc) THEN {"start", "restart"}
    ELSE {"start", "stop", "restart"}

-----------------------------------------------------------------------------
(* Generated artifacts *)

generatesAgentPlist(svc) == IsEnabled(svc) /\ svc.type \notin {"system", "static"}

AgentNames(r)  == {n \in Registered(r) : generatesAgentPlist(r[n])}
DaemonNames(r) == {n \in Registered(r) : r[n].type = "system" /\ IsEnabled(r[n])}

\* The services the Caddyfile has a handle block for.
RoutedNames(r) ==
    {n \in Registered(r) : /\ IsEnabled(r[n])
                      /\ HasAddress(r[n])
                      /\ ResolvedHost(r[n]) # <<"subdomain", Apex>>}

\* The gate in front of a route: the lanes it opens and where the broker lane
\* forwards to.
Gate(r, svc) ==
    [tailnet |-> svc.auth \in {"tailnet", "tailnet-or-sso"},
     forward |-> IF RequiresAuthBroker(svc) /\ Broker \in Registered(r)
                 THEN r[Broker].upstream ELSE Empty]

\* The handlers behind the gate.  The portal's static route also proxies the
\* two projection paths to Admin.
Body(r, n) ==
    LET svc == r[n]
    IN  [type |-> svc.type,
         upstream |-> IF svc.type \in {"proxy", "split"} THEN svc.upstream ELSE Empty,
         root     |-> IF svc.type \in {"static", "split"} THEN svc.root ELSE Empty,
         identity |-> svc.identity,
         projections |-> IF n = "portal" /\ svc.type = "static" /\ "admin" \in Registered(r)
                         THEN r["admin"].upstream ELSE Empty]

GenerateCaddyfile(r) ==
    [n \in RoutedNames(r) |->
        [host |-> ResolvedHost(r[n]), gate |-> Gate(r, r[n]), body |-> Body(r, n)]]

GenerateLaunchdPlist(n, svc) ==
    [name |-> n, program |-> svc.program, private |-> svc.private,
     selfHost |-> RoutableHost(svc), selfURL |-> RoutableURL(svc),
     scheduled |-> IsScheduledTask(svc)]

GenerateSystemDaemonPlist(n) == [daemon |-> n]

\* One catalog entry per registered service, disabled ones included; args and
\* env are stripped and the url added.
buildCatalog(r) ==
    [n \in Registered(r) |->
        [service |-> [f \in DOMAIN r[n] \ {"private"} |-> r[n][f]],
         url |-> RoutableURL(r[n])]]

-----------------------------------------------------------------------------
(* Readers of the artifacts *)

\* Wrong on purpose: a launcher for every host, of disabled services too.
projectCatalogServiceOfDisabled(svc) ==
    [url |-> RoutableHost(svc), launchable |-> RoutableHost(svc) # NoHost,
     scope |-> IF svc.subdomain # Empty THEN "tailnet" ELSE "external",
     lifecycle |-> IF svc.lifecycle = "managed" THEN "managed" ELSE "external"]

\* The portal's launcher for a catalog entry; its name and kind are presentation.
projectCatalogService(svc) ==
    [url        |-> RoutableURL(svc),
     launchable |-> RoutableURL(svc) # NoHost,
     scope      |-> IF svc.subdomain # Empty THEN "tailnet"
                    ELSE IF svc.host # Empty THEN "external" ELSE "local",
     lifecycle  |-> IF svc.type \in {"static", "system"} THEN svc.type
                    ELSE IF svc.lifecycle = "managed" THEN "managed" ELSE "external"]

buildPortalCatalog(r) ==
    [n \in DOMAIN buildCatalog(r) |-> projectCatalogService(buildCatalog(r)[n].service)]
===============================================================================
