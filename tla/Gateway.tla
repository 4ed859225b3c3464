------------------------------- MODULE Gateway --------------------------------
(***************************************************************************)
(* The development gateway (dev-gateway/main.go): a program of its own     *)
(* that decodes services.yaml anew for every request, with its own types   *)
(* and without validating it, and forwards the request by its host.  It    *)
(* keeps no state, so what it does is a function of the registry.          *)
(***************************************************************************)
EXTENDS RegistryCell

CONSTANTS
    RequestHosts,   \* host names requests ask for, outside the parent domain
    Suffixed,       \* <<h, w>>: h ends in the wildcard w without its star
    OneLabel        \* <<h, w>>: and one label is all that stands for the star

ASSUME GatewayAssumption ==
    /\ Empty \notin RequestHosts /\ RequestHosts \cap ParentHosts = {}
    /\ Suffixed \subseteq RequestHosts \X WildHosts
    /\ OneLabel \subseteq Suffixed

Self == "dev-gateway"

-----------------------------------------------------------------------------
\* Wrong on purpose: a disabled service is forwarded to.
MatchesDisabled(svc, h) ==
    /\ svc.host # Empty
    /\ svc.host = h \/ <<h, svc.host>> \in Suffixed

\* The test of the loop over the services: the host itself, or a suffix test
\* that any number of labels passes.
Matches(svc, h) ==
    /\ svc.host # Empty /\ IsEnabled(svc)
    /\ svc.host = h \/ <<h, svc.host>> \in Suffixed

\* The services a request for h may be forwarded to.  The loop takes the first
\* match of a map's random order, so each match is a possible outcome; a match
\* that is the gateway itself is passed over, and without any other the request
\* goes nowhere.
GatewayTargets(r, h) == {n \in Registered(r) \ {Self} : Matches(r[n], h)}

\* The handles of a Caddyfile whose host matcher admits a request for h: Caddy's
\* star stands for one label.
Handles(caddyfile, h) ==
    {n \in DOMAIN caddyfile :
        \/ caddyfile[n].host = <<"host", h>>
        \/ \E w \in WildHosts : caddyfile[n].host = <<"host", w>> /\ <<h, w>> \in OneLabel}

-----------------------------------------------------------------------------
(* The gateway's copy of the registry's rules stays in step with what the  *)
(* engine generates, whatever host outside the parent domain is asked for  *)
(* and whichever match its loop meets first.  A proxy or split service it  *)
(* may forward to is enabled, has a handle in the Caddyfile with that same *)
(* upstream, and that handle admits the request too, unless more than one  *)
(* label of the request stands for a wildcard's star: there the gateway's  *)
(* suffix test reaches further than Caddy's matcher.  A handle that admits *)
(* the request is, its own aside, among its choices: where one service     *)
(* matches it goes where Caddy does, where several do it may take another  *)
(* one than Caddy, which takes the first by name.  Hosts inside the parent *)
(* domain it does not know at all, as it never looks at a subdomain.       *)
(* (dev-gateway/main.go's loop against GenerateCaddyfile.)                 *)
GatewayFollowsCaddy ==
    LET caddyfile == GenerateCaddyfile(registry)
    IN  \A h \in RequestHosts :
            /\ \A n \in GatewayTargets(registry, h) :
                  registry[n].type \in {"proxy", "split"} =>
                      /\ n \in DOMAIN caddyfile
                      /\ caddyfile[n].body.upstream = registry[n].upstream
                      /\ registry[n].upstream # Empty
                      /\ \/ n \in Handles(caddyfile, h)
                         \/ <<h, registry[n].host>> \in Suffixed \ OneLabel
            /\ Handles(caddyfile, h) \ {Self} \subseteq GatewayTargets(registry, h)
===============================================================================
