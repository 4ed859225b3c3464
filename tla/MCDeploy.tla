-------------------------------- MODULE MCDeploy ------------------------------
(***************************************************************************)
(* Registries of the ingress daemon and two services, that differ in what  *)
(* a deployment must not confuse: which services have a route, a plist or  *)
(* only a catalog entry, a change only the plist shows, and a change only  *)
(* the catalog shows.  The last one is a hand edit Validate refuses.       *)
(***************************************************************************)
EXTENDS Deploy, TLC

System == [type |-> "system", kind |-> "", lifecycle |-> "",
           enabled |-> TRUE, auth |-> "", identity |-> "",
           subdomain |-> "", host |-> "", upstream |-> "", root |-> "",
           program |-> "p", private |-> "q", about |-> "t", wellFormed |-> TRUE]

Proxy  == [System EXCEPT !.type = "proxy", !.lifecycle = "managed",
                         !.subdomain = "app", !.upstream = "up"]
Static == [System EXCEPT !.type = "static", !.subdomain = "app", !.root = "dist"]

Holding(caddy_, web, site) ==
    [n \in Names |-> CASE n = "caddy" -> caddy_ [] n = "web" -> web [] n = "site" -> site]

Both      == Holding(System, Proxy, Static)
NewArgs   == Holding(System, [Proxy EXCEPT !.private = "q2"], Static)
Described == Holding(System, Proxy, [Static EXCEPT !.about = "t2"])
Swapped   == Holding(Absent, [Proxy EXCEPT !.enabled = FALSE], Proxy)
Invalid   == Holding(System, [Proxy EXCEPT !.upstream = ""], Static)

MCContents == {Both, NewArgs, Described, Swapped, Invalid}

\* For two runs at once: one service, another version of it, and none.
Lone(svc) == [n \in Names |-> svc]
MCPair    == {Lone(Proxy), Lone([Proxy EXCEPT !.private = "q2"]), EmptyRegistry}
MCAnyRun  == Permutations(Runs)
===============================================================================
