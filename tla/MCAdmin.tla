-------------------------------- MODULE MCAdmin -------------------------------
(***************************************************************************)
(* The ingress, Admin and one service that is managed, disabled,           *)
(* scheduled, external, a second system service, without its server, or    *)
(* gone; and a registry that does not load.                                *)
(***************************************************************************)
EXTENDS Admin

System == [type |-> "system", kind |-> "", lifecycle |-> "",
           enabled |-> TRUE, auth |-> "", identity |-> "",
           subdomain |-> "*", host |-> "", upstream |-> "", root |-> "",
           program |-> "p", private |-> "q", about |-> "t", wellFormed |-> TRUE]

Proxy == [System EXCEPT !.type = "proxy", !.lifecycle = "managed",
                        !.subdomain = "app", !.upstream = "up"]

Web   == [Proxy EXCEPT !.about = "probed"]

Holding(web) ==
    [n \in Names |-> CASE n = "caddy" -> System [] n = "admin" -> Proxy [] n = "web" -> web]

MCContents ==
    { Holding(web) : web \in
        {Absent, Web,
         [Web EXCEPT !.enabled = FALSE],
         [Web EXCEPT !.lifecycle = "external"],
         [System EXCEPT !.subdomain = "app"],
         [Web EXCEPT !.type = "task", !.kind = "scheduled", !.upstream = "", !.subdomain = ""],
         [Web EXCEPT !.upstream = ""]} }
    \cup { EmptyRegistry }

\* Admin answers, so it runs; Caddy may be missing; web is in any state.
MCReadings ==
    { l \in [Names -> LaunchdStates] :
        l["admin"] = "running" /\ l["caddy"] \in {"running", "not loaded"} }
===============================================================================
