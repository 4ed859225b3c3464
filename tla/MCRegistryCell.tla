---------------------------- MODULE MCRegistryCell ----------------------------
(***************************************************************************)
(* A small registry: the broker, the development gateway, one more service *)
(* and a name that is refused, each with the combinations of fields that   *)
(* Validate, the generators and the gateway look at together, the rest at  *)
(* one value.  Requests ask for a host, for a host one label below the     *)
(* wildcard that is itself a host somebody may have, and for a host two    *)
(* labels below the wildcard.                                              *)
(***************************************************************************)
EXTENDS Gateway

\* A service that differs from an ordinary enabled proxy in the fields of f.
Variant(f) ==
    LET base == [type |-> "proxy", kind |-> "", lifecycle |-> "managed",
                 enabled |-> TRUE, auth |-> "none", identity |-> "",
                 subdomain |-> "app", host |-> "", upstream |-> "up", root |-> "",
                 program |-> "p", private |-> "q", about |-> "t",
                 wellFormed |-> TRUE]
    IN  [x \in DOMAIN base |-> IF x \in DOMAIN f THEN f[x] ELSE base[x]]

\* Ways of being gated or not, enabled or not, addressed or not.
MCCandidates ==
    { Variant(f) : f \in
        [enabled : BOOLEAN, auth : {"", "tailnet", "sso", "tailnet-or-sso"},
         subdomain : {"", "app"}] }
    \cup { Variant(f) : f \in
        [type : {"static", "split"}, subdomain : {"", "app", "*.dev", "*"}, root : {"dist"},
         enabled : BOOLEAN] }
    \cup { Variant(f) : f \in
        [subdomain : {""}, host : {"app.org", "x.app.org", "*.app.org"},
         lifecycle : {"external"}, enabled : BOOLEAN] }
    \cup { Variant([type |-> "system", subdomain |-> "*", lifecycle |-> ""]),
           Variant([type |-> "task", subdomain |-> "", host |-> "app.org"]),
           Variant([type |-> "static", root |-> "dist", lifecycle |-> ""]),
           Variant([upstream |-> ""]),
           Variant([auth |-> "none", upstream |-> "up2", lifecycle |-> "external"]),
           Variant([subdomain |-> "", host |-> "app.parent"]),
           Variant([type |-> "unsupported"]),
           Variant([identity |-> "upstream"]),
           Variant([wellFormed |-> FALSE]) }

MCSuffixed == {<<"x.app.org", "*.app.org">>, <<"y.x.app.org", "*.app.org">>}
MCOneLabel == {<<"x.app.org", "*.app.org">>}
===============================================================================
