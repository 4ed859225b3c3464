---------------------------- MODULE MCRegistryStore ---------------------------
(***************************************************************************)
(* A registry of the broker and one application.  The services differ in   *)
(* what makes an edit valid or not: the application may depend on the      *)
(* broker, so removing or disabling the broker is refused at the reload of *)
(* the temporary file or before anything is written.                       *)
(***************************************************************************)
EXTENDS RegistryStore

Plain == [type |-> "proxy", kind |-> "", lifecycle |-> "external",
          enabled |-> TRUE, auth |-> "none", identity |-> "",
          subdomain |-> "app", host |-> "", upstream |-> "up", root |-> "",
          program |-> "p", private |-> "q", about |-> "t", wellFormed |-> TRUE]

Gated == [Plain EXCEPT !.auth = "sso", !.type = "split", !.root = "dist"]

MCCandidates == {Plain, [Plain EXCEPT !.enabled = FALSE], Gated}

MCInitialContents ==
    {EmptyRegistry,
     [n \in Names |-> IF n = "web" THEN Gated ELSE Plain]}

\* An operator's own service beside the one name requests may edit.
MCOtherService == {[n \in Names |-> IF n = "web" THEN Plain ELSE Absent]}
===============================================================================
