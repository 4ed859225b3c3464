--------------------------- MODULE MCLaunchdScripts ---------------------------
(***************************************************************************)
(* Caddy and two agents; a sync may change one agent's plist and drop the  *)
(* other, or drop both.                                                    *)
(***************************************************************************)
EXTENDS LaunchdScripts

Bundle(web, task) ==
    [n \in Labels |-> CASE n = Caddy -> "v1" [] n = "web" -> web [] n = "task" -> task]

MCGenerations == {Bundle("v1", "v1"), Bundle("v2", None), Bundle(None, None)}
===============================================================================
