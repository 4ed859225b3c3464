------------------------------- MODULE MCUpgrade ------------------------------
(***************************************************************************)
(* Two good builds, of an older and a newer release, and one that is       *)
(* packaged as the newer but does not come up; one commit hash that cannot *)
(* be compared with them.                                                  *)
(***************************************************************************)
EXTENDS Upgrade

CONSTANT old \* the build of the older release

MCReports == [b \in Builds |-> IF b = old THEN 1 ELSE 2]
===============================================================================
