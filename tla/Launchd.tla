-------------------------------- MODULE Launchd -------------------------------
(***************************************************************************)
(* launchd as the scripts rely on it: a table of jobs by label.  The job   *)
(* of a label keeps the plist it was bootstrapped with whatever happens to *)
(* the file.  bootout is asynchronous (scripts/lib/common.sh): it returns  *)
(* while the job is tearing down, and until launchd has forgotten the      *)
(* label, print still finds it and bootstrap of it fails.                  *)
(***************************************************************************)
CONSTANTS
    Agents, \* names of services with an agent in the owner's gui domain
    Caddy,  \* the one system daemon
    Plists, \* versions of a plist
    None    \* no plist, no job

ASSUME LabelsAssumption == Caddy \notin Agents
ASSUME PlistsAssumption == None \notin Plists

Labels == Agents \cup {Caddy}

VARIABLE job

\* What launchd knows of a label: nothing, a job, or one that is tearing down.
JobStates == {"gone", "loaded", "leaving"}

Job == [state : JobStates, plist : Plists \cup {None}]

NoJob == [state |-> "gone", plist |-> None]

Loaded(n) == job[n].state = "loaded"
Printed(n) == job[n].state # "gone"

\* bootout of a label that is not loaded changes nothing.
Bootout(n) ==
    job' = [job EXCEPT ![n].state = IF Loaded(n) THEN "leaving" ELSE @]

\* bootstrap needs a plist file and a label launchd does not know.
CanBootstrap(n, plist) == plist # None /\ ~Printed(n)
Bootstrap(n, plist) ==
    job' = [job EXCEPT ![n] = [state |-> "loaded", plist |-> plist]]

\* kickstart re-executes a loaded job without unloading it.  Of a job that is
\* tearing down it may report success or failure, and saves it in neither case.
MayKickstart(n) == Printed(n)
MayNotKickstart(n) == ~Loaded(n)

\* Tearing down ends.
Gone(n) ==
    /\ job[n].state = "leaving"
    /\ job' = [job EXCEPT ![n] = NoJob]
===============================================================================
