---------------------------- MODULE LaunchdScripts ----------------------------
(***************************************************************************)
(* install-launchd.sh, uninstall-launchd.sh and service-launchd.sh: how    *)
(* generated plists reach the directories launchd loads from, and how the  *)
(* scripts start, stop and cycle jobs.  Operators run them and Admin runs  *)
(* service-launchd.sh; each is a process of its own under `set -e', so the *)
(* first command that fails ends it.  A sync may regenerate the bundle at  *)
(* any time, and the machine may restart.                                  *)
(***************************************************************************)
EXTENDS Launchd

CONSTANTS
    Scripts,     \* scripts running at the same time
    Commands,    \* what they may be asked to do
    Generations  \* what a sync may leave in the bundle

ASSUME GenerationsAssumption == Generations \subseteq [Labels -> Plists \cup {None}]

VARIABLES
    generated, \* the plists of the bundle
    installed, \* the plists of LaunchAgents and LaunchDaemons
    script     \* the state of each script

vars == <<job, generated, installed, script>>

\* `install' and `install --load', `uninstall' and `uninstall --unload', and
\* the actions of service-launchd.sh.
AllCommands == {"install", "load", "uninstall", "unload", "start", "stop", "restart"}

ASSUME CommandsAssumption == Commands \subseteq AllCommands

Steps == {"idle", "copy", "place", "prune", "drop", "daemon", "cycle", "port",
          "next", "print", "start", "bootout", "wait", "bootstrap", "remove", "done",
          "failed"}

GeneratedAgents == {n \in Agents : generated[n] # None}
InstalledAgents == {n \in Agents : installed[n] # None}

\* A script's program state - the agents it enumerated, what is left of the
\* current loop, CHANGED_AGENTS and the label at hand - and, for the properties,
\* the orphans it found, whether no label was tearing down when it began and
\* whether it has been alone since.
ScriptState ==
    [step : Steps, command : AllCommands, services : SUBSET Agents,
     todo : SUBSET Labels, changed : SUBSET Agents, label : Labels,
     orphans : SUBSET Agents, settled : BOOLEAN, alone : BOOLEAN]

Idle == [step |-> "idle", command |-> "install", services |-> {}, todo |-> {},
         changed |-> {}, label |-> Caddy, orphans |-> {}, settled |-> TRUE,
         alone |-> TRUE]

Active(t) == script[t].step # "idle"

\* Script s becomes `state'; the others are no longer alone.
Become(s, state) ==
    script' = [t \in Scripts |->
                 IF t = s THEN state
                 ELSE IF Active(t) THEN [script[t] EXCEPT !.alone = FALSE] ELSE script[t]]

Goto(s, step) == Become(s, [script[s] EXCEPT !.step = step])

Loading(s) == script[s].command = "load"

-----------------------------------------------------------------------------
(* Starting a script *)

Fresh(command) ==
    [Idle EXCEPT !.command = command,
                 !.orphans = InstalledAgents \ GeneratedAgents,
                 !.settled = \A n \in Labels : job[n].state # "leaving",
                 !.alone = \A t \in Scripts : ~Active(t)]

\* install-launchd.sh refuses a bundle without the daemon's plist or without
\* any agent plist; then it enumerates the agents.
BeginInstall(s, command) ==
    /\ command \in {"install", "load"}
    /\ script[s].step = "idle"
    /\ IF generated[Caddy] = None \/ GeneratedAgents = {}
       THEN Become(s, [Fresh(command) EXCEPT !.step = "failed"])
       ELSE Become(s, [Fresh(command) EXCEPT !.step = "copy",
                                             !.services = GeneratedAgents,
                                             !.todo = GeneratedAgents])
    /\ UNCHANGED <<job, generated, installed>>

BeginUninstall(s, command) ==
    /\ command \in {"uninstall", "unload"}
    /\ script[s].step = "idle"
    /\ Become(s, [Fresh(command) EXCEPT !.step = "remove", !.todo = InstalledAgents])
    /\ UNCHANGED <<job, generated, installed>>

\* service-launchd.sh on one label, or on all: the generated agents and Caddy.
BeginService(s, command) ==
    /\ command \in {"start", "stop", "restart"}
    /\ script[s].step = "idle"
    /\ \/ \E n \in Labels :
             Become(s, [Fresh(command) EXCEPT !.step = "next", !.todo = {n}])
       \/ IF GeneratedAgents = {}
          THEN Become(s, [Fresh(command) EXCEPT !.step = "failed"])
          ELSE Become(s, [Fresh(command) EXCEPT !.step = "next",
                                                !.todo = GeneratedAgents \cup {Caddy}])
    /\ UNCHANGED <<job, generated, installed>>

-----------------------------------------------------------------------------
(* install-launchd.sh: the files *)

\* An agent whose installed plist is missing or not the generated one is
\* noted as changed, and the installed file is removed ...
Copy(s) ==
    /\ script[s].step = "copy"
    /\ \E n \in script[s].todo :
          IF generated[n] = None
          THEN Goto(s, "failed") /\ UNCHANGED installed
          ELSE /\ Become(s, [script[s] EXCEPT
                     !.step = "place", !.label = n,
                     !.changed = IF installed[n] # generated[n] THEN @ \cup {n} ELSE @])
               /\ installed' = [installed EXCEPT ![n] = None]
    /\ UNCHANGED <<job, generated>>

\* ... before the generated one is installed in its place.
Place(s) ==
    LET n == script[s].label
    IN  /\ script[s].step = "place"
        /\ IF generated[n] = None
           THEN Goto(s, "failed") /\ UNCHANGED installed
           ELSE /\ Become(s, [script[s] EXCEPT !.step = "copy", !.todo = @ \ {n}])
                /\ installed' = [installed EXCEPT ![n] = generated[n]]
        /\ UNCHANGED <<job, generated>>

Copied(s) ==
    /\ script[s].step = "copy" /\ script[s].todo = {}
    /\ Become(s, [script[s] EXCEPT !.step = "prune", !.todo = InstalledAgents])
    /\ UNCHANGED <<job, generated, installed>>

\* An installed agent with no generated counterpart is booted out ...
Prune(s) ==
    /\ script[s].step = "prune"
    /\ \E n \in script[s].todo :
          IF generated[n] # None
          THEN /\ Become(s, [script[s] EXCEPT !.todo = @ \ {n}])
               /\ UNCHANGED job
          ELSE /\ Become(s, [script[s] EXCEPT !.step = "drop", !.label = n])
               /\ Bootout(n)
    /\ UNCHANGED <<generated, installed>>

\* ... and its plist deleted.
Drop(s) ==
    LET n == script[s].label
    IN  /\ script[s].step = "drop"
        /\ installed' = [installed EXCEPT ![n] = None]
        /\ Become(s, [script[s] EXCEPT !.step = "prune", !.todo = @ \ {n}])
        /\ UNCHANGED <<job, generated>>

Pruned(s) ==
    /\ script[s].step = "prune" /\ script[s].todo = {}
    /\ Become(s, [script[s] EXCEPT !.step = "daemon", !.label = Caddy])
    /\ UNCHANGED <<job, generated, installed>>

\* Wrong on purpose: Caddy is made subject to change detection ...
InstallDaemonIfChanged(s) ==
    /\ script[s].step = "daemon"
    /\ installed' = [installed EXCEPT ![Caddy] = generated[Caddy]]
    /\ Become(s, [script[s] EXCEPT !.step = "cycle", !.changed = @ \cup {Caddy}])
    /\ UNCHANGED <<job, generated>>

\* ... and the agents are loaded before it.
InstallDaemonLast(s) ==
    /\ script[s].step = "daemon"
    /\ installed' = [installed EXCEPT ![Caddy] = generated[Caddy]]
    /\ Become(s, [script[s] EXCEPT !.step = "next", !.todo = script[s].services \cup {Caddy}])
    /\ UNCHANGED <<job, generated>>

\* The daemon's plist, as root; sudo may be refused.
InstallDaemon(s) ==
    /\ script[s].step = "daemon"
    /\ \/ /\ generated[Caddy] # None
          /\ installed' = [installed EXCEPT ![Caddy] = generated[Caddy]]
          /\ IF Loading(s) THEN Goto(s, "cycle") ELSE Goto(s, "done")
       \/ Goto(s, "failed") /\ UNCHANGED installed
    /\ UNCHANGED <<job, generated>>

-----------------------------------------------------------------------------
(* install-launchd.sh --load: the jobs *)

\* Caddy first, and always: bootout, then wait for it to be gone.
CycleDaemon(s) ==
    /\ script[s].step = "cycle"
    /\ Bootout(Caddy)
    /\ Become(s, [script[s] EXCEPT !.step = "wait", !.label = Caddy])
    /\ UNCHANGED <<generated, installed>>

\* Another process may hold Caddy's admin port.
Port(s) ==
    /\ script[s].step = "port"
    /\ Goto(s, "bootstrap") \/ Goto(s, "failed")
    /\ UNCHANGED <<job, generated, installed>>

\* The next label of the loop over services, Caddy after the agents; when
\* none is left the script is done.
NextLabel(s) ==
    /\ script[s].step = "next"
    /\ IF script[s].todo = {}
       THEN Goto(s, "done")
       ELSE \E n \in script[s].todo :
              /\ n = Caddy => script[s].todo = {Caddy}
              /\ Become(s, [script[s] EXCEPT
                     !.step = CASE script[s].command = "stop"  -> "bootout"
                                [] script[s].command = "start" -> "start"
                                [] OTHER                       -> "print",
                     !.label = n, !.todo = @ \ {n}])
    /\ UNCHANGED <<job, generated, installed>>

\* Wrong on purpose: a load touches only agents whose plist changed.
AskOnlyChanged(s) ==
    /\ script[s].step = "print"
    /\ IF script[s].label \notin script[s].changed THEN Goto(s, "next")
       ELSE IF Printed(script[s].label) THEN Goto(s, "bootout") ELSE Goto(s, "bootstrap")
    /\ UNCHANGED <<job, generated, installed>>

\* ensure_loaded and do_restart branch on whether launchd prints the label.  A
\* known label is kickstarted by a restart, cycled by a load if its plist
\* changed and left alone if not; an unknown one is bootstrapped, by a restart
\* after a stop that finds nothing to stop.
Ask(s) ==
    LET n == script[s].label
    IN  /\ script[s].step = "print"
        /\ \/ /\ ~Printed(n)
              /\ IF Loading(s) THEN Goto(s, "bootstrap") ELSE Goto(s, "bootout")
           \/ /\ Printed(n) /\ Loading(s)
              /\ IF n \in script[s].changed THEN Goto(s, "bootout") ELSE Goto(s, "next")
           \/ /\ MayKickstart(n) /\ ~Loading(s) /\ Goto(s, "next")
           \/ /\ Printed(n) /\ MayNotKickstart(n) /\ ~Loading(s) /\ Goto(s, "failed")
        /\ UNCHANGED <<job, generated, installed>>

\* The plist a label is bootstrapped from: the installed one, and for an agent
\* that a start finds not installed the bundle's own (plist_for).
PlistFor(s, n) ==
    IF installed[n] = None /\ n # Caddy /\ ~Loading(s) THEN generated[n] ELSE installed[n]

\* do_start, of a start and at the end of a restart: without a plist it fails,
\* and a label that launchd prints is kickstarted.
Start(s) ==
    LET n == script[s].label
    IN  /\ script[s].step = "start"
        /\ \/ PlistFor(s, n) = None /\ Goto(s, "failed")
           \/ /\ PlistFor(s, n) # None
              /\ \/ ~Printed(n) /\ Goto(s, "bootstrap")
                 \/ MayKickstart(n) /\ Goto(s, "next")
                 \/ Printed(n) /\ MayNotKickstart(n) /\ Goto(s, "failed")
        /\ UNCHANGED <<job, generated, installed>>

\* Wrong on purpose: bootstrap follows bootout at once.
BootoutLabelNoWait(s) ==
    /\ script[s].step = "bootout"
    /\ Bootout(script[s].label)
    /\ IF script[s].command = "stop" THEN Goto(s, "next") ELSE Goto(s, "bootstrap")
    /\ UNCHANGED <<generated, installed>>

BootoutLabel(s) ==
    /\ script[s].step = "bootout"
    /\ Bootout(script[s].label)
    /\ IF script[s].command = "stop" THEN Goto(s, "next") ELSE Goto(s, "wait")
    /\ UNCHANGED <<generated, installed>>

\* Wrong on purpose: the wait has no limit.
WaitForEver(s) ==
    /\ script[s].step = "wait"
    /\ ~Printed(script[s].label)
    /\ Goto(s, "bootstrap")
    /\ UNCHANGED <<job, generated, installed>>

\* home_stack_wait_label_gone polls until launchd has forgotten the label, for
\* thirty seconds.
Wait(s) ==
    /\ script[s].step = "wait"
    /\ \/ /\ ~Printed(script[s].label)
          /\ IF ~Loading(s) THEN Goto(s, "start")
             ELSE IF script[s].label = Caddy THEN Goto(s, "port") ELSE Goto(s, "bootstrap")
       \/ /\ Printed(script[s].label)
          /\ Goto(s, "failed")
    /\ UNCHANGED <<job, generated, installed>>

BootstrapLabel(s) ==
    LET n     == script[s].label
        plist == PlistFor(s, n)
    IN  /\ script[s].step = "bootstrap"
        /\ IF CanBootstrap(n, plist)
           THEN /\ Bootstrap(n, plist)
                /\ Become(s, [script[s] EXCEPT
                      !.step = "next",
                      !.todo = IF n = Caddy /\ Loading(s) THEN script[s].services ELSE @])
           ELSE Goto(s, "failed") /\ UNCHANGED job
        /\ UNCHANGED <<generated, installed>>

-----------------------------------------------------------------------------
(* uninstall-launchd.sh *)

\* Every installed agent, booted out first if asked to; Caddy last.
RemoveAgent(s) ==
    /\ script[s].step = "remove"
    /\ \E n \in script[s].todo :
          /\ IF script[s].command = "unload" THEN Bootout(n) ELSE UNCHANGED job
          /\ installed' = [installed EXCEPT ![n] = None]
          /\ Become(s, [script[s] EXCEPT !.todo = @ \ {n}])
    /\ UNCHANGED generated

RemoveDaemon(s) ==
    /\ script[s].step = "remove" /\ script[s].todo = {}
    /\ IF script[s].command = "unload" THEN Bootout(Caddy) ELSE UNCHANGED job
    /\ installed' = [installed EXCEPT ![Caddy] = None]
    /\ Goto(s, "done")
    /\ UNCHANGED generated

-----------------------------------------------------------------------------
(* The surroundings and the specification *)

\* The script has exited.
Exit(s) ==
    /\ script[s].step \in {"done", "failed"}
    /\ Become(s, Idle)
    /\ UNCHANGED <<job, generated, installed>>

\* The script is killed between two commands.
Killed(s) ==
    /\ script[s].step \notin {"idle", "done", "failed"}
    /\ Become(s, Idle)
    /\ UNCHANGED <<job, generated, installed>>

JobGone == \E n \in Labels : Gone(n) /\ UNCHANGED <<generated, installed, script>>

\* A sync changes the bundle.
Sync ==
    /\ generated' \in Generations \ {generated}
    /\ script' = [t \in Scripts |->
                    IF Active(t) THEN [script[t] EXCEPT !.alone = FALSE] ELSE script[t]]
    /\ UNCHANGED <<job, installed>>

\* The machine restarts: every script ends, and launchd loads what is installed.
Reboot ==
    /\ job' = [n \in Labels |-> IF installed[n] = None THEN NoJob
                                ELSE [state |-> "loaded", plist |-> installed[n]]]
    /\ script' = [t \in Scripts |-> Idle]
    /\ UNCHANGED <<generated, installed>>

\* A bundle that was synced, on a machine that has none of it installed yet.
Init ==
    /\ generated \in Generations
    /\ installed = [n \in Labels |-> None]
    /\ job = [n \in Labels |-> NoJob]
    /\ script = [t \in Scripts |-> Idle]

\* A script's own steps: the command it runs next.
Run(s) ==
    \/ Copy(s) \/ Place(s) \/ Copied(s) \/ Prune(s) \/ Drop(s) \/ Pruned(s)
    \/ InstallDaemon(s) \/ CycleDaemon(s) \/ Port(s) \/ NextLabel(s) \/ Ask(s)
    \/ Start(s) \/ BootoutLabel(s) \/ Wait(s) \/ BootstrapLabel(s) \/ RemoveAgent(s)
    \/ RemoveDaemon(s) \/ Exit(s)

Begin(s) ==
    \E command \in Commands :
        BeginInstall(s, command) \/ BeginUninstall(s, command) \/ BeginService(s, command)

Next ==
    \/ Sync \/ Reboot \/ JobGone
    \/ \E s \in Scripts : Begin(s) \/ Run(s) \/ Killed(s)

Spec == Init /\ [][Next]_vars

\* The system runs every process that is ready to run.  Nothing is assumed of
\* launchd: a job may take for ever to tear down.
FairSpec == Spec /\ \A s \in Scripts : WF_vars(Run(s))

-----------------------------------------------------------------------------
(* Properties *)

TypeOK ==
    /\ job \in [Labels -> Job]
    /\ generated \in Generations
    /\ installed \in [Labels -> Plists \cup {None}]
    /\ script \in [Scripts -> ScriptState]

\* Script s ran alone, on a bundle that did not change, and succeeded.
Succeeded(s, command) ==
    script[s].step = "done" /\ script[s].command = command /\ script[s].alone

(* install --load "keeps its contract of leaving every service running":   *)
(* whatever was loaded, stopped, half-installed or orphaned before, after  *)
(* a load that found no label tearing down every generated agent and Caddy *)
(* have a job, the installed plists are the generated ones, and every      *)
(* installed agent that is no longer generated has neither plist nor job.  *)
LoadConverges ==
    \A s \in Scripts :
        Succeeded(s, "load") /\ script[s].settled
            => /\ \A n \in GeneratedAgents \cup {Caddy} :
                     Loaded(n) /\ installed[n] = generated[n]
               /\ \A n \in script[s].orphans : installed[n] = None /\ ~Loaded(n)

(* "Ingress first": when a load that runs alone gets as far as the agents, *)
(* Caddy runs its installed plist, and still does when an agent step fails *)
(* and the script ends there.                                              *)
IngressFirst ==
    \A s \in Scripts :
        LET S == script[s]
        IN  /\ S.command = "load" /\ S.alone
            /\ S.label \in Agents
            /\ S.step \in {"print", "bootout", "wait", "bootstrap", "failed", "done"}
            => Loaded(Caddy) /\ job[Caddy].plist = installed[Caddy]

(* No script that runs alone bootstraps a label launchd still knows, the   *)
(* "Bootstrap failed: 5" that leaves a service down.                       *)
NoBootstrapWhileLeaving ==
    \A s \in Scripts :
        script[s].step = "bootstrap" /\ script[s].alone => ~Printed(script[s].label)

(* Every script ends, even if a job never finishes tearing down.           *)
ScriptsEnd == \A s \in Scripts : Active(s) ~> ~Active(s)

(* A label that launchd prints and whose plist did not change is "already  *)
(* current", and "anything in our namespace with no generated counterpart  *)
(* is booted out": after a load no agent runs but its installed plist.     *)
LoadedIsInstalled ==
    \A s \in Scripts :
        Succeeded(s, "load") /\ script[s].settled
            => \A n \in Agents : Loaded(n) => job[n].plist = installed[n]
===============================================================================
