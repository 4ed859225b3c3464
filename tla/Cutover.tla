------------------------------- MODULE Cutover --------------------------------
(***************************************************************************)
(* cutover-identity.sh: replaces the Caddy binary by the identity build    *)
(* while Caddy serves, and its --rollback.  Only the identity build parses *)
(* a Caddyfile with gated routes, and a process keeps the image it was     *)
(* started from.  launchd restarts Caddy on whatever is on disk; operators *)
(* edit and commit the registry and stop the daemon meanwhile; and other   *)
(* syncs, of hs and of Admin, write the Caddyfile and reload Caddy without *)
(* regard to the script or to the binary in place.                         *)
(***************************************************************************)
EXTENDS Launchd

CONSTANT Syncs \* the other syncs that may be under way at the same time

VARIABLES
    staged,    \* the binary built for the cutover
    live,      \* the binary the daemon's plist names
    backup,    \* the .x86_64.bak
    running,   \* the binary Caddy was started from, or "none"
    served,    \* the kind of configuration Caddy runs
    caddyfile, \* the kind of the Caddyfile on disk
    registry,  \* the kind of Caddyfile services.yaml generates
    head,      \* and the services.yaml that is committed
    script,    \* the script
    other,     \* how far each other sync is
    cutShort,  \* history: the copy to the backup was interrupted
    original,  \* history: the binary in place before the first cutover
    torn,      \* history: the last copy over the live binary was interrupted
    ahead,     \* history: the last Caddyfile another sync wrote was one the
               \* binary in place did not parse
    overtaken  \* history: another sync wrote or loaded a Caddyfile since the
               \* script's own sync read it

binaries == <<staged, live, backup>>
caddy    == <<job, running, served>>
configs  == <<caddyfile, registry, head>>
syncing  == <<other, ahead, overtaken>>
history  == <<cutShort, original, torn>>
vars     == <<binaries, caddy, configs, script, syncing, history>>

\* A binary without the identity modules, one with them, and a torn file.
Binaries == {"none", "old", "new", "partial"}

\* Configurations without and with gated routes.
Configs == {"plain", "gated"}

Parses(binary, config) == binary = "new" \/ (binary = "old" /\ config = "plain")

Steps == {"idle", "preflight", "backup", "backingUp", "adapt", "swap", "swapping",
          "restart", "health", "sync", "reload", "load", "health2", "verify", "checkout",
          "restore", "restoring", "done", "failed"}

At(step)   == script.step = step
Goto(step) == script' = [script EXCEPT !.step = step]

Forward == script.command = "cutover"

\* verify_binary ends the script when the binary lacks a module.
Verified(binary, step) == IF binary = "new" THEN Goto(step) ELSE Goto("failed")

-----------------------------------------------------------------------------
(* The binaries *)

Begin(command) ==
    /\ At("idle")
    /\ script' = [command |-> command,
                  step    |-> IF command = "cutover" THEN "preflight" ELSE "verify",
                  config  |-> caddyfile]
    /\ UNCHANGED <<binaries, caddy, configs, syncing, history>>

Preflight ==
    /\ At("preflight") /\ Verified(staged, "backup")
    /\ UNCHANGED <<binaries, caddy, configs, syncing, history>>

\* Wrong on purpose: an existing backup is replaced.
BackupAlways ==
    /\ At("backup") /\ Goto("backingUp")
    /\ backup' = "partial"
    /\ UNCHANGED <<staged, live, caddy, configs, syncing, history>>

\* An existing backup is left alone, whatever is in it.
Backup ==
    /\ At("backup")
    /\ IF backup = "none" THEN backup' = "partial" /\ Goto("backingUp")
                          ELSE UNCHANGED backup /\ Goto("adapt")
    /\ UNCHANGED <<staged, live, caddy, configs, syncing, history>>

BackedUp ==
    /\ At("backingUp") /\ Goto("adapt")
    /\ backup' = live
    /\ UNCHANGED <<staged, live, caddy, configs, syncing, history>>

\* Wrong on purpose: the artifacts are generated before the binary is swapped.
AdaptThenSync ==
    /\ At("adapt")
    /\ IF Parses(staged, caddyfile) THEN Goto("sync") ELSE Goto("failed")
    /\ UNCHANGED <<binaries, caddy, configs, syncing, history>>

Adapt ==
    /\ At("adapt")
    /\ IF Parses(staged, caddyfile) THEN Goto("swap") ELSE Goto("failed")
    /\ UNCHANGED <<binaries, caddy, configs, syncing, history>>

Swap ==
    /\ At("swap") /\ Goto("swapping")
    /\ live' = "partial"
    /\ UNCHANGED <<staged, backup, caddy, configs, syncing, history>>

Swapped ==
    /\ At("swapping") /\ Goto("restart")
    /\ live' = staged /\ torn' = FALSE
    /\ UNCHANGED <<staged, backup, caddy, configs, syncing, cutShort, original>>

-----------------------------------------------------------------------------
(* The daemon *)

\* Wrong on purpose: whatever is on disk runs.
StartsAnything ==
    running' = live /\ served' = caddyfile

\* What becomes of Caddy when it is started now.
Starts ==
    IF Parses(live, caddyfile) THEN running' = live /\ served' = caddyfile
                               ELSE running' = "none" /\ UNCHANGED served

\* Wrong on purpose: the running process is left to pick up the new binary.
RestartIfStopped ==
    /\ At("restart") /\ Goto("health")
    /\ UNCHANGED <<binaries, caddy, configs, syncing, history>>

\* restart_daemon: kickstart in place if launchd prints the label, otherwise
\* bootstrap once the label is gone.
Restart ==
    /\ At("restart") /\ Goto("health")
    /\ \/ /\ MayKickstart(Caddy)
          /\ IF Loaded(Caddy) THEN Starts ELSE UNCHANGED <<running, served>>
          /\ UNCHANGED job
       \/ \E plist \in Plists : CanBootstrap(Caddy, plist) /\ Bootstrap(Caddy, plist) /\ Starts
    /\ UNCHANGED <<binaries, configs, syncing, history>>

\* health_check asks Caddy's admin API ten times.
Healthy(step, next) ==
    /\ At(step)
    /\ IF running # "none" THEN Goto(next) ELSE Goto("failed")
    /\ UNCHANGED <<binaries, caddy, configs, syncing, history>>

Health  == Healthy("health", IF Forward THEN "sync" ELSE "done")
Health2 == Healthy("health2", "done")

-----------------------------------------------------------------------------
(* hs sync *)

Sync ==
    /\ At("sync") /\ Goto("reload")
    /\ caddyfile' = registry
    /\ ahead' = FALSE
    /\ UNCHANGED <<binaries, caddy, registry, head, other, overtaken, history>>

\* reload-caddy.sh: the binary on disk reads the Caddyfile ...
Reload ==
    /\ At("reload")
    /\ IF Parses(live, caddyfile)
       THEN script' = [script EXCEPT !.step = "load", !.config = caddyfile]
       ELSE Goto("failed")
    /\ overtaken' = FALSE
    /\ UNCHANGED <<binaries, caddy, configs, other, ahead, history>>

\* ... and the running one loads what was read.
Load ==
    /\ At("load")
    /\ IF running # "none" /\ Parses(running, script.config)
       THEN served' = script.config /\ Goto(IF Forward THEN "health2" ELSE "restart")
       ELSE UNCHANGED served /\ Goto("failed")
    /\ UNCHANGED <<binaries, job, running, configs, syncing, history>>

-----------------------------------------------------------------------------
(* --rollback *)

\* No backup, or one that verify_binary refuses, ends the script: the `|| true'
\* after the call does not catch an exit.
Verify ==
    /\ At("verify") /\ Verified(backup, "checkout")
    /\ UNCHANGED <<binaries, caddy, configs, syncing, history>>

Checkout ==
    /\ At("checkout") /\ Goto("restore")
    /\ registry' = head
    /\ UNCHANGED <<binaries, caddy, caddyfile, head, syncing, history>>

Restore ==
    /\ At("restore") /\ Goto("restoring")
    /\ live' = "partial"
    /\ UNCHANGED <<staged, backup, caddy, configs, syncing, history>>

Restored ==
    /\ At("restoring") /\ Goto("sync")
    /\ live' = backup /\ torn' = FALSE
    /\ UNCHANGED <<staged, backup, caddy, configs, syncing, cutShort, original>>

-----------------------------------------------------------------------------
(* The surroundings and the specification *)

\* A command fails and ends the script, or the script is killed in it ...
CommandFails ==
    /\ script.step \notin {"idle", "done", "failed"} /\ Goto("failed")
    /\ cutShort' = (cutShort \/ At("backingUp"))
    /\ torn' = (torn \/ At("swapping") \/ At("restoring"))
    /\ UNCHANGED <<binaries, caddy, configs, syncing, original>>

\* ... and it has exited.
Exit ==
    /\ At("done") \/ At("failed")
    /\ Goto("idle")
    /\ UNCHANGED <<binaries, caddy, configs, syncing, history>>

\* launchd restarts a Caddy that crashed, as long as its job is loaded.
Crash ==
    /\ running # "none" /\ running' = "none"
    /\ UNCHANGED <<binaries, job, served, configs, script, syncing, history>>
Respawn ==
    /\ Loaded(Caddy) /\ running = "none" /\ Starts
    /\ UNCHANGED <<binaries, job, configs, script, syncing, history>>

\* An operator stops the daemon, and launchd forgets it.
Stop ==
    /\ Loaded(Caddy) /\ Bootout(Caddy) /\ running' = "none"
    /\ UNCHANGED <<binaries, served, configs, script, syncing, history>>
Stopped == Gone(Caddy) /\ UNCHANGED <<binaries, running, served, configs, script, syncing, history>>

\* Operators edit the registry and commit it.
Edit ==
    /\ registry' \in Configs
    /\ UNCHANGED <<binaries, caddy, caddyfile, head, script, syncing, history>>
Commit ==
    /\ head' = registry
    /\ UNCHANGED <<binaries, caddy, caddyfile, registry, script, syncing, history>>

\* syncSystem, run by hs or Admin: it writes the Caddyfile, whether or not a
\* binary can parse it ...
OtherWrites(s) ==
    /\ other[s].step = "idle"
    /\ other' = [other EXCEPT ![s].step = "reload"]
    /\ caddyfile' = registry
    /\ ahead' = (live # "partial" /\ ~Parses(live, registry))
    /\ overtaken' = TRUE
    /\ UNCHANGED <<binaries, caddy, registry, head, script, history>>

\* ... then runs reload-caddy.sh, in the same two steps as the script's own ...
OtherReads(s) ==
    /\ other[s].step = "reload" /\ Parses(live, caddyfile)
    /\ other' = [other EXCEPT ![s] = [step |-> "load", config |-> caddyfile]]
    /\ UNCHANGED <<binaries, caddy, configs, script, ahead, overtaken, history>>
OtherLoads(s) ==
    /\ other[s].step = "load" /\ running # "none" /\ Parses(running, other[s].config)
    /\ other' = [other EXCEPT ![s].step = "idle"]
    /\ served' = other[s].config
    /\ overtaken' = TRUE
    /\ UNCHANGED <<binaries, job, running, configs, script, ahead, history>>

\* ... and is refused, fails or is killed before either.
OtherFails(s) ==
    /\ other[s].step # "idle"
    /\ other' = [other EXCEPT ![s].step = "idle"]
    /\ UNCHANGED <<binaries, caddy, configs, script, ahead, overtaken, history>>

Init ==
    /\ \E plist \in Plists : job = [n \in Labels |-> [state |-> "loaded", plist |-> plist]]
    /\ staged \in {"none", "old", "new"} /\ live \in {"old", "new"} /\ backup = "none"
    /\ registry \in Configs /\ head \in Configs
    /\ caddyfile \in {c \in Configs : Parses(live, c)} /\ served = caddyfile
    /\ running = live
    /\ script = [command |-> "cutover", step |-> "idle", config |-> caddyfile]
    /\ other = [s \in Syncs |-> [step |-> "idle", config |-> caddyfile]]
    /\ cutShort = FALSE /\ original = live /\ torn = FALSE
    /\ ahead = FALSE /\ overtaken = FALSE

Step ==
    \/ Preflight \/ Backup \/ BackedUp \/ Adapt \/ Swap \/ Swapped \/ Restart \/ Health
    \/ Sync \/ Reload \/ Load \/ Health2 \/ Verify \/ Checkout \/ Restore \/ Restored

OtherSync(s) == OtherWrites(s) \/ OtherReads(s) \/ OtherLoads(s) \/ OtherFails(s)

Next ==
    \/ Step \/ CommandFails \/ Exit \/ \E command \in {"cutover", "rollback"} : Begin(command)
    \/ Crash \/ Respawn \/ Stop \/ Stopped \/ Edit \/ Commit
    \/ \E s \in Syncs : OtherSync(s)

Spec == Init /\ [][Next]_vars

-----------------------------------------------------------------------------
(* Properties *)

TypeOK ==
    /\ job \in [Labels -> Job]
    /\ {staged, live, backup, original} \subseteq Binaries
    /\ running \in Binaries \ {"partial"}
    /\ {served, caddyfile, registry, head} \subseteq Configs
    /\ script \in [command : {"cutover", "rollback"}, step : Steps, config : Configs]
    /\ other \in [Syncs -> [step : {"idle", "reload", "load"}, config : Configs]]
    /\ cutShort \in BOOLEAN /\ torn \in BOOLEAN
    /\ ahead \in BOOLEAN /\ overtaken \in BOOLEAN

(* "A Caddyfile it cannot parse leaves the daemon crash-looping on its     *)
(* next restart with no route to recovery": wherever the script fails or   *)
(* is killed, launchd can restart Caddy, for the binary in place parses    *)
(* the Caddyfile - but in two cases.  Another sync wrote routes that the   *)
(* old binary does not parse, before the cutover, which nothing prevents;  *)
(* or the binary is torn, while it is copied or because the copy was cut   *)
(* short, and then the binary it was copied from is on disk, and parses    *)
(* the Caddyfile.                                                          *)
CaddyCanRestart ==
    IF live = "partial"
    THEN /\ At("swapping") \/ At("restoring") \/ torn
         /\ Parses(staged, caddyfile) \/ Parses(backup, caddyfile)
    ELSE Parses(live, caddyfile) \/ ahead

(* However often the script is rerun after a failure or a kill, the binary *)
(* it found is still there, in place or as the backup; only a copy to the  *)
(* backup that was itself cut short may cost it, because the next run      *)
(* leaves the torn backup alone and overwrites the binary.                 *)
OriginalIsKept == ~cutShort => original \in {live, backup}

(* "Replacing the file on disk does not change a running process's image": *)
(* a cutover that reports success leaves no Caddy of the old build, and    *)
(* the Caddy it leaves serves the Caddyfile on disk, unless another sync   *)
(* wrote or loaded one after the script's own had read it.                 *)
SuccessServesIdentity ==
    At("done") /\ Forward
        => /\ live = "new" /\ running \in {"new", "none"}
           /\ running = "new" /\ ~overtaken => served = caddyfile
===============================================================================
