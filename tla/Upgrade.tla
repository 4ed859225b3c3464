-------------------------------- MODULE Upgrade -------------------------------
(***************************************************************************)
(* `hs upgrade' (scripts/lib/upgrade.sh): one service's binary is fetched  *)
(* or built, the old one kept at <binary>.prev, the new one swapped in,    *)
(* the service restarted and its health signal polled; where there is a    *)
(* .prev a failed check reverts.  hs runs under `set -e', so the first     *)
(* command that fails ends the script, and it may be killed between any    *)
(* two.  Meanwhile launchd keeps the service alive: whenever its process   *)
(* exits, it executes what is on disk by then.                             *)
(***************************************************************************)
EXTENDS Naturals

CONSTANTS
    Builds,   \* builds of the service's program
    Serves,   \* those of them that answer the health signal when they run
    Reports,  \* the version each of them says it is
    Releases, \* dotted versions, numbered in the order `sort -V' puts them
    Commits,  \* versions that are commit hashes and have no order
    Methods,  \* the install methods to look at
    Missing,  \* no such file, no process, no version
    Partial   \* a truncated file

Versions == Releases \cup Commits

ASSUME UpgradeAssumption ==
    /\ Serves \subseteq Builds
    /\ Reports \in [Builds -> Versions]
    /\ Releases \subseteq Nat
    /\ Releases \cap Commits = {}
    /\ Missing \notin Builds \cup Versions /\ Partial \notin Builds
    /\ Missing # Partial

VARIABLES
    binary,   \* install.binary, which the service's wrapper executes
    prev,     \* the backup beside it
    staging,  \* the build output beside it
    process,  \* the build the service's process executes, Missing while it is down
    run       \* the state of the script

vars == <<binary, prev, staging, process, run>>
files == <<binary, prev, staging>>

AllMethods == {"github-release", "xcaddy", "source-go",
               "npm-global", "opencode", "hermes-pinned", "brew"}

ASSUME MethodsAssumption == Methods \subseteq AllMethods

\* The methods that keep a .prev and revert to it, and those of them that
\* build beside the binary.
Backed == {"github-release", "xcaddy", "source-go"}
Staged == {"xcaddy", "source-go"}

Files == Builds \cup {Missing, Partial}

Steps == {"idle", "fetch", "adapt", "backup", "copying", "swap", "installing",
          "verify", "restart", "health", "revert", "log", "done", "failed"}

Results == {"none", "success", "reverted", "failed", "failed-version-mismatch"}

\* What the script knows, and for the properties the binary it found and
\* whether its last restart worked.  The service's method and whether it has a
\* health signal come from the catalog; `result' is the line to log, `logged'
\* the line that was.
RunState ==
    [step : Steps, method : AllMethods, target : Versions, signal : BOOLEAN,
     artifact : Files, result : Results, logged : Results,
     found : Files, restarted : BOOLEAN]

\* A script that has not begun, or has ended; the binary it found stays known.
Idle(method, target, signal, found) ==
    [step |-> "idle", method |-> method, target |-> target, signal |-> signal,
     artifact |-> Missing, result |-> "none", logged |-> "none",
     found |-> found, restarted |-> FALSE]

Become(state) == run' = state
Goto(s) == Become([run EXCEPT !.step = s])

-----------------------------------------------------------------------------
(* Getting the new build *)

\* No install block, no such release, no sudo, no --yes: nothing is touched.
\* brew is never automated.
Begin(target) ==
    /\ run.step = "idle"
    /\ \E s \in IF run.method = "brew" THEN {"failed"} ELSE {"fetch", "failed"} :
          Become([run EXCEPT !.step = s, !.target = target, !.found = binary])
    /\ UNCHANGED <<files, process>>

\* github-release downloads to a temporary directory; without a checksum to
\* compare, because none is published or it cannot be fetched, what arrived may
\* be damaged, and nothing shows that it is the release it is called.
Download ==
    /\ run.step = "fetch" /\ run.method = "github-release"
    /\ \/ \E b \in Builds \cup {Partial} :
             Become([run EXCEPT !.step = "backup", !.artifact = b])
       \/ Goto("failed")
    /\ UNCHANGED <<files, process>>

\* xcaddy and source-go build to the staging path.
Build ==
    /\ run.step = "fetch" /\ run.method \in Staged
    /\ \/ \E b \in Builds :
             /\ staging' = b
             /\ Become([run EXCEPT !.artifact = b,
                           !.step = IF run.method = "xcaddy" THEN "adapt" ELSE "backup"])
       \/ /\ staging' \in {staging, Missing, Partial}
          /\ Goto("failed")
    /\ UNCHANGED <<binary, prev, process>>

\* npm, opencode and the hermes installer replace the program themselves; one
\* that fails may have done so already, or half.
Install ==
    /\ run.step = "fetch" /\ run.method \notin Backed
    /\ \/ \E b \in Builds :
             /\ binary' = b
             /\ Become([run EXCEPT !.step = "restart", !.artifact = b])
       \/ /\ binary' \in {binary} \cup Files
          /\ Goto("failed")
    /\ UNCHANGED <<prev, staging, process>>

\* `caddy adapt' of the generated Caddyfile by the staged build.
Adapt ==
    /\ run.step = "adapt"
    /\ \/ Goto("backup") /\ UNCHANGED staging
       \/ Goto("failed") /\ staging' = Missing
    /\ UNCHANGED <<binary, prev, process>>

-----------------------------------------------------------------------------
(* Swapping it in *)

\* Wrong on purpose: the backup is taken only where there is none yet.
BackupOnce ==
    /\ run.step = "backup"
    /\ IF binary = Missing \/ prev # Missing
       THEN Goto("swap") /\ UNCHANGED prev
       ELSE prev' = Partial /\ Goto("copying")
    /\ UNCHANGED <<binary, staging, process>>

\* cp -p of the binary, if there is one, over whatever .prev holds ...
Backup ==
    /\ run.step = "backup"
    /\ IF binary = Missing
       THEN Goto("swap") /\ UNCHANGED prev
       ELSE prev' = Partial /\ Goto("copying")
    /\ UNCHANGED <<binary, staging, process>>

\* ... which may fail half-way.
Copying ==
    /\ run.step = "copying"
    /\ \/ prev' = binary /\ Goto("swap")
       \/ UNCHANGED prev /\ Goto("failed")
    /\ UNCHANGED <<binary, staging, process>>

\* xcaddy renames the staged build over the binary; the other methods run
\* `install', which removes the old file and copies.
Swap ==
    /\ run.step = "swap"
    /\ IF run.method = "xcaddy"
       THEN binary' = staging /\ staging' = Missing /\ Goto("restart")
       ELSE binary' \in {Missing, Partial} /\ UNCHANGED staging /\ Goto("installing")
    /\ UNCHANGED <<prev, process>>

\* The copy itself, which may fail too.
Installing ==
    /\ run.step = "installing"
    /\ \/ /\ binary' = run.artifact
          /\ Goto(IF run.method = "github-release" THEN "verify" ELSE "restart")
       \/ UNCHANGED binary /\ Goto("failed")
    /\ UNCHANGED <<prev, staging, process>>

\* What a version probe of a file prints: what the build reports, or nothing
\* when there is no version_cmd or its output does not parse.
Probed(file) == {Missing} \cup {Reports[b] : b \in Builds \cap {file}}

\* mv of .prev over the binary; without one revert_binary fails, and so does
\* the script, before it restarts or logs anything.
RevertBinary(result, next) ==
    IF prev = Missing
    THEN Goto("failed") /\ UNCHANGED <<binary, prev>>
    ELSE /\ binary' = prev /\ prev' = Missing
         /\ Become([run EXCEPT !.step = next, !.result = result])

\* Wrong on purpose: a build that reports another version is kept and logged.
VerifyNotReverting ==
    /\ run.step = "verify"
    /\ \E seen \in Probed(binary) :
          IF seen \in {Missing, run.target}
          THEN Goto("restart")
          ELSE Become([run EXCEPT !.step = "log", !.result = "failed-version-mismatch"])
    /\ UNCHANGED <<files, process>>

Verify ==
    /\ run.step = "verify"
    /\ \E seen \in Probed(binary) :
          IF seen \in {Missing, run.target}
          THEN Goto("restart") /\ UNCHANGED <<binary, prev>>
          ELSE RevertBinary("failed-version-mismatch", "log")
    /\ UNCHANGED <<staging, process>>

-----------------------------------------------------------------------------
(* Restarting *)

\* Wrong on purpose: a process is taken to run whatever the file is.
ExecutedAnything(file) == {Missing, file}

\* Executing a file: a build may come up or exit; what is no build exits.
Executed(file) == {Missing} \cup (Builds \cap {file})

\* service-launchd.sh restart, whose failure is ignored; xcaddy's kickstart,
\* whose failure ends the script.  A restart that failed may leave the old
\* process running or stop it.
Restart ==
    /\ run.step = "restart"
    /\ \/ /\ process' \in Executed(binary)
          /\ Become([run EXCEPT !.restarted = TRUE,
                        !.step = IF run.result = "none" THEN "health" ELSE "log"])
       \/ /\ process' \in {process, Missing}
          /\ Become([run EXCEPT !.restarted = FALSE,
                        !.step = IF run.method = "xcaddy" THEN "failed"
                                 ELSE IF run.result = "none" THEN "health" ELSE "log"])
    /\ UNCHANGED files

\* wait_healthy, or hermes' check of /api/status: whatever answers will do, and
\* a service without a health signal passes at once.  A service that is slow to
\* start fails like one that never does.
Health ==
    /\ run.step = "health"
    /\ \/ /\ process \in Serves \/ ~run.signal
          /\ Become([run EXCEPT !.step = "log", !.result = "success"])
       \/ /\ run.signal /\ run.method \in Backed
          /\ Goto("revert")
       \/ /\ run.signal /\ run.method \notin Backed
          /\ Become([run EXCEPT !.step = "log", !.result = "failed"])
    /\ UNCHANGED <<files, process>>

Revert ==
    /\ run.step = "revert"
    /\ RevertBinary("reverted", "restart")
    /\ UNCHANGED <<staging, process>>

\* One line is appended to upgrade-log.jsonl, or the append fails.
Log ==
    /\ run.step = "log"
    /\ \/ Become([run EXCEPT !.logged = run.result,
                     !.step = IF run.result = "success" THEN "done" ELSE "failed"])
       \/ Goto("failed")
    /\ UNCHANGED <<files, process>>

-----------------------------------------------------------------------------
(* Status *)

\* home_stack_upgrade_version_cmp, with its results named.
VersionCmp(a, b) ==
    CASE a = b -> "equal"
      [] a # b /\ {a, b} \subseteq Releases -> IF a > b THEN "newer" ELSE "older"
      [] OTHER -> "incomparable"

\* Wrong on purpose: the pin is never compared with what is live.
ClassifyDriftOfPin(live, pinned, latest) ==
    IF Missing \in {live, latest} THEN "unknown"
    ELSE CASE VersionCmp(IF pinned = Missing THEN live ELSE pinned, latest)
                  \in {"equal", "newer"} -> "ok"
           [] VersionCmp(IF pinned = Missing THEN live ELSE pinned, latest)
                  = "older" -> "behind"
           [] OTHER -> "unknown"

\* home_stack_upgrade_classify_drift: `hs upgrade status' calls it with the
\* version the binary on disk reports, the profile's pin and upstream's latest.
ClassifyDrift(live, pinned, latest) ==
    IF Missing \in {live, latest} THEN "unknown"
    ELSE IF pinned # Missing /\ VersionCmp(live, pinned) = "newer" THEN "ahead-of-pin"
    ELSE CASE VersionCmp(IF pinned = Missing THEN live ELSE pinned, latest)
                  \in {"equal", "newer"} -> "ok"
           [] VersionCmp(IF pinned = Missing THEN live ELSE pinned, latest)
                  = "older" -> "behind"
           [] OTHER -> "unknown"

-----------------------------------------------------------------------------
(* The surroundings and the specification *)

\* The script has exited, or is killed; what it did stays known.
Exit ==
    /\ run.step # "idle"
    /\ Become(Idle(run.method, run.target, run.signal, run.found))
    /\ UNCHANGED <<files, process>>

\* launchd restarts a process that exits.
Respawn ==
    /\ process' \in Executed(binary)
    /\ UNCHANGED <<files, run>>

\* Some build is installed and runs, or none is installed yet.
Init ==
    /\ binary \in Serves \cup {Missing}
    /\ prev = Missing
    /\ staging = Missing
    /\ process = binary
    /\ \E method \in Methods, target \in Versions, signal \in BOOLEAN :
          run = Idle(method, target, signal, binary)

\* The script's own steps.
Step ==
    \/ Download \/ Build \/ Install \/ Adapt \/ Backup \/ Copying \/ Swap
    \/ Installing \/ Verify \/ Restart \/ Health \/ Revert \/ Log \/ Exit

Next == (\E target \in Versions : Begin(target)) \/ Step \/ Respawn

Spec == Init /\ [][Next]_vars

-----------------------------------------------------------------------------
(* Properties *)

TypeOK ==
    /\ binary \in Files
    /\ prev \in Files
    /\ staging \in Files
    /\ process \in Builds \cup {Missing}
    /\ run \in RunState

(* "It backs up the previous binary (.prev)": wherever an upgrade fails or *)
(* is killed, also inside the copy, the install or the revert, the binary  *)
(* it found is still in place or at .prev until the next upgrade begins.   *)
KeepsPrevious ==
    run.method \in Backed /\ run.found # Missing => run.found \in {binary, prev}

\* An upgrade logged as a success has installed the build it fetched, and if
\* its restart worked no other build is what runs.
SuccessRunsTarget ==
    run.step = "done" /\ run.logged = "success" =>
        /\ binary = run.artifact
        /\ run.restarted => process \in {run.artifact, Missing}

\* "Auto-reverts on a failed health check": an upgrade that is logged as
\* reverted, or as refused for its version, has put back the binary it found,
\* and after a revert whose restart worked that binary is what runs.
RevertedRunsPrevious ==
    run.step = "failed" /\ run.found # Missing =>
        /\ run.logged \in {"reverted", "failed-version-mismatch"} => binary = run.found
        /\ run.logged = "reverted" /\ run.restarted => process \in {run.found, Missing}

(* What the upgrade log says of an upgrade is true of the binary on disk,  *)
(* whichever of its commands failed, and of the process unless a restart   *)
(* failed: a success runs the new build, a revert the previous one.        *)
LogIsTrue == SuccessRunsTarget /\ RevertedRunsPrevious

(* "behind - the reviewed baseline is older than the latest release":      *)
(* whatever mixture of builds an upgrade left behind, a service reported   *)
(* behind is never newer than the release `hs upgrade' would fetch for it, *)
(* so following the report is no downgrade; and one reported ok is neither *)
(* ahead of its pin nor, without one, behind.                              *)
BehindMeansOlder ==
    \A live \in Probed(binary) \cap Releases, pinned \in {run.target, Missing}, latest \in Releases :
        LET drift == ClassifyDrift(live, pinned, latest)
        IN  /\ drift = "behind" => live < latest
            /\ drift = "ok" => IF pinned = Missing THEN live >= latest
                               ELSE pinned \in Releases => live <= pinned
===============================================================================
