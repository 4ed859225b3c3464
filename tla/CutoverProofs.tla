----------------------------- MODULE CutoverProofs -----------------------------
(***************************************************************************)
(* The identity cutover, for any plists of the daemon, any number of other *)
(* syncs and any order of their steps, the script's and launchd's,         *)
(* crashes, edits and stops.                                               *)
(***************************************************************************)
EXTENDS Cutover, TLAPS

\* The binary that is in place, or about to be, is the identity build.
NewInPlace == {"restart", "health", "sync", "reload", "load", "health2", "done"}

\* What the script relies on at each of its steps.
Prepared ==
    /\ script.step \in {"backup", "backingUp", "adapt", "swap", "swapping"} => staged = "new"
    /\ script.step \in {"backingUp", "adapt", "swap", "swapping"} => backup # "none"
    /\ script.step \in {"checkout", "restore", "restoring"} => backup = "new"
    /\ script.step \in {"verify", "checkout", "restore", "restoring"} => ~Forward
    /\ script.step \in NewInPlace => live = "new"
    /\ live # "none"

\* Until there is a whole backup, nothing has replaced the original.
Original ==
    ~cutShort => IF backup = "none" \/ script.step = "backingUp"
                 THEN live = original ELSE backup = original

\* While the live binary is torn, a whole identity build is on disk.
Recoverable == live = "partial" => "new" \in {staged, backup}

\* launchd runs Caddy only while its job is loaded.
Supervised == running # "none" => Loaded(Caddy)

\* What a cutover has achieved after it restarted the daemon, and after it read
\* and loaded the Caddyfile.
Achieved ==
    Forward =>
      /\ script.step \in NewInPlace \ {"restart"} => running \in {"new", "none"}
      /\ script.step = "load" /\ ~overtaken => script.config = caddyfile
      /\ script.step \in {"health2", "done"} /\ running = "new" /\ ~overtaken
            => served = caddyfile

CutoverInv == Prepared /\ Original /\ Recoverable /\ Supervised /\ Achieved /\ CaddyCanRestart

-----------------------------------------------------------------------------
(* The script and launchd *)

LEMMA GotoFacts ==
  ASSUME TypeOK, NEW step \in Steps, Goto(step)
  PROVE  /\ script' \in [command : {"cutover", "rollback"}, step : Steps, config : Configs]
         /\ script'.step = step /\ script'.command = script.command
         /\ script'.config = script.config
  BY DEF TypeOK, Goto

LEMMA JobFacts ==
  ASSUME TypeOK
  PROVE  /\ Bootout(Caddy) => job' \in [Labels -> Job]
         /\ Gone(Caddy) => job' \in [Labels -> Job] /\ ~Loaded(Caddy)
         /\ \A plist \in Plists :
               Bootstrap(Caddy, plist) => job' \in [Labels -> Job] /\ Loaded(Caddy)'
<1>1. Caddy \in Labels /\ job \in [Labels -> Job] /\ NoJob \in Job
  BY DEF Labels, TypeOK, NoJob, Job, JobStates
<1>2. \A s \in JobStates : [job[Caddy] EXCEPT !.state = s] \in Job
  BY <1>1 DEF Job
<1>3. Bootout(Caddy) => job' \in [Labels -> Job]
  <2>1. (IF Loaded(Caddy) THEN "leaving" ELSE job[Caddy].state) \in JobStates
    BY <1>1 DEF Job, JobStates
  <2>2. QED
    BY <1>1, <1>2, <2>1 DEF Bootout
<1>4. \A plist \in Plists :
         Bootstrap(Caddy, plist) => job' \in [Labels -> Job] /\ Loaded(Caddy)'
  BY <1>1 DEF Bootstrap, Loaded, Job, JobStates
<1>5. QED
  BY <1>1, <1>3, <1>4 DEF Gone, Loaded

LEMMA StartsFacts ==
  ASSUME TypeOK, Starts
  PROVE  /\ running' \in Binaries \ {"partial"} /\ served' \in Configs
         /\ running' # "none" => running' = live /\ served' = caddyfile
  BY DEF TypeOK, Starts, Parses, Binaries

-----------------------------------------------------------------------------
(* Types *)

(* The binaries, the configurations and launchd's job of Caddy stay among  *)
(* the states they are modelled with, whatever interrupts the script.      *)
THEOREM CutoverTypes == Spec => []TypeOK
<1>1. Init => TypeOK
  <2> SUFFICES ASSUME Init PROVE TypeOK
    OBVIOUS
  <2>1. job \in [Labels -> Job]
    BY DEF Init, Job, JobStates
  <2>2. other \in [Syncs -> [step : {"idle", "reload", "load"}, config : Configs]]
    BY DEF Init
  <2>3. QED
    BY <2>1, <2>2 DEF Init, TypeOK, Binaries, Configs, Steps
<1>2. TypeOK /\ [Next]_vars => TypeOK'
  <2> SUFFICES ASSUME TypeOK, [Next]_vars PROVE TypeOK'
    OBVIOUS
  <2> USE DEF binaries, caddy, configs, syncing, history
  <2>1. CASE Preflight \/ Backup \/ BackedUp \/ Adapt
    BY <2>1, GotoFacts
       DEF Preflight, Verified, Backup, BackedUp, Adapt, TypeOK, Steps, Binaries
  <2>2. CASE Swap \/ Swapped \/ Verify \/ Checkout \/ Restore \/ Restored
    BY <2>2, GotoFacts
       DEF Swap, Swapped, Verify, Verified, Checkout, Restore, Restored, TypeOK, Steps, Binaries
  <2>3. CASE Restart
    <3>1. Goto("health") /\ UNCHANGED <<binaries, configs, syncing, history>>
      BY <2>3 DEF Restart
    <3>2. job' \in [Labels -> Job]
      BY <2>3, JobFacts DEF Restart, TypeOK
    <3>3. running' \in Binaries \ {"partial"} /\ served' \in Configs
      BY <2>3, StartsFacts DEF Restart, TypeOK
    <3>4. QED
      BY <3>1, <3>2, <3>3, GotoFacts DEF TypeOK, Steps
  <2>4. CASE Health \/ Health2 \/ Sync
    <3>1. script' \in [command : {"cutover", "rollback"}, step : Steps, config : Configs]
      BY <2>4, GotoFacts DEF Health, Health2, Healthy, Sync, Steps
    <3>2. QED
      BY <2>4, <3>1 DEF Health, Health2, Healthy, Sync, TypeOK
  <2>5. CASE Reload \/ Load
    <3>1. script.step \in Steps /\ script' \in [command : {"cutover", "rollback"},
                                              step : Steps, config : Configs]
      BY <2>5, GotoFacts DEF Reload, Load, TypeOK, Steps
    <3>2. QED
      BY <2>5, <3>1 DEF Reload, Load, TypeOK
  <2>6. CASE CommandFails \/ Exit
    <3>1. script' \in [command : {"cutover", "rollback"}, step : Steps, config : Configs]
      BY <2>6, GotoFacts DEF CommandFails, Exit, Steps
    <3>2. cutShort' \in BOOLEAN /\ torn' \in BOOLEAN
      BY <2>6 DEF CommandFails, Exit, TypeOK, At
    <3>3. QED
      BY <2>6, <3>1, <3>2 DEF CommandFails, Exit, TypeOK
  <2>7. CASE \E command \in {"cutover", "rollback"} : Begin(command)
    BY <2>7 DEF Begin, TypeOK, Steps
  <2>8. CASE Crash \/ Respawn
    BY <2>8, StartsFacts DEF Crash, Respawn, TypeOK, Binaries
  <2>9. CASE Stop \/ Stopped
    BY <2>9, JobFacts DEF Stop, Stopped, TypeOK, Binaries
  <2>10. CASE Edit \/ Commit \/ \E s \in Syncs : OtherSync(s)
    <3>1. other' \in [Syncs -> [step : {"idle", "reload", "load"}, config : Configs]]
      BY <2>10 DEF Edit, Commit, OtherSync, OtherWrites, OtherReads, OtherLoads, OtherFails,
                   TypeOK
    <3>2. ahead' \in BOOLEAN /\ overtaken' \in BOOLEAN
      BY <2>10 DEF Edit, Commit, OtherSync, OtherWrites, OtherReads, OtherLoads, OtherFails,
                   TypeOK
    <3>3. QED
      BY <2>10, <3>1, <3>2
         DEF Edit, Commit, OtherSync, OtherWrites, OtherReads, OtherLoads, OtherFails, TypeOK
  <2>11. CASE UNCHANGED vars
    BY <2>11 DEF vars, TypeOK
  <2>12. QED
    BY <2>1, <2>2, <2>3, <2>4, <2>5, <2>6, <2>7, <2>8, <2>9, <2>10, <2>11 DEF Next, Step
<1>3. QED
  BY <1>1, <1>2, PTL DEF Spec

-----------------------------------------------------------------------------
(* The invariant *)

\* Each step of the script leaves behind what the next ones rely on.
LEMMA ScriptStepKeepsInv ==
  ASSUME TypeOK, CutoverInv, Step
  PROVE  CutoverInv'
<1> USE DEF binaries, caddy, configs, syncing, history, At, Forward, Parses, Loaded,
            NewInPlace, CutoverInv, Prepared, Original, Recoverable, Supervised, Achieved,
            CaddyCanRestart
<1>1. CASE Preflight
  BY <1>1, GotoFacts DEF Preflight, Verified, Steps
<1>2. CASE Backup
  <2>1. /\ script.step = "backup" /\ script'.command = script.command
        /\ \/ backup = "none" /\ backup' = "partial" /\ script'.step = "backingUp"
           \/ backup # "none" /\ backup' = backup /\ script'.step = "adapt"
        /\ UNCHANGED <<staged, live, caddy, configs, syncing, history>>
    BY <1>2, GotoFacts DEF Backup, Steps
  <2>2. CASE backup = "none"
    BY <2>1, <2>2
  <2>3. CASE backup # "none"
    BY <2>1, <2>3
  <2>4. QED
    BY <2>2, <2>3
<1>3. CASE BackedUp
  <2>1. /\ script.step = "backingUp" /\ script'.step = "adapt"
        /\ script'.command = script.command /\ backup' = live
        /\ UNCHANGED <<staged, live, caddy, configs, syncing, history>>
    BY <1>3, GotoFacts DEF BackedUp, Steps
  <2>2. staged = "new" /\ (~cutShort => live = original)
    BY <2>1
  <2>3. Original' /\ Recoverable'
    BY <2>1, <2>2
  <2>4. Prepared' /\ Supervised' /\ Achieved'
    <3>1. backup' # "none"
      BY <2>1, <2>2
    <3>2. QED
      BY <2>1, <2>2, <3>1
  <2>5. CaddyCanRestart'
    BY <2>1, <2>2
  <2>6. QED
    BY <2>3, <2>4, <2>5
<1>4. CASE Adapt
  BY <1>4, GotoFacts DEF Adapt, Steps
<1>5. CASE Swap
  BY <1>5, GotoFacts DEF Swap, Steps
<1>6. CASE Swapped
  BY <1>6, GotoFacts DEF Swapped, Steps
<1>7. CASE Restart
  <2>1. /\ script.step = "restart" /\ script'.step = "health"
        /\ script'.command = script.command
        /\ UNCHANGED <<binaries, configs, syncing, history>>
    BY <1>7, GotoFacts DEF Restart, Steps
  <2>2. live = "new" /\ (running # "none" => Loaded(Caddy))
    BY <2>1
  <2>3. running' \in {"new", "none"} /\ (running' # "none" => Loaded(Caddy)')
    <3>1. CASE job' = job /\ Loaded(Caddy) /\ Starts
      BY <2>2, <3>1, StartsFacts
    <3>2. CASE job' = job /\ ~Loaded(Caddy) /\ UNCHANGED <<running, served>>
      BY <2>2, <3>2
    <3>3. CASE \E plist \in Plists : Bootstrap(Caddy, plist) /\ Starts
      BY <2>2, <3>3, StartsFacts, JobFacts
    <3>4. QED
      BY <1>7, <3>1, <3>2, <3>3 DEF Restart
  <2>4. QED
    BY <2>1, <2>3
<1>8. CASE Health \/ Health2
  BY <1>8, GotoFacts DEF Health, Health2, Healthy, Steps
<1>9. CASE Sync
  BY <1>9, GotoFacts DEF Sync, Steps
<1>10. CASE Reload \/ Load
  <2>1. CASE Reload
    <3>1. /\ script.step = "reload" /\ script'.command = script.command
          /\ script'.step = "failed" \/ (script'.step = "load" /\ script'.config = caddyfile)
          /\ UNCHANGED <<binaries, caddy, configs, ahead, history>>
      BY <2>1, GotoFacts DEF Reload, TypeOK, Steps
    <3>2. QED
      BY <3>1
  <2>2. CASE Load
    <3>1. /\ script.step = "load" /\ script'.command = script.command
          /\ \/ script'.step = "failed"
             \/ /\ script'.step = IF script.command = "cutover" THEN "health2" ELSE "restart"
                /\ served' = script.config
          /\ UNCHANGED <<binaries, job, running, configs, syncing, history>>
      BY <2>2, GotoFacts DEF Load, Steps
    <3>2. QED
      BY <3>1
  <2>3. QED
    BY <1>10, <2>1, <2>2
<1>11. CASE Verify
  BY <1>11, GotoFacts DEF Verify, Verified, Steps
<1>12. CASE Checkout
  BY <1>12, GotoFacts DEF Checkout, Steps
<1>13. CASE Restore
  BY <1>13, GotoFacts DEF Restore, Steps
<1>14. CASE Restored
  BY <1>14, GotoFacts DEF Restored, Steps
<1>15. QED
  BY <1>1, <1>2, <1>3, <1>4, <1>5, <1>6, <1>7, <1>8, <1>9, <1>10, <1>11, <1>12, <1>13,
     <1>14 DEF Step

\* Failures, crashes, stops, edits and syncs take nothing away from it.
LEMMA OtherStepKeepsInv ==
  ASSUME TypeOK, CutoverInv,
         \/ CommandFails \/ Exit \/ \E command \in {"cutover", "rollback"} : Begin(command)
         \/ Crash \/ Respawn \/ Stop \/ Stopped \/ Edit \/ Commit
         \/ \E s \in Syncs : OtherSync(s)
         \/ UNCHANGED vars
  PROVE  CutoverInv'
<1> USE DEF binaries, caddy, configs, syncing, history, At, Forward, Parses, Loaded,
            NewInPlace, CutoverInv, Prepared, Original, Recoverable, Supervised, Achieved,
            CaddyCanRestart
<1>1. CASE CommandFails \/ Exit
  <2>1. CASE Exit
    BY <2>1, GotoFacts DEF Exit, Steps
  <2>2. CASE CommandFails
    <3>1. /\ script'.step = "failed"
          /\ UNCHANGED <<binaries, caddy, configs, syncing, original>>
          /\ cutShort \/ script.step = "backingUp" => cutShort'
          /\ torn \/ script.step \in {"swapping", "restoring"} => torn'
      BY <2>2, GotoFacts DEF CommandFails, Steps
    <3>2. Original' /\ CaddyCanRestart'
      BY <3>1
    <3>3. QED
      BY <3>1, <3>2
  <2>3. QED
    BY <1>1, <2>1, <2>2
<1>2. ASSUME NEW command \in {"cutover", "rollback"}, Begin(command)
      PROVE  CutoverInv'
  BY <1>2 DEF Begin
<1>3. CASE Crash
  BY <1>3 DEF Crash
<1>4. CASE Respawn
  <2>1. /\ UNCHANGED <<binaries, job, configs, script, syncing, history>> /\ Loaded(Caddy)
        /\ running' # "none" => running' = live /\ served' = caddyfile
    BY <1>4, StartsFacts DEF Respawn
  <2>2. QED
    BY <2>1
<1>5. CASE Stop
  BY <1>5 DEF Stop
<1>6. CASE Stopped
  <2>1. running = "none" /\ UNCHANGED <<binaries, running, served, configs, script, syncing, history>>
    BY <1>6, JobFacts DEF Stopped
  <2>2. QED
    BY <2>1
<1>7. CASE Edit \/ Commit
  BY <1>7 DEF Edit, Commit
<1>8. ASSUME NEW s \in Syncs, OtherSync(s)
      PROVE  CutoverInv'
  <2>1. CASE OtherWrites(s)
    <3>1. /\ UNCHANGED <<binaries, caddy, script, history>>
          /\ ahead' <=> live # "partial" /\ ~Parses(live, caddyfile')
          /\ overtaken' = TRUE
      BY <2>1 DEF OtherWrites
    <3>2. CASE live = "partial"
      <4>1. script.step \in {"swapping", "restoring"} \/ torn
        BY <3>2
      <4>2. "new" \in {staged, backup}
        BY <3>2
      <4>3. QED
        BY <3>1, <3>2, <4>1, <4>2
    <3>3. CASE live # "partial"
      <4>1. ahead' \/ Parses(live, caddyfile')
        BY <3>1, <3>3
      <4>2. QED
        BY <3>1, <3>3, <4>1
    <3>4. QED
      BY <3>2, <3>3
  <2>2. CASE OtherLoads(s)
    BY <2>2 DEF OtherLoads
  <2>3. CASE OtherReads(s) \/ OtherFails(s)
    BY <2>3 DEF OtherReads, OtherFails
  <2>4. QED
    BY <1>8, <2>1, <2>2, <2>3 DEF OtherSync
<1>9. CASE UNCHANGED vars
  BY <1>9 DEF vars
<1>10. QED
  BY <1>1, <1>2, <1>3, <1>4, <1>5, <1>6, <1>7, <1>8, <1>9

LEMMA CutoverInductive == Spec => []CutoverInv
<1>1. Init => CutoverInv
  BY DEF Init, CutoverInv, Prepared, Original, Recoverable, Supervised, Achieved, CaddyCanRestart,
         NewInPlace, Loaded, Labels, Parses, Forward
<1>2. TypeOK /\ CutoverInv /\ [Next]_vars => CutoverInv'
  BY ScriptStepKeepsInv, OtherStepKeepsInv DEF Next
<1>3. QED
  BY <1>1, <1>2, CutoverTypes, PTL DEF Spec

(* Wherever the script fails or is killed, and whatever is edited, synced  *)
(* or stopped meanwhile: unless another sync has run ahead of the binary,  *)
(* launchd can start Caddy on the binary in place, or that is torn and a   *)
(* whole one which parses the Caddyfile is on disk to copy again.          *)
THEOREM CaddyIsRestartable == Spec => []CaddyCanRestart
<1>1. CutoverInv => CaddyCanRestart
  BY DEF CutoverInv
<1>2. QED
  BY <1>1, CutoverInductive, PTL

(* The binary in place before the first cutover is never lost to reruns    *)
(* after failures and kills, unless one hit the very copy to the backup.   *)
THEOREM OriginalSurvives == Spec => []OriginalIsKept
<1>1. CutoverInv => OriginalIsKept
  BY DEF CutoverInv, Original, OriginalIsKept
<1>2. QED
  BY <1>1, CutoverInductive, PTL

(* A cutover that reports success leaves the identity build in place and   *)
(* no Caddy of the old one, and the one it leaves serves what is on disk   *)
(* unless another sync came in between.                                    *)
THEOREM SuccessIsIdentity == Spec => []SuccessServesIdentity
<1>1. CutoverInv => SuccessServesIdentity
  BY DEF CutoverInv, Prepared, Achieved, NewInPlace, SuccessServesIdentity, At
<1>2. QED
  BY <1>1, CutoverInductive, PTL
===============================================================================
