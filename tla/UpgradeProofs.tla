----------------------------- MODULE UpgradeProofs ----------------------------
(***************************************************************************)
(* Upgrade's type invariant, that an upgrade never loses the binary it     *)
(* found, that what it logs is true, and that a service reported behind is *)
(* never newer than the latest release, for any builds, versions, methods. *)
(*                                                                         *)
(* KeepsPrevious says only that the binary is at one of two places; the    *)
(* induction needs to know at which, step by step.  LogIsTrue speaks of a  *)
(* script that has ended; the induction needs to know what a result and a  *)
(* restart that worked stand for from the step that obtains them.          *)
(***************************************************************************)
EXTENDS Upgrade, TLAPS

\* Up to the backup the binary is untouched; from the swap on .prev holds it;
\* once a revert is decided the binary is back.  Only then is there a result.
Whereabouts ==
    run.method \in Backed =>
        /\ run.step \in {"idle", "fetch", "adapt", "backup", "copying", "swap",
                        "installing", "verify", "health", "revert"} => run.result = "none"
        /\ run.step \in {"fetch", "adapt", "backup", "copying"} => binary = run.found
        /\ run.step \in {"swap", "installing", "verify", "health", "revert"} /\ run.found # Missing
              => prev = run.found
        /\ run.step \in {"restart", "log"} /\ run.found # Missing =>
              IF run.result \in {"reverted", "failed-version-mismatch"}
              THEN binary = run.found ELSE prev = run.found

UpgradeInv == TypeOK /\ Whereabouts /\ KeepsPrevious

\* Until the new build is in place nothing was restarted or decided; from then
\* on a success means the artifact is the binary, a restart that worked that
\* no other binary runs, and what was put back stays until the script ends.
Ledger ==
    /\ run.step \in {"idle", "fetch", "adapt", "backup", "copying", "swap", "installing", "verify"}
          => run.result = "none" /\ run.restarted = FALSE
    /\ run.step \in {"health", "revert"} => run.result = "none"
    /\ run.step = "restart" => run.result \in {"none", "reverted"}
    /\ run.step \in {"adapt", "backup", "copying", "swap", "installing", "verify", "revert"}
          => run.method \in Backed
    /\ run.result \in {"reverted", "failed-version-mismatch"} => run.method \in Backed
    /\ run.method = "xcaddy" /\ run.step \in {"adapt", "backup", "copying", "swap"}
          => staging = run.artifact
    /\ run.step \in {"verify", "health"} => binary = run.artifact
    /\ run.step = "restart" /\ run.result = "none" => binary = run.artifact
    /\ run.step \in {"log", "done"} /\ run.result = "success" => binary = run.artifact
    /\ run.step \in {"health", "revert", "log", "done", "failed"} /\ run.restarted = TRUE
          => process \in {binary, Missing}
    /\ run.step \notin {"done", "failed"} => run.logged = "none"
    /\ run.step = "done" => run.result = "success"
    /\ run.step = "failed" /\ run.found # Missing
          /\ run.logged \in {"reverted", "failed-version-mismatch"}
          => binary = run.found

-----------------------------------------------------------------------------
(* How a step changes the script's state *)

LEMMA GotoFacts ==
  ASSUME run \in RunState, NEW s \in Steps, Goto(s)
  PROVE  /\ run' \in RunState
         /\ run'.step = s /\ run'.method = run.method
         /\ run'.found = run.found /\ run'.result = run.result
         /\ run'.artifact = run.artifact /\ run'.logged = run.logged
         /\ run'.restarted = run.restarted
  BY DEF Goto, Become, RunState

LEMMA FetchedFacts ==
  ASSUME run \in RunState, NEW s \in Steps, NEW b \in Files,
         run' = [run EXCEPT !.step = s, !.artifact = b]
  PROVE  /\ run' \in RunState
         /\ run'.step = s /\ run'.method = run.method
         /\ run'.found = run.found /\ run'.result = run.result
         /\ run'.artifact = b /\ run'.logged = run.logged
         /\ run'.restarted = run.restarted
  BY DEF RunState

LEMMA DecidedFacts ==
  ASSUME run \in RunState, NEW s \in Steps, NEW result \in Results,
         run' = [run EXCEPT !.step = s, !.result = result]
  PROVE  /\ run' \in RunState
         /\ run'.step = s /\ run'.method = run.method
         /\ run'.found = run.found /\ run'.result = result
         /\ run'.artifact = run.artifact /\ run'.logged = run.logged
         /\ run'.restarted = run.restarted
  BY DEF RunState

LEMMA RestartedFacts ==
  ASSUME run \in RunState, NEW s \in Steps, NEW worked \in BOOLEAN,
         run' = [run EXCEPT !.restarted = worked, !.step = s]
  PROVE  /\ run' \in RunState
         /\ run'.step = s /\ run'.method = run.method
         /\ run'.found = run.found /\ run'.result = run.result
         /\ run'.artifact = run.artifact /\ run'.logged = run.logged
         /\ run'.restarted = worked
  BY DEF RunState

-----------------------------------------------------------------------------
(* Every step keeps the types and knows where the binary found is *)

LEMMA BeginKeeps ==
  ASSUME UpgradeInv, NEW target \in Versions, Begin(target)
  PROVE  UpgradeInv'
<1>1. PICK s \in {"fetch", "failed"} :
         run' = [run EXCEPT !.step = s, !.target = target, !.found = binary]
  BY DEF Begin, Become
<1>2. /\ run' \in RunState
      /\ run'.step = s /\ run'.method = run.method
      /\ run'.found = binary /\ run'.result = run.result
  BY <1>1 DEF UpgradeInv, TypeOK, RunState, Steps, Files
<1>3. QED
  BY <1>2 DEF UpgradeInv, TypeOK, Whereabouts, KeepsPrevious, Begin, files

LEMMA DownloadKeeps ==
  ASSUME UpgradeInv, Download
  PROVE  UpgradeInv'
<1>1. run \in RunState
  BY DEF UpgradeInv, TypeOK
<1>2. QED
  BY <1>1, GotoFacts, FetchedFacts, UpgradeAssumption
  DEF UpgradeInv, TypeOK, Whereabouts, KeepsPrevious, Backed, Staged, Steps, Files, Download, Become, files

LEMMA BuildKeeps ==
  ASSUME UpgradeInv, Build
  PROVE  UpgradeInv'
<1>1. run \in RunState /\ run.step = "fetch" /\ run.method \in Backed
  BY DEF UpgradeInv, TypeOK, Build, Backed, Staged
<1>2. CASE Goto("failed") /\ staging' \in {staging, Missing, Partial}
  BY <1>1, <1>2, GotoFacts
  DEF UpgradeInv, TypeOK, Whereabouts, KeepsPrevious, Steps, Files, Build
<1>3. ASSUME NEW b \in Builds, staging' = b, NEW s \in {"adapt", "backup"},
             run' = [run EXCEPT !.step = s, !.artifact = b]
      PROVE  UpgradeInv'
  <2>1. s \in Steps /\ b \in Files
    BY DEF Steps, Files
  <2>2. run' \in RunState /\ run'.step = s /\ run'.method = run.method
        /\ run'.found = run.found /\ run'.result = run.result
    BY <1>1, <1>3, <2>1, FetchedFacts
  <2>3. QED
    BY <1>1, <1>3, <2>1, <2>2
    DEF UpgradeInv, TypeOK, Whereabouts, KeepsPrevious, Build
<1>4. \/ Goto("failed") /\ staging' \in {staging, Missing, Partial}
      \/ \E b \in Builds, s \in {"adapt", "backup"} :
            staging' = b /\ run' = [run EXCEPT !.step = s, !.artifact = b]
  BY DEF Build, Become
<1>5. QED
  BY <1>2, <1>3, <1>4

LEMMA InstallKeeps ==
  ASSUME UpgradeInv, Install
  PROVE  UpgradeInv'
<1>1. run \in RunState
  BY DEF UpgradeInv, TypeOK
<1>2. QED
  BY <1>1, GotoFacts, FetchedFacts, UpgradeAssumption
  DEF UpgradeInv, TypeOK, Whereabouts, KeepsPrevious, Backed, Staged, Steps, Files, Install, Become

LEMMA AdaptKeeps ==
  ASSUME UpgradeInv, Adapt
  PROVE  UpgradeInv'
<1>1. run \in RunState
  BY DEF UpgradeInv, TypeOK
<1>2. QED
  BY <1>1, GotoFacts, UpgradeAssumption
  DEF UpgradeInv, TypeOK, Whereabouts, KeepsPrevious, Backed, Staged, Steps, Files, Adapt

LEMMA BackupKeeps ==
  ASSUME UpgradeInv, Backup
  PROVE  UpgradeInv'
<1>1. run \in RunState
  BY DEF UpgradeInv, TypeOK
<1>2. QED
  BY <1>1, GotoFacts, UpgradeAssumption
  DEF UpgradeInv, TypeOK, Whereabouts, KeepsPrevious, Backed, Staged, Steps, Files, Backup

LEMMA CopyingKeeps ==
  ASSUME UpgradeInv, Copying
  PROVE  UpgradeInv'
<1>1. run \in RunState
  BY DEF UpgradeInv, TypeOK
<1>2. QED
  BY <1>1, GotoFacts, UpgradeAssumption
  DEF UpgradeInv, TypeOK, Whereabouts, KeepsPrevious, Backed, Staged, Steps, Files, Copying

LEMMA SwapKeeps ==
  ASSUME UpgradeInv, Swap
  PROVE  UpgradeInv'
<1>1. run \in RunState /\ run.step = "swap"
  BY DEF UpgradeInv, TypeOK, Swap
<1>2. /\ run' \in RunState /\ run'.method = run.method /\ run'.found = run.found
      /\ run'.result = run.result /\ run'.step \in {"restart", "installing"}
  BY <1>1, GotoFacts DEF Swap, Steps
<1>3. run.method \in Backed => run'.result = "none"
  BY <1>1, <1>2 DEF UpgradeInv, Whereabouts
<1>4. binary' \in Files /\ staging' \in Files /\ prev' = prev /\ process' = process
  BY DEF UpgradeInv, TypeOK, Swap, Files
<1>5. QED
  BY <1>1, <1>2, <1>3, <1>4 DEF UpgradeInv, TypeOK, Whereabouts, KeepsPrevious

LEMMA InstallingKeeps ==
  ASSUME UpgradeInv, Installing
  PROVE  UpgradeInv'
<1>1. run \in RunState /\ run.step = "installing" /\ run.artifact \in Files
  BY DEF UpgradeInv, TypeOK, RunState, Installing
<1>2. /\ run' \in RunState /\ run'.method = run.method /\ run'.found = run.found
      /\ run'.result = run.result /\ run'.step \in {"verify", "restart", "failed"}
  BY <1>1, GotoFacts DEF Installing, Steps
<1>3. run.method \in Backed => run'.result = "none"
  BY <1>1, <1>2 DEF UpgradeInv, Whereabouts
<1>4. binary' \in Files /\ UNCHANGED <<prev, staging, process>>
  BY <1>1 DEF UpgradeInv, TypeOK, Installing
<1>5. QED
  BY <1>1, <1>2, <1>3, <1>4 DEF UpgradeInv, TypeOK, Whereabouts, KeepsPrevious

LEMMA VerifyKeeps ==
  ASSUME UpgradeInv, Verify
  PROVE  UpgradeInv'
<1>1. run \in RunState /\ run.step = "verify"
  BY DEF UpgradeInv, TypeOK, Verify
<1>2. CASE Goto("restart") /\ UNCHANGED <<binary, prev>>
  BY <1>1, <1>2, GotoFacts
  DEF UpgradeInv, TypeOK, Whereabouts, KeepsPrevious, Steps, Verify
<1>3. CASE RevertBinary("failed-version-mismatch", "log")
  BY <1>1, <1>3, GotoFacts, DecidedFacts, UpgradeAssumption
  DEF UpgradeInv, TypeOK, Whereabouts, KeepsPrevious, Steps, Results, Files, Verify,
      RevertBinary, Become
<1>4. QED
  BY <1>2, <1>3 DEF Verify

LEMMA RestartKeeps ==
  ASSUME UpgradeInv, Restart
  PROVE  UpgradeInv'
<1>1. run \in RunState
  BY DEF UpgradeInv, TypeOK
<1>2. QED
  BY <1>1, RestartedFacts, UpgradeAssumption
  DEF UpgradeInv, TypeOK, Whereabouts, KeepsPrevious, Backed, Staged, Steps, Files, Restart, Executed, Become, files

LEMMA HealthKeeps ==
  ASSUME UpgradeInv, Health
  PROVE  UpgradeInv'
<1>1. run \in RunState
  BY DEF UpgradeInv, TypeOK
<1>2. QED
  BY <1>1, GotoFacts, DecidedFacts, UpgradeAssumption
  DEF UpgradeInv, TypeOK, Whereabouts, KeepsPrevious, Backed, Staged, Steps, Files, Health, Results, Become, files

LEMMA RevertKeeps ==
  ASSUME UpgradeInv, Revert
  PROVE  UpgradeInv'
<1>1. run \in RunState
  BY DEF UpgradeInv, TypeOK
<1>2. QED
  BY <1>1, GotoFacts, DecidedFacts, UpgradeAssumption
  DEF UpgradeInv, TypeOK, Whereabouts, KeepsPrevious, Backed, Staged, Steps, Files, Revert, RevertBinary, Results, Become

LEMMA LogKeeps ==
  ASSUME UpgradeInv, Log
  PROVE  UpgradeInv'
<1>1. PICK s \in {"done", "failed"} : /\ run' \in RunState
                                      /\ run'.step = s /\ run'.method = run.method
                                      /\ run'.found = run.found
  BY DEF UpgradeInv, TypeOK, RunState, Steps, Log, Goto, Become
<1>2. QED
  BY <1>1 DEF UpgradeInv, TypeOK, Whereabouts, KeepsPrevious, Log, files

LEMMA ExitKeeps ==
  ASSUME UpgradeInv, Exit
  PROVE  UpgradeInv'
<1>1. /\ run' \in RunState
      /\ run'.step = "idle" /\ run'.method = run.method
      /\ run'.found = run.found /\ run'.result = "none"
  BY DEF UpgradeInv, TypeOK, RunState, Steps, Results, Files, Exit, Idle, Become
<1>2. QED
  BY <1>1 DEF UpgradeInv, TypeOK, Whereabouts, KeepsPrevious, Exit, files

LEMMA RespawnKeeps ==
  ASSUME UpgradeInv, Respawn \/ UNCHANGED vars
  PROVE  UpgradeInv'
  BY DEF UpgradeInv, TypeOK, Whereabouts, KeepsPrevious, Respawn, Executed, files, vars

LEMMA UpgradeInductive == Spec => []UpgradeInv
<1>1. Init => UpgradeInv
  <2> SUFFICES ASSUME Init PROVE UpgradeInv
    OBVIOUS
  <2>1. binary \in Files /\ prev \in Files /\ staging \in Files
        /\ process \in Builds \cup {Missing}
    BY UpgradeAssumption DEF Init, Files
  <2>2. PICK method \in Methods, target \in Versions, signal \in BOOLEAN :
           run = Idle(method, target, signal, binary)
    BY DEF Init
  <2>3. run \in RunState /\ run.step = "idle" /\ run.found = binary /\ run.result = "none"
    BY <2>1, <2>2, MethodsAssumption DEF Idle, RunState, Steps, Results, Files
  <2>4. QED
    BY <2>1, <2>3 DEF UpgradeInv, TypeOK, Whereabouts, KeepsPrevious
<1>2. UpgradeInv /\ [Next]_vars => UpgradeInv'
  BY BeginKeeps, DownloadKeeps, BuildKeeps, InstallKeeps, AdaptKeeps, BackupKeeps,
     CopyingKeeps, SwapKeeps, InstallingKeeps, VerifyKeeps, RestartKeeps, HealthKeeps,
     RevertKeeps, LogKeeps, ExitKeeps, RespawnKeeps DEF Next, Step
<1> QED
  BY <1>1, <1>2, PTL DEF Spec

-----------------------------------------------------------------------------
(* Every step keeps the ledger true *)

LEMMA BeginTells ==
  ASSUME UpgradeInv, Ledger, NEW target \in Versions, Begin(target)
  PROVE  Ledger'
<1>1. PICK s \in {"fetch", "failed"} :
         run' = [run EXCEPT !.step = s, !.target = target, !.found = binary]
  BY DEF Begin, Become
<1>2. /\ run'.step = s /\ run'.method = run.method
      /\ run'.result = run.result /\ run'.logged = run.logged
      /\ run'.restarted = run.restarted
  BY <1>1 DEF UpgradeInv, TypeOK, RunState
<1>3. QED
  BY <1>2 DEF Ledger, Begin

LEMMA FetchTells ==
  ASSUME UpgradeInv, Ledger, Download \/ Build \/ Install
  PROVE  Ledger'
<1>1. run \in RunState /\ run.step = "fetch"
  BY DEF UpgradeInv, TypeOK, Download, Build, Install
<1>2. CASE Goto("failed")
  BY <1>1, <1>2, GotoFacts DEF Ledger, Steps
<1>3. ASSUME NEW s \in {"adapt", "backup", "restart"}, NEW b \in Files,
             run' = [run EXCEPT !.step = s, !.artifact = b],
             IF s = "restart" THEN binary' = b
             ELSE run.method \in Backed /\ (run.method = "xcaddy" => staging' = b)
      PROVE  Ledger'
  <2>1. s \in Steps
    BY DEF Steps
  <2>2. /\ run'.step = s /\ run'.method = run.method /\ run'.result = run.result
        /\ run'.artifact = b /\ run'.logged = run.logged /\ run'.restarted = run.restarted
    BY <1>1, <1>3, <2>1, FetchedFacts
  <2>3. QED
    BY <1>1, <1>3, <2>2 DEF Ledger
<1>4. CASE Download /\ ~Goto("failed")
  <2>1. PICK b \in Builds \cup {Partial} : run' = [run EXCEPT !.step = "backup", !.artifact = b]
    BY <1>4 DEF Download, Become
  <2>2. run.method = "github-release" /\ b \in Files
    BY <1>4 DEF Download, Files
  <2>3. QED
    BY <1>3, <2>1, <2>2 DEF Backed
<1>5. CASE Build /\ ~Goto("failed")
  <2>1. PICK b \in Builds :
          /\ staging' = b
          /\ run' = [run EXCEPT !.artifact = b,
                        !.step = IF run.method = "xcaddy" THEN "adapt" ELSE "backup"]
    BY <1>5 DEF Build, Become
  <2>2. PICK s \in {"adapt", "backup"} : run' = [run EXCEPT !.step = s, !.artifact = b]
    BY <2>1
  <2>3. run.method \in Backed /\ b \in Files
    BY <1>5 DEF Build, Backed, Staged, Files
  <2>4. QED
    BY <1>3, <2>1, <2>2, <2>3
<1>6. CASE Install /\ ~Goto("failed")
  <2>1. PICK b \in Builds : binary' = b /\ run' = [run EXCEPT !.step = "restart", !.artifact = b]
    BY <1>6 DEF Install, Become
  <2>2. b \in Files
    BY DEF Files
  <2>3. QED
    BY <1>3, <2>1, <2>2
<1>7. QED
  BY <1>2, <1>4, <1>5, <1>6

LEMMA BackupTells ==
  ASSUME UpgradeInv, Ledger, Adapt \/ Backup \/ Copying
  PROVE  Ledger'
<1>1. run \in RunState
  BY DEF UpgradeInv, TypeOK
<1>2. CASE Adapt
  BY <1>1, <1>2, GotoFacts DEF Ledger, Adapt, Steps
<1>3. CASE Backup
  BY <1>1, <1>3, GotoFacts DEF Ledger, Backup, Steps
<1>4. CASE Copying
  BY <1>1, <1>4, GotoFacts DEF Ledger, Copying, Steps
<1>5. QED
  BY <1>2, <1>3, <1>4

LEMMA SwapTells ==
  ASSUME UpgradeInv, Ledger, Swap \/ Installing
  PROVE  Ledger'
<1>1. run \in RunState
  BY DEF UpgradeInv, TypeOK
<1>2. CASE Swap
  BY <1>1, <1>2, GotoFacts DEF Ledger, Swap, Steps
<1>3. CASE Installing
  BY <1>1, <1>3, GotoFacts DEF Ledger, Installing, Steps
<1>4. QED
  BY <1>2, <1>3

LEMMA RevertTells ==
  ASSUME UpgradeInv, Ledger, Verify \/ Revert
  PROVE  Ledger'
<1>1. run \in RunState /\ run.method \in Backed
      /\ run.step \in {"verify", "revert"} /\ UNCHANGED process
  BY DEF UpgradeInv, TypeOK, Ledger, Verify, Revert
<1>2. CASE Goto("restart") /\ run.step = "verify" /\ UNCHANGED <<binary, prev>>
  BY <1>1, <1>2, GotoFacts DEF Ledger, Steps
<1>3. CASE Goto("failed") /\ UNCHANGED <<binary, prev>>
  BY <1>1, <1>3, GotoFacts DEF Ledger, Steps
<1>4. ASSUME NEW next \in {"log", "restart"}, NEW result \in {"failed-version-mismatch", "reverted"},
             IF next = "log" THEN run.step = "verify" ELSE result = "reverted",
             run' = [run EXCEPT !.step = next, !.result = result]
      PROVE  Ledger'
  <2>1. next \in Steps /\ result \in Results
    BY DEF Steps, Results
  <2>2. QED
    BY <1>1, <1>4, <2>1, DecidedFacts DEF Ledger
<1>5. QED
  BY <1>2, <1>3, <1>4 DEF Verify, Revert, RevertBinary, Become

LEMMA RestartTells ==
  ASSUME UpgradeInv, Ledger, Restart
  PROVE  Ledger'
<1>1. run \in RunState /\ run.step = "restart" /\ binary' = binary
  BY DEF UpgradeInv, TypeOK, Restart, files
<1>2. PICK worked \in BOOLEAN, s \in {"health", "log", "failed"} :
         /\ run' = [run EXCEPT !.restarted = worked, !.step = s]
         /\ worked = TRUE => process' \in Executed(binary)
         /\ s = "health" => run.result = "none"
         /\ s = "log" => run.result # "none"
  BY DEF Restart, Become
<1>3. /\ run'.step = s /\ run'.method = run.method /\ run'.result = run.result
      /\ run'.artifact = run.artifact /\ run'.logged = run.logged
      /\ run'.restarted = worked /\ run'.found = run.found
  BY <1>1, <1>2, RestartedFacts DEF Steps
<1>4. QED
  BY <1>1, <1>2, <1>3 DEF Ledger, Executed

LEMMA HealthTells ==
  ASSUME UpgradeInv, Ledger, Health
  PROVE  Ledger'
<1>1. run \in RunState /\ run.step = "health" /\ UNCHANGED <<binary, staging, process>>
  BY DEF UpgradeInv, TypeOK, Health, files
<1>2. CASE Goto("revert") /\ run.method \in Backed
  BY <1>1, <1>2, GotoFacts DEF Ledger, Steps
<1>3. ASSUME NEW result \in {"success", "failed"},
             run' = [run EXCEPT !.step = "log", !.result = result]
      PROVE  Ledger'
  <2>1. result \in Results /\ "log" \in Steps
    BY DEF Steps, Results
  <2>2. QED
    BY <1>1, <1>3, <2>1, DecidedFacts DEF Ledger
<1>4. QED
  BY <1>2, <1>3 DEF Health, Become

LEMMA LogTells ==
  ASSUME UpgradeInv, Ledger, Log
  PROVE  Ledger'
<1>1. run \in RunState /\ run.step = "log" /\ UNCHANGED <<binary, prev, staging, process>>
  BY DEF UpgradeInv, TypeOK, Log, files
<1>2. CASE Goto("failed")
  BY <1>1, <1>2, GotoFacts DEF Ledger, Steps
<1>3. ASSUME NEW s \in {"done", "failed"}, s = "done" <=> run.result = "success",
             run' = [run EXCEPT !.logged = run.result, !.step = s]
      PROVE  Ledger'
  <2>1. /\ run'.step = s /\ run'.method = run.method /\ run'.result = run.result
        /\ run'.artifact = run.artifact /\ run'.logged = run.result
        /\ run'.restarted = run.restarted /\ run'.found = run.found
    BY <1>1, <1>3 DEF RunState
  <2>2. run.found # Missing /\ run.result \in {"reverted", "failed-version-mismatch"}
           => binary = run.found
    BY <1>1 DEF UpgradeInv, Whereabouts, Ledger
  <2>3. QED
    BY <1>1, <1>3, <2>1, <2>2 DEF Ledger
<1>4. QED
  BY <1>2, <1>3 DEF Log, Become

LEMMA ExitTells ==
  ASSUME UpgradeInv, Ledger, Exit
  PROVE  Ledger'
<1>1. /\ run'.step = "idle" /\ run'.result = "none" /\ run'.logged = "none"
      /\ run'.restarted = FALSE
  BY DEF Exit, Idle, Become
<1>2. QED
  BY <1>1 DEF Ledger

LEMMA RespawnTells ==
  ASSUME UpgradeInv, Ledger, Respawn \/ UNCHANGED vars
  PROVE  Ledger'
BY DEF Ledger, Respawn, Executed, files, vars

LEMMA LedgerInductive == Spec => []Ledger
<1>1. Init => Ledger
  BY DEF Init, Idle, Ledger
<1>2. UpgradeInv /\ Ledger /\ [Next]_vars => Ledger'
  BY BeginTells, FetchTells, BackupTells, SwapTells, RevertTells, RestartTells,
     HealthTells, LogTells, ExitTells, RespawnTells DEF Next, Step
<1> QED
  BY <1>1, <1>2, UpgradeInductive, PTL DEF Spec

-----------------------------------------------------------------------------

(* Every file, process and script state of an upgrade is well typed, for   *)
(* any builds, versions and methods.                                       *)
THEOREM UpgradeTypes == Spec => []TypeOK
<1>1. UpgradeInv => TypeOK
  BY DEF UpgradeInv
<1> QED
  BY <1>1, UpgradeInductive, PTL

(* Wherever an upgrade fails or is killed, the binary it found is in place *)
(* or at .prev.                                                            *)
THEOREM PreviousIsKept == Spec => []KeepsPrevious
<1>1. UpgradeInv => KeepsPrevious
  BY DEF UpgradeInv
<1> QED
  BY <1>1, UpgradeInductive, PTL

(* A success in the upgrade log means that the new build is installed and, *)
(* if its restart worked, that no other runs; a revert, or a refusal for   *)
(* the version, that the previous one is back - whichever command failed   *)
(* or was killed on the way.                                               *)
THEOREM LogTellsTheTruth == Spec => []LogIsTrue
<1>1. Ledger => LogIsTrue
  <2> SUFFICES ASSUME Ledger PROVE SuccessRunsTarget /\ RevertedRunsPrevious
    BY DEF LogIsTrue
  <2>1. SuccessRunsTarget
    BY DEF Ledger, SuccessRunsTarget
  <2>2. RevertedRunsPrevious
    BY DEF Ledger, RevertedRunsPrevious
  <2>3. QED
    BY <2>1, <2>2
<1> QED
  BY <1>1, LedgerInductive, PTL

\* Of two releases the comparison is that of their numbers; of others it never
\* says which is older.
LEMMA VersionOrder ==
  ASSUME NEW a \in Versions, NEW b \in Versions
  PROVE  /\ VersionCmp(a, b) = "newer" => a \in Releases /\ b \in Releases /\ a > b
         /\ VersionCmp(a, b) = "older" => a \in Releases /\ b \in Releases /\ a < b
         /\ VersionCmp(a, b) = "equal" => a = b
         /\ a \in Releases /\ b \in Releases /\ a > b => VersionCmp(a, b) = "newer"
<1>1. CASE a = b
  BY <1>1, UpgradeAssumption DEF VersionCmp
<1>2. CASE a # b /\ {a, b} \subseteq Releases
  BY <1>2, UpgradeAssumption DEF VersionCmp
<1>3. CASE a # b /\ ~({a, b} \subseteq Releases)
  BY <1>3 DEF VersionCmp
<1>4. QED
  BY <1>1, <1>2, <1>3

(* A service reported behind is never newer than the latest release, and   *)
(* one reported ok is neither ahead of its pin nor, without one, behind,   *)
(* for any releases and whatever binary an upgrade left behind.            *)
THEOREM BehindIsOlder == Spec => []BehindMeansOlder
<1>1. TypeOK => BehindMeansOlder
  <2> SUFFICES ASSUME TypeOK,
                      NEW live \in Probed(binary) \cap Releases,
                      NEW pinned \in {run.target, Missing},
                      NEW latest \in Releases
               PROVE  LET drift == ClassifyDrift(live, pinned, latest)
                      IN  /\ drift = "behind" => live < latest
                          /\ drift = "ok" => IF pinned = Missing THEN live >= latest
                                             ELSE pinned \in Releases => live <= pinned
    BY DEF BehindMeansOlder
  <2>1. /\ live \in Versions /\ latest \in Versions /\ live \in Nat /\ latest \in Nat
        /\ live # Missing /\ latest # Missing
    BY UpgradeAssumption DEF Versions
  <2>2. CASE pinned = Missing
    BY <2>1, <2>2, VersionOrder, UpgradeAssumption DEF ClassifyDrift
  <2>3. CASE pinned # Missing
    <3>1. pinned \in Versions
      BY <2>3 DEF TypeOK, RunState
    <3>2. QED
      BY <2>1, <2>3, <3>1, VersionOrder, UpgradeAssumption DEF ClassifyDrift
  <2>4. QED
    BY <2>2, <2>3
<1> QED
  BY <1>1, UpgradeTypes, PTL
===============================================================================
