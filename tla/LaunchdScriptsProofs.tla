------------------------- MODULE LaunchdScriptsProofs -------------------------
(***************************************************************************)
(* Ingress comes first, no label is bootstrapped while launchd still knows *)
(* it, an undisturbed load converges, and every command takes its script   *)
(* forward, for any agents, plists, bundles and number of scripts.         *)
(*                                                                         *)
(* Ready says what a script that has been alone relies on at each of its   *)
(* steps.  It is preserved by the script's own steps for what they do, and *)
(* by everybody else's because they end its being alone - but for launchd, *)
(* which may at any time forget a label it was tearing down.               *)
(***************************************************************************)
EXTENDS LaunchdScripts, FiniteSetTheorems, TLAPS

\* Caddy runs its installed plist.
IngressUp == Loaded(Caddy) /\ job[Caddy].plist = installed[Caddy]

\* The steps of a load that come after Caddy's; those it shares with Caddy's
\* are told apart by the label.
AgentSteps  == {"next", "print", "bootout", "done"}
SharedSteps == {"wait", "bootstrap", "failed"}

Ready(s) ==
    LET S == script[s]
    IN  /\ S.step \in {"copy", "place"} => S.todo \subseteq Agents
        /\ S.alone =>
          /\ S.step \in {"port", "bootstrap"} => ~Printed(S.label)
          /\ S.step \in {"remove", "start"} => S.command # "load"
          /\ S.command = "load" =>
                /\ S.step \in {"copy", "place"} => S.todo \subseteq GeneratedAgents
                /\ S.step = "place" => S.label \in S.todo
                /\ S.step \in {"daemon", "cycle", "port"} => S.label = Caddy
                /\ S.step \in {"next", "print", "bootout"} => S.todo \subseteq Agents
                /\ S.step \in {"print", "bootout"} => S.label \in Agents
                /\ S.step \in {"wait", "bootstrap"} /\ S.label \in Agents => S.todo \subseteq Agents
                /\ S.step \in AgentSteps => IngressUp
                /\ S.step \in SharedSteps /\ S.label \in Agents => IngressUp

AllReady == \A s \in Scripts : Ready(s)

-----------------------------------------------------------------------------
(* Types *)

LEMMA IdleTypes == Idle \in ScriptState /\ Idle.step = "idle" /\ Idle.label = Caddy
BY DEF Idle, ScriptState, Steps, AllCommands, Labels

LEMMA FreshTypes ==
  ASSUME NEW c \in AllCommands
  PROVE  /\ Fresh(c) \in ScriptState
         /\ Fresh(c).command = c /\ Fresh(c).label = Caddy
<1>1. ASSUME NEW orphans \in SUBSET Agents, NEW settled \in BOOLEAN, NEW alone \in BOOLEAN,
             Fresh(c) = [Idle EXCEPT !.command = c, !.orphans = orphans,
                                     !.settled = settled, !.alone = alone]
      PROVE  /\ Fresh(c) \in ScriptState
             /\ Fresh(c).command = c /\ Fresh(c).label = Caddy
  BY <1>1, IdleTypes DEF ScriptState
<1>2. InstalledAgents \ GeneratedAgents \in SUBSET Agents
  BY DEF InstalledAgents
<1>3. /\ (\A n \in Labels : job[n].state # "leaving") \in BOOLEAN
      /\ (\A t \in Scripts : ~Active(t)) \in BOOLEAN
  OBVIOUS
<1>4. QED
  BY <1>1, <1>2, <1>3, Zenon DEF Fresh

\* A script becomes `state', and every other one keeps all but its being alone.
LEMMA OneBecomes ==
  ASSUME script \in [Scripts -> ScriptState], NEW s \in Scripts,
         NEW state \in ScriptState, Become(s, state)
  PROVE  /\ script' \in [Scripts -> ScriptState]
         /\ script'[s] = state
         /\ \A t \in Scripts \ {s} :
               /\ script'[t].step = script[t].step /\ script'[t].todo = script[t].todo
               /\ script'[t].alone = FALSE \/ script'[t].step = "idle"
<1>1. \A t \in Scripts : [script[t] EXCEPT !.alone = FALSE] \in ScriptState
  BY DEF ScriptState
<1>2. \A t \in Scripts : /\ [script[t] EXCEPT !.alone = FALSE].alone = FALSE
                        /\ [script[t] EXCEPT !.alone = FALSE].step = script[t].step
                        /\ [script[t] EXCEPT !.alone = FALSE].todo = script[t].todo
  BY DEF ScriptState
<1>3. QED
  BY <1>1, <1>2 DEF Become, Active

\* The variables other than the scripts'.
RestTypes ==
    job \in [Labels -> Job] /\ generated \in Generations
        /\ installed \in [Labels -> Plists \cup {None}]

\* Such a step keeps all scripts ready if it keeps s ready.
LEMMA OneReady ==
  ASSUME TypeOK, AllReady, NEW s \in Scripts, NEW state \in ScriptState, Become(s, state),
         RestTypes', script'[s] = state => Ready(s)'
  PROVE  TypeOK' /\ AllReady'
<1>1. /\ script' \in [Scripts -> ScriptState]
      /\ script'[s] = state
      /\ \A t \in Scripts \ {s} :
            /\ script'[t].step = script[t].step /\ script'[t].todo = script[t].todo
            /\ script'[t].alone = FALSE \/ script'[t].step = "idle"
  BY OneBecomes DEF TypeOK
<1>2. ASSUME NEW t \in Scripts \ {s}
      PROVE  Ready(t)'
  BY <1>1 DEF AllReady, Ready, AgentSteps, SharedSteps
<1>3. QED
  BY <1>1, <1>2 DEF TypeOK, RestTypes, AllReady

\* What is installed and generated is a plist or nothing, and so is a job's.
LEMMA PlistTypes ==
  ASSUME TypeOK, NEW n \in Labels
  PROVE  /\ installed[n] \in Plists \cup {None}
         /\ generated[n] \in Plists \cup {None}
         /\ job[n] \in Job
BY GenerationsAssumption DEF TypeOK

LEMMA JobTypes ==
  ASSUME TypeOK, NEW n \in Labels
  PROVE  /\ Bootout(n) => job' \in [Labels -> Job]
         /\ \A plist \in Plists \cup {None} : Bootstrap(n, plist) => job' \in [Labels -> Job]
         /\ Gone(n) => job' \in [Labels -> Job]
BY DEF TypeOK, Bootout, Bootstrap, Gone, NoJob, Job, JobStates, Loaded

\* What is done to an agent's job leaves Caddy's alone.
LEMMA CaddyIsNoAgent ==
  ASSUME TypeOK, NEW n \in Agents, NEW plist,
         Bootout(n) \/ Bootstrap(n, plist)
  PROVE  job'[Caddy] = job[Caddy]
BY LabelsAssumption DEF TypeOK, Bootout, Bootstrap, Labels

\* What script s is after it became `state', field by field.
Fields(s, step, todo, label) ==
    /\ script'[s].step = step /\ script'[s].todo = todo /\ script'[s].label = label
    /\ script'[s].command = script[s].command /\ script'[s].alone = script[s].alone
    /\ script'[s].services = script[s].services

\* A step that changes where the script is, its loop or its label.
LEMMA MoveReady ==
  ASSUME TypeOK, AllReady, NEW s \in Scripts, NEW step \in Steps,
         NEW todo \in SUBSET Labels, NEW label \in Labels,
         \/ /\ Become(s, [script[s] EXCEPT !.step = step])
            /\ todo = script[s].todo /\ label = script[s].label
         \/ /\ Become(s, [script[s] EXCEPT !.todo = todo])
            /\ step = script[s].step /\ label = script[s].label
         \/ /\ Become(s, [script[s] EXCEPT !.step = step, !.todo = todo])
            /\ label = script[s].label
         \/ /\ Become(s, [script[s] EXCEPT !.step = step, !.label = label])
            /\ todo = script[s].todo
         \/ Become(s, [script[s] EXCEPT !.step = step, !.label = label, !.todo = todo]),
         RestTypes',
         Fields(s, step, todo, label) => Ready(s)'
  PROVE  TypeOK' /\ AllReady'
<1>1. script[s] \in ScriptState
  BY DEF TypeOK
<1>2. ASSUME NEW state \in ScriptState, Become(s, state),
             state.step = step, state.todo = todo, state.label = label,
             state.command = script[s].command, state.alone = script[s].alone,
             state.services = script[s].services
      PROVE  TypeOK' /\ AllReady'
  BY <1>2, OneReady DEF Fields
<1>3. CASE Become(s, [script[s] EXCEPT !.step = step])
        /\ todo = script[s].todo /\ label = script[s].label
  <2> DEFINE state == [script[s] EXCEPT !.step = step]
  <2>1. /\ state \in ScriptState
        /\ state.step = step /\ state.todo = todo /\ state.label = label
        /\ state.command = script[s].command /\ state.alone = script[s].alone
        /\ state.services = script[s].services
    BY <1>1, <1>3 DEF ScriptState
  <2>2. Become(s, state)
    BY <1>3
  <2> HIDE DEF state
  <2>3. QED
    BY <1>2, <2>1, <2>2
<1>4. CASE Become(s, [script[s] EXCEPT !.todo = todo])
        /\ step = script[s].step /\ label = script[s].label
  <2> DEFINE state == [script[s] EXCEPT !.todo = todo]
  <2>1. /\ state \in ScriptState
        /\ state.step = step /\ state.todo = todo /\ state.label = label
        /\ state.command = script[s].command /\ state.alone = script[s].alone
        /\ state.services = script[s].services
    BY <1>1, <1>4 DEF ScriptState
  <2>2. Become(s, state)
    BY <1>4
  <2> HIDE DEF state
  <2>3. QED
    BY <1>2, <2>1, <2>2
<1>5. CASE Become(s, [script[s] EXCEPT !.step = step, !.todo = todo])
        /\ label = script[s].label
  <2> DEFINE state == [script[s] EXCEPT !.step = step, !.todo = todo]
  <2>1. /\ state \in ScriptState
        /\ state.step = step /\ state.todo = todo /\ state.label = label
        /\ state.command = script[s].command /\ state.alone = script[s].alone
        /\ state.services = script[s].services
    BY <1>1, <1>5 DEF ScriptState
  <2>2. Become(s, state)
    BY <1>5
  <2> HIDE DEF state
  <2>3. QED
    BY <1>2, <2>1, <2>2
<1>6. CASE Become(s, [script[s] EXCEPT !.step = step, !.label = label])
        /\ todo = script[s].todo
  <2> DEFINE state == [script[s] EXCEPT !.step = step, !.label = label]
  <2>1. /\ state \in ScriptState
        /\ state.step = step /\ state.todo = todo /\ state.label = label
        /\ state.command = script[s].command /\ state.alone = script[s].alone
        /\ state.services = script[s].services
    BY <1>1, <1>6 DEF ScriptState
  <2>2. Become(s, state)
    BY <1>6
  <2> HIDE DEF state
  <2>3. QED
    BY <1>2, <2>1, <2>2
<1>7. CASE Become(s, [script[s] EXCEPT !.step = step, !.label = label, !.todo = todo])
  <2> DEFINE state == [script[s] EXCEPT !.step = step, !.label = label, !.todo = todo]
  <2>1. /\ state \in ScriptState
        /\ state.step = step /\ state.todo = todo /\ state.label = label
        /\ state.command = script[s].command /\ state.alone = script[s].alone
        /\ state.services = script[s].services
    BY <1>1, <1>7 DEF ScriptState
  <2>2. Become(s, state)
    BY <1>7
  <2> HIDE DEF state
  <2>3. QED
    BY <1>2, <2>1, <2>2
<1>8. QED
  BY <1>3, <1>4, <1>5, <1>6, <1>7

\* A step that changes only where the script is.
LEMMA GotoReady ==
  ASSUME TypeOK, AllReady, NEW s \in Scripts, NEW step \in Steps, Goto(s, step), RestTypes',
         Fields(s, step, script[s].todo, script[s].label) => Ready(s)'
  PROVE  TypeOK' /\ AllReady'
<1>1. script[s].todo \in SUBSET Labels /\ script[s].label \in Labels
  BY DEF TypeOK, ScriptState
<1>2. QED
  BY <1>1, MoveReady DEF Goto

\* A script that becomes Idle, or fails before it begins.
LEMMA FreshReady ==
  ASSUME TypeOK, AllReady, NEW s \in Scripts, NEW state \in ScriptState, Become(s, state), RestTypes',
         state.step = "idle" \/ (state.step = "failed" /\ state.label = Caddy)
  PROVE  TypeOK' /\ AllReady'
BY OneReady, LabelsAssumption DEF Ready, AgentSteps, SharedSteps

-----------------------------------------------------------------------------
(* Beginning and ending *)

LEMMA BeginInstallReady ==
  ASSUME TypeOK, AllReady, NEW s \in Scripts, NEW command \in Commands, BeginInstall(s, command)
  PROVE  TypeOK' /\ AllReady'
<1>1. command \in AllCommands
  BY CommandsAssumption
<1>2. RestTypes'
  BY DEF BeginInstall, TypeOK, RestTypes
<1>3. CASE generated[Caddy] = None \/ GeneratedAgents = {}
  <2>1. [Fresh(command) EXCEPT !.step = "failed"] \in ScriptState
    BY <1>1, FreshTypes DEF ScriptState, Steps
  <2>2. [Fresh(command) EXCEPT !.step = "failed"].step = "failed"
        /\ [Fresh(command) EXCEPT !.step = "failed"].label = Caddy
    BY <1>1, FreshTypes DEF ScriptState
  <2>3. QED
    BY <1>2, <1>3, <2>1, <2>2, FreshReady DEF BeginInstall
<1>4. CASE ~(generated[Caddy] = None \/ GeneratedAgents = {})
  <2>0. PICK F \in ScriptState : F = Fresh(command)
    BY <1>1, FreshTypes
  <2> DEFINE state == [F EXCEPT !.step = "copy", !.services = GeneratedAgents,
                                !.todo = GeneratedAgents]
  <2>1. GeneratedAgents \in SUBSET Agents /\ GeneratedAgents \in SUBSET Labels
    BY DEF GeneratedAgents, Labels
  <2>2. state \in ScriptState /\ state.step = "copy" /\ state.todo = GeneratedAgents
    BY <2>0, <2>1 DEF ScriptState, Steps
  <2>3. Become(s, state) /\ generated' = generated
    BY <1>4, <2>0 DEF BeginInstall
  <2> HIDE DEF state
  <2>4. GeneratedAgents' = GeneratedAgents
    BY <2>3 DEF GeneratedAgents
  <2>5. script'[s] = state => Ready(s)'
    BY <2>1, <2>2, <2>4 DEF Ready, AgentSteps, SharedSteps
  <2>6. QED
    BY <1>2, <2>2, <2>3, <2>5, OneReady
<1>5. QED
  BY <1>3, <1>4

LEMMA BeginUninstallReady ==
  ASSUME TypeOK, AllReady, NEW s \in Scripts, NEW command \in Commands, BeginUninstall(s, command)
  PROVE  TypeOK' /\ AllReady'
<1>0. command \in AllCommands
  BY CommandsAssumption
<1>1. PICK F \in ScriptState : F = Fresh(command) /\ F.command = command
  BY <1>0, FreshTypes
<1> DEFINE state == [F EXCEPT !.step = "remove", !.todo = InstalledAgents]
<1>2. InstalledAgents \in SUBSET Labels
  BY DEF InstalledAgents, Labels
<1>3. state \in ScriptState /\ state.step = "remove" /\ state.command = command
  BY <1>1, <1>2 DEF ScriptState, Steps
<1>4. Become(s, state) /\ RestTypes' /\ command # "load"
  BY <1>1 DEF BeginUninstall, TypeOK, RestTypes
<1> HIDE DEF state
<1>5. script'[s] = state => Ready(s)'
  BY <1>3, <1>4 DEF Ready, AgentSteps, SharedSteps
<1>6. QED
  BY <1>3, <1>4, <1>5, OneReady

LEMMA BeginServiceReady ==
  ASSUME TypeOK, AllReady, NEW s \in Scripts, NEW command \in Commands, BeginService(s, command)
  PROVE  TypeOK' /\ AllReady'
<1>1. command \in AllCommands /\ command # "load" /\ RestTypes'
  BY CommandsAssumption DEF BeginService, TypeOK, RestTypes
<1>2. ASSUME NEW todo \in SUBSET Labels,
             Become(s, [Fresh(command) EXCEPT !.step = "next", !.todo = todo])
      PROVE  TypeOK' /\ AllReady'
  <2>0. PICK F \in ScriptState : F = Fresh(command) /\ F.command = command
    BY <1>1, FreshTypes
  <2> DEFINE state == [F EXCEPT !.step = "next", !.todo = todo]
  <2>1. state \in ScriptState /\ state.step = "next" /\ state.command = command
    BY <2>0 DEF ScriptState, Steps
  <2>2. Become(s, state)
    BY <1>2, <2>0
  <2> HIDE DEF state
  <2>3. script'[s] = state => Ready(s)'
    BY <1>1, <2>1 DEF Ready, AgentSteps, SharedSteps
  <2>4. QED
    BY <1>1, <2>1, <2>2, <2>3, OneReady
<1>3. ASSUME Become(s, [Fresh(command) EXCEPT !.step = "failed"])
      PROVE  TypeOK' /\ AllReady'
  <2>1. [Fresh(command) EXCEPT !.step = "failed"] \in ScriptState
    BY <1>1, FreshTypes DEF ScriptState, Steps
  <2>2. [Fresh(command) EXCEPT !.step = "failed"].step = "failed"
        /\ [Fresh(command) EXCEPT !.step = "failed"].label = Caddy
    BY <1>1, FreshTypes DEF ScriptState
  <2>3. QED
    BY <1>1, <1>3, <2>1, <2>2, FreshReady
<1>4. (\A n \in Labels : {n} \in SUBSET Labels) /\ GeneratedAgents \cup {Caddy} \in SUBSET Labels
  BY DEF GeneratedAgents, Labels
<1>5. QED
  BY <1>2, <1>3, <1>4 DEF BeginService

LEMMA EndReady ==
  ASSUME TypeOK, AllReady, NEW s \in Scripts, Exit(s) \/ Killed(s)
  PROVE  TypeOK' /\ AllReady'
BY FreshReady, IdleTypes DEF Exit, Killed, TypeOK, RestTypes

-----------------------------------------------------------------------------
(* Installing the files *)

LEMMA CopyReady ==
  ASSUME TypeOK, AllReady, NEW s \in Scripts, Copy(s)
  PROVE  TypeOK' /\ AllReady'
<1>1. script[s] \in ScriptState /\ Ready(s) /\ script[s].step = "copy"
  BY DEF TypeOK, AllReady, Copy
<1>2. GeneratedAgents' = GeneratedAgents
  BY DEF Copy, GeneratedAgents
<1>3. PICK n \in script[s].todo :
        IF generated[n] = None
        THEN Goto(s, "failed") /\ UNCHANGED installed
        ELSE /\ Become(s, [script[s] EXCEPT
                   !.step = "place", !.label = n,
                   !.changed = IF installed[n] # generated[n] THEN @ \cup {n} ELSE @])
             /\ installed' = [installed EXCEPT ![n] = None]
  BY DEF Copy
<1>4. CASE generated[n] = None
  <2>1. ~script[s].alone \/ script[s].command # "load"
    BY <1>1, <1>3, <1>4 DEF Ready, GeneratedAgents
  <2>2. Fields(s, "failed", script[s].todo, script[s].label) => Ready(s)'
    BY <2>1 DEF Fields, Ready, AgentSteps, SharedSteps
  <2>3. QED
    BY <1>3, <1>4, <2>2, GotoReady DEF Copy, TypeOK, RestTypes, Steps
<1>5. CASE generated[n] # None
  <2> DEFINE changed == IF installed[n] # generated[n] THEN script[s].changed \cup {n}
                                                      ELSE script[s].changed
             state == [script[s] EXCEPT !.step = "place", !.label = n, !.changed = changed]
  <2>1. n \in Agents /\ n \in Labels
    BY <1>1, <1>3 DEF Ready, Labels
  <2>2. changed \in SUBSET Agents
    BY <1>1, <2>1 DEF ScriptState
  <2>3. Become(s, state)
    BY <1>3, <1>5
  <2> HIDE DEF changed
  <2>4. state \in ScriptState /\ state.step = "place" /\ state.todo = script[s].todo
        /\ state.label = n /\ state.alone = script[s].alone
        /\ state.command = script[s].command
    BY <1>1, <2>1, <2>2 DEF ScriptState, Steps
  <2> HIDE DEF state
  <2>5. RestTypes'
    BY <1>3, <1>5, <2>1 DEF Copy, TypeOK, RestTypes
  <2>6. script'[s] = state => Ready(s)'
    BY <1>1, <1>2, <1>3, <2>4 DEF Ready, AgentSteps, SharedSteps
  <2>7. QED
    BY <2>3, <2>4, <2>5, <2>6, OneReady
<1>6. QED
  BY <1>4, <1>5

LEMMA PlaceReady ==
  ASSUME TypeOK, AllReady, NEW s \in Scripts, Place(s)
  PROVE  TypeOK' /\ AllReady'
<1> DEFINE n == script[s].label
<1>1. script[s] \in ScriptState /\ Ready(s) /\ script[s].step = "place" /\ n \in Labels
  BY DEF TypeOK, AllReady, Place, ScriptState
<1>2. GeneratedAgents' = GeneratedAgents
  BY DEF Place, GeneratedAgents
<1>3. CASE generated[n] = None
  <2>1. ~script[s].alone \/ script[s].command # "load"
    BY <1>1, <1>3 DEF Ready, GeneratedAgents
  <2>2. Fields(s, "failed", script[s].todo, script[s].label) => Ready(s)'
    BY <2>1 DEF Fields, Ready, AgentSteps, SharedSteps
  <2>3. QED
    BY <1>3, <2>2, GotoReady DEF Place, TypeOK, RestTypes, Steps
<1>4. CASE generated[n] # None
  <2>1. script[s].todo \ {n} \in SUBSET Labels
    BY <1>1 DEF ScriptState
  <2>2. RestTypes'
    BY <1>1, <1>4, PlistTypes DEF Place, TypeOK, RestTypes
  <2>3. Fields(s, "copy", script[s].todo \ {n}, script[s].label) => Ready(s)'
    BY <1>1, <1>2 DEF Fields, Ready, AgentSteps, SharedSteps
  <2>4. QED
    BY <1>1, <1>4, <2>1, <2>2, <2>3, MoveReady DEF Place, Steps
<1>5. QED
  BY <1>3, <1>4

\* The rest of the files, up to the daemon's, involves nothing Ready mentions.
LEMMA PruneReady ==
  ASSUME TypeOK, AllReady, NEW s \in Scripts,
         Copied(s) \/ Prune(s) \/ Drop(s) \/ Pruned(s)
  PROVE  TypeOK' /\ AllReady'
<1>1. script[s] \in ScriptState /\ script[s].label \in Labels /\ script[s].todo \in SUBSET Labels
      /\ InstalledAgents \in SUBSET Labels
  BY DEF TypeOK, ScriptState, InstalledAgents, Labels
<1>2. ASSUME NEW todo, NEW label
      PROVE  /\ Fields(s, "prune", todo, label) => Ready(s)'
             /\ Fields(s, "drop", todo, label) => Ready(s)'
             /\ Fields(s, "daemon", todo, Caddy) => Ready(s)'
  BY DEF Fields, Ready, AgentSteps, SharedSteps
<1>3. CASE Copied(s)
  <2>1. RestTypes' /\ "prune" \in Steps
    BY <1>3 DEF Copied, TypeOK, RestTypes, Steps
  <2>2. Become(s, [script[s] EXCEPT !.step = "prune", !.todo = InstalledAgents])
    BY <1>3 DEF Copied
  <2>3. Fields(s, "prune", InstalledAgents, script[s].label) => Ready(s)'
    BY <1>2
  <2>4. QED
    BY <1>1, <2>1, <2>2, <2>3, MoveReady
<1>4. CASE Prune(s)
  <2>1. PICK n \in script[s].todo :
          IF generated[n] # None
          THEN /\ Become(s, [script[s] EXCEPT !.todo = @ \ {n}])
               /\ UNCHANGED job
          ELSE /\ Become(s, [script[s] EXCEPT !.step = "drop", !.label = n])
               /\ Bootout(n)
    BY <1>4 DEF Prune
  <2>2. n \in Labels /\ script[s].todo \ {n} \in SUBSET Labels
    BY <1>1
  <2>3. RestTypes'
    BY <1>4, <2>1, <2>2, JobTypes DEF Prune, TypeOK, RestTypes
  <2>4. script[s].step = "prune"
    BY <1>4 DEF Prune
  <2>5. CASE generated[n] # None
    <3>1. Become(s, [script[s] EXCEPT !.todo = @ \ {n}])
      BY <2>1, <2>5
    <3>2. Fields(s, "prune", script[s].todo \ {n}, script[s].label) => Ready(s)'
      BY <1>2
    <3>3. "prune" \in Steps
      BY DEF Steps
    <3>4. QED
      BY <1>1, <2>2, <2>3, <2>4, <3>1, <3>2, <3>3, MoveReady
  <2>6. CASE generated[n] = None
    <3>1. Become(s, [script[s] EXCEPT !.step = "drop", !.label = n])
      BY <2>1, <2>6
    <3>2. Fields(s, "drop", script[s].todo, n) => Ready(s)'
      BY <1>2
    <3>3. "drop" \in Steps
      BY DEF Steps
    <3>4. QED
      BY <1>1, <2>2, <2>3, <3>1, <3>2, <3>3, MoveReady
  <2>7. QED
    BY <2>5, <2>6
<1>5. CASE Drop(s)
  <2>1. RestTypes'
    BY <1>1, <1>5 DEF Drop, TypeOK, RestTypes
  <2>2. script[s].todo \ {script[s].label} \in SUBSET Labels
    BY <1>1
  <2>3. QED
    <3>1. Become(s, [script[s] EXCEPT !.step = "prune", !.todo = @ \ {script[s].label}])
      BY <1>5 DEF Drop
    <3>2. Fields(s, "prune", script[s].todo \ {script[s].label}, script[s].label) => Ready(s)'
      BY <1>2
    <3>3. "prune" \in Steps
      BY DEF Steps
    <3>4. QED
      BY <1>1, <2>1, <2>2, <3>1, <3>2, <3>3, MoveReady
<1>6. CASE Pruned(s)
  <2>1. RestTypes' /\ Caddy \in Labels
    BY <1>6 DEF Pruned, TypeOK, RestTypes, Labels
  <2>2. Become(s, [script[s] EXCEPT !.step = "daemon", !.label = Caddy])
    BY <1>6 DEF Pruned
  <2>3. "daemon" \in Steps
    BY DEF Steps
  <2>4. Fields(s, "daemon", script[s].todo, Caddy) => Ready(s)'
    BY <1>2
  <2>5. QED
    BY <1>1, <2>1, <2>2, <2>3, <2>4, MoveReady
<1>7. QED
  BY <1>3, <1>4, <1>5, <1>6

LEMMA InstallDaemonReady ==
  ASSUME TypeOK, AllReady, NEW s \in Scripts, InstallDaemon(s)
  PROVE  TypeOK' /\ AllReady'
<1>1. script[s] \in ScriptState /\ Ready(s) /\ script[s].step = "daemon"
  BY DEF TypeOK, AllReady, InstallDaemon
<1>2. RestTypes'
  <2>1. Caddy \in Labels
    BY DEF Labels
  <2>2. QED
    BY <2>1, PlistTypes DEF InstallDaemon, TypeOK, RestTypes
<1>3. CASE Goto(s, "failed")
  <2>1. Fields(s, "failed", script[s].todo, script[s].label) => Ready(s)'
    BY <1>1, LabelsAssumption DEF Fields, Ready, AgentSteps, SharedSteps
  <2>2. QED
    BY <1>2, <1>3, <2>1, GotoReady DEF Steps
<1>4. CASE Loading(s) /\ Goto(s, "cycle")
  <2>1. Fields(s, "cycle", script[s].todo, script[s].label) => Ready(s)'
    BY <1>1 DEF Fields, Ready, AgentSteps, SharedSteps
  <2>2. QED
    BY <1>2, <1>4, <2>1, GotoReady DEF Steps
<1>5. CASE ~Loading(s) /\ Goto(s, "done")
  <2>1. Fields(s, "done", script[s].todo, script[s].label) => Ready(s)'
    BY <1>5 DEF Loading, Fields, Ready
  <2>2. QED
    BY <1>2, <1>5, <2>1, GotoReady DEF Steps
<1>6. QED
  BY <1>3, <1>4, <1>5 DEF InstallDaemon

-----------------------------------------------------------------------------
(* Loading the jobs *)

LEMMA CycleReady ==
  ASSUME TypeOK, AllReady, NEW s \in Scripts, CycleDaemon(s)
  PROVE  TypeOK' /\ AllReady'
<1>1. script[s].todo \in SUBSET Labels /\ Caddy \in Labels
  BY DEF TypeOK, ScriptState, Labels
<1>2. RestTypes'
  BY <1>1, JobTypes DEF CycleDaemon, TypeOK, RestTypes
<1>3. Fields(s, "wait", script[s].todo, Caddy) => Ready(s)'
  BY LabelsAssumption DEF Fields, Ready, AgentSteps, SharedSteps
<1>4. QED
  BY <1>1, <1>2, <1>3, MoveReady DEF CycleDaemon, Steps

LEMMA PortReady ==
  ASSUME TypeOK, AllReady, NEW s \in Scripts, Port(s)
  PROVE  TypeOK' /\ AllReady'
<1>1. script[s] \in ScriptState /\ Ready(s) /\ script[s].step = "port" /\ RestTypes'
      /\ job' = job
  BY DEF TypeOK, AllReady, Port, RestTypes
<1>2. /\ Fields(s, "bootstrap", script[s].todo, script[s].label) => Ready(s)'
      /\ Fields(s, "failed", script[s].todo, script[s].label) => Ready(s)'
  BY <1>1, LabelsAssumption DEF Fields, Ready, AgentSteps, SharedSteps, Printed
<1>3. QED
  BY <1>1, <1>2, GotoReady DEF Port, Steps

LEMMA NextLabelReady ==
  ASSUME TypeOK, AllReady, NEW s \in Scripts, NextLabel(s)
  PROVE  TypeOK' /\ AllReady'
<1>1. script[s] \in ScriptState /\ Ready(s) /\ script[s].step = "next" /\ RestTypes'
      /\ job' = job /\ installed' = installed
  BY DEF TypeOK, AllReady, NextLabel, RestTypes
<1>2. IngressUp' <=> IngressUp
  BY <1>1 DEF IngressUp, Loaded
<1>3. CASE Goto(s, "done")
  <2>1. Fields(s, "done", script[s].todo, script[s].label) => Ready(s)'
    BY <1>1, <1>2 DEF Fields, Ready, AgentSteps, SharedSteps
  <2>2. QED
    BY <1>1, <1>3, <2>1, GotoReady DEF Steps
<1>4. ASSUME NEW n \in script[s].todo, NEW step \in {"bootout", "start", "print"},
             step = "start" => script[s].command = "start",
             Become(s, [script[s] EXCEPT !.step = step, !.label = n, !.todo = @ \ {n}])
      PROVE  TypeOK' /\ AllReady'
  <2>1. n \in Labels /\ script[s].todo \ {n} \in SUBSET Labels /\ step \in Steps
    BY <1>1 DEF ScriptState, Steps
  <2>2. Fields(s, step, script[s].todo \ {n}, n) => Ready(s)'
    BY <1>1, <1>2, <1>4 DEF Fields, Ready, AgentSteps, SharedSteps
  <2>3. QED
    BY <1>1, <1>4, <2>1, <2>2, MoveReady
<1>5. QED
  BY <1>3, <1>4 DEF NextLabel

LEMMA AskReady ==
  ASSUME TypeOK, AllReady, NEW s \in Scripts, Ask(s)
  PROVE  TypeOK' /\ AllReady'
<1>1. script[s] \in ScriptState /\ Ready(s) /\ script[s].step = "print" /\ RestTypes'
      /\ job' = job /\ installed' = installed
  BY DEF TypeOK, AllReady, Ask, RestTypes
<1>2. IngressUp' <=> IngressUp
  BY <1>1 DEF IngressUp, Loaded
<1>3. /\ Fields(s, "bootout", script[s].todo, script[s].label) => Ready(s)'
      /\ Fields(s, "next", script[s].todo, script[s].label) => Ready(s)'
      /\ Fields(s, "failed", script[s].todo, script[s].label) => Ready(s)'
  BY <1>1, <1>2 DEF Fields, Ready, AgentSteps, SharedSteps
<1>4. ASSUME ~Printed(script[s].label)
      PROVE  Fields(s, "bootstrap", script[s].todo, script[s].label) => Ready(s)'
  BY <1>1, <1>2, <1>4 DEF Fields, Ready, AgentSteps, SharedSteps, Printed
<1>5. QED
  BY <1>1, <1>3, <1>4, GotoReady DEF Ask, Steps

LEMMA StartReady ==
  ASSUME TypeOK, AllReady, NEW s \in Scripts, Start(s)
  PROVE  TypeOK' /\ AllReady'
<1>1. script[s] \in ScriptState /\ Ready(s) /\ script[s].step = "start" /\ RestTypes'
      /\ job' = job
  BY DEF TypeOK, AllReady, Start, RestTypes
<1>2. /\ Fields(s, "next", script[s].todo, script[s].label) => Ready(s)'
      /\ Fields(s, "failed", script[s].todo, script[s].label) => Ready(s)'
  BY <1>1 DEF Fields, Ready, AgentSteps, SharedSteps
<1>3. ASSUME ~Printed(script[s].label)
      PROVE  Fields(s, "bootstrap", script[s].todo, script[s].label) => Ready(s)'
  BY <1>1, <1>3 DEF Fields, Ready, AgentSteps, SharedSteps, Printed
<1>4. QED
  BY <1>1, <1>2, <1>3, GotoReady DEF Start, Steps

LEMMA BootoutReady ==
  ASSUME TypeOK, AllReady, NEW s \in Scripts, BootoutLabel(s)
  PROVE  TypeOK' /\ AllReady'
<1>1. script[s] \in ScriptState /\ Ready(s) /\ script[s].step = "bootout"
      /\ script[s].label \in Labels
  BY DEF TypeOK, AllReady, BootoutLabel, ScriptState
<1>2. RestTypes'
  BY <1>1, JobTypes DEF BootoutLabel, TypeOK, RestTypes
<1>3. script[s].label \in Agents => (IngressUp' <=> IngressUp)
  BY CaddyIsNoAgent DEF BootoutLabel, IngressUp, Loaded
<1>4. /\ Fields(s, "wait", script[s].todo, script[s].label) => Ready(s)'
      /\ script[s].command = "stop" =>
            (Fields(s, "next", script[s].todo, script[s].label) => Ready(s)')
  BY <1>1, <1>3 DEF Fields, Ready, AgentSteps, SharedSteps
<1>5. QED
  BY <1>2, <1>4, GotoReady DEF BootoutLabel, Steps

LEMMA WaitReady ==
  ASSUME TypeOK, AllReady, NEW s \in Scripts, Wait(s)
  PROVE  TypeOK' /\ AllReady'
<1>1. script[s] \in ScriptState /\ Ready(s) /\ script[s].step = "wait" /\ RestTypes'
      /\ job' = job /\ installed' = installed
  BY DEF TypeOK, AllReady, Wait, RestTypes
<1>2. IngressUp' <=> IngressUp
  BY <1>1 DEF IngressUp, Loaded
<1>3. Fields(s, "failed", script[s].todo, script[s].label) => Ready(s)'
  BY <1>1, <1>2 DEF Fields, Ready, AgentSteps, SharedSteps
<1>4. ASSUME ~Printed(script[s].label)
      PROVE  /\ Fields(s, "bootstrap", script[s].todo, script[s].label) => Ready(s)'
             /\ ~Loading(s) =>
                   (Fields(s, "start", script[s].todo, script[s].label) => Ready(s)')
             /\ script[s].label = Caddy =>
                   (Fields(s, "port", script[s].todo, script[s].label) => Ready(s)')
  BY <1>1, <1>2, <1>4, LabelsAssumption
     DEF Fields, Ready, AgentSteps, SharedSteps, Printed, Loading
<1>5. QED
  BY <1>1, <1>3, <1>4, GotoReady DEF Wait, Steps

LEMMA BootstrapReady ==
  ASSUME TypeOK, AllReady, NEW s \in Scripts, BootstrapLabel(s)
  PROVE  TypeOK' /\ AllReady'
<1> DEFINE n     == script[s].label
           plist == PlistFor(s, n)
           todo  == IF n = Caddy /\ Loading(s) THEN script[s].services ELSE script[s].todo
<1>1. script[s] \in ScriptState /\ Ready(s) /\ script[s].step = "bootstrap" /\ n \in Labels
  BY DEF TypeOK, AllReady, BootstrapLabel, ScriptState
<1>2. plist \in Plists \cup {None}
  BY <1>1, PlistTypes DEF PlistFor
<1>3. CASE CanBootstrap(n, plist)
  <2>1. /\ Bootstrap(n, plist) /\ installed' = installed
        /\ Become(s, [script[s] EXCEPT !.step = "next", !.todo = todo])
    BY <1>3 DEF BootstrapLabel
  <2>2. todo \in SUBSET Labels /\ (n = Caddy /\ Loading(s) => todo \subseteq Agents)
    BY <1>1 DEF ScriptState, Labels
  <2>3. RestTypes'
    BY <1>1, <1>2, <2>1, JobTypes DEF BootstrapLabel, TypeOK, RestTypes
  <2>4. n = Caddy /\ Loading(s) => IngressUp'
    BY <1>1, <2>1 DEF Bootstrap, PlistFor, IngressUp, Loaded, TypeOK
  <2>5. n \in Agents => (IngressUp' <=> IngressUp)
    BY <2>1, CaddyIsNoAgent DEF IngressUp, Loaded
  <2>6. Fields(s, "next", todo, n) => Ready(s)'
    BY <1>1, <2>2, <2>4, <2>5 DEF Fields, Ready, AgentSteps, SharedSteps, Loading, Labels
  <2>7. QED
    BY <1>1, <2>1, <2>2, <2>3, <2>6, MoveReady DEF Steps
<1>4. CASE ~CanBootstrap(n, plist)
  <2>1. Goto(s, "failed") /\ RestTypes' /\ job' = job /\ installed' = installed
    BY <1>4 DEF BootstrapLabel, TypeOK, RestTypes
  <2>2. IngressUp' <=> IngressUp
    BY <2>1 DEF IngressUp, Loaded
  <2>3. Fields(s, "failed", script[s].todo, script[s].label) => Ready(s)'
    BY <1>1, <2>2 DEF Fields, Ready, AgentSteps, SharedSteps
  <2>4. QED
    BY <2>1, <2>3, GotoReady DEF Steps
<1>5. QED
  BY <1>3, <1>4

LEMMA RemoveReady ==
  ASSUME TypeOK, AllReady, NEW s \in Scripts, RemoveAgent(s) \/ RemoveDaemon(s)
  PROVE  TypeOK' /\ AllReady'
<1>1. script[s] \in ScriptState /\ Ready(s) /\ script[s].step = "remove"
      /\ script[s].label \in Labels /\ script[s].todo \in SUBSET Labels /\ Caddy \in Labels
  BY DEF TypeOK, AllReady, RemoveAgent, RemoveDaemon, ScriptState, Labels
<1>2. CASE RemoveAgent(s)
  <2>1. PICK n \in script[s].todo :
          /\ IF script[s].command = "unload" THEN Bootout(n) ELSE UNCHANGED job
          /\ installed' = [installed EXCEPT ![n] = None]
          /\ Become(s, [script[s] EXCEPT !.todo = @ \ {n}])
    BY <1>2 DEF RemoveAgent
  <2>2. n \in Labels /\ script[s].todo \ {n} \in SUBSET Labels
    BY <1>1
  <2>3. RestTypes'
    BY <1>2, <2>1, <2>2, JobTypes DEF RemoveAgent, TypeOK, RestTypes
  <2>4. Fields(s, "remove", script[s].todo \ {n}, script[s].label) => Ready(s)'
    BY <1>1 DEF Fields, Ready, AgentSteps, SharedSteps
  <2>5. QED
    BY <1>1, <2>1, <2>2, <2>3, <2>4, MoveReady DEF Steps
<1>3. CASE RemoveDaemon(s)
  <2>1. RestTypes'
    BY <1>1, <1>3, JobTypes DEF RemoveDaemon, TypeOK, RestTypes
  <2>2. Fields(s, "done", script[s].todo, script[s].label) => Ready(s)'
    BY <1>1 DEF Fields, Ready, AgentSteps, SharedSteps
  <2>3. QED
    BY <1>3, <2>1, <2>2, GotoReady DEF RemoveDaemon, Steps
<1>4. QED
  BY <1>2, <1>3
-----------------------------------------------------------------------------
(* The surroundings *)

\* A sync ends every script's being alone.
LEMMA SyncReady ==
  ASSUME TypeOK, AllReady, Sync
  PROVE  TypeOK' /\ AllReady'
<1>1. /\ \A t \in Scripts : [script[t] EXCEPT !.alone = FALSE] \in ScriptState
      /\ \A t \in Scripts : /\ [script[t] EXCEPT !.alone = FALSE].alone = FALSE
                           /\ [script[t] EXCEPT !.alone = FALSE].step = script[t].step
                           /\ [script[t] EXCEPT !.alone = FALSE].todo = script[t].todo
  BY DEF TypeOK, ScriptState
<1>2. /\ script' \in [Scripts -> ScriptState]
      /\ \A t \in Scripts :
            /\ script'[t].step = script[t].step /\ script'[t].todo = script[t].todo
            /\ script'[t].alone = FALSE \/ script'[t].step = "idle"
  BY <1>1 DEF Sync, TypeOK, Active
<1>3. TypeOK'
  BY <1>2 DEF TypeOK, Sync
<1>4. ASSUME NEW t \in Scripts
      PROVE  Ready(t)'
  BY <1>2 DEF AllReady, Ready, AgentSteps, SharedSteps
<1>5. QED
  BY <1>3, <1>4 DEF AllReady

\* A restart of the machine ends every script.
LEMMA RebootReady ==
  ASSUME TypeOK, AllReady, Reboot
  PROVE  TypeOK' /\ AllReady'
<1>1. \A t \in Scripts : script'[t] = Idle
  BY DEF Reboot
<1>2. job' \in [Labels -> Job]
  BY DEF Reboot, TypeOK, NoJob, Job, JobStates
<1>3. TypeOK'
  BY <1>2, IdleTypes DEF Reboot, TypeOK
<1>4. ASSUME NEW t \in Scripts
      PROVE  Ready(t)'
  BY <1>1, IdleTypes DEF Ready, AgentSteps, SharedSteps
<1>5. QED
  BY <1>3, <1>4 DEF AllReady

\* Launchd forgets a label it was tearing down: not Caddy while Caddy is loaded.
LEMMA JobGoneReady ==
  ASSUME TypeOK, AllReady, JobGone
  PROVE  TypeOK' /\ AllReady'
<1>1. PICK n \in Labels : Gone(n) /\ UNCHANGED <<generated, installed, script>>
  BY DEF JobGone
<1>2. TypeOK'
  BY <1>1, JobTypes DEF TypeOK
<1>3. \A m \in Labels : m # n => job'[m] = job[m]
  BY <1>1 DEF TypeOK, Gone
<1>4. job[n].state = "leaving" /\ job'[n].state = "gone"
  BY <1>1 DEF TypeOK, Gone, NoJob
<1>5. IngressUp => IngressUp'
  <2>1. Caddy \in Labels
    BY DEF Labels
  <2>2. QED
    BY <1>1, <1>3, <1>4, <2>1 DEF IngressUp, Loaded
<1>6. \A m \in Labels : ~Printed(m) => ~Printed(m)'
  BY <1>3, <1>4 DEF Printed
<1>7. GeneratedAgents' = GeneratedAgents
  BY <1>1 DEF GeneratedAgents
<1>8. ASSUME NEW t \in Scripts
      PROVE  Ready(t)'
  <2>1. Ready(t) /\ script' = script /\ script[t].label \in Labels
    BY <1>1 DEF AllReady, TypeOK, ScriptState
  <2>2. QED
    BY <1>5, <1>6, <1>7, <2>1 DEF Ready
<1>9. QED
  BY <1>2, <1>8 DEF AllReady

-----------------------------------------------------------------------------
(* The theorems *)

LEMMA RunReady ==
  ASSUME TypeOK, AllReady, NEW s \in Scripts, Run(s)
  PROVE  TypeOK' /\ AllReady'
BY CopyReady, PlaceReady, PruneReady, InstallDaemonReady, CycleReady, PortReady,
   NextLabelReady, AskReady, StartReady, BootoutReady, WaitReady, BootstrapReady, RemoveReady,
   EndReady, Zenon DEF Run

LEMMA BeginReady ==
  ASSUME TypeOK, AllReady, NEW s \in Scripts, Begin(s)
  PROVE  TypeOK' /\ AllReady'
BY BeginInstallReady, BeginUninstallReady, BeginServiceReady DEF Begin

(* Whatever is generated, installed and loaded, and however many scripts    *)
(* install-launchd.sh, uninstall-launchd.sh and service-launchd.sh are run *)
(* as at once: every script's state has its type, and one that has been    *)
(* alone may rely on what Ready says of its next command.                  *)
THEOREM ScriptsAreReady == Spec => [](TypeOK /\ AllReady)
<1>1. Init => TypeOK /\ AllReady
  <2> SUFFICES ASSUME Init PROVE TypeOK /\ AllReady
    OBVIOUS
  <2>1. TypeOK
    BY IdleTypes DEF Init, TypeOK, NoJob, Job, JobStates
  <2>2. AllReady
    BY IdleTypes DEF Init, AllReady, Ready, AgentSteps, SharedSteps
  <2>3. QED
    BY <2>1, <2>2
<1>2. TypeOK /\ AllReady /\ [Next]_vars => TypeOK' /\ AllReady'
  <2> SUFFICES ASSUME TypeOK, AllReady, [Next]_vars
               PROVE  TypeOK' /\ AllReady'
    OBVIOUS
  <2>1. CASE Sync
    BY <2>1, SyncReady
  <2>2. CASE Reboot
    BY <2>2, RebootReady
  <2>3. CASE JobGone
    BY <2>3, JobGoneReady
  <2>4. ASSUME NEW s \in Scripts, Begin(s) \/ Run(s) \/ Killed(s)
        PROVE  TypeOK' /\ AllReady'
    BY <2>4, BeginReady, RunReady, EndReady
  <2>5. CASE UNCHANGED vars
    <3>1. TypeOK'
      BY <2>5 DEF vars, TypeOK
    <3>2. AllReady'
      BY <2>5 DEF vars, AllReady, Ready, AgentSteps, SharedSteps, IngressUp, Loaded,
                  Printed, GeneratedAgents
    <3>3. QED
      BY <3>1, <3>2
  <2>6. QED
    BY <2>1, <2>2, <2>3, <2>4, <2>5 DEF Next
<1>3. QED
  BY <1>1, <1>2, PTL DEF Spec

(* No script that runs alone bootstraps a label launchd still knows: the   *)
(* wait of home_stack_wait_label_gone, or the print of ensure_loaded,      *)
(* do_start and do_restart, comes before every bootstrap.                  *)
THEOREM BootstrapsAwaitTeardown == Spec => []NoBootstrapWhileLeaving
<1>1. AllReady => NoBootstrapWhileLeaving
  BY DEF AllReady, Ready, NoBootstrapWhileLeaving
<1>2. QED
  BY <1>1, ScriptsAreReady, PTL

(* A load that runs alone works on the agents only while Caddy runs its    *)
(* installed plist, and leaves it running when an agent step fails.        *)
THEOREM IngressIsFirst == Spec => []IngressFirst
<1>1. AllReady => IngressFirst
  BY DEF AllReady, Ready, IngressFirst, IngressUp, AgentSteps, SharedSteps
<1>2. QED
  BY <1>1, ScriptsAreReady, PTL

-----------------------------------------------------------------------------
(* A load converges *)

\* The installed plist of a label is the generated one; nothing is left of it.
Current(n) == installed[n] = generated[n]
Clean(n)   == installed[n] = None /\ ~Loaded(n)

\* A load in progress that has run alone and found no label tearing down.
Undisturbed(s) ==
    /\ script[s].command = "load" /\ script[s].alone = TRUE /\ script[s].settled = TRUE
    /\ script[s].step \notin {"idle", "failed"}

\* A load in its loop over the agents.
InLoop(s) ==
    \/ script[s].step \in {"next", "print", "bootout"}
    \/ script[s].step \in {"wait", "bootstrap"} /\ script[s].label \in Agents

\* What it works on, and that only the label it waits for is tearing down.
Scope(s) ==
    LET S == script[s]
    IN  /\ S.services = GeneratedAgents
        /\ S.orphans \cap GeneratedAgents = {}
        /\ \A n \in GeneratedAgents : job[n].state = "leaving" => S.step = "wait" /\ S.label = n

\* How far it got with the files.
Filed(s) ==
    LET S == script[s]
    IN  /\ S.step \in {"copy", "place"} =>
              /\ InstalledAgents \ GeneratedAgents = S.orphans
              /\ \A n \in GeneratedAgents \ S.todo : Current(n)
        /\ S.step \notin {"copy", "place"} => \A n \in GeneratedAgents : Current(n)
        /\ S.step \in {"prune", "drop"} =>
              /\ S.todo \subseteq GeneratedAgents \cup S.orphans
              /\ \A n \in S.orphans \ S.todo : Clean(n)
        /\ S.step = "drop" => S.label \in S.orphans /\ ~Loaded(S.label)
        /\ S.step \notin {"copy", "place", "prune", "drop"} => \A n \in S.orphans : Clean(n)
        /\ S.step \notin {"copy", "place", "prune", "drop", "daemon"} => Current(Caddy)

\* How far it got with the agents' jobs.
Cycled(s) ==
    LET S == script[s]
    IN  /\ InLoop(s) =>
              /\ S.todo \subseteq GeneratedAgents
              /\ \A n \in GeneratedAgents \ S.todo :
                    Loaded(n) \/ (S.step # "next" /\ n = S.label)
              /\ S.step # "next" => S.label \in GeneratedAgents
        /\ S.step = "done" => \A n \in GeneratedAgents : Loaded(n)

Progress(s) == Undisturbed(s) => Scope(s) /\ Filed(s) /\ Cycled(s)

AllProgress == \A s \in Scripts : Progress(s)

\* What script s is after it became `state', with what it remembers of its start.
Moved(s, step, todo, label) ==
    /\ Fields(s, step, todo, label)
    /\ script'[s].orphans = script[s].orphans /\ script'[s].settled = script[s].settled

LEMMA OthersProgress ==
  ASSUME TypeOK, AllProgress, NEW s \in Scripts, NEW state \in ScriptState, Become(s, state),
         script'[s] = state => Progress(s)'
  PROVE  AllProgress'
<1>1. /\ script'[s] = state
      /\ \A t \in Scripts \ {s} :
            script'[t].alone = FALSE \/ script'[t].step = "idle"
  BY OneBecomes DEF TypeOK
<1>2. ASSUME NEW t \in Scripts \ {s}
      PROVE  Progress(t)'
  BY <1>1 DEF Progress, Undisturbed
<1>3. QED
  BY <1>1, <1>2 DEF AllProgress

LEMMA MoveProgress ==
  ASSUME TypeOK, AllProgress, NEW s \in Scripts, NEW step \in Steps,
         NEW todo \in SUBSET Labels, NEW label \in Labels,
         \/ /\ Become(s, [script[s] EXCEPT !.step = step])
            /\ todo = script[s].todo /\ label = script[s].label
         \/ /\ Become(s, [script[s] EXCEPT !.todo = todo])
            /\ step = script[s].step /\ label = script[s].label
         \/ /\ Become(s, [script[s] EXCEPT !.step = step, !.todo = todo])
            /\ label = script[s].label
         \/ /\ Become(s, [script[s] EXCEPT !.step = step, !.label = label])
            /\ todo = script[s].todo
         \/ /\ todo = script[s].todo
            /\ \E changed \in SUBSET Agents :
                  Become(s, [script[s] EXCEPT !.step = step, !.label = label,
                                              !.changed = changed])
         \/ Become(s, [script[s] EXCEPT !.step = step, !.label = label, !.todo = todo]),
         Moved(s, step, todo, label) => Progress(s)'
  PROVE  AllProgress'
<1>1. script[s] \in ScriptState
  BY DEF TypeOK
<1>2. PICK state \in ScriptState :
        /\ Become(s, state)
        /\ state.step = step /\ state.todo = todo /\ state.label = label
        /\ state.command = script[s].command /\ state.alone = script[s].alone
        /\ state.services = script[s].services
        /\ state.orphans = script[s].orphans /\ state.settled = script[s].settled
  <2> DEFINE Goal == \E state \in ScriptState :
        /\ Become(s, state)
        /\ state.step = step /\ state.todo = todo /\ state.label = label
        /\ state.command = script[s].command /\ state.alone = script[s].alone
        /\ state.services = script[s].services
        /\ state.orphans = script[s].orphans /\ state.settled = script[s].settled
  <2>1. ASSUME NEW state, Become(s, state),
               \/ state = [script[s] EXCEPT !.step = step]
                  /\ todo = script[s].todo /\ label = script[s].label
               \/ state = [script[s] EXCEPT !.todo = todo]
                  /\ step = script[s].step /\ label = script[s].label
               \/ state = [script[s] EXCEPT !.step = step, !.todo = todo]
                  /\ label = script[s].label
               \/ state = [script[s] EXCEPT !.step = step, !.label = label]
                  /\ todo = script[s].todo
               \/ todo = script[s].todo
                  /\ \E changed \in SUBSET Agents :
                        state = [script[s] EXCEPT !.step = step, !.label = label,
                                                  !.changed = changed]
               \/ state = [script[s] EXCEPT !.step = step, !.label = label, !.todo = todo]
        PROVE  Goal
    <3>1. /\ state \in ScriptState
          /\ state.step = step /\ state.todo = todo /\ state.label = label
          /\ state.command = script[s].command /\ state.alone = script[s].alone
          /\ state.services = script[s].services
          /\ state.orphans = script[s].orphans /\ state.settled = script[s].settled
      BY <1>1, <2>1 DEF ScriptState
    <3>2. QED
      BY <2>1, <3>1
  <2>2. QED
    BY <2>1
<1>3. script'[s] = state => Moved(s, step, todo, label)
  BY <1>2 DEF Moved, Fields
<1>4. QED
  BY <1>2, <1>3, OthersProgress

LEMMA GotoProgress ==
  ASSUME TypeOK, AllProgress, NEW s \in Scripts, NEW step \in Steps, Goto(s, step),
         Moved(s, step, script[s].todo, script[s].label) => Progress(s)'
  PROVE  AllProgress'
<1>1. script[s].todo \in SUBSET Labels /\ script[s].label \in Labels
  BY DEF TypeOK, ScriptState
<1>2. QED
  BY <1>1, MoveProgress DEF Goto

\* A script that fails promises nothing.
LEMMA FailProgress ==
  ASSUME TypeOK, AllProgress, NEW s \in Scripts, Goto(s, "failed")
  PROVE  AllProgress'
BY GotoProgress DEF Moved, Fields, Progress, Undisturbed, Steps

\* Nor does one that is not an undisturbed load.
LEMMA IdleProgress ==
  ASSUME NEW s \in Scripts,
         NEW step, NEW todo, NEW label, Moved(s, step, todo, label),
         script[s].step \notin {"idle", "failed"}, ~Undisturbed(s)
  PROVE  Progress(s)'
BY DEF Moved, Fields, Progress, Undisturbed

\* What a load relies on when it takes a step of its own.
LEMMA OwnFacts ==
  ASSUME TypeOK, AllReady, AllProgress, NEW s \in Scripts, Undisturbed(s)
  PROVE  /\ Ready(s) /\ Scope(s) /\ Filed(s) /\ Cycled(s)
         /\ script[s].command = "load" /\ script[s].alone = TRUE /\ Loading(s)
BY DEF AllReady, AllProgress, Progress, Undisturbed, Loading

LEMMA TypeFacts ==
  ASSUME TypeOK, NEW s \in Scripts
  PROVE  /\ script[s].todo \in SUBSET Labels /\ script[s].label \in Labels
         /\ script[s].orphans \in SUBSET Agents
         /\ \A n \in Agents : n \in Labels /\ n # Caddy
         /\ Caddy \in Labels
         /\ \A n \in GeneratedAgents : n \in Agents /\ generated[n] # None
         /\ \A n \in Agents : n \in GeneratedAgents <=> generated[n] # None
         /\ \A n \in Agents : n \in InstalledAgents <=> installed[n] # None
         /\ \A n \in InstalledAgents : n \in Agents
BY LabelsAssumption DEF TypeOK, ScriptState, Labels, GeneratedAgents, InstalledAgents

LEMMA CopyProgress ==
  ASSUME TypeOK, AllReady, AllProgress, NEW s \in Scripts, Copy(s)
  PROVE  AllProgress'
<1>1. PICK n \in script[s].todo :
        IF generated[n] = None
        THEN Goto(s, "failed") /\ UNCHANGED installed
        ELSE /\ Become(s, [script[s] EXCEPT
                   !.step = "place", !.label = n,
                   !.changed = IF installed[n] # generated[n] THEN @ \cup {n} ELSE @])
             /\ installed' = [installed EXCEPT ![n] = None]
  BY DEF Copy
<1>2. script[s].step = "copy" /\ job' = job /\ generated' = generated /\ n \in Labels
      /\ GeneratedAgents' = GeneratedAgents
  BY <1>1, TypeFacts DEF Copy, GeneratedAgents
<1>3. CASE generated[n] = None
  BY <1>1, <1>3, FailProgress
<1>4. CASE generated[n] # None
  <2>1. n \in Agents
    BY <1>1, <1>2 DEF AllReady, Ready
  <2> DEFINE changed == IF installed[n] # generated[n] THEN script[s].changed \cup {n}
                                                      ELSE script[s].changed
  <2>2. changed \in SUBSET Agents
    BY <2>1 DEF TypeOK, ScriptState
  <2>3. Become(s, [script[s] EXCEPT !.step = "place", !.label = n, !.changed = changed])
    BY <1>1, <1>4
  <2> HIDE DEF changed
  <2>4. installed'[n] = None /\ \A m \in Labels : m # n => installed'[m] = installed[m]
    BY <1>1, <1>2, <1>4 DEF TypeOK
  <2>5. ASSUME Moved(s, "place", script[s].todo, n), Undisturbed(s)
        PROVE  Progress(s)'
    <3>1. n \in GeneratedAgents /\ n \in script[s].todo
      BY <1>1, <1>4, <2>1, TypeFacts
    <3>2. InstalledAgents' \ GeneratedAgents = InstalledAgents \ GeneratedAgents
      BY <2>4, <3>1 DEF InstalledAgents, Labels
    <3>3. Scope(s)'
      BY <1>2, <2>5, OwnFacts DEF Scope, Moved, Fields
    <3>4. Filed(s)'
      <4>1. InstalledAgents \ GeneratedAgents = script[s].orphans
            /\ \A m \in GeneratedAgents \ script[s].todo : Current(m)
        BY <1>2, <2>5, OwnFacts DEF Filed
      <4>2. \A m \in GeneratedAgents \ script[s].todo : Current(m)'
        BY <1>2, <2>4, <3>1, <4>1, TypeFacts DEF Current
      <4>3. QED
        BY <1>2, <2>5, <3>2, <4>1, <4>2 DEF Filed, Moved, Fields
    <3>5. Cycled(s)'
      BY <2>5 DEF Cycled, InLoop, Moved, Fields
    <3>6. QED
      BY <3>3, <3>4, <3>5 DEF Progress
  <2>6. Moved(s, "place", script[s].todo, n) => Progress(s)'
    BY <1>2, <2>5, IdleProgress
  <2>7. QED
    BY <1>2, <2>2, <2>3, <2>6, TypeFacts, MoveProgress DEF Steps
<1>5. QED
  BY <1>3, <1>4

LEMMA PlaceProgress ==
  ASSUME TypeOK, AllReady, AllProgress, NEW s \in Scripts, Place(s)
  PROVE  AllProgress'
<1> DEFINE n == script[s].label
<1>1. script[s].step = "place" /\ job' = job /\ generated' = generated /\ n \in Labels
      /\ GeneratedAgents' = GeneratedAgents
  BY TypeFacts DEF Place, GeneratedAgents
<1>2. CASE generated[n] = None
  BY <1>2, FailProgress DEF Place
<1>3. CASE generated[n] # None
  <2>1. /\ Become(s, [script[s] EXCEPT !.step = "copy", !.todo = @ \ {n}])
        /\ installed' = [installed EXCEPT ![n] = generated[n]]
    BY <1>3 DEF Place
  <2>2. installed'[n] = generated[n] /\ \A m \in Labels : m # n => installed'[m] = installed[m]
    BY <1>1, <2>1 DEF TypeOK
  <2>3. ASSUME Moved(s, "copy", script[s].todo \ {n}, n), Undisturbed(s)
        PROVE  Progress(s)'
    <3>1. n \in GeneratedAgents
      BY <1>1, <2>3, OwnFacts DEF Ready
    <3>2. InstalledAgents' \ GeneratedAgents = InstalledAgents \ GeneratedAgents
      BY <2>2, <3>1 DEF InstalledAgents, Labels
    <3>3. Scope(s)'
      BY <1>1, <2>3, OwnFacts DEF Scope, Moved, Fields
    <3>4. Filed(s)'
      <4>1. InstalledAgents \ GeneratedAgents = script[s].orphans
            /\ \A m \in GeneratedAgents \ script[s].todo : Current(m)
        BY <1>1, <2>3, OwnFacts DEF Filed
      <4>2. \A m \in GeneratedAgents \ (script[s].todo \ {n}) : Current(m)'
        BY <1>1, <2>2, <4>1, TypeFacts DEF Current
      <4>3. QED
        BY <1>1, <2>3, <3>2, <4>1, <4>2 DEF Filed, Moved, Fields
    <3>5. Cycled(s)'
      BY <2>3 DEF Cycled, InLoop, Moved, Fields
    <3>6. QED
      BY <3>3, <3>4, <3>5 DEF Progress
  <2>4. Moved(s, "copy", script[s].todo \ {n}, n) => Progress(s)'
    BY <1>1, <2>3, IdleProgress
  <2>5. QED
    BY <1>1, <2>1, <2>4, TypeFacts, MoveProgress DEF Steps
<1>4. QED
  BY <1>2, <1>3

\* The orphans are what is installed once the copies are in place.
LEMMA CopiedProgress ==
  ASSUME TypeOK, AllReady, AllProgress, NEW s \in Scripts, Copied(s)
  PROVE  AllProgress'
<1>1. /\ script[s].step = "copy" /\ script[s].todo = {}
      /\ job' = job /\ generated' = generated /\ installed' = installed
      /\ GeneratedAgents' = GeneratedAgents
      /\ Become(s, [script[s] EXCEPT !.step = "prune", !.todo = InstalledAgents])
  BY DEF Copied, GeneratedAgents
<1>2. InstalledAgents \in SUBSET Labels
  BY TypeFacts
<1>3. ASSUME Moved(s, "prune", InstalledAgents, script[s].label), Undisturbed(s)
      PROVE  Progress(s)'
  <2>1. Scope(s)'
    BY <1>1, <1>3, OwnFacts DEF Scope, Moved, Fields
  <2>2. script[s].orphans \subseteq InstalledAgents
    BY <1>1, <1>3, OwnFacts DEF Filed
  <2>3. Filed(s)'
    BY <1>1, <1>3, <2>2, OwnFacts DEF Filed, Moved, Fields, Current
  <2>4. Cycled(s)'
    BY <1>3 DEF Cycled, InLoop, Moved, Fields
  <2>5. QED
    BY <2>1, <2>3, <2>4 DEF Progress
<1>4. Moved(s, "prune", InstalledAgents, script[s].label) => Progress(s)'
  BY <1>1, <1>3, IdleProgress
<1>5. QED
  BY <1>1, <1>2, <1>4, TypeFacts, MoveProgress DEF Steps

LEMMA JobFacts ==
  ASSUME TypeOK, NEW n \in Labels
  PROVE  /\ Bootout(n) => /\ \A m \in Labels \ {n} : job'[m] = job[m]
                          /\ job'[n].state # "loaded"
         /\ \A plist : Bootstrap(n, plist) => /\ \A m \in Labels \ {n} : job'[m] = job[m]
                                              /\ job'[n].state = "loaded"
BY DEF TypeOK, Bootout, Bootstrap, Job, Loaded

LEMMA PruneProgress ==
  ASSUME TypeOK, AllReady, AllProgress, NEW s \in Scripts, Prune(s)
  PROVE  AllProgress'
<1>1. PICK n \in script[s].todo :
        IF generated[n] # None
        THEN /\ Become(s, [script[s] EXCEPT !.todo = @ \ {n}])
             /\ UNCHANGED job
        ELSE /\ Become(s, [script[s] EXCEPT !.step = "drop", !.label = n])
             /\ Bootout(n)
  BY DEF Prune
<1>2. /\ script[s].step = "prune" /\ generated' = generated /\ installed' = installed
      /\ n \in Labels /\ GeneratedAgents' = GeneratedAgents
      /\ script[s].todo \ {n} \in SUBSET Labels
  BY <1>1, TypeFacts DEF Prune, GeneratedAgents
<1>3. CASE generated[n] # None
  <2>1. ASSUME Moved(s, "prune", script[s].todo \ {n}, script[s].label), Undisturbed(s)
        PROVE  Progress(s)'
    <3>1. n \notin script[s].orphans /\ job' = job
      BY <1>1, <1>2, <1>3, <2>1, OwnFacts, TypeFacts DEF Scope
    <3>2. Scope(s)'
      BY <1>2, <2>1, <3>1, OwnFacts DEF Scope, Moved, Fields
    <3>3. Filed(s)'
      BY <1>2, <2>1, <3>1, OwnFacts DEF Filed, Moved, Fields, Current, Clean, Loaded
    <3>4. Cycled(s)'
      BY <2>1 DEF Cycled, InLoop, Moved, Fields
    <3>5. QED
      BY <3>2, <3>3, <3>4 DEF Progress
  <2>2. Moved(s, "prune", script[s].todo \ {n}, script[s].label) => Progress(s)'
    BY <1>2, <2>1, IdleProgress
  <2>3. QED
    BY <1>1, <1>2, <1>3, <2>2, TypeFacts, MoveProgress DEF Steps
<1>4. CASE generated[n] = None
  <2>1. ASSUME Moved(s, "drop", script[s].todo, n), Undisturbed(s)
        PROVE  Progress(s)'
    <3>1. n \in script[s].orphans
      BY <1>1, <1>2, <1>4, <2>1, OwnFacts, TypeFacts DEF Filed
    <3>2. job'[n].state # "loaded" /\ \A m \in Labels \ {n} : job'[m] = job[m]
      BY <1>1, <1>2, <1>4, JobFacts
    <3>3. Scope(s)'
      <4>1. \A m \in GeneratedAgents : job'[m] = job[m]
        BY <1>4, <3>2, TypeFacts
      <4>2. \A m \in GeneratedAgents : job[m].state # "leaving"
        BY <1>2, <2>1, OwnFacts DEF Scope
      <4>3. script[s].services = GeneratedAgents /\ script[s].orphans \cap GeneratedAgents = {}
        BY <2>1, OwnFacts DEF Scope
      <4>4. QED
        BY <1>2, <2>1, <4>1, <4>2, <4>3 DEF Scope, Moved, Fields
    <3>4. Filed(s)'
      <4>1. \A m \in script[s].orphans \ script[s].todo : Clean(m)'
        BY <1>1, <1>2, <2>1, <3>2, OwnFacts, TypeFacts DEF Filed, Clean, Loaded
      <4>2. QED
        BY <1>2, <2>1, <3>1, <3>2, <4>1, OwnFacts DEF Filed, Moved, Fields, Current, Loaded
    <3>5. Cycled(s)'
      BY <2>1 DEF Cycled, InLoop, Moved, Fields
    <3>6. QED
      BY <3>3, <3>4, <3>5 DEF Progress
  <2>2. Moved(s, "drop", script[s].todo, n) => Progress(s)'
    BY <1>2, <2>1, IdleProgress
  <2>3. QED
    BY <1>1, <1>2, <1>4, <2>2, TypeFacts, MoveProgress DEF Steps
<1>5. QED
  BY <1>3, <1>4

LEMMA DropProgress ==
  ASSUME TypeOK, AllReady, AllProgress, NEW s \in Scripts, Drop(s)
  PROVE  AllProgress'
<1> DEFINE n == script[s].label
<1>1. /\ script[s].step = "drop" /\ job' = job /\ generated' = generated
      /\ installed' = [installed EXCEPT ![n] = None]
      /\ Become(s, [script[s] EXCEPT !.step = "prune", !.todo = @ \ {n}])
      /\ n \in Labels /\ GeneratedAgents' = GeneratedAgents
      /\ script[s].todo \ {n} \in SUBSET Labels
  BY TypeFacts DEF Drop, GeneratedAgents
<1>2. installed'[n] = None /\ \A m \in Labels : m # n => installed'[m] = installed[m]
  BY <1>1 DEF TypeOK
<1>3. ASSUME Moved(s, "prune", script[s].todo \ {n}, n), Undisturbed(s)
      PROVE  Progress(s)'
  <2>1. n \in script[s].orphans /\ n \notin GeneratedAgents /\ ~Loaded(n)
    BY <1>1, <1>3, OwnFacts DEF Filed, Scope
  <2>2. Scope(s)'
    BY <1>1, <1>3, OwnFacts DEF Scope, Moved, Fields
  <2>3. \A m \in script[s].orphans \ (script[s].todo \ {n}) : Clean(m)'
    BY <1>1, <1>2, <1>3, <2>1, OwnFacts, TypeFacts DEF Filed, Clean, Loaded
  <2>4. \A m \in GeneratedAgents : Current(m)'
    BY <1>1, <1>2, <1>3, <2>1, OwnFacts, TypeFacts DEF Filed, Current
  <2>5. Filed(s)'
    BY <1>1, <1>3, <2>3, <2>4, OwnFacts DEF Filed, Moved, Fields
  <2>6. Cycled(s)'
    BY <1>3 DEF Cycled, InLoop, Moved, Fields
  <2>7. QED
    BY <2>2, <2>5, <2>6 DEF Progress
<1>4. Moved(s, "prune", script[s].todo \ {n}, n) => Progress(s)'
  BY <1>1, <1>3, IdleProgress
<1>5. QED
  BY <1>1, <1>4, TypeFacts, MoveProgress DEF Steps

\* A step past the files that changes neither them nor any job.
LEMMA FilesKept ==
  ASSUME NEW s \in Scripts, Filed(s), NEW step, NEW todo, NEW label,
         Moved(s, step, todo, label), generated' = generated, installed' = installed,
         \A n \in script[s].orphans : Loaded(n)' => Loaded(n),
         script[s].step \notin {"copy", "place", "prune", "drop", "daemon"},
         step \notin {"copy", "place", "prune", "drop", "daemon"}
  PROVE  Filed(s)'
<1>1. GeneratedAgents' = GeneratedAgents
  BY DEF GeneratedAgents
<1>2. \A n : Current(n)' <=> Current(n)
  BY DEF Current
<1>3. \A n \in script[s].orphans : Clean(n) => Clean(n)'
  BY DEF Clean
<1>4. QED
  BY <1>1, <1>2, <1>3 DEF Filed, Moved, Fields

LEMMA DaemonProgress ==
  ASSUME TypeOK, AllReady, AllProgress, NEW s \in Scripts, Pruned(s) \/ InstallDaemon(s)
  PROVE  AllProgress'
<1>1. job' = job /\ generated' = generated /\ GeneratedAgents' = GeneratedAgents
  BY DEF Pruned, InstallDaemon, GeneratedAgents
<1>2. CASE Pruned(s)
  <2>1. /\ script[s].step = "prune" /\ script[s].todo = {} /\ installed' = installed
        /\ Become(s, [script[s] EXCEPT !.step = "daemon", !.label = Caddy])
    BY <1>2 DEF Pruned
  <2>2. ASSUME Moved(s, "daemon", script[s].todo, Caddy), Undisturbed(s)
        PROVE  Progress(s)'
    <3>1. Scope(s)'
      BY <1>1, <2>1, <2>2, OwnFacts DEF Scope, Moved, Fields
    <3>2. Filed(s)'
      BY <1>1, <2>1, <2>2, OwnFacts DEF Filed, Moved, Fields, Current, Clean, Loaded
    <3>3. Cycled(s)'
      BY <2>2 DEF Cycled, InLoop, Moved, Fields
    <3>4. QED
      BY <3>1, <3>2, <3>3 DEF Progress
  <2>3. Moved(s, "daemon", script[s].todo, Caddy) => Progress(s)'
    BY <2>1, <2>2, IdleProgress
  <2>4. QED
    BY <2>1, <2>3, TypeFacts, MoveProgress DEF Steps
<1>3. CASE InstallDaemon(s) /\ ~Goto(s, "failed")
  <2>1. /\ script[s].step = "daemon" /\ installed' = [installed EXCEPT ![Caddy] = generated[Caddy]]
        /\ IF Loading(s) THEN Goto(s, "cycle") ELSE Goto(s, "done")
    BY <1>3 DEF InstallDaemon
  <2>2. /\ installed'[Caddy] = generated[Caddy]
        /\ \A m \in Agents : installed'[m] = installed[m]
    BY <2>1, TypeFacts DEF TypeOK
  <2>3. ASSUME Moved(s, "cycle", script[s].todo, script[s].label), Undisturbed(s)
        PROVE  Progress(s)'
    <3>1. Scope(s)'
      BY <1>1, <2>1, <2>3, OwnFacts DEF Scope, Moved, Fields
    <3>2. /\ \A m \in GeneratedAgents : Current(m)'
          /\ \A m \in script[s].orphans : Clean(m)'
          /\ Current(Caddy)'
      <4>1. /\ \A m \in GeneratedAgents : Current(m)
            /\ \A m \in script[s].orphans : Clean(m)
        BY <2>1, <2>3, OwnFacts DEF Filed
      <4>2. \A m \in Agents : (Current(m) => Current(m)') /\ (Clean(m) => Clean(m)')
        BY <1>1, <2>2 DEF Current, Clean, Loaded
      <4>3. Current(Caddy)'
        BY <1>1, <2>2 DEF Current
      <4>4. QED
        BY <4>1, <4>2, <4>3, TypeFacts
    <3>3. Filed(s)'
      BY <1>1, <2>3, <3>2 DEF Filed, Moved, Fields
    <3>4. Cycled(s)'
      BY <2>3 DEF Cycled, InLoop, Moved, Fields
    <3>5. QED
      BY <3>1, <3>3, <3>4 DEF Progress
  <2>4. CASE Loading(s)
    <3>1. Moved(s, "cycle", script[s].todo, script[s].label) => Progress(s)'
      BY <2>1, <2>3, IdleProgress
    <3>2. QED
      BY <2>1, <2>4, <3>1, GotoProgress DEF Steps
  <2>5. CASE ~Loading(s)
    <3>1. Moved(s, "done", script[s].todo, script[s].label) => Progress(s)'
      BY <2>1, <2>5, IdleProgress DEF Undisturbed, Loading
    <3>2. QED
      BY <2>1, <2>5, <3>1, GotoProgress DEF Steps
  <2>6. QED
    BY <2>4, <2>5
<1>4. QED
  BY <1>2, <1>3, FailProgress

LEMMA ScopeKept ==
  ASSUME NEW s \in Scripts, Scope(s), NEW step, NEW todo, NEW label,
         Moved(s, step, todo, label), generated' = generated,
         \A n \in GeneratedAgents : job'[n].state = "leaving" => step = "wait" /\ label = n
  PROVE  Scope(s)'
BY DEF Scope, Moved, Fields, GeneratedAgents

LEMMA CycleProgress ==
  ASSUME TypeOK, AllReady, AllProgress, NEW s \in Scripts, CycleDaemon(s) \/ Port(s)
  PROVE  AllProgress'
<1>1. generated' = generated /\ installed' = installed
  BY DEF CycleDaemon, Port
<1>2. CASE CycleDaemon(s)
  <2>1. /\ script[s].step = "cycle" /\ Bootout(Caddy)
        /\ Become(s, [script[s] EXCEPT !.step = "wait", !.label = Caddy])
    BY <1>2 DEF CycleDaemon
  <2>2. \A m \in Agents : job'[m] = job[m]
    BY <2>1, JobFacts, TypeFacts
  <2>3. ASSUME Moved(s, "wait", script[s].todo, Caddy), Undisturbed(s)
        PROVE  Progress(s)'
    <3>1. \A m \in GeneratedAgents : job[m].state # "leaving"
      BY <2>1, <2>3, OwnFacts DEF Scope
    <3>2. Scope(s)'
      BY <1>1, <2>2, <2>3, <3>1, OwnFacts, ScopeKept, TypeFacts
    <3>3. Filed(s)'
      <4>1. \A m \in script[s].orphans : Loaded(m)' => Loaded(m)
        BY <2>2, TypeFacts DEF Loaded
      <4>2. QED
        BY <1>1, <2>1, <2>3, <4>1, OwnFacts, FilesKept
    <3>4. Cycled(s)'
      BY <2>3, LabelsAssumption DEF Cycled, InLoop, Moved, Fields
    <3>5. QED
      BY <3>2, <3>3, <3>4 DEF Progress
  <2>4. Moved(s, "wait", script[s].todo, Caddy) => Progress(s)'
    BY <2>1, <2>3, IdleProgress
  <2>5. QED
    BY <2>1, <2>4, TypeFacts, MoveProgress DEF Steps
<1>3. CASE Port(s) /\ ~Goto(s, "failed")
  <2>1. script[s].step = "port" /\ job' = job /\ Goto(s, "bootstrap")
    BY <1>3 DEF Port
  <2>2. ASSUME Moved(s, "bootstrap", script[s].todo, script[s].label), Undisturbed(s)
        PROVE  Progress(s)'
    <3>1. script[s].label = Caddy
      BY <2>1, <2>2, OwnFacts DEF Ready
    <3>2. \A m \in GeneratedAgents : job[m].state # "leaving"
      BY <2>1, <2>2, OwnFacts DEF Scope
    <3>3. Scope(s)'
      BY <1>1, <2>1, <2>2, <3>2, OwnFacts, ScopeKept
    <3>4. Filed(s)'
      <4>1. \A m \in script[s].orphans : Loaded(m)' => Loaded(m)
        BY <2>1 DEF Loaded
      <4>2. QED
        BY <1>1, <2>1, <2>2, <4>1, OwnFacts, FilesKept
    <3>5. Cycled(s)'
      BY <2>2, <3>1, LabelsAssumption DEF Cycled, InLoop, Moved, Fields
    <3>6. QED
      BY <3>3, <3>4, <3>5 DEF Progress
  <2>3. Moved(s, "bootstrap", script[s].todo, script[s].label) => Progress(s)'
    BY <2>1, <2>2, IdleProgress
  <2>4. QED
    BY <2>1, <2>3, GotoProgress DEF Steps
<1>4. QED
  BY <1>2, <1>3, FailProgress

\* A step of the loop that leaves the jobs alone.
LEMMA LoopProgress ==
  ASSUME TypeOK, AllReady, AllProgress, NEW s \in Scripts, Undisturbed(s),
         NEW step, NEW todo, NEW label, Moved(s, step, todo, label),
         script[s].step \in {"next", "print", "wait"}, UNCHANGED <<job, generated, installed>>,
         step \in {"next", "print", "bootout", "port", "bootstrap", "done"},
         script[s].step = "wait" => ~Printed(script[s].label),
         Cycled(s)'
  PROVE  Progress(s)'
<1>1. \A m \in GeneratedAgents : job[m].state # "leaving"
  BY OwnFacts DEF Scope, Printed
<1>2. Scope(s)'
  BY <1>1, OwnFacts, ScopeKept
<1>3. Filed(s)'
  <2>1. \A m \in script[s].orphans : Loaded(m)' => Loaded(m)
    BY DEF Loaded
  <2>2. QED
    BY <2>1, OwnFacts, FilesKept
<1>4. QED
  BY <1>2, <1>3 DEF Progress

LEMMA NextLabelProgress ==
  ASSUME TypeOK, AllReady, AllProgress, NEW s \in Scripts, NextLabel(s)
  PROVE  AllProgress'
<1>1. /\ script[s].step = "next" /\ UNCHANGED <<job, generated, installed>>
      /\ GeneratedAgents' = GeneratedAgents
  BY DEF NextLabel, GeneratedAgents
<1>2. Undisturbed(s) =>
        /\ script[s].todo \subseteq GeneratedAgents
        /\ \A m \in GeneratedAgents \ script[s].todo : Loaded(m)
        /\ script[s].command = "load"
  BY <1>1, OwnFacts DEF Cycled, InLoop
<1>3. CASE script[s].todo = {}
  <2>1. Goto(s, "done")
    BY <1>3 DEF NextLabel
  <2>2. ASSUME Moved(s, "done", script[s].todo, script[s].label), Undisturbed(s)
        PROVE  Progress(s)'
    <3>1. Cycled(s)'
      BY <1>1, <1>2, <1>3, <2>2 DEF Cycled, InLoop, Moved, Fields, Loaded
    <3>2. QED
      BY <1>1, <2>2, <3>1, LoopProgress
  <2>3. Moved(s, "done", script[s].todo, script[s].label) => Progress(s)'
    BY <1>1, <2>2, IdleProgress
  <2>4. QED
    BY <2>1, <2>3, GotoProgress DEF Steps
<1>4. CASE script[s].todo # {}
  <2>1. PICK n \in script[s].todo, step \in {"bootout", "start", "print"} :
           /\ Become(s, [script[s] EXCEPT !.step = step, !.label = n, !.todo = @ \ {n}])
           /\ script[s].command \notin {"stop", "start"} => step = "print"
    BY <1>4 DEF NextLabel
  <2>2. n \in Labels /\ script[s].todo \ {n} \in SUBSET Labels /\ step \in Steps
    BY TypeFacts DEF Steps
  <2>3. ASSUME Moved(s, step, script[s].todo \ {n}, n), Undisturbed(s)
        PROVE  Progress(s)'
    <3>1. step = "print" /\ n \in GeneratedAgents
      BY <1>2, <2>1, <2>3
    <3>2. Cycled(s)'
      BY <1>1, <1>2, <2>3, <3>1 DEF Cycled, InLoop, Moved, Fields, Loaded
    <3>3. QED
      BY <1>1, <2>3, <3>1, <3>2, LoopProgress
  <2>4. Moved(s, step, script[s].todo \ {n}, n) => Progress(s)'
    BY <1>1, <2>3, IdleProgress
  <2>5. QED
    BY <2>1, <2>2, <2>4, MoveProgress
<1>5. QED
  BY <1>3, <1>4

LEMMA AskProgress ==
  ASSUME TypeOK, AllReady, AllProgress, NEW s \in Scripts, Ask(s)
  PROVE  AllProgress'
<1> DEFINE n == script[s].label
<1>1. /\ script[s].step = "print" /\ UNCHANGED <<job, generated, installed>>
      /\ GeneratedAgents' = GeneratedAgents
  BY DEF Ask, GeneratedAgents
<1>2. Undisturbed(s) =>
        /\ script[s].todo \subseteq GeneratedAgents /\ n \in GeneratedAgents
        /\ \A m \in GeneratedAgents \ script[s].todo : Loaded(m) \/ m = n
        /\ job[n].state # "leaving" /\ script[s].command = "load"
  BY <1>1, OwnFacts DEF Cycled, InLoop, Scope
<1>3. Undisturbed(s) /\ Printed(n) => Loaded(n)
  <2>1. job[n].state \in JobStates
    BY TypeFacts DEF TypeOK, Job
  <2>2. QED
    BY <1>2, <2>1 DEF JobStates, Printed, Loaded
<1>4. PICK step \in {"bootout", "bootstrap", "next", "failed"} :
        Goto(s, step) /\ (Loading(s) /\ step = "next" => Printed(n))
  BY DEF Ask
<1>5. CASE step = "failed"
  BY <1>4, <1>5, FailProgress
<1>6. CASE step # "failed"
  <2>1. ASSUME Moved(s, step, script[s].todo, n), Undisturbed(s)
        PROVE  Progress(s)'
    <3>1. Loading(s) /\ n \in Agents
      BY <1>2, <2>1, TypeFacts DEF Loading
    <3>2. Cycled(s)'
      BY <1>1, <1>2, <1>3, <1>4, <2>1, <3>1 DEF Cycled, InLoop, Moved, Fields, Loaded
    <3>3. QED
      BY <1>1, <1>4, <1>6, <2>1, <3>2, LoopProgress
  <2>2. Moved(s, step, script[s].todo, n) => Progress(s)'
    BY <1>1, <2>1, IdleProgress
  <2>3. step \in Steps
    BY <1>4 DEF Steps
  <2>4. QED
    BY <1>4, <2>2, <2>3, GotoProgress
<1>7. QED
  BY <1>5, <1>6

\* No load starts a label.
LEMMA StartProgress ==
  ASSUME TypeOK, AllReady, AllProgress, NEW s \in Scripts, Start(s)
  PROVE  AllProgress'
<1>1. script[s].step = "start" /\ script[s].alone \in BOOLEAN
  BY DEF Start, TypeOK, ScriptState
<1>2. ~Undisturbed(s)
  BY <1>1 DEF AllReady, Ready, Undisturbed
<1>3. PICK step \in {"bootstrap", "next", "failed"} : Goto(s, step)
  BY DEF Start
<1>4. Moved(s, step, script[s].todo, script[s].label) => Progress(s)'
  BY <1>1, <1>2, IdleProgress
<1>5. QED
  BY <1>3, <1>4, GotoProgress DEF Steps

LEMMA BootoutProgress ==
  ASSUME TypeOK, AllReady, AllProgress, NEW s \in Scripts, BootoutLabel(s)
  PROVE  AllProgress'
<1> DEFINE n == script[s].label
<1>1. /\ script[s].step = "bootout" /\ Bootout(n) /\ n \in Labels
      /\ generated' = generated /\ installed' = installed
      /\ GeneratedAgents' = GeneratedAgents
      /\ IF script[s].command = "stop" THEN Goto(s, "next") ELSE Goto(s, "wait")
  BY TypeFacts DEF BootoutLabel, GeneratedAgents
<1>2. \A m \in Labels \ {n} : job'[m] = job[m]
  BY <1>1, JobFacts
<1>3. CASE script[s].command = "stop"
  <2>1. Moved(s, "next", script[s].todo, n) => Progress(s)'
    BY <1>1, <1>3, IdleProgress DEF Undisturbed
  <2>2. QED
    BY <1>1, <1>3, <2>1, GotoProgress DEF Steps
<1>4. CASE script[s].command # "stop"
  <2>1. ASSUME Moved(s, "wait", script[s].todo, n), Undisturbed(s)
        PROVE  Progress(s)'
    <3>1. /\ n \in GeneratedAgents /\ n \notin script[s].orphans
          /\ script[s].todo \subseteq GeneratedAgents
          /\ \A m \in GeneratedAgents \ script[s].todo : Loaded(m) \/ m = n
          /\ \A m \in GeneratedAgents : job[m].state # "leaving"
      BY <1>1, <2>1, OwnFacts DEF Cycled, InLoop, Scope
    <3>2. Scope(s)'
      <4>1. \A m \in GeneratedAgents : m # n => job'[m].state # "leaving"
        BY <1>2, <3>1, TypeFacts
      <4>2. QED
        BY <1>1, <2>1, <4>1, OwnFacts, ScopeKept
    <3>3. Filed(s)'
      <4>1. \A m \in script[s].orphans : Loaded(m)' => Loaded(m)
        BY <1>2, <3>1, TypeFacts DEF Loaded
      <4>2. QED
        BY <1>1, <2>1, <4>1, OwnFacts, FilesKept
    <3>4. Cycled(s)'
      <4>1. \A m \in GeneratedAgents \ script[s].todo : Loaded(m)' \/ m = n
        BY <1>2, <3>1, TypeFacts DEF Loaded
      <4>2. QED
        BY <1>1, <2>1, <3>1, <4>1 DEF Cycled, InLoop, Moved, Fields
    <3>5. QED
      BY <3>2, <3>3, <3>4 DEF Progress
  <2>2. Moved(s, "wait", script[s].todo, n) => Progress(s)'
    BY <1>1, <2>1, IdleProgress
  <2>3. QED
    BY <1>1, <1>4, <2>2, GotoProgress DEF Steps
<1>5. QED
  BY <1>3, <1>4

LEMMA WaitProgress ==
  ASSUME TypeOK, AllReady, AllProgress, NEW s \in Scripts, Wait(s)
  PROVE  AllProgress'
<1> DEFINE n == script[s].label
<1>1. /\ script[s].step = "wait" /\ UNCHANGED <<job, generated, installed>>
      /\ GeneratedAgents' = GeneratedAgents
  BY DEF Wait, GeneratedAgents
<1>2. CASE Printed(n)
  BY <1>2, FailProgress DEF Wait
<1>3. CASE ~Printed(n)
  <2>1. PICK step \in {"port", "bootstrap", "start"} :
           /\ Goto(s, step) /\ (step = "port" <=> n = Caddy /\ Loading(s))
           /\ step = "start" <=> ~Loading(s)
    BY <1>3 DEF Wait
  <2>2. ASSUME Moved(s, step, script[s].todo, n), Undisturbed(s)
        PROVE  Progress(s)'
    <3>0. step # "start"
      BY <2>1, <2>2 DEF Undisturbed, Loading
    <3>1. Cycled(s)'
      <4>1. CASE n = Caddy
        BY <2>1, <2>2, <3>0, <4>1, OwnFacts DEF Cycled, InLoop, Moved, Fields
      <4>2. CASE n \in Agents
        <5>1. Cycled(s) /\ n # Caddy
          BY <2>2, <4>2, OwnFacts, TypeFacts
        <5>2. QED
          BY <1>1, <2>1, <2>2, <3>0, <4>2, <5>1 DEF Cycled, InLoop, Moved, Fields, Loaded
      <4>3. QED
        BY <4>1, <4>2, TypeFacts DEF Labels
    <3>2. QED
      BY <1>1, <1>3, <2>2, <3>0, <3>1, LoopProgress
  <2>3. Moved(s, step, script[s].todo, n) => Progress(s)'
    BY <1>1, <2>2, IdleProgress
  <2>4. QED
    BY <2>1, <2>3, GotoProgress DEF Steps
<1>4. QED
  BY <1>2, <1>3

LEMMA BootstrapProgress ==
  ASSUME TypeOK, AllReady, AllProgress, NEW s \in Scripts, BootstrapLabel(s)
  PROVE  AllProgress'
<1> DEFINE n     == script[s].label
           plist == PlistFor(s, n)
           todo  == IF n = Caddy /\ Loading(s) THEN script[s].services ELSE script[s].todo
<1>1. /\ script[s].step = "bootstrap" /\ generated' = generated /\ installed' = installed
      /\ n \in Labels /\ GeneratedAgents' = GeneratedAgents
  BY TypeFacts DEF BootstrapLabel, GeneratedAgents
<1>2. CASE ~CanBootstrap(n, plist)
  BY <1>2, FailProgress DEF BootstrapLabel
<1>3. CASE CanBootstrap(n, plist)
  <2>1. /\ Bootstrap(n, plist)
        /\ Become(s, [script[s] EXCEPT !.step = "next", !.todo = todo])
    BY <1>3 DEF BootstrapLabel
  <2>2. job'[n].state = "loaded" /\ \A m \in Labels \ {n} : job'[m] = job[m]
    BY <1>1, <2>1, JobFacts
  <2>3. todo \in SUBSET Labels
    BY TypeFacts DEF TypeOK, ScriptState, Labels
  <2>4. ASSUME Moved(s, "next", todo, n), Undisturbed(s)
        PROVE  Progress(s)'
    <3>1. /\ n \notin script[s].orphans
          /\ \A m \in GeneratedAgents : job[m].state # "leaving"
      BY <1>1, <2>4, OwnFacts, TypeFacts, LabelsAssumption
         DEF Cycled, InLoop, Scope, Labels
    <3>2. Scope(s)'
      <4>1. \A m \in GeneratedAgents : job'[m].state # "leaving"
        BY <2>2, <3>1, TypeFacts
      <4>2. QED
        BY <1>1, <2>4, <4>1, OwnFacts, ScopeKept
    <3>3. Filed(s)'
      <4>1. \A m \in script[s].orphans : Loaded(m)' => Loaded(m)
        BY <2>2, <3>1, TypeFacts DEF Loaded
      <4>2. QED
        BY <1>1, <2>4, <4>1, OwnFacts, FilesKept
    <3>4. /\ todo \subseteq GeneratedAgents
          /\ \A m \in GeneratedAgents \ todo : Loaded(m)'
      <4>1. CASE n = Caddy
        BY <2>4, <4>1, OwnFacts DEF Scope
      <4>2. CASE n \in Agents
        <5>1. /\ todo = script[s].todo /\ todo \subseteq GeneratedAgents
              /\ \A m \in GeneratedAgents \ todo : Loaded(m) \/ m = n
          BY <1>1, <2>4, <4>2, OwnFacts, TypeFacts DEF Cycled, InLoop
        <5>2. QED
          BY <2>2, <5>1, TypeFacts DEF Loaded
      <4>3. QED
        BY <1>1, <4>1, <4>2 DEF Labels
    <3>5. Cycled(s)'
      BY <1>1, <2>4, <3>4 DEF Cycled, InLoop, Moved, Fields
    <3>6. QED
      BY <3>2, <3>3, <3>5 DEF Progress
  <2>5. Moved(s, "next", todo, n) => Progress(s)'
    BY <1>1, <2>4, IdleProgress
  <2>6. QED
    BY <1>1, <2>1, <2>3, <2>5, MoveProgress DEF Steps
<1>4. QED
  BY <1>2, <1>3

\* No load that runs alone is at the step of an uninstall.
LEMMA RemoveProgress ==
  ASSUME TypeOK, AllReady, AllProgress, NEW s \in Scripts, RemoveAgent(s) \/ RemoveDaemon(s)
  PROVE  AllProgress'
<1>1. script[s].step = "remove" /\ ~Undisturbed(s)
  BY OwnFacts DEF RemoveAgent, RemoveDaemon, Ready
<1>2. \A step, todo, label : Moved(s, step, todo, label) => Progress(s)'
  BY <1>1, IdleProgress
<1>3. CASE RemoveAgent(s)
  <2>1. PICK n \in script[s].todo : Become(s, [script[s] EXCEPT !.todo = @ \ {n}])
    BY <1>3 DEF RemoveAgent
  <2>2. script[s].todo \ {n} \in SUBSET Labels /\ script[s].step \in Steps
    BY TypeFacts DEF TypeOK, ScriptState
  <2>3. QED
    BY <1>2, <2>1, <2>2, TypeFacts, MoveProgress
<1>4. CASE RemoveDaemon(s)
  BY <1>2, <1>4, GotoProgress DEF RemoveDaemon, Steps
<1>5. QED
  BY <1>3, <1>4

\* What a script finds when it begins.
LEMMA FreshFacts ==
  ASSUME NEW c \in AllCommands
  PROVE  /\ Fresh(c).orphans = InstalledAgents \ GeneratedAgents
         /\ Fresh(c).settled = TRUE => \A n \in Labels : job[n].state # "leaving"
<1>1. ASSUME NEW orphans, NEW settled, NEW alone,
             Fresh(c) = [Idle EXCEPT !.command = c, !.orphans = orphans,
                                     !.settled = settled, !.alone = alone]
      PROVE  Fresh(c).orphans = orphans /\ Fresh(c).settled = settled
  BY <1>1 DEF Idle
<1>2. QED
  BY <1>1, Zenon DEF Fresh

LEMMA BeginInstallProgress ==
  ASSUME TypeOK, AllReady, AllProgress, NEW s \in Scripts, NEW command \in Commands,
         BeginInstall(s, command)
  PROVE  AllProgress'
<1>1. PICK F \in ScriptState :
        /\ F = Fresh(command)
        /\ F.orphans = InstalledAgents \ GeneratedAgents
        /\ F.settled = TRUE => \A n \in Labels : job[n].state # "leaving"
  BY CommandsAssumption, FreshTypes, FreshFacts
<1>2. /\ job' = job /\ generated' = generated /\ installed' = installed
      /\ GeneratedAgents' = GeneratedAgents /\ InstalledAgents' = InstalledAgents
  BY DEF BeginInstall, GeneratedAgents, InstalledAgents
<1>3. CASE generated[Caddy] = None \/ GeneratedAgents = {}
  <2> DEFINE state == [F EXCEPT !.step = "failed"]
  <2>1. state \in ScriptState /\ state.step = "failed" /\ Become(s, state)
    BY <1>1, <1>3 DEF BeginInstall, ScriptState, Steps
  <2> HIDE DEF state
  <2>2. QED
    BY <2>1, OthersProgress DEF Progress, Undisturbed
<1>4. CASE ~(generated[Caddy] = None \/ GeneratedAgents = {})
  <2> DEFINE state == [F EXCEPT !.step = "copy", !.services = GeneratedAgents,
                                !.todo = GeneratedAgents]
  <2>1. GeneratedAgents \in SUBSET Agents /\ GeneratedAgents \in SUBSET Labels
    BY TypeFacts DEF Labels
  <2>2. /\ state \in ScriptState /\ state.step = "copy"
        /\ state.services = GeneratedAgents /\ state.todo = GeneratedAgents
        /\ state.orphans = InstalledAgents \ GeneratedAgents
        /\ state.settled = TRUE => \A n \in Labels : job[n].state # "leaving"
    BY <1>1, <2>1 DEF ScriptState, Steps
  <2>3. Become(s, state)
    BY <1>1, <1>4 DEF BeginInstall
  <2> HIDE DEF state
  <2>4. script'[s] = state => Progress(s)'
    <3> SUFFICES ASSUME script'[s] = state, Undisturbed(s)'
                 PROVE  Scope(s)' /\ Filed(s)' /\ Cycled(s)'
      BY DEF Progress
    <3>1. Scope(s)'
      BY <1>2, <2>1, <2>2 DEF Scope, Undisturbed
    <3>2. Filed(s)'
      BY <1>2, <2>2 DEF Filed
    <3>3. Cycled(s)'
      BY <2>2 DEF Cycled, InLoop
    <3>4. QED
      BY <3>1, <3>2, <3>3
  <2>5. QED
    BY <2>2, <2>3, <2>4, OthersProgress
<1>5. QED
  BY <1>3, <1>4

LEMMA BeginOtherProgress ==
  ASSUME TypeOK, AllReady, AllProgress, NEW s \in Scripts, NEW command \in Commands,
         BeginUninstall(s, command) \/ BeginService(s, command)
  PROVE  AllProgress'
<1>1. command # "load"
  BY DEF BeginUninstall, BeginService
<1>2. PICK F \in ScriptState : F = Fresh(command) /\ F.command = command
  BY CommandsAssumption, FreshTypes
<1>3. ASSUME NEW step \in Steps, NEW todo \in SUBSET Labels,
             Become(s, [F EXCEPT !.step = step, !.todo = todo])
      PROVE  AllProgress'
  <2> DEFINE state == [F EXCEPT !.step = step, !.todo = todo]
  <2>1. state \in ScriptState /\ state.command = command /\ Become(s, state)
    BY <1>2, <1>3 DEF ScriptState
  <2> HIDE DEF state
  <2>2. QED
    BY <1>1, <2>1, OthersProgress DEF Progress, Undisturbed
<1>4. ASSUME Become(s, [F EXCEPT !.step = "failed"])
      PROVE  AllProgress'
  <2> DEFINE state == [F EXCEPT !.step = "failed"]
  <2>1. state \in ScriptState /\ state.command = command /\ Become(s, state)
    BY <1>2, <1>4 DEF ScriptState, Steps
  <2> HIDE DEF state
  <2>2. QED
    BY <1>1, <2>1, OthersProgress DEF Progress, Undisturbed
<1>5. /\ InstalledAgents \in SUBSET Labels /\ GeneratedAgents \cup {Caddy} \in SUBSET Labels
      /\ \A n \in Labels : {n} \in SUBSET Labels
  BY DEF InstalledAgents, GeneratedAgents, Labels
<1>6. QED
  BY <1>2, <1>3, <1>4, <1>5 DEF BeginUninstall, BeginService, Steps

LEMMA EndProgress ==
  ASSUME TypeOK, AllProgress, NEW s \in Scripts, Exit(s) \/ Killed(s)
  PROVE  AllProgress'
BY OthersProgress, IdleTypes DEF Exit, Killed, Progress, Undisturbed

LEMMA RunProgress ==
  ASSUME TypeOK, AllReady, AllProgress, NEW s \in Scripts, Begin(s) \/ Run(s) \/ Killed(s)
  PROVE  AllProgress'
<1>1. CASE Begin(s)
  BY <1>1, BeginInstallProgress, BeginOtherProgress DEF Begin
<1>2. CASE Run(s)
  BY <1>2, CopyProgress, PlaceProgress, CopiedProgress, PruneProgress, DropProgress,
     DaemonProgress, CycleProgress, NextLabelProgress, AskProgress, StartProgress,
     BootoutProgress, WaitProgress, BootstrapProgress, RemoveProgress, EndProgress, Zenon DEF Run
<1>3. CASE Killed(s)
  BY <1>3, EndProgress
<1>4. QED
  BY <1>1, <1>2, <1>3

\* A sync or a restart of the machine leaves no load undisturbed.
LEMMA DisturbProgress ==
  ASSUME TypeOK, Sync \/ Reboot
  PROVE  AllProgress'
<1>1. ASSUME NEW t \in Scripts
      PROVE  script'[t].alone = FALSE \/ script'[t].step = "idle"
  <2>1. [script[t] EXCEPT !.alone = FALSE].alone = FALSE
    BY DEF TypeOK, ScriptState
  <2>2. QED
    BY <2>1, IdleTypes DEF Sync, Reboot, Active
<1>2. QED
  BY <1>1 DEF AllProgress, Progress, Undisturbed

\* A label that launchd forgets was not loaded.
LEMMA GoneProgress ==
  ASSUME TypeOK, AllProgress, JobGone
  PROVE  AllProgress'
<1>1. PICK n \in Labels : Gone(n) /\ UNCHANGED <<generated, installed, script>>
  BY DEF JobGone
<1>2. /\ \A m \in Labels : m # n => job'[m] = job[m]
      /\ job[n].state = "leaving" /\ job'[n].state = "gone"
  BY <1>1 DEF TypeOK, Gone, NoJob
<1>3. /\ GeneratedAgents' = GeneratedAgents /\ InstalledAgents' = InstalledAgents
      /\ \A m \in Labels : /\ Loaded(m)' <=> Loaded(m)
                           /\ job'[m].state = "leaving" => job[m].state = "leaving"
      /\ \A m : Current(m)' <=> Current(m)
  BY <1>1, <1>2 DEF GeneratedAgents, InstalledAgents, Loaded, Current
<1>4. ASSUME NEW t \in Scripts
      PROVE  Progress(t)'
  <2> SUFFICES ASSUME Undisturbed(t)' PROVE Scope(t)' /\ Filed(t)' /\ Cycled(t)'
    BY DEF Progress
  <2>1. script' = script /\ Scope(t) /\ Filed(t) /\ Cycled(t)
    BY <1>1 DEF AllProgress, Progress, Undisturbed
  <2>2. \A m \in Labels : Clean(m)' <=> Clean(m)
    BY <1>1, <1>3 DEF Clean
  <2>3. Scope(t)'
    BY <1>3, <2>1, TypeFacts DEF Scope
  <2>4. Filed(t)'
    BY <1>3, <2>1, <2>2, TypeFacts DEF Filed
  <2>5. Cycled(t)'
    BY <1>3, <2>1, TypeFacts DEF Cycled, InLoop
  <2>6. QED
    BY <2>3, <2>4, <2>5
<1>5. QED
  BY <1>4 DEF AllProgress

LEMMA LoadsProgress == Spec => []AllProgress
<1>1. Init => AllProgress
  BY IdleTypes DEF Init, AllProgress, Progress, Undisturbed
<1>2. TypeOK /\ AllReady /\ AllProgress /\ [Next]_vars => AllProgress'
  <2> SUFFICES ASSUME TypeOK, AllReady, AllProgress, [Next]_vars
               PROVE  AllProgress'
    OBVIOUS
  <2>1. CASE Sync \/ Reboot
    BY <2>1, DisturbProgress
  <2>2. CASE JobGone
    BY <2>2, GoneProgress
  <2>3. ASSUME NEW s \in Scripts, Begin(s) \/ Run(s) \/ Killed(s)
        PROVE  AllProgress'
    BY <2>3, RunProgress
  <2>4. CASE UNCHANGED vars
    BY <2>4 DEF vars, AllProgress, Progress, Undisturbed, Scope, Filed, Cycled, InLoop,
                Loaded, Current, Clean, GeneratedAgents, InstalledAgents
  <2>5. QED
    BY <2>1, <2>2, <2>3, <2>4 DEF Next
<1>3. QED
  BY <1>1, <1>2, ScriptsAreReady, PTL DEF Spec

(* Whatever was loaded, stopped, half-installed or orphaned before: a load *)
(* that ran alone and found no label tearing down ends with every          *)
(* generated agent and Caddy loaded, the generated plists installed, and   *)
(* neither plist nor job left of an agent that is no longer generated.     *)
THEOREM LoadsConverge == Spec => []LoadConverges
<1>1. TypeOK /\ AllReady /\ AllProgress => LoadConverges
  <2> SUFFICES ASSUME TypeOK, AllReady, AllProgress, NEW s \in Scripts,
                      Succeeded(s, "load"), script[s].settled
               PROVE  /\ \A n \in GeneratedAgents \cup {Caddy} :
                            Loaded(n) /\ installed[n] = generated[n]
                      /\ \A n \in script[s].orphans : installed[n] = None /\ ~Loaded(n)
    BY DEF LoadConverges
  <2>1. script[s].step = "done" /\ Undisturbed(s)
    BY DEF Succeeded, Undisturbed, TypeOK, ScriptState
  <2>2. Loaded(Caddy)
    BY <2>1, OwnFacts DEF Ready, AgentSteps, IngressUp
  <2>3. QED
    BY <2>1, <2>2, OwnFacts DEF Filed, Cycled, Current, Clean
<1>2. QED
  BY <1>1, ScriptsAreReady, LoadsProgress, PTL

-----------------------------------------------------------------------------
(* Scripts advance: the part of their ending that needs no fairness *)

\* What is left of a script, as a number: the loop it is in (the files of a
\* load, its orphans, Caddy's job, any other loop, none), what is left of that
\* loop, and the turn it has reached on the label at hand.
Phase(S) ==
    CASE S.step \in {"copy", "place"} -> 4
      [] S.step \in {"prune", "drop"} -> 3
      [] S.step \in {"daemon", "cycle", "port"} -> 2
      [] S.step \in {"wait", "bootstrap"} -> IF S.command = "load" /\ S.label = Caddy THEN 2 ELSE 1
      [] S.step \in {"next", "print", "start", "bootout", "remove"} -> 1
      [] OTHER -> 0

Turn(S) ==
    CASE S.step \in {"print", "daemon"} -> 5
      [] S.step \in {"bootout", "cycle"} -> 4
      [] S.step = "wait" -> 3
      [] S.step \in {"port", "start"} -> 2
      [] S.step \in {"bootstrap", "copy", "prune"} -> 1
      [] OTHER -> 0

Round == 6 * Cardinality(Labels) + 6

Remaining(S) ==
    IF S.step = "idle" THEN 0
    ELSE 1 + Phase(S) * Round + 6 * Cardinality(S.todo) + Turn(S)

\* No label is worked on twice: the daemon is no part of a load's loops, and a
\* label stays in its loop until it has been dealt with.
InCourse(S) ==
    /\ S.command = "load" => Caddy \notin S.todo
    /\ S.command = "load" /\ S.step \in {"print", "bootout"} => S.label # Caddy
    /\ S.step = "start" => S.command # "load"
    /\ S.step \in {"place", "drop"} => S.label \in S.todo

AllInCourse == \A s \in Scripts : InCourse(script[s])

\* A command takes its script forward.
Forward(S, T) ==
    \/ T.step = "idle" \/ Phase(T) < Phase(S)
    \/ Phase(T) = Phase(S) /\ T.todo = S.todo /\ Turn(T) < Turn(S)
    \/ Phase(T) = Phase(S) /\ \E n \in S.todo : T.todo = S.todo \ {n}

LEMMA Measures ==
  ASSUME NEW S, S.step \in Steps
  PROVE  /\ S.step \in {"copy", "place"} => Phase(S) = 4
         /\ S.step \in {"prune", "drop"} => Phase(S) = 3
         /\ S.step \in {"daemon", "cycle", "port"} => Phase(S) = 2
         /\ S.step \in {"next", "print", "start", "bootout", "remove"} => Phase(S) = 1
         /\ S.step \in {"wait", "bootstrap"} =>
               Phase(S) = IF S.command = "load" /\ S.label = Caddy THEN 2 ELSE 1
         /\ S.step \in {"idle", "done", "failed"} => Phase(S) = 0
         /\ S.step \in {"print", "daemon"} => Turn(S) = 5
         /\ S.step \in {"bootout", "cycle"} => Turn(S) = 4
         /\ S.step = "wait" => Turn(S) = 3
         /\ S.step \in {"port", "start"} => Turn(S) = 2
         /\ S.step \in {"bootstrap", "copy", "prune"} => Turn(S) = 1
         /\ S.step \in {"place", "drop", "next", "remove", "idle", "done", "failed"} => Turn(S) = 0
         /\ Phase(S) \in 0..4 /\ Turn(S) \in 0..5
BY DEF Phase, Turn, Steps

\* What script s is after a step of its own, and that the others keep.
LEMMA Becomes ==
  ASSUME NEW s \in Scripts, NEW state, Become(s, state)
  PROVE  script'[s] = state
BY DEF Become

LEMMA OthersRemain ==
  ASSUME TypeOK, NEW s \in Scripts, NEW state, Become(s, state), NEW t \in Scripts \ {s}
  PROVE  /\ script'[t].step = script[t].step /\ script'[t].todo = script[t].todo
         /\ script'[t].label = script[t].label /\ script'[t].command = script[t].command
<1>1. script[t] \in ScriptState
  BY DEF TypeOK
<1>2. script'[t] = script[t] \/ script'[t] = [script[t] EXCEPT !.alone = FALSE]
  BY DEF Become
<1>3. QED
  BY <1>1, <1>2 DEF ScriptState

LEMMA Went ==
  ASSUME TypeOK, NEW s \in Scripts, NEW step, Goto(s, step)
  PROVE  /\ script'[s].step = step /\ script'[s].todo = script[s].todo
         /\ script'[s].label = script[s].label /\ script'[s].command = script[s].command
<1>1. script[s] \in ScriptState
  BY DEF TypeOK
<1>2. script'[s] = [script[s] EXCEPT !.step = step]
  BY DEF Become, Goto
<1>3. QED
  BY <1>1, <1>2 DEF ScriptState

\* A script that fails or succeeds is past every loop.
LEMMA EndForward ==
  ASSUME TypeOK, NEW s \in Scripts, InCourse(script[s]),
         script[s].step \notin {"idle", "done", "failed"},
         Goto(s, "done") \/ Goto(s, "failed")
  PROVE  InCourse(script'[s]) /\ Forward(script[s], script'[s])
<1>1. script[s].step \in Steps
  BY DEF TypeOK, ScriptState
<1>2. /\ script'[s].step \in {"done", "failed"} /\ script'[s].todo = script[s].todo
      /\ script'[s].command = script[s].command
  BY Went
<1>3. Phase(script[s]) > Phase(script'[s])
  BY <1>1, <1>2, Measures DEF Steps
<1>4. QED
  BY <1>2, <1>3 DEF InCourse, Forward

\* The installation of the files.
LEMMA FilesForward ==
  ASSUME TypeOK, NEW s \in Scripts, InCourse(script[s]),
         Copy(s) \/ Place(s) \/ Copied(s) \/ Prune(s) \/ Drop(s) \/ Pruned(s)
  PROVE  InCourse(script'[s]) /\ Forward(script[s], script'[s])
<1> DEFINE S == script[s]
           T == script'[s]
<1>0. S \in ScriptState /\ Caddy \notin Agents
  BY LabelsAssumption DEF TypeOK
<1>1. CASE Copy(s)
  <2>0. S.step = "copy"
    BY <1>1 DEF Copy
  <2>1. PICK n \in S.todo :
           \/ Goto(s, "failed")
           \/ \E changed :
                 Become(s, [S EXCEPT !.step = "place", !.label = n, !.changed = changed])
    BY <1>1 DEF Copy
  <2>2. CASE Goto(s, "failed")
    BY <2>0, <2>2, EndForward
  <2>3. ASSUME NEW changed,
               Become(s, [S EXCEPT !.step = "place", !.label = n, !.changed = changed])
        PROVE  InCourse(T) /\ Forward(S, T)
    <3>1. T = [S EXCEPT !.step = "place", !.label = n, !.changed = changed]
      BY <2>3, Becomes
    <3>2. T.step = "place" /\ T.todo = S.todo /\ T.label = n /\ T.command = S.command
      BY <1>0, <3>1 DEF ScriptState
    <3>3. QED
      BY <2>0, <3>2, Measures DEF InCourse, Forward, Steps
  <2>4. QED
    BY <2>1, <2>2, <2>3
<1>2. CASE Place(s)
  <2>1. CASE Goto(s, "failed")
    BY <1>2, <2>1, EndForward DEF Place
  <2>2. CASE Become(s, [S EXCEPT !.step = "copy", !.todo = @ \ {S.label}])
    <3>1. /\ S.step = "place" /\ T.step = "copy" /\ T.todo = S.todo \ {S.label}
          /\ T.command = S.command
      BY <1>0, <1>2, <2>2, Becomes DEF ScriptState, Place
    <3>2. QED
      BY <3>1, Measures DEF InCourse, Forward, Steps
  <2>3. QED
    BY <1>2, <2>1, <2>2 DEF Place
<1>3. CASE Copied(s)
  <2>0. S.step = "copy" /\ Become(s, [S EXCEPT !.step = "prune", !.todo = InstalledAgents])
    BY <1>3 DEF Copied
  <2>1. T.step = "prune" /\ T.todo = InstalledAgents
    BY <1>0, <2>0, Becomes DEF ScriptState
  <2>2. QED
    BY <1>0, <2>0, <2>1, Measures DEF InCourse, Forward, Steps, InstalledAgents
<1>4. CASE Prune(s)
  <2>1. PICK n \in S.todo :
           \/ Become(s, [S EXCEPT !.todo = @ \ {n}])
           \/ Become(s, [S EXCEPT !.step = "drop", !.label = n])
    BY <1>4 DEF Prune
  <2>2. S.step = "prune"
    BY <1>4 DEF Prune
  <2>3. CASE Become(s, [S EXCEPT !.todo = @ \ {n}])
    <3>1. T.step = "prune" /\ T.todo = S.todo \ {n} /\ T.command = S.command
      BY <1>0, <2>2, <2>3, Becomes DEF ScriptState
    <3>2. QED
      BY <2>2, <3>1, Measures DEF InCourse, Forward, Steps
  <2>4. CASE Become(s, [S EXCEPT !.step = "drop", !.label = n])
    <3>1. T.step = "drop" /\ T.todo = S.todo /\ T.label = n /\ T.command = S.command
      BY <1>0, <2>4, Becomes DEF ScriptState
    <3>2. QED
      BY <2>2, <3>1, Measures DEF InCourse, Forward, Steps
  <2>5. QED
    BY <2>1, <2>3, <2>4
<1>5. CASE Drop(s)
  <2>1. /\ S.step = "drop" /\ T.step = "prune" /\ T.todo = S.todo \ {S.label}
        /\ T.command = S.command
    BY <1>0, <1>5, Becomes DEF ScriptState, Drop
  <2>2. QED
    BY <2>1, Measures DEF InCourse, Forward, Steps
<1>6. CASE Pruned(s)
  <2>1. S.step = "prune" /\ T.step = "daemon" /\ T.todo = S.todo /\ T.command = S.command
    BY <1>0, <1>6, Becomes DEF ScriptState, Pruned
  <2>2. QED
    BY <2>1, Measures DEF InCourse, Forward, Steps
<1>7. QED
  BY <1>1, <1>2, <1>3, <1>4, <1>5, <1>6

\* Caddy's job and the loops over the labels.
LEMMA JobsForward ==
  ASSUME TypeOK, NEW s \in Scripts, InCourse(script[s]),
         \/ InstallDaemon(s) \/ CycleDaemon(s) \/ Port(s) \/ NextLabel(s) \/ Ask(s)
         \/ Start(s) \/ BootoutLabel(s) \/ Wait(s) \/ BootstrapLabel(s)
  PROVE  InCourse(script'[s]) /\ Forward(script[s], script'[s])
<1> DEFINE S == script[s]
           T == script'[s]
<1>0. S \in ScriptState /\ Caddy \notin Agents
  BY LabelsAssumption DEF TypeOK
<1>a. CASE S.step \notin {"idle", "done", "failed"} /\ (Goto(s, "done") \/ Goto(s, "failed"))
  BY <1>a, EndForward
<1>1. CASE InstallDaemon(s)
  <2>1. S.step = "daemon" /\ (Goto(s, "cycle") \/ Goto(s, "done") \/ Goto(s, "failed"))
    BY <1>1 DEF InstallDaemon
  <2>2. CASE Goto(s, "cycle")
    BY <2>1, <2>2, Went, Measures DEF InCourse, Forward, Steps
  <2>3. QED
    BY <2>1, <2>2, <1>a
<1>2. CASE CycleDaemon(s)
  <2>1. S.step = "cycle" /\ Become(s, [S EXCEPT !.step = "wait", !.label = Caddy])
    BY <1>2 DEF CycleDaemon
  <2>2. T.step = "wait" /\ T.todo = S.todo /\ T.command = S.command
    BY <1>0, <2>1, Becomes DEF ScriptState
  <2>3. QED
    BY <2>1, <2>2, Measures DEF InCourse, Forward, Steps
<1>3. CASE Port(s)
  <2>1. S.step = "port" /\ (Goto(s, "bootstrap") \/ Goto(s, "failed"))
    BY <1>3 DEF Port
  <2>2. CASE Goto(s, "bootstrap")
    BY <2>1, <2>2, Went, Measures DEF InCourse, Forward, Steps
  <2>3. QED
    BY <2>1, <2>2, <1>a
<1>4. CASE NextLabel(s)
  <2>1. S.step = "next"
    BY <1>4 DEF NextLabel
  <2>2. CASE Goto(s, "done")
    BY <2>1, <2>2, <1>a
  <2>3. ASSUME NEW n \in S.todo, NEW step \in {"print", "start", "bootout"},
               step = "start" => S.command = "start",
               Become(s, [S EXCEPT !.step = step, !.label = n, !.todo = @ \ {n}])
        PROVE  InCourse(T) /\ Forward(S, T)
    <3>1. /\ T.step = step /\ T.label = n /\ T.todo = S.todo \ {n}
          /\ T.command = S.command
      BY <1>0, <2>3, Becomes DEF ScriptState
    <3>2. InCourse(T)
      BY <2>3, <3>1 DEF InCourse
    <3>3. Phase(S) = 1 /\ Phase(T) = 1
      BY <2>1, <3>1, Measures DEF Steps
    <3>4. QED
      BY <3>1, <3>2, <3>3 DEF Forward
  <2>4. QED
    BY <1>4, <2>2, <2>3 DEF NextLabel
<1>5. CASE Ask(s)
  <2>1. /\ S.step = "print"
        /\ \/ Goto(s, "bootout") \/ Goto(s, "bootstrap") \/ Goto(s, "next")
           \/ Goto(s, "failed")
    BY <1>5 DEF Ask
  <2>2. ASSUME NEW step \in {"bootout", "bootstrap", "next"}, Goto(s, step)
        PROVE  InCourse(T) /\ Forward(S, T)
    <3>1. /\ T.step = step /\ T.todo = S.todo /\ T.label = S.label
          /\ T.command = S.command
      BY <2>2, Went
    <3>2. InCourse(T)
      BY <2>1, <3>1 DEF InCourse
    <3>3. QED
      BY <2>1, <3>1, <3>2, Measures DEF InCourse, Forward, Steps
  <2>3. QED
    BY <2>1, <2>2, <1>a
<1>6. CASE BootoutLabel(s)
  <2>1. S.step = "bootout" /\ (Goto(s, "next") \/ Goto(s, "wait"))
    BY <1>6 DEF BootoutLabel
  <2>2. ASSUME NEW step \in {"next", "wait"}, Goto(s, step)
        PROVE  InCourse(T) /\ Forward(S, T)
    <3>1. /\ T.step = step /\ T.todo = S.todo /\ T.label = S.label
          /\ T.command = S.command
      BY <2>2, Went
    <3>2. QED
      BY <2>1, <3>1, Measures DEF InCourse, Forward, Steps
  <2>3. QED
    BY <2>1, <2>2
<1>7. CASE Wait(s)
  <2>1. /\ S.step = "wait"
        /\ \/ Goto(s, "port") /\ S.label = Caddy /\ S.command = "load"
           \/ Goto(s, "start") /\ S.command # "load"
           \/ Goto(s, "bootstrap")
           \/ Goto(s, "failed")
    BY <1>7 DEF Wait, Loading
  <2>2. ASSUME NEW step \in {"port", "start", "bootstrap"}, Goto(s, step),
               step = "port" => S.label = Caddy /\ S.command = "load",
               step = "start" => S.command # "load"
        PROVE  InCourse(T) /\ Forward(S, T)
    <3>1. /\ T.step = step /\ T.todo = S.todo /\ T.label = S.label
          /\ T.command = S.command
      BY <2>2, Went
    <3>2. QED
      BY <2>1, <2>2, <3>1, Measures DEF InCourse, Forward, Steps
  <2>3. QED
    BY <2>1, <2>2, <1>a
<1>8. CASE BootstrapLabel(s)
  <2>1. S.step = "bootstrap"
    BY <1>8 DEF BootstrapLabel
  <2>2. CASE Goto(s, "failed")
    BY <2>1, <2>2, <1>a
  <2>3. ASSUME NEW todo,
               todo = IF S.label = Caddy /\ S.command = "load" THEN S.services ELSE S.todo,
               Become(s, [S EXCEPT !.step = "next", !.todo = todo])
        PROVE  InCourse(T) /\ Forward(S, T)
    <3>1. T.step = "next" /\ T.todo = todo /\ T.command = S.command
      BY <1>0, <2>3, Becomes DEF ScriptState
    <3>2. S.services \subseteq Agents
      BY <1>0 DEF ScriptState
    <3>3. InCourse(T)
      BY <1>0, <2>3, <3>1, <3>2 DEF InCourse
    <3>4. Forward(S, T)
      BY <2>1, <2>3, <3>1, Measures DEF Forward, Steps
    <3>5. QED
      BY <3>3, <3>4
  <2>4. QED
    BY <1>8, <2>2, <2>3 DEF BootstrapLabel, Loading
<1>9. CASE Start(s)
  <2>1. /\ S.step = "start" /\ S.command # "load"
        /\ Goto(s, "bootstrap") \/ Goto(s, "next") \/ Goto(s, "failed")
    BY <1>9 DEF Start, InCourse
  <2>2. ASSUME NEW step \in {"bootstrap", "next"}, Goto(s, step)
        PROVE  InCourse(T) /\ Forward(S, T)
    <3>1. /\ T.step = step /\ T.todo = S.todo /\ T.label = S.label
          /\ T.command = S.command
      BY <2>2, Went
    <3>2. QED
      BY <2>1, <3>1, Measures DEF InCourse, Forward, Steps
  <2>3. QED
    BY <2>1, <2>2, <1>a
<1>10. QED
  BY <1>1, <1>2, <1>3, <1>4, <1>5, <1>6, <1>7, <1>8, <1>9

\* The removal of what is installed, and the exit.
LEMMA RemovalForward ==
  ASSUME TypeOK, NEW s \in Scripts, InCourse(script[s]),
         RemoveAgent(s) \/ RemoveDaemon(s) \/ Exit(s)
  PROVE  InCourse(script'[s]) /\ Forward(script[s], script'[s])
<1> DEFINE S == script[s]
           T == script'[s]
<1>0. S \in ScriptState
  BY DEF TypeOK
<1>1. CASE RemoveAgent(s)
  <2>1. PICK n \in S.todo : S.step = "remove" /\ Become(s, [S EXCEPT !.todo = @ \ {n}])
    BY <1>1 DEF RemoveAgent
  <2>2. T.step = "remove" /\ T.todo = S.todo \ {n} /\ T.command = S.command
    BY <1>0, <2>1, Becomes DEF ScriptState
  <2>3. QED
    BY <2>1, <2>2, Measures DEF InCourse, Forward, Steps
<1>2. CASE RemoveDaemon(s)
  BY <1>2, EndForward DEF RemoveDaemon
<1>3. CASE Exit(s)
  BY <1>3, Becomes DEF Exit, Idle, InCourse, Forward
<1>4. QED
  BY <1>1, <1>2, <1>3

LEMMA RunForward ==
  ASSUME TypeOK, NEW s \in Scripts, InCourse(script[s]), Run(s)
  PROVE  InCourse(script'[s]) /\ Forward(script[s], script'[s])
BY FilesForward, JobsForward, RemovalForward DEF Run

LEMMA RunBecomes ==
  ASSUME NEW s \in Scripts, Run(s)
  PROVE  \E state : Become(s, state)
<1>1. CASE Copy(s) \/ Place(s) \/ Copied(s) \/ Prune(s) \/ Drop(s) \/ Pruned(s)
  BY <1>1 DEF Copy, Place, Copied, Prune, Drop, Pruned, Goto
<1>2. CASE InstallDaemon(s) \/ CycleDaemon(s) \/ Port(s) \/ NextLabel(s) \/ Ask(s)
  BY <1>2 DEF InstallDaemon, CycleDaemon, Port, NextLabel, Ask, Goto
<1>3. CASE Start(s) \/ BootoutLabel(s) \/ Wait(s) \/ BootstrapLabel(s)
  BY <1>3 DEF Start, BootoutLabel, Wait, BootstrapLabel, Goto
<1>4. CASE RemoveAgent(s) \/ RemoveDaemon(s) \/ Exit(s)
  BY <1>4 DEF RemoveAgent, RemoveDaemon, Exit, Goto
<1>5. QED
  BY <1>1, <1>2, <1>3, <1>4 DEF Run

LEMMA Counts ==
  ASSUME IsFiniteSet(Agents), NEW S \in ScriptState
  PROVE  /\ Cardinality(Labels) \in Nat /\ Round \in Nat
         /\ Cardinality(S.todo) \in Nat /\ Cardinality(S.todo) <= Cardinality(Labels)
         /\ \A n \in S.todo : Cardinality(S.todo \ {n}) = Cardinality(S.todo) - 1
<1>1. IsFiniteSet(Labels)
  BY FS_AddElement DEF Labels
<1>2. S.todo \in SUBSET Labels
  BY DEF ScriptState
<1>3. IsFiniteSet(S.todo) /\ Cardinality(S.todo) <= Cardinality(Labels)
  BY <1>1, <1>2, FS_Subset
<1>4. Cardinality(S.todo) \in Nat /\ Cardinality(Labels) \in Nat
  BY <1>1, <1>3, FS_CardinalityType
<1>5. \A n \in S.todo : Cardinality(S.todo \ {n}) = Cardinality(S.todo) - 1
  BY <1>3, FS_RemoveElement
<1>6. QED
  BY <1>3, <1>4, <1>5 DEF Round

\* A loop outweighs all that is left within one.
LEMMA Weights ==
  ASSUME NEW p \in 0..4, NEW q \in 0..4, NEW W \in Nat, NEW a \in Nat, NEW b \in Nat,
         q < p, b < W
  PROVE  q * W + b < p * W + a
<1>1. q * W + W <= p * W
  <2>1. CASE p = 1
    BY <2>1
  <2>2. CASE p = 2
    BY <2>2
  <2>3. CASE p = 3
    BY <2>3
  <2>4. CASE p = 4
    BY <2>4
  <2>5. QED
    BY <2>1, <2>2, <2>3, <2>4
<1>2. q * W \in Nat /\ p * W \in Nat
  OBVIOUS
<1>3. QED
  BY <1>1, <1>2

LEMMA RemainingBound ==
  ASSUME IsFiniteSet(Agents), NEW S \in ScriptState
  PROVE  /\ Remaining(S) \in 0 .. 5 * Round
         /\ S.step # "idle" => Remaining(S) > 0
<1>1. /\ Phase(S) \in 0..4 /\ Turn(S) \in 0..5
  BY Measures DEF ScriptState
<1>2. /\ Cardinality(S.todo) \in Nat /\ Cardinality(S.todo) <= Cardinality(Labels)
      /\ Cardinality(Labels) \in Nat
  BY Counts
<1>3. /\ Round \in Nat /\ 6 * Cardinality(S.todo) + Turn(S) \in Nat
      /\ 6 * Cardinality(S.todo) + Turn(S) + 1 <= Round
  BY <1>1, <1>2 DEF Round
<1>4. Phase(S) * Round \in Nat /\ Phase(S) * Round <= 4 * Round
  BY <1>1, <1>3
<1>5. QED
  BY <1>1, <1>2, <1>3, <1>4 DEF Remaining

LEMMA ForwardDecreases ==
  ASSUME IsFiniteSet(Agents), NEW S \in ScriptState, NEW T \in ScriptState,
         S.step # "idle", Forward(S, T)
  PROVE  Remaining(T) < Remaining(S)
<1> DEFINE Rest(X) == 6 * Cardinality(X.todo) + Turn(X)
<1>1. /\ Phase(S) \in 0..4 /\ Turn(S) \in 0..5 /\ Phase(T) \in 0..4 /\ Turn(T) \in 0..5
  BY Measures DEF ScriptState
<1>2. /\ Cardinality(Labels) \in Nat /\ Round \in Nat
      /\ Cardinality(S.todo) \in Nat /\ Cardinality(T.todo) \in Nat
      /\ Cardinality(T.todo) <= Cardinality(Labels)
      /\ \A n \in S.todo : Cardinality(S.todo \ {n}) = Cardinality(S.todo) - 1
  BY Counts
<1>3. Rest(S) \in Nat /\ Rest(T) \in Nat /\ Rest(T) < Round
  BY <1>1, <1>2 DEF Round
<1>4. Phase(S) * Round \in Nat /\ Phase(T) * Round \in Nat
  BY <1>1, <1>2
<1>5. CASE T.step = "idle"
  BY <1>5, RemainingBound DEF Remaining
<1>6. CASE T.step # "idle" /\ Phase(T) < Phase(S)
  <2>1. Phase(T) * Round + Rest(T) < Phase(S) * Round + Rest(S)
    BY <1>1, <1>2, <1>3, <1>6, Weights
  <2>2. QED
    BY <1>1, <1>2, <1>4, <1>6, <2>1 DEF Remaining
<1>7. CASE T.step # "idle" /\ Phase(T) = Phase(S) /\ T.todo = S.todo /\ Turn(T) < Turn(S)
  BY <1>1, <1>2, <1>4, <1>7 DEF Remaining
<1>8. ASSUME T.step # "idle", Phase(T) = Phase(S), NEW n \in S.todo, T.todo = S.todo \ {n}
      PROVE  Remaining(T) < Remaining(S)
  <2>1. Cardinality(T.todo) = Cardinality(S.todo) - 1
    BY <1>2, <1>8
  <2>2. QED
    BY <1>1, <1>2, <1>4, <1>8, <2>1 DEF Remaining
<1>9. QED
  BY <1>5, <1>6, <1>7, <1>8 DEF Forward

LEMMA FreshTodo == ASSUME NEW c PROVE Fresh(c).todo = {}
<1>1. \A orphans, settled, alone :
         [Idle EXCEPT !.command = c, !.orphans = orphans,
                      !.settled = settled, !.alone = alone].todo = {}
  BY DEF Idle
<1>2. QED
  BY <1>1 DEF Fresh

\* A script that begins is in its course.
LEMMA BeginInCourse ==
  ASSUME TypeOK, NEW s \in Scripts, Begin(s)
  PROVE  script[s].step = "idle" /\ InCourse(script'[s]) /\ \E state : Become(s, state)
<1>0. Caddy \notin Agents /\ GeneratedAgents \subseteq Agents
  BY LabelsAssumption DEF GeneratedAgents
<1>1. ASSUME NEW c \in Commands, BeginInstall(s, c)
      PROVE  script[s].step = "idle" /\ InCourse(script'[s]) /\ \E state : Become(s, state)
  <2>0. c \in AllCommands /\ Fresh(c) \in ScriptState /\ Fresh(c).command = c
    BY CommandsAssumption, FreshTypes
  <2>1. CASE Become(s, [Fresh(c) EXCEPT !.step = "failed"])
    <3>1. script'[s].step = "failed" /\ script'[s].todo = Fresh(c).todo
      BY <2>0, <2>1, Becomes DEF ScriptState
    <3>2. Fresh(c).todo = {}
      BY FreshTodo, <2>0
    <3>3. QED
      BY <1>1, <2>1, <3>1, <3>2 DEF InCourse, BeginInstall
  <2>2. CASE Become(s, [Fresh(c) EXCEPT !.step = "copy", !.services = GeneratedAgents,
                                        !.todo = GeneratedAgents])
    <3>1. script'[s].step = "copy" /\ script'[s].todo = GeneratedAgents
      BY <2>0, <2>2, Becomes DEF ScriptState
    <3>2. QED
      BY <1>0, <1>1, <2>2, <3>1 DEF InCourse, BeginInstall
  <2>3. QED
    BY <1>1, <2>1, <2>2 DEF BeginInstall
<1>2. ASSUME NEW c \in Commands, BeginUninstall(s, c) \/ BeginService(s, c)
      PROVE  script[s].step = "idle" /\ InCourse(script'[s]) /\ \E state : Become(s, state)
  <2>0. /\ c \in AllCommands /\ Fresh(c) \in ScriptState /\ Fresh(c).command = c
        /\ c # "load"
    BY <1>2, CommandsAssumption, FreshTypes DEF BeginUninstall, BeginService
  <2>1. PICK step \in {"remove", "next", "failed"} :
           \/ \E todo : Become(s, [Fresh(c) EXCEPT !.step = step, !.todo = todo])
           \/ Become(s, [Fresh(c) EXCEPT !.step = step])
    BY <1>2 DEF BeginUninstall, BeginService
  <2>2. script'[s].step = step /\ script'[s].command = c
    BY <2>0, <2>1, Becomes DEF ScriptState
  <2>3. QED
    BY <1>2, <2>0, <2>1, <2>2 DEF InCourse, BeginUninstall, BeginService
<1>3. QED
  BY <1>1, <1>2 DEF Begin

\* What a step does to each script: it begins, goes forward, ends or keeps all
\* that is measured.
LEMMA StepEach ==
  ASSUME TypeOK, AllInCourse, [Next]_vars, NEW t \in Scripts
  PROVE  /\ InCourse(script'[t])
         /\ \/ script[t].step = "idle"
            \/ Forward(script[t], script'[t])
            \/ /\ script'[t].step = script[t].step /\ script'[t].todo = script[t].todo
               /\ script'[t].label = script[t].label
               /\ script'[t].command = script[t].command
<1> DEFINE Same == /\ script'[t].step = script[t].step /\ script'[t].todo = script[t].todo
                   /\ script'[t].label = script[t].label
                   /\ script'[t].command = script[t].command
           Idled == script'[t] = Idle
           Goal == InCourse(script'[t])
                     /\ (script[t].step = "idle" \/ Forward(script[t], script'[t]) \/ Same)
<1>0. script[t] \in ScriptState /\ InCourse(script[t])
  BY DEF TypeOK, AllInCourse
<1>1. Same => Goal
  BY <1>0 DEF InCourse
<1>2. Idled => Goal
  BY DEF Idle, InCourse, Forward
<1>3. ASSUME NEW s \in Scripts, Begin(s) \/ Run(s) \/ Killed(s)
      PROVE  Goal
  <2>1. CASE s = t /\ Begin(s)
    BY <2>1, BeginInCourse
  <2>2. CASE s = t /\ Run(s)
    BY <1>0, <2>2, RunForward
  <2>3. CASE s = t /\ Killed(s)
    BY <1>2, <2>3, Becomes DEF Killed
  <2>4. CASE s # t
    <3>1. \E state : Become(s, state)
      BY <1>3, BeginInCourse, RunBecomes DEF Killed
    <3>2. QED
      BY <1>1, <2>4, <3>1, OthersRemain
  <2>5. QED
    BY <1>3, <2>1, <2>2, <2>3, <2>4
<1>4. CASE Sync
  <2>1. script'[t] = script[t] \/ script'[t] = [script[t] EXCEPT !.alone = FALSE]
    BY <1>4 DEF Sync
  <2>2. Same
    BY <1>0, <2>1 DEF ScriptState
  <2>3. QED
    BY <1>1, <2>2
<1>5. CASE Reboot
  BY <1>2, <1>5 DEF Reboot
<1>6. CASE JobGone \/ UNCHANGED vars
  BY <1>1, <1>6 DEF JobGone, vars
<1>7. QED
  BY <1>3, <1>4, <1>5, <1>6 DEF Next

\* A command never sets a script back, nobody else's does, and the script's own
\* take it forward.
Advances(s) ==
    script[s].step # "idle" =>
        /\ Remaining(script'[s]) <= Remaining(script[s])
        /\ Run(s) => Remaining(script'[s]) < Remaining(script[s])

LEMMA StepAdvances ==
  ASSUME IsFiniteSet(Agents), TypeOK, TypeOK', AllInCourse, [Next]_vars, NEW s \in Scripts
  PROVE  Advances(s)
<1> DEFINE S == script[s]
           T == script'[s]
<1> SUFFICES ASSUME S.step # "idle"
             PROVE  /\ Remaining(T) <= Remaining(S)
                    /\ Run(s) => Remaining(T) < Remaining(S)
  BY DEF Advances
<1>0. S \in ScriptState /\ T \in ScriptState /\ InCourse(S)
  BY DEF TypeOK, AllInCourse
<1>1. Remaining(S) \in Nat /\ Remaining(T) \in Nat
  <2>1. Round \in Nat
    BY <1>0, Counts
  <2>2. QED
    BY <1>0, <2>1, RemainingBound
<1>2. Forward(S, T) => Remaining(T) < Remaining(S)
  BY <1>0, ForwardDecreases
<1>3. Run(s) => Forward(S, T)
  BY <1>0, RunForward
<1>4. CASE /\ T.step = S.step /\ T.todo = S.todo
           /\ T.label = S.label /\ T.command = S.command
  <2>1. Remaining(T) = Remaining(S)
    BY <1>4 DEF Remaining, Phase, Turn
  <2>2. QED
    BY <1>1, <1>2, <1>3, <2>1
<1>5. \/ Forward(S, T)
      \/ /\ T.step = S.step /\ T.todo = S.todo
         /\ T.label = S.label /\ T.command = S.command
  BY StepEach
<1>6. QED
  BY <1>1, <1>2, <1>3, <1>4, <1>5

\* For any number of scripts, on any agents: the label at hand is in its loop
\* until it is dealt with, and no loop of a load takes up the daemon again.
THEOREM ScriptsKeepCourse == Spec => []AllInCourse
<1>1. Init => AllInCourse
  BY DEF Init, AllInCourse, InCourse, Idle
<1>2. TypeOK /\ AllInCourse /\ [Next]_vars => AllInCourse'
  BY StepEach DEF AllInCourse
<1>3. QED
  BY <1>1, <1>2, ScriptsAreReady, PTL DEF Spec

(* Whatever other scripts, syncs and launchd do meanwhile, no script goes   *)
(* round in circles: each command it runs leaves it with strictly less to   *)
(* do, nobody adds to that, and it is less than a multiple of the number of *)
(* services to begin with.  The scripts loop over directories and wait for  *)
(* labels; a loop that took a label up again would not end.                 *)
THEOREM ScriptsAdvance ==
  ASSUME IsFiniteSet(Agents)
  PROVE  Spec => /\ [](\A s \in Scripts : Remaining(script[s]) \in 0 .. 5 * Round)
                 /\ [][\A s \in Scripts : Advances(s)]_vars
<1>1. TypeOK => \A s \in Scripts : Remaining(script[s]) \in 0 .. 5 * Round
  BY RemainingBound DEF TypeOK
<1>2. TypeOK /\ TypeOK' /\ AllInCourse /\ [Next]_vars
        => [\A s \in Scripts : Advances(s)]_vars
  BY StepAdvances
<1>3. QED
  BY <1>1, <1>2, ScriptsAreReady, ScriptsKeepCourse, PTL DEF Spec
===============================================================================
