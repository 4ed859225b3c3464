----------------------------- MODULE DeployProofs -----------------------------
(***************************************************************************)
(* Deploy for any registries and any number of runs that overlap, fail and *)
(* are killed: its types, and what a deployment and a preview promise.     *)
(***************************************************************************)
EXTENDS Deploy, TLAPS

LEMMA FileTypes ==
  /\ TheCaddyfile \in OwnFiles /\ TheCaddyfile \in Files
  /\ OwnFiles \subseteq Files
  /\ \A r \in Snapshots, f \in OwnFiles : Desired(r)[f] \in Contents
  /\ Missing \in Contents /\ Blank \in Contents /\ Garbled \in Contents
  BY DEF OwnFiles, Files, TheCaddyfile, Contents

LEMMA SelectionTypes ==
  ASSUME NEW r, NEW stage
  PROVE  ToWrite(r, stage) \subseteq OwnFiles /\ Stale(r, stage) \subseteq OwnFiles
  BY DEF ToWrite, Stale, Listed, Files, OwnFiles, ForeignFiles

LEMMA IdleType == Idle \in RunState
  BY FileTypes DEF Idle, RunState, Steps, AllKinds, Snapshots, Stages, Quiets, Contents

LEMMA BecomeType ==
  ASSUME TypeOK, NEW p \in Runs, NEW state \in RunState, Become(p, state)
  PROVE  run' \in [Runs -> RunState]
  BY DEF TypeOK, Become

LEMMA GotoType ==
  ASSUME TypeOK, NEW p \in Runs, NEW s \in Steps, Goto(p, s)
  PROVE  run' \in [Runs -> RunState]
<1>1. [run[p] EXCEPT !.step = s] \in RunState
  BY DEF TypeOK, RunState
<1>2. QED
  BY <1>1, BecomeType DEF Goto

LEMMA TouchType ==
  ASSUME TypeOK, NEW p \in Runs, NEW f, NEW state \in RunState,
         NEW unlink \in BOOLEAN, Touch(p, f, state, unlink)
  PROVE  run' \in [Runs -> RunState]
<1>1. ASSUME NEW q \in Runs
      PROVE  [run[q] EXCEPT !.quiet = Seen(p, q),
                            !.linked = @ /\ ~(unlink /\ run[q].file = f)] \in RunState
  <2>1. run[q] \in RunState
    BY DEF TypeOK
  <2>2. Seen(p, q) \in Quiets
    BY <2>1 DEF Seen, Quiets, RunState
  <2>3. (run[q].linked /\ ~(unlink /\ run[q].file = f)) \in BOOLEAN
    OBVIOUS
  <2>4. QED
    BY <2>1, <2>2, <2>3 DEF RunState
<1>2. QED
  BY <1>1 DEF Touch

LEMMA AbandonType ==
  ASSUME TypeOK, NEW p \in Runs, NEW state \in RunState, Abandon(p, state)
  PROVE  run' \in [Runs -> RunState]
<1>1. ASSUME NEW q \in Runs
      PROVE  run[q] \in RunState /\ [run[q] EXCEPT !.quiet = "disturbed"] \in RunState
  BY DEF TypeOK, RunState, Quiets
<1>2. QED
  BY <1>1 DEF Abandon

LEMMA StepKeepsTypes ==
  ASSUME TypeOK, NEW p \in Runs, Step(p)
  PROVE  TypeOK'
<1>0. run[p] \in RunState
  BY DEF TypeOK
<1>1. ASSUME NEW kind \in Kinds, Begin(p, kind)
      PROVE  TypeOK'
  <2>1. [Idle EXCEPT !.step = IF kind = "reload" THEN "check" ELSE "load",
                     !.kind = kind] \in RunState
    BY IdleType, KindsAssumption DEF RunState, Steps
  <2>2. QED
    BY <1>1, <2>1, BecomeType DEF Begin, TypeOK
<1>2. CASE Load(p)
  <2>1. ASSUME NEW r \in RegistryContents
        PROVE  /\ [[run[p] EXCEPT !.snapshot = r] EXCEPT !.step = "compare"] \in RunState
               /\ [[run[p] EXCEPT !.snapshot = r] EXCEPT
                     !.step = "write", !.todo = ToWrite(r, "Caddyfile")] \in RunState
    BY <1>0, SelectionTypes DEF RunState, Steps, Snapshots
  <2>2. run' \in [Runs -> RunState]
    BY <1>2, <2>1, GotoType, BecomeType DEF Load, Steps
  <2>3. QED
    BY <1>2, <2>2 DEF Load, TypeOK
<1>3. CASE Truncate(p)
  <2>1. PICK f \in run[p].todo :
          /\ disk' = [disk EXCEPT ![f] = Blank]
          /\ Touch(p, f, [run[p] EXCEPT !.step = "fill", !.file = f, !.linked = TRUE], FALSE)
    BY <1>3 DEF Truncate
  <2>2. f \in OwnFiles
    BY <1>0, <2>1 DEF RunState
  <2>3. [run[p] EXCEPT !.step = "fill", !.file = f, !.linked = TRUE] \in RunState
    BY <1>0, <2>2 DEF RunState, Steps
  <2>4. run' \in [Runs -> RunState]
    BY <2>1, <2>3, TouchType
  <2>5. disk' \in [Files -> Contents]
    BY <2>1, FileTypes DEF TypeOK
  <2>6. QED
    BY <1>3, <2>4, <2>5 DEF Truncate, TypeOK
<1>4. CASE Fill(p)
  <2> DEFINE f    == run[p].file
             text == Desired(run[p].snapshot)[f]
  <2>1. text \in Contents /\ disk[f] \in Contents /\ Garbled \in Contents
    BY <1>0, FileTypes DEF RunState, TypeOK, Contents
  <2>2. PICK c \in {text, disk[f], Garbled} : disk' = [disk EXCEPT ![f] = c]
    BY <1>4 DEF Fill
  <2>3. disk' \in [Files -> Contents]
    BY <2>1, <2>2 DEF TypeOK
  <2>4. [run[p] EXCEPT !.step = "write", !.todo = @ \ {f}, !.linked = FALSE] \in RunState
    BY <1>0 DEF RunState, Steps
  <2>5. run' \in [Runs -> RunState]
    BY <1>4, <2>4, TouchType DEF Fill
  <2>6. QED
    BY <1>4, <2>3, <2>5 DEF Fill, TypeOK
<1>5. CASE WriteFails(p)
  <2>1. [run[p] EXCEPT !.step = "failed", !.linked = FALSE] \in RunState
    BY <1>0 DEF RunState, Steps
  <2>2. run' \in [Runs -> RunState]
    BY <1>5, <2>1, AbandonType DEF WriteFails
  <2>3. QED
    BY <1>5, <2>2 DEF WriteFails, TypeOK
<1>6. ASSUME NEW stage \in Stages
      PROVE  StartWriting(p, stage) \in RunState
  BY <1>0, SelectionTypes DEF StartWriting, RunState, Steps
<1>7. StartPruning(p) \in RunState
  BY <1>0, SelectionTypes DEF StartPruning, RunState, Steps
<1>8. CASE StageWritten(p)
  <2>1. run[p].stage \in Stages
    BY <1>0 DEF RunState
  <2>2. \/ Become(p, StartWriting(p, "agents"))
        \/ Become(p, StartPruning(p))
        \/ Goto(p, "check")
    BY <1>8, <2>1 DEF StageWritten, Stages
  <2>3. run' \in [Runs -> RunState]
    BY <1>6, <1>7, <2>2, BecomeType, GotoType DEF Stages, Steps
  <2>4. QED
    BY <1>8, <2>3 DEF StageWritten, TypeOK
<1>9. CASE Remove(p)
  <2>1. PICK f \in run[p].todo :
          /\ disk' = [disk EXCEPT ![f] = Missing]
          /\ Touch(p, f, [run[p] EXCEPT !.todo = @ \ {f}], TRUE)
    BY <1>9 DEF Remove
  <2>2. [run[p] EXCEPT !.todo = @ \ {f}] \in RunState
    BY <1>0 DEF RunState
  <2>3. run' \in [Runs -> RunState]
    BY <2>1, <2>2, TouchType
  <2>4. disk' \in [Files -> Contents]
    BY <2>1, FileTypes DEF TypeOK
  <2>5. QED
    BY <1>9, <2>3, <2>4 DEF Remove, TypeOK
<1>10. CASE StagePruned(p)
  <2>1. run' \in [Runs -> RunState]
    BY <1>6, <1>10, BecomeType DEF StagePruned, Stages
  <2>2. QED
    BY <1>10, <2>1 DEF StagePruned, TypeOK
<1>11. CASE Check(p) \/ Verify(p)
  BY <1>11, GotoType DEF Check, Verify, CaddyValidates, Steps, TypeOK
<1>12. CASE Read(p)
  <2>1. [run[p] EXCEPT !.step = "post", !.config = disk[TheCaddyfile]] \in RunState
    BY <1>0, FileTypes DEF RunState, Steps, TypeOK
  <2>2. run' \in [Runs -> RunState]
    BY <1>12, <2>1, BecomeType, GotoType DEF Read, Steps
  <2>3. QED
    BY <1>12, <2>2 DEF Read, TypeOK
<1>13. CASE Post(p)
  <2>1. ASSUME NEW q \in Runs
        PROVE  /\ run[q] \in RunState
               /\ [run[q] EXCEPT !.quiet = "agreeing"] \in RunState
               /\ \A s \in Steps : [run[q] EXCEPT !.step = s] \in RunState
    BY DEF TypeOK, RunState, Quiets
  <2>2. run' \in [Runs -> RunState]
    <3>1. CASE caddy = Missing
      BY <1>13, <3>1, GotoType DEF Post, Steps
    <3>2. CASE caddy # Missing
      <4>1. [run[p] EXCEPT !.step = IF run[p].kind = "validate" THEN "verify" ELSE "done"]
              \in RunState
        BY <2>1 DEF Steps
      <4>2. QED
        BY <1>13, <2>1, <3>2, <4>1 DEF Post
    <3>3. QED
      BY <3>1, <3>2
  <2>3. caddy' \in Contents
    BY <1>0, <1>13 DEF Post, TypeOK, RunState
  <2>4. QED
    BY <1>13, <2>2, <2>3 DEF Post, TypeOK
<1>14. CASE Compare(p)
  <2>1. PICK verdict \in Verdicts(run[p].snapshot, run[p].stage) :
          Become(p, [run[p] EXCEPT
              !.changed = IF verdict.changes THEN @ \cup {run[p].stage} ELSE @,
              !.unread  = IF verdict.unread THEN @ \cup {run[p].stage} ELSE @,
              !.step    = IF run[p].stage = "catalog" THEN "done" ELSE "compare",
              !.stage   = NextStage(run[p].stage)])
    BY <1>14 DEF Compare
  <2>2. run[p].stage \in Stages
    BY <1>0 DEF RunState
  <2>3. NextStage(run[p].stage) \in Stages
    BY <2>2 DEF NextStage, Stages
  <2>4. [run[p] EXCEPT
              !.changed = IF verdict.changes THEN @ \cup {run[p].stage} ELSE @,
              !.unread  = IF verdict.unread THEN @ \cup {run[p].stage} ELSE @,
              !.step    = IF run[p].stage = "catalog" THEN "done" ELSE "compare",
              !.stage   = NextStage(run[p].stage)] \in RunState
    BY <1>0, <2>2, <2>3 DEF RunState, Steps
  <2>5. run' \in [Runs -> RunState]
    BY <2>1, <2>4, BecomeType
  <2>6. QED
    BY <1>14, <2>5 DEF Compare, TypeOK
<1>15. CASE Respond(p)
  BY <1>15, IdleType, BecomeType DEF Respond, TypeOK
<1>16. CASE Killed(p)
  BY <1>16, IdleType, AbandonType DEF Killed, TypeOK
<1>17. CASE ListingFails(p)
  <2>1. [run[p] EXCEPT !.step = "prune",
                       !.left = @ \cup Stale(run[p].snapshot, run[p].stage)] \in RunState
    BY <1>0, SelectionTypes DEF RunState, Steps
  <2>2. QED
    BY <1>17, <2>1, BecomeType DEF ListingFails, TypeOK
<1>18. CASE RemoveFails(p)
  <2>1. PICK f \in run[p].todo :
          Become(p, [run[p] EXCEPT !.todo = @ \ {f}, !.left = @ \cup {f}])
    BY <1>18 DEF RemoveFails
  <2>2. [run[p] EXCEPT !.todo = @ \ {f}, !.left = @ \cup {f}] \in RunState
    BY <1>0 DEF RunState
  <2>3. QED
    BY <1>18, <2>1, <2>2, BecomeType DEF RemoveFails, TypeOK
<1>19. QED
  BY <1>1, <1>2, <1>3, <1>4, <1>5, <1>8, <1>9, <1>10, <1>11, <1>12, <1>13, <1>14,
     <1>15, <1>16, <1>17, <1>18 DEF Step

(* Every file is missing, truncated, garbled or one the generators make,   *)
(* and every run is in a state of its program, whatever the runs do to     *)
(* each other.                                                             *)
THEOREM DeployTypes == Spec => []TypeOK
<1>1. Init => TypeOK
  <2> SUFFICES ASSUME Init PROVE TypeOK
    OBVIOUS
  <2>1. PICK deployed \in {[f \in OwnFiles |-> Missing]}
                            \cup {Desired(r) : r \in {x \in RegistryContents : Validate(x)}},
             foreign \in {Missing, Foreign} :
          disk = [f \in Files |-> IF f \in OwnFiles THEN deployed[f] ELSE foreign]
    BY DEF Init
  <2>2. \A f \in OwnFiles : deployed[f] \in Contents
    BY FileTypes DEF Contents, Snapshots
  <2>3. disk \in [Files -> Contents]
    BY <2>1, <2>2 DEF Contents
  <2>4. QED
    BY <2>3, IdleType, FileTypes DEF Init, TypeOK
<1>2. TypeOK /\ [Next]_vars => TypeOK'
  <2> SUFFICES ASSUME TypeOK, [Next]_vars
               PROVE  TypeOK'
    OBVIOUS
  <2>1. CASE CaddyRestarts
    BY <2>1, FileTypes DEF CaddyRestarts, TypeOK, Contents
  <2>2. ASSUME NEW p \in Runs, Step(p)
        PROVE  TypeOK'
    BY <2>2, StepKeepsTypes
  <2>3. CASE UNCHANGED vars
    BY <2>3 DEF vars, TypeOK
  <2>4. QED
    BY <2>1, <2>2, <2>3 DEF Next
<1>3. QED
  BY <1>1, <1>2, PTL DEF Spec
-----------------------------------------------------------------------------
(* What a run may rely on while no other registry's run touches its files *)

\* The stages a run has behind it when it is at one.
Earlier(stage) ==
    CASE stage = "Caddyfile" -> {}
      [] stage = "agents"    -> {"Caddyfile"}
      [] stage = "daemons"   -> {"Caddyfile", "agents"}
      [] stage = "catalog"   -> {"Caddyfile", "agents", "daemons"}

\* The steps of a deployment that has written and pruned everything.
Finished == {"check", "read", "post", "verify", "done"}

\* Run p has dealt with file f: it wrote it, removed it, or found it absent.
Settled(p, f) ==
    LET R == run[p]
    IN  /\ f \notin R.left
        /\ \/ /\ R.step \in {"write", "fill"}
              /\ \/ f[1] \in Earlier(R.stage)
                 \/ f[1] = R.stage /\ Desired(R.snapshot)[f] # Missing /\ f \notin R.todo
           \/ /\ R.step = "prune"
              /\ f[1] \in Earlier(R.stage) \/ (f[1] = R.stage /\ f \notin R.todo)
           \/ R.step \in Finished

\* Run q is about to fill file f, which it truncated, for registry r.
Filling(q, f, r) ==
    run[q].step = "fill" /\ run[q].file = f /\ run[q].snapshot = r /\ run[q].linked = TRUE

\* File f is as registry r wants it, or a run of r has just truncated it.
Intact(f, r) ==
    \/ disk[f] = Desired(r)[f]
    \/ disk[f] = Blank /\ \E q \in Runs : Filling(q, f, r)

\* What the program of a run guarantees, whatever others do.
Shape(p) ==
    LET R == run[p]
    IN  /\ R.step = "load" => /\ R.stage = "Caddyfile" /\ R.quiet = "alone"
                              /\ R.changed = {} /\ R.left = {}
        /\ R.step \in {"write", "fill"}
              => \A f \in R.todo : f[1] = R.stage /\ Desired(R.snapshot)[f] # Missing
        /\ R.step = "fill" => R.file \in R.todo
        /\ R.step = "prune" => R.stage \in {"agents", "daemons"}
                               /\ \A f \in R.todo : Desired(R.snapshot)[f] = Missing
        /\ R.step = "compare" => R.kind = "preview"
        /\ R.kind = "preview" => R.step \in {"load", "compare", "done", "failed"}
        /\ R.kind \in Deploying /\ R.step \notin {"idle", "load", "failed"}
              => /\ R.snapshot \in RegistryContents
                 /\ \A f \in R.left : Desired(R.snapshot)[f] = Missing

\* A deployment whose files no other registry's run has touched since it loaded.
Undisturbed(p) ==
    run[p].kind \in Deploying /\ Working(p) /\ run[p].quiet # "disturbed"

\* What it has settled is intact, and the file it truncated is its to fill.
Converging(p) ==
    Undisturbed(p) =>
        /\ \A f \in OwnFiles : Settled(p, f) => Intact(f, run[p].snapshot)
        /\ run[p].step = "fill" =>
              /\ run[p].linked = TRUE
              /\ disk[run[p].file] \in {Blank, Desired(run[p].snapshot)[run[p].file]}

\* A deployment that nothing at all touched: what it has settled is final, and
\* so is what it told Caddy.
Serving(p) ==
    run[p].kind \in Deploying /\ Working(p) /\ run[p].quiet = "alone" =>
        /\ \A f \in OwnFiles : Settled(p, f) => disk[f] = Desired(run[p].snapshot)[f]
        /\ run[p].step = "post" => run[p].config = GenerateCaddyfile(run[p].snapshot)
        /\ run[p].step \in {"verify", "done"} => caddy = GenerateCaddyfile(run[p].snapshot)

\* What a preview that nothing touched has compared, it has compared with the
\* files as they still are.
Judged(p, stage) ==
    LET R == run[p]
    IN  /\ \/ stage \in R.unread
           \/ stage = "Caddyfile" /\ disk[TheCaddyfile] = Garbled
           \/ stage \in R.changed <=> Outdated(R.snapshot, stage)
        /\ stage \in {"agents", "daemons"} /\ stage \notin R.changed
              => \A f \in ToWrite(R.snapshot, stage) : disk[f] = Desired(R.snapshot)[f]

Comparing(p) ==
    LET R == run[p]
    IN  R.kind = "preview" /\ R.quiet = "alone" =>
          /\ R.step = "compare" => /\ R.changed \subseteq Earlier(R.stage)
                                   /\ \A stage \in Earlier(R.stage) : Judged(p, stage)
          /\ R.step = "done" => \A stage \in Stages : Judged(p, stage)

DeployInv ==
    \A p \in Runs : Shape(p) /\ Converging(p) /\ Serving(p) /\ Comparing(p)

-----------------------------------------------------------------------------
(* Files, artifacts and stages *)

LEMMA OwnFileFacts ==
  ASSUME NEW f \in OwnFiles
  PROVE  /\ f \in Files /\ f[1] \in Stages /\ f[2] = "own"
         /\ f[1] = "Caddyfile" => f = TheCaddyfile
         /\ f[1] = "catalog" => f = TheCatalog
BY DEF OwnFiles, Files, Stages, TheCaddyfile, TheCatalog

LEMMA SingleFiles ==
  /\ TheCaddyfile \in OwnFiles /\ TheCaddyfile[1] = "Caddyfile"
  /\ TheCatalog \in OwnFiles /\ TheCatalog[1] = "catalog"
BY DEF OwnFiles, TheCaddyfile, TheCatalog

\* The Caddyfile and the catalog are written for every registry.
LEMMA AlwaysWritten ==
  ASSUME NEW r \in RegistryContents
  PROVE  /\ Desired(r)[TheCaddyfile] = GenerateCaddyfile(r)
         /\ \A f \in OwnFiles : f[1] \in {"Caddyfile", "catalog"} => Desired(r)[f] # Missing
<1>1. /\ Desired(r)[TheCaddyfile] = GenerateCaddyfile(r)
      /\ Desired(r)[TheCatalog] = buildCatalog(r)
  BY SingleFiles DEF Desired
<1>2. QED
  BY <1>1, OwnFileFacts, ArtifactsAssumption

LEMMA ListedFacts ==
  ASSUME NEW r, NEW dir
  PROVE  /\ ToWrite(r, dir) = {f \in OwnFiles : f[1] = dir /\ Desired(r)[f] # Missing}
         /\ Stale(r, dir) = {f \in OwnFiles : f[1] = dir /\ disk[f] # Missing
                                             /\ Desired(r)[f] = Missing}
<1>1. \A f \in Files : f[2] = "own" <=> f \in OwnFiles
  BY DEF Files, OwnFiles, ForeignFiles
<1>2. QED
  BY <1>1, OwnFileFacts DEF ToWrite, Stale, Listed

\* A comparison of plists finds every one that is not as it should be.
LEMMA PlistsCompared ==
  ASSUME NEW r, NEW dir
  PROVE  (\E f \in ToWrite(r, dir) \cup Listed(dir) : disk[f] # Desired(r)[f])
            <=> \E f \in OwnFiles : f[1] = dir /\ disk[f] # Desired(r)[f]
<1>1. \A f \in Files : f[2] = "own" <=> f \in OwnFiles
  BY DEF Files, OwnFiles, ForeignFiles
<1>2. QED
  BY <1>1, OwnFileFacts DEF ToWrite, Listed

LEMMA JudgedKept ==
  ASSUME NEW p \in Runs, NEW stage, disk' = disk,
         run'[p].snapshot = run[p].snapshot, run'[p].changed = run[p].changed,
         run'[p].unread = run[p].unread
  PROVE  Judged(p, stage)' <=> Judged(p, stage)
BY DEF Judged, Outdated, CatalogDiffers, ToWrite

-----------------------------------------------------------------------------
(* The other runs *)

\* What a step of one run leaves of another.
Kept(p) ==
    /\ run'[p].step = run[p].step /\ run'[p].kind = run[p].kind
    /\ run'[p].snapshot = run[p].snapshot /\ run'[p].stage = run[p].stage
    /\ run'[p].todo = run[p].todo /\ run'[p].file = run[p].file
    /\ run'[p].config = run[p].config /\ run'[p].changed = run[p].changed
    /\ run'[p].left = run[p].left /\ run'[p].unread = run[p].unread

OwnInv(p) == Shape(p) /\ Converging(p) /\ Serving(p) /\ Comparing(p)

\* Another run p goes on relying on what it relied on, if a step that leaves
\* it undisturbed harms nothing it has settled, and one that leaves it alone
\* changes nothing.
LEMMA OthersKeep ==
  ASSUME NEW p \in Runs, OwnInv(p), Kept(p),
         Working(p) \/ run'[p].quiet = run[p].quiet,
         Working(p) /\ run'[p].quiet = "alone"
            => run[p].quiet = "alone" /\ disk' = disk /\ caddy' = caddy,
         Working(p) /\ run'[p].quiet # "disturbed"
            => /\ run[p].quiet # "disturbed"
               /\ run[p].step = "fill" => run'[p].linked = run[p].linked
               /\ \A f \in OwnFiles : Settled(p, f) /\ Intact(f, run[p].snapshot)
                                         => Intact(f, run[p].snapshot)'
               /\ run[p].step = "fill" =>
                     \/ disk[run[p].file] \notin {Blank, Desired(run[p].snapshot)[run[p].file]}
                     \/ disk'[run[p].file] \in {Blank, Desired(run[p].snapshot)[run[p].file]}
  PROVE  OwnInv(p)'
<1>1. Shape(p)'
  BY DEF OwnInv, Shape, Kept, Working
<1>2. Converging(p)'
  <2> SUFFICES ASSUME Undisturbed(p)' PROVE Converging(p)'
    BY DEF Converging
  <2>1. Undisturbed(p) /\ Working(p) /\ run'[p].quiet # "disturbed"
    BY DEF Undisturbed, Working, Kept
  <2>2. ASSUME NEW f \in OwnFiles, Settled(p, f)'
        PROVE  Intact(f, run[p].snapshot)'
    <3>1. Settled(p, f)
      BY <2>2 DEF Settled, Kept
    <3>2. Intact(f, run[p].snapshot)
      BY <2>1, <3>1 DEF OwnInv, Converging
    <3>3. QED
      BY <2>1, <3>1, <3>2
  <2>3. run'[p].step = "fill" =>
              /\ run'[p].linked = TRUE
              /\ disk'[run'[p].file] \in {Blank, Desired(run'[p].snapshot)[run'[p].file]}
    BY <2>1 DEF OwnInv, Converging, Kept
  <2>4. QED
    BY <2>2, <2>3 DEF Converging
<1>3. Serving(p)'
  <2> SUFFICES ASSUME (run[p].kind \in Deploying /\ Working(p) /\ run[p].quiet = "alone")'
               PROVE  Serving(p)'
    BY DEF Serving
  <2>1. /\ run[p].kind \in Deploying /\ Working(p) /\ run[p].quiet = "alone"
        /\ disk' = disk /\ caddy' = caddy
    BY DEF Working, Kept
  <2>2. \A f \in OwnFiles : Settled(p, f)' => Settled(p, f)
    BY DEF Settled, Kept
  <2>3. QED
    BY <2>1, <2>2 DEF OwnInv, Serving, Kept
<1>4. Comparing(p)'
  <2>1. disk' = disk => \A stage : Judged(p, stage)' <=> Judged(p, stage)
    BY JudgedKept DEF Kept
  <2>2. (run[p].kind = "preview" /\ run[p].quiet = "alone" /\ run[p].step \in {"compare", "done"})'
           => /\ run[p].kind = "preview" /\ run[p].quiet = "alone"
              /\ disk' = disk
    BY DEF Kept, Working
  <2>3. QED
    BY <2>1, <2>2 DEF OwnInv, Comparing, Kept
<1>5. QED
  BY <1>1, <1>2, <1>3, <1>4 DEF OwnInv

LEMMA IntactKept ==
  ASSUME NEW f, NEW r, disk' = disk,
         \A x \in Runs : Filling(x, f, r) => Filling(x, f, r)',
         Intact(f, r)
  PROVE  Intact(f, r)'
BY DEF Intact

\* A step of run q that touches no file.
LEMMA BecomeOthers ==
  ASSUME TypeOK, NEW q \in Runs, NEW p \in Runs \ {q}, OwnInv(p),
         NEW state, Become(q, state), run[q].step # "fill",
         disk' = disk, caddy' = caddy
  PROVE  OwnInv(p)'
<1>1. \A x \in Runs \ {q} : run'[x] = run[x]
  BY DEF Become, TypeOK
<1>2. \A f, r : \A x \in Runs : Filling(x, f, r) => Filling(x, f, r)'
  BY <1>1 DEF Filling
<1>3. \A f : Intact(f, run[p].snapshot) => Intact(f, run[p].snapshot)'
  BY <1>1, <1>2, IntactKept
<1>4. QED
  BY <1>1, <1>3, OthersKeep DEF Kept

\* What a touch leaves of another run.
LEMMA TouchFacts ==
  ASSUME TypeOK, NEW q \in Runs, NEW p \in Runs \ {q}, NEW f, NEW state,
         NEW unlink \in BOOLEAN, Touch(q, f, state, unlink)
  PROVE  /\ Kept(p)
         /\ run'[p].linked = (run[p].linked /\ ~(unlink /\ run[p].file = f))
         /\ ~Working(p) => run'[p].quiet = run[p].quiet
         /\ Working(p) => run'[p].quiet # "alone"
         /\ Working(p) /\ run'[p].quiet # "disturbed"
               => run[p].quiet # "disturbed" /\ run[p].snapshot = run[q].snapshot
<1>1. run'[p] = [run[p] EXCEPT !.quiet = Seen(q, p),
                               !.linked = @ /\ ~(unlink /\ run[p].file = f)]
  BY DEF Touch
<1>2. run[p] \in RunState
  BY DEF TypeOK
<1>3. /\ Kept(p) /\ run'[p].quiet = Seen(q, p)
      /\ run'[p].linked = (run[p].linked /\ ~(unlink /\ run[p].file = f))
  BY <1>1, <1>2 DEF Kept, RunState
<1>4. QED
  BY <1>3 DEF Seen

LEMMA AbandonOthers ==
  ASSUME TypeOK, NEW q \in Runs, NEW p \in Runs \ {q}, OwnInv(p),
         NEW state, Abandon(q, state), disk' = disk, caddy' = caddy
  PROVE  OwnInv(p)'
<1>1. CASE run[q].step = "fill" /\ Working(p)
  <2>1. run'[p] = [run[p] EXCEPT !.quiet = "disturbed"] /\ run[p] \in RunState
    BY <1>1 DEF Abandon, TypeOK
  <2>2. Kept(p) /\ run'[p].quiet = "disturbed"
    BY <2>1 DEF Kept, RunState
  <2>3. QED
    BY <1>1, <2>2, OthersKeep
<1>2. CASE ~(run[q].step = "fill" /\ Working(p))
  <2>1. run'[p] = run[p]
    BY <1>2 DEF Abandon, TypeOK
  <2>2. ASSUME Working(p), NEW f, NEW r, NEW x \in Runs, Filling(x, f, r)
        PROVE  Filling(x, f, r)'
    <3>1. x # q /\ run'[x] = run[x]
      BY <1>2, <2>2 DEF Abandon, TypeOK, Filling
    <3>2. QED
      BY <2>2, <3>1 DEF Filling
  <2>3. Working(p) => \A f : Intact(f, run[p].snapshot) => Intact(f, run[p].snapshot)'
    BY <2>1, <2>2, IntactKept
  <2>4. QED
    BY <2>1, <2>3, OthersKeep DEF Kept
<1>3. QED
  BY <1>1, <1>2

LEMMA PostOthers ==
  ASSUME TypeOK, NEW q \in Runs, NEW p \in Runs \ {q}, OwnInv(p), Post(q)
  PROVE  OwnInv(p)'
<1>1. CASE caddy = Missing
  <2>1. Goto(q, "failed") /\ disk' = disk /\ caddy' = caddy /\ run[q].step = "post"
    BY <1>1 DEF Post
  <2>2. QED
    BY <2>1, BecomeOthers DEF Goto
<1>2. CASE caddy # Missing
  <2>1. /\ disk' = disk /\ run[q].step = "post"
        /\ \A x \in Runs \ {q} :
              run'[x] = IF Working(x) /\ run[x].quiet = "alone"
                        THEN [run[x] EXCEPT !.quiet = "agreeing"] ELSE run[x]
    BY <1>2 DEF Post
  <2>2. ASSUME NEW x \in Runs \ {q}
        PROVE  /\ Kept(x) /\ run'[x].linked = run[x].linked
               /\ Working(x) => run'[x].quiet # "alone"
               /\ run'[x].quiet = "disturbed" <=> run[x].quiet = "disturbed"
               /\ Working(x) \/ run'[x].quiet = run[x].quiet
    <3>1. run[x] \in RunState
      BY DEF TypeOK
    <3>2. CASE Working(x) /\ run[x].quiet = "alone"
      BY <2>1, <3>1, <3>2 DEF Kept, RunState
    <3>3. CASE ~(Working(x) /\ run[x].quiet = "alone")
      BY <2>1, <3>3 DEF Kept
    <3>4. QED
      BY <3>2, <3>3
  <2>3. \A f, r : \A x \in Runs : Filling(x, f, r) => Filling(x, f, r)'
    BY <2>1, <2>2 DEF Filling, Kept
  <2>4. \A f : Intact(f, run[p].snapshot) => Intact(f, run[p].snapshot)'
    BY <2>1, <2>2, <2>3, IntactKept DEF Kept
  <2>5. QED
    BY <2>1, <2>2, <2>4, OthersKeep
<1>3. QED
  BY <1>1, <1>2

\* The file is intact for every run of the same registry: the writer fills it.
LEMMA TruncateOthers ==
  ASSUME TypeOK, NEW q \in Runs, NEW p \in Runs \ {q}, OwnInv(p), Truncate(q)
  PROVE  OwnInv(p)'
<1>1. PICK f \in run[q].todo :
        /\ disk' = [disk EXCEPT ![f] = Blank]
        /\ Touch(q, f, [run[q] EXCEPT !.step = "fill", !.file = f, !.linked = TRUE], FALSE)
  BY DEF Truncate
<1>2. run[q] \in RunState /\ f \in OwnFiles /\ f \in Files /\ run[q].step = "write"
  BY <1>1, OwnFileFacts DEF TypeOK, RunState, Truncate
<1>3. Filling(q, f, run[q].snapshot)'
  <2>1. run'[q] = [run[q] EXCEPT !.step = "fill", !.file = f, !.linked = TRUE]
    BY <1>1 DEF Touch
  <2>2. QED
    BY <1>2, <2>1 DEF Filling, RunState
<1>4. \A x \in Runs \ {q} : Kept(x) /\ run'[x].linked = (run[x].linked /\ TRUE)
  BY <1>1, TouchFacts
<1>5. \A x \in Runs \ {q} : run'[x].linked = run[x].linked
  BY <1>4 DEF TypeOK, RunState
<1>6. \A g, r : \A x \in Runs : Filling(x, g, r) => Filling(x, g, r)' \/ x = q
  BY <1>4, <1>5 DEF Filling, Kept
<1>7. \A g, r : \A x \in Runs : Filling(x, g, r) => Filling(x, g, r)'
  BY <1>2, <1>6 DEF Filling
<1>8. ASSUME NEW g \in OwnFiles, NEW r, r = run[q].snapshot, Intact(g, r)
      PROVE  Intact(g, r)'
  <2>1. CASE g = f
    <3>1. disk'[f] = Blank
      BY <1>1, <1>2 DEF TypeOK
    <3>2. Filling(q, g, r)'
      <4>1. run'[q].snapshot = run[q].snapshot
        BY <1>1, <1>2 DEF Touch, RunState
      <4>2. QED
        BY <1>3, <1>8, <2>1, <4>1 DEF Filling
    <3>3. QED
      BY <2>1, <3>1, <3>2 DEF Intact
  <2>2. CASE g # f
    BY <1>1, <1>7, <1>8, <2>2, OwnFileFacts DEF Intact, TypeOK
  <2>3. QED
    BY <2>1, <2>2
<1>9. ASSUME Working(p), run'[p].quiet # "disturbed"
      PROVE  \A g \in OwnFiles : Intact(g, run[p].snapshot) => Intact(g, run[p].snapshot)'
  <2>1. run[p].snapshot = run[q].snapshot /\ run'[p].snapshot = run[p].snapshot
    BY <1>1, <1>9, TouchFacts DEF Kept
  <2>2. QED
    BY <1>8, <2>1
<1>10. run[p].step = "fill" =>
          \/ disk'[run[p].file] = disk[run[p].file]
          \/ disk'[run[p].file] = Blank
  BY <1>1, OwnFileFacts DEF TypeOK, RunState
<1>11. QED
  BY <1>1, <1>5, <1>9, <1>10, TouchFacts, OthersKeep

LEMMA FillOthers ==
  ASSUME TypeOK, NEW q \in Runs, NEW p \in Runs \ {q}, OwnInv(p), Fill(q)
  PROVE  OwnInv(p)'
<1> DEFINE f    == run[q].file
           text == Desired(run[q].snapshot)[f]
           state == [run[q] EXCEPT !.step = "write", !.todo = @ \ {f}, !.linked = FALSE]
<1>1. /\ Touch(q, f, state, FALSE)
      /\ run[q] \in RunState /\ f \in OwnFiles /\ f \in Files /\ run[q].step = "fill"
  BY OwnFileFacts DEF TypeOK, RunState, Fill
<1>2. PICK c : /\ disk' = [disk EXCEPT ![f] = c]
               /\ run[q].linked = FALSE => c = disk[f]
               /\ disk[f] \in {Blank, text} => c \in {disk[f], text}
               /\ run[q].linked = TRUE /\ disk[f] \in {Blank, text} => c = text
  BY DEF Fill, TypeOK
<1>3. /\ disk'[f] = c
      /\ \A g \in OwnFiles : g # f => disk'[g] = disk[g]
  BY <1>1, <1>2, OwnFileFacts DEF TypeOK
<1> HIDE DEF state
<1>4. \A x \in Runs \ {q} : Kept(x) /\ run'[x].linked = (run[x].linked /\ TRUE)
  BY <1>1, TouchFacts
<1>5. \A x \in Runs \ {q} : run'[x].linked = run[x].linked
  BY <1>4 DEF TypeOK, RunState
<1>6. \A g, r : \A x \in Runs \ {q} : Filling(x, g, r) => Filling(x, g, r)'
  BY <1>4, <1>5 DEF Filling, Kept
<1>7. ASSUME NEW g \in OwnFiles, NEW r, r = run[q].snapshot, Intact(g, r)
      PROVE  Intact(g, r)'
  <2>1. CASE g # f
    BY <1>3, <1>6, <1>7, <2>1 DEF Intact, Filling
  <2>2. CASE g = f /\ disk[f] = Desired(r)[f]
    BY <1>2, <1>3, <1>7, <2>2 DEF Intact
  <2>3. CASE g = f /\ disk[f] = Blank /\ run[q].linked = TRUE
    BY <1>2, <1>3, <1>7, <2>3 DEF Intact
  <2>4. CASE g = f /\ disk[f] = Blank /\ run[q].linked # TRUE
    <3>1. disk'[f] = disk[f]
      BY <1>1, <1>2, <1>3, <2>4 DEF RunState
    <3>2. CASE \E x \in Runs : Filling(x, g, r)
      <4>1. PICK x \in Runs : Filling(x, g, r)
        BY <3>2
      <4>2. x # q
        BY <2>4, <4>1 DEF Filling
      <4>3. Filling(x, g, r)'
        BY <1>6, <4>1, <4>2
      <4>4. QED
        BY <2>4, <3>1, <4>3 DEF Intact
    <3>3. CASE disk[g] = Desired(r)[g]
      BY <2>4, <3>1, <3>3 DEF Intact
    <3>4. QED
      BY <1>7, <3>2, <3>3 DEF Intact
  <2>5. QED
    BY <1>7, <2>1, <2>2, <2>3, <2>4 DEF Intact
<1>8. ASSUME Working(p), run'[p].quiet # "disturbed"
      PROVE  /\ \A g \in OwnFiles : Intact(g, run[p].snapshot) => Intact(g, run[p].snapshot)'
             /\ \/ disk[run[p].file] \notin {Blank, Desired(run[p].snapshot)[run[p].file]}
                \/ disk'[run[p].file] \in {Blank, Desired(run[p].snapshot)[run[p].file]}
  <2>1. run[p].snapshot = run[q].snapshot /\ run'[p].snapshot = run[p].snapshot
    BY <1>1, <1>8, TouchFacts DEF Kept
  <2>2. run[p].file \in OwnFiles
    BY DEF TypeOK, RunState
  <2>3. QED
    BY <1>2, <1>3, <1>7, <2>1, <2>2
<1>9. QED
  BY <1>1, <1>5, <1>8, TouchFacts, OthersKeep

\* The removed file is one that no run of the same registry writes.
LEMMA RemoveOthers ==
  ASSUME TypeOK, NEW q \in Runs, NEW p \in Runs \ {q}, OwnInv(p), OwnInv(q), Remove(q)
  PROVE  OwnInv(p)'
<1>1. PICK f \in run[q].todo :
        /\ disk' = [disk EXCEPT ![f] = Missing]
        /\ Touch(q, f, [run[q] EXCEPT !.todo = @ \ {f}], TRUE)
  BY DEF Remove
<1>2. /\ run[q] \in RunState /\ f \in OwnFiles /\ f \in Files /\ run[q].step = "prune"
      /\ Desired(run[q].snapshot)[f] = Missing
  BY <1>1, OwnFileFacts DEF TypeOK, RunState, Remove, OwnInv, Shape
<1>3. /\ disk'[f] = Missing
      /\ \A g \in OwnFiles : g # f => disk'[g] = disk[g]
  BY <1>1, <1>2, OwnFileFacts DEF TypeOK
<1>4. ASSUME NEW x \in Runs \ {q}
      PROVE  Kept(x) /\ run'[x].linked = (run[x].linked /\ run[x].file # f)
  <2>1. Kept(x) /\ run'[x].linked = (run[x].linked /\ ~(TRUE /\ run[x].file = f))
    BY <1>1, TouchFacts
  <2>2. QED
    BY <2>1
<1>5. \A x \in Runs : run[x].linked \in BOOLEAN
  BY DEF TypeOK, RunState
<1>6. \A g, r : \A x \in Runs : Filling(x, g, r) /\ g # f => Filling(x, g, r)'
  BY <1>2, <1>4, <1>5 DEF Filling, Kept
<1>7. ASSUME NEW g \in OwnFiles, NEW r, r = run[q].snapshot, Intact(g, r)
      PROVE  Intact(g, r)'
  BY <1>2, <1>3, <1>6, <1>7 DEF Intact
<1>8. ASSUME Working(p), run'[p].quiet # "disturbed"
      PROVE  /\ \A g \in OwnFiles : Intact(g, run[p].snapshot) => Intact(g, run[p].snapshot)'
             /\ run[p].step = "fill" =>
                   disk'[run[p].file] = disk[run[p].file] /\ run'[p].linked = run[p].linked
  <2>1. run[p].snapshot = run[q].snapshot /\ run'[p].snapshot = run[p].snapshot
    BY <1>1, <1>8, TouchFacts DEF Kept
  <2>2. run[p].step = "fill" => run[p].file \in OwnFiles /\ run[p].file # f
    BY <1>2, <2>1 DEF TypeOK, RunState, OwnInv, Shape
  <2>3. QED
    BY <1>3, <1>4, <1>5, <1>7, <2>1, <2>2
<1>9. QED
  BY <1>1, <1>8, TouchFacts, OthersKeep

-----------------------------------------------------------------------------
(* The run that takes the step *)

LEMMA EarlierFacts ==
  /\ Earlier("Caddyfile") = {} /\ Earlier("agents") = {"Caddyfile"}
  /\ Earlier("daemons") = {"Caddyfile", "agents"}
  /\ Earlier("catalog") = {"Caddyfile", "agents", "daemons"}
  /\ \A stage \in Stages : stage \notin Earlier(stage)
BY DEF Earlier, Stages

\* A run that is idle, loads or failed relies on nothing.
LEMMA Resting ==
  ASSUME NEW q \in Runs,
         \/ run'[q] = Idle
         \/ run'[q].step = "failed"
         \/ run'[q].step = "check" /\ run'[q].kind = "reload"
         \/ /\ run'[q].step = "load" /\ run'[q].stage = "Caddyfile"
            /\ run'[q].quiet = "alone" /\ run'[q].changed = {} /\ run'[q].left = {}
  PROVE  OwnInv(q)'
<1>1. \/ run'[q].step = "idle" /\ run'[q].kind = "sync"
      \/ run'[q].step = "failed"
      \/ run'[q].step = "check" /\ run'[q].kind = "reload"
      \/ /\ run'[q].step = "load" /\ run'[q].stage = "Caddyfile"
         /\ run'[q].quiet = "alone" /\ run'[q].changed = {} /\ run'[q].left = {}
  BY DEF Idle
<1>2. Shape(q)' /\ Comparing(q)'
  BY <1>1 DEF Shape, Comparing, Deploying
<1>3. (run[q].kind \in Deploying /\ Working(q))'
         => run'[q].step = "failed" /\ \A f : ~Settled(q, f)'
  BY <1>1 DEF Deploying, Working, Settled, Finished
<1>4. QED
  BY <1>2, <1>3 DEF OwnInv, Converging, Undisturbed, Serving

\* A deployment that goes on with its program, touching no file: what it has
\* settled now it had settled before, or finds as it should be.
LEMMA GoesOn ==
  ASSUME TypeOK, NEW q \in Runs, OwnInv(q), Shape(q)', disk' = disk,
         run'[q].kind = run[q].kind, run'[q].snapshot = run[q].snapshot,
         run'[q].quiet = run[q].quiet, run'[q].kind # "preview",
         run[q].step \notin {"idle", "load", "fill"}, run'[q].step # "fill",
         \A x \in Runs \ {q} : \A f, r : Filling(x, f, r) => Filling(x, f, r)',
         run[q].kind \in Deploying =>
            \A f \in OwnFiles : Settled(q, f)'
                => Settled(q, f) \/ disk[f] = Desired(run[q].snapshot)[f],
         run[q].kind \in Deploying /\ run[q].quiet = "alone" =>
            /\ run'[q].step = "post" => run'[q].config = GenerateCaddyfile(run[q].snapshot)
            /\ run'[q].step \in {"verify", "done"}
                  => caddy' = GenerateCaddyfile(run[q].snapshot)
  PROVE  OwnInv(q)'
<1>1. Working(q)
  BY DEF Working
<1>2. \A f, r : Intact(f, r) => Intact(f, r)'
  BY DEF Intact, Filling
<1>3. Converging(q)'
  BY <1>1, <1>2 DEF OwnInv, Converging, Undisturbed, Intact
<1>4. Serving(q)'
  BY <1>1 DEF OwnInv, Serving
<1>5. Comparing(q)'
  BY DEF Comparing
<1>6. QED
  BY <1>3, <1>4, <1>5 DEF OwnInv

LEMMA BecomeFacts ==
  ASSUME TypeOK, NEW q \in Runs, NEW state, Become(q, state)
  PROVE  /\ run'[q] = state
         /\ \A x \in Runs \ {q} : \A f, r : Filling(x, f, r) => Filling(x, f, r)'
BY DEF TypeOK, Become, Filling

LEMMA GotoFacts ==
  ASSUME TypeOK, NEW q \in Runs, NEW s, Goto(q, s)
  PROVE  /\ run'[q].step = s
         /\ run'[q].kind = run[q].kind /\ run'[q].snapshot = run[q].snapshot
         /\ run'[q].stage = run[q].stage /\ run'[q].todo = run[q].todo
         /\ run'[q].quiet = run[q].quiet /\ run'[q].config = run[q].config
         /\ run'[q].left = run[q].left
         /\ \A x \in Runs \ {q} : \A f, r : Filling(x, f, r) => Filling(x, f, r)'
BY BecomeFacts DEF TypeOK, RunState, Goto

LEMMA StartFacts ==
  ASSUME TypeOK, NEW q \in Runs, NEW stage
  PROVE  /\ LET W == StartWriting(q, stage)
            IN  /\ W.step = "write" /\ W.stage = stage
                /\ W.todo = ToWrite(run[q].snapshot, stage)
                /\ W.kind = run[q].kind /\ W.snapshot = run[q].snapshot
                /\ W.quiet = run[q].quiet /\ W.left = run[q].left
         /\ LET P == StartPruning(q)
            IN  /\ P.step = "prune" /\ P.stage = run[q].stage
                /\ P.todo = Stale(run[q].snapshot, run[q].stage)
                /\ P.kind = run[q].kind /\ P.snapshot = run[q].snapshot
                /\ P.quiet = run[q].quiet /\ P.left = run[q].left
BY DEF TypeOK, RunState, StartWriting, StartPruning

LEMMA BeginSelf ==
  ASSUME TypeOK, NEW q \in Runs, NEW kind \in Kinds, Begin(q, kind)
  PROVE  OwnInv(q)'
<1>1. run'[q] = [Idle EXCEPT !.step = IF kind = "reload" THEN "check" ELSE "load",
                             !.kind = kind]
  BY BecomeFacts DEF Begin
<1>2. QED
  BY <1>1, Resting DEF Idle

LEMMA LoadSelf ==
  ASSUME TypeOK, NEW q \in Runs, OwnInv(q), Load(q)
  PROVE  OwnInv(q)'
<1>1. CASE Goto(q, "failed")
  BY <1>1, GotoFacts, Resting
<1>2. CASE ~Goto(q, "failed")
  <2> DEFINE loaded(r) == [run[q] EXCEPT !.snapshot = r]
  <2>1. PICK r \in RegistryContents :
           Become(q, IF run[q].kind = "preview"
                     THEN [loaded(r) EXCEPT !.step = "compare"]
                     ELSE [loaded(r) EXCEPT !.step = "write",
                                            !.todo = ToWrite(r, "Caddyfile")])
    BY <1>2 DEF Load
  <2>2. /\ run[q].step = "load" /\ run[q].stage = "Caddyfile" /\ run[q].quiet = "alone"
        /\ run[q].changed = {} /\ run[q].left = {} /\ run[q] \in RunState
    BY DEF Load, OwnInv, Shape, TypeOK
  <2>3. CASE run[q].kind = "preview"
    <3>1. run'[q] = [loaded(r) EXCEPT !.step = "compare"]
      BY <2>1, <2>3, BecomeFacts
    <3>2. /\ run'[q].step = "compare" /\ run'[q].kind = "preview"
          /\ run'[q].stage = "Caddyfile" /\ run'[q].changed = {}
      BY <2>2, <2>3, <3>1 DEF RunState
    <3>3. QED
      BY <3>2, EarlierFacts
         DEF OwnInv, Shape, Converging, Undisturbed, Serving, Comparing, Deploying
  <2>4. CASE run[q].kind # "preview"
    <3>1. run'[q] = [loaded(r) EXCEPT !.step = "write", !.todo = ToWrite(r, "Caddyfile")]
      BY <2>1, <2>4, BecomeFacts
    <3>2. /\ run'[q].step = "write" /\ run'[q].kind # "preview"
          /\ run'[q].stage = "Caddyfile" /\ run'[q].snapshot = r
          /\ run'[q].todo = ToWrite(r, "Caddyfile") /\ run'[q].left = {}
      BY <2>2, <2>4, <3>1 DEF RunState
    <3>3. Shape(q)'
      BY <3>2, ListedFacts DEF Shape
    <3>4. \A f \in OwnFiles : ~Settled(q, f)'
      BY <3>2, ListedFacts, EarlierFacts DEF Settled, Finished
    <3>5. QED
      BY <3>2, <3>3, <3>4 DEF OwnInv, Converging, Serving, Comparing
  <2>5. QED
    BY <2>3, <2>4
<1>3. QED
  BY <1>1, <1>2

LEMMA TruncateSelf ==
  ASSUME TypeOK, NEW q \in Runs, OwnInv(q), Truncate(q)
  PROVE  OwnInv(q)'
<1>1. PICK f \in run[q].todo :
        /\ disk' = [disk EXCEPT ![f] = Blank]
        /\ Touch(q, f, [run[q] EXCEPT !.step = "fill", !.file = f, !.linked = TRUE], FALSE)
  BY DEF Truncate
<1>2. /\ run[q] \in RunState /\ f \in OwnFiles /\ f \in Files /\ run[q].step = "write"
      /\ f[1] = run[q].stage /\ run[q].stage \in Stages /\ Working(q)
  BY <1>1, OwnFileFacts DEF TypeOK, RunState, Truncate, OwnInv, Shape, Working
<1>3. run'[q] = [run[q] EXCEPT !.step = "fill", !.file = f, !.linked = TRUE]
  BY <1>1 DEF Touch
<1>4. /\ run'[q].step = "fill" /\ run'[q].file = f /\ run'[q].linked = TRUE
      /\ run'[q].kind = run[q].kind /\ run'[q].snapshot = run[q].snapshot
      /\ run'[q].stage = run[q].stage /\ run'[q].todo = run[q].todo
      /\ run'[q].quiet = run[q].quiet /\ run'[q].left = run[q].left
  BY <1>2, <1>3 DEF RunState
<1>5. disk'[f] = Blank /\ \A g \in OwnFiles : g # f => disk'[g] = disk[g]
  BY <1>1, <1>2, OwnFileFacts DEF TypeOK
<1>6. Shape(q)'
  BY <1>1, <1>2, <1>4 DEF OwnInv, Shape
<1>7. \A g \in OwnFiles : Settled(q, g)' => Settled(q, g) /\ g # f
  BY <1>1, <1>2, <1>4, EarlierFacts DEF Settled, Finished
<1>8. ASSUME NEW x \in Runs, NEW g \in OwnFiles, NEW r, Filling(x, g, r)
      PROVE  Filling(x, g, r)'
  <2>1. x # q
    BY <1>2, <1>8 DEF Filling
  <2>2. Kept(x) /\ run'[x].linked = (run[x].linked /\ ~(FALSE /\ run[x].file = f))
    BY <1>1, <2>1, TouchFacts
  <2>3. QED
    BY <1>8, <2>2 DEF Filling, Kept
<1>9. \A g \in OwnFiles : Settled(q, g)' /\ Intact(g, run[q].snapshot)
                              => Intact(g, run[q].snapshot)'
  BY <1>4, <1>5, <1>7, <1>8 DEF Intact
<1>10. Converging(q)'
  BY <1>2, <1>4, <1>5, <1>7, <1>9 DEF OwnInv, Converging, Undisturbed
<1>11. Serving(q)' /\ Comparing(q)'
  BY <1>2, <1>4, <1>5, <1>7 DEF OwnInv, Serving, Comparing
<1>12. QED
  BY <1>6, <1>10, <1>11 DEF OwnInv

LEMMA FillSelf ==
  ASSUME TypeOK, NEW q \in Runs, OwnInv(q), Fill(q)
  PROVE  OwnInv(q)'
<1> DEFINE f    == run[q].file
           text == Desired(run[q].snapshot)[f]
           state == [run[q] EXCEPT !.step = "write", !.todo = @ \ {f}, !.linked = FALSE]
<1>1. /\ Touch(q, f, state, FALSE)
      /\ run[q] \in RunState /\ f \in OwnFiles /\ f \in Files /\ run[q].step = "fill"
      /\ f \in run[q].todo /\ Working(q)
  BY OwnFileFacts DEF TypeOK, RunState, Fill, OwnInv, Shape, Working
<1>2. PICK c : /\ disk' = [disk EXCEPT ![f] = c]
               /\ run[q].linked = TRUE /\ disk[f] \in {Blank, text} => c = text
  BY DEF Fill, TypeOK
<1>3. /\ disk'[f] = c
      /\ \A g \in OwnFiles : g # f => disk'[g] = disk[g]
  BY <1>1, <1>2, OwnFileFacts DEF TypeOK
<1>4. run'[q] = state
  BY <1>1 DEF Touch
<1>5. /\ run'[q].step = "write" /\ run'[q].todo = run[q].todo \ {f}
      /\ run'[q].kind = run[q].kind /\ run'[q].snapshot = run[q].snapshot
      /\ run'[q].stage = run[q].stage /\ run'[q].quiet = run[q].quiet
      /\ run'[q].left = run[q].left
  BY <1>1, <1>4 DEF RunState
<1> HIDE DEF state
<1>6. Shape(q)'
  BY <1>1, <1>5 DEF OwnInv, Shape
<1>7. \A g \in OwnFiles : Settled(q, g)' => Settled(q, g) \/ g = f
  BY <1>1, <1>5 DEF Settled, Finished
<1>8. ASSUME NEW x \in Runs, NEW g \in OwnFiles, NEW r, Filling(x, g, r), g # f
      PROVE  Filling(x, g, r)'
  <2>1. x # q
    BY <1>8 DEF Filling
  <2>2. Kept(x) /\ run'[x].linked = (run[x].linked /\ ~(FALSE /\ run[x].file = f))
    BY <1>1, <2>1, TouchFacts
  <2>3. QED
    BY <1>8, <2>2 DEF Filling, Kept
<1>9. \A g \in OwnFiles : g # f /\ Intact(g, run[q].snapshot) => Intact(g, run[q].snapshot)'
  BY <1>3, <1>5, <1>8 DEF Intact
<1>10. Undisturbed(q) => disk'[f] = text
  BY <1>1, <1>2, <1>3 DEF OwnInv, Converging
<1>11. Converging(q)'
  BY <1>1, <1>5, <1>7, <1>9, <1>10 DEF OwnInv, Converging, Undisturbed, Intact
<1>12. Serving(q)' /\ Comparing(q)'
  BY <1>1, <1>3, <1>5, <1>7, <1>10 DEF OwnInv, Serving, Comparing, Undisturbed
<1>13. QED
  BY <1>6, <1>11, <1>12 DEF OwnInv

LEMMA RemoveSelf ==
  ASSUME TypeOK, NEW q \in Runs, OwnInv(q), Remove(q)
  PROVE  OwnInv(q)'
<1>1. PICK f \in run[q].todo :
        /\ disk' = [disk EXCEPT ![f] = Missing]
        /\ Touch(q, f, [run[q] EXCEPT !.todo = @ \ {f}], TRUE)
  BY DEF Remove
<1>2. /\ run[q] \in RunState /\ f \in OwnFiles /\ f \in Files /\ run[q].step = "prune"
      /\ Desired(run[q].snapshot)[f] = Missing /\ Working(q)
  BY <1>1, OwnFileFacts DEF TypeOK, RunState, Remove, OwnInv, Shape, Working
<1>3. disk'[f] = Missing /\ \A g \in OwnFiles : g # f => disk'[g] = disk[g]
  BY <1>1, <1>2, OwnFileFacts DEF TypeOK
<1>4. run'[q] = [run[q] EXCEPT !.todo = @ \ {f}]
  BY <1>1 DEF Touch
<1>5. /\ run'[q].step = "prune" /\ run'[q].todo = run[q].todo \ {f}
      /\ run'[q].kind = run[q].kind /\ run'[q].snapshot = run[q].snapshot
      /\ run'[q].stage = run[q].stage /\ run'[q].quiet = run[q].quiet
      /\ run'[q].left = run[q].left
  BY <1>2, <1>4 DEF RunState
<1>6. Shape(q)'
  BY <1>2, <1>5 DEF OwnInv, Shape
<1>7. \A g \in OwnFiles : Settled(q, g)' => Settled(q, g) \/ g = f
  BY <1>2, <1>5 DEF Settled, Finished
<1>8. ASSUME NEW x \in Runs, NEW g \in OwnFiles, NEW r, Filling(x, g, r), g # f
      PROVE  Filling(x, g, r)'
  <2>1. x # q
    BY <1>2, <1>8 DEF Filling
  <2>2. Kept(x) /\ run'[x].linked = (run[x].linked /\ ~(TRUE /\ run[x].file = f))
    BY <1>1, <2>1, TouchFacts
  <2>3. QED
    BY <1>8, <2>2 DEF Filling, Kept
<1>9. \A g \in OwnFiles : g # f /\ Intact(g, run[q].snapshot) => Intact(g, run[q].snapshot)'
  BY <1>3, <1>5, <1>8 DEF Intact
<1>10. Converging(q)'
  BY <1>2, <1>3, <1>5, <1>7, <1>9 DEF OwnInv, Converging, Undisturbed, Intact
<1>11. Serving(q)' /\ Comparing(q)'
  BY <1>2, <1>3, <1>5, <1>7 DEF OwnInv, Serving, Comparing
<1>12. QED
  BY <1>6, <1>10, <1>11 DEF OwnInv

LEMMA StageWrittenSelf ==
  ASSUME TypeOK, NEW q \in Runs, OwnInv(q), StageWritten(q)
  PROVE  OwnInv(q)'
<1> DEFINE r == run[q].snapshot
<1>1. /\ run[q].step = "write" /\ run[q].todo = {} /\ disk' = disk /\ caddy' = caddy
      /\ run[q].stage \in Stages /\ run[q].kind \in AllKinds /\ run[q] \in RunState
  BY DEF StageWritten, TypeOK, RunState
<1>2. /\ run[q].kind # "preview"
      /\ run[q].kind \in Deploying
            => r \in RegistryContents /\ \A f \in run[q].left : Desired(r)[f] = Missing
  BY <1>1 DEF OwnInv, Shape
<1>3. CASE run[q].kind = "reload"
  <2>1. \/ run'[q] = StartWriting(q, "agents")
        \/ run'[q] = StartPruning(q) /\ run[q].stage \in {"agents", "daemons"}
        \/ run'[q].step = "check" /\ run'[q].kind = run[q].kind
    BY <1>1, BecomeFacts, GotoFacts DEF StageWritten, Stages
  <2>2. /\ run'[q].kind = run[q].kind /\ run'[q].step \in {"write", "prune", "check"}
        /\ Shape(q)'
    BY <1>3, <2>1, StartFacts, ListedFacts DEF Shape, Deploying
  <2>3. QED
    BY <1>3, <2>2
       DEF OwnInv, Converging, Undisturbed, Serving, Comparing, Deploying
<1>4. CASE run[q].kind \in Deploying /\ run[q].stage = "Caddyfile"
  <2>1. run'[q] = StartWriting(q, "agents")
    BY <1>4, BecomeFacts DEF StageWritten
  <2>2. Shape(q)'
    BY <1>2, <1>4, <2>1, StartFacts, ListedFacts DEF Shape
  <2>3. \A f \in OwnFiles : Settled(q, f)' => Settled(q, f)
    BY <1>1, <1>2, <1>4, <2>1, StartFacts, ListedFacts, EarlierFacts, AlwaysWritten
       DEF Settled, Finished
  <2>4. QED
    BY <1>1, <1>4, <2>1, <2>2, <2>3, StartFacts, BecomeFacts, GoesOn
       DEF StageWritten, Deploying
<1>5. CASE run[q].kind \in Deploying /\ run[q].stage \in {"agents", "daemons"}
  <2>1. Become(q, StartPruning(q)) /\ run'[q] = StartPruning(q)
    BY <1>5, BecomeFacts DEF StageWritten
  <2>2. Shape(q)'
    BY <1>2, <1>5, <2>1, StartFacts, ListedFacts DEF Shape
  <2>3. \A f \in OwnFiles : Settled(q, f)' => Settled(q, f) \/ disk[f] = Desired(r)[f]
    BY <1>1, <1>5, <2>1, StartFacts, ListedFacts DEF Settled, Finished
  <2>4. QED
    BY <1>1, <1>5, <2>1, <2>2, <2>3, StartFacts, BecomeFacts, GoesOn DEF Deploying
<1>6. CASE run[q].kind \in Deploying /\ run[q].stage = "catalog"
  <2>1. Goto(q, "check")
    BY <1>6 DEF StageWritten
  <2>2. Shape(q)'
    BY <1>2, <1>6, <2>1, GotoFacts DEF Shape
  <2>3. \A f \in OwnFiles : Settled(q, f)' => Settled(q, f)
    BY <1>1, <1>2, <1>6, <2>1, GotoFacts, EarlierFacts, OwnFileFacts, AlwaysWritten
       DEF Settled, Stages
  <2>4. QED
    BY <1>1, <1>6, <2>1, <2>2, <2>3, GotoFacts, GoesOn DEF Deploying
<1>7. QED
  BY <1>1, <1>2, <1>3, <1>4, <1>5, <1>6 DEF Stages, AllKinds, Deploying

\* What a run could not list or remove it has not settled, and it remembers it.
LEMMA ListingFailsSelf ==
  ASSUME TypeOK, NEW q \in Runs, OwnInv(q), ListingFails(q)
  PROVE  OwnInv(q)'
<1> DEFINE r == run[q].snapshot
           stale == Stale(r, run[q].stage)
<1>1. /\ run[q].step = "write" /\ run[q].todo = {} /\ disk' = disk /\ caddy' = caddy
      /\ run[q].stage \in {"agents", "daemons"} /\ run[q].kind \in AllKinds
      /\ run[q] \in RunState
      /\ Become(q, [run[q] EXCEPT !.step = "prune", !.left = @ \cup stale])
  BY DEF ListingFails, TypeOK, RunState
<1>2. run'[q] = [run[q] EXCEPT !.step = "prune", !.left = @ \cup stale]
  BY <1>1, BecomeFacts
<1>3. /\ run'[q].step = "prune" /\ run'[q].todo = {} /\ run'[q].stage = run[q].stage
      /\ run'[q].kind = run[q].kind /\ run'[q].snapshot = r
      /\ run'[q].quiet = run[q].quiet /\ run'[q].left = run[q].left \cup stale
  BY <1>1, <1>2 DEF RunState
<1> HIDE DEF stale
<1>4. \A f \in OwnFiles : f \in stale <=>
         f[1] = run[q].stage /\ disk[f] # Missing /\ Desired(r)[f] = Missing
  BY ListedFacts DEF stale
<1>5. \A f \in stale : Desired(r)[f] = Missing
  BY ListedFacts DEF stale
<1>6. Shape(q)'
  BY <1>1, <1>3, <1>5 DEF OwnInv, Shape
<1>7. \A f \in OwnFiles : Settled(q, f)' => Settled(q, f) \/ disk[f] = Desired(r)[f]
  BY <1>1, <1>3, <1>4 DEF Settled, Finished
<1>8. run[q].kind # "preview"
  BY <1>1 DEF OwnInv, Shape
<1>9. QED
  BY <1>1, <1>3, <1>6, <1>7, <1>8, BecomeFacts, GoesOn

LEMMA RemoveFailsSelf ==
  ASSUME TypeOK, NEW q \in Runs, OwnInv(q), RemoveFails(q)
  PROVE  OwnInv(q)'
<1>1. PICK f \in run[q].todo :
        Become(q, [run[q] EXCEPT !.todo = @ \ {f}, !.left = @ \cup {f}])
  BY DEF RemoveFails
<1>2. /\ run[q].step = "prune" /\ disk' = disk /\ caddy' = caddy /\ run[q] \in RunState
      /\ Desired(run[q].snapshot)[f] = Missing /\ run[q].kind # "preview"
  BY DEF RemoveFails, TypeOK, OwnInv, Shape
<1>3. run'[q] = [run[q] EXCEPT !.todo = @ \ {f}, !.left = @ \cup {f}]
  BY <1>1, BecomeFacts
<1>4. /\ run'[q].step = "prune" /\ run'[q].todo = run[q].todo \ {f}
      /\ run'[q].stage = run[q].stage
      /\ run'[q].kind = run[q].kind /\ run'[q].snapshot = run[q].snapshot
      /\ run'[q].quiet = run[q].quiet /\ run'[q].left = run[q].left \cup {f}
  BY <1>2, <1>3 DEF RunState
<1>5. Shape(q)'
  BY <1>2, <1>4 DEF OwnInv, Shape
<1>6. \A g \in OwnFiles : Settled(q, g)' => Settled(q, g)
  BY <1>2, <1>4 DEF Settled, Finished
<1>7. QED
  BY <1>1, <1>2, <1>4, <1>5, <1>6, BecomeFacts, GoesOn

LEMMA StagePrunedSelf ==
  ASSUME TypeOK, NEW q \in Runs, OwnInv(q), StagePruned(q)
  PROVE  OwnInv(q)'
<1> DEFINE next == IF run[q].stage = "agents" THEN "daemons" ELSE "catalog"
<1>1. /\ run[q].step = "prune" /\ run[q].todo = {} /\ disk' = disk /\ caddy' = caddy
      /\ run[q].stage \in {"agents", "daemons"} /\ run[q].kind \in AllKinds
      /\ Become(q, StartWriting(q, next)) /\ run'[q] = StartWriting(q, next)
  BY BecomeFacts DEF StagePruned, TypeOK, RunState, OwnInv, Shape
<1>2. /\ run'[q].step = "write" /\ run'[q].stage = next
      /\ run'[q].todo = ToWrite(run[q].snapshot, next)
      /\ run'[q].kind = run[q].kind /\ run'[q].snapshot = run[q].snapshot
      /\ run'[q].quiet = run[q].quiet /\ run'[q].left = run[q].left
  BY <1>1, StartFacts
<1>3. Shape(q)'
  BY <1>1, <1>2, ListedFacts DEF OwnInv, Shape
<1>4. \A f \in OwnFiles : Settled(q, f)' => Settled(q, f)
  BY <1>1, <1>2, ListedFacts, EarlierFacts DEF Settled, Finished
<1>5. run[q].kind # "preview"
  BY <1>1 DEF OwnInv, Shape
<1>6. QED
  BY <1>1, <1>2, <1>3, <1>4, <1>5, BecomeFacts, GoesOn

\* Caddy is told nothing before the artifacts are all in place.
LEMMA CaddySelf ==
  ASSUME TypeOK, NEW q \in Runs, OwnInv(q), Check(q) \/ Verify(q) \/ Read(q)
  PROVE  OwnInv(q)'
<1>1. /\ run[q].step \in {"check", "verify", "read"} /\ disk' = disk /\ caddy' = caddy
      /\ \/ Goto(q, "failed")
         \/ run[q].step = "check" /\ Goto(q, "read")
         \/ run[q].step = "verify" /\ Goto(q, "done")
         \/ /\ run[q].step = "read"
            /\ Become(q, [run[q] EXCEPT !.step = "post", !.config = disk[TheCaddyfile]])
  BY DEF Check, Verify, CaddyValidates, Read
<1>2. \A f \in OwnFiles \ run[q].left : Settled(q, f)
  BY <1>1 DEF Settled, Finished
<1>3. run[q].kind # "preview"
  BY <1>1 DEF OwnInv, Shape
<1>4. CASE Goto(q, "failed")
  BY <1>4, GotoFacts, Resting
<1>5. CASE run[q].step = "check" /\ Goto(q, "read")
  <2>1. Shape(q)'
    BY <1>5, GotoFacts DEF OwnInv, Shape
  <2>2. \A f \in OwnFiles : Settled(q, f)' => Settled(q, f)
    BY <1>2, <1>5, GotoFacts DEF Settled
  <2>3. QED
    BY <1>1, <1>3, <1>5, <2>1, <2>2, GotoFacts, GoesOn
<1>6. CASE run[q].step = "verify" /\ Goto(q, "done")
  <2>1. Shape(q)'
    BY <1>6, GotoFacts DEF OwnInv, Shape
  <2>2. run[q].kind \in Deploying /\ run[q].quiet = "alone"
           => caddy' = GenerateCaddyfile(run[q].snapshot)
    BY <1>1, <1>6 DEF OwnInv, Serving, Working
  <2>3. \A f \in OwnFiles : Settled(q, f)' => Settled(q, f)
    BY <1>2, <1>6, GotoFacts DEF Settled
  <2>4. QED
    BY <1>1, <1>3, <1>6, <2>1, <2>2, <2>3, GotoFacts, GoesOn
<1>7. CASE /\ run[q].step = "read"
           /\ Become(q, [run[q] EXCEPT !.step = "post", !.config = disk[TheCaddyfile]])
  <2>1. /\ run'[q].step = "post" /\ run'[q].config = disk[TheCaddyfile]
        /\ run'[q].kind = run[q].kind /\ run'[q].snapshot = run[q].snapshot
        /\ run'[q].quiet = run[q].quiet /\ run'[q].left = run[q].left
    <3>1. run'[q] = [run[q] EXCEPT !.step = "post", !.config = disk[TheCaddyfile]]
      BY <1>7, BecomeFacts
    <3>2. run[q] \in RunState
      BY DEF TypeOK
    <3>3. QED
      BY <3>1, <3>2 DEF RunState
  <2>2. Shape(q)'
    BY <1>7, <2>1 DEF OwnInv, Shape
  <2>3. ASSUME run[q].kind \in Deploying, run[q].quiet = "alone"
        PROVE  disk[TheCaddyfile] = GenerateCaddyfile(run[q].snapshot)
    <3>1. run[q].snapshot \in RegistryContents /\ TheCaddyfile \notin run[q].left
      BY <1>7, <2>3, AlwaysWritten, SingleFiles DEF OwnInv, Shape
    <3>2. disk[TheCaddyfile] = Desired(run[q].snapshot)[TheCaddyfile]
      BY <1>2, <1>7, <2>3, <3>1, SingleFiles DEF OwnInv, Serving, Working
    <3>3. QED
      BY <3>1, <3>2, AlwaysWritten
  <2>4. \A f \in OwnFiles : Settled(q, f)' => Settled(q, f)
    BY <1>2, <2>1 DEF Settled
  <2>5. QED
    BY <1>1, <1>3, <1>7, <2>1, <2>2, <2>3, <2>4, BecomeFacts, GoesOn
<1>8. QED
  BY <1>1, <1>4, <1>5, <1>6, <1>7

LEMMA PostSelf ==
  ASSUME TypeOK, NEW q \in Runs, OwnInv(q), Post(q)
  PROVE  OwnInv(q)'
<1>1. /\ run[q].step = "post" /\ disk' = disk /\ run[q].kind # "preview"
      /\ run[q].kind \in AllKinds /\ run[q] \in RunState
  BY DEF Post, OwnInv, Shape, TypeOK, RunState
<1>2. CASE caddy = Missing
  BY <1>2, GotoFacts, Resting DEF Post
<1>3. CASE caddy # Missing
  <2>1. /\ caddy' = run[q].config
        /\ run'[q] = [run[q] EXCEPT !.step = IF run[q].kind = "validate"
                                             THEN "verify" ELSE "done"]
        /\ \A x \in Runs \ {q} :
              run'[x] = IF Working(x) /\ run[x].quiet = "alone"
                        THEN [run[x] EXCEPT !.quiet = "agreeing"] ELSE run[x]
    BY <1>3 DEF Post
  <2>2. /\ run'[q].step \in {"verify", "done"}
        /\ run'[q].kind = run[q].kind /\ run'[q].snapshot = run[q].snapshot
        /\ run'[q].quiet = run[q].quiet /\ run'[q].left = run[q].left
    BY <1>1, <2>1 DEF RunState
  <2>3. Shape(q)'
    BY <1>1, <2>1, <2>2 DEF OwnInv, Shape
  <2>4. ASSUME NEW x \in Runs \ {q}, NEW f, NEW r, Filling(x, f, r)
        PROVE  Filling(x, f, r)'
    <3>1. run[x] \in RunState
      BY DEF TypeOK
    <3>2. /\ run'[x].step = run[x].step /\ run'[x].file = run[x].file
          /\ run'[x].snapshot = run[x].snapshot /\ run'[x].linked = run[x].linked
      BY <2>1, <3>1 DEF RunState
    <3>3. QED
      BY <2>4, <3>2 DEF Filling
  <2>5. \A f \in OwnFiles : Settled(q, f)' => Settled(q, f)
    BY <1>1, <2>2 DEF Settled, Finished
  <2>6. run[q].kind \in Deploying /\ run[q].quiet = "alone"
           => caddy' = GenerateCaddyfile(run[q].snapshot)
    BY <1>1, <2>1 DEF OwnInv, Serving, Working
  <2>7. QED
    BY <1>1, <2>2, <2>3, <2>4, <2>5, <2>6, GoesOn
<1>4. QED
  BY <1>2, <1>3

LEMMA VerdictBoolean ==
  ASSUME NEW r, NEW stage \in Stages, NEW verdict \in Verdicts(r, stage)
  PROVE  verdict.changes \in BOOLEAN /\ verdict.unread \in BOOLEAN
<1>1. \A c \in BOOLEAN : /\ Blind(c).changes \in BOOLEAN /\ Blind(c).unread \in BOOLEAN
                         /\ Seeing(c).changes \in BOOLEAN /\ Seeing(c).unread \in BOOLEAN
  BY DEF Blind, Seeing
<1>2. \E c \in BOOLEAN : verdict = Blind(c) \/ verdict = Seeing(c)
  <2>1. CASE stage = "Caddyfile"
    BY <2>1 DEF Verdicts, diffFiles
  <2>2. CASE stage \in {"agents", "daemons"}
    BY <2>2 DEF Verdicts, diffPlists
  <2>3. CASE stage = "catalog"
    BY <2>3 DEF Verdicts, diffCatalog, CatalogDiffers
  <2>4. QED
    BY <2>1, <2>2, <2>3 DEF Stages
<1>3. QED
  BY <1>1, <1>2

\* A comparison that could read what it compares counts a change exactly where
\* there is one; one that could not misses no plist to create or update.
LEMMA VerdictFacts ==
  ASSUME NEW r, NEW stage \in Stages, NEW verdict \in Verdicts(r, stage)
  PROVE  /\ \/ verdict.unread = TRUE
            \/ stage = "Caddyfile" /\ disk[TheCaddyfile] = Garbled
            \/ verdict.changes = TRUE <=> Outdated(r, stage)
         /\ stage \in {"agents", "daemons"} /\ verdict.changes # TRUE
               => \A f \in ToWrite(r, stage) : disk[f] = Desired(r)[f]
<1>1. \A c : /\ Blind(c).unread = TRUE /\ Blind(c).changes = c
             /\ Seeing(c).unread = FALSE /\ Seeing(c).changes = c
  BY DEF Blind, Seeing
<1>2. CASE stage = "Caddyfile" /\ disk[TheCaddyfile] # Garbled
  <2> DEFINE differs == disk[TheCaddyfile] # Desired(r)[TheCaddyfile]
  <2>1. Outdated(r, stage) <=> differs
    BY <1>2, OwnFileFacts, SingleFiles DEF Outdated
  <2>2. verdict = Blind(FALSE) \/ verdict = Seeing(differs)
    BY <1>2 DEF Verdicts, diffFiles
  <2>3. differs \in BOOLEAN
    OBVIOUS
  <2> HIDE DEF differs
  <2>4. QED
    BY <1>1, <1>2, <2>1, <2>2, <2>3
<1>3. CASE stage \in {"agents", "daemons"}
  <2> DEFINE differs == \E f \in ToWrite(r, stage) \cup Listed(stage) :
                           disk[f] # Desired(r)[f]
             wanted == ToWrite(r, stage) # {}
  <2>1. Outdated(r, stage) <=> \E f \in OwnFiles : f[1] = stage /\ disk[f] # Desired(r)[f]
    BY <1>3 DEF Outdated
  <2>2. Outdated(r, stage) <=> differs
    BY <2>1, PlistsCompared
  <2>3. verdict = Blind(wanted) \/ verdict = Seeing(differs)
    BY <1>3 DEF Verdicts, diffPlists
  <2>4. differs \in BOOLEAN /\ wanted \in BOOLEAN
    OBVIOUS
  <2>5. /\ ~differs => \A f \in ToWrite(r, stage) : disk[f] = Desired(r)[f]
        /\ ~wanted => \A f \in ToWrite(r, stage) : disk[f] = Desired(r)[f]
    OBVIOUS
  <2> HIDE DEF differs, wanted
  <2>6. QED
    BY <1>1, <2>2, <2>3, <2>4, <2>5
<1>4. CASE stage = "catalog"
  <2>1. verdict = Blind(FALSE) \/ verdict = Seeing(CatalogDiffers(r))
    BY <1>4 DEF Verdicts, diffCatalog
  <2>2. CatalogDiffers(r) \in BOOLEAN /\ (Outdated(r, stage) <=> CatalogDiffers(r))
    BY <1>4 DEF CatalogDiffers, Outdated
  <2>3. QED
    BY <1>1, <1>4, <2>1, <2>2
<1>5. QED
  BY <1>2, <1>3, <1>4 DEF Stages

\* A preview adds the stage at hand to those it has compared.
LEMMA CompareSelf ==
  ASSUME TypeOK, NEW q \in Runs, OwnInv(q), Compare(q)
  PROVE  OwnInv(q)'
<1> DEFINE R == run[q]
           S == run'[q]
<1>1. /\ R.step = "compare" /\ R.kind = "preview" /\ R \in RunState /\ R.stage \in Stages
      /\ disk' = disk
  BY DEF Compare, OwnInv, Shape, TypeOK, RunState
<1>2. PICK verdict \in Verdicts(R.snapshot, R.stage) :
        Become(q, [R EXCEPT
            !.changed = IF verdict.changes THEN @ \cup {R.stage} ELSE @,
            !.unread  = IF verdict.unread THEN @ \cup {R.stage} ELSE @,
            !.step    = IF R.stage = "catalog" THEN "done" ELSE "compare",
            !.stage   = NextStage(R.stage)])
  BY DEF Compare
<1>3. S = [R EXCEPT
            !.changed = IF verdict.changes THEN @ \cup {R.stage} ELSE @,
            !.unread  = IF verdict.unread THEN @ \cup {R.stage} ELSE @,
            !.step    = IF R.stage = "catalog" THEN "done" ELSE "compare",
            !.stage   = NextStage(R.stage)]
  BY <1>2, BecomeFacts
<1>4. /\ S.kind = "preview" /\ S.snapshot = R.snapshot /\ S.quiet = R.quiet
      /\ S.changed = IF verdict.changes THEN R.changed \cup {R.stage} ELSE R.changed
      /\ S.unread = IF verdict.unread THEN R.unread \cup {R.stage} ELSE R.unread
      /\ S.step = IF R.stage = "catalog" THEN "done" ELSE "compare"
      /\ S.stage = NextStage(R.stage)
  BY <1>1, <1>3 DEF RunState
<1>5. Comparing(q)'
  <2> SUFFICES ASSUME S.quiet = "alone"
               PROVE  Comparing(q)'
    BY DEF Comparing
  <2>1. R.changed \subseteq Earlier(R.stage) /\ \A stage \in Earlier(R.stage) : Judged(q, stage)
    BY <1>1, <1>4 DEF OwnInv, Comparing
  <2>2. R.stage \notin R.changed
    BY <1>1, <2>1, EarlierFacts
  <2>3. \A r, stage : Outdated(r, stage)' <=> Outdated(r, stage)
    BY <1>1 DEF Outdated, CatalogDiffers
  <2>4. ASSUME NEW stage \in Stages, stage = R.stage
        PROVE  Judged(q, stage)'
    <3>1. PICK r : r = R.snapshot
      OBVIOUS
    <3>2. /\ \/ verdict.unread = TRUE
             \/ stage = "Caddyfile" /\ disk[TheCaddyfile] = Garbled
             \/ verdict.changes = TRUE <=> Outdated(r, stage)
          /\ stage \in {"agents", "daemons"} /\ verdict.changes # TRUE
                => \A f \in ToWrite(r, stage) : disk[f] = Desired(r)[f]
      BY <1>1, <1>2, <2>4, <3>1, VerdictFacts
    <3>3. /\ verdict.unread = TRUE => stage \in S.unread
          /\ stage \in S.changed <=> verdict.changes = TRUE
      BY <1>2, <1>4, <2>2, <2>4, VerdictBoolean
    <3>4. /\ Outdated(r, stage)' <=> Outdated(r, stage)
          /\ S.snapshot = r
      BY <1>4, <2>3, <3>1
    <3>5. /\ \/ stage \in S.unread
             \/ stage = "Caddyfile" /\ disk'[TheCaddyfile] = Garbled
             \/ stage \in S.changed <=> Outdated(r, stage)'
          /\ stage \in {"agents", "daemons"} /\ stage \notin S.changed
                => \A f \in ToWrite(r, stage) : disk'[f] = Desired(r)[f]
      BY <1>1, <3>2, <3>3, <3>4
    <3>6. QED
      BY <3>4, <3>5 DEF Judged, ToWrite
  <2>5. ASSUME NEW stage \in Earlier(R.stage)
        PROVE  Judged(q, stage)'
    <3>1. Judged(q, stage) /\ stage # R.stage
      BY <1>1, <2>1, EarlierFacts
    <3>2. /\ stage \in R.unread => stage \in S.unread
          /\ stage \in S.changed <=> stage \in R.changed
      BY <1>4, <3>1
    <3>3. QED
      BY <1>1, <1>4, <2>3, <3>1, <3>2 DEF Judged, ToWrite
  <2>6. R.stage # "catalog" => /\ S.step = "compare"
                               /\ Earlier(S.stage) = Earlier(R.stage) \cup {R.stage}
    BY <1>1, <1>4, EarlierFacts DEF NextStage, Stages
  <2>7. R.stage = "catalog" => S.step = "done" /\ Stages = Earlier(R.stage) \cup {R.stage}
    BY <1>4, EarlierFacts DEF Stages
  <2>8. S.changed \subseteq Earlier(R.stage) \cup {R.stage}
    BY <1>4, <2>1
  <2>9. \A stage \in Earlier(R.stage) \cup {R.stage} : Judged(q, stage)'
    BY <1>1, <2>4, <2>5
  <2>10. CASE R.stage = "catalog"
    BY <2>7, <2>9, <2>10 DEF Comparing
  <2>11. CASE R.stage # "catalog"
    BY <2>6, <2>8, <2>9, <2>11 DEF Comparing
  <2>12. QED
    BY <2>10, <2>11
<1>6. Shape(q)' /\ Converging(q)' /\ Serving(q)'
  BY <1>1, <1>4 DEF Shape, Converging, Undisturbed, Serving, Deploying
<1>7. QED
  BY <1>5, <1>6 DEF OwnInv

LEMMA EndsSelf ==
  ASSUME TypeOK, NEW q \in Runs, WriteFails(q) \/ Respond(q) \/ Killed(q)
  PROVE  OwnInv(q)'
<1>1. CASE WriteFails(q)
  <2>1. run'[q] = [run[q] EXCEPT !.step = "failed", !.linked = FALSE] /\ run[q] \in RunState
    BY <1>1 DEF WriteFails, Abandon, TypeOK
  <2>2. run'[q].step = "failed"
    BY <2>1 DEF RunState
  <2>3. QED
    BY <2>2, Resting
<1>2. CASE Respond(q) \/ Killed(q)
  <2>1. run'[q] = Idle
    BY <1>2, BecomeFacts DEF Respond, Killed, Abandon
  <2>2. QED
    BY <2>1, Resting
<1>3. QED
  BY <1>1, <1>2

-----------------------------------------------------------------------------
(* Every step keeps the invariant *)

LEMMA InvParts == DeployInv <=> \A p \in Runs : OwnInv(p)
BY DEF DeployInv, OwnInv

LEMMA StepKeepsInv ==
  ASSUME TypeOK, DeployInv, NEW q \in Runs, Step(q)
  PROVE  DeployInv'
<1>1. OwnInv(q)
  BY InvParts
<1>2. OwnInv(q)'
  <2>1. ASSUME NEW kind \in Kinds, Begin(q, kind) PROVE OwnInv(q)'
    BY <2>1, BeginSelf
  <2>2. CASE Load(q)
    BY <1>1, <2>2, LoadSelf
  <2>3. CASE Truncate(q) \/ Fill(q) \/ Remove(q)
    BY <1>1, <2>3, TruncateSelf, FillSelf, RemoveSelf
  <2>4. CASE StageWritten(q) \/ ListingFails(q) \/ RemoveFails(q) \/ StagePruned(q)
    BY <1>1, <2>4, StageWrittenSelf, ListingFailsSelf, RemoveFailsSelf, StagePrunedSelf
  <2>5. CASE Check(q) \/ Verify(q) \/ Read(q) \/ Post(q)
    BY <1>1, <2>5, CaddySelf, PostSelf
  <2>6. CASE Compare(q)
    BY <1>1, <2>6, CompareSelf
  <2>7. CASE WriteFails(q) \/ Respond(q) \/ Killed(q)
    BY <2>7, EndsSelf
  <2>8. QED
    BY <2>1, <2>2, <2>3, <2>4, <2>5, <2>6, <2>7 DEF Step
<1>3. ASSUME NEW p \in Runs \ {q} PROVE OwnInv(p)'
  <2>1. OwnInv(p)
    BY InvParts
  <2>2. CASE Truncate(q) \/ Fill(q) \/ Remove(q)
    BY <1>1, <2>1, <2>2, TruncateOthers, FillOthers, RemoveOthers
  <2>3. CASE Post(q)
    BY <2>1, <2>3, PostOthers
  <2>4. CASE WriteFails(q) \/ Killed(q)
    <3>1. disk' = disk /\ caddy' = caddy /\ \E state : Abandon(q, state)
      BY <2>4 DEF WriteFails, Killed
    <3>2. QED
      BY <2>1, <3>1, AbandonOthers
  <2>5. CASE \/ \E kind \in Kinds : Begin(q, kind)
             \/ Load(q) \/ StageWritten(q) \/ StagePruned(q)
    <3>1. disk' = disk /\ caddy' = caddy /\ run[q].step # "fill"
      BY <2>5 DEF Begin, Load, StageWritten, StagePruned
    <3>2. \E state : Become(q, state)
      <4>1. CASE \E kind \in Kinds : Begin(q, kind)
        BY <4>1 DEF Begin
      <4>2. CASE Load(q)
        BY <4>2 DEF Load, Goto
      <4>3. CASE StageWritten(q)
        <5>1. run[q].stage \in Stages
          BY DEF TypeOK, RunState
        <5>2. \/ Become(q, StartWriting(q, "agents"))
              \/ Become(q, StartPruning(q))
              \/ Goto(q, "check")
          BY <4>3, <5>1 DEF StageWritten, Stages
        <5>3. QED
          BY <5>2 DEF Goto
      <4>4. CASE StagePruned(q)
        BY <4>4 DEF StagePruned
      <4>5. QED
        BY <2>5, <4>1, <4>2, <4>3, <4>4
    <3>3. QED
      BY <2>1, <3>1, <3>2, BecomeOthers
  <2>6. CASE \/ Check(q) \/ Verify(q) \/ Read(q) \/ Compare(q) \/ Respond(q)
             \/ ListingFails(q) \/ RemoveFails(q)
    <3>1. disk' = disk /\ caddy' = caddy /\ run[q].step # "fill"
      BY <2>6 DEF Check, Verify, CaddyValidates, Read, Compare, Respond, ListingFails,
                  RemoveFails
    <3>2. \E state : Become(q, state)
      <4>1. CASE Check(q) \/ Verify(q) \/ Read(q) \/ Respond(q)
        BY <4>1 DEF Check, Verify, CaddyValidates, Read, Respond, Goto
      <4>2. CASE Compare(q) \/ ListingFails(q) \/ RemoveFails(q)
        BY <4>2 DEF Compare, ListingFails, RemoveFails
      <4>3. QED
        BY <2>6, <4>1, <4>2
    <3>3. QED
      BY <2>1, <3>1, <3>2, BecomeOthers
  <2>7. QED
    BY <2>2, <2>3, <2>4, <2>5, <2>6 DEF Step
<1>4. \A p \in Runs : OwnInv(p)'
  BY <1>2, <1>3
<1>5. QED
  BY <1>4 DEF DeployInv, OwnInv

\* Caddy restarts from the Caddyfile, which a deployment left alone has written.
LEMMA RestartKeepsInv ==
  ASSUME TypeOK, DeployInv, CaddyRestarts \/ UNCHANGED vars
  PROVE  DeployInv'
<1>1. disk' = disk /\ run' = run
  BY DEF CaddyRestarts, vars
<1>2. ASSUME NEW p \in Runs, run[p].kind \in Deploying, Working(p), run[p].quiet = "alone",
             run[p].step \in {"verify", "done"}
      PROVE  caddy' = GenerateCaddyfile(run[p].snapshot)
  <2>1. run[p].snapshot \in RegistryContents /\ TheCaddyfile \notin run[p].left
    BY <1>2, AlwaysWritten, SingleFiles DEF DeployInv, Shape, Working
  <2>2. Settled(p, TheCaddyfile)
    BY <1>2, <2>1 DEF Settled, Finished
  <2>3. disk[TheCaddyfile] = GenerateCaddyfile(run[p].snapshot)
    BY <1>2, <2>1, <2>2, SingleFiles, AlwaysWritten DEF DeployInv, Serving
  <2>4. CASE CaddyRestarts
    BY <2>1, <2>3, <2>4, ArtifactsAssumption DEF CaddyRestarts, MayRefuse
  <2>5. CASE UNCHANGED vars
    BY <1>2, <2>5 DEF vars, DeployInv, Serving
  <2>6. QED
    BY <2>4, <2>5
<1>3. ASSUME NEW p \in Runs PROVE OwnInv(p)'
  <2>1. Shape(p)' /\ Converging(p)'
    BY <1>1 DEF DeployInv, Shape, Converging, Undisturbed, Working, Settled, Intact, Filling
  <2>2. Serving(p)'
    BY <1>1, <1>2 DEF DeployInv, Serving, Working, Settled
  <2>3. \A stage : Judged(p, stage)' <=> Judged(p, stage)
    BY <1>1, JudgedKept
  <2>4. Comparing(p)'
    BY <1>1, <2>3 DEF DeployInv, Comparing
  <2>5. QED
    BY <2>1, <2>2, <2>4 DEF OwnInv
<1>4. QED
  BY <1>3 DEF DeployInv, OwnInv

LEMMA DeployInductive == Spec => [](TypeOK /\ DeployInv)
<1>1. Init => DeployInv
  <2> SUFFICES ASSUME Init, NEW p \in Runs
               PROVE  Shape(p) /\ Converging(p) /\ Serving(p) /\ Comparing(p)
    BY DEF DeployInv
  <2>1. run[p].step = "idle" /\ run[p].kind = "sync"
    BY DEF Init, Idle
  <2>2. QED
    BY <2>1 DEF Shape, Converging, Undisturbed, Serving, Comparing, Working
<1>2. TypeOK /\ DeployInv /\ [Next]_vars => DeployInv'
  <2> SUFFICES ASSUME TypeOK, DeployInv, [Next]_vars
               PROVE  DeployInv'
    OBVIOUS
  <2>1. CASE CaddyRestarts
    BY <2>1, RestartKeepsInv
  <2>2. ASSUME NEW p \in Runs, Step(p)
        PROVE  DeployInv'
    BY <2>2, StepKeepsInv
  <2>3. CASE UNCHANGED vars
    BY <2>3, RestartKeepsInv
  <2>4. QED
    BY <2>1, <2>2, <2>3 DEF Next
<1>3. QED
  BY <1>1, <1>2, DeployTypes, PTL DEF Spec

(* Whatever was deployed before, whatever failed or was killed halfway and *)
(* however deployments of the same registry overlap: one that reports      *)
(* success has left every artifact of its registry on disk, whole, once no *)
(* run is in the middle of a file, and no plist besides but those it was   *)
(* not let list or remove, none of which its registry wants.               *)
THEOREM DeploymentsLeaveTheRegistry == Spec => []DeploymentsConverge
<1>1. TypeOK /\ DeployInv => DeploymentsConverge
  <2> SUFFICES ASSUME DeployInv, NEW p \in Runs,
                      run[p].step = "done", run[p].kind \in Deploying,
                      run[p].quiet # "disturbed", \A q \in Runs : run[q].step # "fill",
                      NEW f \in OwnFiles
               PROVE  \/ disk[f] = Desired(run[p].snapshot)[f]
                      \/ f \in run[p].left /\ Desired(run[p].snapshot)[f] = Missing
    BY DEF DeploymentsConverge, Deployed
  <2>1. CASE f \in run[p].left
    BY <2>1 DEF DeployInv, Shape
  <2>2. CASE f \notin run[p].left
    <3>1. Settled(p, f) /\ Undisturbed(p)
      BY <2>2 DEF Settled, Finished, Undisturbed, Working
    <3>2. Intact(f, run[p].snapshot)
      BY <3>1 DEF DeployInv, Converging
    <3>3. QED
      BY <3>2 DEF Intact, Filling
  <2>3. QED
    BY <2>1, <2>2
<1>2. QED
  BY <1>1, DeployInductive, PTL

(* A deployment that nothing overlapped leaves Caddy serving the routes of *)
(* its registry, whether launchd restarted Caddy meanwhile or not.         *)
THEOREM DeploymentsAreServed == Spec => []ServedAsDeployed
<1>1. DeployInv => ServedAsDeployed
  BY DEF DeployInv, Serving, Working, ServedAsDeployed
<1>2. QED
  BY <1>1, DeployInductive, PTL

(* A preview that nothing overlapped counts a change in exactly those of   *)
(* the artifacts it could read that applying its registry would change,    *)
(* although it compares one kind after another, and no error of reading    *)
(* hides a plist that apply would create or update.                        *)
THEOREM PreviewsAreExact == Spec => []PreviewIsExact
<1>1. DeployInv => PreviewIsExact
  BY DEF DeployInv, Comparing, Judged, PreviewIsExact, Stages
<1>2. QED
  BY <1>1, DeployInductive, PTL
===============================================================================
