-------------------------------- MODULE Deploy --------------------------------
(***************************************************************************)
(* Deployment of the registry: `hs sync' and the Admin actions             *)
(* deploy.apply, deploy.preview, caddy.validate and caddy.reload           *)
(* (admin/engine.go, admin/registry.go, admin/actions.go,                  *)
(* scripts/reload-caddy.sh).  Each run is a process of its own or a        *)
(* goroutine of Admin, and nothing serialises them.  A run loads           *)
(* services.yaml once, then writes, prunes and compares one file at a      *)
(* time; os.WriteFile truncates a file and then fills it.  A run may be    *)
(* killed anywhere, and a write may fail.                                  *)
(***************************************************************************)
EXTENDS Registry

CONSTANTS
    Runs,             \* runs in flight at the same time
    Kinds,            \* what they may be asked to do
    RegistryContents, \* the registries services.yaml may hold, valid or not
    Missing,          \* there is no such file
    Blank, Garbled,   \* a truncated file, and the overlap of two writes
    Foreign           \* a plist of another identifier prefix

ASSUME DeployAssumption ==
    /\ RegistryContents \subseteq Registries
    /\ Missing \notin Registries

\* What the generators make is never mistaken for a file that is missing,
\* truncated or garbled.
ASSUME ArtifactsAssumption ==
    \A r \in RegistryContents, c \in {Missing, Blank, Garbled} :
        GenerateCaddyfile(r) # c /\ buildCatalog(r) # c

VARIABLES
    disk,     \* what each generated file holds
    caddy,    \* the configuration Caddy runs, Missing while it is down
    run       \* the state of each run

vars == <<disk, caddy, run>>

-----------------------------------------------------------------------------
(* Files *)

Stages == {"Caddyfile", "agents", "daemons", "catalog"}

\* Plists are files of a directory, an identifier prefix and a service.
OwnFiles ==
    {"Caddyfile", "catalog"} \X {"own"} \X {Empty}
        \cup {"agents", "daemons"} \X {"own"} \X Names

ForeignFiles == {"agents", "daemons"} \X {"other"} \X Names

Files == OwnFiles \cup ForeignFiles

TheCaddyfile == <<"Caddyfile", "own", Empty>>
TheCatalog   == <<"catalog", "own", Empty>>

\* desiredArtifacts: what a deployment of registry r leaves in each file.
Desired(r) ==
    [f \in OwnFiles |->
        CASE f[1] = "Caddyfile" -> GenerateCaddyfile(r)
          [] f[1] = "catalog"   -> buildCatalog(r)
          [] f[1] = "agents"    -> IF f[3] \in AgentNames(r)
                                   THEN GenerateLaunchdPlist(f[3], r[f[3]]) ELSE Missing
          [] f[1] = "daemons"   -> IF f[3] \in DaemonNames(r)
                                   THEN GenerateSystemDaemonPlist(f[3]) ELSE Missing]

\* Wrong on purpose: a file that exists is taken to be up to date.
ToWriteIfMissing(r, stage) ==
    {f \in OwnFiles : f[1] = stage /\ Desired(r)[f] # Missing /\ disk[f] = Missing}

\* The files of a stage that writeArtifacts writes for r.
ToWrite(r, stage) == {f \in OwnFiles : f[1] = stage /\ Desired(r)[f] # Missing}

\* plistServiceName over a directory listing: the plists of this prefix.
Listed(dir) == {f \in Files : f[1] = dir /\ f[2] = "own" /\ disk[f] # Missing}

\* Wrong on purpose: nothing is pruned, and any prefix's plists are.
StaleKept(r, dir) == {}
StaleOfAnyPrefix(r, dir) ==
    {f \in Files : f[1] = dir /\ disk[f] # Missing
                   /\ (f \in OwnFiles => Desired(r)[f] = Missing)}

\* pruneStalePlists: what a listing finds that r does not want.
Stale(r, dir) == {f \in Listed(dir) : Desired(r)[f] = Missing}

-----------------------------------------------------------------------------
(* Runs *)

AllKinds == {"sync", "apply", "validate", "preview", "reload"}

ASSUME KindsAssumption == Kinds \subseteq AllKinds

\* The kinds that write the artifacts of the registry they load.
Deploying == {"sync", "apply", "validate"}

Steps == {"idle", "load", "write", "fill", "prune", "check", "read", "post",
          "verify", "compare", "done", "failed"}

\* How the files a run depends on were treated by others since it loaded:
\* left alone, touched by runs of the same registry only, or disturbed.
Quiets == {"alone", "agreeing", "disturbed"}

Idle == [step |-> "idle", kind |-> "sync", snapshot |-> EmptyRegistry,
         stage |-> "Caddyfile", todo |-> {}, file |-> TheCaddyfile, linked |-> FALSE,
         left |-> {}, config |-> Missing, changed |-> {}, unread |-> {}, quiet |-> "alone"]

Become(p, state) == run' = [run EXCEPT ![p] = state]

Goto(p, s) == Become(p, [run[p] EXCEPT !.step = s])

\* Run p enters the writing of a stage, or the pruning of a directory.
StartWriting(p, stage) ==
    [run[p] EXCEPT !.step = "write", !.stage = stage,
                   !.todo = ToWrite(run[p].snapshot, stage)]

StartPruning(p) ==
    [run[p] EXCEPT !.step = "prune", !.todo = Stale(run[p].snapshot, run[p].stage)]

Working(q) == run[q].step \notin {"idle", "load"}

\* What run p's effect on the generated files is to another run q.
Seen(p, q) ==
    IF ~Working(q) THEN run[q].quiet
    ELSE IF run[q].quiet # "disturbed" /\ run[q].snapshot = run[p].snapshot
         THEN "agreeing" ELSE "disturbed"

\* Run p touches file f and becomes `state'; unlink says it removes f, which
\* leaves the descriptors others have open on f without a name.
Touch(p, f, state, unlink) ==
    run' = [q \in Runs |->
              IF q = p THEN state
              ELSE [run[q] EXCEPT !.quiet = Seen(p, q),
                                  !.linked = @ /\ ~(unlink /\ run[q].file = f)]]

\* Run p ends early: a file it left truncated disturbs every other run.
Abandon(p, state) ==
    run' = [q \in Runs |->
              IF q = p THEN state
              ELSE IF run[p].step = "fill" /\ Working(q)
                   THEN [run[q] EXCEPT !.quiet = "disturbed"] ELSE run[q]]

-----------------------------------------------------------------------------
(* Loading and generating *)

Begin(p, kind) ==
    /\ run[p].step = "idle"
    /\ Become(p, [Idle EXCEPT !.step = IF kind = "reload" THEN "check" ELSE "load",
                              !.kind = kind])
    /\ UNCHANGED <<disk, caddy>>

\* loadRegistry, once per run, of whatever services.yaml holds by then: a
\* missing or invalid registry ends the run before it writes.
Load(p) ==
    /\ run[p].step = "load"
    /\ \/ Goto(p, "failed")
       \/ \E r \in {x \in RegistryContents : Validate(x)} :
             LET loaded == [run[p] EXCEPT !.snapshot = r]
             IN  Become(p, IF run[p].kind = "preview"
                           THEN [loaded EXCEPT !.step = "compare"]
                           ELSE [loaded EXCEPT !.step = "write",
                                               !.todo = ToWrite(r, "Caddyfile")])
    /\ UNCHANGED <<disk, caddy>>

\* os.WriteFile opens with O_CREATE|O_TRUNC.  Plists go in map order.
Truncate(p) ==
    /\ run[p].step = "write"
    /\ \E f \in run[p].todo :
          /\ disk' = [disk EXCEPT ![f] = Blank]
          /\ Touch(p, f, [run[p] EXCEPT !.step = "fill", !.file = f, !.linked = TRUE], FALSE)
    /\ UNCHANGED caddy

\* The bytes go to the descriptor, at offset 0: nowhere if the file was
\* unlinked, and over another run's bytes with whatever mixture results.
Fill(p) ==
    LET f    == run[p].file
        text == Desired(run[p].snapshot)[f]
    IN  /\ run[p].step = "fill"
        /\ \E c \in IF ~run[p].linked THEN {disk[f]}
                    ELSE IF disk[f] \in {Blank, text} THEN {text}
                    ELSE {text, disk[f], Garbled} :
              disk' = [disk EXCEPT ![f] = c]
        /\ Touch(p, f, [run[p] EXCEPT !.step = "write", !.todo = @ \ {f}, !.linked = FALSE],
                 FALSE)
        /\ UNCHANGED caddy

\* A file that cannot be opened, or is not filled, ends the run.
WriteFails(p) ==
    /\ \/ run[p].step = "write" /\ run[p].todo # {}
       \/ run[p].step = "fill"
    /\ Abandon(p, [run[p] EXCEPT !.step = "failed", !.linked = FALSE])
    /\ UNCHANGED <<disk, caddy>>

\* All files of a stage are written, and the directory is listed for pruning.
StageWritten(p) ==
    /\ run[p].step = "write"
    /\ run[p].todo = {}
    /\ CASE run[p].stage = "Caddyfile" -> Become(p, StartWriting(p, "agents"))
         [] run[p].stage \in {"agents", "daemons"} -> Become(p, StartPruning(p))
         [] run[p].stage = "catalog" -> Goto(p, "check")
    /\ UNCHANGED <<disk, caddy>>

\* ReadDir fails: pruneStalePlists returns without a word, and what is stale
\* in the directory stays.  `left' remembers it; the run does not.
ListingFails(p) ==
    /\ run[p].step = "write" /\ run[p].todo = {}
    /\ run[p].stage \in {"agents", "daemons"}
    /\ Become(p, [run[p] EXCEPT !.step = "prune",
                                !.left = @ \cup Stale(run[p].snapshot, run[p].stage)])
    /\ UNCHANGED <<disk, caddy>>

\* os.Remove of one listed plist; that it is gone already is ignored ...
Remove(p) ==
    /\ run[p].step = "prune"
    /\ \E f \in run[p].todo :
          /\ disk' = [disk EXCEPT ![f] = Missing]
          /\ Touch(p, f, [run[p] EXCEPT !.todo = @ \ {f}], TRUE)
    /\ UNCHANGED caddy

\* ... and so is every other error: the loop goes on to the next plist.
RemoveFails(p) ==
    /\ run[p].step = "prune"
    /\ \E f \in run[p].todo :
          Become(p, [run[p] EXCEPT !.todo = @ \ {f}, !.left = @ \cup {f}])
    /\ UNCHANGED <<disk, caddy>>

StagePruned(p) ==
    /\ run[p].step = "prune"
    /\ run[p].todo = {}
    /\ Become(p, StartWriting(p, IF run[p].stage = "agents" THEN "daemons" ELSE "catalog"))
    /\ UNCHANGED <<disk, caddy>>

-----------------------------------------------------------------------------
(* Caddy *)

\* Whether Caddy may accept, and may refuse, the contents of a Caddyfile: it
\* refuses a mixture, and what it makes of an empty file is not this code's.
MayAccept(c) == c \notin {Missing, Garbled}
MayRefuse(c) == c \in {Missing, Garbled, Blank}

\* `caddy validate' in reload-caddy.sh, and after it in caddy.validate.
CaddyValidates(p, step, next) ==
    /\ run[p].step = step
    /\ \/ MayAccept(disk[TheCaddyfile]) /\ Goto(p, next)
       \/ MayRefuse(disk[TheCaddyfile]) /\ Goto(p, "failed")
    /\ UNCHANGED <<disk, caddy>>

Check(p)  == CaddyValidates(p, "check", "read")
Verify(p) == CaddyValidates(p, "verify", "done")

\* `caddy reload' reads the Caddyfile again ...
Read(p) ==
    /\ run[p].step = "read"
    /\ \/ /\ MayAccept(disk[TheCaddyfile])
          /\ Become(p, [run[p] EXCEPT !.step = "post", !.config = disk[TheCaddyfile]])
       \/ /\ MayRefuse(disk[TheCaddyfile])
          /\ Goto(p, "failed")
    /\ UNCHANGED <<disk, caddy>>

\* Wrong on purpose: that nobody took the configuration goes unnoticed.
PostUnnoticed(p) ==
    /\ run[p].step = "post"
    /\ caddy' = IF caddy = Missing THEN Missing ELSE run[p].config
    /\ Goto(p, "done")
    /\ UNCHANGED disk

\* ... and posts it to the running Caddy, which may not be there to take it.
Post(p) ==
    /\ run[p].step = "post"
    /\ \/ /\ caddy # Missing
          /\ caddy' = run[p].config
          /\ run' = [q \in Runs |->
                IF q = p
                THEN [run[p] EXCEPT !.step = IF run[p].kind = "validate" THEN "verify" ELSE "done"]
                ELSE IF Working(q) /\ run[q].quiet = "alone"
                THEN [run[q] EXCEPT !.quiet = "agreeing"] ELSE run[q]]
       \/ /\ caddy = Missing
          /\ Goto(p, "failed")
          /\ UNCHANGED caddy
    /\ UNCHANGED disk

\* launchd restarts Caddy whenever it exits; it starts from the Caddyfile.
CaddyRestarts ==
    /\ \/ MayAccept(disk[TheCaddyfile]) /\ caddy' = disk[TheCaddyfile]
       \/ MayRefuse(disk[TheCaddyfile]) /\ caddy' = Missing
    /\ UNCHANGED <<disk, run>>

-----------------------------------------------------------------------------
(* Preview *)

\* What a comparison comes to: whether it counts a change, and whether it could
\* read what it compares.
Seeing(changes) == [changes |-> changes, unread |-> FALSE]
Blind(changes)  == [changes |-> changes, unread |-> TRUE]

\* diffFiles, of the Caddyfile.  One that cannot be read counts as no change,
\* and computeLineDiff passes over blank lines at the end, all that a garbled
\* file may differ in.
diffFiles(r) ==
    LET old == disk[TheCaddyfile]
    IN  {Blind(FALSE)} \cup
        {Seeing(changes) : changes \in IF old = Garbled THEN BOOLEAN
                                       ELSE {old # Desired(r)[TheCaddyfile]}}

\* Wrong on purpose: plists are compared by name only.
diffPlistsByName(r, dir) ==
    {Seeing(\E f \in ToWrite(r, dir) \cup Listed(dir) :
                (disk[f] = Missing) # (Desired(r)[f] = Missing))}

\* diffPlists: a plist to create, update or remove.  One that cannot be read
\* counts as one to update; a directory that cannot, as one that is empty.
diffPlists(r, dir) ==
    { Blind(ToWrite(r, dir) # {}),
      Seeing(\E f \in ToWrite(r, dir) \cup Listed(dir) : disk[f] # Desired(r)[f]) }

\* The names the catalog would gain or lose, and every name when it does not
\* parse.
CatalogDiffers(r) ==
    LET old == disk[TheCatalog]
    IN  IF old \in {Missing, Blank, Garbled}
        THEN Registered(r) # {}
        ELSE DOMAIN old # Registered(r)

\* diffCatalog; a catalog that cannot be read counts as no change.
diffCatalog(r) == {Blind(FALSE), Seeing(CatalogDiffers(r))}

\* What the comparison of each stage may come to.
Verdicts(r, stage) ==
    CASE stage = "Caddyfile" -> diffFiles(r)
      [] stage \in {"agents", "daemons"} -> diffPlists(r, stage)
      [] stage = "catalog" -> diffCatalog(r)

\* The stage after one, for Diff; there is none after the catalog.
NextStage(stage) ==
    CASE stage = "Caddyfile" -> "agents"
      [] stage = "agents"    -> "daemons"
      [] stage \in {"daemons", "catalog"} -> "catalog"

\* Diff reads one kind of artifact after the other; what it cannot read it
\* leaves out, and the preview goes on.
Compare(p) ==
    LET R == run[p]
    IN  /\ R.step = "compare"
        /\ \E verdict \in Verdicts(R.snapshot, R.stage) :
              Become(p, [R EXCEPT
                  !.changed = IF verdict.changes THEN @ \cup {R.stage} ELSE @,
                  !.unread  = IF verdict.unread THEN @ \cup {R.stage} ELSE @,
                  !.step    = IF R.stage = "catalog" THEN "done" ELSE "compare",
                  !.stage   = NextStage(R.stage)])
        /\ UNCHANGED <<disk, caddy>>

-----------------------------------------------------------------------------
(* The surroundings and the specification *)

\* The result is reported; the run is over.
Respond(p) ==
    /\ run[p].step \in {"done", "failed"}
    /\ Become(p, Idle)
    /\ UNCHANGED <<disk, caddy>>

\* The process is killed, or Admin is, and the files stay as they are.
Killed(p) ==
    /\ run[p].step \notin {"idle", "done", "failed"}
    /\ Abandon(p, Idle)
    /\ UNCHANGED <<disk, caddy>>

\* The bundle is fresh, or some registry was deployed before; plists of
\* another identifier prefix may lie beside it.
Init ==
    /\ \E deployed \in {[f \in OwnFiles |-> Missing]}
                          \cup {Desired(r) : r \in {x \in RegistryContents : Validate(x)}},
          foreign \in {Missing, Foreign} :
          disk = [f \in Files |-> IF f \in OwnFiles THEN deployed[f] ELSE foreign]
    /\ caddy = disk[TheCaddyfile]
    /\ run = [p \in Runs |-> Idle]

Step(p) ==
    \/ \E kind \in Kinds : Begin(p, kind)
    \/ Load(p) \/ Truncate(p) \/ Fill(p) \/ WriteFails(p) \/ StageWritten(p)
    \/ ListingFails(p) \/ Remove(p) \/ RemoveFails(p) \/ StagePruned(p)
    \/ Check(p) \/ Verify(p) \/ Read(p) \/ Post(p)
    \/ Compare(p) \/ Respond(p) \/ Killed(p)

Next == CaddyRestarts \/ \E p \in Runs : Step(p)

Spec == Init /\ [][Next]_vars

-----------------------------------------------------------------------------
(* Properties *)

\* The registries a run may hold: one it loaded, or the empty one before that.
Snapshots == RegistryContents \cup {EmptyRegistry}

\* What a file may hold, and so what Caddy may run.
Contents ==
    {Missing, Blank, Garbled, Foreign}
        \cup {Desired(r)[f] : r \in Snapshots, f \in OwnFiles}

RunState ==
    [step : Steps, kind : AllKinds, snapshot : Snapshots,
     stage : Stages, todo : SUBSET OwnFiles, file : OwnFiles, linked : BOOLEAN,
     left : SUBSET OwnFiles, config : Contents, changed : SUBSET Stages,
     unread : SUBSET Stages, quiet : Quiets]

TypeOK ==
    /\ disk \in [Files -> Contents]
    /\ caddy \in Contents
    /\ run \in [Runs -> RunState]

\* The generated files are those of registry r: every one it calls for, whole,
\* and no other of this prefix but those in `left'.
Deployed(r, left) ==
    \A f \in OwnFiles : disk[f] = Desired(r)[f] \/ (f \in left /\ Desired(r)[f] = Missing)

(* A deployment that reports success has left every artifact of one        *)
(* registry, whole, and no other plist of this prefix except those it was  *)
(* not let remove or list, about which its report says nothing - whatever  *)
(* was deployed before, whatever an earlier run that failed or was killed  *)
(* left behind, and even when other deployments of the same registry       *)
(* overlapped it, once none is in the middle of a file (writeArtifacts and *)
(* pruneStalePlists).                                                      *)
DeploymentsConverge ==
    \A p \in Runs :
        /\ run[p].step = "done" /\ run[p].kind \in Deploying
        /\ run[p].quiet # "disturbed"
        /\ \A q \in Runs : run[q].step # "fill"
        => Deployed(run[p].snapshot, run[p].left)

(* After a deployment that nothing overlapped reports success, Caddy       *)
(* serves the routes of that registry, and still does when it restarts.    *)
ServedAsDeployed ==
    \A p \in Runs :
        run[p].step = "done" /\ run[p].kind \in Deploying /\ run[p].quiet = "alone"
            => caddy = GenerateCaddyfile(run[p].snapshot)

\* What applying r would change in a stage; of the catalog, its names only.
Outdated(r, stage) ==
    IF stage = "catalog" THEN CatalogDiffers(r)
    ELSE \E f \in OwnFiles : f[1] = stage /\ disk[f] # Desired(r)[f]

(* A preview that nothing overlapped counts a change in exactly those of   *)
(* the artifacts it could read that applying the registry would change: it *)
(* misses none, never takes another prefix's plist for one of this         *)
(* profile's, and after a deployment it converges.  Of plists it could not *)
(* read or list it misses at most those to remove.  A Caddyfile or catalog *)
(* it could not read shows no change, whatever apply would do to it, and   *)
(* of a garbled Caddyfile nothing is promised (Diff and what it calls).    *)
PreviewIsExact ==
    \A p \in Runs :
        run[p].step = "done" /\ run[p].kind = "preview" /\ run[p].quiet = "alone"
            => LET r == run[p].snapshot
               IN  /\ \A stage \in Stages \ run[p].unread :
                         \/ stage = "Caddyfile" /\ disk[TheCaddyfile] = Garbled
                         \/ stage \in run[p].changed <=> Outdated(r, stage)
                   /\ \A stage \in {"agents", "daemons"} \ run[p].changed :
                         \A f \in ToWrite(r, stage) : disk[f] = Desired(r)[f]
===============================================================================
