# home-stack: verification project

home-stack runs a set of personal services on one Mac: Caddy in front, launchd
underneath, and an Admin program (Go) that owns a registry of services,
generates the Caddyfile, the launchd plists and a catalog from it, and operates
the services through a fixed set of actions. Shell scripts install, load,
upgrade and rotate what the Admin program generates. This directory holds TLA+
models of that code, TLC configurations that check them, and TLAPS proofs.

Paths below are relative to `portable/home-stack/` unless they start with
`docs/`.

## 1. Inventory

| component | state | operations | interacts with |
|---|---|---|---|
| Service registry and generators (`admin/engine.go`) | none: pure functions of `services.yaml` | `Validate`, `serviceOperations`, `GenerateCaddyfile`, `GenerateLaunchdPlist`, `GenerateSystemDaemonPlist`, `buildCatalog` | read by everything below |
| Registry edits (`admin/registry.go`) | `services.yaml`, `services.yaml.tmp` | `AddService`, `RemoveService` | called by Admin actions, one goroutine per request |
| Deployment (`engine.go`, `registry.go`, `actions.go`, `scripts/reload-caddy.sh`) | Caddyfile, `launchd/*.plist`, `daemons/*.plist`, `catalog.json`, the running Caddy | `syncSystem`, `Apply`, `Diff`, `caddy.validate`, `caddy.reload` | reads the registry; the install script reads what it writes |
| launchd scripts (`scripts/install-launchd.sh`, `service-launchd.sh`, `uninstall-launchd.sh`, `lib/common.sh`) | LaunchAgents, LaunchDaemons, launchd's job table | install, `--load`, uninstall, `--unload`, start, stop, restart | read the bundle; run by operators and by Admin |
| Admin actions and HTTP server (`admin/actions.go`, `main.go`) | a 30 s launchd status cache | `executeAction`, `targetAllowed`, `withAuth`, `withMutation` | calls the three above and the scripts |
| Status, incidents, overview (`main.go`, `incidents.go`, `models.go`) | none of their own | `collectServices`, `deriveIncidents`, overall state, offered actions | read the registry, launchd through the cache, and probes |
| Event log (`admin/events.go`) | `events.jsonl` | append, read | written by actions and scripts |
| Portal projections (`admin/portal.go`) | none | `buildPortalCatalog` (the launchers), `buildPortalStatus` (states, signals, aggregate) | reads the catalog and the status page |
| Upgrades (`scripts/lib/upgrade.sh`) | binaries and their `.prev`, upgrade log | per-method upgrade, health wait, revert | restarts through service-launchd.sh |
| Environment file (`scripts/env-set.sh`) | `env.local`, its backups, a lock directory | set a key | read by every wrapper |
| Log rotation (`scripts/rotate-logs.sh`) | each log, its `.1`, `.2`, ... and `.1.gz` | `rotate_one` on every log over the limit | a scheduled job; services and launchd write the logs meanwhile |
| Identity cutover (`scripts/cutover-identity.sh`) | the Caddy binary and its `.x86_64.bak` | replace the binary by the build with the identity modules, `--rollback` | restarts Caddy through launchd, syncs, reloads, checks out `services.yaml` |
| hs (`scripts/hs`) | none | dispatch | Admin actions and scripts |
| Dev gateway (`dev-gateway/main.go`) | none | choose an upstream by host | reads `services.yaml` by itself |
| Doctor, web client, wrappers | none | read-only checks, presentation, exec | none |

What is hard in this code:

* **Concurrency.** `net/http` serves each request in its own goroutine and no
  lock serialises registry edits or deployments; `hs sync` is another process.
  Edits share one temporary path; deployments write the same files in place.
* **Partial failure.** A deployment is a dozen file operations and a reload;
  an install is a loop of launchctl commands under `set -e`. Any of them may
  fail or be killed, and the next run must repair what is left.
* **Asynchrony.** `launchctl bootout` returns before the job is gone, and a
  `bootstrap` or `kickstart` in that window fails or is lost.
* **Staleness.** What an install decides from (the installed file), what a
  preview compares (names), what a page shows (a cache) may differ from what
  is running.

What makes each part correct: a registry on disk is always whole and valid, an
edit takes effect entirely or not at all; the artifacts agree with each other;
a successful deployment leaves one registry's artifacts and Caddy serving
them, and nothing of an earlier one but what it was not let remove; a preview
shows what would change in what it can read; a load leaves every service
running, ingress first, and no script hangs; an action runs only when the
registry allows it, and the answer, the audit event and the identity that
authenticated agree; the pages an operator reads contradict each other, or
offer what is refused, in known cases only; an upgrade or a cutover never loses
the binary it replaces, and the binary in place can run the Caddyfile in place
or, where a copy was cut short, one that can is beside it; overlapping changes
of the environment file lose no setting; a rotation loses nothing it said it
kept.

## 2. Plan

Written, in this order (a module uses those above it):

1. `Registry` - services, validation, operations and the three generators as
   pure operators. Everything else is built from it.
2. `RegistryCell` - the abstract specification of `services.yaml`: one value,
   always valid, changed by whole edits.
3. `RegistryStore` - the same edits as file operations on inodes; it implements
   `RegistryCell` when requests do not overlap.
4. `Deploy` - the deployments, previews and reloads that turn a registry into
   files and a running Caddy.
5. `Launchd`, then `LaunchdScripts` - launchd as the scripts rely on it, and the
   scripts that install, load, cycle, stop and remove jobs.
6. `Upgrade` - one upgrade of one service's binary, and the drift it reports.
7. `Status`, then `Admin` - what pages derive from observations, the portal's
   view included, and the server between a request and what it does.
8. `EnvSet` and `RotateLogs` - the two scripts that rewrite files others use.
9. `Cutover` - the replacement of Caddy's binary, over `Launchd`.
10. `Gateway` - what the development gateway makes of the registry, over
    `RegistryCell`.

The portal's launchers, a pure projection of the registry, are operators of
`Registry`, and what they promise is stated in `RegistryCell`.

Each has an `MC...` module and one configuration per question. The theorems are
in `RegistryCellProofs`, `RegistryStoreProofs`, `DeployProofs`,
`LaunchdScriptsProofs`, `UpgradeProofs`, `AdminProofs`, `HostFilesProofs` (for
`EnvSet` and `RotateLogs`) and `CutoverProofs`.

Not written, and worth having: what a load of the launchd jobs promises when
another script or a sync worked on the same jobs meanwhile. `LoadConverges` is
about a script that was alone; the scripts take no lock, so nothing they read of
launchd need still hold at their next command.

## 3. Modules and the code

The names of definitions are those of the code where TLA+ allows it.

**`Registry`** (`admin/engine.go`). A service is a record of the fields some
condition looks at; hosts, upstreams, roots and programs are members of small
sets. Fields that only pass through to a plist are one field `private`, those
that only reach the catalog one field `about`, and the character-level checks
of names, hosts and paths one flag `wellFormed`, so that what the model
distinguishes is which artifact a change shows up in. `Validate`,
`serviceOperations`, `RoutableURL`, `GenerateCaddyfile`, `GenerateLaunchdPlist`,
`GenerateSystemDaemonPlist` and `buildCatalog` follow the functions of those
names; their results are records, not text. `Validate` includes the check after
the loop that no enabled service is gated by a disabled broker.
`projectCatalogService` and `buildPortalCatalog` (`admin/portal.go`) are the
portal's launchers, a function of catalog entries.

**`RegistryCell`.** `Put` and `Delete` are the effect of `AddService` and
`RemoveService` on the registry readers see; an edit `Validate` refuses does not
happen.

**`Gateway`** (`dev-gateway/main.go`). `Matches` is the test of the loop over the
services - the host itself, or a suffix test against a wildcard - and
`GatewayTargets` the services a request may be forwarded to: the loop takes the
first match in a map's random order, so every match is one. `Handles` are the
handles of the Caddyfile that admit the same request, where a star stands for
one label. Which request ends in which wildcard, and with how many labels before
it, are constants (`Suffixed`, `OneLabel`).

**`RegistryStore`** (`admin/registry.go`). One action per file operation of
`AddService` and `RemoveService`: `Load` (read, edit the copy, validate when
adding), `Open` (create or truncate `services.yaml.tmp`), `Write`, `WriteFails`,
`Check` (load the temporary file back), `Rename`, `Cleanup`, `Respond`, and
`Crash` of the process. Files are inodes, so a writer keeps its descriptor when
another renames the file. `before` is a history variable.

**`Deploy`** (`engine.go`: `syncSystem`, `writeArtifacts`, `pruneStalePlists`;
`registry.go`: `Apply`, `Diff`; `actions.go`: `executeAction`;
`scripts/reload-caddy.sh`). A run is one process or goroutine: `Load` once, then
for each stage `Truncate` and `Fill` each file, list and `Remove` stale plists,
`Check` (`caddy validate`), `Read` and `Post` (`caddy reload`), and for
`caddy.validate` `Verify`. A write that fails ends the run (`WriteFails`); a
directory that cannot be listed and a plist that cannot be removed do not, and
the run does not report them (`ListingFails`, `RemoveFails`): `left`, a history
field, is what stayed for that reason. `Compare` is one kind of artifact of
`Diff`, with `diffFiles`, `diffPlists` and `diffCatalog` as the code has them,
each of which may also be unable to read what it compares (`Blind`); `unread`
remembers that.
`CaddyRestarts` is launchd's restart of Caddy. What Caddy accepts is external:
it refuses a mixture of two files, and may do either with an empty one. The
field `quiet` is history: whether other runs touched the files meanwhile.

**`Launchd`** is external: a job per label that remembers the plist it was
bootstrapped with, and `bootout` that returns before the job is gone - the
behaviour `scripts/lib/common.sh` describes and waits for.

**`LaunchdScripts`** (`install-launchd.sh`, `uninstall-launchd.sh`,
`service-launchd.sh`). A script's program counter, current loop, `CHANGED_AGENTS`
and label. One action per command with an effect; a failing command ends the
script, as `set -e` does. `Ask` is the `launchctl print` that `ensure_loaded` and
`do_restart` branch on, `Start` is `do_start`, of a start and at the end of a
restart that found the label unknown. `Sync` changes the bundle at any time,
`Reboot` loads what is installed, `Killed` ends a script between two commands.

**`Upgrade`** (`scripts/lib/upgrade.sh`). The binary, its `.prev`, the staged
build, the build the process runs, and the script. `Begin` ... `Log` follow the
commands of the per-method functions; the methods differ in whether they build
beside the binary, keep a `.prev`, and check the version. `Respawn` is launchd
restarting the process on whatever is on disk. `ClassifyDrift` is
`home_stack_upgrade_classify_drift`, applied to every version that can be read
off the binary and every pin and latest release.

**`Status`** (`main.go`, `incidents.go`, `models.go`). A page is the registry
entry, launchd state and probe results of each service; the state may be empty,
which is what an output of `launchctl print` without one is parsed to.
`deriveOverall`, `countServiceStates`, `deriveIncidents`,
`overallStateFromIncidents` and `actionsForService` are functions of the page,
and so are the portal's `portalProcessSignal`, `portalHealthSignals`,
`aggregatePortalState` and `buildPortalStatus` (`admin/portal.go`).

**`Admin`** (`main.go`, `actions.go`, `events.go`). A request goes from
`Receive` (past `withAuth`) through `CheckRequest` (`validateActionRequest`),
`Authorise` (the second load of the registry in `runServiceAction`) and
`ScriptEnds`, or `Perform`, to `Audit` and `Respond`; a page from `BeginPage`
through `Collect`. `Edit`, `Expire` and `Relaunch` happen between any two steps.
`granted`, `ran` and `snapshot` are history.

**`RotateLogs`** (`rotate-logs.sh`). A log is the set of lines it holds, a copy
a set of lines that is absent, partly written or whole. The loop visits the logs
in any order; `Shift`, `Copy`, `Copied`, `Gzip`, `Zipped` and `Truncate` are the
commands of `rotate_one`, and each that writes a file is two steps with a kill
or a service's `Append` possible between them. `newest` is history: what the log
held when it was last copied.

**`EnvSet`** (`env-set.sh`). One process per invocation. `mkdir` is `Lock`; the
EXIT trap exists from `SetTrap` to `Untrap`, and `Cleanup` is what it does.
`Interrupted` is a failing command or a signal that the trap sees, `Killed` one
that it does not. `updates`, `killed` and `robbed` are history.

**`Cutover`** (`cutover-identity.sh`, with the parts of `sync` and
`reload-caddy.sh` that it runs). A binary is what it can parse, or a torn file;
a Caddyfile is plain or gated. The steps follow the script's two branches;
`Sync`, `Reload` and `Load` are its `hs sync`: the Caddyfile is written, the
binary in place validates what it reads, and the running one loads that. `Crash`,
`Respawn`, `Stop` and `Stopped` are launchd's and an operator's dealings with the
daemon, `Edit` and `Commit` those with the registry. Any number of other syncs
(`Syncs`) go through the same writing, reading and loading, each step a step of
its own that may be refused, fail or be the last (`OtherWrites`, `OtherReads`,
`OtherLoads`, `OtherFails`); they ask neither for the script nor for what the
binary in place parses. `docs/RUNBOOK.md` asks operators not to sync gated
services before the cutover; the code does not check it, and neither does the
model. `cutShort`, `original`, `torn`, `ahead` and `overtaken` are history.

Operators marked "Wrong on purpose" are mutants: plausible mistakes in the
definition that follows them, used to confirm that a property notices.

## 4. Runs

| run | checks | bounds |
|---|---|---|
| `cell` | `BrokerGatesServed`, `PublishedUrlsAreRoutes`, `PortalShowsWhatIsDeployed`, `GatewayFollowsCaddy` | four names (the broker, the development gateway, one more, a malformed one), some forty-five services that vary in every field the validation, the generators and the gateway combine, three requests for hosts - one that services have, one that a service has and a wildcard admits, one two labels below the wildcard; any number of edits |
| `store_serial` | `LiveIsWhole`, `ReportsAreTrue`, and the refinement `EditsAreAtomic` | one request at a time, two inodes (one serial edit never has more), two names, three services; any number of edits, failures and kills |
| `store_concurrent` | `LiveIsWhole`, violated | two requests at once, four inodes |
| `deploy` | `DeploymentsConverge`, `PreviewIsExact` | one run at a time of every kind, five registries of three services, another prefix's plists; any number of runs |
| `deploy_pair` | `DeploymentsConverge`, `ServedAsDeployed` | two runs file by file, three registries of one service; symmetric in the runs |
| `launchd` | `LoadConverges`, `IngressFirst`, `NoBootstrapWhileLeaving`, and `ScriptsEnd` under fairness | Caddy and two agents, two versions of a plist, three bundles, one script at a time, every command; any number of scripts, syncs, reboots |
| `launchd_stale` | `LoadedIsInstalled`, violated | as `launchd`, install and load only |
| `upgrade` | `KeepsPrevious`, `LogIsTrue`, `BehindMeansOlder` | three builds, two releases and one commit hash, five methods that take every path, any number of upgrades |
| `admin` | `ScriptsAreAuthorised`, `AnswersAreAudited`, `ActorIsAuthenticated`, `TriageAgrees`, `OffersAreAccepted`, `PortalNeverRosier` | one request at a time, every credential, action and target; the service `web` in six forms, one of them a second system service, and a registry that does not load; every launchd state and probe result of `web` |
| `rotate` | `NewestGenerationIsKept`, `NoLogIsStarved` | two logs, each perhaps root's, retentions 0 to 2, a limit of one line, two lines per log; any number of rotations |
| `env_set` | `NoUpdateIsLost`, `NothingIsLeftBehind` | two interchangeable processes, two keys, two values; any number of invocations, signals and kills |
| `cutover` | `CaddyCanRestart`, `OriginalIsKept`, `SuccessServesIdentity` | one Caddy, one plist, two other syncs at a time, every combination of binaries and registries to begin with; any number of cutovers, rollbacks, crashes, edits and syncs |

Every passing run except `deploy_pair`, which `deploy` covers, also checks its
module's `TypeOK`.

Why the bounds are enough. No run bounds the length of a behaviour: the counters
the code has (attempts, seconds, ports) are nondeterministic outcomes, so TLC
explores every sequence. Registries interact through the broker, the ingress and
single entries, so two or three names show every interaction. Agents are treated
alike and independently by the scripts' loops; two of them are needed to have
one changed and one orphaned, or one reached and one not. A third build in
`upgrade` is needed for a release that is not what it is called. In `admin` one
request is enough because requests meet only in the registry and the cache, each
read in one step, and in the log, appended to in one write; `Edit` stands for
the registry edits of all other requests. In `rotate` the two logs are needed
for one to starve the other, a second line for one that arrives between two
rotations, and the retention 2 for a copy that is moved to another number rather
than deleted. In `env_set` a race is between the process that holds the lock and
one other; the second key is one the first process does not set. In `cutover`
two other syncs are needed for one to load what it read before the other wrote.
In `cell` a host that is both registered and below a registered wildcard is
needed for a request that several services match. The theorems of section 6 do not have
these bounds.

Fairness. Only `launchd` needs it: weak fairness of each script's own steps -
the system runs a process that is ready to run. Nothing is assumed of launchd,
whose teardown may last for ever, nor of operators, syncs and reboots. Wherever
the model leaves a script waiting it is the code's bounded wait
(`home_stack_wait_label_gone`) that ends it; with the bound removed `ScriptsEnd`
is violated.

## 5. Findings

Violated promises, each shown by a run:

* `store_concurrent`: requests share `services.yaml.tmp` without a lock, and one
  installs a file another has just truncated (`registry.go:90`, against
  `registry.go:52`).
* `launchd_stale`: `--load` after an install without it, or after a load that
  stopped half-way, leaves the old job running (`install-launchd.sh:88`, against
  `:137`).

Met while reading, without a run of their own:

* `diffCatalog` compares names only, so the preview misses changes an apply would
  write (`registry.go:303`, against `:165`). `PreviewIsExact` leaves the contents
  of catalog entries out for that reason. `computeLineDiff` (`registry.go:437`)
  passes over blank lines, the ones at the end included: a garbled Caddyfile may
  show no change.
* `pruneStalePlists` goes on after any error of `os.Remove` and returns without a
  word when it cannot list the directory (`registry.go:416-430`), and the run
  reports success: the plist of a service that was removed or disabled may
  survive the deployment, against `engine.go:1163-1167` ("has its plist deleted
  the moment it stops being desired"). `DeploymentsConverge` excepts exactly the
  plists that this happened to; the next deployment tries again.
* A Caddyfile or a catalog that a preview cannot read shows no change, with an
  error in the details (`registry.go:250`, `:294`), and a directory that cannot be
  listed is taken for an empty one (`:355`): plists to write are shown, plists to
  remove are not. `PreviewIsExact` says "of what it could read" for that reason.
* `caddy.validate` deploys and reloads before it validates (`actions.go:230`,
  against `:38`); `Deploy` models it so.
* A service behind its pin is reported `ok` when the pin itself is not behind the
  latest release (`lib/upgrade.sh:229`, against `:211`).
  `BehindMeansOlder` promises nothing of that case.
* Log rotation keeps one old generation, not seven: the shift looks for
  `log.1`, `log.2`, ..., and the copies are called `log.1.gz`
  (`rotate-logs.sh:53`, against `:2` and `docs/RUNBOOK.md:488`). Uncompressed
  copies exist only after a failure. A line written between the copy and the
  truncation is lost (`rotate-logs.sh:61-65`); `NewestGenerationIsKept` speaks
  of what was copied.
* `env-set.sh` removes its lock before it clears the trap that removes the lock
  (`env-set.sh:106-107`): a signal in between removes the lock of the next
  process, and two writers overlap. `robbed` marks that case, and without it
  `NoUpdateIsLost` is violated. After `kill -9` the lock directory stays until
  somebody removes it.
* `cutover-identity.sh --rollback` cannot restore a backup that lacks the
  identity modules, which is what a first cutover saves: `verify_binary` exits,
  and `|| true` (`cutover-identity.sh:73`) does not catch it, against
  `docs/RUNBOOK.md:857-866`. A backup torn by an interrupted copy is "left
  alone" (`:98`) by the next run, which then overwrites the only whole binary;
  `cutShort` marks that case.
* The binary is copied over the live one in place (`cutover-identity.sh:112`,
  `:82`). A copy that is cut short leaves a torn binary for good, which launchd
  restarts in vain; nothing notices until the script is run again. `torn` marks
  that case, and `CaddyCanRestart` promises for it that a binary that parses the
  Caddyfile is on disk as the staged build or the backup.
* Syncs other than the script's own check nothing about the binary in place
  before they write the Caddyfile (`engine.go:1174`), and fail only afterwards, in
  `reload-caddy.sh`. Gated routes that are synced before the cutover leave a
  Caddyfile the old binary cannot start from (`ahead`), and launchd restarts it in
  vain until the new build is in place. The script's own steps avoid that order
  (`cutover-identity.sh:114-121`); nothing holds the other syncs to it. A sync between the script's reload
  and its report leaves Caddy serving another Caddyfile than the one on disk
  (`overtaken`).
* The portal shows the process of a scheduled job that is not loaded as
  `scheduled` (`portal.go:251-257`): its state is unavailable, and no signal says
  why. `PortalNeverRosier` leaves scheduled services out there.
* The development gateway's wildcard is a suffix test (`dev-gateway/main.go:67`)
  that several labels pass, where Caddy's star stands for one, and where several
  services match it takes one at random (`:56`), also a wildcard when another
  service has the very host. `GatewayFollowsCaddy` states what is left.
* It matches `host` only (`dev-gateway/main.go:57-70`), and
  `Validate` refuses a `host` inside the parent domain, so no registered service
  is found by the requests that Caddy sends it under a wildcard of that domain. A
  static service with a `host` would be forwarded to an empty upstream.
* A service with a `host` outside the parent domain gets its handle inside the
  site block of `*.<parent>` (`engine.go:642-776`), which never admits that host,
  while `checkRoute` finds the handle and reports it loaded. What requests a
  handle can be reached by is Caddy's, and no property is stated about it.
* An event whose write is cut short leaves a line that the next event is appended
  to, and `readEvents` then skips both.
* `service-launchd.sh:184`: a restart right after a stop finds the label still
  printed, kickstarts it, and the job is gone a moment later. What `kickstart`
  makes of such a job is launchd's, so no property is stated.
* `registry.add` and `registry.remove` accept the target `system` only
  (`actions.go:84`, `:92`), and the service name is the target: `hs service add`
  and `remove` (`scripts/hs:513-592`) and the web client's Add and Remove
  (`templates/app.js:71`, `:105`, `:356`) are refused for every other name.
  `RegistryStore` models what the two actions do once let in; its `Targets` are
  a parameter, so that the model does not depend on it.
* A disabled service that still runs and whose lifecycle is not `managed` gets an
  incident that recommends `service.stop`, which is refused;
  `docs/SERVICE_INTERFACE.md:165-171` promises the one action. `OffersAreAccepted`
  says "managed" for that reason. The incident is raised for the state
  `running` only, not for a job that is loaded and idle. Other incidents may
  recommend a `service.restart` that a system or external service refuses.
* A required service whose `launchctl print` has no state in it is counted
  degraded (`main.go:1069`) and raises no incident (`incidents.go:37`): the stack is
  shown healthy all the same. `TriageAgrees` excepts it (`Unreported`).
* A page offers `caddy.reload` and `caddy.validate` for every service of type
  `system` (`actions.go:163`), and `targetAllowed` accepts them for `caddy` only;
  `Validate` admits other system services. `OffersAreAccepted` says which offers are
  refused.
* An idle scheduled service is counted healthy and has an `info` incident; an
  idle service of type `task` without a kind is counted degraded, because
  `deriveOverall` looks at `kind` and `isOptionalService` also at `type`.
* `engine.go:214`: external services with a `program` get an agent plist, against
  `docs/DECISIONS_LOG.md:47`.
* `actions.go:139`: a managed static service is operable although it has no
  plist; the script then fails.
* `hs upgrade caddy` kickstarts Caddy itself (`lib/upgrade.sh:566`), where
  `docs/RUNBOOK.md:583` says that it only prints the command for it.
* A client that disconnects cancels `r.Context()` and with it the script it
  started; a load killed that way is repaired by the next (`LoadConverges`).
* When the last agent leaves the registry, `install-launchd.sh:59` exits before it
  prunes, and the last orphan keeps running.
* A second upgrade copies whatever is installed over `.prev`, a build that never
  served included (`lib/upgrade.sh:468`); `KeepsPrevious` holds until then.
* The 30-second cache is not emptied by actions: the page after a stop may show
  the service running.

## 6. Proofs

Every invariant a passing run checks, and the refinement of `store_serial`, is
also a theorem, for every value of the constants that satisfies the named
`ASSUME`s: candidates are services, initial registries are valid, what the
generators make is not a missing, truncated or garbled file, and the markers
`Absent`, `Blank`, `Missing`, ... are not ordinary values. Some theorems have
one more hypothesis, explained below: the exclusion of overlapping edits in
`RegistryStoreProofs`, and for the number of commands in `LaunchdScriptsProofs`
that there are finitely many agents.
Almost none of the invariants is inductive; each strengthening was checked by TLC
first.

* **`RegistryCellProofs`**: the inductive invariant is `TypeOK` and
  `Validate(registry)`. `BrokerGatesServed`, `PublishedUrlsAreRoutes`,
  `PortalShowsWhatIsDeployed` (theorem `PortalIsTruthful`) and
  `GatewayFollowsCaddy` (`GatewayAgrees`) follow from validity, whatever the
  edits were. The lemmas: an edit of a registry is a registry, the gate of a
  route of a valid registry forwards to its broker, the url of a service is its
  route, an enabled proxy or split service with a host has a handle for it that
  leads to its upstream (`HostIsRouted`), and a service whose handle admits a
  request is one the gateway's loop matches (`HandleIsMatched`).
* **`RegistryStoreProofs`**: `TypeOK` however the requests overlap. The rest
  needs exclusion, which the code does not have (`AddService` and `RemoveService`
  take no lock: `registryMu` is taken by `addServiceToRegistry` only, which no
  route reaches), and the theorems
  say how much of it each property needs:

  | as long as always | the requests keep | theorem |
  |---|---|---|
  | `OneTemporary`: one at a time between opening `services.yaml.tmp` and renaming or removing it | `LiveIsWhole` | `ExclusiveTemporary` |
  | `OneEditor`: one at a time between reading `services.yaml` and renaming or removing the copy | the refinement `EditsAreAtomic` | `ExclusiveEdits` |
  | `OneRequest`: one at a time between request and answer | `ReportsAreTrue` | `ExclusiveReports` |

  The hypotheses are about the states of a behaviour, `Spec /\ []OneEditor =>
  EditsAreAtomic`, for any number of writers; each is what a lock held over that
  stretch would establish. Each has its inductive invariant, and each contains the
  one before: `TemporaryInv` (the temporary file is the writer's own and not the
  live one, and what is about to be renamed is valid), `EditorInv` (and the
  registry is still the one the copy was made from), `RequestInv` (and the one the
  request found, or its edit). `LiveIsWhole` alone is not inductive: nothing in it
  says that `services.yaml.tmp` was checked since it was last written. With two
  writers TLC finds an update lost under `OneTemporary` and a false report under
  `OneEditor`, so the three are not the same, and `store_concurrent` shows that
  without any even `LiveIsWhole` fails. One writer excludes everything: that
  is `Serial`, the instance of `store_serial`, and the theorems `Serial...`. In the
  refinement the rename is the one step that is not a stutter.
* **`DeployProofs`**: `DeploymentsConverge`, `ServedAsDeployed` and
  `PreviewIsExact` for any registries and any number of overlapping, failing and
  killed runs. `DeployInv` says which files a run has settled by its stage and
  what is left of the stage (`Settled`), and that these are as its registry wants
  them, or among those it was not let remove, or truncated by a run of the same
  registry that still has the file open (`Converging`, `Intact`) - which is why
  `DeploymentsConverge` holds only once no run is in the middle of a file. `Serving` and `Comparing` are the same for what
  Caddy was told and what a preview has compared. Others' steps either write what
  the registry wants anyway or end the run's being undisturbed (the lemmas
  `...Others`). `ArtifactsAssumption` is needed here: a registry whose Caddyfile
  were the empty file could not be told from one being written.
* **`LaunchdScriptsProofs`**: `NoBootstrapWhileLeaving`, `IngressFirst` and
  `LoadConverges` for any number of scripts, agents, plists and bundles, through
  syncs, kills and restarts of the machine. `Ready` says, for each step of a
  script that has been alone, what the command it is about to run relies on: at
  `bootstrap` and `port` that launchd has forgotten the label, from the agents'
  loop on that Caddy runs its installed plist. A script's own steps establish it,
  everybody else's end its being alone (`OneBecomes`, `SyncReady`), and launchd
  forgetting a label disturbs neither part (`JobGoneReady`). `AllProgress` follows
  a load through its loops: what it works on, and that only the label it waits
  for is tearing down (`Scope`), which plists are copied and which orphans gone
  (`Filed`), which agents have a job again (`Cycled`). `ScriptsAdvance` is what
  the ending of scripts rests on besides fairness: `Remaining`, a number computed
  from the loop a script is in, what is left of it and the turn on the label at
  hand, never grows, falls with every command of the script, whatever the others,
  syncs and launchd do, and is at most thirty times the number of labels plus
  thirty. It needs `AllInCourse` (`ScriptsKeepCourse`): a label stays in its loop
  until it is dealt with, and no loop of a load takes up Caddy, which would send
  it back to the agents.
* **`UpgradeProofs`**: `KeepsPrevious`, from the invariant `Whereabouts`, which
  says for each step of the script where the binary it found is: in place until
  the backup is complete, at `.prev` until a revert has moved it back. `LogIsTrue`
  from `Ledger`, which says from the step that obtains them what a result and a
  restart that worked stand for. `BehindMeansOlder` is a fact about
  `ClassifyDrift`.
* **`AdminProofs`**: with `Progress` - what each step of a request has
  established about `granted`, `ran` and the event - `ScriptsAreAuthorised`,
  `AnswersAreAudited`, `ActorIsAuthenticated` and `TriageAgrees`, for any users,
  registries and number of requests at once. `PortalNeverRosier` (theorem
  `PortalAgrees`) follows from what a page is: the lemmas `PortalStates` and
  `SignalsAccount` relate a service's portal state and signals to its overall
  state, `PagePortal` the two aggregates. `OffersAreAccepted` (`OffersAccepted`)
  from `Shows`, a page is made of the valid registry it began with.
* **`HostFilesProofs`**, of `env-set.sh`: `NoUpdateIsLost` and
  `NothingIsLeftBehind` for any number of updates, keys and values. The invariant
  adds what the first does not say: `Sound` (a process under way has its key,
  value and copy), `Exclusion` (until a process is robbed of its lock, one holds
  it and the directory is there) and `InProgress` (what the holder backed up is
  what the file still holds, and its copy is the file with its key set).
  `UpdatesAreAtomic` follows: the file changes only by whole updates. Of
  `rotate-logs.sh`: `NewestGenerationIsKept` and `NoLogIsStarved` for any number
  of logs, limits and retentions. `Kept` says at which step the newest generation
  is in the log, in the copy and in `log.1.gz`; `Pending` that a log that was over
  the limit has been rotated, is being rotated, or is still due when the loop
  reaches it, since a log only grows. The module extends both, which is why the
  names of `RotateLogs` that `EnvSet` has too say what they belong to
  (`RotationSpec`, `RotationTypeOK`).
* **`CutoverProofs`**: `CaddyCanRestart`, `OriginalIsKept` and
  `SuccessServesIdentity` for any plists and any order of the script's steps,
  crashes, edits, stops, and any number of other syncs. `Prepared` says which binary
  is staged, saved and in place at each step, `Recoverable` which one a torn binary
  can be repaired with, `Original` that nothing replaces the original before
  it is saved whole, `Supervised` that Caddy runs only while its job is loaded,
  and `Achieved` what a cutover has reached once it restarted the daemon.

Only model-checked: that scripts end (`ScriptsEnd`), because the proof system does
not reason about fairness or `ENABLED`: `ScriptsAdvance` bounds the commands of a
script, and that a script can always run its next one, and does, is TLC's. It has
no induction over data either, and no module with a theorem reaches a `RECURSIVE` operator.

## 7. Not modelled

* Of the HTTP server, what changes no state: `withMutation`'s same-origin check,
  method checks, static files, the redaction and paging of the event log.
  Graceful shutdown is part of `Relaunch`.
* Of the portal, names, kinds, times and the spelling of its JSON; of
  `env-set.sh`, quoting and file modes; of `cutover-identity.sh`, the two
  commands at once, and what makes a binary parse a gated Caddyfile.
* Of the development gateway, what forwards a request once its service is found:
  rewriting, headers, errors of the upstream. `Gateway` is asked for hosts outside
  the parent domain (`RequestHosts`), and on registries that `Validate` passes; the
  gateway itself reads `services.yaml` unvalidated, so an edit by hand is left out.
* Text: YAML, the Caddyfile's and the plists' syntax, log lines, messages.
* The doctor, `hs` itself, the web client and the `run-*.sh` wrappers: they read,
  present, or pass on to what is modelled.
* Caddy, launchd, package managers, builds and downloads are external and
  nondeterministic. Two upgrades of one service at once are left out. The runs
  have one launchd script at a time; what holds of several at once is what
  `LaunchdScriptsProofs` proves.
