# Verification of jawata-studio

jawata-studio is a desktop program (Rust, Tauri) that downloads the jawata
engine, runs one resident engine process per workspace of Java projects, wires
the residents into AI clients and installs a hook binary those clients call.
This directory holds TLA+ models of its stateful parts, the TLC configurations
that check them, and TLAPS proofs of the properties that matter most.

Paths below are relative to the repository. `rm:N` is line N of
`src-tauri/src/runtime_manager.rs`.

## 1. Inventory

| component | state it keeps | operations | hard behaviour | what makes it correct |
|---|---|---|---|---|
| runtime manager (`runtime_manager.rs`) | `handles` (workspace to process and members), `snapshots` (project to last status), `runtime-state.json`; the residents themselves | start, stop, stop workspace, status, remove; adoption of residents that outlived Studio | called by several threads; locks released around probes and kills; residents die, Studio restarts, pids are reused | a stop acts or says so; nobody else's process is killed; a project that leaves does not take the others' engine down; a resident is never lost |
| manager service, fleet operations (`manager_service.rs`) | none of its own; config store and runtime manager | start all (staggered), start some, stop all, reload all, toggle, delete workspace, move project | long sequences of runtime-manager calls racing single ones | one import at a time; reload really reloads; a live workspace is not deleted |
| manager service, release sync | the "sync running" flag, the settings it copies | sync now, download or update, refresh | minutes between reading and writing the settings; two entry points, one flag | no setting saved meanwhile is lost; one download at a time |
| release manager (`release_manager.rs`) | versioned engine directories, the `current` link, manifests, partial archives | check, download with resume, trial, activate, clean up | crash between any two file operations; resumed and concurrent downloads | the stable jar path always leads to an engine that passed its trial; a failed install can be retried |
| config store (`config.rs`, `resident.rs`, `backups.rs`) | settings, projects, resident port and token table, each a mutex and a file | updates, port allocation and release, import and rename | memory changed before validation and before the write; whole-record writes | memory and file agree; no two workspaces share a port |
| store seeding (`store_seed.rs`) | the ledger: `seeded`, `in_flight` | seed when an engine comes up or on Deploy | three residents come up at once on one store | one load at a time; one load per engine build |
| gateway (`gateway.rs`) | none (a route table) | pick a route for a call | nested project paths | the most specific workspace answers |
| tray, canary (`lib.rs`, `field_view.rs`) | wake channels, the canary board, the painted verdict | canary rounds, readability rounds, wake | two threads that copy, judge and replace one board; wakes during a round; icons sent and not shown | a change is looked at after it happened; the light ends up true |
| deploy (`manager_service.rs`, `client_dialect.rs`, `conductor.rs`) | managed blocks in other programs' files | merge, remove | text that users have edited | user text is kept; deploy is idempotent |
| seat runner, importers, log, commands | little or none | | | |
| hook: one-use records, observer, judge (`jawata-hook/src/oneshot.rs`, `watch.rs`, `judge.rs`) | small files per session | open, peek, take, discard; start a judge, deliver its verdict | many short processes on one file, a detached child that may be late | a record is used once; one judge at a time; a halt is delivered once |
| hook: stop gate, autonomy (`stop.rs`, `autonomy.rs`) | counters and records per session | may the turn end | loops of refusals | a turn is not blocked for ever |
| hook: guard and edit gates | declarations and windows | allow, refuse, redirect | quoting, wrappers, stale windows | a refusal can be lifted once by the declared way |
| hook: silence log, field counters | append-only logs | append, rotate | concurrent appends and rotation | bounded, no record of another process destroyed |
| frontend (`src/lib/stores/app.ts`) | the last answer of each command | | | |

How they interact: Tauri commands and the tray call the manager service from
several threads; it asks the config store and the release manager what to
launch and calls the runtime manager; the runtime manager talks to the
residents over loopback HTTP (`health_check`) and through the process table,
and calls the ready listener, which seeds the store. The background threads
(canary, readability, release sync) call the same manager service. The hook
binary shares only files and the residents' HTTP endpoint with Studio.

## 2. Modules

| module | what it is |
|---|---|
| `RuntimeManager` | the runtime manager with its callers, the residents and the operating system |
| `ResidentCustody` | what the runtime manager promises about residents, without its tables |
| `MCRuntimeManager` | the small instances TLC checks |
| `RuntimeManagerProofs` | the theorems about `RuntimeManager` |
| `OneCallerProofs` | those for calls that do not overlap |
| `StoreSeed` | the seeding of knowledge stores and what names the engine of a request |
| `MCStoreSeed` | its small instances |
| `StoreSeedProofs` | the theorems about `StoreSeed` |
| `ReleaseInstall` | the release manager: two installers and the tools folder, with crashes |
| `MCReleaseInstall` | its small instances |
| `ReleaseInstallProofs` | the theorems about `ReleaseInstall` |
| `Settings` | the settings record, its file, and the threads that write a whole copy of it back |
| `Workspaces` | the commands over projects, workspaces, ports, `workspace.json`, residents and deployed endpoints |
| `MCConfig` | instances of `Settings` and `Workspaces` |
| `RecordFile` | the file of a one-use record, as its readers find it |
| `OneUse` | what a one-use record promises |
| `ObserverJudge` | the hook's observer: ledger, first-tier halts, the detached judge and its verdict |
| `EditGates` | the guard and the duplicate gate over edits and commands, and what a session declares to pass them |
| `StopGate` | the stop gate, the grant of autonomy and every counter that bounds a hold |
| `MCHook` | instances of the three hook modules |
| `ObserverProofs` | the theorems about `ObserverJudge` and `OneUse` |
| `GateProofs` | the theorems about `EditGates` and `StopGate` |
| `Canary` | the tray's light: the canary, the fast lane, their board and the icon |
| `MCCanary` | a small instance of it |
| `CanaryProofs` | the theorems about `Canary` |
| `ConfigProofs` | the theorems about `Settings` and `Workspaces` |

`ObserverJudge` and `EditGates` extend `RecordFile`. The three hook modules
share no file, nor do `Settings` and `Workspaces`, so `MCHook` and `MCConfig`
give each behaviour one `part`: one run checks all parts without multiplying
their states.

### RuntimeManager

*State.* `handles` is the `handles` map (`RuntimeProcess::Owned(Child)` or
`Adopted { pid, .. }` and its members); `snapshots` the map of status records,
reduced to phase and pid; `stateFile` is what reading `runtime-state.json`
would give now; `threads` holds for each Studio thread the call it executes, its
program counter and its locals; `procs` is the process table: for each pid its
state (`starting`, `serving`, `zombie`, `stranger`, `free`), its workspace,
whether it is a child of the running Studio, whether its READY line was read
and whether it was given the consent to upgrade the store. `budget` bounds the
run.

*Actions.* A call (`Call`) is cut where the code releases a lock or makes a
system call, so that every interleaving of two calls the code allows is one of
the model's:

| code | actions |
|---|---|
| `start_runtime` (rm:646-811) | `CommandSpecFor`, `TryJoin`, the adoption, `Spawn`, `OwnSpawned` |
| `try_adopt` (rm:1369-1494) | `AdoptContains`, `AdoptProbe`, `AdoptDiscover`, `AdoptInsert` |
| `get_runtime_status` (rm:1035-1084) | `TryJoinReadonly`, `ExpectedUp`, the adoption, `AnswerFromSnapshot` |
| `stop_runtime` (rm:897-965) | the adoption, `StopLeave`, the kill, `persist_snapshot` |
| `stop_workspace_runtime` (rm:996-1033) | `StopWorkspaceTake`, the kill, `MarkStopped` for each member |
| `remove_project_runtime` (rm:1089-1134) | `RemoveFind`, `RemoveLeave`, the kill, `RemoveForget` |
| `kill_and_reap` (rm:524-547) | `KillOwned`, or `VerifyListener`, `VerifyAnswers`, `SignalPid` |
| `persist_snapshot`, `write_runtime_state` (rm:1641, 1825) | `PersistMemory`, `OpenStateFile` (truncates), `WriteStateFile` |
| `RuntimeManager::new` (rm:618) | `StudioRestart`, possible at any point of any call |
| the residents and the system | `Bind`, `ExitBusy`, `ReadyLine`, `Die`, `Recycle` |

*Abstractions.* Texts, paths, logs and exit codes are left out. A project
without a record and one recorded as Stopped read the same everywhere in the
code and are one value. A state file that is missing, truncated or mangled
reads as no records (`unwrap_or_default`, rm:619). The two-second guess of the
phase is a choice between Starting and Running. A workspace's port and token
are the workspace itself: the allocator gives different workspaces different
ports, and only residents are taken to listen on them. `kill` and `wait` of an
Owned child are one step.

*Assumptions.* Two residents never get the same pid; a pid that a resident
left may go to a stranger, but not within the milliseconds in which
`kill_and_reap` has verified it and kills it (`InKillWindow`): no program can
close that window with `kill -9`. File writes do not fail, a thread can be
created, `try_wait` and `wait` do not return errors.

*Not modelled here.* `publish_sibling_registry`, the call of the ready
listener (see `StoreSeed`), `set_project_workspace` (a project's workspace is a
constant), `workspaces_not_yet_ready` (a read).

### ResidentCustody

A pid's `fate` (never a resident, running, exited by itself, stopped by Studio)
and the set `custody` of pids Studio answers for. Studio ends only residents in
its custody and lets go of a pid only when its resident no longer runs, or when
Studio itself ends. `RuntimeManager` maps `custody` to the pids in the handles
map or in the hand of a call; `CustodyKept` is the abstract specification under
that mapping.

### StoreSeed

*State.* `seeded` and `inFlight` are the two sets of `SeedLedger`; `seeds` holds
for each thread of `seed_in_background` its target, its trigger and how far
`seed` has come. `installed` is the engine build behind the jar path of the
settings, `runs` the build each resident runs, `managed` the residents this
Studio has announced. `loadedBy` is there for the properties only: for each key
of the ledger, a store and an engine name, the builds whose load under this key
was answered with success since Studio started. It is emptied when Studio
restarts, as the ledger is.

*Actions.* `seed` is cut at each lock and each call to the resident: `Stats`,
`CheckSeeded`, `Claim`, `Load`, `Release`, `Record`. Requests come from a
resident that comes up (`ComeUp`), one that outlived Studio (`Adopt`) and a
deploy (`Deploy`). A `Load` is done by the engine that runs by then. `Update`
changes the installed engine, `StudioRestart` empties the ledger and leaves the
residents alone.

*Abstractions.* A store is the file the resident's stats report (a resident that
reports none is keyed by its own url: a store of its own). The auto-seed
settings are on. A load that times out has failed; what the engine goes on doing
with it is not followed. `JarOf` says which jar path a build is launched from:
the runs use the stable `tools/current` path of installed releases.

### ReleaseInstall

*State.* What lasts is the tools folder: `dirs`, for each release whether
`jawata-<version>` holds an unpacked engine and whether its `runtime.json` is
absent, torn or whole; `current`, where the link leads; `partial`, the waiting
archive of each release; `held`, the note of a release the trial refused.
`installers` holds for each of the two threads that install (the background
check, of which the flag allows one, and the download command, which runs on the
main thread) its program counter, its release, what it found installed, whether
it had the archive to itself, and the directories it is about to remove.
`latest` is what GitHub answers.

*Actions.* One per request and per file operation, because Studio may end
between any two (`Crash`):

| code | actions |
|---|---|
| `sync_with_settings`, `download_latest_runtime` (432-515, 553-592) | `Begin`, `Look`, `Fetch`, `Decide` |
| `install_release` (686-778), `fetch_resumable` (42-74) | `Cached`, `Open`, `Body`, `Unpack` |
| `engine_trial`, `activate_extracted` (991-1086) | `Trial`, `Rename`, `Swap`, `ListOld`, `Clean`, `OpenManifest`, `WriteManifest` |
| the end of a successful install (768-772, 494) | `Finish` |
| GitHub, the end of Studio | `Publish`, `Crash` |

*Abstractions.* Checking for updates is on; `UpdatePolicy::Ask` is a check that
may decline. The link is POSIX (on Windows there is none). Requests, downloads,
unpacking and trials may fail; other file operations do not, except that a
rename onto a directory that is not empty and a write into one that is gone
fail as rename(2) and open(2) do. An archive two downloads have written to may be
anything, and only a whole one unpacks. A refused release fails every trial, a
good one may fail one too. Temporary directories, the note's Studio version and
a release without a jar are left out.

### Settings

*State.* `settings` is the record behind the mutex of `ConfigStore`, `file` what
`settings.json` would give a reader, `Torn` included; `threads` the copy that
`sync_releases_now` or `download_or_update_jawata` holds while it talks to
GitHub; `running` the flag `release_sync_running`. One field stands for each
fate a field can have (see the head of the module). `saved`, `spoilt` and
`missed` are there for the properties: what was last reported saved, and which
fields a refused update or an overtaken copy may have changed.

*Actions.* `Boot` (read, migrate, write), `End`, `UpdateSettings` with its
checks in order, `SetSilenced`, `RememberEclipse`; `StartSync`, `StartDownload`,
`Answer`, `AnswerDownload`, `Loaded`, `GiveUp`, `WriteBack`. Every save may fail,
with the old file or a truncated one. The mutex makes each store operation one
step; the copies are taken and written back in different steps, because the code
holds no lock in between.

### Workspaces

*State.* `registered` and `entries` are `projects.json`; `json` the
`workspace.json` of each workspace (its projects, and which of them declare
source folders); `residents`, `handles` and `snaps` the runtime manager reduced
to its effect; `deployed` the ports in the clients' configurations. `todo` is
what each of two threads still has to do: a command is the sequence of its calls
into the store and the runtime manager, and each call is a step.

*Actions.* One per call (`Register`, `SetWorkspace`, `Rename`, `Forget`,
`ReleaseEntry`, `WriteJson`, `WriteJsonWithout`, `DropFolder`, `Resolve`,
`Unresolved` (without a port a project's steps are not made), `StartResident`, `StopResident`, `StopWorkspace`, `RemoveRuntime`,
`RefuseIfLive`, `LoadDashboard`, `AwaitSettled`, `RefreshDeployed`, `Deploy`,
`ListMembers`, `DropIfEmpty`, `WriteAll`, `AwaitImport`, `Restore`,
`StartProject`, `StopProject`, `Toggle`) and one for the choice of the command
(`Call`, `FleetCall`). `Import` is an engine that finishes its import;
`StudioRestart` forgets the handles and keeps the files and the residents.

*Abstractions.* A runtime-manager call is one step here; `RuntimeManager` opens
it. Residents do not die by themselves. A port stands for the token allocated
with it. `Main` is the one thread of the window's synchronous commands, `Fleet`
one thread that starts, reloads or toggles everything.

### ObserverJudge

*State.* `ledger` is the session's ledger, line by line; `reminder`, `verdict`
and `marker` the one-use files; `brief` the number whose window the brief file
holds; `hook` the process before and after each call; `judge` the detached
judges; `now` the clock. Operators fold the ledger as the code does: `Number`,
`JudgedAt`, `Refused`, `RecentlyHalted`, `Habit`.

*Actions.* The hook before a call is cut at every file it touches: `Begin`,
`RemindHalt`, `AppendCall`, `ReadVerdict`, `TakeVerdict`, `RemindJudged`, `Due`,
`WriteBrief`, `OpenMarker`, `MarkJudged`, `Spawn`, `End`, which writes the
decision into the ledger, and `Deliver`, which prints the answer; the one after
it is `ReadReminder`, `TakeReminder`. A judge is `ReadBrief`, `Hire`, `DropMarker`.
The client may kill a hook between any two of these (`Kill`): a call whose
refusal is in the ledger then runs. A judge may die (`JudgeDies`), time passes
(`ObserverTick`). A verdict is a record of `RecordFile`, and `RecordsAreOneUse`
says that the verdict and the reminder implement `OneUse`, an abstract module of
four lines, under the mapping at the end of `ObserverJudge`.

### EditGates

*State.* `window`, `once`, `pending`, `said` and `stamp` are the five files of
`editgate.rs`, `dupgate.rs` and `javawatch.rs`; `call` the progress of the guard
and of the recall hook of each call, which run side by side; `touched` when each
call wrote Java; `misses` the log of unnoticed writes.

*Actions.* `Declare`, `OpenWindow`, `PeekPending`, `Say`, `Stamp` for a command;
`ReadOnce`, `TakeOnce`, `JudgeEdit` for the guard of an edit; `ReadSaid`,
`TakeSaid`, `DropPending`, `Refuse` for the duplicate gate; `Decide`, `Run`,
`After`, `GatesTick`. What a text looks like is a choice of `Plans`: the tools
whose work an edit does, the job nominated for it.

### StopGate

*State.* `turn` is what `read_turn` (stop.rs) makes of the window the last
wake-up opened: who opened it, what was written, the judge's calls and first
verdict, an open instruction, relayed refusals. `awaited` is the
background work the transcript shows as pending, `over` what of it the machine
shows as over (`on_machine`: its output file has the exit marker); only the rest
is armed. `store` is what the knowledge store still lacks. `grant`, `reseed`,
`jobs` and `carried` are the counter files. `word`, `asked`, `told`
and `streak` are observers: they follow what the judge and the agent do, without
the rules of `read_turn`, and the properties are stated over them.

*Actions.* What opens a window: `Prompt`, `Interrupt`, `Wake`. What the agent
does in it: `Work`, `Author`, `Deposit`, `Launch`, `Consult`, `SendJudge`,
`Relay`; background work ends (`Finish`), and the machine may show it first
(`Machine`). `Stop` is the whole of `stop_gate`: the facts, the decision with its
rules in order (`HeldBy`), and all counters around it. `Unanswered` is the gate
that gives no verdict: no payload or transcript it can read, or its watchdog
ended it.

*Abstractions.* The four rules about the message are one choice (`poor`). A
count of refusals is followed up to the alarm. The store is asked
for the story and for the members in two calls, and in a `silent` situation either
may go unanswered, which reads as nothing lacking (`Owed`); counters that cannot be written
(`full`) are not written, for the whole of one stop. A client marks a retry or
does not (`marks`).

### Canary

*State.* `condition` is what each resident is and would answer; `board` the
readings of the last deep round, by resident; `wake` the one-slot channel
`CANARY_WAKE`; `canary` and `lane` the two threads with what they have read;
`icon` the verdict last sent, whether a minute has passed since, and the verdict
on screen. `owed` is a history variable: a round was asked for after the last
one looked around.

*Actions.* The canary waits (`CanaryIsWoken`, `WaitRunsOut`), reads which
residents should run and which are not ready (`TakePopulation`, `TakeRising`),
asks them one by one (`AskResident`), stitches the ages of the imports into the
answers and replaces the board (`Publish`), and paints. The lane takes a verdict
from the board without asking anybody (`VerdictNow`), paints it, compares what
should run with what it saw last (`Compare`, which wakes the canary), copies the
board (`CopyBoard`), asks each workspace whether it can be read
(`ReadWorkspace`) and writes the copy back if an answer changed it
(`WriteBack`). Residents change (`Turn`) and rounds are asked for
(`RequestRound`) between any two steps.

*Abstractions.* Time is what passes when a wait of the canary runs out: imports
grow older then, and the icon is due again. The lengths of the waits (15 s and
300 s) and the channel that makes the lane's next tick come sooner are
therefore not in the model, and neither are the words of the tooltip. The
three questions a deep round asks one resident are one step. The population is
not empty: with nothing deployed a round does nothing.

## 3. Runs

Bounds common to all: pids are interchangeable, `MaxOps` counts calls other
than status polls (polls are unbounded). In `StoreSeed` a request is one run of
`seed`, and `MaxAsks` counts them.

| run | instance | checks |
|---|---|---|
| `RuntimeManagerSequential` | one thread with every operation, two projects in `w1`, one in `w2`, 3 pids, 3 calls, a death, a restart, a recycled pid | `TypeOK`, `KillSparesUsers`, `StopActs`, `MembersAreLive`, `StoppedStaysStopped`, `OneConsent`, `CustodyKept` |
| `RuntimeManagerRaces` | two threads that start, stop and poll one project, 2 pids, 3 calls, a death, a restart, a recycled pid, probes that time out, hidden pids | `KillsAreSafe`, `StrangerSpared`, `ChildKeptByAdoption` |
| `RuntimeManagerLive` | fair polling, two threads that start and stop one project, of which one also removes it, 2 pids, 2 calls, two deaths, a restart, a recycled pid | `OrphanIsRecovered`, `DeathIsNoticed` |
| `StoreSeed` | three requests of three residents, two of which share a store, two builds under one jar path, an update, a restart | `TypeOK`, `OneLoadAtATime`, `ClaimsAreHeld`, `SeededWasLoaded` |
| `ReleaseInstall` | both installers, three releases of which the second is refused, five checks or downloads, Studio ends twice | `TypeOK`, `CurrentResolves`, `RefusedUnreachable`, `OneEngineKept` |
| `Config` | `Settings`: two checks, the window's thread, two saves, a failed write, two boots. `Workspaces`: two projects, two names, two ports, so that the table may have no port left; up to four commands alone, up to four with a restart, two next to one of start all, reload all or toggle | `ConfigTypeOK`, `SavedStaysSaved`, `OneSync`, `PortsDistinct`, `NoForeignProjects`, `DeployedReaches`, `OneImportAtATime` |
| `Hook` | `ObserverJudge`: six sessions of up to five calls, two judges, in sequence with a killed process and time passing, and three calls of two siblings. `EditGates`: seven sessions of up to five calls, in sequence and as siblings. `StopGate`: eight situations, sessions of any length | `HookTypeOK`, `OneJudge`, `HaltsAreDelivered`, `LedgerIsTrue`, `DeclarationsCover`, `AnswersTheirRefusal`, `LoneWritesAreNoticed`, `RecordsAreOneUse`, `NeverWedged`, `StopsAreJudged` |
| `Canary` | two residents; two changes, or one change with a round asked for or an icon refused or lost; imports outlive their grace after two waits | `CanaryTypeOK`, `WakesAreHeard`, `TrayTellsTheTruth` |
| `FindingDeletedRuns`, `FindingSeen`, `FindingSpentDeclaration`, `FindingHalfInstalled` | the smallest instances that show each | one property each, violated |

Why the bounds are enough for what the runs ask. Three calls are a start, a
second start or stop that interferes, and the stop whose effect is judged; one
restart makes orphans of all residents, one death makes a dead handle and one
recycled pid a stranger behind it. Three pids in the sequential run let every
call launch a process. Two projects that share a workspace and one that does
not are the cases of membership. Three requests in `StoreSeed` are a load, a
second one that meets it, and a third that sees what the two left behind.
Five checks in `ReleaseInstall` are two installs that meet or break off, a third
that finds what they left, and the two that refuse and meet the refusal again;
two crashes leave two half-finished installs. Two saves and a sync that holds a
copy across them show every order of copy, save and write-back; two boots show
the migration once and its absence once. In `Workspaces` four commands are a
deploy or a start, a move or a rename, and two commands that meet what these
left. Two projects make a workspace with and without a second member. With two
names and two ports, a port that is released while its resident listens leaves
the next workspace none, and a port that was released may be handed out twice. A
workspace that is deleted and made again then gets its old port back; what holds
of its endpoint with more ports is the theorem `EndpointsReach`. In `ObserverJudge` a window of
two calls and a judge every two calls let a second judge meet the first one's
verdict within five calls. `StopGate` has a finite state space without a bound on
the length of a session, as its counters saturate; with ceilings of two, each
ceiling is reached, passed and met by every other rule. Deadlock is not checked
in `StoreSeed`, `ReleaseInstall`, `Config` and `Hook`: bounds end most of their
behaviours.

In `Canary` two changes are a start and what becomes of it, or an illness and its
cure, at any point of both threads; one resident may be asked while the other
changes; a grace of two waits is longer than one wait and the round after it, so
an import whose age is lost never ends its grace.

Limits of `Config`. Studio restarts between the commands of the window, not
inside one (see Known divergences), and may interrupt a call of the fleet
thread. The history next to the fleet thread has no rename: a workspace renamed
while it is imported is started under its new name beside the stagger, which
waits for the old one.

What the properties of `StopGate` except, and why. `StopsAreJudged` leaves out
his interrupt, a grant whose empty turns are spent while no instruction is open,
an unwritable counter, a gate that gives no verdict, and the stop at which the
ceiling of the store's two rules is reached: the code says so of each but the
last (Known divergences). Work that only the machine shows as over is not
pending, although its notification may still come.

`NeverWedged` is about an agent that does nothing, on whatever rules it is held.
It bounds, by their own counts, the holds of rule B on every client and with
every store, the holds for the story and for the members with a store that
answers whenever it is asked, and all holds together, the audit's excepted, on a
client that marks its retries. Nothing bounds the rest, and the model shows it:
a store whose two answers come and go has each hold take back the counter of the
other (Known divergences); the rules about the message and the audit's alarm have
no ceiling at all on a client that marks no retry; the alarm also holds a marked
retry while a story is missing; and one that sits on an instruction of the judge
may be held for ever, as the code means it to be.

What `LedgerIsTrue` and `OneJudge` except. Both speak of sessions whose calls
follow each other: sibling calls may get one number, and the ledger then gives
the refusal of one to both. A call that the ledger marks as refused and that ran
has a killed process behind it: the decision is in the ledger before the client
has the answer.

What the liveness of `RuntimeManagerLive` excepts is `Misjudged` alone: an adopted
process that is a zombie of this Studio, or whose pid a stranger has by now,
passes `kill -0`, is taken to run, and the handle stays. `DeadOrphansAreNotShown`
says the same without the exception (Known divergences).

What the runs say about overlapping calls. With one call at a time everything
listed above holds, restart and deaths included. With overlapping calls the
kills stay safe (`KillsAreSafe`, `StrangerSpared`), but custody is kept only
while a single thread starts projects and Studio does not restart: two
overlapping starts of a workspace launch two processes and the map keeps the
last one inserted. The loser finds the port taken and exits, but if it is the
one that got the port it is out of the map until a poll adopts it, as a process
the manager no longer waits for; Known divergences says where that leads.

What `ReleaseInstall` says about overlapping installs. The download command does
not take the flag of the background check, so both may work in one folder. While
both are after the same release this is harmless: one rename wins, the other
installer gives up. `PublishDuringInstall = FALSE` (a release appears only while
no install runs) is an assumption of the run. With `TRUE` and both installers,
`CurrentResolves` fails (Known divergences). What holds without the assumption
is the theorem `PathBreaksOnlyInARace`: as long as no two installs of different
releases are past their rename at once, the link leads to an engine, whatever is
published when and wherever Studio ends.

### Fairness

`RuntimeManagerLive` assumes weak fairness of each call's next step (a lock is
held for bounded work, the probes have a 500 ms limit, the system calls
return), of a resident that comes up (`Bind`, `ExitBusy`, `ReadyLine`), and
strong fairness of status polls per project: the dashboard polls every project
every few seconds, between other calls. Nothing is assumed of starts, stops,
deaths, restarts or recycled pids. Both of its properties are about what polls
find out, so they hold next to starts, stops and removals of another thread.

`CanarySpec` assumes weak fairness of each of its two threads: both loop for
good, every wait has a limit (`recv_timeout`) and so has every question to a
resident. Nothing is assumed of residents and requests; their budget ends, which
is what "once nothing changes" means in `TrayTellsTheTruth`.

### Findings

* `FindingDeletedRuns`: `delete_workspace` refuses by the phases of the
  registered members and stops by the handle (`manager_service.rs:741`). After a
  running project has moved away and Studio has restarted, there is neither, and
  the folder is removed under the running resident.
* `FindingSeen`: `sync_releases_now` writes back the whole settings it copied
  before GitHub answered (`manager_service.rs:590-596`); an Eclipse workspace
  remembered meanwhile is forgotten, against `eclipse_notes.rs:407`. The same
  copy takes back any other setting changed meanwhile, which is what `spoilt`
  leaves out of `SavedStaysSaved`.
* `FindingSpentDeclaration`: the exception for one edit is taken before the other
  questions about that edit are asked (`pipeline.rs:456`), so an edit that is
  refused after all has used the declaration up.
* `FindingHalfInstalled`: "the `current` symlink swap is the atomic commit point"
  (`release_manager.rs:1008-1009`), but what is installed is read from the
  manifests, and the new one is written last (1078). When Studio ends after the
  swap, the link leads to the new engine while Studio believes the old one or
  none is installed. Every further install of that release fails at the rename
  (1021), whose target is there; the next release then replaces the engine,
  without a trial if the old manifest is gone too. A manifest torn at that moment is an error of every later
  check.

### Known divergences

Met while modelling, and not listed as findings: the runs are for the divergences
that lose data, engines or declarations. Those of the first group are named by a
definition, and TLC shows each with the constants given; no run checks them.

* `RuntimeManager!NoStaleRunning` (one thread, two projects of one workspace, a
  death, two calls): the fix described at rm:1585-1592, "so the
  dashboard / tray reflect the death", records Failed for the asking project
  only; the other members of the dead resident are still answered Running.
* `Canary!IdleMeansNobody`: `verdict_for` hands `fold_switched_off` the number of
  readings, not of residents that should run (`field_view.rs:1205`). While one
  workspace is off and the first other one has no reading yet, the tray wears the
  blue of "NOTHING IS RUNNING" (`field_view.rs:975`) over a running resident.
* `Canary!OnlyRaises`: "it may only ever raise the alarm" (`field_view.rs:1258`),
  but the lane writes back the whole board it copied before its questions
  (`manager_service.rs:1808-1826`). A fault that a deep round published meanwhile
  is wiped, or a cured one comes back, until the next round.
* `Workspaces!ReloadStopsAll` (`Plans <- MoveAndReload`): `reload_all_runtimes`
  (`manager_service.rs:1018`) stops by the projects' present workspaces. The
  resident of a workspace a project has moved out of is missed, the wait sees no
  live phase, and everything is started beside it, against line 1010.
* `Workspaces!GoneIsGone` (`Plans <- DeleteAndStartAll`): a fleet start that read
  the list before a delete starts a resident for the deleted workspace.
* `Settings!OneDownload` (`Parts = {"settings"}`): the download on demand does not
  take `release_sync_running`, so two downloads run at once, against
  `manager_service.rs:528`.
* `EditGates!WritesAreNoticed` without `~crossed`: the stamp of a command is one
  file per session (`javawatch.rs:61`); a sibling command moves it past a write
  of the first, which is then no miss.
* `StoreSeed!SkippedWasLoaded` (`JarOf` through `current`): "a new build can mean
  a new loader, so it earns a reload" (`store_seed.rs:37`) fails for installed
  releases. The build is named by its jar path (rm:612), which is
  `tools/current/<jar>` for every release, so after an update the restarted
  residents are skipped until Studio restarts or the user deploys.
* `RuntimeManager!DeadOrphansAreNotShown` (`FairSpec`, `TwoThreads`, two calls, a
  death): an adopted process that is still Studio's child is a zombie when it
  dies, `kill -0` succeeds (rm:86), and it is shown running for ever, against "a
  zombie counts as NOT alive" (rm:84-85). With a recycled pid the same happens to
  an orphan.
* `RuntimeManager!OneConsent` with `TwoThreads`, `TwoWorkspaces` and two calls: two
  overlapping starts of different workspaces may both be given the consent to
  upgrade the store, against "ONE resident rather than all" (rm:1281).
* `RuntimeManager!StoppedStaysStopped` with `TwoThreads` and two calls: the state
  file is written from a copy of the records; an older copy written last brings a
  stopped project back as running, and it is started at the next launch, against
  "Stopped does NOT count" (`manager_service.rs:2025-2026`).
* `StoreSeed!LoadedOnce` (constants of `StoreSeed.cfg`): "one store is filled once
  per engine build" (`store_seed.rs:18`) holds for requests in sequence; one that
  looks into `seeded` before another's record and claims after its release loads
  again.
* `StopGate!StoryHoldsAreBounded` (constants of `Hook.cfg`): "how many times a turn
  may be held for a story" (`stop.rs:113-115`). A question to the store that goes
  unanswered clears its counter as if nothing were owed (`pipeline.rs:2183-2196`),
  so that with answers that alternate an idle agent is held for ever.
* `ReleaseInstall!CurrentResolves` with `PublishDuringInstall = TRUE` and both
  installers, which then are after different releases: one lists the directories
  to remove after the other, newer one has renamed its engine into place and
  before that one swaps the link, which then leads to a removed directory,
  against "never a dangling path" (`release_manager.rs`, `activate_extracted`).

Read in the code, and part of the models where these reach it:

* "A board that is not green is re-checked every fifteen seconds"
  (`field_view.rs:1262`): the cadence follows the verdict of the canary's own
  round (`lib.rs:726`). A workspace the lane finds unreadable while the canary is
  in its wait of five minutes wakes nobody, and its recovery is seen when that
  wait is over.
* A resident that was just started, beside others that are well, has no reading,
  or an old green one from before its stop; `verdict_now` leaves it out or counts
  the old one, and the tray stays green until the round it wakes.
* The lane's first look wakes nothing (`lib.rs:1024`), even when a round that was
  asked for earlier has looked around already: what changed in between is asked
  about after the full wait.
* The counters of the store's two rules are cleared when the store lacks nothing,
  not by a release at the ceiling, although `pipeline.rs:2194-2195` says
  "including the release past the ceiling, so the next story starts with a full
  budget".
* At that ceiling the stop is allowed before rule B is asked, although every stop
  under a live grant is to be judged (`stop.rs:701`); hence the exception in
  `StopsAreJudged`.
* A failing write of these two counters is ignored, so that a hold is then not
  bounded by them, in contrast to the grant's ("SPENT, never zero",
  `pipeline.rs:1953`); hence `lost` in `NeverWedged`.
* Clients that do not mark a retry are charged the carried refusals again at each
  retry. "Every other rule keeps its old single-bounce behaviour" (`stop.rs`,
  about line 1028) does not hold while a grant is live.
* An Esc clears the grant only if the client runs the stop hook for that window.
* The answer of a judge in the background that arrives as an attachment while the
  agent works is never read as a verdict.
* A crash of Studio inside a command of the window leaves `workspace.json` or the
  deployed endpoints as they were until the next start or deploy of that
  workspace.
* `delete_all_projects` leaves the workspace entries and their `workspace.json`.
* Stopping one of several projects rewrites `workspace.json` without the source
  folders of the others (`write_workspace_json_excluding`).
* The restore at start-up starts all workspaces at once, without the wait for an
  import that a fleet start has.

## 4. Proofs

`RuntimeManagerProofs` proves, for every set of threads, projects, workspaces
and pids and every bound:

* `TypeCorrect`: `Spec => []TypeOK`;
* `KillsSafe`: `Spec => []KillsAreSafe`;
* `StrangersAreSpared`: `Spec => StrangerSpared`;
* `ChildIsKept`: `Spec => ChildKeptByAdoption`.

The inductive invariant is `IInv == TypeOK /\ KillsAreSafe`. `KillsAreSafe` is
itself a strengthening: that no stranger is killed needs that a pid a call is
about to signal is not a stranger's (`LocalsFitPc`), that a `Child` kept in the
map or in a call's hand has not been waited for (`OwnedIsUnreaped`), and, for
that to survive a kill or a reaping `try_wait` elsewhere, that each Child is
held once (`OwnedOnce`). The proof has a typing lemma and a safety lemma for
each group of actions and frame lemmas for steps that change neither the
holders nor the processes (`SafeFrame`, `ThreadFrame`, `GotoFrame`,
`PersistFrame`, `ReleasedFrame`).

The assumption is `RuntimeManagerAssumption`; TLC evaluates it in every run.

`OneCallerProofs` proves what the manager promises when its calls do not overlap:
for every set of projects, workspaces and pids and every bound, with deaths,
restarts and recycled pids at any point, `OneCaller => (Spec => ...)` with

* `MembersLive`: `[]MembersAreLive`;
* `KillsSpareUsers`: `[]KillSparesUsers`;

and, for exact probes (`Observant`: a serving resident answers and its pid is
found), `StopsAct` (`[]StopActs`) and `CustodyIsKept` (`CustodyKept`: every step
maps to a step of `ResidentCustody` or a stutter).

`OneCaller` says that there is one calling thread. It is a hypothesis of these
theorems and not an assumption of the module: `RuntimeManagerSequential` has one
thread, `RuntimeManagerRaces` two, and there these properties do not hold. Two
calls that overlap may each read the map, release its lock and act: an
`OwnSpawned` replaces a handle that a probe adopted meanwhile, a record that is
copied first may be written last. `StoppedStaysStopped` and `OneConsent` are only
model-checked with one caller: overlap is all that could break them, and with
overlap they fail (Known divergences). Nor do `StopActs` and `CustodyKept` hold
when a probe times out: a resident that lives is taken for a dead one and let go.

No property of the list is inductive. `SInv` joins, on top of `IInv`,

* for the call (`CallFits`): where each operation may be and with which handle in
  hand (`Control`); that consent still holds where it was decided
  (`ConsentKept`); what the call knows of members and records (`Membership`) and
  of the processes it found (`Processes`);
* for the records: the file is the map of snapshots unless it is being written
  (`FileFollows`), a member has a live record or is about to have one
  (`MembersFit`), and a live record of the managed process is that of a member or
  of a project on its way out (`UsersAreMembers`);
* for the residents: one serves a workspace (`OneServing`), what is managed
  served it (`ManagedServe`), and a live child of Studio is in the map or in the
  hand of the call that has just spawned it or is ending it (`ChildrenHeld`).

`KillSparesUsers` is `Membership` at the kill, which comes from `UsersAreMembers`
when the handle was taken.
`StopsAct` needs `StopsFit` in addition: as long as the resident a stop faced when
it was called serves, the map or the call's hand has its pid.

The last step of the refinement maps the end of a process: `FateOf` reads from a
pid's processes and holders how it ended. A step lemma for each operation says
what becomes of handles, hands and processes; from that the abstract action
follows.

`StoreSeedProofs` proves, for every set of threads, residents, stores and builds
and every bound, `ClaimsHeld` (`[]ClaimsAreHeld`), `LoadsExclusive`
(`[]OneLoadAtATime`) and `FailuresForgotten` (`[]SeededWasLoaded`: what the ledger
holds was loaded with success under that key since Studio started), from
`StoreSeedAssumption`. `OneLoadAtATime` is not inductive: a release must give up
nobody else's claim, so the invariant says that a store has one request between
claim and release (`OneClaim`) and that these claims are exactly `in_flight`
(`ClaimsAreHeld`). `SeededWasLoaded` needs `SuccessIsReal`: a request on its way
to the record has seen its load succeed. `SeedTypeCorrect` (`[]TypeOK`) is a part
of the same invariant.

`ReleaseInstallProofs` proves, for every number of releases, checks and crashes,
every set of good releases, and either or both installers, with releases that
appear at any moment, `PathBreaksOnlyInARace`: `Spec => ([]~Race =>
[]CurrentResolves)`. `Race` is a state in which two installers are past their
renames with different releases. The inductive invariant (`PathInv`) is kept by
every step from a state without a race: an installer past the rename has its
engine in place and past the swap the link on it (`EngineInPlace`), and no
clean-up lists the engine of its own install (`SparesOwn`). Clean-up is the step
that could make the link dangle: it runs after the swap, and the engine the link
leads to is then its own.

Under `~PublishDuringInstall`, `RefusedStaysOut` (`[]RefusedUnreachable`) and
`OneEngineStays` (`[]OneEngineKept`) rest on two more. `InstallIInv` says
in addition that both installers are after the latest release (`OneRelease`) and
that a clean-up never has it on its list (`CleanSpares`). `RInv`: what an
installer has found on its look around is still so (`Relies`), one installer at
a time has its engine in place (`OneActivation`), no engine is newer than the latest
release (`NothingAhead`), and an engine that failed its trial is away, or nothing
else could be served (`RefusedIsOut`). The newest engine that is recorded is a
maximum over releases; that it exists comes from the well-founded order of the
numbers (`LeastNumber`), which takes the place of an induction. The hypothesis is
that of the run, and Section 3 says what happens without it.
`InstallTypeCorrect` (`[]TypeOK`) needs none.

`ObserverProofs` proves, for all sessions, bounds and lifetimes, with any deaths and
delays:

* `ObserverKeepsOneUse`: `ObserverSpec => RecordsAreOneUse`. Every step of the
  observer is a step of `OneUse`, or a stutter, for the verdict and for the
  reminder, calls that overlap included. What carries the proof is that a use
  asks whether the removal removed something;
* `UsesAreBounded`: a record is not used more often than one was opened;
* `OneJudgeRuns`: `ObserverSpec => []OneJudge`;
* `HaltsReachOneCall`: `ObserverSpec => []HaltsAreDelivered`;
* `LedgerTells`: `ObserverSpec => []LedgerIsTrue`;
* `ObserverTypeCorrect`: `ObserverSpec => []ObserverTypeOK`.

The last four rest on `OInv`, in which each part says when it holds. While calls
follow each other (`~overlapped`), one call is under way (`OneUnderWay`), a halt
that lies there or is about to be taken reached nobody (`Delivery`), and the
ledger is in order: numbers grow, two halts of a class are a window apart, a call
has one line, an outcome comes after its call, and a call not yet in the ledger
comes after all that are (`Ledger`). What a client was told is what the
guard decided, and a refused call runs only after a death (`ToldRight`, whatever
overlaps). While in addition no judge outlives its lock
(`calm`), one judge runs, the marker is that of its call, and no call is about to
start another (`Judging`). `HookBecomes` and `JudgeBecomes` describe each action
by the fields it changes, so that the parts are proved from a few lines each and
not from the actions.

`GateProofs` proves, for every menu of calls and every lifetime:

* `DeclarationsAreNeeded`: `GatesSpec => []DeclarationsCover`;
* `AnswersAreBound`: `GatesSpec => []AnswersTheirRefusal`;
* `WritesAreLogged`: `GatesSpec => []LoneWritesAreNoticed`.

Their invariant is `GInv`. An edit that is past a pair of a tool and a failure has
used a declaration of that tool (`Cover`, whatever overlaps); while calls follow
each other (`~crossed`) one call is asked (`OneAsked`), a declaration in the file
is unused (`Unused`), the files hold the last refusal and the last answer and a
call about to act on them still finds them so (`Answered`, `Bound`), and a command
that wrote outside a window is later than its stamp and finds its own write
(`Noticed`). `Became` lists what each action does to its call, so that each part
looks only at the actions that move what it speaks of. The assumption is
`GatesAssumption`: the types of the menus. `GatesTypeCorrect`
(`GatesSpec => []GatesTypeOK`) joins to `GInv` that each record's file holds one
record at most, of a time that has been (`FilesHold`), and that a call never looks
past its last pair of texts (`CallsFit`).

It proves, for all situations and ceilings:

* `StopGateTypeCorrect`: `StopSpec => []StopTypeOK`;
* `GrantedStopsAreJudged`: `StopSpec => StopsAreJudged`. The inductive invariant
  `StopInv` adds to the types that the window is read as it happened: the verdict
  in it is the judge's first word since the last push, an instruction that was
  given and not acted upon is open (`ReadIsHeard`), and the window holds the call
  of a judge in the background exactly while its answer belongs to this attempt
  (`AskedIsRead`);
* `IdleAgentsAreReleased`: `StopSpec => []NeverWedged`. No single counter bounds
  the streak of holds, so `WedgeInv` counts three times: rule B's holds by the
  empty turns of the grant, whatever the store answers (`PushInv`); those for the
  story and for the members by their files, if the store answers whenever it is
  asked (`StoreInv`); and, where retries are marked, all but the audit's by the
  empty turns and then the story's file (`AllInv`). For that a streak must belong
  to a window in which nothing was done (`IdleInv`).

It rests on `StopAssumption`.

`HookTypeCorrect` (`HookSpec => []HookTypeOK`) puts the three together: they share no
file, so each step of `HookSpec` is a step or a stutter of each of the three
specifications. It rests on the assumptions of all three.

`CanaryProofs` proves, for all residents, graces and budgets, `CanaryTypeCorrect`
(`[]CanaryTypeOK`: the types, and that a row which says green was answered well
in all three questions, on the board as in each thread's copy) and
`NoWakeIsLost` (`[]WakesAreHeard`), from `GraceAssumption` and
`BudgetAssumption`. `WakesAreHeard` is inductive given the types: a slot that is
taken belongs to a round that has not looked around, and only looking around
settles what is owed.

`ConfigProofs` proves, for every number of release checks, all inputs, first
files, saves, faults and boots:

* `SettingsTypeCorrect`: `SettingsSpec => []SettingsTypeOK`;
* `OneCheckAtATime`: `SettingsSpec => []OneSync`. `Flagged` adds that no thread
  works while Studio is down, so that a start, which takes the flag as it finds
  it, forgets no check;
* `SavedIsKept`: `SettingsSpec => []SavedStaysSaved`. `Kept` adds two facts: after
  the first save the file is of the current version, so that no later start
  migrates what was chosen; and a copy differs from the settings only in the
  fields it missed, so that writing it back spoils these and no others;

and, for all projects, names, ports and histories of commands, beside a start,
reload or toggle of everything and across restarts of Studio:

* `WorkspacesTypeCorrect`: `WorkspacesSpec => []WorkspacesTypeOK`;
* `NoPortTwice`: `WorkspacesSpec => []PortsDistinct`;
* `FilesAreOwn`: `WorkspacesSpec => []NoForeignProjects`;
* `EndpointsReach`: `WorkspacesSpec => []DeployedReaches`;
* `ConfigTypeCorrect`: `ConfigSpec => []ConfigTypeOK`, both parts side by side.

What each step makes of the entries is one of four things (`EntriesBecome`):
nothing, an allocation, a rename or a release. An allocation takes from the free
ports one per workspace, and a rename moves a port only to a name that has none,
so no port is there twice (with `EntriesTyped`, the type of the table).

`NoForeignProjects` and `DeployedReaches` speak of rest, and between two steps of a
command both are wrong: the project has moved and the file still lists it, the
entry is released and the client still has its endpoint. The invariant is
therefore about what the window's thread still has to do (`MainFits`). The file of
a workspace is in order, or a step that writes it is ahead, or the workspace is
about to be dropped with all its members (`FilesFollow`); every endpoint reaches
its workspace, or a refresh is ahead (`EndpointsFollow`). For this to survive the
steps themselves, what is ahead must be well `Ordered`: a step that may break an
endpoint has a refresh behind it (`RefreshFollows`), a project that moves or is
forgotten has behind it the write of the file it leaves (`MovesFit`, `ForgetsFit`),
members are listed once (`ListsOnce`), and what adds, moves or renames is the first
step of its command and finds everything in order (`OpensFirst`). With nothing left to do, `MainFits` is the two properties. The
fleet thread neither moves nor releases anything, and what it writes and
allocates keeps files and endpoints in order (`BesidesFits`); so does a restart,
which finds the window's thread between commands.

A step may put several others in its place: one for each member, or for each
project of a fleet. These sequences are flattened, and what a flattened sequence
holds is an induction over data. The induction is replaced by a least
counterexample: among the prefixes one is the shortest that has a step of the
wrong kind, and the one before it shows that it has not (`LeastNumber`).

The assumptions are that the window's thread runs no release check
(`WindowAssumption`), the types of inputs and first files (`InputAssumption`,
`FileAssumption`), that the marks for no workspace and no port are neither
(`NowhereAssumption`), and that the two threads are different, the projects finitely
many and each history begins with a workspace or none for every project
(`HistoryAssumption`).

Only model-checked:

* liveness, `FairSpec` and what it enables (fairness and ENABLED are out of the
  prover's reach);
* `OneImportAtATime` of `Workspaces`, which is claimed of the histories of the run
  only. It depends on which commands meet a fleet start: a workspace that is
  renamed while it is imported is started a second time beside the stagger
  (Section 3), so for all histories it does not hold.

## 5. Not modelled, and the plan

Next, in this order:

1. `SilenceLog`: concurrent appends and the rotation by the manager
   (`silence.rs:118`).
2. `Workspaces` with residents that die, and a restart inside a command.
3. `GatewayRouting`, `ManagedBlock`, command segmentation: pure algorithms
   against reference definitions over bounded inputs.
4. `publish_sibling_registry` and the resumed download of a release that was
   published again (`release_manager.rs:42`).

Left out, and why:

* deploy of client configurations: merging of text blocks in files of other
  programs; no state of its own. What endpoints it writes, and when, is in
  `Workspaces`;
* gateway: a pure choice among project paths per call;
* query pipeline of the hook (questions to the store, resume, orientation): from an event to a
  text within a time limit, no state shared with other processes;
* review rounds of the hook: their file is written and read by nobody else;
* the lexical rules over commands and texts, transcript tails and answers: text
  processing whose outcome is a choice in `EditGates`, `ObserverJudge` and
  `StopGate`;
* seat runner (`runner.rs`): no caller in production in this commit;
* importers of Eclipse and IntelliJ projects, toolkit and plugin listings: they
  read files;
* log, Tauri commands, Svelte views, the build's shell gates and installers,
  seats and skills.

More than half of the source lines are tests and the parts above, which is why
the modelled share of all lines stays small.

## 6. Running

    tlc -workers 2 -config RuntimeManagerSequential.cfg MCRuntimeManager
    tlc -workers 2 -config StoreSeed.cfg MCStoreSeed
    tlc -workers 2 -config ReleaseInstall.cfg MCReleaseInstall
    tlc -workers 2 -config Config.cfg MCConfig
    tlc -workers 2 -config Hook.cfg MCHook
    tlc -workers 2 -config Canary.cfg MCCanary
    tlapm RuntimeManagerProofs.tla

and likewise for the other configurations and the other `*Proofs` modules.
