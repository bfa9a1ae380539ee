------------------------------ MODULE StoreSeed ------------------------------
(***************************************************************************)
(* src-tauri/src/store_seed.rs: filling a resident's knowledge store from  *)
(* its story folder whenever an engine comes up, and when the user deploys.*)
(* Residents share stores. Each request runs on a thread of its own, and   *)
(* all threads share one ledger, two sets behind two locks: what has been  *)
(* loaded on which engine (seeded), what is being loaded (in_flight).      *)
(*                                                                         *)
(* With it, what decides the engine a request names: the ready listener    *)
(* (runtime_manager.rs, manager_service.rs) and the jar path an installed  *)
(* release is launched from (release_manager.rs).                          *)
(***************************************************************************)
EXTENDS Naturals, FiniteSets

CONSTANTS
    Seeders,      \* the threads of seed_in_background
    Residents,    \* the residents, one per workspace
    Stores,       \* the store files residents report
    StoreOf,      \* the store of each resident
    Builds,       \* engine builds
    FirstBuild,   \* the one installed at the beginning
    NoBuild,      \* the resident does not run
    Jars,         \* jar paths
    JarOf,        \* the path each build is launched from
    NoJar,        \* the empty engine name a Deploy uses
    MaxAsks,      \* bound: requests
    MaxUpdates,   \* bound: engine updates
    MaxRestarts   \* bound: restarts of Studio

ASSUME StoreSeedAssumption ==
    /\ Residents # {} /\ StoreOf \in [Residents -> Stores]
    /\ FirstBuild \in Builds /\ NoBuild \notin Builds
    /\ JarOf \in [Builds -> Jars] /\ NoJar \notin Jars
    /\ MaxAsks \in Nat /\ MaxUpdates \in Nat /\ MaxRestarts \in Nat

VARIABLES
    installed,  \* the build behind the jar path a start would use
    runs,       \* the build each resident runs
    managed,    \* the residents this Studio has announced
    seeded,     \* SeedLedger::seeded
    inFlight,   \* SeedLedger::in_flight
    seeds,      \* the requests
    loadedBy,   \* auxiliary: the builds whose load under a key of the ledger was
                \* answered with success since Studio started
    budget      \* what is left of the bounds

vars == <<installed, runs, managed, seeded, inFlight, seeds, loadedBy, budget>>

-----------------------------------------------------------------------------

\* What the ledger remembers: a store file and the name of an engine.
Keys == Stores \X (Jars \cup {NoJar})

Triggers == {"EngineReady", "Deploy"}

Outcomes == {"none", "Loaded", "AlreadySeeded", "InFlight", "NoSubstrate", "Failed"}

Pcs == {"done", "stats", "check", "claim", "load", "release", "record"}

\* A request: SeedTarget, Trigger, and how far seed has come.
Seed == [pc       : Pcs,
         trigger  : Triggers,
         resident : Residents,
         store    : Stores,
         engine   : Jars \cup {NoJar},
         build    : Builds,       \* what the resident ran then (auxiliary)
         answer   : BOOLEAN,      \* the load was answered with success
         outcome  : Outcomes]

NoSeed == LET r == CHOOSE r \in Residents : TRUE IN
          [pc |-> "done", trigger |-> "Deploy", resident |-> r, store |-> StoreOf[r],
           engine |-> NoJar, build |-> FirstBuild, answer |-> FALSE, outcome |-> "none"]

TypeOK ==
    /\ installed \in Builds
    /\ runs \in [Residents -> Builds \cup {NoBuild}]
    /\ managed \subseteq Residents
    /\ seeded \subseteq Keys
    /\ inFlight \subseteq Stores
    /\ seeds \in [Seeders -> Seed]
    /\ loadedBy \in [Keys -> SUBSET Builds]
    /\ budget \in [asks : Nat, updates : Nat, restarts : Nat]

-----------------------------------------------------------------------------
(* Where requests come from. *)

\* seed_in_background on a thread of its own.
Ask(t, r, trigger, engine, build) ==
    /\ seeds[t].pc = "done" /\ budget.asks > 0
    /\ budget' = [budget EXCEPT !.asks = @ - 1]
    /\ seeds' = [seeds EXCEPT ![t] =
                   [pc |-> "stats", trigger |-> trigger, resident |-> r,
                    store |-> StoreOf[r], engine |-> engine, build |-> build,
                    answer |-> FALSE, outcome |-> "none"]]

\* The listener names the engine by the jar path of the runtime reference.
Announce(t, r, build) ==
    /\ Ask(t, r, "EngineReady", JarOf[installed], build)
    /\ managed' = managed \cup {r}
    /\ UNCHANGED <<installed, seeded, inFlight, loadedBy>>

MutantAnnounceWhatRanBefore(t, r) ==
    /\ Announce(t, r, runs[r])
    /\ runs' = [runs EXCEPT ![r] = installed]

\* A start or a restart: the READY line of a process on the installed build.
ComeUp(t, r) ==
    /\ Announce(t, r, installed)
    /\ runs' = [runs EXCEPT ![r] = installed]

\* An adoption: a resident that outlived Studio, on the build it was started on.
Adopt(t, r) ==
    /\ r \notin managed /\ runs[r] # NoBuild
    /\ Announce(t, r, runs[r])
    /\ UNCHANGED runs

\* A successful deploy asks every resident it wrote, without an engine name.
Deploy(t, r) ==
    /\ runs[r] # NoBuild
    /\ Ask(t, r, "Deploy", NoJar, runs[r])
    /\ UNCHANGED <<installed, runs, managed, seeded, inFlight, loadedBy>>

\* Another engine release is installed; residents go on with theirs.
Update(b) ==
    /\ b # installed /\ budget.updates > 0
    /\ installed' = b
    /\ budget' = [budget EXCEPT !.updates = @ - 1]
    /\ UNCHANGED <<runs, managed, seeded, inFlight, seeds, loadedBy>>

\* Studio ends and comes back; the ledger was in its memory, residents live on.
StudioRestart ==
    /\ budget.restarts > 0
    /\ managed' = {} /\ seeded' = {} /\ inFlight' = {}
    /\ seeds' = [t \in Seeders |-> NoSeed]
    /\ loadedBy' = [key \in Keys |-> {}]
    /\ budget' = [budget EXCEPT !.restarts = @ - 1]
    /\ UNCHANGED <<installed, runs>>

-----------------------------------------------------------------------------
(* seed: one request, from the resident's stats to the ledger. *)

Goto(t, pc) == seeds' = [seeds EXCEPT ![t] = [@ EXCEPT !.pc = pc]]

Finish(t, outcome) ==
    seeds' = [seeds EXCEPT ![t] = [@ EXCEPT !.pc = "done", !.outcome = outcome]]

\* experience(kind=stats): the store, and whether it has a story folder.
Stats(t) ==
    /\ seeds[t].pc = "stats"
    /\ \/ Finish(t, "Failed")
       \/ Finish(t, "NoSubstrate")
       \/ Goto(t, IF seeds[t].trigger = "EngineReady" THEN "check" ELSE "claim")
    /\ UNCHANGED <<installed, runs, managed, seeded, inFlight, loadedBy, budget>>

Key(t) == <<seeds[t].store, seeds[t].engine>>

CheckSeeded(t) ==
    /\ seeds[t].pc = "check"
    /\ IF Key(t) \in seeded THEN Finish(t, "AlreadySeeded") ELSE Goto(t, "claim")
    /\ UNCHANGED <<installed, runs, managed, seeded, inFlight, loadedBy, budget>>

MutantClaimWithoutLooking(t) ==
    /\ seeds[t].pc = "claim"
    /\ inFlight' = inFlight \cup {seeds[t].store}
    /\ Goto(t, "load")
    /\ UNCHANGED <<installed, runs, managed, seeded, loadedBy, budget>>

\* HashSet::insert says whether the store was free.
Claim(t) ==
    /\ seeds[t].pc = "claim"
    /\ \/ seeds[t].store \in inFlight /\ Finish(t, "InFlight") /\ UNCHANGED inFlight
       \/ /\ seeds[t].store \notin inFlight
          /\ inFlight' = inFlight \cup {seeds[t].store}
          /\ Goto(t, "load")
    /\ UNCHANGED <<installed, runs, managed, seeded, loadedBy, budget>>

Answered(t, ok) ==
    seeds' = [seeds EXCEPT ![t] = [@ EXCEPT !.pc = "release", !.answer = ok]]

\* The engine that answers is the one that runs by then; it fills the store.
FillStore(t) ==
    LET build == runs[seeds[t].resident] IN
    /\ build # NoBuild
    /\ loadedBy' = [loadedBy EXCEPT ![Key(t)] = @ \cup {build}]

MutantFailureKeepsTheClaim(t) ==
    /\ seeds[t].pc = "load"
    /\ \/ Finish(t, "Failed") /\ UNCHANGED loadedBy
       \/ Answered(t, TRUE) /\ FillStore(t)
    /\ UNCHANGED <<installed, runs, managed, seeded, inFlight, budget>>

\* experience(kind=load): answered, or refused, timed out or broken off.
Load(t) ==
    /\ seeds[t].pc = "load"
    /\ \/ Answered(t, FALSE) /\ UNCHANGED loadedBy
       \/ Answered(t, TRUE) /\ FillStore(t)
    /\ UNCHANGED <<installed, runs, managed, seeded, inFlight, budget>>

MutantFailureIsRemembered(t) ==
    /\ seeds[t].pc = "release"
    /\ inFlight' = inFlight \ {seeds[t].store}
    /\ Goto(t, "record")
    /\ UNCHANGED <<installed, runs, managed, seeded, loadedBy, budget>>

Release(t) ==
    /\ seeds[t].pc = "release"
    /\ inFlight' = inFlight \ {seeds[t].store}
    /\ IF seeds[t].answer THEN Goto(t, "record") ELSE Finish(t, "Failed")
    /\ UNCHANGED <<installed, runs, managed, seeded, loadedBy, budget>>

Record(t) ==
    /\ seeds[t].pc = "record"
    /\ seeded' = seeded \cup {Key(t)}
    /\ Finish(t, "Loaded")
    /\ UNCHANGED <<installed, runs, managed, inFlight, loadedBy, budget>>

-----------------------------------------------------------------------------

Init ==
    /\ installed = FirstBuild
    /\ runs = [r \in Residents |-> NoBuild]
    /\ managed = {} /\ seeded = {} /\ inFlight = {}
    /\ seeds = [t \in Seeders |-> NoSeed]
    /\ loadedBy = [key \in Keys |-> {}]
    /\ budget = [asks |-> MaxAsks, updates |-> MaxUpdates, restarts |-> MaxRestarts]

Step(t) ==
    Stats(t) \/ CheckSeeded(t) \/ Claim(t) \/ Load(t) \/ Release(t) \/ Record(t)

Next ==
    \/ \E t \in Seeders : Step(t)
    \/ \E t \in Seeders, r \in Residents : ComeUp(t, r) \/ Adopt(t, r) \/ Deploy(t, r)
    \/ \E b \in Builds : Update(b)
    \/ StudioRestart

Spec == Init /\ [][Next]_vars

-----------------------------------------------------------------------------
(* Safety. *)

\* in_flight: whatever the residents that come up together and the deploys do,
\* no two requests of this Studio load the same store at once.
OneLoadAtATime ==
    \A t, u \in Seeders :
        seeds[t].pc = "load" /\ seeds[u].pc = "load" /\ seeds[t].store = seeds[u].store
        => t = u

\* The requests between their claim and its release.
Claimers == {t \in Seeders : seeds[t].pc \in {"load", "release"}}

\* in_flight: a store is claimed exactly while a request is loading it, however
\* the load ends; a claim left behind would stop every later load of the store.
ClaimsAreHeld == inFlight = {seeds[t].store : t \in Claimers}

\* "a_failed_load_is_not_remembered" (store_seed.rs:315): what the
\* ledger holds was asked of an engine under this store and this name, and was
\* answered with success, since Studio started. A refusal, a timeout or another
\* request's success under another name, before or beside it, does not count.
\* That a key is loaded only once is another matter: see LoadedOnce.
SeededWasLoaded == \A key \in seeded : loadedBy[key] # {}

\* "One store is filled once per engine build" (store_seed.rs:18): a resident that
\* comes up does not load what is remembered as loaded. The look into seeded and
\* the claim are two locks, and a whole load of another request fits in between.
LoadedOnce ==
    \A t \in Seeders :
        seeds[t].pc = "load" /\ seeds[t].trigger = "EngineReady" => Key(t) \notin seeded

\* SeedTarget::engine, "a new build can mean a new loader, so it earns a reload":
\* a resident that comes up is skipped only if its build has filled the store,
\* under whatever name, since Studio started.
SkippedWasLoaded ==
    \A t \in Seeders :
        seeds[t].outcome = "AlreadySeeded" =>
            \E engine \in Jars \cup {NoJar} :
                seeds[t].build \in loadedBy[<<seeds[t].store, engine>>]
=============================================================================
