------------------------------ MODULE Settings ------------------------------
(* Studio's settings: one record behind one mutex and one file             *)
(* (src-tauri/src/config.rs), and the threads of src-tauri/src/            *)
(* manager_service.rs that copy the whole record, talk to GitHub for       *)
(* minutes and write the whole copy back.                                  *)
(*                                                                         *)
(* The record keeps one field for each fate a field can have: `policy` is  *)
(* assigned before update_settings checks anything, `root` after the first *)
(* check, `repo` after the last; `silenced` has a setter of its own,       *)
(* `seen` (the Eclipse workspaces) is merged under the lock, `latest` is   *)
(* what the release check writes.  The mutex makes each operation of the   *)
(* config store, file included, one step.                                  *)
EXTENDS Naturals, FiniteSets

CONSTANTS SyncThreads,  \* threads that run sync_releases_now
          Window,       \* the thread of the synchronous commands
          Inputs,       \* what the settings window may send
          Malformed,    \* a value a check refuses
          Roots, Repos, Eclipses, Versions,
          NoVersion,    \* no release seen yet
          Unset,        \* never saved in this history
          Torn,         \* a file truncated and not written: no reader accepts it
          FirstFiles,   \* the settings file an install may start from
          MaxSaves, MaxFaults, MaxBoots

ASSUME WindowAssumption == Window \notin SyncThreads
ASSUME InputAssumption ==
    Inputs \subseteq [policy : {"Ask", "Always"}, root : Roots \cup {Malformed}, repo : Repos \cup {Malformed}]

VARIABLES studio,    \* "up" or "down"
          settings,  \* the record behind the mutex
          file,      \* what reading settings.json would give
          running,   \* release_sync_running
          threads,   \* what each copying thread does, and its copy
          saved,     \* field by field, what an operation last reported saved
          spoilt,    \* fields a refused update or an overtaken copy may have changed
          budget     \* saves, faults and boots that are left

settingsVars == <<studio, settings, file, running, threads, saved, spoilt, budget>>

Fields == {"policy", "root", "repo", "silenced", "seen", "latest"}
CurrentVersion == 2

Values == [policy : {"Ask", "Always"}, root : Roots, repo : Repos, silenced : BOOLEAN,
           seen : SUBSET Eclipses, latest : Versions \cup {NoVersion}, version : 1..CurrentVersion]

ASSUME FileAssumption == FirstFiles \subseteq Values

Idle(copy) == [pc |-> "idle", copy |-> copy, missed |-> {}]
Workers == SyncThreads \cup {Window}

SettingsInit ==
    /\ studio = "down"
    /\ file \in FirstFiles
    /\ settings = file
    /\ running = FALSE
    /\ threads = [t \in Workers |-> Idle(file)]
    /\ saved = [f \in Fields |-> Unset]
    /\ spoilt = {}
    /\ budget = [saves |-> MaxSaves, faults |-> MaxFaults, boots |-> MaxBoots]

-----------------------------------------------------------------------------
\* write_json: fs::write truncates and writes.  It may fail with the old file
\* in place or with a truncated one; Studio may also end in between.
Write(value, written) ==
    \/ written /\ file' = value /\ UNCHANGED budget
    \/ ~written /\ budget.faults > 0 /\ file' \in {file, Torn}
       /\ budget' = [budget EXCEPT !.faults = @ - 1]

\* The same write, for a save that is counted.
WriteSave(value, written) ==
    /\ budget.saves > 0
    /\ \/ written /\ file' = value /\ budget' = [budget EXCEPT !.saves = @ - 1]
       \/ ~written /\ budget.faults > 0 /\ file' \in {file, Torn}
          /\ budget' = [budget EXCEPT !.saves = @ - 1, !.faults = @ - 1]

\* The migration does not ask for the version.
MutantMigrateEveryTime(old) ==
    [old EXCEPT !.version = CurrentVersion, !.policy = "Always"]

\* read_settings, migrate_settings_shape: `Ask` of an older file was a default
\* nobody chose.
Migrated(old) ==
    IF old.version >= CurrentVersion THEN old
    ELSE [old EXCEPT !.version = CurrentVersion, !.policy = "Always"]

\* from_paths: a file that does not parse ends the start; a migration that
\* cannot be written does not.
Boot ==
    /\ studio = "down" /\ file # Torn /\ budget.boots > 0
    /\ studio' = "up"
    /\ settings' = Migrated(file)
    /\ IF settings' = file THEN UNCHANGED file
       ELSE \E written \in BOOLEAN : IF written THEN file' = settings'
                                     ELSE budget.faults > 0 /\ file' \in {file, Torn}
    /\ budget' = [budget EXCEPT !.boots = @ - 1,
                                !.faults = IF file' # settings' THEN @ - 1 ELSE @]
    /\ threads' = [t \in Workers |-> Idle(settings')]
    /\ UNCHANGED <<running, saved, spoilt>>

\* Studio ends, whatever its threads do: only the file is left.
End ==
    /\ studio = "up"
    /\ studio' = "down" /\ running' = FALSE
    /\ threads' = [t \in Workers |-> Idle(settings)]
    /\ UNCHANGED <<settings, file, saved, spoilt, budget>>

\* What the settings become, for those who hold a copy: they have missed it.
Overtake(changed) ==
    threads' = [t \in Workers |->
                  IF threads[t].pc = "idle" THEN Idle(settings')
                  ELSE [threads[t] EXCEPT !.missed = @ \cup changed]]

\* An operation reports `changed` saved, or fails after it changed the memory.
Report(changed, written) ==
    IF written
    THEN /\ saved' = [f \in Fields |-> IF f \in changed THEN settings'[f] ELSE saved[f]]
         /\ spoilt' = spoilt \ changed
    ELSE /\ spoilt' = spoilt \cup changed /\ UNCHANGED saved

Save(changed) ==
    /\ Overtake(changed)
    /\ \E written \in BOOLEAN : WriteSave(settings', written) /\ Report(changed, written)
    /\ UNCHANGED <<studio, running>>

\* The commands of the window run one after the other on one thread.
Command == studio = "up" /\ threads[Window].pc = "idle"

Sent == {"policy", "root", "repo"}

\* Nothing is checked.
MutantTrustTheWindow(input) == Sent

\* What update_settings has assigned when it returns.
AssignedOf(input) ==
    IF input.root = Malformed THEN {"policy"}
    ELSE IF input.repo = Malformed THEN {"policy", "root"}
    ELSE Sent

UpdateSettings(input) ==
    /\ Command
    /\ settings' = [f \in DOMAIN settings |-> IF f \in AssignedOf(input) THEN input[f] ELSE settings[f]]
    /\ IF AssignedOf(input) = Sent
       THEN Save(Sent)
       ELSE /\ budget.saves > 0 /\ budget' = [budget EXCEPT !.saves = @ - 1]
            /\ Overtake(AssignedOf(input)) /\ Report(AssignedOf(input), FALSE)
            /\ UNCHANGED <<studio, file, running>>

SetSilenced(value) ==
    /\ Command
    /\ settings' = [settings EXCEPT !.silenced = value]
    /\ Save({"silenced"})

\* update_eclipse_workspaces, from the window's thread or the tray's: what the
\* notes show is added to what is remembered, and an unchanged list is no write.
RememberEclipse(noted) ==
    /\ studio = "up"
    /\ ~(noted \subseteq settings.seen)
    /\ settings' = [settings EXCEPT !.seen = @ \cup noted]
    /\ Save({"seen"})

-----------------------------------------------------------------------------
At(t, pc) == [threads EXCEPT ![t].pc = pc]

\* sync_releases_now, after the exchange of the flag.
StartSync(t) ==
    /\ studio = "up" /\ ~running /\ threads[t].pc = "idle"
    /\ running' = TRUE
    /\ threads' = [threads EXCEPT ![t] = [pc |-> "asking", copy |-> settings, missed |-> {}]]
    /\ UNCHANGED <<studio, settings, file, saved, spoilt, budget>>

\* download_or_update_jawata: no flag, and the download whatever the policy.
StartDownload ==
    /\ Command
    /\ threads' = [threads EXCEPT ![Window] = [pc |-> "asking", copy |-> settings, missed |-> {}]]
    /\ UNCHANGED <<studio, settings, file, running, saved, spoilt, budget>>

\* sync_with_settings: with checking off or GitHub silent the copy stays as it
\* is; a newer release is downloaded when the copied policy says so.
Answer(t) ==
    /\ threads[t].pc = "asking"
    /\ \/ threads' = At(t, "writing")
       \/ \E v \in Versions :
            \E next \in (IF threads[t].copy.policy = "Always" THEN {"loading", "writing"} ELSE {"writing"}) :
              threads' = [At(t, next) EXCEPT ![t].copy.latest = v]
    /\ UNCHANGED <<studio, settings, file, running, saved, spoilt, budget>>

\* download_latest_runtime asks, and then downloads.
AnswerDownload ==
    /\ threads[Window].pc = "asking"
    /\ \E v \in Versions : threads' = [At(Window, "loading") EXCEPT ![Window].copy.latest = v]
    /\ UNCHANGED <<studio, settings, file, running, saved, spoilt, budget>>

Loaded(t) ==
    /\ threads[t].pc = "loading"
    /\ threads' = At(t, "writing")
    /\ UNCHANGED <<studio, settings, file, running, saved, spoilt, budget>>

LeavesFlag(t) == IF t = Window THEN running ELSE FALSE

\* An error of the closure leaves by `?` past the clearing of the flag.
MutantFailureKeepsTheFlag(t) ==
    /\ threads[t].pc \in {"asking", "loading"}
    /\ threads' = [threads EXCEPT ![t] = Idle(settings)]
    /\ UNCHANGED <<studio, settings, file, running, saved, spoilt, budget>>

\* The closure returns an error, or the download does: nothing is written, and
\* the flag is cleared all the same.
GiveUp(t) ==
    /\ threads[t].pc \in {"asking", "loading"}
    /\ threads' = [threads EXCEPT ![t] = Idle(settings)]
    /\ running' = LeavesFlag(t)
    /\ UNCHANGED <<studio, settings, file, saved, spoilt, budget>>

\* write_settings: the whole copy replaces the whole record.
WriteBack(t) ==
    /\ threads[t].pc = "writing"
    /\ settings' = threads[t].copy
    /\ threads' = [u \in Workers |->
                     IF u = t \/ threads[u].pc = "idle" THEN Idle(settings')
                     ELSE [threads[u] EXCEPT !.missed = @ \cup threads[t].missed \cup {"latest"}]]
    /\ \E written \in BOOLEAN :
         /\ Write(settings', written)
         /\ spoilt' = IF written THEN (spoilt \cup threads[t].missed) \ {"latest"}
                      ELSE spoilt \cup threads[t].missed \cup {"latest"}
         /\ saved' = IF written THEN [saved EXCEPT !.latest = settings'.latest] ELSE saved
    /\ running' = LeavesFlag(t)
    /\ UNCHANGED studio

SettingsNext ==
    \/ Boot \/ End
    \/ \E input \in Inputs : UpdateSettings(input)
    \/ \E value \in BOOLEAN : SetSilenced(value)
    \/ \E noted \in SUBSET Eclipses : RememberEclipse(noted)
    \/ StartDownload \/ AnswerDownload
    \/ \E t \in SyncThreads : StartSync(t) \/ Answer(t)
    \/ \E t \in Workers : Loaded(t) \/ GiveUp(t) \/ WriteBack(t)

SettingsSpec == SettingsInit /\ [][SettingsNext]_settingsVars

-----------------------------------------------------------------------------
SettingsTypeOK ==
    /\ studio \in {"up", "down"}
    /\ settings \in Values
    /\ file \in Values \cup {Torn}
    /\ running \in BOOLEAN
    /\ \A t \in Workers :
         /\ threads[t].pc \in {"idle", "asking", "loading", "writing"}
         /\ threads[t].copy \in Values \cup {Torn}
         /\ threads[t].missed \subseteq Fields
    /\ spoilt \subseteq Fields

\* What an operation reported saved is what the settings say and what the next
\* start will read, across restarts, the migration of an older file and other
\* operations, as long as no refused update and no copy taken before the save
\* has touched that field.
SavedStaysSaved ==
    \A f \in Fields \ spoilt : saved[f] # Unset =>
        /\ studio = "up" => settings[f] = saved[f]
        /\ file # Torn => file[f] = saved[f]

\* One release check at a time, and a check that failed leaves the way free
\* for the next one.
OneSync ==
    /\ Cardinality({t \in SyncThreads : threads[t].pc # "idle"}) <= 1
    /\ running <=> \E t \in SyncThreads : threads[t].pc # "idle"

\* "one 112 MB download at a time, never two" (manager_service.rs:528).
OneDownload == Cardinality({t \in Workers : threads[t].pc = "loading"}) <= 1

\* "A workspace studio has seen stays listed" (eclipse_notes.rs:407): what was
\* remembered is still remembered.
SeenStaysListed == studio = "up" /\ saved.seen # Unset => saved.seen \subseteq settings.seen
=============================================================================
