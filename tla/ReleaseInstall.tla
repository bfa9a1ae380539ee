--------------------------- MODULE ReleaseInstall ---------------------------
(***************************************************************************)
(* src-tauri/src/release_manager.rs: bringing a released engine into the   *)
(* tools folder. The folder is the only state that lasts: one directory    *)
(* jawata-<version> per engine with a manifest in it, the link `current`,  *)
(* the waiting archives and the note of a refused release.                 *)
(*                                                                         *)
(* Two threads of Studio install: the release check in the background, one *)
(* at a time (sync_releases_now), and the download a user asks for, on the *)
(* main thread (download_or_update_jawata). Studio may end at any step.    *)
(***************************************************************************)
EXTENDS Naturals

CONSTANTS
    Ops,                   \* the threads of this instance
    MaxVersion,            \* bound: releases of the engine, 1..MaxVersion
    Good,                  \* the releases that can pass the trial
    PublishDuringInstall,  \* may a release appear while another is installed
    MaxChecks,             \* bound: checks and downloads begun
    MaxCrashes             \* bound: times Studio ends during them

Versions == 1..MaxVersion
NoVersion == 0

ASSUME ReleaseInstallAssumption ==
    /\ Ops \subseteq {"sync", "download"}
    /\ MaxVersion \in Nat \ {0} /\ Good \subseteq Versions
    /\ PublishDuringInstall \in BOOLEAN
    /\ MaxChecks \in Nat /\ MaxCrashes \in Nat

VARIABLES
    latest,      \* what GitHub names the latest release
    dirs,        \* jawata-<version>
    current,     \* where the link leads, or NoVersion
    partial,     \* the waiting archive of each release
    held,        \* held-update.json
    installers,  \* the calls under way
    budget       \* what is left of the bounds

vars == <<latest, dirs, current, partial, held, installers, budget>>
disk == <<dirs, current, partial, held>>

-----------------------------------------------------------------------------

\* The directory of a version: its unpacked engine and its runtime.json, which
\* is torn from the moment it is opened to the moment it is written.
Dir == [engine : BOOLEAN, manifest : {"none", "torn", "whole"}]
NoDir == [engine |-> FALSE, manifest |-> "none"]

Exists(v) == dirs[v] # NoDir

\* A waiting archive: some first bytes, all of it, or bytes of several downloads.
Archives == {"none", "prefix", "whole", "mixed"}

Pcs == {"idle", "look", "fetch", "decide", "cached", "open", "body", "unpack",
        "trial", "rename", "swap", "list", "clean", "record", "write", "finish"}

Installer == [pc      : Pcs,
              version : Versions \cup {NoVersion},  \* the release
              found   : Versions \cup {NoVersion},  \* the engine found installed
              sole    : BOOLEAN,                    \* nobody else touched the archive
              doomed  : SUBSET Versions]            \* the directories to clean up

Idle == [pc |-> "idle", version |-> NoVersion, found |-> NoVersion,
         sole |-> TRUE, doomed |-> {}]

\* GitHub has named a release; the check looks at the folder first.
Asked(t, pc) == pc \notin {"idle", "fetch"} /\ ~(t = "sync" /\ pc = "look")

TypeOK ==
    /\ latest \in Versions
    /\ dirs \in [Versions -> Dir]
    /\ current \in Versions \cup {NoVersion}
    /\ partial \in [Versions -> Archives]
    /\ held \in Versions \cup {NoVersion}
    /\ installers \in [Ops -> Installer]
    /\ \A t \in Ops : Asked(t, installers[t].pc) => installers[t].version # NoVersion
    /\ budget \in [checks : Nat, crashes : Nat]

At(t, pc) == installers[t].pc = pc

V(t) == installers[t].version

Goto(t, pc) == installers' = [installers EXCEPT ![t].pc = pc]

Return(t) == installers' = [installers EXCEPT ![t] = Idle]

\* get_installed_runtime: the highest version with a manifest; one manifest that
\* does not parse and there is no answer.
Unreadable == \E v \in Versions : dirs[v].manifest = "torn"

Installed ==
    LET recorded == {v \in Versions : dirs[v].manifest = "whole"}
        highest  == {v \in recorded : \A w \in recorded : w <= v}
    IN  IF highest = {} THEN NoVersion ELSE CHOOSE v \in highest : TRUE

-----------------------------------------------------------------------------
(* sync_with_settings and download_latest_runtime, up to the decision. The    *)
(* check looks at the folder and then asks GitHub, the download the reverse.  *)

Begin(t) ==
    /\ At(t, "idle") /\ budget.checks > 0
    /\ budget' = [budget EXCEPT !.checks = @ - 1]
    /\ Goto(t, IF t = "sync" THEN "look" ELSE "fetch")
    /\ UNCHANGED <<latest, disk>>

Look(t) ==
    /\ At(t, "look")
    /\ \/ Unreadable /\ Return(t)
       \/ /\ ~Unreadable
          /\ installers' = [installers EXCEPT ![t].found = Installed,
                              ![t].pc = IF t = "sync" THEN "fetch" ELSE "decide"]
    /\ UNCHANGED <<latest, disk, budget>>

MutantFetchWithoutAsset(t) ==
    /\ At(t, "fetch")
    /\ \E v \in {latest, NoVersion} :
           installers' = [installers EXCEPT ![t].version = v,
                            ![t].pc = IF t = "sync" THEN "decide" ELSE "look"]
    /\ UNCHANGED <<latest, disk, budget>>

\* fetch_latest_release: no answer, a release without an archive, or the latest.
Fetch(t) ==
    /\ At(t, "fetch")
    /\ \/ Return(t)
       \/ installers' = [installers EXCEPT ![t].version = latest,
                           ![t].pc = IF t = "sync" THEN "decide" ELSE "look"]
    /\ UNCHANGED <<latest, disk, budget>>

\* A replacing engine is tried, and one that was refused is not tried again.
Replacing(t) == installers[t].found # NoVersion

\* decide_update and the look at held-update.json.
Decide(t) ==
    /\ At(t, "decide")
    /\ IF \/ Replacing(t) /\ held = V(t)
          \/ t = "sync" /\ installers[t].found = V(t)
       THEN Return(t)
       ELSE \/ Goto(t, "cached")
            \/ t = "sync" /\ Replacing(t) /\ Return(t)      \* UpdatePolicy::Ask
    /\ UNCHANGED <<latest, disk, budget>>

-----------------------------------------------------------------------------
(* install_release. *)

\* A release that is recorded in the folder is not installed again.
Cached(t) ==
    /\ At(t, "cached")
    /\ \/ dirs[V(t)].manifest = "none" /\ Goto(t, "open") /\ UNCHANGED held
       \/ dirs[V(t)].manifest = "torn" /\ Return(t) /\ UNCHANGED held
       \/ dirs[V(t)].manifest = "whole" /\ Return(t) /\ held' = NoVersion
    /\ UNCHANGED <<latest, dirs, current, partial, budget>>

\* The other downloads into the same file.
Writers(t) == {u \in Ops \ {t} : At(u, "body") /\ V(u) = V(t)}

\* fetch_resumable, to the answer's head: 206 appends, 200 begins the file again,
\* 416, the answer for a whole file, removes it and asks again.
Open(t) ==
    LET opened(file, clean) ==
            /\ partial' = [partial EXCEPT ![V(t)] = file]
            /\ installers' = [u \in Ops |->
                 IF u = t THEN [installers[t] EXCEPT !.pc = "body",
                                                     !.sole = clean /\ Writers(t) = {}]
                 ELSE IF u \in Writers(t) THEN [installers[u] EXCEPT !.sole = FALSE]
                 ELSE installers[u]]
    IN
    /\ At(t, "open")
    /\ \/ opened("prefix", TRUE)
       \/ partial[V(t)] \in {"prefix", "mixed"}
          /\ opened(partial[V(t)], partial[V(t)] = "prefix")
       \/ Return(t) /\ UNCHANGED partial
       \/ Return(t) /\ partial' = [partial EXCEPT ![V(t)] = "none"]
    /\ UNCHANGED <<latest, dirs, current, held, budget>>

\* The body arrives or breaks off; a file two downloads wrote to may be anything.
Body(t) ==
    LET ends(file) == IF installers[t].sole THEN {file}
                      ELSE {partial[V(t)], "mixed", file}
    IN
    /\ At(t, "body")
    /\ \/ \E file \in ends("whole") :
              partial' = [partial EXCEPT ![V(t)] = file] /\ Goto(t, "unpack")
       \/ \E file \in ends("prefix") :
              partial' = [partial EXCEPT ![V(t)] = file] /\ Return(t)
    /\ UNCHANGED <<latest, dirs, current, held, budget>>

\* unpack_archive; a file that does not unpack is removed.
Unpack(t) ==
    /\ At(t, "unpack")
    /\ \/ /\ partial[V(t)] = "whole"
          /\ Goto(t, IF Replacing(t) THEN "trial" ELSE "rename")
          /\ UNCHANGED partial
       \/ Return(t) /\ partial' = [partial EXCEPT ![V(t)] = "none"]
    /\ UNCHANGED <<latest, dirs, current, held, budget>>

MutantRefusedGoesOn(t) ==
    /\ At(t, "trial")
    /\ Goto(t, "rename")
    /\ held' = IF V(t) \in Good THEN held ELSE V(t)
    /\ UNCHANGED <<latest, dirs, current, partial, budget>>

\* The trial, and write_held when it fails; a good engine may be too slow to answer.
Trial(t) ==
    /\ At(t, "trial")
    /\ \/ V(t) \in Good /\ Goto(t, "rename") /\ UNCHANGED held
       \/ Return(t) /\ held' = V(t)
    /\ UNCHANGED <<latest, dirs, current, partial, budget>>

-----------------------------------------------------------------------------
(* activate_extracted, after the trial. *)

\* rename(2) does not replace a directory that is not empty.
Rename(t) ==
    /\ At(t, "rename")
    /\ \/ Exists(V(t)) /\ Return(t) /\ UNCHANGED dirs
       \/ ~Exists(V(t)) /\ dirs' = [dirs EXCEPT ![V(t)].engine = TRUE] /\ Goto(t, "swap")
    /\ UNCHANGED <<latest, current, partial, held, budget>>

\* update_current_symlink: one rename, the commit point.
Swap(t) ==
    /\ At(t, "swap")
    /\ current' = V(t)
    /\ Goto(t, "list")
    /\ UNCHANGED <<latest, dirs, partial, held, budget>>

MutantListTheNewOneToo(t) ==
    /\ At(t, "list")
    /\ installers' = [installers EXCEPT ![t].pc = "clean",
                        ![t].doomed = {v \in Versions : Exists(v)}]
    /\ UNCHANGED <<latest, disk, budget>>

MutantListRecordedOnly(t) ==
    /\ At(t, "list")
    /\ installers' = [installers EXCEPT ![t].pc = "clean",
                        ![t].doomed = {v \in Versions \ {V(t)} : dirs[v].manifest = "whole"}]
    /\ UNCHANGED <<latest, disk, budget>>

\* The directories jawata-* other than the new one.
ListOld(t) ==
    /\ At(t, "list")
    /\ installers' = [installers EXCEPT ![t].pc = "clean",
                        ![t].doomed = {v \in Versions \ {V(t)} : Exists(v)}]
    /\ UNCHANGED <<latest, disk, budget>>

\* remove_dir_all of each older engine, a file at a time.
Clean(t) ==
    /\ At(t, "clean")
    /\ \/ /\ installers[t].doomed = {}
          /\ Goto(t, "record") /\ UNCHANGED dirs
       \/ \E v \in installers[t].doomed :
            \/ /\ dirs[v].engine /\ dirs' = [dirs EXCEPT ![v].engine = FALSE]
               /\ UNCHANGED installers
            \/ /\ dirs[v].manifest # "none" /\ dirs' = [dirs EXCEPT ![v].manifest = "none"]
               /\ UNCHANGED installers
            \/ /\ ~Exists(v) /\ UNCHANGED dirs
               /\ installers' = [installers EXCEPT ![t].doomed = @ \ {v}]
    /\ UNCHANGED <<latest, current, partial, held, budget>>

\* fs::write of runtime.json: opened and truncated, then written.
OpenManifest(t) ==
    /\ At(t, "record")
    /\ \/ /\ Exists(V(t))
          /\ dirs' = [dirs EXCEPT ![V(t)].manifest = "torn"] /\ Goto(t, "write")
       \/ ~Exists(V(t)) /\ Return(t) /\ UNCHANGED dirs
    /\ UNCHANGED <<latest, current, partial, held, budget>>

WriteManifest(t) ==
    /\ At(t, "write")
    /\ dirs' = [dirs EXCEPT ![V(t)].manifest = IF @ = "torn" THEN "whole" ELSE @]
    /\ Goto(t, "finish")
    /\ UNCHANGED <<latest, current, partial, held, budget>>

\* remove_partial_archives and clear_held.
Finish(t) ==
    /\ At(t, "finish")
    /\ partial' = [v \in Versions |-> "none"]
    /\ held' = NoVersion
    /\ Return(t)
    /\ UNCHANGED <<latest, dirs, current, budget>>

-----------------------------------------------------------------------------
(* The world. *)

Quiet == \A t \in Ops : At(t, "idle")

Publish ==
    /\ latest < MaxVersion /\ (PublishDuringInstall \/ Quiet)
    /\ latest' = latest + 1
    /\ UNCHANGED <<disk, installers, budget>>

\* Studio ends, and is started again.
Crash ==
    /\ ~Quiet /\ budget.crashes > 0
    /\ installers' = [t \in Ops |-> Idle]
    /\ budget' = [budget EXCEPT !.crashes = @ - 1]
    /\ UNCHANGED <<latest, disk>>

-----------------------------------------------------------------------------

\* A new tools folder, or one with the first release in it.
Init ==
    /\ latest = 1
    /\ \E first \in {NoVersion, 1} :
         /\ current = first
         /\ dirs = [v \in Versions |->
                      IF v = first THEN [engine |-> TRUE, manifest |-> "whole"] ELSE NoDir]
    /\ partial = [v \in Versions |-> "none"]
    /\ held = NoVersion
    /\ installers = [t \in Ops |-> Idle]
    /\ budget = [checks |-> MaxChecks, crashes |-> MaxCrashes]

Step(t) ==
    \/ Begin(t) \/ Look(t) \/ Fetch(t) \/ Decide(t)
    \/ Cached(t) \/ Open(t) \/ Body(t) \/ Unpack(t) \/ Trial(t)
    \/ Rename(t) \/ Swap(t) \/ ListOld(t) \/ Clean(t)
    \/ OpenManifest(t) \/ WriteManifest(t) \/ Finish(t)

Next == (\E t \in Ops : Step(t)) \/ Publish \/ Crash

Spec == Init /\ [][Next]_vars

-----------------------------------------------------------------------------
(* Safety. *)

\* activate_extracted: "Any reader of the stable jar path sees EITHER the old
\* version OR the new one, never a dangling path", through every crash, with both
\* installers at work on one release. Installs of two releases can break it.
CurrentResolves == current # NoVersion => dirs[current].engine

\* activate_extracted: "a refused engine is never reachable by a deploy, a start
\* or a restart", however often it is offered again and whatever crashes between.
\* (A good engine that one installer refused, the other may have installed.)
RefusedUnreachable ==
    held \in Versions \ Good => current # held /\ ~Exists(held)

\* "single-cached-runtime invariant": a finished install leaves one engine in the
\* folder, also after earlier installs that crashed half way.
OneEngineKept ==
    \A t \in Ops : At(t, "finish") =>
        current = V(t) /\ \A v \in Versions : Exists(v) => v = V(t)

\* "the swap below stays the single commit point": when no install runs, the
\* engine Studio believes installed is the one the link leads to.
SingleCommitPoint == Quiet => ~Unreadable /\ Installed = current
=============================================================================
