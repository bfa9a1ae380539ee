------------------------ MODULE ReleaseInstallProofs ------------------------
(* For any number of releases, checks and crashes, wherever Studio ends: the   *)
(* stable jar path dangles only where two installs of different releases are   *)
(* past their renames at once. While no release appears during an install, a   *)
(* refused engine never gets back in and a finished install leaves one engine. *)
EXTENDS ReleaseInstall, WellFoundedInduction, TLAPS

\* Both installers are after the same release, the latest one, if any.
OneRelease ==
    \A t \in Ops : V(t) \in {NoVersion, latest} /\ (At(t, "idle") => V(t) = NoVersion)

\* An installer that has renamed finds its engine in place, and the link on it
\* once it has swapped.
Placed(pc) == pc \in {"swap", "list", "clean", "record", "write", "finish"}
Swapped(pc) == pc \in {"list", "clean", "record", "write", "finish"}

EngineInPlace ==
    \A t \in Ops : /\ Placed(installers[t].pc) => dirs[V(t)].engine
                   /\ Swapped(installers[t].pc) => current = V(t)

\* The clean-up spares the latest release, and is over before and after "clean".
CleanSpares ==
    \A t \in Ops : /\ latest \notin installers[t].doomed
                   /\ At(t, "clean") \/ installers[t].doomed = {}

IInv == TypeOK /\ OneRelease /\ EngineInPlace /\ CleanSpares /\ CurrentResolves

\* The engine found installed is a version or none.
LEMMA InstalledType == TypeOK => Installed \in Versions \cup {NoVersion}
  BY DEF Installed

\* An installer at rest.
LEMMA IdleType == Idle \in Installer /\ Idle.pc = "idle" /\ Idle.version = NoVersion /\ Idle.doomed = {}
  BY DEF Idle, Installer, Pcs

\* The first state of a new or an old tools folder.
LEMMA InitIInv == Init => IInv
<1>. SUFFICES ASSUME Init PROVE IInv
  OBVIOUS
<1>1. 1 \in Versions /\ latest = 1
  BY ReleaseInstallAssumption DEF Init, Versions
<1>2. PICK first \in {NoVersion, 1} :
        /\ current = first
        /\ dirs = [v \in Versions |->
                     IF v = first THEN [engine |-> TRUE, manifest |-> "whole"] ELSE NoDir]
  BY DEF Init
<1>3. dirs \in [Versions -> Dir] /\ current \in Versions \cup {NoVersion} /\ CurrentResolves
  BY <1>1, <1>2 DEF Dir, NoDir, CurrentResolves
<1>4. \A t \in Ops : installers[t] = Idle
  BY DEF Init
<1>5. TypeOK
  BY <1>1, <1>3, <1>4, IdleType, ReleaseInstallAssumption DEF Init, TypeOK, Archives, Asked
<1>6. OneRelease /\ EngineInPlace /\ CleanSpares
  BY <1>4, IdleType DEF OneRelease, EngineInPlace, CleanSpares, V, Placed, Swapped, At
<1>. QED BY <1>3, <1>5, <1>6 DEF IInv

\* A step of one installer that leaves the directories and the link alone, and
\* does not become one that has placed its engine.
LEMMA InstallerFrame ==
    ASSUME IInv, NEW t \in Ops, NEW q \in Installer, installers' = [installers EXCEPT ![t] = q],
           UNCHANGED <<latest, dirs, current>>,
           partial' \in [Versions -> Archives], held' \in Versions \cup {NoVersion},
           budget' \in [checks : Nat, crashes : Nat],
           q.version \in {NoVersion, latest}, q.pc = "idle" => q.version = NoVersion,
           Asked(t, q.pc) => q.version # NoVersion,
           Placed(q.pc) => dirs[q.version].engine,
           Swapped(q.pc) => current = q.version,
           latest \notin q.doomed, q.pc = "clean" \/ q.doomed = {}
    PROVE  IInv'
<1>1. installers' \in [Ops -> Installer] /\ installers'[t] = q
      /\ \A u \in Ops \ {t} : installers'[u] = installers[u]
  BY DEF IInv, TypeOK
<1>2. TypeOK'
  BY <1>1 DEF IInv, TypeOK
<1>3. OneRelease'
  BY <1>1 DEF IInv, OneRelease, V, At
<1>4. EngineInPlace'
  BY <1>1 DEF IInv, EngineInPlace, V
<1>5. CleanSpares'
  BY <1>1 DEF IInv, CleanSpares, At
<1>6. CurrentResolves'
  BY DEF IInv, CurrentResolves
<1>. QED BY <1>2, <1>3, <1>4, <1>5, <1>6 DEF IInv

\* A call that returns.
LEMMA ReturnIInv ==
    ASSUME IInv, NEW t \in Ops, Return(t), UNCHANGED <<latest, dirs, current, budget>>,
           partial' \in [Versions -> Archives], held' \in Versions \cup {NoVersion}
    PROVE  IInv'
  BY IdleType, InstallerFrame DEF Return, IInv, TypeOK, Placed, Swapped, Asked

\* A call that goes on to a step before the rename.
LEMMA GotoIInv ==
    ASSUME IInv, NEW t \in Ops, NEW pc \in Pcs, Goto(t, pc), UNCHANGED <<latest, dirs, current>>,
           partial' \in [Versions -> Archives], held' \in Versions \cup {NoVersion},
           budget' \in [checks : Nat, crashes : Nat],
           pc # "idle", ~Placed(pc), ~At(t, "clean"), V(t) = NoVersion => ~Asked(t, pc)
    PROVE  IInv'
<1> DEFINE q == [installers[t] EXCEPT !.pc = pc]
<1>1. /\ q \in Installer /\ q.pc = pc /\ q.version = V(t) /\ q.doomed = installers[t].doomed
      /\ V(t) \in {NoVersion, latest}
  BY DEF IInv, TypeOK, Installer, V, OneRelease
<1>2. installers' = [installers EXCEPT ![t] = q]
  BY DEF Goto, IInv, TypeOK
<1>3. latest \notin q.doomed /\ q.doomed = {}
  BY <1>1 DEF IInv, CleanSpares
<1>. QED BY <1>1, <1>2, <1>3, InstallerFrame DEF Placed, Swapped, V

\* A call past Fetch has a release, and it is the latest.
LEMMA HasRelease ==
    ASSUME IInv, NEW t \in Ops, Asked(t, installers[t].pc)
    PROVE  V(t) = latest /\ V(t) # NoVersion /\ V(t) \in Versions
  BY DEF IInv, TypeOK, OneRelease, V, NoVersion, Versions

\* The steps before the rename keep the invariant.
LEMMA BeforeRename ==
    ASSUME IInv, NEW t \in Ops,
           \/ Begin(t) \/ Look(t) \/ Fetch(t) \/ Decide(t)
           \/ Cached(t) \/ Unpack(t) \/ Trial(t)
    PROVE  IInv'
<1>0. /\ installers[t] \in Installer /\ installers \in [Ops -> Installer]
      /\ latest \in Versions /\ held \in Versions \cup {NoVersion}
      /\ partial \in [Versions -> Archives] /\ budget \in [checks : Nat, crashes : Nat]
  BY DEF IInv, TypeOK
<1>a. ~At(t, "clean") /\ UNCHANGED <<latest, dirs, current>>
  BY DEF Begin, Look, Fetch, Decide, Cached, Unpack, Trial, At, disk
<1>1. CASE Begin(t)
  <2>1. budget' \in [checks : Nat, crashes : Nat] /\ UNCHANGED <<partial, held>>
    BY <1>0, <1>1 DEF Begin, disk
  <2>2. PICK pc \in {"look", "fetch"} : Goto(t, pc) /\ ~Asked(t, pc)
    BY <1>1 DEF Begin, Asked
  <2>. QED BY <1>0, <1>a, <2>1, <2>2, GotoIInv DEF Pcs, Placed
<1>2. CASE Look(t)
  <2>1. UNCHANGED <<partial, held, budget>> /\ At(t, "look")
    BY <1>2 DEF Look, disk
  <2>2. CASE Return(t)
    BY <1>0, <1>a, <2>1, <2>2, ReturnIInv
  <2>3. CASE ~Return(t)
    <3> DEFINE pc == IF t = "sync" THEN "fetch" ELSE "decide"
               q == [installers[t] EXCEPT !.found = Installed, !.pc = pc]
    <3>1. installers' = [installers EXCEPT ![t] = q]
      BY <1>0, <1>2, <2>3 DEF Look
    <3>2. Installed \in Versions \cup {NoVersion}
      BY InstalledType DEF IInv
    <3>3. q \in Installer /\ q.pc = pc /\ q.version = V(t) /\ q.doomed = installers[t].doomed
      BY <1>0, <3>2 DEF Installer, Pcs, V
    <3>4. V(t) \in {NoVersion, latest} /\ (pc = "decide" => V(t) # NoVersion)
      BY <2>1 DEF IInv, TypeOK, OneRelease, Asked, V, At
    <3>5. latest \notin q.doomed /\ q.doomed = {}
      BY <1>a, <3>3 DEF IInv, CleanSpares
    <3>6. ~Placed(pc) /\ ~Swapped(pc) /\ (pc = "fetch" \/ pc = "decide")
      BY DEF Placed, Swapped
    <3>. QED BY <1>0, <1>a, <2>1, <3>1, <3>3, <3>4, <3>5, <3>6, InstallerFrame DEF Asked
  <2>. QED BY <2>2, <2>3
<1>3. CASE Fetch(t)
  <2>1. UNCHANGED <<partial, held, budget>>
    BY <1>3 DEF Fetch, disk
  <2>2. CASE Return(t)
    BY <1>0, <1>a, <2>1, <2>2, ReturnIInv
  <2>3. CASE ~Return(t)
    <3> DEFINE pc == IF t = "sync" THEN "decide" ELSE "look"
               q == [installers[t] EXCEPT !.version = latest, !.pc = pc]
    <3>1. installers' = [installers EXCEPT ![t] = q]
      BY <1>0, <1>3, <2>3 DEF Fetch
    <3>2. q \in Installer /\ q.pc = pc /\ q.version = latest /\ q.doomed = installers[t].doomed
      BY <1>0 DEF Installer, Pcs
    <3>3. latest # NoVersion
      BY <1>0 DEF Versions, NoVersion
    <3>4. latest \notin q.doomed /\ q.doomed = {}
      BY <1>a, <3>2 DEF IInv, CleanSpares
    <3>5. ~Placed(q.pc) /\ ~Swapped(q.pc) /\ q.pc # "idle"
      BY <3>2 DEF Placed, Swapped
    <3>6. q \in Installer /\ q.version # NoVersion /\ q.version \in {NoVersion, latest}
      BY <3>2, <3>3
    <3>7. UNCHANGED <<latest, dirs, current>>
      BY <1>a
    <3>8. partial' \in [Versions -> Archives] /\ held' \in Versions \cup {NoVersion}
          /\ budget' \in [checks : Nat, crashes : Nat]
      BY <1>0, <2>1
    <3> HIDE DEF q, pc
    <3>. QED BY <3>1, <3>4, <3>5, <3>6, <3>7, <3>8, InstallerFrame
  <2>. QED BY <2>2, <2>3
<1>4. CASE Decide(t) \/ Cached(t) \/ Unpack(t) \/ Trial(t)
  <2>1. UNCHANGED budget /\ held' \in Versions \cup {NoVersion} /\ partial' \in [Versions -> Archives]
    <3>1. UNCHANGED budget
      BY <1>4 DEF Decide, Cached, Unpack, Trial
    <3>2. held' \in Versions \cup {NoVersion}
      BY <1>0, <1>4 DEF Decide, Cached, Unpack, Trial, disk, V, Installer
    <3>3. partial' \in [Versions -> Archives]
      BY <1>0, <1>4 DEF Decide, Cached, Unpack, Trial, disk, Archives
    <3>. QED BY <3>1, <3>2, <3>3
  <2>2. V(t) # NoVersion
    <3>1. Asked(t, installers[t].pc)
      BY <1>4 DEF Decide, Cached, Unpack, Trial, At, Asked
    <3>. QED BY <3>1, HasRelease
  <2>3. CASE Return(t)
    BY <1>0, <1>a, <2>1, <2>3, ReturnIInv
  <2>4. CASE ~Return(t)
    <3>1. PICK pc \in {"cached", "open", "trial", "rename"} : Goto(t, pc)
      BY <1>4, <2>4 DEF Decide, Cached, Unpack, Trial
    <3>. QED BY <1>0, <1>a, <2>1, <2>2, <3>1, GotoIInv DEF Pcs, Placed
  <2>. QED BY <2>3, <2>4
<1>. QED BY <1>1, <1>2, <1>3, <1>4

\* The download: the other one learns that its file was touched.
LEMMA DownloadIInv ==
    ASSUME IInv, NEW t \in Ops, Open(t) \/ Body(t)
    PROVE  IInv'
<1>0. /\ installers[t] \in Installer /\ installers \in [Ops -> Installer]
      /\ held \in Versions \cup {NoVersion} /\ partial \in [Versions -> Archives]
      /\ budget \in [checks : Nat, crashes : Nat]
      /\ V(t) # NoVersion /\ V(t) \in Versions
  <2>1. Asked(t, installers[t].pc)
    BY DEF Open, Body, At, Asked
  <2>. QED BY <2>1, HasRelease DEF IInv, TypeOK
<1>1. ~At(t, "clean") /\ UNCHANGED <<latest, dirs, current, held, budget>>
  BY DEF Open, Body, At
<1>2. partial' \in [Versions -> Archives]
  <2>1. CASE Open(t)
    BY <1>0, <2>1 DEF Open, Archives
  <2>2. CASE Body(t)
    <3>1. partial[V(t)] \in Archives
      BY <1>0
    <3>. QED BY <1>0, <2>2, <3>1 DEF Body, Archives
  <2>. QED BY <2>1, <2>2, SMTT(40)
<1>3. CASE Return(t)
  BY <1>0, <1>1, <1>2, <1>3, ReturnIInv
<1>4. CASE Body(t) /\ ~Return(t)
  <2>1. Goto(t, "unpack")
    BY <1>4 DEF Body
  <2>. QED BY <1>0, <1>1, <1>2, <2>1, GotoIInv DEF Pcs, Placed
<1>5. CASE Open(t) /\ ~Return(t)
  <2>1. PICK sole \in BOOLEAN :
          installers' = [u \in Ops |->
             IF u = t THEN [installers[t] EXCEPT !.pc = "body", !.sole = sole]
             ELSE IF u \in Writers(t) THEN [installers[u] EXCEPT !.sole = FALSE]
             ELSE installers[u]]
    BY <1>5 DEF Open
  <2>2. \A u \in Ops : /\ installers'[u] \in Installer
                       /\ installers'[u].version = V(u)
                       /\ installers'[u].doomed = installers[u].doomed
                       /\ u # t => installers'[u].pc = installers[u].pc
    BY <1>0, <2>1 DEF Installer, Pcs, V
  <2>3. installers'[t].pc = "body" /\ installers[t].pc = "open"
    BY <1>0, <1>5, <2>1 DEF Open, At, Installer
  <2>4. TypeOK'
    <3>1. installers' \in [Ops -> Installer]
      BY <2>1, <2>2
    <3>2. \A u \in Ops : Asked(u, installers'[u].pc) => installers'[u].version # NoVersion
      BY <1>0, <2>2, <2>3 DEF IInv, TypeOK, Asked, V
    <3>. QED BY <1>1, <1>2, <3>1, <3>2 DEF IInv, TypeOK, Asked
  <2>5. OneRelease'
    BY <1>1, <2>2, <2>3 DEF IInv, OneRelease, V, At
  <2>6. EngineInPlace'
    BY <1>1, <2>2, <2>3 DEF IInv, EngineInPlace, Placed, Swapped, V
  <2>7. CleanSpares'
    BY <1>1, <2>2, <2>3 DEF IInv, CleanSpares, At
  <2>8. CurrentResolves'
    BY <1>1 DEF IInv, CurrentResolves
  <2>. QED BY <2>4, <2>5, <2>6, <2>7, <2>8, SMTT(40) DEF IInv
<1>. QED BY <1>3, <1>4, <1>5

\* A step of the activation that leaves the latest release's engine where it is,
\* and the link on an engine that is there.
LEMMA ActivateFrame ==
    ASSUME IInv, NEW t \in Ops, NEW q \in Installer, installers' = [installers EXCEPT ![t] = q],
           UNCHANGED <<latest, partial, held, budget>>,
           dirs' \in [Versions -> Dir], current' \in {current, latest},
           latest # NoVersion, q.version = latest, q.pc # "idle",
           dirs[latest].engine => dirs'[latest].engine,
           Placed(q.pc) => dirs'[latest].engine,
           Swapped(q.pc) => current' = latest,
           CurrentResolves', latest \notin q.doomed, q.pc = "clean" \/ q.doomed = {}
    PROVE  IInv'
<1>1. installers' \in [Ops -> Installer] /\ installers'[t] = q
      /\ \A u \in Ops \ {t} : installers'[u] = installers[u]
  BY DEF IInv, TypeOK
<1>2. TypeOK'
  BY <1>1 DEF IInv, TypeOK
<1>3. OneRelease'
  BY <1>1 DEF IInv, OneRelease, V, At
<1>4. EngineInPlace'
  <2>1. \A u \in Ops \ {t} : Placed(installers[u].pc) => V(u) = latest
    BY HasRelease DEF Placed, Asked
  <2>2. \A u \in Ops \ {t} : Swapped(installers[u].pc) => V(u) = latest
    BY HasRelease DEF Swapped, Asked
  <2>. QED BY <1>1, <2>1, <2>2 DEF IInv, EngineInPlace, V
<1>5. CleanSpares'
  BY <1>1 DEF IInv, CleanSpares, At
<1>. QED BY <1>2, <1>3, <1>4, <1>5 DEF IInv

\* Such a step to another one outside the clean-up.
LEMMA ActivateGoto ==
    ASSUME IInv, NEW t \in Ops, NEW pc \in {"swap", "list", "record", "write", "finish"},
           Goto(t, pc), V(t) = latest, latest # NoVersion, installers[t].doomed = {},
           UNCHANGED <<latest, partial, held, budget>>,
           dirs' \in [Versions -> Dir], current' \in {current, latest},
           dirs'[latest].engine, Swapped(pc) => current' = latest, CurrentResolves'
    PROVE  IInv'
<1> DEFINE q == [installers[t] EXCEPT !.pc = pc]
<1>1. q \in Installer /\ q.pc = pc /\ q.version = latest /\ q.doomed = {}
  BY DEF IInv, TypeOK, Installer, Pcs, V
<1>2. installers' = [installers EXCEPT ![t] = q]
  BY DEF Goto, IInv, TypeOK
<1>3. pc # "idle"
  OBVIOUS
<1>. QED BY <1>1, <1>2, <1>3, ActivateFrame

\* The activation keeps the invariant: a rename adds an engine, the link goes to
\* the latest release, and the clean-up takes only others away.
LEMMA ActivateIInv ==
    ASSUME IInv, NEW t \in Ops,
           \/ Rename(t) \/ Swap(t) \/ ListOld(t) \/ Clean(t)
           \/ OpenManifest(t) \/ WriteManifest(t) \/ Finish(t)
    PROVE  IInv'
<1>0. /\ installers[t] \in Installer /\ installers \in [Ops -> Installer]
      /\ held \in Versions \cup {NoVersion} /\ partial \in [Versions -> Archives]
      /\ dirs \in [Versions -> Dir] /\ latest \in Versions /\ latest # NoVersion
  BY DEF IInv, TypeOK, Versions, NoVersion
<1>1. V(t) = latest
  <2>1. Asked(t, installers[t].pc)
    BY DEF Rename, Swap, ListOld, Clean, OpenManifest, WriteManifest, Finish, At, Asked
  <2>. QED BY <2>1, HasRelease
<1>2. /\ latest \notin installers[t].doomed
      /\ At(t, "clean") \/ installers[t].doomed = {}
      /\ Placed(installers[t].pc) => dirs[latest].engine
      /\ Swapped(installers[t].pc) => current = latest
      /\ CurrentResolves
  BY <1>1 DEF IInv, CleanSpares, EngineInPlace
<1>4. CASE Rename(t) /\ Exists(V(t))
  <2>1. Return(t) /\ UNCHANGED <<latest, dirs, current, partial, held, budget>>
    BY <1>4 DEF Rename
  <2>. QED BY <1>0, <2>1, ReturnIInv
<1>5. CASE Rename(t) /\ ~Exists(V(t))
  <2>1. /\ Goto(t, "swap") /\ dirs' = [dirs EXCEPT ![latest].engine = TRUE]
        /\ At(t, "rename") /\ UNCHANGED <<latest, current, partial, held, budget>>
    BY <1>1, <1>5 DEF Rename
  <2>2. /\ dirs' \in [Versions -> Dir] /\ dirs'[latest].engine
        /\ \A v \in Versions : dirs[v].engine => dirs'[v].engine
    BY <1>0, <2>1 DEF Dir
  <2>3. CurrentResolves'
    BY <1>2, <2>1, <2>2 DEF CurrentResolves, IInv, TypeOK
  <2>4. installers[t].doomed = {}
    BY <1>2, <2>1 DEF At
  <2>. QED BY <1>0, <1>1, <2>1, <2>2, <2>3, <2>4, ActivateGoto DEF Swapped
<1>6. CASE Swap(t)
  <2>1. /\ Goto(t, "list") /\ current' = latest /\ dirs[latest].engine
        /\ installers[t].doomed = {} /\ UNCHANGED <<latest, dirs, partial, held, budget>>
    BY <1>1, <1>2, <1>6 DEF Swap, At, Placed
  <2>2. CurrentResolves'
    BY <2>1 DEF CurrentResolves
  <2>. QED BY <1>0, <1>1, <2>1, <2>2, ActivateGoto
<1>7. CASE ListOld(t)
  <2> DEFINE q == [installers[t] EXCEPT !.pc = "clean",
                     !.doomed = {v \in Versions \ {V(t)} : Exists(v)}]
  <2>1. installers' = [installers EXCEPT ![t] = q]
    BY <1>0, <1>7 DEF ListOld
  <2>2. q \in Installer /\ q.pc = "clean" /\ q.version = latest /\ latest \notin q.doomed
    BY <1>0, <1>1 DEF Installer, Pcs, V
  <2>3. /\ UNCHANGED <<latest, dirs, current, partial, held, budget>>
        /\ dirs[latest].engine /\ current = latest
    BY <1>2, <1>7 DEF ListOld, disk, At, Placed, Swapped
  <2>4. CurrentResolves'
    BY <1>2, <2>3 DEF CurrentResolves
  <2>. QED BY <1>0, <2>1, <2>2, <2>3, <2>4, ActivateFrame
<1>8. CASE Clean(t)
  <2>1. /\ UNCHANGED <<latest, current, partial, held, budget>>
        /\ dirs[latest].engine /\ current = latest
    BY <1>2, <1>8 DEF Clean, At, Placed, Swapped
  <2>2. dirs' \in [Versions -> Dir] /\ dirs'[latest] = dirs[latest]
    <3>1. UNCHANGED dirs
          \/ \E v \in installers[t].doomed :
                \/ dirs' = [dirs EXCEPT ![v].engine = FALSE]
                \/ dirs' = [dirs EXCEPT ![v].manifest = "none"]
      BY <1>8 DEF Clean
    <3>2. \A v \in installers[t].doomed : v \in Versions /\ v # latest
      BY <1>0, <1>2 DEF Installer
    <3>. QED BY <1>0, <3>1, <3>2, ZenonT(60) DEF Dir
  <2>3. CurrentResolves'
    BY <2>1, <2>2 DEF CurrentResolves
  <2>4. CASE installers[t].doomed = {} /\ Goto(t, "record")
    BY <1>0, <1>1, <2>1, <2>2, <2>3, <2>4, ActivateGoto
  <2>5. CASE ~(installers[t].doomed = {} /\ Goto(t, "record"))
    <3>1. PICK rest \in SUBSET installers[t].doomed :
            installers' = [installers EXCEPT ![t] = [installers[t] EXCEPT !.doomed = rest]]
      <4>1. \/ UNCHANGED installers
            \/ \E v \in installers[t].doomed :
                  installers' = [installers EXCEPT ![t] =
                                   [installers[t] EXCEPT !.doomed = installers[t].doomed \ {v}]]
        BY <1>0, <1>8, <2>5 DEF Clean
      <4>2. CASE UNCHANGED installers
        <5>1. installers' = [installers EXCEPT ![t] =
                [installers[t] EXCEPT !.doomed = installers[t].doomed]]
          BY <1>0, <4>2 DEF Installer
        <5>. QED BY <5>1
      <4>. QED BY <4>1, <4>2
    <3> DEFINE q == [installers[t] EXCEPT !.doomed = rest]
    <3>2. q \in Installer /\ q.version = latest /\ q.pc = "clean" /\ q.doomed = rest
      BY <1>0, <1>1, <1>8 DEF Installer, V, Clean, At
    <3>3. latest \notin q.doomed
      BY <1>2, <3>2
    <3>. QED BY <1>0, <2>1, <2>2, <2>3, <3>1, <3>2, <3>3, ActivateFrame
  <2>. QED BY <2>4, <2>5
<1>9. CASE OpenManifest(t) /\ ~Exists(V(t))
  <2>1. Return(t) /\ UNCHANGED <<latest, dirs, current, partial, held, budget>>
    BY <1>9 DEF OpenManifest
  <2>. QED BY <1>0, <2>1, ReturnIInv
<1>10. CASE (OpenManifest(t) /\ Exists(V(t))) \/ WriteManifest(t)
  <2>1. /\ UNCHANGED <<latest, current, partial, held, budget>>
        /\ dirs[latest].engine /\ current = latest /\ installers[t].doomed = {}
    BY <1>2, <1>10 DEF OpenManifest, WriteManifest, At, Placed, Swapped
  <2>2. PICK pc \in {"write", "finish"} : Goto(t, pc)
    BY <1>10 DEF OpenManifest, WriteManifest
  <2>3. PICK m \in {"none", "torn", "whole"} : dirs' = [dirs EXCEPT ![latest].manifest = m]
    <3>1. dirs[latest].manifest \in {"none", "torn", "whole"}
      BY <1>0 DEF Dir
    <3>. QED BY <1>0, <1>1, <1>10, <3>1 DEF OpenManifest, WriteManifest
  <2>4. dirs' \in [Versions -> Dir] /\ dirs'[latest].engine
    BY <1>0, <2>1, <2>3 DEF Dir
  <2>5. CurrentResolves'
    BY <2>1, <2>4 DEF CurrentResolves
  <2>. QED BY <1>0, <1>1, <2>1, <2>2, <2>4, <2>5, ActivateGoto
<1>11. CASE Finish(t)
  <2>1. /\ Return(t) /\ UNCHANGED <<latest, dirs, current, budget>>
        /\ held' \in Versions \cup {NoVersion} /\ partial' \in [Versions -> Archives]
    BY <1>11 DEF Finish, Archives
  <2>. QED BY <2>1, ReturnIInv
<1>. QED BY <1>4, <1>5, <1>6, <1>7, <1>8, <1>9, <1>10, <1>11

\* A release that appears while nothing is installed, and the end of Studio.
LEMMA NextIInv == ~PublishDuringInstall /\ IInv /\ [Next]_vars => IInv'
<1>. SUFFICES ASSUME ~PublishDuringInstall, IInv, [Next]_vars PROVE IInv'
  OBVIOUS
<1>1. CASE \E t \in Ops : Step(t)
  BY <1>1, BeforeRename, DownloadIInv, ActivateIInv DEF Step
<1>2. CASE Publish
  <2>1. /\ latest' \in Versions
        /\ UNCHANGED <<dirs, current, partial, held, installers, budget>>
        /\ \A t \in Ops : At(t, "idle")
    BY <1>2, ReleaseInstallAssumption DEF Publish, Quiet, disk, IInv, TypeOK, Versions
  <2>2. \A t \in Ops : V(t) = NoVersion /\ installers[t].doomed = {}
    BY <2>1 DEF IInv, OneRelease, CleanSpares, At
  <2>3. TypeOK'
    BY <2>1 DEF IInv, TypeOK, Asked
  <2>4. OneRelease' /\ EngineInPlace' /\ CleanSpares' /\ CurrentResolves'
    BY <2>1, <2>2 DEF IInv, OneRelease, EngineInPlace, CleanSpares, CurrentResolves, V, At,
                      Placed, Swapped
  <2>. QED BY <2>3, <2>4 DEF IInv
<1>3. CASE Crash
  <2>1. /\ \A t \in Ops : installers'[t] = Idle
        /\ installers' \in [Ops -> Installer]
        /\ budget' \in [checks : Nat, crashes : Nat]
        /\ UNCHANGED <<latest, dirs, current, partial, held>>
    BY <1>3, IdleType DEF Crash, disk, IInv, TypeOK
  <2>2. TypeOK'
    BY <2>1, IdleType DEF IInv, TypeOK, Asked
  <2>3. OneRelease' /\ EngineInPlace' /\ CleanSpares' /\ CurrentResolves'
    BY <2>1, IdleType DEF IInv, OneRelease, EngineInPlace, CleanSpares, CurrentResolves, V, At,
                          Placed, Swapped
  <2>. QED BY <2>2, <2>3 DEF IInv
<1>4. CASE UNCHANGED vars
  BY <1>4 DEF vars, disk, IInv, TypeOK, OneRelease, EngineInPlace, CleanSpares, CurrentResolves,
              V, At, Asked
<1>. QED BY <1>1, <1>2, <1>3, <1>4 DEF Next

\* While no release appears during an install, the inductive invariant holds.
THEOREM InstallIInv == ~PublishDuringInstall => (Spec => []IInv)
<1>. SUFFICES ASSUME ~PublishDuringInstall PROVE Spec => []IInv
  OBVIOUS
<1>1. IInv /\ [Next]_vars => IInv'
  BY NextIInv
<1>. QED BY <1>1, InitIInv, PTL DEF Spec

-----------------------------------------------------------------------------
(* The second invariant: what the two installers know of the folder. Only one *)
(* of them can be past the rename, because rename(2) refuses the second.       *)

\* The installer has looked for the engine that is there.
PastLook(t, pc) ==
    pc \notin (IF t = "sync" THEN {"idle", "look"} ELSE {"idle", "fetch", "look"})

\* What an installer relies on, as a predicate of its record: its new engine has
\* no manifest until it writes one; the clean-up knows every other directory and
\* leaves none; the latest release, once found, stays recorded; who found nothing
\* has nothing beside the latest release; who found it does not download it.
Relies(t, i) ==
    /\ i.pc = "idle" => i.found = NoVersion
    /\ i.pc \in {"swap", "list", "clean", "record"} => dirs[i.version].manifest = "none"
    /\ i.pc = "clean" => \A v \in Versions : Exists(v) => v = i.version \/ v \in i.doomed
    /\ i.pc \in {"record", "write", "finish"} => \A v \in Versions : Exists(v) => v = i.version
    /\ i.found = latest => dirs[latest].manifest = "whole"
    /\ PastLook(t, i.pc) /\ i.found = NoVersion =>
           \A v \in Versions \ {latest} : dirs[v].manifest # "whole"
    /\ i.pc \in {"open", "body", "unpack", "trial"} => i.found # latest
    /\ i.pc = "trial" => i.found # NoVersion
    /\ latest \notin Good => /\ i.found \notin {NoVersion, latest} =>
                                    dirs[i.found].manifest = "whole"
                             /\ i.pc = "rename" \/ Placed(i.pc) => i.found = NoVersion

OneActivation ==
    \A t, u \in Ops : Placed(installers[t].pc) /\ Placed(installers[u].pc) => t = u

NothingAhead == held <= latest /\ \A v \in Versions : v > latest => ~Exists(v)

\* An engine that replaces another and that cannot pass the trial is not there, and
\* it is refused only while there is another one.
OtherRecorded == \E v \in Versions \ {latest} : dirs[v].manifest = "whole"

RefusedIsOut ==
    /\ held \in Versions \ Good => ~Exists(held)
    /\ latest \notin Good /\ OtherRecorded => ~Exists(latest)
    /\ latest \notin Good /\ held = latest => OtherRecorded

RInv == /\ \A t \in Ops : Relies(t, installers[t])
        /\ OneActivation /\ NothingAhead /\ RefusedIsOut

\* A bounded set of numbers that is not empty has a greatest element.
LEMMA LeastNumber ==
  ASSUME NEW T, T \subseteq Nat, T # {}
  PROVE  \E x \in T : \A y \in T : x <= y
<1> DEFINE R == {ss \in Nat \X Nat : ss[1] < ss[2]}
<1>1. IsWellFoundedOn(R, Nat)
  BY NatLessThanWellFounded DEF OpToRel
<1>2. PICK x \in T : \A y \in T : ~(<<y, x>> \in R)
  <2> HIDE DEF R
  <2>. QED BY <1>1, WFMin
<1>3. ASSUME NEW y \in T PROVE x <= y
  <2>1. <<y, x>> \notin R /\ <<y, x>> \in Nat \X Nat
    BY <1>2
  <2>2. ~(y < x)
    BY <2>1
  <2>. QED BY <2>2
<1>. QED BY <1>3

LEMMA GreatestNumber ==
  ASSUME NEW m \in Nat, NEW T, T \subseteq 1..m, T # {}
  PROVE  \E x \in T : \A y \in T : y <= x
<1> DEFINE D == {k \in Nat : m - k \in T}
<1>1. D \subseteq Nat /\ D # {}
  <2>1. PICK v \in T : TRUE
    OBVIOUS
  <2>2. v \in Nat /\ m - v \in Nat /\ m - (m - v) = v
    OBVIOUS
  <2>. QED BY <2>2
<1>2. PICK k \in D : \A j \in D : k <= j
  <2> HIDE DEF D
  <2>. QED BY <1>1, LeastNumber
<1>3. ASSUME NEW y \in T PROVE y <= m - k
  <2>1. m - y \in Nat /\ m - (m - y) = y
    OBVIOUS
  <2>2. k <= m - y
    BY <1>2, <2>1
  <2>. QED BY <2>1, <2>2
<1>. QED BY <1>3

\* get_installed_runtime finds an engine whose manifest is whole, and none only
\* when there is none.
LEMMA InstalledFinds ==
    ASSUME TypeOK
    PROVE  /\ Installed # NoVersion => dirs[Installed].manifest = "whole"
           /\ Installed = NoVersion => \A v \in Versions : dirs[v].manifest # "whole"
<1> DEFINE recorded == {v \in Versions : dirs[v].manifest = "whole"}
           highest  == {v \in recorded : \A w \in recorded : w <= v}
<1>1. CASE highest = {}
  <2>1. recorded = {}
    BY <1>1, GreatestNumber, ReleaseInstallAssumption DEF Versions
  <2>. QED BY <1>1, <2>1 DEF Installed
<1>2. CASE highest # {}
  <2>1. Installed \in highest
    BY <1>2 DEF Installed
  <2>. QED BY <2>1 DEF NoVersion, Versions
<1>. QED BY <1>1, <1>2

\* An installer at rest relies on nothing.
LEMMA IdleRelies ==
    ASSUME latest \in Versions, NEW t \in Ops
    PROVE  Relies(t, Idle)
<1>1. Idle.pc = "idle" /\ Idle.found = NoVersion /\ NoVersion # latest
  BY DEF Idle, NoVersion, Versions
<1>2. ~PastLook(t, Idle.pc) /\ ~Placed(Idle.pc)
  BY <1>1 DEF PastLook, Placed
<1>. QED BY <1>1, <1>2 DEF Relies

\* The first state: nobody installs, nothing is held, at most release 1 is there.
LEMMA InitRInv == Init => RInv
<1>. SUFFICES ASSUME Init PROVE RInv
  OBVIOUS
<1>1. IInv
  BY InitIInv
<1>2. latest = 1 /\ held = NoVersion /\ \A t \in Ops : installers[t] = Idle
  BY DEF Init
<1>3. \A v \in Versions : v # 1 => dirs[v] = NoDir
  BY DEF Init, NoVersion, Versions
<1>4. NothingAhead
  BY <1>2, <1>3 DEF NothingAhead, Exists, Versions, NoVersion
<1>5. ~OtherRecorded
  BY <1>2, <1>3 DEF OtherRecorded, NoDir
<1>6. RefusedIsOut
  BY <1>2, <1>5 DEF RefusedIsOut, NoVersion, Versions
<1>7. \A t \in Ops : Relies(t, installers[t])
  BY <1>1, <1>2, IdleRelies DEF IInv, TypeOK
<1>8. OneActivation
  BY <1>2 DEF OneActivation, Idle, Placed
<1>. QED BY <1>4, <1>6, <1>7, <1>8 DEF RInv

\* A step of one installer that leaves the folder's directories alone.
LEMMA RestFrame ==
    ASSUME IInv, RInv, NEW t \in Ops, UNCHANGED <<latest, dirs>>,
           \A u \in Ops \ {t} : /\ installers'[u].pc = installers[u].pc
                                /\ installers'[u].version = installers[u].version
                                /\ installers'[u].found = installers[u].found
                                /\ installers'[u].doomed = installers[u].doomed,
           Relies(t, installers'[t]),
           Placed(installers'[t].pc) => Placed(installers[t].pc),
           \/ held' = held
           \/ held' = NoVersion
           \/ held' = latest /\ (latest \in Good \/ OtherRecorded)
    PROVE  RInv'
<1>1. /\ \A v \in Versions : Exists(v)' <=> Exists(v)
      /\ \A v \in Versions : dirs'[v] = dirs[v]
      /\ OtherRecorded' <=> OtherRecorded
      /\ latest \in Versions
  BY DEF Exists, OtherRecorded, IInv, TypeOK
<1>2. ASSUME NEW u \in Ops PROVE Relies(u, installers[u])'
  <2>1. CASE u = t
    BY <2>1 DEF Relies, Exists
  <2>2. CASE u # t
    <3>1. Relies(u, installers[u])
      BY DEF RInv
    <3>2. Relies(u, installers'[u])
      BY <2>2, <3>1 DEF Relies
    <3>. QED BY <3>2 DEF Relies, Exists
  <2>. QED BY <2>1, <2>2
<1>3. OneActivation'
  BY DEF RInv, OneActivation
<1>4. NothingAhead'
  <2>1. NothingAhead /\ (held' = held \/ held' = NoVersion \/ held' = latest)
    BY DEF RInv
  <2>2. held' <= latest
    BY <1>1, <2>1 DEF NothingAhead, NoVersion, Versions
  <2>. QED BY <1>1, <2>1, <2>2 DEF NothingAhead
<1>5. RefusedIsOut'
  <2>1. RefusedIsOut
    BY DEF RInv
  <2>2. CASE held' = held
    BY <1>1, <2>1, <2>2 DEF RefusedIsOut, Exists
  <2>3. CASE held' = NoVersion
    <3>1. held' \notin Versions /\ held' # latest
      BY <1>1, <2>3 DEF NoVersion, Versions
    <3>. QED BY <1>1, <2>1, <3>1 DEF RefusedIsOut
  <2>4. CASE held' = latest /\ (latest \in Good \/ OtherRecorded)
    <3>1. held' \in Versions \ Good => ~Exists(held)'
      BY <1>1, <2>1, <2>4 DEF RefusedIsOut, Exists
    <3>. QED BY <1>1, <2>1, <2>4, <3>1 DEF RefusedIsOut
  <2>. QED BY <2>2, <2>3, <2>4
<1>. QED BY <1>2, <1>3, <1>4, <1>5 DEF RInv

\* A step to another place of the code, and a call that returns.
LEMMA GotoShape ==
    ASSUME TypeOK, NEW t \in Ops, NEW pc, Goto(t, pc)
    PROVE  /\ installers'[t].pc = pc
           /\ installers'[t].version = installers[t].version
           /\ installers'[t].found = installers[t].found
           /\ installers'[t].doomed = installers[t].doomed
           /\ \A u \in Ops \ {t} : installers'[u] = installers[u]
<1>1. installers[t] \in Installer /\ installers \in [Ops -> Installer]
  BY DEF TypeOK
<1>2. installers'[t] = [installers[t] EXCEPT !.pc = pc]
      /\ \A u \in Ops \ {t} : installers'[u] = installers[u]
  BY <1>1 DEF Goto
<1>. QED BY <1>1, <1>2 DEF Installer

LEMMA ReturnRInv ==
    ASSUME IInv, RInv, NEW t \in Ops, Return(t), UNCHANGED <<latest, dirs>>,
           \/ held' = held
           \/ held' = NoVersion
           \/ held' = latest /\ (latest \in Good \/ OtherRecorded)
    PROVE  RInv'
<1>1. installers'[t] = Idle /\ \A u \in Ops \ {t} : installers'[u] = installers[u]
  BY DEF Return, IInv, TypeOK
<1>2. Relies(t, installers'[t]) /\ ~Placed(installers'[t].pc)
  BY <1>1, IdleRelies, IdleType DEF IInv, TypeOK, Placed
<1>. QED BY <1>1, <1>2, RestFrame

\* A step to another place that leaves the directories and the note alone.
LEMMA GotoRInv ==
    ASSUME IInv, RInv, NEW t \in Ops, NEW pc, Goto(t, pc), UNCHANGED <<latest, dirs, held>>,
           Relies(t, [installers[t] EXCEPT !.pc = pc]),
           Placed(pc) => Placed(installers[t].pc)
    PROVE  RInv'
<1>1. installers[t] \in Installer /\ installers \in [Ops -> Installer]
  BY DEF IInv, TypeOK
<1>2. /\ installers'[t] = [installers[t] EXCEPT !.pc = pc] /\ installers'[t].pc = pc
      /\ \A u \in Ops \ {t} : installers'[u] = installers[u]
  BY <1>1, GotoShape DEF Goto, IInv
<1>. QED BY <1>2, RestFrame

\* The steps before the rename.
LEMMA BeforeRenameRInv ==
    ASSUME IInv, RInv, NEW t \in Ops,
           \/ Begin(t) \/ Look(t) \/ Fetch(t) \/ Decide(t)
           \/ Cached(t) \/ Open(t) \/ Body(t) \/ Unpack(t) \/ Trial(t)
    PROVE  RInv'
<1>0. /\ installers[t] \in Installer /\ installers \in [Ops -> Installer]
      /\ latest \in Versions /\ latest # NoVersion /\ TypeOK
      /\ Relies(t, installers[t])
  BY DEF IInv, RInv, TypeOK, Versions, NoVersion
<1>a. UNCHANGED <<latest, dirs>>
  BY DEF Begin, Look, Fetch, Decide, Cached, Open, Body, Unpack, Trial, disk
<1>b. ASSUME Asked(t, installers[t].pc) PROVE V(t) = latest
  BY <1>b, HasRelease
<1>1. CASE Begin(t)
  <2>1. PICK pc \in {"look", "fetch"} : Goto(t, pc) /\ ~PastLook(t, pc)
    BY <1>1 DEF Begin, PastLook
  <2>2. ~Placed(pc) /\ ~Placed(installers[t].pc) /\ UNCHANGED held
    BY <1>1 DEF Begin, Placed, At, disk
  <2>3. Relies(t, [installers[t] EXCEPT !.pc = pc])
    BY <1>0, <2>1, <2>2 DEF Relies, Installer
  <2>. QED BY <1>a, <2>1, <2>2, <2>3, GotoRInv
<1>2. CASE Look(t) /\ ~Return(t)
  <2> DEFINE pc == IF t = "sync" THEN "fetch" ELSE "decide"
             q == [installers[t] EXCEPT !.found = Installed, !.pc = pc]
  <2>1. installers' = [installers EXCEPT ![t] = q] /\ UNCHANGED held
    BY <1>0, <1>2 DEF Look, disk
  <2>2. /\ installers'[t] = q /\ q.pc = pc /\ q.found = Installed
        /\ \A u \in Ops \ {t} : installers'[u] = installers[u]
    BY <1>0, <2>1 DEF Installer
  <2>3. pc \in {"fetch", "decide"} /\ ~Placed(pc)
    BY DEF Placed
  <2>4. Relies(t, q)
    <3> HIDE DEF q, pc
    <3>1. /\ Installed = latest => dirs[latest].manifest = "whole"
          /\ Installed \notin {NoVersion, latest} => dirs[Installed].manifest = "whole"
          /\ Installed = NoVersion => \A v \in Versions \ {latest} : dirs[v].manifest # "whole"
      BY <1>0, InstalledFinds
    <3>. QED BY <2>2, <2>3, <3>1 DEF Relies
  <2>. QED BY <1>a, <2>1, <2>2, <2>3, <2>4, RestFrame
<1>3. CASE Fetch(t) /\ ~Return(t)
  <2> DEFINE pc == IF t = "sync" THEN "decide" ELSE "look"
             q == [installers[t] EXCEPT !.version = latest, !.pc = pc]
  <2>1. installers' = [installers EXCEPT ![t] = q] /\ UNCHANGED held /\ installers[t].pc = "fetch"
    BY <1>0, <1>3 DEF Fetch, disk, At
  <2>2. /\ installers'[t] = q /\ q.pc = pc /\ q.found = installers[t].found
        /\ \A u \in Ops \ {t} : installers'[u] = installers[u]
    BY <1>0, <2>1 DEF Installer
  <2>3. pc \in {"look", "decide"} /\ ~Placed(pc) /\ (PastLook(t, pc) => PastLook(t, "fetch"))
    BY DEF Placed, PastLook
  <2>4. Relies(t, q)
    <3> HIDE DEF q, pc
    <3>. QED BY <1>0, <2>1, <2>2, <2>3 DEF Relies
  <2>. QED BY <1>a, <2>1, <2>2, <2>3, <2>4, RestFrame
<1>4. CASE Decide(t) /\ ~Return(t)
  <2>1. Goto(t, "cached") /\ UNCHANGED held /\ installers[t].pc = "decide"
    BY <1>4 DEF Decide, disk, At
  <2>2. Relies(t, [installers[t] EXCEPT !.pc = "cached"])
    BY <1>0, <2>1 DEF Relies, Installer, PastLook, Placed
  <2>. QED BY <1>a, <2>1, <2>2, GotoRInv DEF Placed
<1>5. CASE Cached(t) /\ ~Return(t)
  <2>1. Goto(t, "open") /\ UNCHANGED held /\ installers[t].pc = "cached"
        /\ dirs[V(t)].manifest = "none"
    BY <1>5 DEF Cached, At
  <2>2. V(t) = latest
    BY <1>b, <2>1 DEF Asked
  <2>3. Relies(t, [installers[t] EXCEPT !.pc = "open"])
    BY <1>0, <2>1, <2>2 DEF Relies, Installer, PastLook, Placed
  <2>. QED BY <1>a, <2>1, <2>3, GotoRInv DEF Placed
<1>6. CASE Open(t) /\ ~Return(t)
  <2>1. PICK sole \in BOOLEAN :
          installers' = [u \in Ops |->
             IF u = t THEN [installers[t] EXCEPT !.pc = "body", !.sole = sole]
             ELSE IF u \in Writers(t) THEN [installers[u] EXCEPT !.sole = FALSE]
             ELSE installers[u]]
    BY <1>6 DEF Open
  <2>2. \A u \in Ops : /\ installers'[u].version = installers[u].version
                       /\ installers'[u].found = installers[u].found
                       /\ installers'[u].doomed = installers[u].doomed
                       /\ u # t => installers'[u].pc = installers[u].pc
    BY <1>0, <2>1 DEF Installer
  <2>3. installers'[t].pc = "body" /\ installers[t].pc = "open" /\ UNCHANGED held
    BY <1>0, <1>6, <2>1 DEF Open, At, Installer
  <2>4. Relies(t, installers'[t])
    BY <1>0, <2>2, <2>3 DEF Relies, PastLook, Placed
  <2>. QED BY <1>a, <2>2, <2>3, <2>4, RestFrame, SMTT(40) DEF Placed
<1>7. CASE Body(t) /\ ~Return(t)
  <2>1. Goto(t, "unpack") /\ UNCHANGED held /\ installers[t].pc = "body"
    BY <1>7 DEF Body, At
  <2>2. Relies(t, [installers[t] EXCEPT !.pc = "unpack"])
    BY <1>0, <2>1 DEF Relies, Installer, PastLook, Placed
  <2>. QED BY <1>a, <2>1, <2>2, GotoRInv DEF Placed
<1>8. CASE Unpack(t) /\ ~Return(t)
  <2>1. PICK pc \in {"trial", "rename"} : Goto(t, pc) /\ (pc = "trial" <=> Replacing(t))
    BY <1>8 DEF Unpack
  <2>2. UNCHANGED held /\ installers[t].pc = "unpack"
    BY <1>8 DEF Unpack, At
  <2>3. Relies(t, [installers[t] EXCEPT !.pc = pc])
    BY <1>0, <2>1, <2>2 DEF Relies, Installer, PastLook, Placed, Replacing
  <2>. QED BY <1>a, <2>1, <2>2, <2>3, GotoRInv DEF Placed
<1>9. CASE Trial(t) /\ ~Return(t)
  <2>1. Goto(t, "rename") /\ UNCHANGED held /\ installers[t].pc = "trial" /\ V(t) \in Good
    BY <1>9 DEF Trial, At
  <2>2. V(t) = latest
    BY <1>b, <2>1 DEF Asked
  <2>3. Relies(t, [installers[t] EXCEPT !.pc = "rename"])
    BY <1>0, <2>1, <2>2 DEF Relies, Installer, PastLook, Placed
  <2>. QED BY <1>a, <2>1, <2>3, GotoRInv DEF Placed
<1>10. CASE Return(t)
  <2>1. \/ held' = held
        \/ held' = NoVersion
        \/ held' = V(t) /\ Trial(t)
    BY <1>10 DEF Begin, Look, Fetch, Decide, Cached, Open, Body, Unpack, Trial, disk
  <2>2. ASSUME Trial(t) PROVE V(t) = latest /\ (latest \in Good \/ OtherRecorded)
    <3>1. installers[t].pc = "trial"
      BY <2>2 DEF Trial, At
    <3>2. V(t) = latest
      BY <1>b, <3>1 DEF Asked
    <3>3. installers[t].found \in Versions \ {latest}
      BY <1>0, <3>1 DEF Relies, Installer
    <3>4. latest \notin Good => dirs[installers[t].found].manifest = "whole"
      BY <1>0, <3>3 DEF Relies, NoVersion, Versions
    <3>. QED BY <3>2, <3>3, <3>4 DEF OtherRecorded
  <2>3. \/ held' = held
        \/ held' = NoVersion
        \/ held' = latest /\ (latest \in Good \/ OtherRecorded)
    BY <2>1, <2>2
  <2>. QED BY <1>a, <1>10, <2>3, ReturnRInv, SMTT(40)
<1>. QED BY <1>1, <1>2, <1>3, <1>4, <1>5, <1>6, <1>7, <1>8, <1>9, <1>10

\* A step that changes the directories is one of the installer past the rename:
\* the other one keeps its record, and has not placed an engine.
LEMMA FolderFrame ==
    ASSUME IInv, RInv, NEW t \in Ops, NEW pc, Goto(t, pc) \/ UNCHANGED installers,
           UNCHANGED <<latest, held>>, Placed(installers'[t].pc),
           \A u \in Ops \ {t} : ~Placed(installers[u].pc),
           Relies(t, installers[t])',
           \A v \in Versions \ {latest} : dirs'[v].manifest = "whole" => dirs[v].manifest = "whole",
           dirs[latest].manifest = "whole" => dirs'[latest].manifest = "whole",
           latest \notin Good =>
               \A u \in Ops : installers[u].found \in {NoVersion, latest},
           \A v \in Versions \ {latest} : Exists(v)' => Exists(v),
           RefusedIsOut'
    PROVE  RInv'
<1>1. \A u \in Ops \ {t} : installers'[u] = installers[u]
  BY GotoShape DEF IInv
<1>2. ASSUME NEW u \in Ops \ {t} PROVE Relies(u, installers[u])'
  <2>1. Relies(u, installers[u]) /\ ~Placed(installers[u].pc)
    BY DEF RInv
  <2>. QED BY <1>1, <2>1 DEF Relies, Placed
<1>3. OneActivation'
  BY <1>1 DEF OneActivation
<1>4. NothingAhead'
  <2>1. NothingAhead /\ latest \in Versions
    BY DEF RInv, IInv, TypeOK
  <2>2. \A v \in Versions : v > latest => v # latest
    BY <2>1 DEF Versions
  <2>. QED BY <2>1, <2>2 DEF NothingAhead
<1>. QED BY <1>2, <1>3, <1>4 DEF RInv

\* The steps from the rename on.
LEMMA ActivateRInv ==
    ASSUME IInv, RInv, NEW t \in Ops,
           \/ Rename(t) \/ Swap(t) \/ ListOld(t) \/ Clean(t)
           \/ OpenManifest(t) \/ WriteManifest(t) \/ Finish(t)
    PROVE  RInv'
<1>0. /\ installers[t] \in Installer /\ installers \in [Ops -> Installer]
      /\ latest \in Versions /\ latest # NoVersion /\ TypeOK
      /\ dirs \in [Versions -> Dir] /\ Relies(t, installers[t])
      /\ RefusedIsOut /\ OneActivation
  BY DEF IInv, RInv, TypeOK, Versions, NoVersion
<1>a. UNCHANGED latest
  BY DEF Rename, Swap, ListOld, Clean, OpenManifest, WriteManifest, Finish
<1>b. V(t) = latest /\ (At(t, "rename") \/ Placed(installers[t].pc))
  <2>1. Asked(t, installers[t].pc)
    BY DEF Rename, Swap, ListOld, Clean, OpenManifest, WriteManifest, Finish, At, Asked
  <2>2. At(t, "rename") \/ Placed(installers[t].pc)
    BY DEF Rename, Swap, ListOld, Clean, OpenManifest, WriteManifest, Finish, At, Placed
  <2>. QED BY <2>1, <2>2, HasRelease
<1>c. ASSUME latest \notin Good
      PROVE  /\ ~OtherRecorded
             /\ \A u \in Ops : installers[u].found \in {NoVersion, latest}
             /\ held # latest
  <2>1. PastLook(t, installers[t].pc)
    BY <1>b DEF PastLook, At, Placed
  <2>2. ~OtherRecorded
    BY <1>0, <1>b, <1>c, <2>1 DEF Relies, OtherRecorded, At
  <2>3. ASSUME NEW u \in Ops PROVE installers[u].found \in {NoVersion, latest}
    <3>1. installers[u].found \in Versions \cup {NoVersion} /\ Relies(u, installers[u])
      BY <1>0 DEF RInv, Installer
    <3>. QED BY <1>c, <2>2, <3>1 DEF Relies, OtherRecorded
  <2>. QED BY <1>0, <1>c, <2>2, <2>3 DEF RefusedIsOut
<1>1. CASE \/ Rename(t) /\ Exists(V(t))
           \/ OpenManifest(t) /\ ~Exists(V(t))
           \/ Finish(t)
  <2>1. Return(t) /\ UNCHANGED dirs /\ (held' = held \/ held' = NoVersion)
    BY <1>1 DEF Rename, OpenManifest, Finish
  <2>. QED BY <1>a, <2>1, ReturnRInv
<1>2. CASE Rename(t) /\ ~Exists(V(t))
  <2>1. /\ ~Exists(latest) /\ dirs' = [dirs EXCEPT ![latest].engine = TRUE]
        /\ Goto(t, "swap") /\ UNCHANGED held
    BY <1>2, <1>b DEF Rename
  <2>2. /\ dirs[latest].engine = FALSE /\ dirs[latest].manifest = "none"
        /\ \A v \in Versions : dirs'[v].manifest = dirs[v].manifest
        /\ \A v \in Versions \ {latest} : Exists(v)' <=> Exists(v)
    BY <1>0, <2>1 DEF Exists, NoDir, Dir
  <2>3. \A u \in Ops \ {t} : ~Placed(installers[u].pc)
    <3>1. ASSUME NEW u \in Ops, Placed(installers[u].pc) PROVE FALSE
      <4>1. V(u) = latest
        BY <3>1, HasRelease DEF Placed, Asked
      <4>. QED BY <2>2, <3>1, <4>1 DEF IInv, EngineInPlace
    <3>. QED BY <3>1
  <2>4. installers'[t].pc = "swap" /\ installers'[t].version = latest
        /\ installers'[t].found = installers[t].found
    BY <1>0, <1>b, <2>1, GotoShape DEF V
  <2>5. Relies(t, installers[t])'
    BY <1>0, <1>2, <1>a, <2>2, <2>4 DEF Relies, Rename, At, PastLook, Placed
  <2>6. RefusedIsOut'
    <3>1. OtherRecorded' <=> OtherRecorded
      BY <1>a, <2>2 DEF OtherRecorded
    <3>2. held \in Versions \ Good => held # latest
      BY <1>c
    <3>. QED BY <1>0, <1>a, <1>c, <2>1, <2>2, <3>1, <3>2 DEF RefusedIsOut, Exists
  <2>7. Placed(installers'[t].pc)
    BY <2>4 DEF Placed
  <2>. QED BY <1>a, <1>c, <2>1, <2>2, <2>3, <2>5, <2>6, <2>7, FolderFrame
<1>3. CASE Swap(t)
  <2>1. Goto(t, "list") /\ UNCHANGED <<dirs, held>> /\ installers[t].pc = "swap"
    BY <1>3 DEF Swap, At
  <2>2. Relies(t, [installers[t] EXCEPT !.pc = "list"])
    BY <1>0, <2>1, SMTT(40) DEF Relies, Installer, PastLook, Placed
  <2>. QED BY <1>a, <2>1, <2>2, GotoRInv DEF Placed
<1>4. CASE ListOld(t)
  <2> DEFINE q == [installers[t] EXCEPT !.pc = "clean",
                     !.doomed = {v \in Versions \ {V(t)} : Exists(v)}]
  <2>1. /\ installers' = [installers EXCEPT ![t] = q] /\ UNCHANGED <<dirs, held>>
        /\ installers[t].pc = "list"
    BY <1>0, <1>4 DEF ListOld, disk, At
  <2>2. /\ installers'[t] = q /\ q.pc = "clean" /\ q.version = V(t)
        /\ q.doomed = {v \in Versions \ {V(t)} : Exists(v)}
        /\ q.found = installers[t].found
        /\ \A u \in Ops \ {t} : installers'[u] = installers[u]
    BY <1>0, <2>1 DEF Installer, V
  <2>3. Relies(t, q)
    <3> HIDE DEF q
    <3>. QED BY <1>0, <2>1, <2>2 DEF Relies, PastLook, Placed, V
  <2>. QED BY <1>a, <2>1, <2>2, <2>3, RestFrame DEF Placed
<1>5. CASE Clean(t) /\ UNCHANGED dirs
  <2>1. UNCHANGED held /\ installers[t].pc = "clean"
    BY <1>5 DEF Clean, At
  <2>2. CASE installers[t].doomed = {}
    <3>1. Goto(t, "record")
      BY <1>5, <2>2 DEF Clean
    <3>2. Relies(t, [installers[t] EXCEPT !.pc = "record"])
      BY <1>0, <2>1, <2>2 DEF Relies, Installer, PastLook, Placed
    <3>. QED BY <1>5, <1>a, <2>1, <3>1, <3>2, GotoRInv DEF Placed
  <2>3. CASE installers[t].doomed # {}
    <3>1. PICK v \in installers[t].doomed :
            \/ UNCHANGED installers
            \/ ~Exists(v) /\ installers' = [installers EXCEPT ![t].doomed = @ \ {v}]
      BY <1>5, <2>3 DEF Clean
    <3>2. /\ installers'[t].pc = "clean" /\ installers'[t].version = installers[t].version
          /\ installers'[t].found = installers[t].found
          /\ \A w \in installers[t].doomed : Exists(w) => w \in installers'[t].doomed
          /\ \A u \in Ops \ {t} : installers'[u] = installers[u]
      BY <1>0, <2>1, <3>1 DEF Installer
    <3>3. Relies(t, installers'[t])
      BY <1>0, <2>1, <3>2 DEF Relies, PastLook, Placed
    <3>. QED BY <1>5, <1>a, <2>1, <3>2, <3>3, RestFrame DEF Placed
  <2>. QED BY <2>2, <2>3
<1>d. ASSUME Placed(installers[t].pc) PROVE \A u \in Ops \ {t} : ~Placed(installers[u].pc)
  BY <1>0, <1>d DEF OneActivation
<1>6. CASE Clean(t) /\ ~UNCHANGED dirs
  <2>1. /\ UNCHANGED <<installers, held>> /\ installers[t].pc = "clean"
        /\ \E v \in installers[t].doomed :
              \/ dirs' = [dirs EXCEPT ![v].engine = FALSE]
              \/ dirs' = [dirs EXCEPT ![v].manifest = "none"]
    BY <1>6 DEF Clean, At
  <2>2. \A v \in installers[t].doomed : v \in Versions \ {latest}
    BY <1>0 DEF IInv, CleanSpares, Installer
  <2>3. /\ dirs'[latest] = dirs[latest]
        /\ \A v \in Versions : /\ Exists(v)' => Exists(v)
                               /\ dirs'[v].manifest = "whole" => dirs[v].manifest = "whole"
    <3>1. PICK v \in Versions \ {latest} :
             \/ dirs' = [dirs EXCEPT ![v].engine = FALSE]
             \/ dirs' = [dirs EXCEPT ![v].manifest = "none"]
      BY <2>1, <2>2
    <3>2. dirs[v] \in Dir /\ \A w \in Versions \ {v} : dirs'[w] = dirs[w]
      BY <1>0, <3>1
    <3>3. \/ dirs'[v] = [dirs[v] EXCEPT !.engine = FALSE]
          \/ dirs'[v] = [dirs[v] EXCEPT !.manifest = "none"]
      BY <1>0, <3>1
    <3>4. /\ Exists(v)' => Exists(v)
          /\ dirs'[v].manifest = "whole" => dirs[v].manifest = "whole"
      <4>1. ASSUME dirs[v] = NoDir PROVE dirs'[v] = NoDir
        <5>0. ~dirs[v].engine /\ dirs[v].manifest = "none"
          BY <4>1 DEF NoDir
        <5>1. dirs'[v] \in Dir /\ ~dirs'[v].engine /\ dirs'[v].manifest = "none"
          BY <3>2, <3>3, <5>0 DEF Dir
        <5>. QED BY <5>1 DEF Dir, NoDir
      <4>2. dirs'[v].manifest = "whole" => dirs[v].manifest = "whole"
        BY <3>2, <3>3 DEF Dir
      <4>. QED BY <4>1, <4>2 DEF Exists
    <3>. QED BY <1>0, <3>1, <3>2, <3>4 DEF Exists
  <2>4. Relies(t, installers[t])'
    BY <1>0, <1>a, <1>b, <1>c, <2>1, <2>3 DEF Relies, PastLook, Placed, V
  <2>5. RefusedIsOut'
    <3>1. latest \notin Good => ~OtherRecorded'
      BY <1>a, <1>c, <2>3 DEF OtherRecorded
    <3>. QED BY <1>0, <1>a, <1>c, <2>1, <2>3, <3>1 DEF RefusedIsOut, Exists
  <2>. QED BY <1>a, <1>c, <1>d, <2>1, <2>3, <2>4, <2>5, FolderFrame DEF Placed
<1>7. CASE (OpenManifest(t) /\ Exists(V(t))) \/ WriteManifest(t)
  <2>1. PICK pc \in {"write", "finish"} : Goto(t, pc)
    BY <1>7 DEF OpenManifest, WriteManifest
  <2>2. UNCHANGED held /\ installers[t].pc \in {"record", "write"} /\ dirs[latest].engine
    BY <1>7, <1>b DEF OpenManifest, WriteManifest, At, IInv, EngineInPlace, Placed
  <2>3. PICK m \in {"none", "torn", "whole"} :
           /\ dirs' = [dirs EXCEPT ![latest].manifest = m]
           /\ dirs[latest].manifest = "whole" => m = "whole"
    <3>1. CASE OpenManifest(t) /\ Exists(V(t))
      <4>1. dirs[latest].manifest = "none"
        BY <1>0, <1>b, <3>1 DEF OpenManifest, At, Relies, V
      <4>2. dirs' = [dirs EXCEPT ![latest].manifest = "torn"]
        BY <1>7, <1>b, <3>1 DEF OpenManifest
      <4>. QED BY <4>1, <4>2
    <3>2. CASE WriteManifest(t)
      <4>1. dirs[latest].manifest \in {"none", "torn", "whole"}
        BY <1>0 DEF Dir
      <4>2. dirs' = [dirs EXCEPT ![latest].manifest =
                       IF dirs[latest].manifest = "torn" THEN "whole" ELSE dirs[latest].manifest]
        BY <1>0, <1>b, <3>2 DEF WriteManifest
      <4>. QED BY <4>1, <4>2
    <3>. QED BY <1>7, <3>1, <3>2
  <2>4. /\ \A v \in Versions \ {latest} : dirs'[v] = dirs[v]
        /\ dirs[latest].manifest = "whole" => dirs'[latest].manifest = "whole"
    BY <1>0, <2>3 DEF Dir
  <2>5. \A v \in Versions : Exists(v)' => Exists(v)
    BY <2>2, <2>4 DEF Exists, NoDir
  <2>6. /\ installers'[t].pc = pc /\ installers'[t].version = latest
        /\ installers'[t].found = installers[t].found
    BY <1>0, <1>b, <2>1, GotoShape DEF V
  <2>7. Relies(t, installers[t])'
    BY <1>0, <1>a, <1>b, <2>2, <2>4, <2>5, <2>6 DEF Relies, PastLook, Placed, V
  <2>8. RefusedIsOut'
    <3>1. OtherRecorded' <=> OtherRecorded
      BY <1>a, <2>4 DEF OtherRecorded
    <3>. QED BY <1>0, <1>a, <1>c, <2>2, <2>5, <3>1 DEF RefusedIsOut, Exists
  <2>. QED BY <1>a, <1>c, <1>d, <2>1, <2>2, <2>4, <2>5, <2>6, <2>7, <2>8, FolderFrame DEF Placed
<1>. QED BY <1>1, <1>2, <1>3, <1>4, <1>5, <1>6, <1>7

\* Every step keeps the second invariant: a release appears only while nobody
\* installs, and after a crash nobody relies on anything.
LEMMA NextRInv == ~PublishDuringInstall /\ IInv /\ RInv /\ [Next]_vars => RInv'
<1>. SUFFICES ASSUME ~PublishDuringInstall, IInv, RInv, [Next]_vars PROVE RInv'
  OBVIOUS
<1>1. CASE \E t \in Ops : Step(t)
  BY <1>1, BeforeRenameRInv, ActivateRInv DEF Step
<1>2. CASE Publish
  <2>1. /\ latest \in Versions /\ latest' \in Versions /\ latest' = latest + 1
        /\ UNCHANGED <<dirs, held, installers>>
        /\ \A t \in Ops : At(t, "idle")
    BY <1>2, ReleaseInstallAssumption DEF Publish, Quiet, disk, IInv, TypeOK, Versions
  <2>2. NothingAhead /\ RefusedIsOut /\ OneActivation
    BY DEF RInv
  <2>3. /\ held < latest' /\ held \in Versions \cup {NoVersion}
        /\ \A v \in Versions : v >= latest' => v > latest
    BY <2>1, <2>2 DEF NothingAhead, IInv, TypeOK, Versions, NoVersion
  <2>4. \A v \in Versions : Exists(v)' <=> Exists(v)
    BY <2>1 DEF Exists
  <2>5. /\ \A v \in Versions : v >= latest' => ~Exists(v)
        /\ ~Exists(latest)'
    BY <2>1, <2>2, <2>3, <2>4 DEF NothingAhead, Versions
  <2>6. NothingAhead'
    BY <2>1, <2>3, <2>4, <2>5 DEF NothingAhead, Versions, NoVersion
  <2>7. RefusedIsOut'
    <3>1. held' # latest' /\ held' = held
      BY <2>1, <2>3 DEF Versions, NoVersion
    <3>. QED BY <2>2, <2>3, <2>4, <2>5, <3>1 DEF RefusedIsOut
  <2>8. OneActivation'
    BY <2>1, <2>2 DEF OneActivation
  <2>9. ASSUME NEW t \in Ops PROVE Relies(t, installers[t])'
    <3>1. installers[t].pc = "idle" /\ installers[t].found = NoVersion
      BY <2>1 DEF At, RInv, Relies
    <3>2. ~PastLook(t, installers[t].pc) /\ ~Placed(installers[t].pc) /\ latest' # NoVersion
      BY <2>1, <3>1 DEF PastLook, Placed, Versions, NoVersion
    <3>. QED BY <2>1, <3>1, <3>2 DEF Relies, PastLook, Placed
  <2>. QED BY <2>6, <2>7, <2>8, <2>9 DEF RInv
<1>3. CASE Crash
  <2>1. /\ \A t \in Ops : installers'[t] = Idle
        /\ UNCHANGED <<latest, dirs, held>> /\ latest' \in Versions
    BY <1>3 DEF Crash, disk, IInv, TypeOK
  <2>2. OneActivation'
    BY <2>1, IdleType DEF OneActivation, Placed
  <2>3. \A t \in Ops : Relies(t, installers[t])'
    <3>1. \A t \in Ops : Relies(t, Idle)
      BY IdleRelies DEF IInv, TypeOK
    <3>. QED BY <2>1, <3>1 DEF Relies, Exists
  <2>. QED BY <2>1, <2>2, <2>3 DEF RInv, NothingAhead, RefusedIsOut, OtherRecorded, Exists
<1>4. CASE UNCHANGED vars
  BY <1>4 DEF vars, disk, RInv, Relies, OneActivation, NothingAhead, RefusedIsOut, OtherRecorded,
              Exists
<1>. QED BY <1>1, <1>2, <1>3, <1>4 DEF Next

\* While no release appears during an install, both invariants hold.
THEOREM InstallRInv == ~PublishDuringInstall => (Spec => [](IInv /\ RInv))
<1>. SUFFICES ASSUME ~PublishDuringInstall PROVE Spec => [](IInv /\ RInv)
  OBVIOUS
<1>1. Init => IInv /\ RInv
  BY InitIInv, InitRInv
<1>2. (IInv /\ RInv) /\ [Next]_vars => (IInv /\ RInv)'
  BY NextIInv, NextRInv
<1>. QED BY <1>1, <1>2, PTL DEF Spec

\* activate_extracted: "a refused engine is never reachable by a deploy, a start or
\* a restart": what held-update.json names and cannot pass the trial is neither in
\* the folder nor behind the link, for any set of good releases.
THEOREM RefusedStaysOut == ~PublishDuringInstall => (Spec => []RefusedUnreachable)
<1>1. IInv /\ RInv => RefusedUnreachable
  <2>. SUFFICES ASSUME IInv, RInv, held \in Versions \ Good
                PROVE  current # held /\ ~Exists(held)
    BY DEF RefusedUnreachable
  <2>1. ~Exists(held)
    BY DEF RInv, RefusedIsOut
  <2>2. current # NoVersion => Exists(current)
    BY DEF IInv, CurrentResolves, Exists, NoDir
  <2>. QED BY <2>1, <2>2 DEF NoVersion, Versions
<1>. QED BY <1>1, InstallRInv, PTL

\* "single-cached-runtime invariant": whoever finishes an install leaves its engine
\* alone in the folder, behind the link, whatever the other one has done.
THEOREM OneEngineStays == ~PublishDuringInstall => (Spec => []OneEngineKept)
<1>1. IInv /\ RInv => OneEngineKept
  BY DEF IInv, EngineInPlace, Swapped, RInv, Relies, OneEngineKept, At, V
<1>. QED BY <1>1, InstallRInv, PTL

-----------------------------------------------------------------------------
(* The types, which hold whenever releases appear.                            *)

\* Every step keeps the types, and an installer that was told a release has it.
LEMMA NextType == TypeOK /\ [Next]_vars => TypeOK'
<1>. SUFFICES ASSUME TypeOK, [Next]_vars PROVE TypeOK'
  OBVIOUS
<1>0. /\ \A t \in Ops : installers[t] \in Installer
      /\ installers \in [Ops -> Installer] /\ latest \in Versions
      /\ dirs \in [Versions -> Dir] /\ partial \in [Versions -> Archives]
      /\ current \in Versions \cup {NoVersion} /\ held \in Versions \cup {NoVersion}
      /\ budget \in [checks : Nat, crashes : Nat]
      /\ \A t \in Ops : Asked(t, installers[t].pc) => V(t) \in Versions
  BY DEF TypeOK, V, Installer
<1>1. ASSUME NEW t \in Ops, Step(t) PROVE TypeOK'
  <2>1. UNCHANGED latest
    BY <1>1 DEF Step, Begin, Look, Fetch, Decide, Cached, Open, Body, Unpack, Trial, Rename, Swap,
               ListOld, Clean, OpenManifest, WriteManifest, Finish, disk
  <2>2. ~At(t, "idle") /\ ~At(t, "look") /\ ~At(t, "fetch") => V(t) \in Versions
    BY <1>0 DEF Asked, At
  <2>3. dirs' \in [Versions -> Dir]
    <3>1. \/ UNCHANGED dirs
          \/ \E v \in Versions, e \in BOOLEAN : dirs' = [dirs EXCEPT ![v].engine = e]
          \/ \E v \in Versions, m \in {"none", "torn", "whole"} :
                dirs' = [dirs EXCEPT ![v].manifest = m]
      <4>1. CASE Rename(t) \/ Clean(t)
        BY <1>0, <2>2, <4>1 DEF Rename, Clean, At, Installer
      <4>2. CASE OpenManifest(t)
        BY <2>2, <4>2 DEF OpenManifest, At
      <4>3. CASE WriteManifest(t)
        <5>1. V(t) \in Versions /\ dirs[V(t)].manifest \in {"none", "torn", "whole"}
          BY <1>0, <2>2, <4>3 DEF WriteManifest, At, Dir
        <5>. QED BY <4>3, <5>1, ZenonT(60) DEF WriteManifest
      <4>4. CASE ~(Rename(t) \/ Clean(t) \/ OpenManifest(t) \/ WriteManifest(t))
        BY <1>1, <4>4 DEF Step, Begin, Look, Fetch, Decide, Cached, Open, Body, Unpack, Trial,
                          Swap, ListOld, Finish, disk
      <4>. QED BY <4>1, <4>2, <4>3, <4>4
    <3>. QED BY <1>0, <3>1 DEF Dir
  <2>4. current' \in Versions \cup {NoVersion} /\ held' \in Versions \cup {NoVersion}
    BY <1>0, <1>1, <2>2 DEF Step, Begin, Look, Fetch, Decide, Cached, Open, Body, Unpack, Trial,
         Rename, Swap, ListOld, Clean, OpenManifest, WriteManifest, Finish, disk, At
  <2>5. partial' \in [Versions -> Archives]
    <3>1. CASE Open(t)
      BY <1>0, <3>1 DEF Open, Archives
    <3>2. CASE Body(t)
      <4>1. partial[V(t)] \in Archives
        BY <1>0, <2>2, <3>2 DEF Body, At
      <4>. QED BY <1>0, <3>2, <4>1 DEF Body, Archives
    <3>3. CASE Unpack(t) \/ Finish(t)
      BY <1>0, <3>3 DEF Unpack, Finish, Archives
    <3>4. CASE ~(Open(t) \/ Body(t) \/ Unpack(t) \/ Finish(t))
      BY <1>0, <1>1, <3>4 DEF Step, Begin, Look, Fetch, Decide, Cached, Trial,
         Rename, Swap, ListOld, Clean, OpenManifest, WriteManifest, disk
    <3>. QED BY <3>1, <3>2, <3>3, <3>4
  <2>6. budget' \in [checks : Nat, crashes : Nat]
    <3>1. CASE Begin(t)
      BY <1>0, <3>1, SMTT(40) DEF Begin
    <3>2. CASE ~Begin(t)
      BY <1>0, <1>1, <3>2 DEF Step, Look, Fetch, Decide, Cached, Open, Body, Unpack, Trial,
         Rename, Swap, ListOld, Clean, OpenManifest, WriteManifest, Finish
    <3>. QED BY <3>1, <3>2
  <2>7. /\ installers' \in [Ops -> Installer]
        /\ \A u \in Ops : Asked(u, installers'[u].pc) => installers'[u].version # NoVersion
    <3>0. ASSUME NEW q \in Installer, installers' = [installers EXCEPT ![t] = q],
                 Asked(t, q.pc) => q.version # NoVersion
          PROVE  <2>7
      BY <1>0, <3>0 DEF V, NoVersion, Versions
    <3>1. CASE Return(t)
      BY <3>0, <3>1, IdleType DEF Return, Asked
    <3>2. ASSUME NEW pc \in Pcs, Goto(t, pc), Asked(t, pc) => V(t) # NoVersion PROVE <2>7
      <4> DEFINE q == [installers[t] EXCEPT !.pc = pc]
      <4>1. q \in Installer /\ q.pc = pc /\ q.version = V(t)
        BY <1>0 DEF Installer, V
      <4>2. installers' = [installers EXCEPT ![t] = q]
        BY <1>0, <3>2 DEF Goto
      <4>. QED BY <3>0, <3>2, <4>1, <4>2
    <3>3. CASE Begin(t)
      <4>1. PICK pc \in {"look", "fetch"} : Goto(t, pc) /\ ~Asked(t, pc)
        BY <3>3 DEF Begin, Asked
      <4>. QED BY <3>2, <4>1 DEF Pcs
    <3>4. CASE Look(t) /\ ~Return(t)
      <4> DEFINE pc == IF t = "sync" THEN "fetch" ELSE "decide"
                 q == [installers[t] EXCEPT !.found = Installed, !.pc = pc]
      <4>1. installers' = [installers EXCEPT ![t] = q] /\ installers[t].pc = "look"
        BY <1>0, <3>4 DEF Look, At
      <4>2. q \in Installer /\ q.pc = pc /\ q.version = V(t)
        BY <1>0, InstalledType DEF Installer, Pcs, V
      <4>3. Asked(t, pc) => Asked(t, "look")
        BY DEF Asked
      <4>4. Asked(t, "look") => V(t) # NoVersion
        BY <4>1 DEF TypeOK, V
      <4> HIDE DEF q, pc
      <4>. QED BY <3>0, <4>1, <4>2, <4>3, <4>4
    <3>5. CASE Fetch(t) /\ ~Return(t)
      <4> DEFINE pc == IF t = "sync" THEN "decide" ELSE "look"
                 q == [installers[t] EXCEPT !.version = latest, !.pc = pc]
      <4>1. installers' = [installers EXCEPT ![t] = q]
        BY <1>0, <3>5 DEF Fetch
      <4>2. q \in Installer /\ q.version = latest
        BY <1>0 DEF Installer, Pcs
      <4>3. latest # NoVersion
        BY <1>0 DEF Versions, NoVersion
      <4> HIDE DEF q, pc
      <4>. QED BY <3>0, <4>1, <4>2, <4>3
    <3>6. CASE (Decide(t) \/ Cached(t) \/ Body(t) \/ Unpack(t) \/ Trial(t) \/ Rename(t)
                \/ Swap(t) \/ OpenManifest(t) \/ WriteManifest(t)) /\ ~Return(t)
      <4>1. \E pc \in Pcs : Goto(t, pc)
        BY <3>6 DEF Decide, Cached, Body, Unpack, Trial, Rename, Swap, OpenManifest,
                    WriteManifest, Pcs
      <4>2. V(t) # NoVersion
        BY <2>2, <3>6 DEF Decide, Cached, Body, Unpack, Trial, Rename, Swap, OpenManifest,
                    WriteManifest, At, Versions, NoVersion
      <4>. QED BY <3>2, <4>1, <4>2
    <3>7. CASE Open(t) /\ ~Return(t)
      <4>1. PICK sole \in BOOLEAN :
              installers' = [u \in Ops |->
                 IF u = t THEN [installers[t] EXCEPT !.pc = "body", !.sole = sole]
                 ELSE IF u \in Writers(t) THEN [installers[u] EXCEPT !.sole = FALSE]
                 ELSE installers[u]]
        BY <3>7 DEF Open
      <4>2. \A u \in Ops : /\ installers'[u] \in Installer
                           /\ installers'[u].version = V(u)
                           /\ u # t => installers'[u].pc = installers[u].pc
        <5> SUFFICES ASSUME NEW u \in Ops
                     PROVE  /\ installers'[u] \in Installer /\ installers'[u].version = V(u)
                            /\ u # t => installers'[u].pc = installers[u].pc
          OBVIOUS
        <5>1. installers[u] \in Installer
          BY <1>0
        <5>2. CASE u = t
          BY <4>1, <5>1, <5>2 DEF Installer, Pcs, V
        <5>3. CASE u # t /\ u \in Writers(t)
          BY <4>1, <5>1, <5>3 DEF Installer, V
        <5>4. CASE u # t /\ u \notin Writers(t)
          BY <4>1, <5>1, <5>4 DEF V
        <5>. QED BY <5>2, <5>3, <5>4
      <4>0. At(t, "open")
        BY <3>7 DEF Open
      <4>3. V(t) # NoVersion
        BY <2>2, <4>0 DEF At, Versions, NoVersion
      <4>4. installers' \in [Ops -> Installer]
        BY <4>1, <4>2
      <4>. QED BY <1>0, <4>2, <4>3, <4>4, SMTT(40) DEF Versions, NoVersion
    <3>8. CASE ListOld(t)
      <4> DEFINE q == [installers[t] EXCEPT !.pc = "clean",
                         !.doomed = {v \in Versions \ {V(t)} : Exists(v)}]
      <4>1. installers' = [installers EXCEPT ![t] = q]
        BY <1>0, <3>8 DEF ListOld
      <4>2. q \in Installer /\ q.version = V(t)
        BY <1>0 DEF Installer, Pcs, V
      <4>3. V(t) # NoVersion
        BY <2>2, <3>8 DEF ListOld, At, Versions, NoVersion
      <4> HIDE DEF q
      <4>. QED BY <3>0, <4>1, <4>2, <4>3
    <3>9. CASE Clean(t)
      <4>1. V(t) # NoVersion
        BY <2>2, <3>9 DEF Clean, At, Versions, NoVersion
      <4>2. CASE Goto(t, "record")
        BY <3>2, <4>1, <4>2 DEF Pcs
      <4>3. CASE UNCHANGED installers
        BY <1>0, <4>3 DEF V, Versions, NoVersion
      <4>4. ASSUME NEW v, installers' = [installers EXCEPT ![t].doomed = @ \ {v}] PROVE <2>7
        <5> DEFINE q == [installers[t] EXCEPT !.doomed = installers[t].doomed \ {v}]
        <5>1. installers' = [installers EXCEPT ![t] = q] /\ q \in Installer /\ q.version = V(t)
          BY <1>0, <4>4 DEF Installer, V
        <5> HIDE DEF q
        <5>. QED BY <3>0, <4>1, <5>1
      <4>. QED BY <3>9, <4>2, <4>3, <4>4 DEF Clean
    <3>10. CASE Finish(t)
      BY <3>1, <3>10 DEF Finish
    <3>. QED BY <1>1, <3>1, <3>3, <3>4, <3>5, <3>6, <3>7, <3>8, <3>9, <3>10 DEF Step
  <2>. QED BY <1>0, <2>1, <2>3, <2>4, <2>5, <2>6, <2>7, SMTT(40) DEF TypeOK, Asked
<1>2. CASE Publish
  BY <1>0, <1>2, ReleaseInstallAssumption DEF Publish, disk, TypeOK, Versions, Asked
<1>3. CASE Crash
  <2>1. installers' \in [Ops -> Installer] /\ \A t \in Ops : ~Asked(t, installers'[t].pc)
    BY <1>3, IdleType DEF Crash, Asked
  <2>2. budget' \in [checks : Nat, crashes : Nat]
    BY <1>0, <1>3 DEF Crash
  <2>. QED BY <1>3, <2>1, <2>2 DEF Crash, disk, TypeOK, Asked
<1>4. CASE UNCHANGED vars
  BY <1>4 DEF vars, disk, TypeOK, Asked
<1>. QED BY <1>1, <1>2, <1>3, <1>4 DEF Next

\* The folder, the note and the installers keep their types, and a call past the
\* answer of GitHub has a release, whenever releases appear.
THEOREM InstallTypeCorrect == Spec => []TypeOK
<1>1. Init => TypeOK
  BY InitIInv DEF IInv
<1>. QED BY <1>1, NextType, PTL DEF Spec

-----------------------------------------------------------------------------
(* The stable path, whenever releases appear.                                 *)

\* Two installs of different releases are past their renames at once.
Race == \E t, u \in Ops :
            Placed(installers[t].pc) /\ Placed(installers[u].pc) /\ V(t) # V(u)

\* A clean-up spares the engine of its own install.
SparesOwn ==
    \A t \in Ops : /\ V(t) \notin installers[t].doomed
                   /\ At(t, "clean") \/ installers[t].doomed = {}

PathInv == TypeOK /\ EngineInPlace /\ SparesOwn /\ CurrentResolves

\* What the invariant reads of an installer.
SameInstall(u) == /\ installers'[u].pc = installers[u].pc
                  /\ installers'[u].version = installers[u].version
                  /\ installers'[u].doomed = installers[u].doomed

\* A step before the rename, or one that returns, when no clean-up is under way.
LEMMA BeforeRenamePath ==
    ASSUME PathInv, TypeOK', NEW t \in Ops, \A u \in Ops \ {t} : SameInstall(u),
           ~Placed(installers'[t].pc), installers'[t].doomed = {}, UNCHANGED <<dirs, current>>
    PROVE  PathInv'
<1>1. EngineInPlace'
  BY DEF PathInv, EngineInPlace, SameInstall, V, Placed, Swapped
<1>2. SparesOwn'
  BY DEF PathInv, SparesOwn, SameInstall, V, At
<1>3. CurrentResolves'
  BY DEF PathInv, CurrentResolves
<1>. QED BY <1>1, <1>2, <1>3 DEF PathInv

\* A call that returns, and one that goes on to a step before the rename.
LEMMA ReturnPath ==
    ASSUME PathInv, TypeOK', NEW t \in Ops, Return(t), UNCHANGED <<dirs, current>>
    PROVE  PathInv'
  BY IdleType, BeforeRenamePath DEF Return, PathInv, TypeOK, SameInstall, Placed

LEMMA GotoPath ==
    ASSUME PathInv, TypeOK', NEW t \in Ops, NEW pc \in Pcs, Goto(t, pc),
           ~Placed(pc), ~At(t, "clean"), UNCHANGED <<dirs, current>>
    PROVE  PathInv'
<1>1. installers[t].doomed = {} /\ installers[t] \in Installer /\ installers \in [Ops -> Installer]
  BY DEF PathInv, SparesOwn, TypeOK
<1>2. installers'[t].doomed = {} /\ installers'[t].pc = pc
      /\ \A u \in Ops \ {t} : installers'[u] = installers[u]
  BY <1>1 DEF Goto, Installer
<1>. QED BY <1>2, BeforeRenamePath DEF SameInstall

\* The steps up to the rename keep the invariant.
LEMMA DownloadPath ==
    ASSUME PathInv, TypeOK', NEW t \in Ops,
           \/ Begin(t) \/ Look(t) \/ Fetch(t) \/ Decide(t) \/ Cached(t)
           \/ Open(t) \/ Body(t) \/ Unpack(t) \/ Trial(t)
    PROVE  PathInv'
<1>0. UNCHANGED <<dirs, current>>
  BY DEF Begin, Look, Fetch, Decide, Cached, Open, Body, Unpack, Trial, disk
<1>1. /\ ~At(t, "clean") => installers[t].doomed = {}
      /\ installers[t] \in Installer /\ installers \in [Ops -> Installer]
  BY DEF PathInv, SparesOwn, TypeOK
<1>2. CASE Return(t)
  BY <1>0, <1>2, ReturnPath
<1>3. CASE (Begin(t) \/ Decide(t) \/ Cached(t) \/ Body(t) \/ Unpack(t) \/ Trial(t)) /\ ~Return(t)
  <2>1. ~At(t, "clean") /\ \E pc \in Pcs : Goto(t, pc) /\ ~Placed(pc)
    BY <1>3 DEF Begin, Decide, Cached, Body, Unpack, Trial, At, Pcs, Placed
  <2>. QED BY <1>0, <2>1, GotoPath
<1>4. CASE Look(t) /\ ~Return(t)
  <2> DEFINE pc == IF t = "sync" THEN "fetch" ELSE "decide"
             q == [installers[t] EXCEPT !.found = Installed, !.pc = pc]
  <2>1. installers' = [installers EXCEPT ![t] = q] /\ installers[t].pc = "look"
    BY <1>1, <1>4 DEF Look, At
  <2>2. q.pc = pc /\ q.doomed = {} /\ ~Placed(pc)
    BY <1>1, <2>1 DEF Installer, At, Placed
  <2> HIDE DEF q, pc
  <2>. QED BY <1>0, <1>1, <2>1, <2>2, BeforeRenamePath DEF SameInstall
<1>5. CASE Fetch(t) /\ ~Return(t)
  <2> DEFINE pc == IF t = "sync" THEN "decide" ELSE "look"
             q == [installers[t] EXCEPT !.version = latest, !.pc = pc]
  <2>1. installers' = [installers EXCEPT ![t] = q] /\ installers[t].pc = "fetch"
    BY <1>1, <1>5 DEF Fetch, At
  <2>2. q.pc = pc /\ q.doomed = {} /\ ~Placed(pc)
    BY <1>1, <2>1 DEF Installer, At, Placed
  <2> HIDE DEF q, pc
  <2>. QED BY <1>0, <1>1, <2>1, <2>2, BeforeRenamePath DEF SameInstall
<1>6. CASE Open(t) /\ ~Return(t)
  <2>1. PICK sole \in BOOLEAN :
          installers' = [u \in Ops |->
             IF u = t THEN [installers[t] EXCEPT !.pc = "body", !.sole = sole]
             ELSE IF u \in Writers(t) THEN [installers[u] EXCEPT !.sole = FALSE]
             ELSE installers[u]]
    BY <1>6 DEF Open
  <2>2. At(t, "open")
    BY <1>6 DEF Open
  <2>3. ~Placed(installers'[t].pc) /\ installers'[t].doomed = {}
    BY <1>1, <2>1, <2>2 DEF Installer, At, Placed
  <2>4. ASSUME NEW u \in Ops \ {t} PROVE SameInstall(u)
    BY <1>1, <2>1 DEF Installer, SameInstall
  <2>. QED BY <1>0, <2>3, <2>4, BeforeRenamePath
<1>. QED BY <1>2, <1>3, <1>4, <1>5, <1>6

\* The steps from the rename on, while no other release is activated beside it.
LEMMA ActivatePath ==
    ASSUME PathInv, TypeOK', ~Race, NEW t \in Ops,
           \/ Rename(t) \/ Swap(t) \/ ListOld(t) \/ Clean(t)
           \/ OpenManifest(t) \/ WriteManifest(t) \/ Finish(t)
    PROVE  PathInv'
<1>0. /\ installers[t] \in Installer /\ installers \in [Ops -> Installer]
      /\ dirs \in [Versions -> Dir] /\ current \in Versions \cup {NoVersion}
      /\ \A u \in Ops : Placed(installers[u].pc) => V(u) \in Versions
  BY DEF PathInv, TypeOK, Placed, Asked, V, Installer
<1>1. /\ \A u \in Ops : Placed(installers[u].pc) => dirs[V(u)].engine
      /\ \A u \in Ops : Swapped(installers[u].pc) => current = V(u)
      /\ \A u \in Ops : V(u) \notin installers[u].doomed
      /\ \A u \in Ops : At(u, "clean") \/ installers[u].doomed = {}
      /\ current # NoVersion => dirs[current].engine
  BY DEF PathInv, EngineInPlace, SparesOwn, CurrentResolves
<1>2. \A u \in Ops : Placed(installers[t].pc) /\ Placed(installers[u].pc) => V(u) = V(t)
  BY DEF Race
<1>3. CASE Return(t) /\ UNCHANGED <<dirs, current>>
  BY <1>3, ReturnPath
<1>4. CASE Rename(t) /\ ~(Return(t) /\ UNCHANGED <<dirs, current>>)
  <2>1. /\ dirs' = [dirs EXCEPT ![V(t)].engine = TRUE] /\ UNCHANGED current
        /\ installers' = [installers EXCEPT ![t].pc = "swap"] /\ installers[t].pc = "rename"
    BY <1>4 DEF Rename, Goto, At
  <2>2. V(t) \in Versions
    BY <2>1 DEF PathInv, TypeOK, Asked, V, Installer
  <2>3. /\ \A u \in Ops : V(u)' = V(u) /\ installers'[u].doomed = installers[u].doomed
        /\ \A u \in Ops \ {t} : installers'[u].pc = installers[u].pc
        /\ installers'[t].pc = "swap"
    BY <1>0, <2>1 DEF V, Installer
  <2>4. \A v \in Versions : dirs'[v].engine = (v = V(t) \/ dirs[v].engine)
    BY <1>0, <2>1, <2>2 DEF Dir
  <2>5. EngineInPlace'
    BY <1>0, <1>1, <2>1, <2>2, <2>3, <2>4 DEF EngineInPlace, Placed, Swapped
  <2>6. SparesOwn'
    BY <1>1, <2>1, <2>3 DEF SparesOwn, At
  <2>7. CurrentResolves'
    BY <1>0, <1>1, <2>1, <2>4 DEF CurrentResolves
  <2>. QED BY <2>5, <2>6, <2>7 DEF PathInv
<1>5. CASE Swap(t)
  <2>1. /\ current' = V(t) /\ UNCHANGED dirs
        /\ installers' = [installers EXCEPT ![t].pc = "list"] /\ installers[t].pc = "swap"
    BY <1>5 DEF Swap, Goto, At
  <2>2. /\ \A u \in Ops : V(u)' = V(u) /\ installers'[u].doomed = installers[u].doomed
        /\ \A u \in Ops \ {t} : installers'[u].pc = installers[u].pc
        /\ installers'[t].pc = "list" /\ Placed(installers[t].pc)
    BY <1>0, <2>1 DEF V, Installer, Placed
  <2>3. EngineInPlace'
    BY <1>0, <1>1, <1>2, <2>1, <2>2 DEF EngineInPlace, Placed, Swapped
  <2>4. SparesOwn'
    BY <1>1, <2>1, <2>2 DEF SparesOwn, At
  <2>5. CurrentResolves'
    BY <1>1, <2>1, <2>2 DEF CurrentResolves
  <2>. QED BY <2>3, <2>4, <2>5 DEF PathInv
<1>6. CASE ListOld(t)
  <2> DEFINE old == {v \in Versions \ {V(t)} : Exists(v)}
             q == [installers[t] EXCEPT !.pc = "clean", !.doomed = old]
  <2>1. installers' = [installers EXCEPT ![t] = q] /\ UNCHANGED <<dirs, current>>
        /\ installers[t].pc = "list"
    BY <1>0, <1>6 DEF ListOld, At, disk
  <2>2. q.pc = "clean" /\ q.version = V(t) /\ q.doomed = old /\ V(t) \notin old
    BY <1>0 DEF Installer, V
  <2> HIDE DEF q, old
  <2>3. EngineInPlace'
    BY <1>0, <1>1, <2>1, <2>2 DEF EngineInPlace, Placed, Swapped, V
  <2>4. SparesOwn'
    BY <1>0, <1>1, <2>1, <2>2 DEF SparesOwn, At, V
  <2>5. CurrentResolves'
    BY <1>1, <2>1 DEF CurrentResolves
  <2>. QED BY <2>3, <2>4, <2>5 DEF PathInv
<1>7. CASE Clean(t)
  <2>0. installers[t].pc = "clean" /\ UNCHANGED current /\ V(t) \in Versions
    BY <1>0, <1>7 DEF Clean, At, Placed
  <2>1. \/ UNCHANGED dirs
        \/ \E v \in installers[t].doomed :
              \/ dirs' = [dirs EXCEPT ![v].engine = FALSE]
              \/ dirs' = [dirs EXCEPT ![v].manifest = "none"]
    BY <1>7 DEF Clean
  <2>2. dirs'[V(t)].engine = dirs[V(t)].engine
    BY <1>0, <1>1, <2>0, <2>1 DEF Dir
  <2>3. /\ \A u \in Ops : V(u)' = V(u)
        /\ \A u \in Ops \ {t} : SameInstall(u)
        /\ installers'[t].doomed \subseteq installers[t].doomed
        /\ \/ installers'[t].pc = "clean"
           \/ installers'[t].pc = "record" /\ installers'[t].doomed = {}
    <3>1. CASE Goto(t, "record") /\ installers[t].doomed = {}
      BY <1>0, <3>1 DEF Goto, V, SameInstall, Installer
    <3>2. CASE UNCHANGED installers
      BY <2>0, <3>2 DEF V, SameInstall
    <3>3. ASSUME NEW v, installers' = [installers EXCEPT ![t].doomed = @ \ {v}] PROVE <2>3
      BY <1>0, <2>0, <3>3 DEF V, SameInstall, Installer
    <3>. QED BY <1>7, <3>1, <3>2, <3>3 DEF Clean
  <2>4. Placed("clean") /\ Swapped("clean") /\ Placed("record") /\ Swapped("record")
    BY DEF Placed, Swapped
  <2>5. EngineInPlace'
    <3>1. \A u \in Ops : Placed(installers'[u].pc) => V(u) = V(t)
      BY <1>2, <2>0, <2>3, <2>4 DEF SameInstall
    <3>2. dirs'[V(t)].engine /\ current = V(t)
      BY <1>1, <2>0, <2>2, <2>4
    <3>3. \A pc : Swapped(pc) => Placed(pc)
      BY DEF Swapped, Placed
    <3>. QED BY <2>0, <2>3, <3>1, <3>2, <3>3 DEF EngineInPlace
  <2>6. SparesOwn'
    BY <1>1, <2>0, <2>3 DEF SparesOwn, At, SameInstall
  <2>7. CurrentResolves'
    BY <1>1, <2>0, <2>2, <2>4 DEF CurrentResolves
  <2>. QED BY <2>5, <2>6, <2>7 DEF PathInv
<1>8. CASE (OpenManifest(t) \/ WriteManifest(t)) /\ ~(Return(t) /\ UNCHANGED <<dirs, current>>)
  <2>1. /\ UNCHANGED current /\ installers[t].pc \in {"record", "write"}
        /\ \E pc \in {"write", "finish"} : installers' = [installers EXCEPT ![t].pc = pc]
        /\ \E x : dirs' = [dirs EXCEPT ![V(t)].manifest = x]
    BY <1>8 DEF OpenManifest, WriteManifest, Goto, At
  <2>2. \A v \in Versions : dirs'[v].engine = dirs[v].engine
    BY <1>0, <2>1 DEF Dir
  <2>3. /\ \A u \in Ops : V(u)' = V(u) /\ installers'[u].doomed = installers[u].doomed
        /\ \A u \in Ops \ {t} : installers'[u].pc = installers[u].pc
        /\ installers'[t].pc \in {"write", "finish"}
    BY <1>0, <2>1 DEF V, Installer
  <2>4. EngineInPlace'
    BY <1>0, <1>1, <2>1, <2>2, <2>3 DEF EngineInPlace, Placed, Swapped
  <2>5. SparesOwn'
    BY <1>1, <2>1, <2>3 DEF SparesOwn, At
  <2>6. CurrentResolves'
    BY <1>0, <1>1, <2>1, <2>2 DEF CurrentResolves
  <2>. QED BY <2>4, <2>5, <2>6 DEF PathInv
<1>9. CASE Finish(t)
  BY <1>3, <1>9 DEF Finish
<1>. QED BY <1>3, <1>4, <1>5, <1>6, <1>7, <1>8, <1>9

\* The invariant is kept by every step but those of two racing installs.
LEMMA NextPath == PathInv /\ ~Race /\ [Next]_vars => PathInv'
<1>. SUFFICES ASSUME PathInv, ~Race, [Next]_vars PROVE PathInv'
  OBVIOUS
<1>0. TypeOK'
  BY NextType DEF PathInv
<1>1. ASSUME NEW t \in Ops, Step(t) PROVE PathInv'
  BY <1>0, <1>1, DownloadPath, ActivatePath DEF Step
<1>2. CASE Publish \/ UNCHANGED vars
  BY <1>0, <1>2 DEF Publish, vars, disk, PathInv, EngineInPlace, SparesOwn, CurrentResolves, V, At
<1>3. CASE Crash
  <2>1. UNCHANGED <<dirs, current>> /\ \A t \in Ops : installers'[t] = Idle
    BY <1>3 DEF Crash, disk
  <2>. QED BY <1>0, <2>1, IdleType DEF PathInv, EngineInPlace, SparesOwn, CurrentResolves, V, At,
                Placed, Swapped
<1>. QED BY <1>1, <1>2, <1>3 DEF Next

\* activate_extracted: "Any reader of the stable jar path sees EITHER the old
\* version OR the new one, never a dangling path". Releases may appear at any
\* moment, two installers may work side by side and Studio may end anywhere: the
\* path dangles only after a race of two installs of different releases.
THEOREM PathBreaksOnlyInARace == Spec => ([]~Race => []CurrentResolves)
<1>1. Init => PathInv
  <2>1. ASSUME Init PROVE SparesOwn
    <3>1. \A t \in Ops : installers[t] = Idle
      BY <2>1 DEF Init
    <3>. QED BY <3>1, IdleType DEF SparesOwn
  <2>. QED BY <2>1, InitIInv DEF PathInv, IInv
<1>2. PathInv => CurrentResolves
  BY DEF PathInv
<1>. QED BY <1>1, <1>2, NextPath, PTL DEF Spec
=============================================================================
