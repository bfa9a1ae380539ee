---------------------------- MODULE ConfigProofs ----------------------------
(* What holds of the settings for every number of release checks, every    *)
(* input of the window, every first file, and every number of saves,       *)
(* faults and boots; and of the entries, files and endpoints of workspaces *)
(* for all projects, names, ports and histories.                           *)
(*                                                                         *)
(* At rest no file lists another workspace's project and every endpoint    *)
(* reaches its workspace. Inside a command neither holds, so the invariant *)
(* (MainFits) is about what the window's thread has still to do: whatever  *)
(* is out of order is put in order by a step ahead, and every step that    *)
(* may break something has the mending one behind it.                      *)
EXTENDS MCConfig, FiniteSetTheorems, SequenceTheorems, WellFoundedInduction, TLAPS

PcNames == {"idle", "asking", "loading", "writing"}
ThreadState == [pc : PcNames, copy : Values, missed : SUBSET Fields]

\* The types the proofs need: the threads and the reports are functions.
SettingsTyped ==
    /\ studio \in {"up", "down"}
    /\ settings \in Values
    /\ file \in Values \cup {Torn}
    /\ running \in BOOLEAN
    /\ threads \in [Workers -> ThreadState]
    /\ saved = [f \in Fields |-> saved[f]]
    /\ spoilt \subseteq Fields

-----------------------------------------------------------------------------
(* Values. *)

LEMMA MigratedTyped ==
    ASSUME NEW v \in Values
    PROVE  /\ Migrated(v) \in Values
           /\ Migrated(v).version = CurrentVersion
           /\ v.version = CurrentVersion => Migrated(v) = v
<1>1. v.version \in 1..CurrentVersion
  BY DEF Values
<1>2. CASE v.version >= CurrentVersion
  <2>1. Migrated(v) = v
    BY <1>2 DEF Migrated
  <2>2. QED
    BY <1>1, <1>2, <2>1 DEF CurrentVersion
<1>3. CASE ~(v.version >= CurrentVersion)
  <2>1. Migrated(v) = [v EXCEPT !.version = CurrentVersion, !.policy = "Always"]
    BY <1>3 DEF Migrated
  <2>2. CurrentVersion \in 1..CurrentVersion
    BY DEF CurrentVersion
  <2>3. [v EXCEPT !.version = CurrentVersion, !.policy = "Always"] \in Values
    BY <2>2, Zenon DEF Values
  <2>4. [v EXCEPT !.version = CurrentVersion, !.policy = "Always"].version = CurrentVersion
    BY DEF Values
  <2>5. v.version # CurrentVersion
    BY <1>1, <1>3 DEF CurrentVersion
  <2>6. QED
    BY <2>1, <2>3, <2>4, <2>5
<1>4. QED
  BY <1>2, <1>3

LEMMA IdleTyped == \A v \in Values : Idle(v) \in ThreadState
  BY DEF Idle, ThreadState, PcNames, Fields

LEMMA AssignedTyped ==
    ASSUME NEW input \in Inputs, NEW v \in Values
    PROVE  /\ AssignedOf(input) \subseteq Sent
           /\ [f \in DOMAIN v |-> IF f \in AssignedOf(input) THEN input[f] ELSE v[f]] \in Values
<1>1. input \in [policy : {"Ask", "Always"}, root : Roots \cup {Malformed}, repo : Repos \cup {Malformed}]
  BY InputAssumption
<1>2. AssignedOf(input) \subseteq Sent
  BY DEF AssignedOf, Sent
<1>3. "root" \in AssignedOf(input) => input.root \in Roots
  BY <1>1 DEF AssignedOf
<1>4. "repo" \in AssignedOf(input) => input.repo \in Repos
  BY <1>1 DEF AssignedOf
<1>5. DOMAIN v = {"policy", "root", "repo", "silenced", "seen", "latest", "version"}
  BY DEF Values
<1>6. [f \in DOMAIN v |-> IF f \in AssignedOf(input) THEN input[f] ELSE v[f]] \in Values
  BY <1>1, <1>2, <1>3, <1>4, <1>5 DEF Values, Sent
<1>7. QED
  BY <1>2, <1>6

LEMMA SilencedTyped ==
    ASSUME NEW v \in Values, NEW value \in BOOLEAN
    PROVE  [v EXCEPT !.silenced = value] \in Values
  BY DEF Values

LEMMA SeenTyped ==
    ASSUME NEW v \in Values, NEW noted \in SUBSET Eclipses
    PROVE  [v EXCEPT !.seen = @ \cup noted] \in Values
<1>1. v.seen \cup noted \in SUBSET Eclipses
  BY DEF Values
<1>2. QED
  BY <1>1 DEF Values

LEMMA LatestTyped ==
    ASSUME NEW v \in Values, NEW version \in Versions
    PROVE  [v EXCEPT !.latest = version] \in Values
  BY DEF Values

-----------------------------------------------------------------------------
(* Saves. *)

LEMMA OvertakeTyped ==
    ASSUME SettingsTyped, NEW changed \in SUBSET Fields, settings' \in Values, Overtake(changed)
    PROVE  threads' \in [Workers -> ThreadState]
<1>1. SUFFICES ASSUME NEW t \in Workers
               PROVE  (IF threads[t].pc = "idle" THEN Idle(settings')
                       ELSE [threads[t] EXCEPT !.missed = @ \cup changed]) \in ThreadState
  BY DEF Overtake
<1>2. threads[t] \in ThreadState
  BY DEF SettingsTyped
<1>3. [threads[t] EXCEPT !.missed = @ \cup changed] \in ThreadState
  BY <1>2 DEF ThreadState
<1>4. QED
  BY <1>3, IdleTyped

LEMMA ReportTyped ==
    ASSUME SettingsTyped, NEW changed \in SUBSET Fields, NEW written \in BOOLEAN,
           Report(changed, written)
    PROVE  /\ saved' = [f \in Fields |-> saved'[f]]
           /\ spoilt' \subseteq Fields
  BY DEF SettingsTyped, Report

LEMMA SaveTyped ==
    ASSUME SettingsTyped, NEW changed \in SUBSET Fields, settings' \in Values, Save(changed)
    PROVE  SettingsTyped'
<1>1. threads' \in [Workers -> ThreadState]
  BY OvertakeTyped DEF Save
<1>2. PICK written \in BOOLEAN : WriteSave(settings', written) /\ Report(changed, written)
  BY DEF Save
<1>3. file' \in Values \cup {Torn}
  BY <1>2 DEF WriteSave, SettingsTyped
<1>4. QED
  BY <1>1, <1>2, <1>3, ReportTyped DEF Save, SettingsTyped

-----------------------------------------------------------------------------
(* Types. *)

LEMMA ThreadsTyped ==
    ASSUME SettingsTyped, NEW t \in Workers
    PROVE  /\ threads[t] \in ThreadState
           /\ threads[t].copy \in Values
           /\ threads[t].missed \subseteq Fields
  BY DEF SettingsTyped, ThreadState

LEMMA AtTyped ==
    ASSUME SettingsTyped, NEW t \in Workers, NEW pc \in PcNames
    PROVE  At(t, pc) \in [Workers -> ThreadState]
  BY ThreadsTyped DEF At, ThreadState, SettingsTyped

LEMMA AnsweredTyped ==
    ASSUME SettingsTyped, NEW t \in Workers, NEW pc \in PcNames, NEW v \in Versions
    PROVE  [At(t, pc) EXCEPT ![t].copy.latest = v] \in [Workers -> ThreadState]
<1>1. At(t, pc) \in [Workers -> ThreadState]
  BY AtTyped
<1>2. At(t, pc)[t] \in ThreadState /\ At(t, pc)[t].copy \in Values
  BY <1>1 DEF ThreadState
<1>3. [At(t, pc)[t].copy EXCEPT !.latest = v] \in Values
  BY <1>2, LatestTyped
<1>4. [At(t, pc)[t] EXCEPT !.copy.latest = v] \in ThreadState
  BY <1>2, <1>3 DEF ThreadState
<1>5. QED
  BY <1>1, <1>4

LEMMA TypedInit == SettingsInit => SettingsTyped
<1>1. SUFFICES ASSUME SettingsInit PROVE SettingsTyped
  OBVIOUS
<1>2. file \in Values
  BY <1>1, FileAssumption DEF SettingsInit
<1>3. Idle(file) \in ThreadState
  BY <1>2, IdleTyped
<1>4. QED
  BY <1>1, <1>2, <1>3 DEF SettingsInit, SettingsTyped

LEMMA TypedNext == SettingsTyped /\ [SettingsNext]_settingsVars => SettingsTyped'
<1>. SUFFICES ASSUME SettingsTyped, [SettingsNext]_settingsVars PROVE SettingsTyped'
  OBVIOUS
<1>1. CASE Boot
  <2>1. settings' \in Values /\ file \in Values
    <3>1. file \in Values
      BY <1>1 DEF Boot, SettingsTyped
    <3>2. QED
      BY <1>1, <3>1, MigratedTyped DEF Boot
  <2>2. threads' \in [Workers -> ThreadState]
    <3>1. Idle(settings') \in ThreadState
      BY <2>1, IdleTyped
    <3>2. QED
      BY <1>1, <3>1 DEF Boot
  <2>3. file' \in Values \cup {Torn}
    BY <1>1, <2>1 DEF Boot
  <2>4. QED
    BY <1>1, <2>1, <2>2, <2>3 DEF Boot, SettingsTyped
<1>2. CASE End
  <2>1. Idle(settings) \in ThreadState
    BY IdleTyped DEF SettingsTyped
  <2>2. QED
    BY <1>2, <2>1 DEF End, SettingsTyped
<1>3. ASSUME NEW input \in Inputs, UpdateSettings(input) PROVE SettingsTyped'
  <2>1. settings' \in Values /\ AssignedOf(input) \in SUBSET Fields /\ Sent \in SUBSET Fields
    BY <1>3, AssignedTyped DEF UpdateSettings, SettingsTyped, Sent, Fields
  <2>2. CASE AssignedOf(input) = Sent
    BY <1>3, <2>1, <2>2, SaveTyped DEF UpdateSettings
  <2>3. CASE AssignedOf(input) # Sent
    <3>1. Overtake(AssignedOf(input)) /\ Report(AssignedOf(input), FALSE)
          /\ UNCHANGED <<studio, file, running>>
      BY <1>3, <2>3 DEF UpdateSettings
    <3>2. threads' \in [Workers -> ThreadState]
      BY <2>1, <3>1, OvertakeTyped
    <3>3. saved' = [f \in Fields |-> saved'[f]] /\ spoilt' \subseteq Fields
      BY <2>1, <3>1, ReportTyped
    <3>4. QED
      BY <2>1, <3>1, <3>2, <3>3 DEF SettingsTyped
  <2>4. QED
    BY <2>2, <2>3
<1>4. ASSUME NEW value \in BOOLEAN, SetSilenced(value) PROVE SettingsTyped'
  <2>1. settings' \in Values /\ {"silenced"} \in SUBSET Fields
    BY <1>4, SilencedTyped DEF SetSilenced, SettingsTyped, Fields
  <2>2. QED
    BY <1>4, <2>1, SaveTyped DEF SetSilenced
<1>5. ASSUME NEW noted \in SUBSET Eclipses, RememberEclipse(noted) PROVE SettingsTyped'
  <2>1. settings' \in Values /\ {"seen"} \in SUBSET Fields
    BY <1>5, SeenTyped DEF RememberEclipse, SettingsTyped, Fields
  <2>2. QED
    BY <1>5, <2>1, SaveTyped DEF RememberEclipse
<1>6. ASSUME NEW t \in Workers,
             threads' = [threads EXCEPT ![t] = [pc |-> "asking", copy |-> settings, missed |-> {}]]
      PROVE  threads' \in [Workers -> ThreadState]
  <2>1. [pc |-> "asking", copy |-> settings, missed |-> {}] \in ThreadState
    BY DEF SettingsTyped, ThreadState, PcNames, Fields
  <2>2. QED
    BY <1>6, <2>1 DEF SettingsTyped
<1>7. CASE StartDownload
  BY <1>6, <1>7 DEF StartDownload, Workers, SettingsTyped
<1>8. CASE AnswerDownload
  <2>1. threads' \in [Workers -> ThreadState]
    <3>1. PICK v \in Versions : threads' = [At(Window, "loading") EXCEPT ![Window].copy.latest = v]
      BY <1>8 DEF AnswerDownload
    <3>2. Window \in Workers /\ "loading" \in PcNames
      BY DEF Workers, PcNames
    <3>3. QED
      BY <3>1, <3>2, AnsweredTyped
  <2>2. QED
    BY <1>8, <2>1 DEF AnswerDownload, SettingsTyped
<1>9. ASSUME NEW t \in SyncThreads, StartSync(t) PROVE SettingsTyped'
  BY <1>6, <1>9 DEF StartSync, Workers, SettingsTyped
<1>10. ASSUME NEW t \in SyncThreads, Answer(t) PROVE SettingsTyped'
  <2>1. t \in Workers
    BY DEF Workers
  <2>2. threads' \in [Workers -> ThreadState]
    <3>1. CASE threads' = At(t, "writing")
      BY <2>1, <3>1, AtTyped DEF PcNames
    <3>2. ASSUME NEW v \in Versions, NEW next \in {"loading", "writing"},
                 threads' = [At(t, next) EXCEPT ![t].copy.latest = v]
          PROVE  threads' \in [Workers -> ThreadState]
      <4>1. next \in PcNames
        BY DEF PcNames
      <4>2. QED
        BY <2>1, <3>2, <4>1, AnsweredTyped
    <3>3. QED
      BY <1>10, <3>1, <3>2 DEF Answer
  <2>3. QED
    BY <1>10, <2>2 DEF Answer, SettingsTyped
<1>11. ASSUME NEW t \in Workers, Loaded(t) PROVE SettingsTyped'
  <2>1. threads' \in [Workers -> ThreadState]
    BY <1>11, AtTyped DEF Loaded, PcNames
  <2>2. QED
    BY <1>11, <2>1 DEF Loaded, SettingsTyped
<1>12. ASSUME NEW t \in Workers, GiveUp(t) PROVE SettingsTyped'
  <2>1. Idle(settings) \in ThreadState
    BY IdleTyped DEF SettingsTyped
  <2>2. QED
    BY <1>12, <2>1 DEF GiveUp, LeavesFlag, SettingsTyped
<1>13. ASSUME NEW t \in Workers, WriteBack(t) PROVE SettingsTyped'
  <2>1. settings' \in Values
    BY <1>13, ThreadsTyped DEF WriteBack
  <2>2. threads' \in [Workers -> ThreadState]
    <3>1. SUFFICES ASSUME NEW u \in Workers
                   PROVE  (IF u = t \/ threads[u].pc = "idle" THEN Idle(settings')
                           ELSE [threads[u] EXCEPT !.missed = @ \cup threads[t].missed \cup {"latest"}]) \in ThreadState
      BY <1>13 DEF WriteBack
    <3>2. threads[u].missed \cup threads[t].missed \cup {"latest"} \subseteq Fields
      BY ThreadsTyped DEF Fields
    <3>3. [threads[u] EXCEPT !.missed = @ \cup threads[t].missed \cup {"latest"}] \in ThreadState
      BY <3>2, ThreadsTyped DEF ThreadState
    <3>4. QED
      BY <2>1, <3>3, IdleTyped
  <2>3. PICK written \in BOOLEAN :
          /\ Write(settings', written)
          /\ spoilt' = IF written THEN (spoilt \cup threads[t].missed) \ {"latest"}
                       ELSE spoilt \cup threads[t].missed \cup {"latest"}
          /\ saved' = IF written THEN [saved EXCEPT !.latest = settings'.latest] ELSE saved
    BY <1>13 DEF WriteBack
  <2>4. file' \in Values \cup {Torn}
    BY <2>1, <2>3 DEF Write, SettingsTyped
  <2>5. spoilt' \subseteq Fields
    BY <2>3, ThreadsTyped DEF SettingsTyped, Fields
  <2>6. saved' = [f \in Fields |-> saved'[f]]
    BY <2>3 DEF SettingsTyped
  <2>7. running' \in BOOLEAN /\ studio' = studio
    BY <1>13 DEF WriteBack, LeavesFlag, SettingsTyped
  <2>8. QED
    BY <2>1, <2>2, <2>4, <2>5, <2>6, <2>7 DEF SettingsTyped
<1>14. CASE UNCHANGED settingsVars
  BY <1>14 DEF settingsVars, SettingsTyped
<1>15. QED
  BY <1>1, <1>2, <1>3, <1>4, <1>5, <1>7, <1>8, <1>9, <1>10, <1>11, <1>12, <1>13, <1>14 DEF SettingsNext

\* What is behind the mutex and in the file, and every copy of it, is a settings
\* record (config.rs), whatever was sent, refused, lost or migrated.
THEOREM SettingsTypeCorrect == SettingsSpec => []SettingsTypeOK
<1>1. SettingsTyped => SettingsTypeOK
  BY DEF SettingsTyped, SettingsTypeOK, ThreadState, PcNames
<1>2. QED
  BY <1>1, TypedInit, TypedNext, PTL DEF SettingsSpec

-----------------------------------------------------------------------------
(* One release check. *)

\* No thread works while Studio is down, and the flag is up for exactly one
\* release check.  What makes OneSync inductive is the first part: a start
\* finds no check to forget.
Flagged ==
    /\ \A t \in Workers : threads[t].pc # "idle" => studio = "up"
    /\ running <=> \E t \in SyncThreads : threads[t].pc # "idle"
    /\ \A t, u \in SyncThreads : threads[t].pc # "idle" /\ threads[u].pc # "idle" => t = u

SamePcs == \A t \in Workers : threads'[t].pc = threads[t].pc

LEMMA OvertakeKeepsPcs ==
    ASSUME SettingsTyped, NEW changed, Overtake(changed)
    PROVE  SamePcs
<1>1. SUFFICES ASSUME NEW t \in Workers PROVE threads'[t].pc = threads[t].pc
  BY DEF SamePcs
<1>2. threads[t] \in ThreadState
  BY DEF SettingsTyped
<1>3. CASE threads[t].pc = "idle"
  BY <1>3 DEF Overtake, Idle
<1>4. CASE threads[t].pc # "idle"
  BY <1>2, <1>4 DEF Overtake, ThreadState
<1>5. QED
  BY <1>3, <1>4

LEMMA SamePcsFlagged ==
    ASSUME Flagged, SamePcs, studio' = studio, running' = running
    PROVE  Flagged'
  BY DEF Flagged, SamePcs, Workers

\* One thread moves on between two places that are not `idle`.
LEMMA MovesFlagged ==
    ASSUME SettingsTyped, Flagged, NEW t \in Workers, threads[t].pc # "idle", threads'[t].pc # "idle",
           \A u \in Workers \ {t} : threads'[u].pc = threads[u].pc,
           studio' = studio, running' = running
    PROVE  Flagged'
  BY DEF Flagged, Workers

\* One thread comes to its end.
LEMMA EndsFlagged ==
    ASSUME SettingsTyped, Flagged, NEW t \in Workers, threads[t].pc # "idle", threads'[t].pc = "idle",
           \A u \in Workers \ {t} : threads'[u].pc = threads[u].pc,
           studio' = studio, running' = LeavesFlag(t)
    PROVE  Flagged'
<1>1. CASE t = Window
  BY <1>1, WindowAssumption DEF Flagged, Workers, LeavesFlag
<1>2. CASE t # Window
  <2>1. t \in SyncThreads
    BY <1>2 DEF Workers
  <2>2. \A u \in SyncThreads : threads'[u].pc = "idle"
    BY <2>1 DEF Flagged, Workers
  <2>3. QED
    BY <1>2, <2>1, <2>2 DEF Flagged, Workers, LeavesFlag
<1>3. QED
  BY <1>1, <1>2

LEMMA FlaggedInit == SettingsInit => Flagged
<1>1. SUFFICES ASSUME SettingsInit PROVE Flagged
  OBVIOUS
<1>2. \A t \in Workers : threads[t].pc = "idle"
  BY <1>1 DEF SettingsInit, Idle
<1>3. QED
  BY <1>1, <1>2 DEF SettingsInit, Flagged, Workers

LEMMA AtMoves ==
    ASSUME SettingsTyped, NEW t \in Workers, NEW pc \in PcNames, threads' = At(t, pc)
    PROVE  threads'[t].pc = pc /\ \A u \in Workers \ {t} : threads'[u] = threads[u]
  BY ThreadsTyped DEF At, ThreadState, SettingsTyped

LEMMA AnsweredMoves ==
    ASSUME SettingsTyped, NEW t \in Workers, NEW pc \in PcNames, NEW v \in Versions,
           threads' = [At(t, pc) EXCEPT ![t].copy.latest = v]
    PROVE  /\ threads'[t].pc = pc
           /\ threads'[t].missed = threads[t].missed
           /\ threads'[t].copy = [threads[t].copy EXCEPT !.latest = v]
           /\ \A u \in Workers \ {t} : threads'[u] = threads[u]
<1>1. At(t, pc) \in [Workers -> ThreadState]
  BY AtTyped
<1>2. /\ At(t, pc)[t].pc = pc
      /\ At(t, pc)[t].missed = threads[t].missed
      /\ At(t, pc)[t].copy = threads[t].copy
      /\ \A u \in Workers \ {t} : At(t, pc)[u] = threads[u]
  BY ThreadsTyped DEF At, ThreadState, SettingsTyped
<1>3. threads'[t] = [At(t, pc)[t] EXCEPT !.copy.latest = v]
  BY <1>1
<1>4. /\ threads'[t].pc = pc
      /\ threads'[t].missed = threads[t].missed
      /\ threads'[t].copy = [threads[t].copy EXCEPT !.latest = v]
  BY <1>1, <1>2, <1>3 DEF ThreadState
<1>5. \A u \in Workers \ {t} : threads'[u] = threads[u]
  BY <1>1, <1>2
<1>6. QED
  BY <1>4, <1>5

\* What Answer and AnswerDownload do to the thread that asked.
LEMMA AnswerMoves ==
    ASSUME SettingsTyped, NEW t \in Workers,
           Answer(t) \/ (t = Window /\ AnswerDownload)
    PROVE  /\ threads[t].pc = "asking"
           /\ threads'[t].pc \in {"loading", "writing"}
           /\ threads'[t].missed = threads[t].missed
           /\ \/ threads'[t].copy = threads[t].copy
              \/ \E v \in Versions : threads'[t].copy = [threads[t].copy EXCEPT !.latest = v]
           /\ \A u \in Workers \ {t} : threads'[u] = threads[u]
           /\ UNCHANGED <<studio, settings, file, running, saved, spoilt, budget>>
<1>. DEFINE Answered(v, next) == threads' = [At(t, next) EXCEPT ![t].copy.latest = v]
<1>1. /\ threads[t].pc = "asking"
      /\ UNCHANGED <<studio, settings, file, running, saved, spoilt, budget>>
      /\ threads' = At(t, "writing") \/ \E v \in Versions, next \in {"loading", "writing"} : Answered(v, next)
  <2>1. CASE Answer(t)
    BY <2>1 DEF Answer
  <2>2. CASE t = Window /\ AnswerDownload
    BY <2>2 DEF AnswerDownload
  <2>3. QED
    BY <2>1, <2>2
<1>2. CASE threads' = At(t, "writing")
  <2>1. threads'[t].missed = threads[t].missed /\ threads'[t].copy = threads[t].copy
    BY <1>2, ThreadsTyped DEF At, ThreadState, SettingsTyped
  <2>2. QED
    BY <1>1, <1>2, <2>1, AtMoves DEF PcNames
<1>3. ASSUME NEW v \in Versions, NEW next \in {"loading", "writing"}, Answered(v, next)
      PROVE  /\ threads'[t].pc \in {"loading", "writing"}
             /\ threads'[t].missed = threads[t].missed
             /\ threads'[t].copy = [threads[t].copy EXCEPT !.latest = v]
             /\ \A u \in Workers \ {t} : threads'[u] = threads[u]
  <2>1. next \in PcNames
    BY DEF PcNames
  <2>2. threads' = [At(t, next) EXCEPT ![t].copy.latest = v]
    BY <1>3
  <2>3. /\ threads'[t].pc = next
        /\ threads'[t].missed = threads[t].missed
        /\ threads'[t].copy = [threads[t].copy EXCEPT !.latest = v]
        /\ \A u \in Workers \ {t} : threads'[u] = threads[u]
    BY <2>1, <2>2, AnsweredMoves
  <2>4. QED
    BY <2>3
<1>4. QED
  BY <1>1, <1>2, <1>3

LEMMA FlaggedNext == SettingsTyped /\ Flagged /\ [SettingsNext]_settingsVars => Flagged'
<1>. SUFFICES ASSUME SettingsTyped, Flagged, [SettingsNext]_settingsVars PROVE Flagged'
  OBVIOUS
<1>1. ASSUME NEW changed, Save(changed) PROVE Flagged'
  BY <1>1, OvertakeKeepsPcs, SamePcsFlagged DEF Save
<1>2. CASE Boot
  <2>1. \A t \in Workers : threads[t].pc = "idle" /\ threads'[t].pc = "idle"
    BY <1>2 DEF Boot, Flagged, Idle
  <2>2. QED
    BY <1>2, <2>1 DEF Boot, Flagged, Workers
<1>3. CASE End
  <2>1. \A t \in Workers : threads'[t].pc = "idle"
    BY <1>3 DEF End, Idle
  <2>2. QED
    BY <1>3, <2>1 DEF End, Flagged, Workers
<1>4. ASSUME NEW input \in Inputs, UpdateSettings(input) PROVE Flagged'
  <2>1. CASE AssignedOf(input) = Sent
    BY <1>1, <1>4, <2>1 DEF UpdateSettings
  <2>2. CASE AssignedOf(input) # Sent
    <3>1. Overtake(AssignedOf(input)) /\ UNCHANGED <<studio, file, running>>
      BY <1>4, <2>2 DEF UpdateSettings
    <3>2. QED
      BY <3>1, OvertakeKeepsPcs, SamePcsFlagged
  <2>3. QED
    BY <2>1, <2>2
<1>5. ASSUME NEW value \in BOOLEAN, SetSilenced(value) PROVE Flagged'
  BY <1>1, <1>5 DEF SetSilenced
<1>6. ASSUME NEW noted \in SUBSET Eclipses, RememberEclipse(noted) PROVE Flagged'
  BY <1>1, <1>6 DEF RememberEclipse
<1>7. CASE StartDownload
  <2>1. \A t \in SyncThreads : threads'[t].pc = threads[t].pc
    BY <1>7, WindowAssumption DEF StartDownload, SettingsTyped, Workers
  <2>2. QED
    BY <1>7, <2>1 DEF StartDownload, Command, Flagged, Workers
<1>8. ASSUME NEW t \in Workers, Answer(t) \/ (t = Window /\ AnswerDownload) PROVE Flagged'
  BY <1>8, AnswerMoves, MovesFlagged
<1>9. CASE AnswerDownload
  BY <1>8, <1>9 DEF Workers
<1>10. ASSUME NEW t \in SyncThreads, StartSync(t) PROVE Flagged'
  <2>1. /\ threads'[t].pc = "asking"
        /\ \A u \in Workers \ {t} : threads'[u] = threads[u]
    BY <1>10 DEF StartSync, SettingsTyped, Workers
  <2>2. \A u \in SyncThreads : threads[u].pc = "idle"
    BY <1>10 DEF StartSync, Flagged
  <2>3. QED
    BY <1>10, <2>1, <2>2 DEF StartSync, Flagged, Workers
<1>11. ASSUME NEW t \in SyncThreads, Answer(t) PROVE Flagged'
  BY <1>8, <1>11 DEF Workers
<1>12. ASSUME NEW t \in Workers, Loaded(t) PROVE Flagged'
  <2>1. /\ threads[t].pc # "idle" /\ threads'[t].pc = "writing"
        /\ \A u \in Workers \ {t} : threads'[u] = threads[u]
        /\ UNCHANGED <<studio, running>>
    BY <1>12, AtMoves DEF Loaded, PcNames
  <2>2. QED
    BY <2>1, MovesFlagged
<1>13. ASSUME NEW t \in Workers, GiveUp(t) PROVE Flagged'
  <2>1. /\ threads[t].pc # "idle" /\ threads'[t].pc = "idle"
        /\ \A u \in Workers \ {t} : threads'[u] = threads[u]
    BY <1>13 DEF GiveUp, SettingsTyped, Idle
  <2>2. QED
    BY <1>13, <2>1, EndsFlagged DEF GiveUp
<1>14. ASSUME NEW t \in Workers, WriteBack(t) PROVE Flagged'
  <2>1. threads[t].pc # "idle" /\ threads'[t].pc = "idle"
    BY <1>14 DEF WriteBack, Idle
  <2>2. ASSUME NEW u \in Workers \ {t} PROVE threads'[u].pc = threads[u].pc
    <3>1. CASE threads[u].pc = "idle"
      BY <1>14, <3>1 DEF WriteBack, Idle
    <3>2. CASE threads[u].pc # "idle"
      BY <1>14, <3>2, ThreadsTyped DEF WriteBack, ThreadState
    <3>3. QED
      BY <3>1, <3>2
  <2>3. QED
    BY <1>14, <2>1, <2>2, EndsFlagged DEF WriteBack
<1>15. CASE UNCHANGED settingsVars
  BY <1>15 DEF settingsVars, Flagged
<1>16. QED
  BY <1>2, <1>3, <1>4, <1>5, <1>6, <1>7, <1>9, <1>10, <1>11, <1>12, <1>13, <1>14, <1>15 DEF SettingsNext

LEMMA FlaggedOneSync == Flagged => OneSync
<1>1. SUFFICES ASSUME Flagged PROVE OneSync
  OBVIOUS
<1>. DEFINE Busy == {t \in SyncThreads : threads[t].pc # "idle"}
<1>2. Cardinality(Busy) <= 1
  <2>1. CASE Busy = {}
    BY <2>1, FS_EmptySet
  <2>2. CASE Busy # {}
    <3>1. PICK t \in Busy : TRUE
      BY <2>2
    <3>2. Busy = {t}
      BY <1>1, <3>1 DEF Flagged
    <3>3. Cardinality({t}) = 1
      BY FS_Singleton, Zenon
    <3>4. QED
      BY <3>2, <3>3
  <2>3. QED
    BY <2>1, <2>2
<1>3. QED
  BY <1>1, <1>2 DEF Flagged, OneSync

\* One release check at a time, and a check that failed leaves the way free
\* for the next one: for every number of threads that may run one.
THEOREM OneCheckAtATime == SettingsSpec => []OneSync
<1>1. SettingsInit => SettingsTyped /\ Flagged
  BY TypedInit, FlaggedInit
<1>2. SettingsTyped /\ Flagged /\ [SettingsNext]_settingsVars => (SettingsTyped /\ Flagged)'
  BY TypedNext, FlaggedNext
<1>3. QED
  BY <1>1, <1>2, FlaggedOneSync, PTL DEF SettingsSpec

-----------------------------------------------------------------------------
(* Saved stays saved. *)

\* What makes SavedStaysSaved inductive: after the first save the file is of
\* the current version, so the next start does not migrate it, and a thread's
\* copy is stale in the fields it missed and in no other.
Written == \E f \in Fields : saved[f] # Unset

Kept ==
    /\ SavedStaysSaved
    /\ Written => file = Torn \/ file.version = CurrentVersion
    /\ studio = "up" => settings.version = CurrentVersion
    /\ \A t \in Workers : threads[t].pc # "idle" =>
         /\ threads[t].copy.version = CurrentVersion
         /\ \A f \in (Fields \ threads[t].missed) \ {"latest"} : threads[t].copy[f] = settings[f]

LEMMA KeptInit == SettingsInit => Kept
<1>1. SUFFICES ASSUME SettingsInit PROVE Kept
  OBVIOUS
<1>2. \A f \in Fields : saved[f] = Unset
  BY <1>1 DEF SettingsInit
<1>3. \A t \in Workers : threads[t].pc = "idle"
  BY <1>1 DEF SettingsInit, Idle
<1>4. QED
  BY <1>1, <1>2, <1>3 DEF SettingsInit, Kept, SavedStaysSaved, Written

\* The copies after an operation that changed `changed` and nothing else.
LEMMA OvertakeKeeps ==
    ASSUME SettingsTyped, Kept, NEW changed \in SUBSET Fields, Overtake(changed),
           \A f \in Fields \ changed : settings'[f] = settings[f]
    PROVE  \A t \in Workers : threads'[t].pc # "idle" =>
             /\ threads'[t].copy.version = CurrentVersion
             /\ \A f \in (Fields \ threads'[t].missed) \ {"latest"} : threads'[t].copy[f] = settings'[f]
<1>1. SUFFICES ASSUME NEW t \in Workers, threads'[t].pc # "idle"
               PROVE  /\ threads'[t].copy.version = CurrentVersion
                      /\ \A f \in (Fields \ threads'[t].missed) \ {"latest"} : threads'[t].copy[f] = settings'[f]
  OBVIOUS
<1>2. threads[t].pc # "idle"
  BY <1>1 DEF Overtake, Idle
<1>3. /\ threads'[t].copy = threads[t].copy
      /\ threads'[t].missed = threads[t].missed \cup changed
  BY <1>2, ThreadsTyped DEF Overtake, ThreadState
<1>4. QED
  BY <1>2, <1>3 DEF Kept

\* A save, and a refused update, which is a save that failed and left the file.
LEMMA ReportKeeps ==
    ASSUME SettingsTyped, Kept, NEW changed \in SUBSET Fields, NEW written \in BOOLEAN,
           studio = "up", studio' = studio,
           settings' \in Values, settings'.version = settings.version,
           \A f \in Fields \ changed : settings'[f] = settings[f],
           IF written THEN file' = settings' ELSE file' \in {file, Torn},
           Overtake(changed), Report(changed, written)
    PROVE  Kept'
<1>1. settings'.version = CurrentVersion
  BY DEF Kept
<1>2. CASE written
  <2>1. /\ \A f \in changed : saved'[f] = settings'[f]
        /\ \A f \in Fields \ changed : saved'[f] = saved[f]
        /\ spoilt' = spoilt \ changed /\ file' = settings'
    BY <1>2 DEF Report
  <2>2. SavedStaysSaved'
    BY <2>1 DEF Kept, SavedStaysSaved
  <2>3. QED
    BY <1>1, <2>1, <2>2, OvertakeKeeps DEF Kept
<1>3. CASE ~written
  <2>1. /\ saved' = saved /\ spoilt' = spoilt \cup changed /\ file' \in {file, Torn}
    BY <1>3 DEF Report
  <2>2. SavedStaysSaved'
    BY <2>1 DEF Kept, SavedStaysSaved
  <2>3. (Written => file = Torn \/ file.version = CurrentVersion)'
    BY <2>1 DEF Kept, Written
  <2>4. QED
    BY <1>1, <2>2, <2>3, OvertakeKeeps DEF Kept
<1>4. QED
  BY <1>2, <1>3

LEMMA SaveKeeps ==
    ASSUME SettingsTyped, Kept, NEW changed \in SUBSET Fields, studio = "up",
           settings' \in Values, settings'.version = settings.version,
           \A f \in Fields \ changed : settings'[f] = settings[f],
           Save(changed)
    PROVE  Kept'
<1>1. PICK written \in BOOLEAN : WriteSave(settings', written) /\ Report(changed, written)
  BY DEF Save
<1>2. IF written THEN file' = settings' ELSE file' \in {file, Torn}
  BY <1>1 DEF WriteSave
<1>3. QED
  BY <1>1, <1>2, ReportKeeps DEF Save

\* A step that leaves the settings, the file and the reports, and changes the
\* copies only where the invariant allows.
LEMMA CopiesKeep ==
    ASSUME Kept, UNCHANGED <<studio, settings, file, saved, spoilt>>,
           \A t \in Workers : threads'[t].pc # "idle" =>
             /\ threads'[t].copy.version = CurrentVersion
             /\ \A f \in (Fields \ threads'[t].missed) \ {"latest"} : threads'[t].copy[f] = settings[f]
    PROVE  Kept'
  BY DEF Kept, SavedStaysSaved, Written

\* A thread that starts copies the settings as they are.
LEMMA CopyKeeps ==
    ASSUME SettingsTyped, Kept, NEW t \in Workers, studio = "up",
           threads' = [threads EXCEPT ![t] = [pc |-> "asking", copy |-> settings, missed |-> {}]],
           UNCHANGED <<studio, settings, file, saved, spoilt>>
    PROVE  Kept'
<1>1. threads'[t] = [pc |-> "asking", copy |-> settings, missed |-> {}]
  BY DEF SettingsTyped
<1>2. \A u \in Workers \ {t} : threads'[u] = threads[u]
  BY DEF SettingsTyped
<1>3. \A u \in Workers : threads'[u].pc # "idle" =>
        /\ threads'[u].copy.version = CurrentVersion
        /\ \A f \in (Fields \ threads'[u].missed) \ {"latest"} : threads'[u].copy[f] = settings[f]
  BY <1>1, <1>2 DEF Kept
<1>4. QED
  BY <1>3, CopiesKeep

LEMMA AnswerKeeps ==
    ASSUME SettingsTyped, Kept, NEW t \in Workers,
           Answer(t) \/ (t = Window /\ AnswerDownload)
    PROVE  Kept'
<1>1. /\ threads[t].pc # "idle"
      /\ threads'[t].missed = threads[t].missed
      /\ \/ threads'[t].copy = threads[t].copy
         \/ \E v \in Versions : threads'[t].copy = [threads[t].copy EXCEPT !.latest = v]
      /\ \A u \in Workers \ {t} : threads'[u] = threads[u]
      /\ UNCHANGED <<studio, settings, file, saved, spoilt>>
  BY AnswerMoves
<1>2. /\ threads'[t].copy.version = threads[t].copy.version
      /\ \A f \in Fields \ {"latest"} : threads'[t].copy[f] = threads[t].copy[f]
  <2>1. CASE threads'[t].copy = threads[t].copy
    BY <2>1
  <2>2. ASSUME NEW v \in Versions, threads'[t].copy = [threads[t].copy EXCEPT !.latest = v]
        PROVE  /\ threads'[t].copy.version = threads[t].copy.version
               /\ \A f \in Fields \ {"latest"} : threads'[t].copy[f] = threads[t].copy[f]
    <3>1. threads[t].copy \in Values
      BY ThreadsTyped
    <3>2. DOMAIN threads[t].copy = Fields \cup {"version"}
      BY <3>1 DEF Values, Fields
    <3>3. QED
      BY <2>2, <3>2 DEF Fields
  <2>3. QED
    BY <1>1, <2>1, <2>2
<1>3. \A u \in Workers : threads'[u].pc # "idle" =>
        /\ threads'[u].copy.version = CurrentVersion
        /\ \A f \in (Fields \ threads'[u].missed) \ {"latest"} : threads'[u].copy[f] = settings[f]
  <2>1. ASSUME NEW u \in Workers, u # t, threads'[u].pc # "idle"
        PROVE  /\ threads'[u].copy.version = CurrentVersion
               /\ \A f \in (Fields \ threads'[u].missed) \ {"latest"} : threads'[u].copy[f] = settings[f]
    BY <1>1, <2>1 DEF Kept
  <2>2. /\ threads'[t].copy.version = CurrentVersion
        /\ \A f \in (Fields \ threads'[t].missed) \ {"latest"} : threads'[t].copy[f] = settings[f]
    BY <1>1, <1>2 DEF Kept
  <2>3. QED
    BY <2>1, <2>2
<1>4. QED
  BY <1>1, <1>3, CopiesKeep

\* A start migrates only a file in which nothing was saved.
LEMMA BootKeeps ==
    ASSUME SettingsTyped, Kept, Boot
    PROVE  Kept'
<1>1. /\ file \in Values
      /\ settings' = Migrated(file)
      /\ settings'.version = CurrentVersion
      /\ file.version = CurrentVersion => settings' = file
  <2>1. file \in Values
    BY DEF Boot, SettingsTyped
  <2>2. settings' = Migrated(file) /\ file # Torn
    BY DEF Boot
  <2>3. QED
    BY <2>1, <2>2, MigratedTyped
<1>2. Written => settings' = file
  BY <1>1 DEF Boot, Kept
<1>3. file' \in {file, settings', Torn}
  BY DEF Boot
<1>4. saved' = saved /\ spoilt' = spoilt
  BY DEF Boot
<1>5. SavedStaysSaved'
  <2>1. SUFFICES ASSUME NEW f \in Fields \ spoilt, saved[f] # Unset
                 PROVE  settings'[f] = saved[f] /\ (file' # Torn => file'[f] = saved[f])
    BY <1>4 DEF SavedStaysSaved
  <2>2. file # Torn /\ file[f] = saved[f]
    BY <2>1 DEF Boot, Kept, SavedStaysSaved
  <2>3. settings' = file
    BY <1>2, <2>1 DEF Written
  <2>4. QED
    BY <1>3, <2>2, <2>3
<1>6. (Written => file = Torn \/ file.version = CurrentVersion)'
  BY <1>1, <1>2, <1>3, <1>4 DEF Written
<1>7. \A t \in Workers : threads'[t].pc = "idle"
  BY DEF Boot, Idle
<1>8. QED
  BY <1>1, <1>5, <1>6, <1>7 DEF Kept

\* The whole copy replaces the whole record: the fields it missed are spoilt,
\* the others are what they were.
LEMMA WriteBackKeeps ==
    ASSUME SettingsTyped, Flagged, Kept, NEW t \in Workers, WriteBack(t)
    PROVE  Kept'
<1>1. /\ threads[t].pc # "idle" /\ studio = "up" /\ studio' = studio
      /\ settings' = threads[t].copy
      /\ settings'.version = CurrentVersion
      /\ \A f \in (Fields \ threads[t].missed) \ {"latest"} : settings'[f] = settings[f]
  BY DEF WriteBack, Flagged, Kept
<1>2. PICK written \in BOOLEAN :
        /\ Write(settings', written)
        /\ spoilt' = IF written THEN (spoilt \cup threads[t].missed) \ {"latest"}
                     ELSE spoilt \cup threads[t].missed \cup {"latest"}
        /\ saved' = IF written THEN [saved EXCEPT !.latest = settings'.latest] ELSE saved
  BY DEF WriteBack
<1>3. \A f \in Fields \ {"latest"} : saved'[f] = saved[f]
  BY <1>2 DEF SettingsTyped
<1>4. written => file' = settings' /\ saved'["latest"] = settings'["latest"]
  BY <1>2 DEF Write, SettingsTyped, Fields
<1>5. ~written => file' \in {file, Torn} /\ saved' = saved
  BY <1>2 DEF Write
<1>6. SavedStaysSaved'
  <2>1. SUFFICES ASSUME NEW f \in Fields \ spoilt', saved'[f] # Unset
                 PROVE  settings'[f] = saved'[f] /\ (file' # Torn => file'[f] = saved'[f])
    BY <1>1 DEF SavedStaysSaved
  <2>2. CASE f = "latest"
    BY <1>2, <1>4, <2>1, <2>2
  <2>3. CASE f # "latest"
    <3>1. f \in Fields \ spoilt /\ f \notin threads[t].missed
      BY <1>2, <2>1, <2>3
    <3>2. settings[f] = saved[f] /\ (file # Torn => file[f] = saved[f])
      BY <1>1, <1>3, <2>1, <2>3, <3>1 DEF Kept, SavedStaysSaved
    <3>3. settings'[f] = saved'[f]
      BY <1>1, <1>3, <2>3, <3>1, <3>2
    <3>4. QED
      BY <1>3, <1>4, <1>5, <2>3, <3>2, <3>3
  <2>4. QED
    BY <2>2, <2>3
<1>7. (Written => file = Torn \/ file.version = CurrentVersion)'
  BY <1>1, <1>4, <1>5 DEF Kept, Written
<1>8. ASSUME NEW u \in Workers, threads'[u].pc # "idle"
      PROVE  /\ threads'[u].copy.version = CurrentVersion
             /\ \A f \in (Fields \ threads'[u].missed) \ {"latest"} : threads'[u].copy[f] = settings'[f]
  <2>1. u # t /\ threads[u].pc # "idle"
    BY <1>8 DEF WriteBack, Idle
  <2>2. /\ threads'[u].copy = threads[u].copy
        /\ threads'[u].missed = threads[u].missed \cup threads[t].missed \cup {"latest"}
    BY <2>1, ThreadsTyped DEF WriteBack, ThreadState
  <2>3. QED
    BY <1>1, <2>1, <2>2 DEF Kept
<1>9. QED
  BY <1>1, <1>6, <1>7, <1>8 DEF Kept

LEMMA KeptNext == SettingsTyped /\ Flagged /\ Kept /\ [SettingsNext]_settingsVars => Kept'
<1>. SUFFICES ASSUME SettingsTyped, Flagged, Kept, [SettingsNext]_settingsVars PROVE Kept'
  OBVIOUS
<1>1. CASE Boot
  BY <1>1, BootKeeps
<1>2. CASE End
  <2>1. \A t \in Workers : threads'[t].pc = "idle"
    BY <1>2 DEF End, Idle
  <2>2. QED
    BY <1>2, <2>1 DEF End, Kept, SavedStaysSaved, Written
<1>3. ASSUME NEW input \in Inputs, UpdateSettings(input) PROVE Kept'
  <2>1. /\ settings' \in Values /\ AssignedOf(input) \in SUBSET Fields /\ Sent \in SUBSET Fields
        /\ "version" \notin AssignedOf(input)
    BY <1>3, AssignedTyped DEF UpdateSettings, SettingsTyped, Sent, Fields
  <2>2. DOMAIN settings = Fields \cup {"version"}
    BY DEF SettingsTyped, Values, Fields
  <2>3. /\ studio = "up"
        /\ settings'.version = settings.version
        /\ \A f \in Fields \ AssignedOf(input) : settings'[f] = settings[f]
    BY <1>3, <2>1, <2>2 DEF UpdateSettings, Command, Fields
  <2>4. CASE AssignedOf(input) = Sent
    BY <1>3, <2>1, <2>3, <2>4, SaveKeeps DEF UpdateSettings
  <2>5. CASE AssignedOf(input) # Sent
    <3>1. /\ Overtake(AssignedOf(input)) /\ Report(AssignedOf(input), FALSE)
          /\ UNCHANGED <<studio, file, running>>
      BY <1>3, <2>5 DEF UpdateSettings
    <3>2. QED
      BY <2>1, <2>3, <3>1, ReportKeeps
  <2>6. QED
    BY <2>4, <2>5
<1>4. ASSUME NEW value \in BOOLEAN, SetSilenced(value) PROVE Kept'
  <2>1. DOMAIN settings = Fields \cup {"version"}
    BY DEF SettingsTyped, Values, Fields
  <2>2. /\ studio = "up" /\ {"silenced"} \in SUBSET Fields /\ settings' \in Values
        /\ settings'.version = settings.version
        /\ \A f \in Fields \ {"silenced"} : settings'[f] = settings[f]
    BY <1>4, <2>1, SilencedTyped DEF SetSilenced, Command, SettingsTyped, Fields
  <2>3. QED
    BY <1>4, <2>2, SaveKeeps DEF SetSilenced
<1>5. ASSUME NEW noted \in SUBSET Eclipses, RememberEclipse(noted) PROVE Kept'
  <2>1. DOMAIN settings = Fields \cup {"version"}
    BY DEF SettingsTyped, Values, Fields
  <2>2. /\ studio = "up" /\ {"seen"} \in SUBSET Fields /\ settings' \in Values
        /\ settings'.version = settings.version
        /\ \A f \in Fields \ {"seen"} : settings'[f] = settings[f]
    BY <1>5, <2>1, SeenTyped DEF RememberEclipse, SettingsTyped, Fields
  <2>3. QED
    BY <1>5, <2>2, SaveKeeps DEF RememberEclipse
<1>6. CASE StartDownload
  BY <1>6, CopyKeeps DEF StartDownload, Command, Workers
<1>7. CASE AnswerDownload
  BY <1>7, AnswerKeeps DEF Workers
<1>8. ASSUME NEW t \in SyncThreads, StartSync(t) PROVE Kept'
  BY <1>8, CopyKeeps DEF StartSync, Workers
<1>9. ASSUME NEW t \in SyncThreads, Answer(t) PROVE Kept'
  BY <1>9, AnswerKeeps DEF Workers
<1>10. ASSUME NEW t \in Workers, Loaded(t) PROVE Kept'
  <2>1. \A u \in Workers : threads'[u].pc # "idle" =>
          threads[u].pc # "idle" /\ threads'[u].copy = threads[u].copy /\ threads'[u].missed = threads[u].missed
    BY <1>10, ThreadsTyped DEF Loaded, At, ThreadState, SettingsTyped
  <2>2. \A u \in Workers : threads'[u].pc # "idle" =>
          /\ threads'[u].copy.version = CurrentVersion
          /\ \A f \in (Fields \ threads'[u].missed) \ {"latest"} : threads'[u].copy[f] = settings[f]
    BY <2>1 DEF Kept
  <2>3. QED
    BY <1>10, <2>2, CopiesKeep DEF Loaded
<1>11. ASSUME NEW t \in Workers, GiveUp(t) PROVE Kept'
  <2>1. \A u \in Workers : threads'[u].pc # "idle" => threads'[u] = threads[u]
    BY <1>11 DEF GiveUp, SettingsTyped, Idle
  <2>2. \A u \in Workers : threads'[u].pc # "idle" =>
          /\ threads'[u].copy.version = CurrentVersion
          /\ \A f \in (Fields \ threads'[u].missed) \ {"latest"} : threads'[u].copy[f] = settings[f]
    BY <2>1 DEF Kept
  <2>3. QED
    BY <1>11, <2>2, CopiesKeep DEF GiveUp
<1>12. ASSUME NEW t \in Workers, WriteBack(t) PROVE Kept'
  BY <1>12, WriteBackKeeps
<1>13. CASE UNCHANGED settingsVars
  BY <1>13 DEF settingsVars, Kept, SavedStaysSaved, Written
<1>14. QED
  BY <1>1, <1>2, <1>3, <1>4, <1>5, <1>6, <1>7, <1>8, <1>9, <1>10, <1>11, <1>12, <1>13 DEF SettingsNext

\* What an operation reported saved is what the settings say and what the next
\* start will read, as long as no refused update and no copy taken before the
\* save has touched that field: for every number of threads, saves, faults and
\* starts.
THEOREM SavedIsKept == SettingsSpec => []SavedStaysSaved
<1>1. SettingsInit => SettingsTyped /\ Flagged /\ Kept
  BY TypedInit, FlaggedInit, KeptInit
<1>2. SettingsTyped /\ Flagged /\ Kept /\ [SettingsNext]_settingsVars => (SettingsTyped /\ Flagged /\ Kept)'
  BY TypedNext, FlaggedNext, KeptNext
<1>3. Kept => SavedStaysSaved
  BY DEF Kept
<1>4. QED
  BY <1>1, <1>2, <1>3, PTL DEF SettingsSpec

-----------------------------------------------------------------------------
(* The ports of workspaces. *)

\* The table of entries: a port for each workspace, or none.
EntriesTyped == entries \in [Names -> Ports \cup {NoPort}]

\* What the entries become: allocated, moved with a name, or released.
LEMMA AllocatedDistinct ==
    ASSUME EntriesTyped, PortsDistinct, NEW wanted, entries' \in Allocations(wanted)
    PROVE  EntriesTyped' /\ PortsDistinct'
<1> DEFINE need == {w \in wanted : entries[w] = NoPort}
<1>1. /\ entries' \in [Names -> Ports \cup {NoPort}]
      /\ \A w \in Names \ need : entries'[w] = entries[w]
      /\ \A w \in need : entries'[w] \in FreePorts \cup {NoPort}
      /\ \A v, w \in need : entries'[v] = entries'[w] /\ entries'[v] # NoPort => v = w
  BY DEF Allocations
<1>2. \A q \in FreePorts, w \in Names : entries[w] # q
  BY DEF FreePorts
<1>3. ASSUME NEW v \in Names, NEW w \in Names, v # w, entries'[v] # NoPort
      PROVE  entries'[v] # entries'[w]
  <2> HIDE DEF need
  <2>1. CASE v \in need /\ w \in need
    BY <1>1, <1>3, <2>1
  <2>2. CASE v \in need /\ w \notin need
    BY <1>1, <1>2, <1>3, <2>2
  <2>3. CASE v \notin need /\ w \in need
    BY <1>1, <1>2, <1>3, <2>3
  <2>4. CASE v \notin need /\ w \notin need
    BY <1>1, <1>3, <2>4 DEF PortsDistinct
  <2>. QED BY <2>1, <2>2, <2>3, <2>4
<1>. QED BY <1>1, <1>3 DEF EntriesTyped, PortsDistinct

LEMMA RenamedDistinct ==
    ASSUME EntriesTyped, PortsDistinct, NEW old, NEW new, entries' = RenamedEntries(old, new)
    PROVE  EntriesTyped' /\ PortsDistinct'
<1>1. \A w \in Names : entries'[w] =
         IF w = old THEN NoPort
         ELSE IF w = new /\ (old \in Names /\ entries[old] # NoPort)
                         /\ ~(new \in Names /\ entries[new] # NoPort) THEN entries[old]
         ELSE entries[w]
  BY DEF RenamedEntries
<1>2. EntriesTyped'
  BY DEF EntriesTyped, RenamedEntries
<1>3. PortsDistinct'
  BY <1>1 DEF PortsDistinct
<1>. QED BY <1>2, <1>3

LEMMA ReleasedDistinct ==
    ASSUME EntriesTyped, PortsDistinct, NEW w, entries' = [entries EXCEPT ![w] = NoPort]
    PROVE  EntriesTyped' /\ PortsDistinct'
  BY DEF EntriesTyped, PortsDistinct

\* A step of a thread allocates, renames, releases, or leaves the entries alone.
LEMMA EntriesBecome ==
    ASSUME WorkspacesNext
    PROVE  \/ UNCHANGED entries
           \/ \E wanted : entries' \in Allocations(wanted)
           \/ \E old, new : entries' = RenamedEntries(old, new)
           \/ \E w : entries' = [entries EXCEPT ![w] = NoPort]
<1> USE DEF stores, runtime, imports
<1> DEFINE Becomes == \/ UNCHANGED entries
                      \/ \E wanted : entries' \in Allocations(wanted)
                      \/ \E old, new : entries' = RenamedEntries(old, new)
                      \/ \E w : entries' = [entries EXCEPT ![w] = NoPort]
<1>0. PollAll => \E wanted : entries' \in Allocations(wanted)
  BY DEF PollAll, Poll
<1> HIDE DEF Becomes
<1>1. ASSUME NEW t \in Threads, StepOf(t) PROVE Becomes
  <2>1. CASE Register(t) \/ SetWorkspace(t) \/ Forget(t)
    BY <2>1 DEF Register, SetWorkspace, Forget, Becomes
  <2>2. CASE Rename(t)
    BY <2>2 DEF Rename, Becomes
  <2>3. CASE ReleaseEntry(t)
    BY <2>3 DEF ReleaseEntry, Becomes
  <2>4. CASE WriteJson(t) \/ WriteJsonWithout(t) \/ DropFolder(t)
    BY <2>4 DEF WriteJson, WriteJsonWithout, DropFolder, Becomes
  <2>5. CASE Resolve(t)
    BY <2>5 DEF Resolve, Becomes
  <2>6. CASE Unresolved(t) \/ StartResident(t) \/ StopResident(t) \/ StopWorkspace(t) \/ RemoveRuntime(t)
    BY <2>6 DEF Unresolved, StartResident, StopResident, StopWorkspace, RemoveRuntime, Becomes
  <2>7. CASE RefuseIfLive(t)
    BY <1>0, <2>7 DEF RefuseIfLive, Becomes
  <2>8. CASE LoadDashboard(t)
    BY <1>0, <2>8 DEF LoadDashboard, Becomes
  <2>9. CASE AwaitSettled(t)
    BY <1>0, <2>9 DEF AwaitSettled, Becomes
  <2>10. CASE RefreshDeployed(t) \/ Deploy(t)
    BY <2>10 DEF RefreshDeployed, Deploy, Becomes
  <2>11. CASE ListMembers(t)
    BY <2>11 DEF ListMembers, Becomes
  <2>12. CASE DropIfEmpty(t)
    BY <2>12 DEF DropIfEmpty, Becomes
  <2>13. CASE WriteAll(t)
    BY <2>13 DEF WriteAll, Becomes
  <2>14. CASE AwaitImport(t)
    <3>1. \E e \in Allocations({Next1(t).w}) : entries' = e
      BY <2>14 DEF AwaitImport, Ask
    <3>. QED BY <3>1 DEF Becomes
  <2>15. CASE Restore(t)
    BY <1>0, <2>15 DEF Restore, Becomes
  <2>16. CASE StartProject(t) \/ StopProject(t)
    BY <2>16 DEF StartProject, StopProject, Becomes
  <2>17. CASE Toggle(t)
    BY <1>0, <2>17 DEF Toggle, Becomes
  <2>. QED BY <1>1, <2>1, <2>2, <2>3, <2>4, <2>5, <2>6, <2>7, <2>8, <2>9, <2>10, <2>11, <2>12,
              <2>13, <2>14, <2>15, <2>16, <2>17 DEF StepOf
<1>2. ASSUME NEW call, NEW p, NEW w, Call(call, p, w) PROVE Becomes
  BY <1>2 DEF Call, Becomes
<1>3. ASSUME NEW call, NEW steps, FleetCall(call, steps) PROVE Becomes
  BY <1>3 DEF FleetCall, Becomes
<1>4. CASE StudioRestart
  BY <1>4 DEF StudioRestart, Becomes
<1>5. ASSUME NEW q \in Ports, Import(q) PROVE Becomes
  BY <1>5 DEF Import, Becomes
<1>. QED BY <1>1, <1>2, <1>3, <1>4, <1>5, Zenon DEF WorkspacesNext, Becomes

\* No two workspaces are told the same port (config.rs, resident.rs): for any
\* projects, names, ports and histories.
THEOREM NoPortTwice == WorkspacesSpec => []PortsDistinct
<1>1. WorkspacesInit => EntriesTyped /\ PortsDistinct
  BY DEF WorkspacesInit, EntriesTyped, PortsDistinct
<1>2. EntriesTyped /\ PortsDistinct /\ [WorkspacesNext]_wsVars => (EntriesTyped /\ PortsDistinct)'
  <2> SUFFICES ASSUME EntriesTyped, PortsDistinct, [WorkspacesNext]_wsVars
               PROVE  EntriesTyped' /\ PortsDistinct'
    OBVIOUS
  <2>1. CASE UNCHANGED entries
    BY <2>1 DEF EntriesTyped, PortsDistinct
  <2>2. UNCHANGED wsVars => UNCHANGED entries
    BY DEF wsVars, stores
  <2>3. CASE WorkspacesNext
    BY <2>1, <2>3, EntriesBecome, AllocatedDistinct, RenamedDistinct, ReleasedDistinct
  <2>. QED BY <2>1, <2>2, <2>3
<1>. QED BY <1>1, <1>2, PTL DEF WorkspacesSpec

-----------------------------------------------------------------------------
(* Sequences: what SetToSeq and FlattenSeq return.  FlattenSeq is recursive *)
(* over a function; that it exists and what its elements are is shown by   *)
(* the least number at which it would fail.                                *)

LEMMA SetToSeqFacts ==
    ASSUME NEW S, IsFiniteSet(S)
    PROVE  /\ SetToSeq(S) \in Seq(S)
           /\ \A i, j \in 1..Len(SetToSeq(S)) : SetToSeq(S)[i] = SetToSeq(S)[j] => i = j
           /\ \A x \in S : \E i \in 1..Len(SetToSeq(S)) : SetToSeq(S)[i] = x
<1> DEFINE n == Cardinality(S)
           f == SetToSeq(S)
<1>1. n \in Nat /\ ExistsBijection(1..n, S)
  BY FS_CardinalityType
<1>2. PICK g \in [1..n -> S] : \A a, b \in 1..n : g[a] = g[b] => a = b
  BY <1>1 DEF ExistsBijection, Bijection, Injection, IsInjective
<1>3. f \in [1..n -> S] /\ \A a, b \in 1..n : f[a] = f[b] => a = b
  <2>1. \E h \in [1..n -> S] : IsInjective(h)
    BY <1>2 DEF IsInjective
  <2>. QED BY <2>1 DEF SetToSeq, IsInjective
<1>4. IsFiniteSet(1..n) /\ Cardinality(1..n) = n
  BY <1>1, FS_Interval
<1>5. f \in Injection(1..n, S)
  BY <1>3 DEF Injection, IsInjective
<1>6. f \in Surjection(1..n, S)
  BY <1>4, <1>5, FS_Injection
<1>7. \A x \in S : \E i \in 1..n : f[i] = x
  BY <1>6 DEF Surjection
<1>8. f \in Seq(S) /\ Len(f) = n
  BY <1>1, <1>3
<1>. QED BY <1>3, <1>7, <1>8

\* The recursive function of FlattenSeq on the first m parts.
Flattens(f, ss, m) == f = [i \in 1..m |-> IF i = 1 THEN ss[i] ELSE f[i - 1] \o ss[i]]

LEMMA LeastNumber ==
    ASSUME NEW T, T \subseteq Nat, T # {}
    PROVE  \E x \in T : \A y \in T : x <= y
<1> DEFINE R == {ss \in Nat \X Nat : ss[1] < ss[2]}
<1>1. IsWellFoundedOn(R, Nat)
  BY NatLessThanWellFounded DEF OpToRel
<1>2. PICK x \in T : \A y \in T : ~(<<y, x>> \in R)
  <2> HIDE DEF R
  <2>. QED BY <1>1, WFMin
<1>3. ASSUME NEW y \in T PROVE x <= y
  <2>1. <<y, x>> \notin R /\ <<y, x>> \in Nat \X Nat
    BY <1>2
  <2>2. ~(y < x)
    BY <2>1
  <2>. QED BY <2>2
<1>. QED BY <1>3

LEMMA FlattenExists ==
    ASSUME NEW ss, NEW n \in Nat
    PROVE  \E f : Flattens(f, ss, n)
<1> DEFINE Bad == {m \in Nat : ~\E f : Flattens(f, ss, m)}
<1>1. SUFFICES ASSUME Bad # {} PROVE FALSE
  OBVIOUS
<1>3. PICK m \in Bad : \A k \in Bad : m <= k
  <2>1. Bad \subseteq Nat
    OBVIOUS
  <2> HIDE DEF Bad
  <2>. QED BY <1>1, <2>1, LeastNumber
<1>4. m # 0
  <2>1. Flattens(<<>>, ss, 0)
    BY DEF Flattens
  <2>. QED BY <2>1
<1>5. m - 1 \in Nat /\ m - 1 \notin Bad
  <2>1. m \in Nat /\ m - 1 \in Nat /\ ~(m <= m - 1)
    BY <1>4
  <2> HIDE DEF Bad
  <2>. QED BY <1>3, <2>1
<1>6. PICK f : Flattens(f, ss, m - 1)
  BY <1>5
<1> DEFINE g == [i \in 1..m |-> IF i = m THEN (IF m = 1 THEN ss[m] ELSE f[m - 1] \o ss[m]) ELSE f[i]]
<1>7. Flattens(g, ss, m)
  <2>1. f = [i \in 1..(m - 1) |-> IF i = 1 THEN ss[i] ELSE f[i - 1] \o ss[i]]
    BY <1>6 DEF Flattens
  <2>2. \A i \in 1..(m - 1) : f[i] = IF i = 1 THEN ss[i] ELSE f[i - 1] \o ss[i]
    BY <2>1
  <2>3. ASSUME NEW i \in 1..m PROVE g[i] = IF i = 1 THEN ss[i] ELSE g[i - 1] \o ss[i]
    <3>1. CASE i = m
      BY <1>5, <3>1
    <3>2. CASE i # m
      <4>1. i \in 1..(m - 1) /\ (i # 1 => i - 1 \in 1..(m - 1))
        BY <1>5, <3>2
      <4>. QED BY <1>5, <2>2, <3>2, <4>1
    <3>. QED BY <3>1, <3>2
  <2>4. g = [i \in 1..m |-> g[i]]
    BY SMTT(40)
  <2> HIDE DEF g
  <2>. QED BY <2>3, <2>4 DEF Flattens
<1>. QED BY <1>7

LEMMA FlattenIs ==
    ASSUME NEW ss, Len(ss) \in Nat \ {0}
    PROVE  \E f : Flattens(f, ss, Len(ss)) /\ FlattenSeq(ss) = f[Len(ss)]
<1> DEFINE f == CHOOSE f : f = [i \in 1..Len(ss) |-> IF i = 1 THEN ss[i] ELSE f[i - 1] \o ss[i]]
<1>1. FlattenSeq(ss) = f[Len(ss)]
  BY DEF FlattenSeq
<1>2. \E h : h = [i \in 1..Len(ss) |-> IF i = 1 THEN ss[i] ELSE h[i - 1] \o ss[i]]
  BY FlattenExists DEF Flattens
<1>3. f = [i \in 1..Len(ss) |-> IF i = 1 THEN ss[i] ELSE f[i - 1] \o ss[i]]
  BY <1>2
<1>. QED BY <1>1, <1>3 DEF Flattens

\* Two sequences, one after the other.
LEMMA Joined ==
    ASSUME NEW T, NEW a \in Seq(T), NEW b \in Seq(T)
    PROVE  /\ a \o b \in Seq(T) /\ Len(a \o b) = Len(a) + Len(b)
           /\ \A i \in 1..Len(a) : (a \o b)[i] = a[i]
           /\ \A i \in 1..Len(b) : (a \o b)[Len(a) + i] = b[i]
<1>1. a \o b \in Seq(T) /\ Len(a \o b) = Len(a) + Len(b)
  OBVIOUS
<1>2. \A i \in 1..Len(a) : (a \o b)[i] = a[i]
  OBVIOUS
<1>3. \A i \in 1..Len(b) : (a \o b)[Len(a) + i] = b[i]
  OBVIOUS
<1>. QED BY <1>1, <1>2, <1>3

\* What the parts are made of, their sequence is made of.
LEMMA FlattenTyped ==
    ASSUME NEW T, NEW ss, Len(ss) \in Nat, Len(ss) = 0 => ss = <<>>,
           \A i \in 1..Len(ss) : ss[i] \in Seq(T)
    PROVE  FlattenSeq(ss) \in Seq(T)
<1> DEFINE n == Len(ss)
<1>1. CASE n = 0
  BY <1>1 DEF FlattenSeq
<1>2. CASE n # 0
  <2>1. PICK f : Flattens(f, ss, n) /\ FlattenSeq(ss) = f[n]
    BY <1>2, FlattenIs
  <2>2. \A i \in 1..n : f[i] = IF i = 1 THEN ss[i] ELSE f[i - 1] \o ss[i]
    BY <2>1 DEF Flattens
  <2> DEFINE Bad == {i \in 1..n : f[i] \notin Seq(T)}
  <2>3. Bad = {}
    <3>1. SUFFICES ASSUME Bad # {} PROVE FALSE
      OBVIOUS
    <3>2. PICK i \in Bad : \A k \in Bad : i <= k
      <4>1. Bad \subseteq Nat
        OBVIOUS
      <4> HIDE DEF Bad
      <4>. QED BY <3>1, <4>1, LeastNumber
    <3>3. i # 1
      BY <2>2
    <3>4. i - 1 \in 1..n /\ ~(i <= i - 1)
      BY <3>3
    <3>5. f[i - 1] \in Seq(T)
      BY <3>2, <3>4
    <3>6. f[i] = f[i - 1] \o ss[i] /\ ss[i] \in Seq(T)
      BY <2>2, <3>3
    <3>7. f[i] \in Seq(T)
      <4> HIDE DEF Bad
      <4>. QED BY <3>5, <3>6, Joined
    <3>. QED BY <3>7
  <2>. QED BY <1>2, <2>1, <2>3
<1>. QED BY <1>1, <1>2

\* Parts of two steps follow each other in order.
LEMMA FlattenPairs ==
    ASSUME NEW T, NEW ss, Len(ss) \in Nat, Len(ss) = 0 => ss = <<>>,
           \A i \in 1..Len(ss) : ss[i] \in Seq(T) /\ Len(ss[i]) = 2
    PROVE  /\ FlattenSeq(ss) \in Seq(T)
           /\ Len(FlattenSeq(ss)) = 2 * Len(ss)
           /\ \A i \in 1..Len(ss) : /\ FlattenSeq(ss)[2 * i - 1] = ss[i][1]
                                    /\ FlattenSeq(ss)[2 * i] = ss[i][2]
<1> DEFINE n == Len(ss)
           Pairs(g, m) == /\ g \in Seq(T) /\ Len(g) = 2 * m
                          /\ \A i \in 1..m : g[2 * i - 1] = ss[i][1] /\ g[2 * i] = ss[i][2]
<1>1. CASE n = 0
  BY <1>1 DEF FlattenSeq
<1>2. CASE n # 0
  <2>1. PICK f : Flattens(f, ss, n) /\ FlattenSeq(ss) = f[n]
    BY <1>2, FlattenIs
  <2>2. \A i \in 1..n : f[i] = IF i = 1 THEN ss[i] ELSE f[i - 1] \o ss[i]
    BY <2>1 DEF Flattens
  <2> DEFINE Bad == {i \in 1..n : ~Pairs(f[i], i)}
  <2>3. Bad = {}
    <3>1. SUFFICES ASSUME Bad # {} PROVE FALSE
      OBVIOUS
    <3>2. PICK m \in Bad : \A k \in Bad : m <= k
      <4>1. Bad \subseteq Nat
        OBVIOUS
      <4> HIDE DEF Bad
      <4>. QED BY <3>1, <4>1, LeastNumber
    <3>3. m # 1
      <4>1. ss[1] \in Seq(T) /\ Len(ss[1]) = 2 /\ f[1] = ss[1]
        BY <1>2, <2>2
      <4>2. Pairs(f[1], 1)
        BY <4>1
      <4>. QED BY <1>2, <4>2
    <3>4. m - 1 \in 1..n /\ ~(m <= m - 1)
      BY <3>3
    <3>5. Pairs(f[m - 1], m - 1)
      BY <3>2, <3>4
    <3>6. f[m] = f[m - 1] \o ss[m] /\ ss[m] \in Seq(T) /\ Len(ss[m]) = 2
      BY <2>2, <3>3
    <3> DEFINE a == f[m - 1]
               b == ss[m]
    <3>7. /\ a \in Seq(T) /\ Len(a) = 2 * (m - 1) /\ m \in Nat
          /\ \A j \in 1..(m - 1) : a[2 * j - 1] = ss[j][1] /\ a[2 * j] = ss[j][2]
      BY <3>4, <3>5
    <3> HIDE DEF Pairs, Bad
    <3>8. f[m] = a \o b /\ b \in Seq(T) /\ Len(b) = 2 /\ b = ss[m]
      BY <3>6
    <3> HIDE DEF a, b
    <3>10. /\ f[m] \in Seq(T) /\ Len(f[m]) = 2 * m
           /\ \A i \in 1..(2 * (m - 1)) : f[m][i] = a[i]
           /\ f[m][2 * m - 1] = b[1] /\ f[m][2 * m] = b[2]
      <4>1. /\ f[m] \in Seq(T) /\ Len(f[m]) = Len(a) + Len(b)
            /\ \A i \in 1..Len(a) : f[m][i] = a[i]
            /\ \A i \in 1..Len(b) : f[m][Len(a) + i] = b[i]
        <5>1. a \in Seq(T) /\ b \in Seq(T)
          BY <3>7, <3>8
        <5>2. /\ a \o b \in Seq(T) /\ Len(a \o b) = Len(a) + Len(b)
              /\ \A i \in 1..Len(a) : (a \o b)[i] = a[i]
              /\ \A i \in 1..Len(b) : (a \o b)[Len(a) + i] = b[i]
          BY <5>1, Joined
        <5>3. f[m] = a \o b
          BY <3>8
        <5>. QED BY <5>2, <5>3, Zenon
      <4>2. 2 * (m - 1) + 1 = 2 * m - 1 /\ 2 * (m - 1) + 2 = 2 * m
        BY <3>7
      <4>3. 1 \in 1..Len(b) /\ 2 \in 1..Len(b)
        BY <3>8
      <4>4. f[m][Len(a) + 1] = b[1] /\ f[m][Len(a) + 2] = b[2]
        BY <4>1, <4>3
      <4>. QED BY <3>7, <3>8, <4>1, <4>2, <4>4
    <3>11. ASSUME NEW i \in 1..m PROVE f[m][2 * i - 1] = ss[i][1] /\ f[m][2 * i] = ss[i][2]
      <4>1. CASE i = m
        BY <3>8, <3>10, <4>1
      <4>2. CASE i # m
        <5>1. i \in 1..(m - 1) /\ 2 * i \in 1..(2 * (m - 1)) /\ 2 * i - 1 \in 1..(2 * (m - 1))
          BY <3>7, <4>2
        <5>. QED BY <3>7, <3>10, <5>1
      <4>. QED BY <4>1, <4>2
    <3>9. Pairs(f[m], m)
      BY <3>10, <3>11 DEF Pairs
    <3>12. m \notin Bad
      BY <3>9 DEF Bad
    <3>. QED BY <3>12
  <2>4. Pairs(f[n], n)
    <3>1. n \in 1..n
      BY <1>2
    <3> HIDE DEF Pairs, n
    <3>. QED BY <2>3, <3>1
  <2>. QED BY <2>1, <2>4
<1>. QED BY <1>1, <1>2

-----------------------------------------------------------------------------
(* Types of workspaces. *)

MainDos ==
    {"register", "move", "rename", "refuse if live", "remove members", "remove", "forget", "release",
     "drop if empty", "drop folder", "stop workspace", "refresh", "deploy", "dashboard",
     "json", "json without", "resolve", "start", "stop", "start project", "stop project"}
FleetDos ==
    {"start all", "dashboard", "await settled", "toggle", "restore", "await import",
     "json", "json without", "resolve", "start", "stop", "start project", "stop project"}
DosOf(t) == IF t = Main THEN MainDos ELSE FleetDos

ProjectDos ==
    {"register", "move", "forget", "remove", "resolve", "start", "stop", "json without",
     "await import", "start project", "stop project"}
PlacedDos == {"resolve", "remove members"}
StepsOf(dos) ==
    {s \in [do : dos, p : Projects \cup {NoProject}, w : Names \cup {Nowhere},
            port : Ports \cup {NoPort}, to : Names \cup {Nowhere}] :
        /\ s.do \in ProjectDos => s.p \in Projects
        /\ s.do \in PlacedDos => s.w \in Names}

TodoTyped ==
    /\ todo = [t \in Threads |-> todo[t]]
    /\ \A t \in Threads : todo[t] \in Seq(StepsOf(DosOf(t)))

FilesTyped ==
    /\ json \in [Names -> [listed : SUBSET Projects, roots : SUBSET Projects]]
    /\ \A w \in Names : json[w].roots \subseteq json[w].listed \cap Rooted

HandlesTyped ==
    /\ handles \in [Names -> [port : Ports \cup {NoPort}, members : SUBSET Projects]]
    /\ \A w \in Names : handles[w] # NoHandle => handles[w].members # {}

RuntimeTyped ==
    /\ residents \in [Ports -> Names \cup {Nowhere}]
    /\ HandlesTyped
    /\ snaps \in [Projects -> [phase : {"Stopped", "Running", "Failed"}, at : Names \cup {Nowhere}]]

StoresTyped ==
    /\ registered \in [Projects -> Names \cup {Nowhere}]
    /\ entries \in [Names -> Ports \cup {NoPort}]
    /\ FilesTyped
    /\ deployed \in [Names -> Ports \cup {NoPort}]

WorkspacesTyped == StoresTyped /\ RuntimeTyped /\ TodoTyped

LEMMA TypedIsOK == WorkspacesTyped => WorkspacesTypeOK
  BY DEF WorkspacesTyped, StoresTyped, RuntimeTyped, FilesTyped, HandlesTyped, WorkspacesTypeOK, Members, NoHandle

LEMMA TypedAtFirst == WorkspacesInit => WorkspacesTyped
<1> SUFFICES ASSUME WorkspacesInit PROVE WorkspacesTyped
  OBVIOUS
<1>1. registered \in [Projects -> Names \cup {Nowhere}]
  BY HistoryAssumption DEF WorkspacesInit
<1>2. StoresTyped
  BY <1>1 DEF WorkspacesInit, StoresTyped, FilesTyped, Members
<1>3. RuntimeTyped
  BY DEF WorkspacesInit, RuntimeTyped, HandlesTyped, NoHandle, Stopped
<1>4. TodoTyped
  BY DEF WorkspacesInit, TodoTyped, Threads
<1>. QED BY <1>2, <1>3, <1>4 DEF WorkspacesTyped

-----------------------------------------------------------------------------
(* Steps. *)

LEMMA StepTyped ==
    ASSUME NEW dos, NEW do \in dos, NEW p, NEW w \in Names \cup {Nowhere},
           p \in Projects \/ (p = NoProject /\ do \notin ProjectDos),
           do \in PlacedDos => w \in Names
    PROVE  Step(do, p, w) \in StepsOf(dos)
  BY DEF Step, StepsOf

LEMMA OfTyped ==
    ASSUME NEW dos, NEW do \in dos, do \notin ProjectDos, NEW w \in Names \cup {Nowhere},
           do \in PlacedDos => w \in Names
    PROVE  Of(do, w) \in StepsOf(dos)
  BY StepTyped DEF Of

LEMMA Halved ==
    ASSUME NEW n \in Nat, NEW i \in 1..(2 * n)
    PROVE  \E k \in 1..n : i = 2 * k \/ i = 2 * k - 1
<1> DEFINE k == (i + 1) \div 2
<1>1. k \in Int /\ (i = 2 * k \/ i = 2 * k - 1)
  OBVIOUS
<1>2. k \in 1..n
  <2> HIDE DEF k
  <2>. QED BY <1>1
<1>. QED BY <1>1, <1>2

\* The steps of each project that is registered.
RemovesEach(m, S) ==
    /\ m \in Seq(StepsOf({"remove", "forget"}))
    /\ \A i \in 1..Len(m) : m[i].do = "forget" => m[i].p \in S
    /\ \A i, j \in 1..Len(m) : m[i].do = "forget" /\ m[j].do = "forget" /\ m[i].p = m[j].p => i = j
    /\ \A p \in S : \E i \in 1..Len(m) : m[i].do = "forget" /\ m[i].p = p

LEMMA RemovalsAre ==
    ASSUME NEW S, S \subseteq Projects
    PROVE  RemovesEach(ForEach(SetToSeq(S), RemovalOf), S)
<1> DEFINE m == ForEach(SetToSeq(S), RemovalOf)
           s == SetToSeq(S)
           ss == [i \in DOMAIN s |-> RemovalOf(s[i])]
           T == StepsOf({"remove", "forget"})
<1>1. IsFiniteSet(S)
  BY HistoryAssumption, FS_Subset
<1>2. /\ s \in Seq(S)
      /\ \A i, j \in 1..Len(s) : s[i] = s[j] => i = j
      /\ \A x \in S : \E i \in 1..Len(s) : s[i] = x
  BY <1>1, SetToSeqFacts
<1>3. m = FlattenSeq(ss)
  BY DEF ForEach
<1> HIDE DEF s, m
<1>4. Len(s) \in Nat /\ DOMAIN s = 1..Len(s) /\ (\A i \in 1..Len(s) : s[i] \in S)
  BY <1>2
<1>5. Len(ss) = Len(s) /\ DOMAIN ss = 1..Len(s) /\ (Len(ss) = 0 => ss = <<>>)
  BY <1>4
<1>6. \A p \in S : Step("remove", p, Nowhere) \in T /\ Step("forget", p, Nowhere) \in T
  BY StepTyped DEF PlacedDos
<1>7. \A i \in 1..Len(ss) : /\ ss[i] \in Seq(T) /\ Len(ss[i]) = 2
                            /\ ss[i][1] = Step("remove", s[i], Nowhere)
                            /\ ss[i][2] = Step("forget", s[i], Nowhere)
  <2>1. SUFFICES ASSUME NEW i \in 1..Len(ss)
                 PROVE  /\ ss[i] \in Seq(T) /\ Len(ss[i]) = 2
                        /\ ss[i][1] = Step("remove", s[i], Nowhere)
                        /\ ss[i][2] = Step("forget", s[i], Nowhere)
    OBVIOUS
  <2>2. s[i] \in S
    BY <1>4, <1>5
  <2>3. ss[i] = <<Step("remove", s[i], Nowhere), Step("forget", s[i], Nowhere)>>
    BY <1>4, <1>5 DEF RemovalOf
  <2> DEFINE a == Step("remove", s[i], Nowhere)
             b == Step("forget", s[i], Nowhere)
  <2>4. a \in T /\ b \in T /\ ss[i] = <<a, b>>
    BY <1>6, <2>2, <2>3
  <2> HIDE DEF ss, T, a, b
  <2>5. <<a, b>> \in Seq(T) /\ Len(<<a, b>>) = 2 /\ <<a, b>>[1] = a /\ <<a, b>>[2] = b
    BY <2>4
  <2>6. ss[i] \in Seq(T) /\ Len(ss[i]) = 2 /\ ss[i][1] = a /\ ss[i][2] = b
    BY <2>4, <2>5, Zenon
  <2>. QED BY <2>6 DEF a, b
<1> HIDE DEF ss, T
<1>8. /\ m \in Seq(T) /\ Len(m) = 2 * Len(s)
      /\ \A i \in 1..Len(s) : m[2 * i - 1] = Step("remove", s[i], Nowhere) /\ m[2 * i] = Step("forget", s[i], Nowhere)
  <2>1. /\ FlattenSeq(ss) \in Seq(T)
        /\ Len(FlattenSeq(ss)) = 2 * Len(ss)
        /\ \A i \in 1..Len(ss) : FlattenSeq(ss)[2 * i - 1] = ss[i][1] /\ FlattenSeq(ss)[2 * i] = ss[i][2]
    BY <1>4, <1>5, <1>7, FlattenPairs
  <2>. QED BY <1>3, <1>5, <1>7, <2>1
<1>9. /\ \A p : Step("remove", p, Nowhere).do = "remove"
      /\ \A p : Step("forget", p, Nowhere).do = "forget" /\ Step("forget", p, Nowhere).p = p
  BY DEF Step
<1>10. \A i \in 1..Len(m) : m[i].do = "forget" =>
           \E k \in 1..Len(s) : i = 2 * k /\ m[i].p = s[k]
  <2>1. SUFFICES ASSUME NEW i \in 1..Len(m), m[i].do = "forget"
                 PROVE  \E k \in 1..Len(s) : i = 2 * k /\ m[i].p = s[k]
    OBVIOUS
  <2>2. i \in 1..(2 * Len(s)) /\ Len(s) \in Nat
    BY <1>4, <1>8
  <2>3. PICK k \in 1..Len(s) : i = 2 * k \/ i = 2 * k - 1
    BY <2>2, Halved
  <2>4. m[2 * k - 1].do = "remove" /\ m[2 * k].p = s[k]
    BY <1>8, <1>9
  <2>5. i # 2 * k - 1
    BY <2>1, <2>4
  <2>6. i = 2 * k
    BY <2>3, <2>5
  <2>. QED BY <2>4, <2>6
<1>11. \A i \in 1..Len(m) : m[i].do = "forget" => m[i].p \in S
  BY <1>4, <1>10
<1>12. \A i, j \in 1..Len(m) : m[i].do = "forget" /\ m[j].do = "forget" /\ m[i].p = m[j].p => i = j
  <2>1. SUFFICES ASSUME NEW i \in 1..Len(m), NEW j \in 1..Len(m),
                        m[i].do = "forget", m[j].do = "forget", m[i].p = m[j].p
                 PROVE  i = j
    OBVIOUS
  <2>2. PICK k \in 1..Len(s) : i = 2 * k /\ m[i].p = s[k]
    BY <1>10, <2>1
  <2>3. PICK l \in 1..Len(s) : j = 2 * l /\ m[j].p = s[l]
    BY <1>10, <2>1
  <2>4. k = l
    BY <1>2, <2>1, <2>2, <2>3
  <2>. QED BY <2>2, <2>3, <2>4
<1>13. \A p \in S : \E i \in 1..Len(m) : m[i].do = "forget" /\ m[i].p = p
  <2>1. SUFFICES ASSUME NEW p \in S PROVE \E i \in 1..Len(m) : m[i].do = "forget" /\ m[i].p = p
    OBVIOUS
  <2>2. PICK k \in 1..Len(s) : s[k] = p
    BY <1>2
  <2>3. 2 * k \in 1..(2 * Len(s))
    BY <1>4
  <2>4. m[2 * k] = Step("forget", p, Nowhere)
    BY <1>8, <2>2
  <2>. QED BY <1>8, <1>9, <2>3, <2>4
<1>14. RemovesEach(m, S)
  BY <1>8, <1>11, <1>12, <1>13 DEF T, RemovesEach
<1>. QED BY <1>14 DEF m

-----------------------------------------------------------------------------
(* What a step leaves to do, and what it changes. *)

LEMMA HeadTyped ==
    ASSUME TodoTyped, NEW t \in Threads, todo[t] # <<>>
    PROVE  /\ Next1(t) \in StepsOf(DosOf(t))
           /\ Tail(todo[t]) \in Seq(StepsOf(DosOf(t)))
<1>1. todo[t] \in Seq(StepsOf(DosOf(t)))
  BY DEF TodoTyped
<1>. QED BY <1>1 DEF Next1

LEMMA StepsSuit ==
    ASSUME NEW dos, NEW s \in StepsOf(dos)
    PROVE  /\ s.do \in dos /\ s.w \in Names \cup {Nowhere} /\ s.to \in Names \cup {Nowhere}
           /\ s.port \in Ports \cup {NoPort}
           /\ s.do \in ProjectDos => s.p \in Projects
           /\ s.do \in PlacedDos => s.w \in Names
  BY DEF StepsOf

\* The next step of a thread.
LEMMA NextSuits ==
    ASSUME TodoTyped, NEW t \in Threads, NEW do, Doing(t, do)
    PROVE  /\ do \in DosOf(t)
           /\ Next1(t).w \in Names \cup {Nowhere} /\ Next1(t).to \in Names \cup {Nowhere}
           /\ Next1(t).port \in Ports \cup {NoPort}
           /\ do \in ProjectDos => Next1(t).p \in Projects
           /\ do \in PlacedDos => Next1(t).w \in Names
  BY HeadTyped, StepsSuit DEF Doing

LEMMA TodoBecomes ==
    ASSUME TodoTyped, NEW t \in Threads, NEW m \in Seq(StepsOf(DosOf(t))), todo' = [todo EXCEPT ![t] = m]
    PROVE  TodoTyped'
<1>1. DOMAIN todo = Threads
  BY DEF TodoTyped
<1>2. todo' = [u \in Threads |-> IF u = t THEN m ELSE todo[u]]
  BY <1>1
<1>3. \A u \in Threads : todo'[u] \in Seq(StepsOf(DosOf(u)))
  BY <1>2 DEF TodoTyped
<1>4. todo' = [u \in Threads |-> todo'[u]]
  BY <1>2
<1>. QED BY <1>3, <1>4 DEF TodoTyped

LEMMA DoneTyped ==
    ASSUME TodoTyped, NEW t \in Threads, todo[t] # <<>>, Done(t)
    PROVE  TodoTyped'
<1>1. Tail(todo[t]) \in Seq(StepsOf(DosOf(t)))
  BY HeadTyped
<1>2. todo' = [todo EXCEPT ![t] = Tail(todo[t])]
  BY DEF Done
<1>. QED BY <1>1, <1>2, TodoBecomes

LEMMA RefuseTyped ==
    ASSUME TodoTyped, NEW t \in Threads, Refuse(t)
    PROVE  TodoTyped'
<1>1. <<>> \in Seq(StepsOf(DosOf(t)))
  OBVIOUS
<1>. QED BY <1>1, TodoBecomes DEF Refuse

LEMMA ExpandTyped ==
    ASSUME TodoTyped, NEW t \in Threads, todo[t] # <<>>, NEW b \in Seq(StepsOf(DosOf(t))), Expand(t, b)
    PROVE  TodoTyped'
<1> DEFINE c == Tail(todo[t])
<1>1. c \in Seq(StepsOf(DosOf(t)))
  BY HeadTyped
<1>2. todo' = [todo EXCEPT ![t] = b \o c]
  BY DEF Expand
<1> HIDE DEF c
<1>3. b \o c \in Seq(StepsOf(DosOf(t)))
  BY <1>1, Joined
<1>. QED BY <1>2, <1>3, TodoBecomes

LEMMA SameTodoTyped == TodoTyped /\ UNCHANGED todo => TodoTyped'
  BY DEF TodoTyped

LEMMA AllocationsTyped ==
    ASSUME NEW wanted, NEW e \in Allocations(wanted)
    PROVE  e \in [Names -> Ports \cup {NoPort}]
  BY DEF Allocations

LEMMA FileTyped ==
    ASSUME StoresTyped, NEW w
    PROVE  /\ FileOf(w) \in [listed : SUBSET Projects, roots : SUBSET Projects]
           /\ FileOf(w).roots \subseteq FileOf(w).listed \cap Rooted
  BY DEF FileOf, Members

\* One file is written.
LEMMA FileBecomes ==
    ASSUME FilesTyped, NEW w, NEW f \in [listed : SUBSET Projects, roots : SUBSET Projects],
           f.roots \subseteq f.listed \cap Rooted, json' = [json EXCEPT ![w] = f]
    PROVE  FilesTyped'
<1>1. json' = [v \in Names |-> IF v = w THEN f ELSE json[v]]
  BY DEF FilesTyped
<1>. QED BY <1>1 DEF FilesTyped

\* One handle is replaced.
LEMMA HandleBecomes ==
    ASSUME HandlesTyped, NEW w, NEW h,
           w \in Names => /\ h \in [port : Ports \cup {NoPort}, members : SUBSET Projects]
                          /\ h # NoHandle => h.members # {},
           handles' = [handles EXCEPT ![w] = h]
    PROVE  HandlesTyped'
<1>1. handles' = [v \in Names |-> IF v = w THEN h ELSE handles[v]]
  BY DEF HandlesTyped
<1>. QED BY <1>1 DEF HandlesTyped

SnapOf == [phase : {"Stopped", "Running", "Failed"}, at : Names \cup {Nowhere}]

LEMMA SnapBecomes ==
    ASSUME NEW p, NEW s \in SnapOf, snaps \in [Projects -> SnapOf], snaps' = [snaps EXCEPT ![p] = s]
    PROVE  snaps' \in [Projects -> SnapOf]
  OBVIOUS

LEMMA StoppedTyped == Stopped \in SnapOf
  BY DEF Stopped, SnapOf

LEMMA NoHandleTyped ==
    /\ NoHandle \in [port : Ports \cup {NoPort}, members : SUBSET Projects]
    /\ NoHandle.members = {}
  BY DEF NoHandle

LEMMA LeaveTyped ==
    ASSUME RuntimeTyped, NEW p, NEW w, NEW h,
           w \in Names => h \in [port : Ports \cup {NoPort}, members : SUBSET Projects],
           Leave(p, w, h)
    PROVE  HandlesTyped' /\ residents' \in [Ports -> Names \cup {Nowhere}]
<1> DEFINE left == h.members \ {p}
<1>0. HandlesTyped /\ residents \in [Ports -> Names \cup {Nowhere}]
  BY DEF RuntimeTyped
<1>1. CASE left # {}
  <2>1. handles' = [handles EXCEPT ![w] = [h EXCEPT !.members = left]] /\ residents' = residents
    BY <1>1 DEF Leave
  <2>2. w \in Names => /\ [h EXCEPT !.members = left] \in [port : Ports \cup {NoPort}, members : SUBSET Projects]
                       /\ [h EXCEPT !.members = left].members = left
    OBVIOUS
  <2>3. HandlesTyped'
    BY <1>0, <1>1, <2>1, <2>2, HandleBecomes
  <2>. QED BY <1>0, <2>1, <2>3
<1>2. CASE left = {}
  <2>1. handles' = [handles EXCEPT ![w] = NoHandle] /\ residents' = [residents EXCEPT ![h.port] = Nowhere]
    BY <1>2 DEF Leave
  <2>2. HandlesTyped'
    BY <1>0, <2>1, HandleBecomes, NoHandleTyped
  <2>. QED BY <1>0, <2>1, <2>2
<1>. QED BY <1>1, <1>2

LEMMA AdoptedTyped ==
    ASSUME NEW p \in Projects, NEW w
    PROVE  AdoptedMembers(p, w) \in SUBSET Projects /\ AdoptedMembers(p, w) # {}
  BY DEF AdoptedMembers

-----------------------------------------------------------------------------
(* Polls. *)

\* What a poll makes of the handles and the records.
LEMMA PollTyped ==
    ASSUME StoresTyped, RuntimeTyped, NEW asked, asked \subseteq Names, Poll(asked),
           deployed' = deployed
    PROVE  StoresTyped' /\ RuntimeTyped'
<1>1. PICK e \in Allocations(asked) :
        /\ entries' = e
        /\ handles' = [w \in Names |->
                         IF w \notin asked \/ Alive(handles[w]) THEN handles[w]
                         ELSE IF Found(w, e)
                         THEN [port |-> e[w],
                               members |-> AdoptedMembers(CHOOSE p \in Members(w) : snaps[p].phase # "Stopped", w)]
                         ELSE NoHandle]
        /\ snaps' = [p \in Projects |->
                       LET w == registered[p] IN
                       IF w \notin asked THEN snaps[p]
                       ELSE IF ~Alive(handles[w]) /\ handles[w] # NoHandle /\ p = CHOOSE o \in Members(w) : TRUE
                       THEN [phase |-> "Failed", at |-> w]
                       ELSE IF Found(w, e) THEN [phase |-> "Running", at |-> w]
                       ELSE snaps[p]]
        /\ UNCHANGED <<registered, json, residents, imports>>
  BY DEF Poll
<1>2. e \in [Names -> Ports \cup {NoPort}]
  BY AllocationsTyped
<1>3. StoresTyped'
  BY <1>1, <1>2 DEF StoresTyped, FilesTyped
<1>4. HandlesTyped'
  <2>1. ASSUME NEW w \in Names
        PROVE  /\ handles'[w] \in [port : Ports \cup {NoPort}, members : SUBSET Projects]
               /\ handles'[w] # NoHandle => handles'[w].members # {}
    <3>1. CASE w \notin asked \/ Alive(handles[w])
      <4>1. handles'[w] = handles[w]
        BY <1>1, <3>1
      <4>. QED BY <4>1 DEF RuntimeTyped, HandlesTyped
    <3>2. CASE ~(w \notin asked \/ Alive(handles[w])) /\ Found(w, e)
      <4> DEFINE p == CHOOSE p \in Members(w) : snaps[p].phase # "Stopped"
      <4>1. \E o \in Members(w) : snaps[o].phase # "Stopped"
        BY <3>2 DEF Found
      <4>2. p \in Projects
        BY <4>1 DEF Members
      <4>3. handles'[w] = [port |-> e[w], members |-> AdoptedMembers(p, w)]
        BY <1>1, <3>2
      <4> HIDE DEF p
      <4>. QED BY <1>2, <4>2, <4>3, AdoptedTyped
    <3>3. CASE ~(w \notin asked \/ Alive(handles[w])) /\ ~Found(w, e)
      <4>1. handles'[w] = NoHandle
        BY <1>1, <3>3
      <4>. QED BY <4>1, NoHandleTyped
    <3>. QED BY <3>1, <3>2, <3>3
  <2>2. handles' = [w \in Names |-> handles'[w]]
    BY <1>1
  <2>. QED BY <2>1, <2>2 DEF HandlesTyped
<1>5. snaps' \in [Projects -> SnapOf]
  <2>1. ASSUME NEW p \in Projects PROVE snaps'[p] \in SnapOf
    <3>1. snaps'[p] \in {snaps[p], [phase |-> "Failed", at |-> registered[p]], [phase |-> "Running", at |-> registered[p]]}
      BY <1>1
    <3>2. registered[p] \in Names \cup {Nowhere} /\ snaps[p] \in SnapOf
      BY DEF StoresTyped, RuntimeTyped, SnapOf
    <3>. QED BY <3>1, <3>2 DEF SnapOf
  <2>2. snaps' = [p \in Projects |-> snaps'[p]]
    BY <1>1
  <2>. QED BY <2>1, <2>2
<1>6. RuntimeTyped'
  BY <1>1, <1>4, <1>5 DEF RuntimeTyped, SnapOf
<1>. QED BY <1>3, <1>6

LEMMA UsedNames == StoresTyped => Used \subseteq Names
  BY DEF StoresTyped, Used

LEMMA PollAllTyped ==
    ASSUME StoresTyped, RuntimeTyped, PollAll, deployed' = deployed
    PROVE  StoresTyped' /\ RuntimeTyped'
  BY UsedNames, PollTyped DEF PollAll

LEMMA AskTyped ==
    ASSUME StoresTyped, RuntimeTyped, NEW p \in Projects, NEW w \in Names \cup {Nowhere}, Ask(p, w),
           deployed' = deployed
    PROVE  StoresTyped' /\ RuntimeTyped'
<1> DEFINE adopt(e) == handles[w] = NoHandle /\ snaps[p].phase # "Stopped" /\ Answers(e[w])
           gone == handles[w] # NoHandle /\ ~Alive(handles[w])
<1>1. PICK e \in Allocations({w}) :
        /\ entries' = e
        /\ handles' = [handles EXCEPT ![w] = IF gone THEN NoHandle
                                         ELSE IF adopt(e) THEN [port |-> e[w], members |-> AdoptedMembers(p, w)]
                                         ELSE handles[w]]
        /\ snaps' = [snaps EXCEPT ![p] = IF gone THEN [phase |-> "Failed", at |-> w]
                                      ELSE IF adopt(e) \/ Alive(handles[w]) THEN [phase |-> "Running", at |-> w]
                                      ELSE snaps[p]]
        /\ UNCHANGED <<registered, json, residents>>
  BY DEF Ask
<1>2. e \in [Names -> Ports \cup {NoPort}]
  BY AllocationsTyped
<1>3. StoresTyped'
  BY <1>1, <1>2 DEF StoresTyped, FilesTyped
<1>4. PICK h : handles' = [handles EXCEPT ![w] = h] /\ h \in {NoHandle, [port |-> e[w], members |-> AdoptedMembers(p, w)], handles[w]}
  BY <1>1, Zenon
<1>5. w \in Names => /\ h \in [port : Ports \cup {NoPort}, members : SUBSET Projects]
                     /\ h # NoHandle => h.members # {}
  <2>1. SUFFICES ASSUME w \in Names
                 PROVE  /\ h \in [port : Ports \cup {NoPort}, members : SUBSET Projects]
                        /\ h # NoHandle => h.members # {}
    OBVIOUS
  <2>2. CASE h = NoHandle
    BY <2>2, NoHandleTyped
  <2>3. CASE h = [port |-> e[w], members |-> AdoptedMembers(p, w)]
    BY <1>2, <2>1, <2>3, AdoptedTyped
  <2>4. CASE h = handles[w]
    BY <2>1, <2>4 DEF RuntimeTyped, HandlesTyped
  <2>. QED BY <1>4, <2>2, <2>3, <2>4
<1>6. HandlesTyped'
  BY <1>4, <1>5, HandleBecomes DEF RuntimeTyped
<1>7. PICK s : snaps' = [snaps EXCEPT ![p] = s] /\ s \in {[phase |-> "Failed", at |-> w], [phase |-> "Running", at |-> w], snaps[p]}
  BY <1>1, Zenon
<1>8. snaps \in [Projects -> SnapOf]
  BY DEF RuntimeTyped, SnapOf
<1>9. s \in SnapOf
  BY <1>7, <1>8 DEF SnapOf
<1>10. snaps' \in [Projects -> SnapOf]
  BY <1>7, <1>8, <1>9, SnapBecomes
<1>. QED BY <1>1, <1>3, <1>6, <1>10 DEF RuntimeTyped, SnapOf

-----------------------------------------------------------------------------
(* Each step keeps the types. *)

\* Steps in the config store.
LEMMA StoreStepsTyped ==
    ASSUME WorkspacesTyped, NEW t \in Threads,
           \/ Register(t) \/ SetWorkspace(t) \/ Rename(t) \/ Forget(t) \/ ReleaseEntry(t)
           \/ WriteJson(t) \/ WriteJsonWithout(t) \/ DropFolder(t)
    PROVE  WorkspacesTyped'
<1> DEFINE s == Next1(t)
<1>0. StoresTyped /\ RuntimeTyped /\ TodoTyped
  BY DEF WorkspacesTyped
<1>1. TodoTyped'
  <2>1. todo[t] # <<>> /\ (Done(t) \/ Refuse(t))
    BY DEF Register, SetWorkspace, Rename, Forget, ReleaseEntry, WriteJson, WriteJsonWithout, DropFolder, Doing
  <2>. QED BY <1>0, <2>1, DoneTyped, RefuseTyped
<1>2. RuntimeTyped'
  <2>1. UNCHANGED runtime
    BY DEF Register, SetWorkspace, Rename, Forget, ReleaseEntry, WriteJson, WriteJsonWithout, DropFolder
  <2>. QED BY <1>0, <2>1 DEF RuntimeTyped, HandlesTyped, runtime, imports
<1>3. s.w \in Names \cup {Nowhere} /\ s.to \in Names \cup {Nowhere}
  <2>1. PICK do : Doing(t, do)
    BY DEF Register, SetWorkspace, Rename, Forget, ReleaseEntry, WriteJson, WriteJsonWithout, DropFolder
  <2>. QED BY <1>0, <2>1, NextSuits
<1>4. UNCHANGED deployed
  BY DEF Register, SetWorkspace, Rename, Forget, ReleaseEntry, WriteJson, WriteJsonWithout, DropFolder
<1>5. StoresTyped'
  <2> HIDE DEF s
  <2>1. CASE UNCHANGED <<entries, json>> /\ \/ UNCHANGED registered
                                            \/ registered' = [registered EXCEPT ![s.p] = s.w]
                                            \/ registered' = [registered EXCEPT ![s.p] = Nowhere]
    <3>1. registered' \in [Projects -> Names \cup {Nowhere}]
      BY <1>0, <1>3, <2>1 DEF StoresTyped
    <3>. QED BY <1>0, <1>4, <2>1, <3>1 DEF StoresTyped, FilesTyped
  <2>2. CASE Register(t) \/ SetWorkspace(t) \/ Forget(t)
    BY <2>1, <2>2 DEF Register, SetWorkspace, Forget, s
  <2>3. CASE Rename(t)
    <3>1. CASE UNCHANGED <<registered, entries>> /\ UNCHANGED json
      BY <2>1, <3>1
    <3>2. CASE /\ registered' = [p \in Projects |-> IF registered[p] = s.w THEN s.to ELSE registered[p]]
               /\ entries' = RenamedEntries(s.w, s.to)
               /\ UNCHANGED json
      <4>1. registered' \in [Projects -> Names \cup {Nowhere}]
        BY <1>0, <1>3, <3>2 DEF StoresTyped
      <4>2. entries' \in [Names -> Ports \cup {NoPort}]
        BY <1>0, <3>2 DEF StoresTyped, RenamedEntries
      <4>. QED BY <1>0, <1>4, <3>2, <4>1, <4>2 DEF StoresTyped, FilesTyped
    <3>. QED BY <2>3, <3>1, <3>2 DEF Rename, s
  <2>4. CASE ReleaseEntry(t)
    <3>1. entries' = [entries EXCEPT ![s.w] = NoPort] /\ UNCHANGED <<registered, json>>
      BY <2>4 DEF ReleaseEntry, s
    <3>. QED BY <1>0, <1>4, <3>1 DEF StoresTyped, FilesTyped
  <2>5. CASE WriteJson(t) \/ WriteJsonWithout(t) \/ DropFolder(t)
    <3>1. PICK f : /\ json' = [json EXCEPT ![s.w] = f] /\ UNCHANGED <<registered, entries>>
                   /\ f \in {FileOf(s.w), NoFile, [listed |-> Members(s.w) \ {s.p}, roots |-> {}]}
      BY <2>5 DEF WriteJson, WriteJsonWithout, DropFolder, s
    <3>2. /\ f \in [listed : SUBSET Projects, roots : SUBSET Projects]
          /\ f.roots \subseteq f.listed \cap Rooted
      <4>1. CASE f = FileOf(s.w)
        BY <1>0, <4>1, FileTyped
      <4>2. CASE f = NoFile \/ f = [listed |-> Members(s.w) \ {s.p}, roots |-> {}]
        BY <4>2 DEF NoFile, Members
      <4>. QED BY <3>1, <4>1, <4>2
    <3>3. FilesTyped'
      BY <1>0, <3>1, <3>2, FileBecomes DEF StoresTyped
    <3>. QED BY <1>0, <1>4, <3>1, <3>3 DEF StoresTyped
  <2>. QED BY <2>2, <2>3, <2>4, <2>5
<1>. QED BY <1>1, <1>2, <1>5 DEF WorkspacesTyped

\* A step that leaves the stores and the runtime alone.
LEMMA StoresStay ==
    ASSUME StoresTyped, UNCHANGED <<stores, deployed>>
    PROVE  StoresTyped'
  BY DEF StoresTyped, FilesTyped, stores

LEMMA RuntimeStays ==
    ASSUME RuntimeTyped, UNCHANGED <<residents, handles, snaps>>
    PROVE  RuntimeTyped'
  BY DEF RuntimeTyped, HandlesTyped

LEMMA ResolveTyped ==
    ASSUME WorkspacesTyped, NEW t \in Threads, Resolve(t)
    PROVE  WorkspacesTyped'
<1> DEFINE T == StepsOf(DosOf(t))
           rest == Tail(todo[t])
           goes(i) == rest[i].p = Next1(t).p /\ rest[i].do # "await import"
           to(q) == [i \in DOMAIN rest |-> IF goes(i) THEN [rest[i] EXCEPT !.port = q] ELSE rest[i]]
<1>0. StoresTyped /\ RuntimeTyped /\ TodoTyped
  BY DEF WorkspacesTyped
<1>1. PICK e \in Allocations({Next1(t).w}) : entries' = e /\ todo' = [todo EXCEPT ![t] = to(e[Next1(t).w])]
  BY DEF Resolve
<1>2. todo[t] # <<>> /\ UNCHANGED <<registered, json, runtime, deployed>>
  BY DEF Resolve, Doing
<1>3. e \in [Names -> Ports \cup {NoPort}]
  BY AllocationsTyped
<1>4. rest \in Seq(T)
  BY <1>0, <1>2, HeadTyped
<1>5. Next1(t).w \in Names
  BY <1>0, NextSuits DEF Resolve, PlacedDos
<1> DEFINE q == e[Next1(t).w]
<1>6. q \in Ports \cup {NoPort}
  BY <1>3, <1>5
<1>7. \A s \in T : [s EXCEPT !.port = q] \in T
  BY <1>6 DEF StepsOf
<1> HIDE DEF rest, T, q
<1>8. to(q) \in Seq(T)
  <2>1. Len(rest) \in Nat /\ DOMAIN rest = 1..Len(rest) /\ \A i \in 1..Len(rest) : rest[i] \in T
    BY <1>4
  <2>2. to(q) \in [1..Len(rest) -> T]
    BY <1>7, <2>1
  <2>3. \A n \in Nat : \A f \in [1..n -> T] : f \in Seq(T)
    OBVIOUS
  <2>. QED BY <2>1, <2>2, <2>3, Zenon
<1> HIDE DEF to
<1>9. todo' = [todo EXCEPT ![t] = to(q)]
  BY <1>1 DEF q
<1>10. TodoTyped'
  BY <1>0, <1>8, <1>9, TodoBecomes DEF T
<1>11. StoresTyped'
  BY <1>0, <1>1, <1>2, <1>3 DEF StoresTyped, FilesTyped
<1>12. RuntimeTyped'
  BY <1>0, <1>2, RuntimeStays DEF runtime
<1>. QED BY <1>10, <1>11, <1>12 DEF WorkspacesTyped

\* Steps in the runtime manager, but for the polls.
LEMMA RuntimeStepsTyped ==
    ASSUME WorkspacesTyped, NEW t \in Threads,
           Unresolved(t) \/ StartResident(t) \/ StopResident(t) \/ StopWorkspace(t) \/ RemoveRuntime(t)
    PROVE  WorkspacesTyped'
<1> DEFINE s == Next1(t)
<1>0. StoresTyped /\ RuntimeTyped /\ TodoTyped
  BY DEF WorkspacesTyped
<1>1. TodoTyped'
  <2>1. todo[t] # <<>> /\ Done(t)
    BY DEF Unresolved, StartResident, StopResident, StopWorkspace, RemoveRuntime, Doing
  <2>. QED BY <1>0, <2>1, DoneTyped
<1>2. StoresTyped'
  <2>1. UNCHANGED <<stores, deployed>>
    BY DEF Unresolved, StartResident, StopResident, StopWorkspace, RemoveRuntime
  <2>. QED BY <1>0, <2>1, StoresStay
<1>3. /\ residents \in [Ports -> Names \cup {Nowhere}] /\ HandlesTyped
      /\ snaps \in [Projects -> SnapOf]
      /\ \A w \in Names : handles[w] \in [port : Ports \cup {NoPort}, members : SUBSET Projects]
  BY <1>0 DEF RuntimeTyped, HandlesTyped, SnapOf
<1>4. RuntimeTyped'
  <2>1. CASE Unresolved(t)
    BY <1>0, <2>1, RuntimeStays DEF Unresolved, runtime
  <2>2. CASE StartResident(t)
    <3>1. s.w \in Names \cup {Nowhere} /\ s.port \in Ports \cup {NoPort} /\ s.p \in Projects
      BY <1>0, <2>2, NextSuits DEF StartResident, ProjectDos
    <3>2. snaps' \in [Projects -> SnapOf]
      <4>1. snaps' = [snaps EXCEPT ![s.p] = [phase |-> "Running", at |-> s.w]]
        BY <2>2 DEF StartResident, Up
      <4>2. [phase |-> "Running", at |-> s.w] \in SnapOf
        BY <3>1 DEF SnapOf
      <4>. QED BY <1>3, <4>1, <4>2, SnapBecomes
    <3>3. residents' \in [Ports -> Names \cup {Nowhere}]
      <4>1. UNCHANGED residents \/ residents' = [residents EXCEPT ![s.port] = s.w]
        BY <2>2, Zenon DEF StartResident
      <4>. QED BY <1>3, <3>1, <4>1
    <3>4. PICK h : /\ handles' = [handles EXCEPT ![s.w] = h]
                   /\ h \in {[handles[s.w] EXCEPT !.members = @ \cup {s.p}],
                             [port |-> s.port, members |-> AdoptedMembers(s.p, s.w)],
                             [port |-> s.port, members |-> {s.p}]}
      <4>1. \/ handles' = [handles EXCEPT ![s.w].members = @ \cup {s.p}]
            \/ handles' = [handles EXCEPT ![s.w] = [port |-> s.port, members |-> AdoptedMembers(s.p, s.w)]]
            \/ handles' = [handles EXCEPT ![s.w] = [port |-> s.port, members |-> {s.p}]]
        BY <2>2, Zenon DEF StartResident
      <4>2. CASE handles' = [handles EXCEPT ![s.w].members = @ \cup {s.p}]
        <5>1. handles' = [handles EXCEPT ![s.w] = [handles[s.w] EXCEPT !.members = @ \cup {s.p}]]
          BY <4>2
        <5>. QED BY <5>1, Zenon
      <4>3. CASE \/ handles' = [handles EXCEPT ![s.w] = [port |-> s.port, members |-> AdoptedMembers(s.p, s.w)]]
                 \/ handles' = [handles EXCEPT ![s.w] = [port |-> s.port, members |-> {s.p}]]
        BY <4>3, Zenon
      <4>. QED BY <4>1, <4>2, <4>3
    <3>5. s.w \in Names => /\ h \in [port : Ports \cup {NoPort}, members : SUBSET Projects]
                           /\ h.members # {}
      <4>1. SUFFICES ASSUME s.w \in Names
                     PROVE  /\ h \in [port : Ports \cup {NoPort}, members : SUBSET Projects]
                            /\ h.members # {}
        OBVIOUS
      <4>2. CASE h = [handles[s.w] EXCEPT !.members = @ \cup {s.p}]
        BY <1>3, <3>1, <4>1, <4>2
      <4>3. CASE h = [port |-> s.port, members |-> AdoptedMembers(s.p, s.w)]
        BY <3>1, <4>3, AdoptedTyped
      <4>4. CASE h = [port |-> s.port, members |-> {s.p}]
        BY <3>1, <4>4
      <4>. QED BY <3>4, <4>2, <4>3, <4>4
    <3>6. HandlesTyped'
      BY <1>3, <3>4, <3>5, HandleBecomes
    <3>. QED BY <3>2, <3>3, <3>6 DEF RuntimeTyped, SnapOf
  <2>3. CASE StopResident(t)
    <3>1. s.w \in Names \cup {Nowhere} /\ s.port \in Ports \cup {NoPort} /\ s.p \in Projects
      BY <1>0, <2>3, NextSuits DEF StopResident, ProjectDos
    <3>2. snaps' \in [Projects -> SnapOf]
      <4>1. snaps' = [snaps EXCEPT ![s.p] = Stopped]
        BY <2>3 DEF StopResident
      <4>. QED BY <1>3, <4>1, StoppedTyped, SnapBecomes
    <3>3. \/ Leave(s.p, s.w, handles[s.w])
          \/ Leave(s.p, s.w, [port |-> s.port, members |-> AdoptedMembers(s.p, s.w)])
          \/ UNCHANGED <<handles, residents>>
      BY <2>3, Zenon DEF StopResident
    <3>4. HandlesTyped' /\ residents' \in [Ports -> Names \cup {Nowhere}]
      <4>1. CASE Leave(s.p, s.w, handles[s.w])
        BY <1>0, <1>3, <4>1, LeaveTyped
      <4>2. CASE Leave(s.p, s.w, [port |-> s.port, members |-> AdoptedMembers(s.p, s.w)])
        <5>1. [port |-> s.port, members |-> AdoptedMembers(s.p, s.w)] \in [port : Ports \cup {NoPort}, members : SUBSET Projects]
          BY <3>1, AdoptedTyped
        <5>. QED BY <1>0, <4>2, <5>1, LeaveTyped
      <4>3. CASE UNCHANGED <<handles, residents>>
        BY <1>3, <4>3 DEF HandlesTyped
      <4>. QED BY <3>3, <4>1, <4>2, <4>3
    <3>. QED BY <3>2, <3>4 DEF RuntimeTyped, SnapOf
  <2>4. CASE StopWorkspace(t)
    <3>1. CASE UNCHANGED runtime
      BY <1>0, <3>1, RuntimeStays DEF runtime
    <3>2. CASE /\ handles' = [handles EXCEPT ![s.w] = NoHandle]
               /\ residents' = [residents EXCEPT ![handles[s.w].port] = Nowhere]
               /\ snaps' = [p \in Projects |-> IF p \in handles[s.w].members THEN Stopped ELSE snaps[p]]
      <4>1. HandlesTyped'
        BY <1>3, <3>2, NoHandleTyped, HandleBecomes
      <4>2. residents' \in [Ports -> Names \cup {Nowhere}]
        BY <1>3, <3>2
      <4>3. snaps' \in [Projects -> SnapOf]
        BY <1>3, <3>2, StoppedTyped
      <4>. QED BY <4>1, <4>2, <4>3 DEF RuntimeTyped, SnapOf
    <3>. QED BY <2>4, <3>1, <3>2 DEF StopWorkspace
  <2>5. CASE RemoveRuntime(t)
    <3>1. s.p \in Projects
      BY <1>0, <2>5, NextSuits DEF RemoveRuntime, ProjectDos
    <3>2. snaps' \in [Projects -> SnapOf]
      <4>1. snaps' = [snaps EXCEPT ![s.p] = Stopped]
        BY <2>5 DEF RemoveRuntime
      <4>. QED BY <1>3, <4>1, StoppedTyped, SnapBecomes
    <3>3. HandlesTyped' /\ residents' \in [Ports -> Names \cup {Nowhere}]
      <4>1. CASE UNCHANGED <<handles, residents>>
        BY <1>3, <4>1 DEF HandlesTyped
      <4>2. ASSUME NEW w \in Names, Leave(s.p, w, handles[w])
            PROVE  HandlesTyped' /\ residents' \in [Ports -> Names \cup {Nowhere}]
        BY <1>0, <1>3, <4>2, LeaveTyped
      <4>. QED BY <2>5, <4>1, <4>2 DEF RemoveRuntime
    <3>. QED BY <3>2, <3>3 DEF RuntimeTyped, SnapOf
  <2>. QED BY <2>1, <2>2, <2>3, <2>4, <2>5
<1>. QED BY <1>1, <1>2, <1>4 DEF WorkspacesTyped

\* Steps that poll, write a client's configuration or only read.
LEMMA PollStepsTyped ==
    ASSUME WorkspacesTyped, NEW t \in Threads,
           RefuseIfLive(t) \/ LoadDashboard(t) \/ AwaitSettled(t)
    PROVE  WorkspacesTyped'
<1>0. StoresTyped /\ RuntimeTyped /\ TodoTyped
  BY DEF WorkspacesTyped
<1>1. todo[t] # <<>> /\ PollAll /\ deployed' = deployed /\ (Done(t) \/ Refuse(t))
  BY DEF RefuseIfLive, LoadDashboard, AwaitSettled, Doing
<1>2. TodoTyped'
  BY <1>0, <1>1, DoneTyped, RefuseTyped
<1>3. StoresTyped' /\ RuntimeTyped'
  BY <1>0, <1>1, PollAllTyped
<1>. QED BY <1>2, <1>3 DEF WorkspacesTyped

LEMMA DeploymentTyped ==
    ASSUME NEW e \in [Names -> Ports \cup {NoPort}]
    PROVE  Deployment(e) \in [Names -> Ports \cup {NoPort}]
  BY DEF Deployment

LEMMA DeployStepsTyped ==
    ASSUME WorkspacesTyped, NEW t \in Threads, RefreshDeployed(t) \/ Deploy(t)
    PROVE  WorkspacesTyped'
<1>0. StoresTyped /\ RuntimeTyped /\ TodoTyped
  BY DEF WorkspacesTyped
<1>1. todo[t] # <<>> /\ Done(t) /\ UNCHANGED <<registered, json, runtime>>
  BY DEF RefreshDeployed, Deploy, Doing
<1>2. \/ UNCHANGED <<entries, deployed>>
      \/ \E e \in Allocations(Used) : entries' = e /\ deployed' = Deployment(e)
  BY DEF RefreshDeployed, Deploy
<1>3. entries' \in [Names -> Ports \cup {NoPort}] /\ deployed' \in [Names -> Ports \cup {NoPort}]
  BY <1>0, <1>2, AllocationsTyped, DeploymentTyped DEF StoresTyped
<1>4. StoresTyped'
  BY <1>0, <1>1, <1>3 DEF StoresTyped, FilesTyped
<1>5. RuntimeTyped'
  BY <1>0, <1>1, RuntimeStays DEF runtime
<1>6. TodoTyped'
  BY <1>0, <1>1, DoneTyped
<1>. QED BY <1>4, <1>5, <1>6 DEF WorkspacesTyped

-----------------------------------------------------------------------------
(* The steps that are made of other steps. *)

LEMMA OneStepTyped ==
    ASSUME NEW T, NEW a \in T
    PROVE  <<a>> \in Seq(T)
  OBVIOUS

\* What the two sets of steps have in common.
SharedDos == {"json", "json without", "resolve", "start", "stop", "start project", "stop project", "dashboard"}

LEMMA WiderSteps ==
    ASSUME NEW a, NEW b, a \subseteq b
    PROVE  Seq(StepsOf(a)) \subseteq Seq(StepsOf(b))
<1>1. StepsOf(a) \subseteq StepsOf(b)
  BY DEF StepsOf
<1>. QED BY <1>1

LEMMA SharedSteps ==
    ASSUME NEW t, NEW m \in Seq(StepsOf(SharedDos))
    PROVE  m \in Seq(StepsOf(DosOf(t)))
<1>1. SharedDos \subseteq DosOf(t)
  BY DEF SharedDos, DosOf, MainDos, FleetDos
<1>. QED BY <1>1, WiderSteps

LEMMA StartOfTyped ==
    ASSUME NEW p \in Projects, registered[p] \in Names
    PROVE  StartOf(p) \in Seq(StepsOf(SharedDos)) /\ StopOf(p) \in Seq(StepsOf(SharedDos))
<1> DEFINE T == StepsOf(SharedDos)
<1>1. /\ Step("resolve", p, registered[p]) \in T /\ Step("start", p, registered[p]) \in T
      /\ Step("stop", p, registered[p]) \in T
  BY StepTyped DEF SharedDos, PlacedDos
<1> HIDE DEF T
<1>2. \A a, b \in T : <<a, b>> \in Seq(T)
  OBVIOUS
<1>. QED BY <1>1, <1>2 DEF StartOf, StopOf, T

LEMMA SetToSeqTyped ==
    ASSUME NEW S, S \subseteq Projects
    PROVE  /\ SetToSeq(S) \in Seq(S) /\ Len(SetToSeq(S)) \in Nat
           /\ DOMAIN SetToSeq(S) = 1..Len(SetToSeq(S))
           /\ \A i \in DOMAIN SetToSeq(S) : SetToSeq(S)[i] \in S
<1>1. IsFiniteSet(S)
  BY HistoryAssumption, FS_Subset
<1>2. SetToSeq(S) \in Seq(S)
  BY <1>1, SetToSeqFacts
<1> DEFINE s == SetToSeq(S)
<1> HIDE DEF s
<1>3. s \in Seq(S)
  BY <1>2 DEF s
<1>4. Len(s) \in Nat /\ DOMAIN s = 1..Len(s) /\ \A i \in DOMAIN s : s[i] \in S
  BY <1>3
<1>. QED BY <1>3, <1>4 DEF s

\* A part for each element of a sequence.
LEMMA PartsTyped ==
    ASSUME NEW T, NEW S, NEW s \in Seq(S), NEW ss, DOMAIN ss = DOMAIN s, ss = [i \in DOMAIN ss |-> ss[i]],
           \A i \in DOMAIN s : ss[i] \in Seq(T)
    PROVE  FlattenSeq(ss) \in Seq(T)
<1>1. Len(s) \in Nat /\ DOMAIN s = 1..Len(s)
  OBVIOUS
<1>2. Len(ss) = Len(s) /\ (Len(ss) = 0 => ss = <<>>)
  BY <1>1
<1>3. \A i \in 1..Len(ss) : ss[i] \in Seq(T)
  BY <1>1, <1>2
<1>. QED BY <1>1, <1>2, <1>3, FlattenTyped

LEMMA ForEachTyped ==
    ASSUME StoresTyped, NEW S, S \subseteq Projects
    PROVE  /\ (\A p \in S : registered[p] \in Names) =>
                 /\ ForEach(SetToSeq(S), StartOf) \in Seq(StepsOf(SharedDos))
                 /\ ForEach(SetToSeq(S), StopOf) \in Seq(StepsOf(SharedDos))
           /\ ForEach(SetToSeq(S), RemovalOf) \in Seq(StepsOf(MainDos))
           /\ \A w \in Names \cup {Nowhere} :
                 /\ ForEach(SetToSeq(S), LAMBDA p : <<Step("start project", p, w)>>) \in Seq(StepsOf(SharedDos))
                 /\ ForEach(SetToSeq(S), LAMBDA p : <<Step("stop project", p, w)>>) \in Seq(StepsOf(SharedDos))
<1> DEFINE s == SetToSeq(S)
           T == StepsOf(SharedDos)
<1>1. s \in Seq(S) /\ \A i \in DOMAIN s : s[i] \in S
  BY SetToSeqTyped
<1>2. ASSUME \A p \in S : registered[p] \in Names
      PROVE  /\ ForEach(SetToSeq(S), StartOf) \in Seq(T)
             /\ ForEach(SetToSeq(S), StopOf) \in Seq(T)
  <2> DEFINE a == [i \in DOMAIN s |-> StartOf(s[i])]
             b == [i \in DOMAIN s |-> StopOf(s[i])]
  <2>1. \A i \in DOMAIN s : a[i] \in Seq(T) /\ b[i] \in Seq(T)
    BY <1>1, <1>2, StartOfTyped
  <2>2. /\ DOMAIN a = DOMAIN s /\ a = [i \in DOMAIN a |-> a[i]]
        /\ DOMAIN b = DOMAIN s /\ b = [i \in DOMAIN b |-> b[i]]
    OBVIOUS
  <2>3. ForEach(SetToSeq(S), StartOf) = FlattenSeq(a) /\ ForEach(SetToSeq(S), StopOf) = FlattenSeq(b)
    BY DEF ForEach
  <2> HIDE DEF a, b, T, s
  <2>4. FlattenSeq(a) \in Seq(T) /\ FlattenSeq(b) \in Seq(T)
    BY <1>1, <2>1, <2>2, PartsTyped
  <2>. QED BY <2>3, <2>4
<1>3. ForEach(SetToSeq(S), RemovalOf) \in Seq(StepsOf(MainDos))
  <2>1. {"remove", "forget"} \subseteq MainDos
    BY DEF MainDos
  <2>. QED BY <2>1, RemovalsAre, WiderSteps DEF RemovesEach
<1>4. ASSUME NEW w \in Names \cup {Nowhere}, NEW do \in {"start project", "stop project"}
      PROVE  FlattenSeq([i \in DOMAIN s |-> <<Step(do, s[i], w)>>]) \in Seq(T)
  <2> DEFINE a == [i \in DOMAIN s |-> <<Step(do, s[i], w)>>]
  <2>1. \A i \in DOMAIN s : Step(do, s[i], w) \in T
    BY <1>1, StepTyped DEF SharedDos, PlacedDos
  <2> HIDE DEF T, s
  <2>2. \A i \in DOMAIN s : a[i] \in Seq(T)
    <3>1. \A x \in T : <<x>> \in Seq(T)
      BY OneStepTyped
    <3>2. \A i \in DOMAIN s : a[i] = <<Step(do, s[i], w)>>
      OBVIOUS
    <3>. QED BY <2>1, <3>1, <3>2, Zenon
  <2>3. DOMAIN a = DOMAIN s /\ a = [i \in DOMAIN a |-> a[i]]
    OBVIOUS
  <2> HIDE DEF a
  <2>4. FlattenSeq(a) \in Seq(T)
    BY <1>1, <2>2, <2>3, PartsTyped
  <2>. QED BY <2>4 DEF a
<1>5. ASSUME NEW w \in Names \cup {Nowhere}
      PROVE  /\ ForEach(SetToSeq(S), LAMBDA p : <<Step("start project", p, w)>>) \in Seq(T)
             /\ ForEach(SetToSeq(S), LAMBDA p : <<Step("stop project", p, w)>>) \in Seq(T)
  <2>1. /\ FlattenSeq([i \in DOMAIN s |-> <<Step("start project", s[i], w)>>]) \in Seq(T)
        /\ FlattenSeq([i \in DOMAIN s |-> <<Step("stop project", s[i], w)>>]) \in Seq(T)
    BY <1>4
  <2> HIDE DEF T
  <2>. QED BY <2>1 DEF ForEach
<1>. QED BY <1>2, <1>3, <1>5

LEMMA InsertTyped ==
    ASSUME NEW T, NEW a \in T, NEW b \in T, NEW c \in T
    PROVE  InsertAt(<<a, b>>, 2, c) \in Seq(T)
<1> DEFINE s == <<a, b>>
<1>1. s \in Seq(T) /\ Len(s) = 2
  OBVIOUS
<1>2. <<c>> \in Seq(T)
  BY OneStepTyped
<1> HIDE DEF s
<1>3. SubSeq(s, 1, 2 - 1) \in Seq(T) /\ SubSeq(s, 2, Len(s)) \in Seq(T)
  BY <1>1, SMTT(40)
<1>4. SubSeq(s, 1, 2 - 1) \o <<c>> \in Seq(T)
  BY <1>2, <1>3, Joined
<1>5. (SubSeq(s, 1, 2 - 1) \o <<c>>) \o SubSeq(s, 2, Len(s)) \in Seq(T)
  BY <1>3, <1>4, Joined
<1>. QED BY <1>5 DEF InsertAt, s

LEMMA LargestNumber ==
    ASSUME NEW T, NEW n \in Nat, T \subseteq 0..n, T # {}
    PROVE  Max(T) \in T
<1> DEFINE U == {k \in Nat : n - k \in T}
<1>1. PICK x : x \in T
  OBVIOUS
<1>2. n - x \in U /\ U \subseteq Nat
  <2>1. x \in Nat /\ n - x \in Nat /\ n - (n - x) = x
    BY <1>1
  <2>. QED BY <1>1, <2>1
<1>3. PICK k \in U : \A j \in U : k <= j
  <2> HIDE DEF U
  <2>. QED BY <1>2, LeastNumber
<1>4. ASSUME NEW y \in T PROVE n - k >= y
  <2>1. y \in Nat /\ n - y \in Nat /\ n - (n - y) = y
    OBVIOUS
  <2>2. n - y \in U
    BY <2>1
  <2>3. k <= n - y
    BY <1>3, <2>2
  <2>. QED BY <1>3, <2>1, <2>3
<1>5. n - k \in T
  BY <1>3
<1>6. \E y \in T : \A z \in T : y >= z
  BY <1>4, <1>5
<1>. QED BY <1>6 DEF Max

LEMMA StaggeredTyped ==
    ASSUME StoresTyped, NEW S, S \subseteq Projects, \A p \in S : registered[p] \in Names,
           NEW e \in [Names -> Ports \cup {NoPort}]
    PROVE  Staggered(SetToSeq(S), e) \in Seq(StepsOf(FleetDos))
<1> DEFINE seq == SetToSeq(S)
           T == StepsOf(FleetDos)
           ws(i) == registered[seq[i]]
           firsts == {i \in DOMAIN seq : \A h \in 1..(i - 1) : ws(h) # ws(i)}
           await(i) == [Step("await import", seq[i], ws(i)) EXCEPT !.port = e[ws(i)]]
           piece(i) == (IF i \in firsts \ {1} THEN <<await(Max({k \in firsts : k < i}))>> ELSE <<>>) \o StartOf(seq[i])
           ss == [i \in DOMAIN seq |-> piece(i)]
<1>1. seq \in Seq(S) /\ Len(seq) \in Nat /\ DOMAIN seq = 1..Len(seq) /\ \A i \in DOMAIN seq : seq[i] \in S
  BY SetToSeqTyped
<1>2. Staggered(SetToSeq(S), e) = FlattenSeq(ss)
  BY DEF Staggered
<1> HIDE DEF seq
<1>3. ASSUME NEW i \in DOMAIN seq PROVE await(i) \in T
  <2>1. seq[i] \in Projects /\ ws(i) \in Names /\ e[ws(i)] \in Ports \cup {NoPort}
    BY <1>1, <1>3
  <2>2. Step("await import", seq[i], ws(i)) \in T
    BY <2>1, StepTyped DEF FleetDos, PlacedDos
  <2>3. \A s \in T, q \in Ports \cup {NoPort} : [s EXCEPT !.port = q] \in T
    BY DEF StepsOf
  <2> HIDE DEF T, ws
  <2>. QED BY <2>1, <2>2, <2>3
<1>4. ASSUME NEW i \in DOMAIN seq PROVE StartOf(seq[i]) \in Seq(T)
  <2>1. SharedDos \subseteq FleetDos
    BY DEF SharedDos, FleetDos
  <2>. QED BY <1>1, <1>4, <2>1, StartOfTyped, WiderSteps
<1>5. ASSUME NEW i \in firsts \ {1} PROVE Max({k \in firsts : k < i}) \in DOMAIN seq
  <2>1. i \in 1..Len(seq) /\ i # 1
    BY <1>1, <1>5
  <2>2. 1 \in firsts
    BY <1>1, <2>1
  <2>3. firsts \subseteq 1..Len(seq)
    BY <1>1
  <2> HIDE DEF firsts
  <2>4. 1 < i /\ 1..Len(seq) \subseteq 0..Len(seq) /\ Len(seq) \in Nat
    BY <1>1, <2>1
  <2>5. PICK K : K = {k \in firsts : k < i}
    OBVIOUS
  <2>6. K \subseteq firsts /\ 1 \in K
    BY <2>2, <2>4, <2>5, Zenon
  <2>7. Max(K) \in K
    <3>1. K \subseteq 0..Len(seq) /\ K # {}
      BY <2>3, <2>4, <2>6, Zenon
    <3>. QED BY <2>4, <3>1, LargestNumber
  <2>8. Max({k \in firsts : k < i}) = Max(K)
    BY <2>5
  <2>. QED BY <1>1, <2>3, <2>6, <2>7, <2>8, Zenon
<1> HIDE DEF await, T, firsts
<1>6. ASSUME NEW i \in DOMAIN seq PROVE piece(i) \in Seq(T)
  <2> DEFINE a == IF i \in firsts \ {1} THEN <<await(Max({k \in firsts : k < i}))>> ELSE <<>>
             b == StartOf(seq[i])
  <2>1. a \in Seq(T)
    <3>1. \A x \in T : <<x>> \in Seq(T)
      OBVIOUS
    <3>2. <<>> \in Seq(T)
      OBVIOUS
    <3>3. i \in firsts \ {1} => await(Max({k \in firsts : k < i})) \in T
      BY <1>3, <1>5
    <3>. QED BY <3>1, <3>2, <3>3
  <2>2. b \in Seq(T)
    BY <1>4, <1>6
  <2>3. piece(i) = a \o b
    OBVIOUS
  <2> HIDE DEF a, b, piece
  <2>. QED BY <2>1, <2>2, <2>3, Joined
<1> HIDE DEF piece
<1>7. DOMAIN ss = DOMAIN seq /\ ss = [i \in DOMAIN ss |-> ss[i]] /\ \A i \in DOMAIN seq : ss[i] \in Seq(T)
  BY <1>6
<1> HIDE DEF ss
<1>8. FlattenSeq(ss) \in Seq(T)
  BY <1>1, <1>7, PartsTyped
<1>. QED BY <1>2, <1>8 DEF T

LEMMA ListMembersTyped ==
    ASSUME WorkspacesTyped, NEW t \in Threads, ListMembers(t)
    PROVE  WorkspacesTyped'
<1> DEFINE b == ForEach(SetToSeq(Members(Next1(t).w)), RemovalOf)
<1>0. StoresTyped /\ RuntimeTyped /\ TodoTyped
  BY DEF WorkspacesTyped
<1>1. Doing(t, "remove members") /\ todo[t] # <<>> /\ Expand(t, b) /\ UNCHANGED <<stores, runtime, deployed>>
  BY DEF ListMembers, Doing
<1>2. DosOf(t) = MainDos
  <2>1. "remove members" \in DosOf(t)
    BY <1>0, <1>1, NextSuits
  <2>. QED BY <2>1 DEF DosOf, FleetDos
<1>3. b \in Seq(StepsOf(DosOf(t)))
  BY <1>0, <1>2, ForEachTyped DEF Members
<1> HIDE DEF b
<1>4. TodoTyped'
  BY <1>0, <1>1, <1>3, ExpandTyped
<1>5. StoresTyped' /\ RuntimeTyped'
  BY <1>0, <1>1, StoresStay, RuntimeStays DEF runtime
<1>. QED BY <1>4, <1>5 DEF WorkspacesTyped

\* What a workspace without a member has to do.
LEMMA DropStepsTyped ==
    ASSUME NEW w \in Names \cup {Nowhere}
    PROVE  (IF Members(w) = {} THEN <<Of("stop workspace", w), Of("release", w)>> ELSE <<>>)
               \in Seq(StepsOf({"stop workspace", "release"}))
<1> DEFINE T == StepsOf({"stop workspace", "release"})
           a == Of("stop workspace", w)
           c == Of("release", w)
<1>1. a \in T /\ c \in T
  BY OfTyped DEF ProjectDos, PlacedDos
<1> HIDE DEF T, a, c
<1>2. <<a, c>> \in Seq(T) /\ <<>> \in Seq(T)
  BY <1>1
<1>3. (IF Members(w) = {} THEN <<a, c>> ELSE <<>>) \in Seq(T)
  BY <1>2, Zenon
<1>. QED BY <1>3 DEF T, a, c

LEMMA DropIfEmptyTyped ==
    ASSUME WorkspacesTyped, NEW t \in Threads, DropIfEmpty(t)
    PROVE  WorkspacesTyped'
<1> DEFINE w == Next1(t).w
           b == IF Members(w) = {} THEN <<Of("stop workspace", w), Of("release", w)>> ELSE <<>>
<1>0. StoresTyped /\ RuntimeTyped /\ TodoTyped
  BY DEF WorkspacesTyped
<1>1. Doing(t, "drop if empty") /\ todo[t] # <<>> /\ Expand(t, b) /\ UNCHANGED <<stores, runtime, deployed>>
  BY DEF DropIfEmpty, Doing
<1>2. DosOf(t) = MainDos /\ w \in Names \cup {Nowhere}
  <2>1. "drop if empty" \in DosOf(t) /\ w \in Names \cup {Nowhere}
    BY <1>0, <1>1, NextSuits
  <2>. QED BY <2>1 DEF DosOf, FleetDos
<1>3. b \in Seq(StepsOf({"stop workspace", "release"}))
  BY <1>2, DropStepsTyped
<1>4. {"stop workspace", "release"} \subseteq MainDos
  BY DEF MainDos
<1> HIDE DEF b
<1>5. b \in Seq(StepsOf(DosOf(t)))
  BY <1>2, <1>3, <1>4, WiderSteps
<1>6. TodoTyped'
  BY <1>0, <1>1, <1>5, ExpandTyped
<1>7. StoresTyped' /\ RuntimeTyped'
  BY <1>0, <1>1, StoresStay, RuntimeStays DEF runtime
<1>. QED BY <1>6, <1>7 DEF WorkspacesTyped

LEMMA ListedPlaced ==
    StoresTyped => LET S == {p \in Projects : registered[p] # Nowhere}
                   IN S \subseteq Projects /\ \A p \in S : registered[p] \in Names
  BY DEF StoresTyped

LEMMA WriteAllTyped ==
    ASSUME WorkspacesTyped, NEW t \in Threads, WriteAll(t)
    PROVE  WorkspacesTyped'
<1>0. StoresTyped /\ RuntimeTyped /\ TodoTyped
  BY DEF WorkspacesTyped
<1>1. PICK e \in Allocations(Used) : entries' = e /\ Expand(t, Staggered(Listed, e))
  BY DEF WriteAll
<1>2. /\ Doing(t, "start all") /\ todo[t] # <<>> /\ WriteFiles(Used)
      /\ UNCHANGED <<registered, residents, handles, snaps, deployed>>
  BY DEF WriteAll, Doing
<1>3. DosOf(t) = FleetDos
  <2>1. "start all" \in DosOf(t)
    BY <1>0, <1>2, NextSuits
  <2>. QED BY <2>1 DEF DosOf, MainDos
<1>4. e \in [Names -> Ports \cup {NoPort}]
  BY AllocationsTyped
<1>5. Staggered(Listed, e) \in Seq(StepsOf(DosOf(t)))
  BY <1>0, <1>3, <1>4, ListedPlaced, StaggeredTyped DEF Listed
<1>6. TodoTyped'
  BY <1>0, <1>1, <1>2, <1>5, ExpandTyped
<1>7. FilesTyped'
  <2>1. json' = [w \in Names |-> IF w \in Used THEN FileOf(w) ELSE json[w]]
    BY <1>2 DEF WriteFiles
  <2>2. FilesTyped
    BY <1>0 DEF StoresTyped
  <2>. QED BY <1>0, <2>1, <2>2, FileTyped DEF FilesTyped
<1>8. StoresTyped'
  BY <1>0, <1>1, <1>2, <1>4, <1>7 DEF StoresTyped
<1>9. RuntimeTyped'
  BY <1>0, <1>2, RuntimeStays
<1>. QED BY <1>6, <1>8, <1>9 DEF WorkspacesTyped

LEMMA AwaitImportTyped ==
    ASSUME WorkspacesTyped, NEW t \in Threads, AwaitImport(t)
    PROVE  WorkspacesTyped'
<1>0. StoresTyped /\ RuntimeTyped /\ TodoTyped
  BY DEF WorkspacesTyped
<1>1. Doing(t, "await import") /\ todo[t] # <<>> /\ Ask(Next1(t).p, Next1(t).w) /\ UNCHANGED deployed
  BY DEF AwaitImport, Doing
<1>2. Done(t) \/ UNCHANGED todo
  BY DEF AwaitImport
<1>3. TodoTyped'
  BY <1>0, <1>1, <1>2, DoneTyped, SameTodoTyped
<1>4. Next1(t).p \in Projects /\ Next1(t).w \in Names \cup {Nowhere}
  BY <1>0, <1>1, NextSuits DEF ProjectDos
<1>5. StoresTyped' /\ RuntimeTyped'
  BY <1>0, <1>1, <1>4, AskTyped
<1>. QED BY <1>3, <1>5 DEF WorkspacesTyped

LEMMA FilesToWriteTyped ==
    ASSUME NEW W, W \subseteq Names, IsFiniteSet(W)
    PROVE  ForEach(SetToSeq(W), LAMBDA w : <<Of("json", w)>>) \in Seq(StepsOf(SharedDos))
<1> DEFINE s == SetToSeq(W)
           T == StepsOf(SharedDos)
           a == [i \in DOMAIN s |-> <<Of("json", s[i])>>]
<1>1. s \in Seq(W)
  BY SetToSeqFacts
<1>2. ForEach(SetToSeq(W), LAMBDA w : <<Of("json", w)>>) = FlattenSeq(a)
  BY DEF ForEach
<1> HIDE DEF s
<1>3. \A i \in DOMAIN s : s[i] \in Names
  <2>1. \A i \in DOMAIN s : s[i] \in W
    BY <1>1
  <2>. QED BY <2>1
<1>4. \A i \in DOMAIN s : Of("json", s[i]) \in T
  BY <1>3, OfTyped DEF SharedDos, ProjectDos, PlacedDos
<1>5. \A i \in DOMAIN s : a[i] = <<Of("json", s[i])>>
  OBVIOUS
<1>6. DOMAIN a = DOMAIN s /\ a = [i \in DOMAIN a |-> a[i]]
  OBVIOUS
<1> HIDE DEF T, a
<1>7. \A i \in DOMAIN s : a[i] \in Seq(T)
  BY <1>4, <1>5, OneStepTyped, Zenon
<1>8. FlattenSeq(a) \in Seq(T)
  BY <1>1, <1>6, <1>7, PartsTyped
<1>. QED BY <1>2, <1>8 DEF T

LEMMA RestoreTyped ==
    ASSUME WorkspacesTyped, NEW t \in Threads, Restore(t)
    PROVE  WorkspacesTyped'
<1> DEFINE live == {o \in Projects : registered[o] # Nowhere /\ snaps'[o].phase # "Stopped"}
           wanted == {registered[p] : p \in live}
           back == {p \in Projects : registered[p] \in wanted}
           a == ForEach(SetToSeq(wanted), LAMBDA w : <<Of("json", w)>>)
           b == ForEach(SetToSeq(back), StartOf)
<1>0. StoresTyped /\ RuntimeTyped /\ TodoTyped
  BY DEF WorkspacesTyped
<1>1. todo[t] # <<>> /\ PollAll /\ UNCHANGED deployed /\ Expand(t, a \o b)
  BY DEF Restore, Doing
<1>2. wanted \subseteq Names /\ IsFiniteSet(wanted)
  <2>1. IsFiniteSet(live)
    BY HistoryAssumption, FS_Subset
  <2>2. IsFiniteSet(wanted)
    <3> DEFINE f == [p \in live |-> registered[p]]
    <3> HIDE DEF live
    <3>1. f \in Surjection(live, wanted)
      BY DEF Surjection
    <3>. QED BY <2>1, <3>1, FS_Surjection
  <2>. QED BY <1>0, <2>2 DEF StoresTyped
<1>3. back \subseteq Projects /\ \A p \in back : registered[p] \in Names
  BY <1>2
<1> HIDE DEF live, wanted, back
<1>4. a \in Seq(StepsOf(SharedDos))
  BY <1>2, FilesToWriteTyped
<1>5. b \in Seq(StepsOf(SharedDos))
  BY <1>0, <1>3, ForEachTyped
<1> HIDE DEF a, b
<1>6. a \o b \in Seq(StepsOf(DosOf(t)))
  BY <1>4, <1>5, Joined, SharedSteps
<1>7. TodoTyped'
  BY <1>0, <1>1, <1>6, ExpandTyped
<1>8. StoresTyped' /\ RuntimeTyped'
  BY <1>0, <1>1, PollAllTyped
<1>. QED BY <1>7, <1>8 DEF WorkspacesTyped

\* What a start and a stop of a project have to do.
LEMMA StartStepsTyped ==
    ASSUME StoresTyped, NEW p \in Projects
    PROVE  (IF registered[p] = Nowhere THEN <<>> ELSE <<Of("json", registered[p])>> \o StartOf(p))
               \in Seq(StepsOf(SharedDos))
<1> DEFINE T == StepsOf(SharedDos)
           c == <<Of("json", registered[p])>> \o StartOf(p)
<1>1. ASSUME registered[p] # Nowhere PROVE c \in Seq(T)
  <2>1. registered[p] \in Names
    BY <1>1 DEF StoresTyped
  <2>2. Of("json", registered[p]) \in T
    BY <2>1, OfTyped DEF SharedDos, ProjectDos, PlacedDos
  <2>3. <<Of("json", registered[p])>> \in Seq(T)
    BY <2>2, OneStepTyped
  <2>4. StartOf(p) \in Seq(T)
    BY <2>1, StartOfTyped
  <2>. QED BY <2>3, <2>4, Joined
<1> HIDE DEF c, T
<1>2. (IF registered[p] = Nowhere THEN <<>> ELSE c) \in Seq(T)
  <2>1. <<>> \in Seq(T)
    OBVIOUS
  <2>. QED BY <1>1, <2>1, Zenon
<1>. QED BY <1>2 DEF c, T

LEMMA StopStepsTyped ==
    ASSUME StoresTyped, NEW p \in Projects
    PROVE  (IF registered[p] = Nowhere THEN <<>>
            ELSE InsertAt(StopOf(p), 2, Step("json without", p, registered[p]))) \in Seq(StepsOf(SharedDos))
<1> DEFINE T == StepsOf(SharedDos)
           c == InsertAt(StopOf(p), 2, Step("json without", p, registered[p]))
<1>1. ASSUME registered[p] # Nowhere PROVE c \in Seq(T)
  <2>1. registered[p] \in Names
    BY <1>1 DEF StoresTyped
  <2>2. /\ Step("resolve", p, registered[p]) \in T /\ Step("stop", p, registered[p]) \in T
        /\ Step("json without", p, registered[p]) \in T
    BY <2>1, StepTyped DEF SharedDos, PlacedDos
  <2> HIDE DEF T
  <2>. QED BY <2>2, InsertTyped DEF StopOf
<1> HIDE DEF c, T
<1>2. (IF registered[p] = Nowhere THEN <<>> ELSE c) \in Seq(T)
  <2>1. <<>> \in Seq(T)
    OBVIOUS
  <2>. QED BY <1>1, <2>1, Zenon
<1>. QED BY <1>2 DEF c, T

LEMMA ProjectStepsTyped ==
    ASSUME WorkspacesTyped, NEW t \in Threads, StartProject(t) \/ StopProject(t)
    PROVE  WorkspacesTyped'
<1> DEFINE p == Next1(t).p
           a == IF registered[p] = Nowhere THEN <<>> ELSE <<Of("json", registered[p])>> \o StartOf(p)
           b == IF registered[p] = Nowhere THEN <<>>
                ELSE InsertAt(StopOf(p), 2, Step("json without", p, registered[p]))
<1>0. StoresTyped /\ RuntimeTyped /\ TodoTyped
  BY DEF WorkspacesTyped
<1>1. /\ Doing(t, "start project") \/ Doing(t, "stop project")
      /\ todo[t] # <<>> /\ (Expand(t, a) \/ Expand(t, b))
      /\ UNCHANGED <<stores, runtime, deployed>>
  BY DEF StartProject, StopProject, Doing
<1>2. p \in Projects
  BY <1>0, <1>1, NextSuits DEF ProjectDos
<1>3. a \in Seq(StepsOf(SharedDos)) /\ b \in Seq(StepsOf(SharedDos))
  BY <1>0, <1>2, StartStepsTyped, StopStepsTyped
<1> HIDE DEF a, b
<1>4. todo[t] # <<>> /\ (Expand(t, a) \/ Expand(t, b))
  BY <1>0, <1>1, Zenon DEF Doing
<1>5. TodoTyped'
  BY <1>0, <1>3, <1>4, SharedSteps, ExpandTyped
<1>6. StoresTyped' /\ RuntimeTyped'
  BY <1>0, <1>1, StoresStay, RuntimeStays DEF runtime
<1>. QED BY <1>5, <1>6 DEF WorkspacesTyped

LEMMA ToggleTyped ==
    ASSUME WorkspacesTyped, NEW t \in Threads, Toggle(t)
    PROVE  WorkspacesTyped'
<1> DEFINE w == Next1(t).w
           a == ForEach(SetToSeq(Members(w)), LAMBDA p : <<Step("stop project", p, w)>>)
           b == ForEach(SetToSeq(Members(w)), LAMBDA p : <<Step("start project", p, w)>>)
<1>0. StoresTyped /\ RuntimeTyped /\ TodoTyped
  BY DEF WorkspacesTyped
<1>1. /\ Doing(t, "toggle") /\ todo[t] # <<>> /\ PollAll /\ UNCHANGED deployed
      /\ Expand(t, a) \/ Expand(t, b)
  BY DEF Toggle, Doing
<1>2. w \in Names \cup {Nowhere} /\ Members(w) \subseteq Projects
  BY <1>0, <1>1, NextSuits DEF Members
<1> HIDE DEF w
<1>3. a \in Seq(StepsOf(SharedDos)) /\ b \in Seq(StepsOf(SharedDos))
  BY <1>0, <1>2, ForEachTyped
<1> HIDE DEF a, b
<1>4. a \in Seq(StepsOf(DosOf(t))) /\ b \in Seq(StepsOf(DosOf(t)))
  BY <1>3, SharedSteps
<1>5. TodoTyped'
  BY <1>0, <1>1, <1>4, ExpandTyped
<1>6. StoresTyped' /\ RuntimeTyped'
  BY <1>0, <1>1, PollAllTyped
<1>. QED BY <1>5, <1>6 DEF WorkspacesTyped

-----------------------------------------------------------------------------
(* Calls keep the types. *)

LEMMA TwoStepsTyped ==
    ASSUME NEW T, NEW a \in T, NEW b \in T
    PROVE  <<a, b>> \in Seq(T)
  OBVIOUS

LEMMA TripleTyped ==
    ASSUME NEW T, NEW a \in T, NEW b \in T, NEW c \in T
    PROVE  <<a, b, c>> \in Seq(T)
  OBVIOUS

LEMMA SixStepsTyped ==
    ASSUME NEW T, NEW a \in T, NEW b \in T, NEW c \in T, NEW d \in T, NEW e \in T, NEW f \in T
    PROVE  <<a, b, c, d, e, f>> \in Seq(T)
  OBVIOUS

LEMMA MoveTyped ==
    ASSUME NEW p \in Projects, NEW w \in Names, registered[p] \in Names
    PROVE  Move(p, w) \in Seq(StepsOf(MainDos))
<1> DEFINE T == StepsOf(MainDos)
           x == Step("move", p, w)
           y == Of("json", registered[p])
           z == Of("json", w)
           m == IF registered[p] # w THEN <<y>> ELSE <<>>
<1>1. x \in T /\ y \in T /\ z \in T
  BY StepTyped, OfTyped DEF MainDos, ProjectDos, PlacedDos
<1> HIDE DEF x, y, z, T
<1>2. <<x>> \in Seq(T) /\ <<z>> \in Seq(T) /\ m \in Seq(T)
  BY <1>1, OneStepTyped
<1>3. Move(p, w) = (<<x>> \o m) \o <<z>>
  BY DEF Move, x, y, z
<1> HIDE DEF m
<1>4. <<x>> \o m \in Seq(T)
  BY <1>2, Joined
<1>5. (<<x>> \o m) \o <<z>> \in Seq(T)
  BY <1>2, <1>4, Joined
<1>. QED BY <1>3, <1>5 DEF T

LEMMA DeleteProjectTyped ==
    ASSUME NEW p \in Projects, NEW w \in Names
    PROVE  DeleteProject(p, w) \in Seq(StepsOf(MainDos))
<1> DEFINE T == StepsOf(MainDos)
           a == Of("refuse if live", w)
           b == Step("remove", p, Nowhere)
           c == Step("forget", p, Nowhere)
           d == Of("json", w)
           e == Of("drop if empty", w)
           f == Of("refresh", w)
<1>1. a \in T /\ b \in T /\ c \in T /\ d \in T /\ e \in T /\ f \in T
  BY StepTyped, OfTyped DEF MainDos, ProjectDos, PlacedDos
<1>2. DeleteProject(p, w) = (<<a>> \o <<b, c>>) \o <<d, e, f>>
  BY DEF DeleteProject, RemovalOf
<1> HIDE DEF a, b, c, d, e, f, T
<1>3. <<a>> \in Seq(T) /\ <<b, c>> \in Seq(T) /\ <<d, e, f>> \in Seq(T)
  BY <1>1, OneStepTyped, TwoStepsTyped, TripleTyped
<1>4. <<a>> \o <<b, c>> \in Seq(T)
  BY <1>3, Joined
<1>5. (<<a>> \o <<b, c>>) \o <<d, e, f>> \in Seq(T)
  BY <1>3, <1>4, Joined
<1>. QED BY <1>2, <1>5 DEF T

LEMMA AllListedTyped ==
    ASSUME StoresTyped
    PROVE  /\ DeleteAll \in Seq(StepsOf(MainDos))
           /\ StopAll \in Seq(StepsOf(SharedDos))
<1> DEFINE S == {p \in Projects : registered[p] # Nowhere}
<1>1. S \subseteq Projects /\ \A p \in S : registered[p] \in Names
  BY DEF StoresTyped
<1>2. DeleteAll = ForEach(SetToSeq(S), RemovalOf) /\ StopAll = ForEach(SetToSeq(S), StopOf)
  BY DEF DeleteAll, StopAll, Listed
<1> HIDE DEF S
<1>. QED BY <1>1, <1>2, ForEachTyped

\* What the window may ask for is a sequence of its steps.
LEMMA AskedTyped ==
    ASSUME StoresTyped, NEW call, NEW p \in Projects \cup {NoProject}, NEW w \in Names,
           NEW m \in Asked(call, p, w)
    PROVE  m \in Seq(StepsOf(MainDos))
<1> DEFINE T == StepsOf(MainDos)
           there == p # NoProject /\ registered[p] # Nowhere
<1>0. there => p \in Projects /\ registered[p] \in Names
  BY DEF StoresTyped
<1>1. \/ call = "add" /\ p \in Projects /\ m = Add(p, w)
      \/ call = "move" /\ there /\ m = Move(p, w)
      \/ call = "rename" /\ \E v \in Names : m = RenameTo(w, v)
      \/ call = "delete workspace" /\ m = DeleteWorkspace(w)
      \/ call = "delete project" /\ there /\ m = DeleteProject(p, w)
      \/ call = "delete all" /\ m = DeleteAll
      \/ call = "start" /\ there /\ m = <<Step("start project", p, w)>>
      \/ call = "stop" /\ there /\ m = <<Step("stop project", p, w)>>
      \/ call = "stop all" /\ m = StopAll
      \/ call = "deploy" /\ m = <<Of("deploy", w)>>
  BY DEF Asked
<1>2. \A do \in MainDos \ ProjectDos : Of(do, w) \in T
  BY OfTyped DEF PlacedDos
<1>3. CASE p \in Projects /\ m = Add(p, w)
  <2>1. Step("register", p, w) \in T /\ Of("json", w) \in T /\ Of("refresh", w) \in T
    BY <1>2, <1>3, StepTyped DEF MainDos, ProjectDos, PlacedDos
  <2> HIDE DEF T
  <2>2. Add(p, w) \in Seq(T)
    BY <2>1, TripleTyped DEF Add
  <2>. QED BY <1>3, <2>2 DEF T
<1>4. CASE there /\ m = Move(p, w)
  BY <1>0, <1>4, MoveTyped
<1>5. ASSUME NEW v \in Names, m = RenameTo(w, v) PROVE m \in Seq(T)
  <2>1. Of("json", v) \in T /\ Of("refresh", v) \in T /\ Of("rename", w) \in T
    BY OfTyped DEF MainDos, ProjectDos, PlacedDos
  <2>2. [Of("rename", w) EXCEPT !.to = v] \in T
    BY <2>1 DEF StepsOf
  <2> HIDE DEF T
  <2>3. RenameTo(w, v) \in Seq(T)
    BY <2>1, <2>2, TripleTyped DEF RenameTo
  <2>. QED BY <1>5, <2>3
<1>6. CASE m = DeleteWorkspace(w)
  <2>1. /\ Of("refuse if live", w) \in T /\ Of("stop workspace", w) \in T /\ Of("remove members", w) \in T
        /\ Of("drop folder", w) \in T /\ Of("release", w) \in T /\ Of("refresh", w) \in T
    BY <1>2 DEF MainDos, ProjectDos
  <2> HIDE DEF T
  <2>2. DeleteWorkspace(w) \in Seq(T)
    BY <2>1, SixStepsTyped DEF DeleteWorkspace
  <2>. QED BY <1>6, <2>2 DEF T
<1>7. CASE there /\ m = DeleteProject(p, w)
  BY <1>0, <1>7, DeleteProjectTyped
<1>8. CASE m = DeleteAll
  BY <1>8, AllListedTyped
<1>9. CASE m = StopAll
  <2>1. SharedDos \subseteq MainDos
    BY DEF SharedDos, MainDos
  <2>. QED BY <1>9, <2>1, AllListedTyped, WiderSteps
<1>10. CASE there /\ (m = <<Step("start project", p, w)>> \/ m = <<Step("stop project", p, w)>>)
  <2>1. Step("start project", p, w) \in T /\ Step("stop project", p, w) \in T
    BY <1>0, <1>10, StepTyped DEF MainDos, PlacedDos
  <2> HIDE DEF T
  <2>2. <<Step("start project", p, w)>> \in Seq(T) /\ <<Step("stop project", p, w)>> \in Seq(T)
    BY <2>1, OneStepTyped
  <2>. QED BY <1>10, <2>2 DEF T
<1>11. CASE m = <<Of("deploy", w)>>
  <2>1. Of("deploy", w) \in T
    BY <1>2 DEF MainDos, ProjectDos
  <2> HIDE DEF T
  <2>2. <<Of("deploy", w)>> \in Seq(T)
    BY <2>1, OneStepTyped
  <2>. QED BY <1>11, <2>2 DEF T
<1> HIDE DEF there
<1>. QED BY <1>1, <1>3, <1>4, <1>5, <1>6, <1>7, <1>8, <1>9, <1>10, <1>11

LEMMA CallTyped ==
    ASSUME WorkspacesTyped, NEW call, NEW p \in Projects \cup {NoProject}, NEW w \in Names, Call(call, p, w)
    PROVE  WorkspacesTyped'
<1>0. StoresTyped /\ RuntimeTyped /\ TodoTyped
  BY DEF WorkspacesTyped
<1>1. PICK m \in Asked(call, p, w) : todo' = [todo EXCEPT ![Main] = m \o <<Of("dashboard", w)>>]
  BY DEF Call
<1>2. UNCHANGED <<stores, runtime, deployed>>
  BY DEF Call
<1>3. m \in Seq(StepsOf(MainDos))
  BY <1>0, AskedTyped
<1>4. <<Of("dashboard", w)>> \in Seq(StepsOf(MainDos))
  BY OfTyped, OneStepTyped DEF MainDos, ProjectDos, PlacedDos
<1>5. m \o <<Of("dashboard", w)>> \in Seq(StepsOf(MainDos))
  BY <1>3, <1>4, Joined
<1>6. Main \in Threads /\ DosOf(Main) = MainDos
  BY DEF Threads, DosOf
<1>7. TodoTyped'
  BY <1>0, <1>1, <1>5, <1>6, TodoBecomes
<1>8. StoresTyped' /\ RuntimeTyped'
  BY <1>0, <1>2, StoresStay, RuntimeStays DEF runtime
<1>. QED BY <1>7, <1>8 DEF WorkspacesTyped

LEMMA FleetIs == Fleet \in Threads /\ DosOf(Fleet) = FleetDos
  BY HistoryAssumption DEF Threads, DosOf

LEMMA FleetCallTyped ==
    ASSUME WorkspacesTyped, NEW call, NEW m \in Seq(StepsOf(FleetDos)), FleetCall(call, m)
    PROVE  WorkspacesTyped'
<1>0. StoresTyped /\ RuntimeTyped /\ TodoTyped
  BY DEF WorkspacesTyped
<1>1. todo' = [todo EXCEPT ![Fleet] = m] /\ UNCHANGED <<stores, residents, handles, snaps, deployed>>
  BY DEF FleetCall
<1>2. TodoTyped'
  BY <1>0, <1>1, FleetIs, TodoBecomes
<1>3. StoresTyped' /\ RuntimeTyped'
  BY <1>0, <1>1, StoresStay, RuntimeStays
<1>. QED BY <1>2, <1>3 DEF WorkspacesTyped

LEMMA FleetCallsTyped ==
    ASSUME StoresTyped
    PROVE  /\ StartAll \in Seq(StepsOf(FleetDos))
           /\ ReloadAll \in Seq(StepsOf(FleetDos))
           /\ \A w \in Names : <<Of("toggle", w)>> \in Seq(StepsOf(FleetDos))
           /\ <<Of("restore", Nowhere)>> \in Seq(StepsOf(FleetDos))
<1> DEFINE T == StepsOf(FleetDos)
<1>1. \A do \in FleetDos \ ProjectDos, w \in Names \cup {Nowhere} : Of(do, w) \in T
  BY OfTyped DEF FleetDos, ProjectDos, PlacedDos
<1>2. /\ Of("start all", Nowhere) \in T /\ Of("dashboard", Nowhere) \in T /\ Of("await settled", Nowhere) \in T
      /\ Of("restore", Nowhere) \in T /\ \A w \in Names : Of("toggle", w) \in T
  BY <1>1 DEF FleetDos, ProjectDos
<1>3. SharedDos \subseteq FleetDos
  BY DEF SharedDos, FleetDos
<1>4. StopAll \in Seq(T)
  BY <1>3, AllListedTyped, WiderSteps
<1> HIDE DEF T
<1>5. StartAll \in Seq(T)
  BY <1>2, TwoStepsTyped DEF StartAll
<1>6. <<Of("dashboard", Nowhere), Of("await settled", Nowhere)>> \in Seq(T)
  BY <1>2, TwoStepsTyped
<1>7. StopAll \o <<Of("dashboard", Nowhere), Of("await settled", Nowhere)>> \in Seq(T)
  BY <1>4, <1>6, Joined
<1>8. ReloadAll \in Seq(T)
  BY <1>5, <1>7, Joined DEF ReloadAll
<1>9. <<Of("restore", Nowhere)>> \in Seq(T) /\ \A w \in Names : <<Of("toggle", w)>> \in Seq(T)
  BY <1>2, OneStepTyped
<1>. QED BY <1>5, <1>8, <1>9 DEF T

LEMMA RestartTyped ==
    ASSUME WorkspacesTyped, StudioRestart
    PROVE  WorkspacesTyped'
<1>0. StoresTyped /\ RuntimeTyped /\ TodoTyped
  BY DEF WorkspacesTyped
<1>1. /\ handles' = [w \in Names |-> NoHandle]
      /\ todo' = [t \in Threads |-> IF t = Fleet /\ "restore" \in plan.menu
                                    THEN <<Of("restore", Nowhere)>> ELSE <<>>]
      /\ UNCHANGED <<stores, residents, snaps, deployed>>
  BY DEF StudioRestart
<1>2. <<Of("restore", Nowhere)>> \in Seq(StepsOf(DosOf(Fleet)))
  BY <1>0, FleetIs, FleetCallsTyped
<1>3. \A t \in Threads : todo'[t] \in Seq(StepsOf(DosOf(t)))
  BY <1>1, <1>2
<1>4. TodoTyped'
  BY <1>1, <1>3 DEF TodoTyped
<1>5. RuntimeTyped'
  BY <1>0, <1>1, NoHandleTyped DEF RuntimeTyped, HandlesTyped
<1>6. StoresTyped'
  BY <1>0, <1>1, StoresStay
<1>. QED BY <1>4, <1>5, <1>6 DEF WorkspacesTyped

LEMMA WorkspacesTypedNext == WorkspacesTyped /\ [WorkspacesNext]_wsVars => WorkspacesTyped'
<1> SUFFICES ASSUME WorkspacesTyped, [WorkspacesNext]_wsVars PROVE WorkspacesTyped'
  OBVIOUS
<1>0. StoresTyped /\ RuntimeTyped /\ TodoTyped
  BY DEF WorkspacesTyped
<1>1. ASSUME NEW call, NEW p \in Projects \cup {NoProject}, NEW w \in Names, Call(call, p, w)
      PROVE  WorkspacesTyped'
  BY <1>1, CallTyped
<1>2. CASE FleetCall("start all", StartAll) \/ FleetCall("reload all", ReloadAll)
  BY <1>0, <1>2, FleetCallsTyped, FleetCallTyped
<1>3. ASSUME NEW w \in Used, FleetCall("toggle", <<Of("toggle", w)>>)
      PROVE  WorkspacesTyped'
  BY <1>0, <1>3, UsedNames, FleetCallsTyped, FleetCallTyped
<1>4. CASE StudioRestart
  BY <1>4, RestartTyped
<1>5. ASSUME NEW q \in Ports, Import(q) PROVE WorkspacesTyped'
  BY <1>0, <1>5, StoresStay, RuntimeStays, SameTodoTyped DEF Import, WorkspacesTyped
<1>6. ASSUME NEW t \in Threads, StepOf(t) PROVE WorkspacesTyped'
  BY <1>6, StoreStepsTyped, ResolveTyped, RuntimeStepsTyped, PollStepsTyped, DeployStepsTyped, ListMembersTyped,
     DropIfEmptyTyped, WriteAllTyped, AwaitImportTyped, RestoreTyped, ProjectStepsTyped,
     ToggleTyped, Zenon DEF StepOf
<1>7. CASE UNCHANGED wsVars
  BY <1>0, <1>7, StoresStay, RuntimeStays, SameTodoTyped DEF wsVars, WorkspacesTyped, runtime
<1>. QED BY <1>1, <1>2, <1>3, <1>4, <1>5, <1>6, <1>7 DEF WorkspacesNext

\* projects.json, workspace.json, the handles, the status records and what the
\* clients have hold what their readers expect, after every step of every
\* command (config.rs, manager_service.rs, runtime_manager.rs).
THEOREM WorkspacesTypeCorrect == WorkspacesSpec => []WorkspacesTypeOK
<1>1. WorkspacesInit => WorkspacesTyped
  BY TypedAtFirst
<1>2. WorkspacesTyped /\ [WorkspacesNext]_wsVars => WorkspacesTyped'
  BY WorkspacesTypedNext
<1>3. WorkspacesTyped => WorkspacesTypeOK
  BY TypedIsOK
<1>. QED BY <1>1, <1>2, <1>3, PTL DEF WorkspacesSpec

-----------------------------------------------------------------------------
(* Files and endpoints while a command runs.  Between two commands of the  *)
(* window the file of a workspace lists members only (or nobody is left in *)
(* it) and clients have the workspace's port.  A command breaks that and   *)
(* mends it with later steps, so the invariant says, of what is still to   *)
(* do: a step that may break something has the mending step behind it.     *)

\* Steps that only come first in a command; that change a project's workspace;
\* after which clients may have an endpoint that is no longer told.
Opening == {"register", "move", "rename", "refuse if live"}
Moving == {"register", "move", "rename"}
Breaking == {"rename", "release", "drop if empty"}

\* What is still to be done, `m`, writes the file of `w`, forgets `p`, forgets
\* everybody in `w`.
Writes(m, w) == \E i \in 1..Len(m) : m[i].do = "json" /\ m[i].w = w
Forgets(m, p) == \E i \in 1..Len(m) : m[i].do = "forget" /\ m[i].p = p
Doomed(m, w) == \A p \in Members(w) : Forgets(m, p)

\* The file of `w` lists members only; so does every file that somebody reads;
\* no client has a port that its workspace has not.
Clean(w) == json[w].listed \subseteq Members(w)
Tidy == \A w \in Names : Clean(w) \/ Members(w) = {}
Reached == \A w \in Names : deployed[w] # NoPort => deployed[w] = entries[w]

\* An opening step is the next one, and finds everything in order.
OpensFirst(m) == \A i \in 1..Len(m) : m[i].do \in Opening => i = 1 /\ Tidy /\ Reached

\* After a step that takes an endpoint away the clients are told.
RefreshFollows(m) ==
    \A i \in 1..Len(m) : m[i].do \in Breaking => \E j \in 1..Len(m) : j > i /\ m[j].do = "refresh"

\* The files of the workspace that is left and of the one that is entered are
\* written, in a command that forgets nobody.
MovesFit(m) ==
    \A i \in 1..Len(m) : m[i].do \in Moving =>
        /\ Writes(m, m[i].to)
        /\ m[i].do # "rename" => m[i].to = m[i].w
        /\ m[i].do = "move" => registered[m[i].p] \in {m[i].w, Nowhere} \/ Writes(m, registered[m[i].p])
        /\ \A j \in 1..Len(m) : m[j].do \notin {"forget", "remove members"}

\* The file of the workspace is written after the project is forgotten, or all
\* its members are forgotten.
ForgetFits(m, i) ==
    LET w == registered[m[i].p] IN
    /\ w # Nowhere
    /\ \A j \in 1..Len(m) : m[j].do = "forget" /\ m[j].p = m[i].p => i = j
    /\ Doomed(m, w) \/ \E j \in 1..Len(m) : j > i /\ m[j].do = "json" /\ m[j].w = w

ForgetsFit(m) == \A i \in 1..Len(m) : m[i].do = "forget" => ForgetFits(m, i)

\* Members are listed once, and nobody is forgotten by a step of its own then.
ListsOnce(m) ==
    \A i, j \in 1..Len(m) : m[i].do = "remove members" /\ m[j].do \in {"forget", "remove members"} => i = j

\* What is not in order now will be.
FilesFollow(m) == \A w \in Names : Clean(w) \/ Writes(m, w) \/ Doomed(m, w)

EndpointsFollow(m) == Reached \/ \E i \in 1..Len(m) : m[i].do = "refresh"

\* What is to be done is in a good order; with files and endpoints in order, or
\* to be put in order, by it.
Ordered(m) == OpensFirst(m) /\ RefreshFollows(m) /\ MovesFit(m) /\ ForgetsFit(m) /\ ListsOnce(m)
Fits(m) == Ordered(m) /\ FilesFollow(m) /\ EndpointsFollow(m)
MainFits == \E m \in {todo[Main]} : Fits(m)

\* `n` is `m` without its first step, after `k` others.
Same(a, b) == a.do = b.do /\ a.p = b.p /\ a.w = b.w /\ a.to = b.to
Follows(m, n, k) ==
    /\ k \in Nat /\ Len(m) \in Nat \ {0} /\ Len(n) = k + (Len(m) - 1)
    /\ \A i \in (k + 1)..Len(n) : Same(n[i], m[i + 1 - k])

LEMMA FollowsBack ==
    ASSUME NEW m, NEW n, NEW k, Follows(m, n, k)
    PROVE  /\ \A i \in (k + 1)..Len(n) : i + 1 - k \in 2..Len(m) /\ Same(n[i], m[i + 1 - k])
           /\ \A j \in 2..Len(m) : /\ j - 1 + k \in (k + 1)..Len(n) /\ Same(n[j - 1 + k], m[j])
                                   /\ j - 1 + k \in 1..Len(n)
<1>1. k \in Nat /\ Len(m) \in Nat \ {0} /\ Len(n) = k + (Len(m) - 1) /\ Len(n) \in Nat
  BY DEF Follows
<1>2. \A i \in (k + 1)..Len(n) : Same(n[i], m[i + 1 - k])
  BY DEF Follows
<1>3. ASSUME NEW i \in (k + 1)..Len(n) PROVE i + 1 - k \in 2..Len(m)
  BY <1>1, <1>3
<1>4. ASSUME NEW j \in 2..Len(m)
      PROVE  /\ j - 1 + k \in (k + 1)..Len(n) /\ Same(n[j - 1 + k], m[j])
             /\ j - 1 + k \in 1..Len(n)
  <2>1. j - 1 + k \in (k + 1)..Len(n) /\ (j - 1 + k) + 1 - k = j
    BY <1>1
  <2>2. Same(n[j - 1 + k], m[(j - 1 + k) + 1 - k])
    BY <1>2, <2>1
  <2>. QED BY <1>1, <2>1, <2>2
<1>. QED BY <1>2, <1>3, <1>4

LEMMA SpliceFollows ==
    ASSUME NEW T, NEW m \in Seq(T), m # <<>>, NEW b \in Seq(T)
    PROVE  /\ Follows(m, b \o Tail(m), Len(b))
           /\ \A i \in 1..Len(b) : (b \o Tail(m))[i] = b[i]
<1> DEFINE c == Tail(m)
           n == b \o c
<1>1. c \in Seq(T) /\ Len(m) \in Nat \ {0} /\ Len(c) = Len(m) - 1 /\ \A i \in 1..Len(c) : c[i] = m[i + 1]
  BY HeadTailProperties
<1> HIDE DEF c
<1>2. /\ n \in Seq(T) /\ Len(n) = Len(b) + Len(c)
      /\ \A i \in 1..Len(b) : n[i] = b[i]
      /\ \A i \in 1..Len(c) : n[Len(b) + i] = c[i]
  <2>1. c \in Seq(T)
    BY <1>1
  <2>2. /\ b \o c \in Seq(T) /\ Len(b \o c) = Len(b) + Len(c)
        /\ \A i \in 1..Len(b) : (b \o c)[i] = b[i]
        /\ \A i \in 1..Len(c) : (b \o c)[Len(b) + i] = c[i]
    BY <2>1, Joined
  <2>3. n = b \o c
    OBVIOUS
  <2> HIDE DEF n
  <2>. QED BY <2>2, <2>3, Zenon
<1> HIDE DEF n
<1>3. Len(b) \in Nat
  OBVIOUS
<1>4. ASSUME NEW i \in (Len(b) + 1)..Len(n) PROVE Same(n[i], m[i + 1 - Len(b)])
  <2>1. i - Len(b) \in 1..Len(c) /\ Len(b) + (i - Len(b)) = i /\ (i - Len(b)) + 1 = i + 1 - Len(b)
    BY <1>1, <1>2, <1>3
  <2>2. n[i] = c[i - Len(b)] /\ c[i - Len(b)] = m[i + 1 - Len(b)]
    BY <1>1, <1>2, <2>1
  <2>. QED BY <2>2 DEF Same
<1>5. Follows(m, n, Len(b))
  BY <1>1, <1>2, <1>3, <1>4 DEF Follows
<1>. QED BY <1>2, <1>5 DEF n, c

LEMMA TailFollows ==
    ASSUME NEW T, NEW m \in Seq(T), m # <<>>
    PROVE  Follows(m, Tail(m), 0)
<1> DEFINE n == Tail(m)
<1>1. n \in Seq(T) /\ Len(m) \in Nat \ {0} /\ Len(n) = Len(m) - 1 /\ \A i \in 1..Len(n) : n[i] = m[i + 1]
  BY HeadTailProperties
<1> HIDE DEF n
<1>2. \A i \in (0 + 1)..Len(n) : Same(n[i], m[i + 1 - 0])
  BY <1>1 DEF Same
<1>3. Follows(m, n, 0)
  BY <1>1, <1>2 DEF Follows
<1>. QED BY <1>3 DEF n

-----------------------------------------------------------------------------
(* A step of the window that changes no project's workspace. *)

\* The next step of the window's thread is not one that changes who belongs
\* where, and the steps put before the rest are harmless.
Harmless(m, n, k) ==
    /\ m[1].do \notin Moving \cup {"forget", "remove members"}
    /\ \A i \in 1..k : /\ n[i].do \notin Opening \cup {"forget", "remove members"}
                       /\ n[i].do \in Breaking => m[1].do \in Breaking

LEMMA MovingOpens == Moving \subseteq Opening
  BY DEF Moving, Opening

LEMMA SpliceNumbers ==
    ASSUME NEW m, NEW n, NEW k, Follows(m, n, k)
    PROVE  /\ k \in Nat /\ Len(m) \in Nat \ {0} /\ Len(n) \in Nat
           /\ 1 \in 1..Len(m)
           /\ \A i \in 1..Len(n) : i \in 1..k \/ i \in (k + 1)..Len(n)
           /\ \A i \in 1..Len(m) : i = 1 \/ i \in 2..Len(m)
           /\ \A i \in 1..k : i \in 1..Len(n)
           /\ \A i \in 2..Len(m) : i \in 1..Len(m) /\ i # 1
  BY DEF Follows

\* A workspace whose file is still written, but for a first step that writes it.
LEMMA WritesFollow ==
    ASSUME NEW m, NEW n, NEW k, Follows(m, n, k), NEW w, Writes(m, w)
    PROVE  Writes(n, w) \/ (m[1].do = "json" /\ m[1].w = w)
<1>1. PICK i \in 1..Len(m) : m[i].do = "json" /\ m[i].w = w
  BY DEF Writes
<1>2. CASE i = 1
  BY <1>1, <1>2
<1>3. CASE i # 1
  <2>1. i \in 2..Len(m)
    BY <1>3, SpliceNumbers
  <2>2. Same(n[i - 1 + k], m[i]) /\ i - 1 + k \in 1..Len(n)
    BY <2>1, FollowsBack
  <2>. QED BY <1>1, <2>2 DEF Same, Writes
<1>. QED BY <1>2, <1>3

\* A project that is still forgotten, but for a first step that forgets it.
LEMMA ForgetsFollow ==
    ASSUME NEW m, NEW n, NEW k, Follows(m, n, k), NEW p, Forgets(m, p)
    PROVE  Forgets(n, p) \/ (m[1].do = "forget" /\ m[1].p = p)
<1>1. PICK i \in 1..Len(m) : m[i].do = "forget" /\ m[i].p = p
  BY DEF Forgets
<1>2. CASE i = 1
  BY <1>1, <1>2
<1>3. CASE i # 1
  <2>1. i \in 2..Len(m)
    BY <1>3, SpliceNumbers
  <2>2. Same(n[i - 1 + k], m[i]) /\ i - 1 + k \in 1..Len(n)
    BY <2>1, FollowsBack
  <2>. QED BY <1>1, <2>2 DEF Same, Forgets
<1>. QED BY <1>2, <1>3

\* Once a command has begun, no step of it opens one.
LEMMA NothingOpens ==
    ASSUME NEW m, NEW n, NEW k, Follows(m, n, k), OpensFirst(m),
           \A i \in 1..k : n[i].do \notin Opening
    PROVE  \A i \in 1..Len(n) : n[i].do \notin Opening /\ n[i].do \notin Moving
<1> SUFFICES ASSUME NEW i \in 1..Len(n) PROVE n[i].do \notin Opening
  BY MovingOpens
<1>1. CASE i \in 1..k
  BY <1>1
<1>2. CASE i \in (k + 1)..Len(n)
  <2>1. i + 1 - k \in 2..Len(m) /\ Same(n[i], m[i + 1 - k])
    BY <1>2, FollowsBack
  <2>2. i + 1 - k \in 1..Len(m) /\ i + 1 - k # 1
    BY <2>1, SpliceNumbers
  <2>3. m[i + 1 - k].do \notin Opening
    BY <2>2 DEF OpensFirst
  <2>. QED BY <2>1, <2>3 DEF Same
<1>. QED BY <1>1, <1>2, SpliceNumbers

LEMMA RefreshStillFollows ==
    ASSUME NEW m, NEW n, NEW k, Follows(m, n, k), RefreshFollows(m),
           \A i \in 1..k : n[i].do \in Breaking => m[1].do \in Breaking
    PROVE  /\ RefreshFollows(n)
           /\ m[1].do \in Breaking => \E j \in 1..Len(n) : n[j].do = "refresh"
<1>1. ASSUME NEW h \in 1..Len(m), m[h].do \in Breaking
      PROVE  \E j \in 2..Len(m) : j > h /\ m[j].do = "refresh"
  <2>1. PICK j \in 1..Len(m) : j > h /\ m[j].do = "refresh"
    BY <1>1 DEF RefreshFollows
  <2>. QED BY <2>1
<1>2. ASSUME NEW i \in 1..Len(n), n[i].do \in Breaking
      PROVE  \E j \in 1..Len(n) : j > i /\ n[j].do = "refresh"
  <2>1. CASE i \in 1..k
    <3>1. m[1].do \in Breaking /\ 1 \in 1..Len(m)
      BY <1>2, <2>1, SpliceNumbers
    <3>2. PICK j \in 2..Len(m) : m[j].do = "refresh"
      BY <1>1, <3>1
    <3>3. j - 1 + k \in (k + 1)..Len(n) /\ Same(n[j - 1 + k], m[j]) /\ j - 1 + k \in 1..Len(n)
      BY <3>2, FollowsBack
    <3>4. j - 1 + k > i
      BY <2>1, <3>3, SpliceNumbers
    <3>. QED BY <3>2, <3>3, <3>4 DEF Same
  <2>2. CASE i \in (k + 1)..Len(n)
    <3>1. i + 1 - k \in 2..Len(m) /\ Same(n[i], m[i + 1 - k])
      BY <2>2, FollowsBack
    <3>2. i + 1 - k \in 1..Len(m) /\ m[i + 1 - k].do \in Breaking
      BY <1>2, <3>1, SpliceNumbers DEF Same
    <3>3. PICK j \in 2..Len(m) : j > i + 1 - k /\ m[j].do = "refresh"
      BY <1>1, <3>2
    <3>4. Same(n[j - 1 + k], m[j]) /\ j - 1 + k \in 1..Len(n)
      BY <3>3, FollowsBack
    <3>5. j - 1 + k > i
      BY <3>3, SpliceNumbers
    <3>. QED BY <3>3, <3>4, <3>5 DEF Same
  <2>. QED BY <2>1, <2>2, SpliceNumbers
<1>3. ASSUME m[1].do \in Breaking PROVE \E j \in 1..Len(n) : n[j].do = "refresh"
  <2>1. PICK j \in 2..Len(m) : m[j].do = "refresh"
    BY <1>1, <1>3, SpliceNumbers
  <2>2. Same(n[j - 1 + k], m[j]) /\ j - 1 + k \in 1..Len(n)
    BY <2>1, FollowsBack
  <2>. QED BY <2>1, <2>2 DEF Same
<1>. QED BY <1>2, <1>3 DEF RefreshFollows

LEMMA EndpointsStillFollow ==
    ASSUME NEW m, NEW n, NEW k, Follows(m, n, k), RefreshFollows(m), EndpointsFollow(m),
           \A i \in 1..k : n[i].do \in Breaking => m[1].do \in Breaking,
           Reached => Reached' \/ m[1].do \in Breaking,
           m[1].do = "refresh" => Reached'
    PROVE  Reached' \/ \E i \in 1..Len(n) : n[i].do = "refresh"
<1>1. CASE m[1].do \in Breaking
  BY <1>1, RefreshStillFollows
<1>2. CASE m[1].do \notin Breaking /\ ~Reached
  <2>1. PICK i \in 1..Len(m) : m[i].do = "refresh"
    BY <1>2 DEF EndpointsFollow
  <2>2. CASE i = 1
    BY <2>1, <2>2
  <2>3. CASE i # 1
    <3>1. i \in 2..Len(m)
      BY <2>3, SpliceNumbers
    <3>2. Same(n[i - 1 + k], m[i]) /\ i - 1 + k \in 1..Len(n)
      BY <3>1, FollowsBack
    <3>. QED BY <2>1, <3>2 DEF Same
  <2>. QED BY <2>2, <2>3
<1>. QED BY <1>1, <1>2

LEMMA DoomedStays ==
    ASSUME NEW m, NEW n, NEW k, Follows(m, n, k), registered' = registered, m[1].do # "forget",
           NEW w, Doomed(m, w)
    PROVE  Doomed(n, w)'
<1>1. Members(w)' = Members(w)
  BY DEF Members
<1>2. \A p \in Members(w) : Forgets(n, p)
  BY ForgetsFollow DEF Doomed
<1>. QED BY <1>1, <1>2 DEF Doomed

\* Where a forget of the steps that are left comes from.
LEMMA ForgetsShift ==
    ASSUME NEW m, NEW n, NEW k, Follows(m, n, k), NEW dos, \A i \in 1..k : n[i].do \notin dos,
           NEW i \in 1..Len(n), n[i].do \in dos
    PROVE  /\ i \in (k + 1)..Len(n) /\ i + 1 - k \in 2..Len(m) /\ i + 1 - k \in 1..Len(m)
           /\ Same(n[i], m[i + 1 - k])
<1>1. i \in (k + 1)..Len(n)
  BY SpliceNumbers
<1>2. i + 1 - k \in 2..Len(m) /\ Same(n[i], m[i + 1 - k])
  BY <1>1, FollowsBack
<1>. QED BY <1>1, <1>2

LEMMA ForgetsStillFit ==
    ASSUME NEW m, NEW n, NEW k, Follows(m, n, k), ForgetsFit(m), registered' = registered,
           m[1].do # "forget", \A i \in 1..k : n[i].do # "forget"
    PROVE  ForgetsFit(n)'
<1> SUFFICES ASSUME NEW i \in 1..Len(n), n[i].do = "forget" PROVE ForgetFits(n, i)'
  BY DEF ForgetsFit
<1> DEFINE h == i + 1 - k
           w == registered[n[i].p]
<1>1. /\ i \in (k + 1)..Len(n) /\ h \in 2..Len(m) /\ h \in 1..Len(m) /\ Same(n[i], m[h])
  <2>1. \A j \in 1..k : n[j].do \notin {"forget"}
    OBVIOUS
  <2>. QED BY <2>1, ForgetsShift
<1>2. m[h].do = "forget" /\ m[h].p = n[i].p
  BY <1>1 DEF Same
<1>3. ForgetFits(m, h)
  BY <1>1, <1>2 DEF ForgetsFit
<1>4. /\ w # Nowhere
      /\ \A j \in 1..Len(m) : m[j].do = "forget" /\ m[j].p = n[i].p => h = j
      /\ Doomed(m, w) \/ \E j \in 1..Len(m) : j > h /\ m[j].do = "json" /\ m[j].w = w
  BY <1>2, <1>3 DEF ForgetFits
<1>5. ASSUME NEW j \in 1..Len(n), n[j].do = "forget", n[j].p = n[i].p PROVE i = j
  <2>1. /\ j \in (k + 1)..Len(n) /\ j + 1 - k \in 1..Len(m) /\ Same(n[j], m[j + 1 - k])
    <3>1. \A l \in 1..k : n[l].do \notin {"forget"}
      OBVIOUS
    <3>. QED BY <1>5, <3>1, ForgetsShift
  <2>2. h = j + 1 - k
    BY <1>4, <1>5, <2>1 DEF Same
  <2>. QED BY <2>2, SpliceNumbers
<1>6. Doomed(n, w)' \/ \E j \in 1..Len(n) : j > i /\ n[j].do = "json" /\ n[j].w = w
  <2>1. CASE Doomed(m, w)
    BY <2>1, DoomedStays
  <2>2. ASSUME NEW j \in 1..Len(m), j > h, m[j].do = "json", m[j].w = w
        PROVE  \E l \in 1..Len(n) : l > i /\ n[l].do = "json" /\ n[l].w = w
    <3>1. j \in 2..Len(m)
      BY <1>1, <2>2
    <3>2. Same(n[j - 1 + k], m[j]) /\ j - 1 + k \in 1..Len(n)
      BY <3>1, FollowsBack
    <3>3. j - 1 + k > i
      BY <2>2, SpliceNumbers
    <3>. QED BY <2>2, <3>2, <3>3 DEF Same
  <2>. QED BY <1>4, <2>1, <2>2
<1> HIDE DEF h
<1>. QED BY <1>4, <1>5, <1>6 DEF ForgetFits

LEMMA SameShift ==
    ASSUME NEW k \in Nat, NEW l \in Nat, NEW i \in 1..l, NEW j \in 1..l, i + 1 - k = j + 1 - k
    PROVE  i = j
  OBVIOUS

LEMMA ListsStillOnce ==
    ASSUME NEW m, NEW n, NEW k, Follows(m, n, k), ListsOnce(m),
           \A i \in 1..k : n[i].do \notin {"forget", "remove members"}
    PROVE  ListsOnce(n)
<1>1. SUFFICES ASSUME NEW i \in 1..Len(n), NEW j \in 1..Len(n),
                      n[i].do = "remove members", n[j].do \in {"forget", "remove members"}
               PROVE  i = j
  BY DEF ListsOnce
<1>2. i + 1 - k \in 1..Len(m) /\ Same(n[i], m[i + 1 - k])
  BY <1>1, ForgetsShift
<1>3. j + 1 - k \in 1..Len(m) /\ Same(n[j], m[j + 1 - k])
  BY <1>1, ForgetsShift
<1>4. m[i + 1 - k].do = "remove members" /\ m[j + 1 - k].do \in {"forget", "remove members"}
  BY <1>1, <1>2, <1>3 DEF Same
<1>5. i + 1 - k = j + 1 - k
  BY <1>2, <1>3, <1>4 DEF ListsOnce
<1>6. k \in Nat /\ Len(n) \in Nat
  BY SpliceNumbers
<1>. QED BY <1>5, <1>6, SameShift, Zenon

\* A step that changes no project's workspace.
LEMMA FrameFits ==
    ASSUME NEW m, NEW n, NEW k, Follows(m, n, k), Fits(m), Harmless(m, n, k), registered' = registered,
           \A w \in Names : Clean(w) => Clean(w)',
           m[1].do = "json" /\ m[1].w \in Names => Clean(m[1].w)',
           Reached => Reached' \/ m[1].do \in Breaking,
           m[1].do = "refresh" => Reached'
    PROVE  Fits(n)'
<1>1. OpensFirst(m) /\ RefreshFollows(m) /\ MovesFit(m) /\ ForgetsFit(m) /\ ListsOnce(m) /\ FilesFollow(m) /\ EndpointsFollow(m)
  BY DEF Fits, Ordered
<1>2. /\ m[1].do \notin {"forget", "remove members"}
      /\ \A i \in 1..k : n[i].do \notin Opening
      /\ \A i \in 1..k : n[i].do \notin {"forget", "remove members"}
      /\ \A i \in 1..k : n[i].do # "forget"
      /\ \A i \in 1..k : n[i].do \in Breaking => m[1].do \in Breaking
  BY DEF Harmless
<1>3. \A i \in 1..Len(n) : n[i].do \notin Opening /\ n[i].do \notin Moving
  BY <1>1, <1>2, NothingOpens
<1>4. OpensFirst(n)' /\ MovesFit(n)'
  BY <1>3 DEF OpensFirst, MovesFit
<1>5. RefreshFollows(n)
  BY <1>1, <1>2, RefreshStillFollows
<1>6. ForgetsFit(n)'
  BY <1>1, <1>2, ForgetsStillFit
<1>7. ListsOnce(n)
  BY <1>1, <1>2, ListsStillOnce
<1>8. FilesFollow(n)'
  <2>1. ASSUME NEW w \in Names PROVE Clean(w)' \/ Writes(n, w) \/ Doomed(n, w)'
    <3>1. CASE Clean(w)
      BY <3>1
    <3>2. CASE Writes(m, w)
      BY <3>2, WritesFollow
    <3>3. CASE Doomed(m, w)
      BY <1>2, <3>3, DoomedStays
    <3>. QED BY <1>1, <3>1, <3>2, <3>3 DEF FilesFollow
  <2>. QED BY <2>1 DEF FilesFollow, Writes
<1>9. EndpointsFollow(n)'
  BY <1>1, <1>2, EndpointsStillFollow DEF EndpointsFollow
<1>10. RefreshFollows(n)' /\ ListsOnce(n)'
  BY <1>5, <1>7 DEF RefreshFollows, ListsOnce
<1>. QED BY <1>4, <1>6, <1>8, <1>9, <1>10 DEF Fits, Ordered

\* The threads' other steps.
LEMMA OthersFit ==
    ASSUME NEW m, Fits(m), registered' = registered,
           \A w \in Names : Clean(w) => Clean(w)',
           Reached => Reached'
    PROVE  Fits(m)'
<1>1. \A w : Members(w)' = Members(w)
  BY DEF Members
<1>2. \A w : Doomed(m, w) => Doomed(m, w)'
  BY <1>1 DEF Doomed
<1>3. Tidy => Tidy'
  BY <1>1 DEF Tidy
<1>4. OpensFirst(m)'
  BY <1>3 DEF Fits, Ordered, OpensFirst
<1>5. RefreshFollows(m)' /\ ListsOnce(m)'
  BY DEF Fits, Ordered, RefreshFollows, ListsOnce
<1>6. MovesFit(m)'
  BY DEF Fits, Ordered, MovesFit, Writes
<1>7. ForgetsFit(m)'
  BY <1>2 DEF Fits, Ordered, ForgetsFit, ForgetFits
<1>8. FilesFollow(m)'
  BY <1>2 DEF Fits, FilesFollow, Writes
<1>9. EndpointsFollow(m)'
  BY DEF Fits, EndpointsFollow
<1>. QED BY <1>4, <1>5, <1>6, <1>7, <1>8, <1>9 DEF Fits, Ordered

-----------------------------------------------------------------------------
(* Steps that change who belongs where. *)

LEMMA Elements ==
    ASSUME NEW T, NEW b \in Seq(T)
    PROVE  Len(b) \in Nat /\ \A i \in 1..Len(b) : b[i] \in T
  OBVIOUS

LEMMA NothingLeft ==
    ASSUME NEW m, Len(m) = 0, Tidy', Reached'
    PROVE  Fits(m)'
<1>1. \A i \in 1..Len(m) : FALSE
  OBVIOUS
<1>2. OpensFirst(m)' /\ RefreshFollows(m)' /\ MovesFit(m)' /\ ForgetsFit(m)' /\ ListsOnce(m)'
  BY <1>1 DEF OpensFirst, RefreshFollows, MovesFit, ForgetsFit, ListsOnce
<1>3. FilesFollow(m)'
  BY DEF FilesFollow, Tidy, Doomed
<1>4. EndpointsFollow(m)'
  BY DEF EndpointsFollow
<1>. QED BY <1>2, <1>3, <1>4 DEF Fits, Ordered

\* A project is registered or moved, or a workspace renamed.
LEMMA MovedFits ==
    ASSUME NEW m, NEW n, Follows(m, n, 0), Fits(m), m[1].do \in Moving, json' = json,
           \A v \in Names : Members(v)' = Members(v) \/ Members(v)' = {} \/ Writes(m, v),
           Reached' \/ m[1].do \in Breaking
    PROVE  Fits(n)'
<1>1. OpensFirst(m) /\ RefreshFollows(m) /\ MovesFit(m) /\ ForgetsFit(m) /\ ListsOnce(m) /\ FilesFollow(m) /\ EndpointsFollow(m)
  BY DEF Fits, Ordered
<1>2. 1 \in 1..Len(m)
  BY SpliceNumbers
<1>3. Tidy /\ Reached
  BY <1>1, <1>2, MovingOpens DEF OpensFirst
<1>4. \A i \in 1..0 : FALSE
  OBVIOUS
<1>5. \A i \in 1..Len(n) : n[i].do \notin Opening /\ n[i].do \notin Moving
  BY <1>1, <1>4, NothingOpens
<1>6. OpensFirst(n)' /\ MovesFit(n)'
  BY <1>5 DEF OpensFirst, MovesFit
<1>7. RefreshFollows(n) /\ (m[1].do \in Breaking => \E j \in 1..Len(n) : n[j].do = "refresh")
  BY <1>1, <1>4, RefreshStillFollows
<1>8. \A j \in 1..Len(m) : m[j].do \notin {"forget", "remove members"}
  BY <1>1, <1>2 DEF MovesFit
<1>9. \A i \in 1..Len(n) : n[i].do \notin {"forget", "remove members"}
  <2>1. ASSUME NEW i \in 1..Len(n) PROVE n[i].do \notin {"forget", "remove members"}
    <3>1. i \in (0 + 1)..Len(n)
      BY SpliceNumbers
    <3>2. i + 1 - 0 \in 2..Len(m) /\ Same(n[i], m[i + 1 - 0])
      BY <3>1, FollowsBack
    <3>3. i + 1 - 0 \in 1..Len(m)
      BY <3>2, SpliceNumbers
    <3>. QED BY <1>8, <3>2, <3>3 DEF Same
  <2>. QED BY <2>1
<1>10. ForgetsFit(n)' /\ ListsOnce(n)'
  BY <1>9 DEF ForgetsFit, ListsOnce
<1>11. FilesFollow(n)'
  <2>1. ASSUME NEW v \in Names PROVE Clean(v)' \/ Writes(n, v) \/ Members(v)' = {}
    <3>1. CASE Members(v)' = Members(v)
      BY <1>3, <3>1 DEF Tidy, Clean
    <3>2. CASE Writes(m, v)
      <4>1. m[1].do # "json"
        BY DEF Moving
      <4>. QED BY <3>2, <4>1, WritesFollow
    <3>. QED BY <3>1, <3>2
  <2>. QED BY <2>1 DEF FilesFollow, Writes, Doomed
<1>12. EndpointsFollow(n)'
  BY <1>7 DEF EndpointsFollow
<1>13. RefreshFollows(n)'
  BY <1>7 DEF RefreshFollows
<1>. QED BY <1>6, <1>10, <1>11, <1>12, <1>13 DEF Fits, Ordered

\* A project is forgotten.
LEMMA ForgottenFits ==
    ASSUME NEW m, NEW n, Follows(m, n, 0), Fits(m), m[1].do = "forget",
           StoresTyped, m[1].p \in Projects, registered' = [registered EXCEPT ![m[1].p] = Nowhere],
           UNCHANGED <<json, entries, deployed>>
    PROVE  Fits(n)'
<1> DEFINE p == m[1].p
           u == registered[p]
<1>1. OpensFirst(m) /\ RefreshFollows(m) /\ MovesFit(m) /\ ForgetsFit(m) /\ ListsOnce(m) /\ FilesFollow(m) /\ EndpointsFollow(m)
  BY DEF Fits, Ordered
<1>2. 1 \in 1..Len(m) /\ Len(m) \in Nat /\ Len(n) \in Nat
  BY SpliceNumbers
<1>3. \A i \in 1..0 : FALSE
  OBVIOUS
<1>4. OpensFirst(n)' /\ MovesFit(n)'
  <2>1. \A i \in 1..Len(n) : n[i].do \notin Opening /\ n[i].do \notin Moving
    BY <1>1, <1>3, NothingOpens
  <2>. QED BY <2>1 DEF OpensFirst, MovesFit
<1>5. RefreshFollows(n)
  BY <1>1, <1>3, RefreshStillFollows
<1>6. ListsOnce(n)
  BY <1>1, <1>3, ListsStillOnce
<1>7. /\ u # Nowhere
      /\ \A j \in 1..Len(m) : m[j].do = "forget" /\ m[j].p = p => 1 = j
      /\ Doomed(m, u) \/ \E j \in 1..Len(m) : j > 1 /\ m[j].do = "json" /\ m[j].w = u
  BY <1>1, <1>2 DEF ForgetsFit, ForgetFits
<1>8. /\ \A q \in Projects : q # p => registered'[q] = registered[q]
      /\ \A w : w # Nowhere => Members(w)' = Members(w) \ {p}
      /\ \A w \in Names : w # u => Members(w)' = Members(w)
  BY NowhereAssumption DEF StoresTyped, Members
<1>9. ASSUME NEW w, w # Nowhere, Doomed(m, w) PROVE Doomed(n, w)'
  <2>1. ASSUME NEW q \in Members(w), q # p PROVE Forgets(n, q)
    <3>1. Forgets(m, q)
      BY <1>9, <2>1 DEF Doomed
    <3>. QED BY <2>1, <3>1, ForgetsFollow
  <2>. QED BY <1>8, <1>9, <2>1 DEF Doomed
<1>10. ASSUME NEW i \in 1..Len(n), n[i].do = "forget" PROVE ForgetFits(n, i)'
  <2> DEFINE q == n[i].p
             h == i + 1 - 0
  <2>0. PICK w : w = registered[q]
    OBVIOUS
  <2>1. h \in 2..Len(m) /\ h \in 1..Len(m) /\ Same(n[i], m[h])
    <3>1. i \in (0 + 1)..Len(n)
      BY SpliceNumbers
    <3>2. h \in 2..Len(m) /\ Same(n[i], m[h])
      BY <3>1, FollowsBack
    <3>. QED BY <1>2, <3>2
  <2>2. m[h].do = "forget" /\ m[h].p = q
    BY <1>10, <2>1 DEF Same
  <2>3. ForgetFits(m, h)
    BY <1>1, <2>1, <2>2 DEF ForgetsFit
  <2>4. /\ w # Nowhere
        /\ \A j \in 1..Len(m) : m[j].do = "forget" /\ m[j].p = q => h = j
        /\ Doomed(m, w) \/ \E j \in 1..Len(m) : j > h /\ m[j].do = "json" /\ m[j].w = w
    BY <2>0, <2>2, <2>3 DEF ForgetFits
  <2>5. q # p
    <3>1. m[h].do = "forget" /\ m[h].p = q /\ h # 1
      BY <2>1, <2>2
    <3>. QED BY <1>7, <2>1, <3>1
  <2>6. registered'[q] = w
    BY <2>0, <2>5 DEF StoresTyped
  <2>7. ASSUME NEW j \in 1..Len(n), n[j].do = "forget", n[j].p = q PROVE i = j
    <3>1. j \in (0 + 1)..Len(n)
      BY SpliceNumbers
    <3>2. j + 1 - 0 \in 2..Len(m) /\ Same(n[j], m[j + 1 - 0])
      BY <3>1, FollowsBack
    <3>3. j + 1 - 0 \in 1..Len(m)
      BY <1>2, <3>2
    <3>4. h = j + 1 - 0
      BY <2>4, <2>7, <3>2, <3>3 DEF Same
    <3>. QED BY <1>2, <3>4
  <2>8. Doomed(n, w)' \/ \E j \in 1..Len(n) : j > i /\ n[j].do = "json" /\ n[j].w = w
    <3>1. CASE Doomed(m, w)
      BY <1>9, <2>4, <3>1
    <3>2. ASSUME NEW j \in 1..Len(m), j > h, m[j].do = "json", m[j].w = w
          PROVE  \E l \in 1..Len(n) : l > i /\ n[l].do = "json" /\ n[l].w = w
      <4>1. j \in 2..Len(m)
        BY <1>2, <2>1, <3>2
      <4>2. Same(n[j - 1 + 0], m[j]) /\ j - 1 + 0 \in 1..Len(n)
        BY <4>1, FollowsBack
      <4>3. j - 1 + 0 > i
        BY <1>2, <3>2
      <4>. QED BY <3>2, <4>2, <4>3 DEF Same
    <3>. QED BY <2>4, <3>1, <3>2
  <2> HIDE DEF h
  <2>9. /\ registered'[n[i].p] # Nowhere
        /\ \A j \in 1..Len(n) : n[j].do = "forget" /\ n[j].p = n[i].p => i = j
        /\ Doomed(n, registered[n[i].p])' \/ \E j \in 1..Len(n) : j > i /\ n[j].do = "json" /\ n[j].w = registered'[n[i].p]
    BY <2>4, <2>6, <2>7, <2>8
  <2>. QED BY <2>9 DEF ForgetFits
<1>11. ForgetsFit(n)'
  BY <1>10 DEF ForgetsFit
<1>12. FilesFollow(n)'
  <2>1. ASSUME NEW w \in Names PROVE Clean(w)' \/ Writes(n, w) \/ Doomed(n, w)'
    <3>1. CASE Clean(w) /\ w # u
      BY <1>8, <3>1 DEF Clean
    <3>2. CASE Writes(m, w)
      BY <3>2, WritesFollow
    <3>3. CASE Doomed(m, w)
      BY <1>9, <3>3, NowhereAssumption
    <3>4. CASE w = u
      <4>1. Doomed(m, w) \/ Writes(m, w)
        BY <1>7, <3>4 DEF Writes
      <4>. QED BY <3>2, <3>3, <4>1
    <3>. QED BY <1>1, <3>1, <3>2, <3>3, <3>4 DEF FilesFollow
  <2>. QED BY <2>1 DEF FilesFollow, Writes
<1>13. EndpointsFollow(n)'
  <2>1. Reached => Reached'
    BY DEF Reached
  <2>. QED BY <1>1, <1>3, <2>1, EndpointsStillFollow DEF EndpointsFollow
<1>14. RefreshFollows(n)' /\ ListsOnce(n)'
  BY <1>5, <1>6 DEF RefreshFollows, ListsOnce
<1>. QED BY <1>4, <1>11, <1>12, <1>13, <1>14 DEF Fits, Ordered

\* The members of a workspace are read, each to be forgotten.
LEMMA ListedFits ==
    ASSUME NEW m, NEW n, NEW b, Follows(m, n, Len(b)), \A i \in 1..Len(b) : n[i] = b[i],
           Fits(m), m[1].do = "remove members", m[1].w \in Names, RemovesEach(b, Members(m[1].w)),
           UNCHANGED <<registered, json, entries, deployed>>
    PROVE  Fits(n)'
<1> DEFINE w == m[1].w
           k == Len(b)
<1>1. OpensFirst(m) /\ RefreshFollows(m) /\ MovesFit(m) /\ ForgetsFit(m) /\ ListsOnce(m) /\ FilesFollow(m) /\ EndpointsFollow(m)
  BY DEF Fits, Ordered
<1>2. 1 \in 1..Len(m) /\ Len(m) \in Nat /\ Len(n) \in Nat /\ k \in Nat
  BY SpliceNumbers
<1>3. \A i \in 1..k : n[i].do \in {"remove", "forget"}
  <2>1. \A s \in StepsOf({"remove", "forget"}) : s.do \in {"remove", "forget"}
    BY DEF StepsOf
  <2>2. b \in Seq(StepsOf({"remove", "forget"}))
    BY DEF RemovesEach
  <2>3. \A i \in 1..k : b[i] \in StepsOf({"remove", "forget"})
    BY <2>2, Elements
  <2>. QED BY <2>1, <2>3
<1>4. \A j \in 2..Len(m) : m[j].do \notin {"forget", "remove members"}
  <2>1. SUFFICES ASSUME NEW j \in 2..Len(m), m[j].do \in {"forget", "remove members"} PROVE FALSE
    OBVIOUS
  <2>2. j \in 1..Len(m) /\ j # 1
    BY SpliceNumbers, Zenon
  <2>. QED BY <1>1, <1>2, <2>1, <2>2 DEF ListsOnce
<1>5. \A i \in (k + 1)..Len(n) : n[i].do \notin {"forget", "remove members"}
  <2>1. SUFFICES ASSUME NEW i \in (k + 1)..Len(n) PROVE n[i].do \notin {"forget", "remove members"}
    OBVIOUS
  <2>2. i + 1 - k \in 2..Len(m) /\ Same(n[i], m[i + 1 - k])
    BY FollowsBack
  <2>. QED BY <1>4, <2>2 DEF Same
<1>6. OpensFirst(n)' /\ MovesFit(n)'
  <2>1. \A i \in 1..k : n[i].do \notin Opening
    BY <1>3 DEF Opening
  <2>2. \A i \in 1..Len(n) : n[i].do \notin Opening /\ n[i].do \notin Moving
    BY <1>1, <2>1, NothingOpens
  <2>. QED BY <2>2 DEF OpensFirst, MovesFit
<1>7. \A i \in 1..k : n[i].do \in Breaking => m[1].do \in Breaking
  BY <1>3 DEF Breaking
<1>8. RefreshFollows(n)
  BY <1>1, <1>7, RefreshStillFollows
<1>9. ListsOnce(n)
  BY <1>3, <1>5, SpliceNumbers DEF ListsOnce
<1>10. \A v : Members(v)' = Members(v)
  BY DEF Members
<1>11. Doomed(n, w)
  <2>1. ASSUME NEW p \in Members(w) PROVE Forgets(n, p)
    <3>1. PICK i \in 1..k : b[i].do = "forget" /\ b[i].p = p
      BY <2>1 DEF RemovesEach
    <3>2. n[i] = b[i]
      OBVIOUS
    <3>3. i \in 1..Len(n)
      BY SpliceNumbers, Zenon
    <3>. QED BY <3>1, <3>2, <3>3 DEF Forgets
  <2>. QED BY <2>1 DEF Doomed
<1>12. ForgetsFit(n)'
  <2>1. ASSUME NEW i \in 1..Len(n), n[i].do = "forget" PROVE ForgetFits(n, i)'
    <3>1. \A j \in 1..Len(n) : n[j].do = "forget" => j \in 1..k
      BY <1>5, SpliceNumbers
    <3>2. i \in 1..k /\ n[i] = b[i]
      BY <2>1, <3>1
    <3>3. n[i].p \in Members(w)
      BY <2>1, <3>2 DEF RemovesEach
    <3>4. registered[n[i].p] = w /\ w # Nowhere
      BY <3>3, NowhereAssumption DEF Members
    <3>5. ASSUME NEW j \in 1..Len(n), n[j].do = "forget", n[j].p = n[i].p PROVE i = j
      <4>1. j \in 1..k /\ n[j] = b[j]
        BY <3>1, <3>5
      <4>2. /\ b[i].do = "forget" /\ b[j].do = "forget" /\ b[i].p = b[j].p
        BY <2>1, <3>2, <3>5, <4>1
      <4>. QED BY <3>2, <4>1, <4>2 DEF RemovesEach
    <3>6. Doomed(n, w)'
      BY <1>10, <1>11 DEF Doomed
    <3>. QED BY <3>4, <3>5, <3>6 DEF ForgetFits
  <2>. QED BY <2>1 DEF ForgetsFit
<1>13. FilesFollow(n)'
  <2>1. ASSUME NEW v \in Names PROVE Clean(v)' \/ Writes(n, v) \/ Doomed(n, v)'
    <3>1. CASE Clean(v)
      BY <1>10, <3>1 DEF Clean
    <3>2. CASE Writes(m, v)
      BY <3>2, WritesFollow
    <3>3. CASE Doomed(m, v)
      BY <3>3, DoomedStays
    <3>. QED BY <1>1, <3>1, <3>2, <3>3 DEF FilesFollow
  <2>. QED BY <2>1 DEF FilesFollow, Writes
<1>14. EndpointsFollow(n)'
  <2>1. Reached => Reached'
    BY DEF Reached
  <2>. QED BY <1>1, <1>7, <2>1, EndpointsStillFollow DEF EndpointsFollow
<1>15. RefreshFollows(n)' /\ ListsOnce(n)'
  BY <1>8, <1>9 DEF RefreshFollows, ListsOnce
<1>. QED BY <1>6, <1>12, <1>13, <1>14, <1>15 DEF Fits, Ordered

-----------------------------------------------------------------------------
(* The window's thread makes a step. *)

LEMMA EmptyRange == \A i \in 1..0 : FALSE
  OBVIOUS

LEMMA FirstIs ==
    ASSUME TodoTyped, todo[Main] # <<>>
    PROVE  /\ todo[Main] \in Seq(StepsOf(MainDos))
           /\ todo[Main][1] = Next1(Main)
           /\ Next1(Main).do \in MainDos
<1>1. Main \in Threads /\ DosOf(Main) = MainDos
  BY DEF Threads, DosOf
<1>2. todo[Main] \in Seq(StepsOf(MainDos))
  BY <1>1 DEF TodoTyped
<1>3. Next1(Main) \in StepsOf(MainDos)
  BY <1>1, HeadTyped
<1>. QED BY <1>2, <1>3, StepsSuit DEF Next1

LEMMA TodoOfMain ==
    ASSUME TodoTyped, NEW m, todo' = [todo EXCEPT ![Main] = m]
    PROVE  todo'[Main] = m
<1>1. DOMAIN todo = Threads /\ Main \in Threads
  BY DEF TodoTyped, Threads
<1>. QED BY <1>1

LEMMA DoneFollows ==
    ASSUME TodoTyped, todo[Main] # <<>>, Done(Main)
    PROVE  Follows(todo[Main], todo'[Main], 0)
<1>1. todo'[Main] = Tail(todo[Main])
  BY TodoOfMain DEF Done
<1>. QED BY <1>1, FirstIs, TailFollows

LEMMA ExpandFollows ==
    ASSUME TodoTyped, todo[Main] # <<>>, NEW b \in Seq(StepsOf(MainDos)), Expand(Main, b)
    PROVE  /\ Follows(todo[Main], todo'[Main], Len(b))
           /\ \A i \in 1..Len(b) : todo'[Main][i] = b[i]
<1>1. todo'[Main] = b \o Tail(todo[Main])
  BY TodoOfMain DEF Expand
<1>. QED BY <1>1, FirstIs, SpliceFollows

LEMMA CleanStays ==
    ASSUME UNCHANGED <<registered, json>>
    PROVE  \A w : Clean(w) => Clean(w)'
  BY DEF Clean, Members

LEMMA ReachedStays ==
    ASSUME UNCHANGED <<entries, deployed>>
    PROVE  Reached => Reached'
  BY DEF Reached

\* An entry that is there is not allocated again.
LEMMA AllocationReaches ==
    ASSUME StoresTyped, NEW wanted, NEW e \in Allocations(wanted), entries' = e, UNCHANGED deployed
    PROVE  Reached => Reached'
<1>1. \A w \in Names : entries[w] # NoPort => e[w] = entries[w]
  BY DEF Allocations
<1>2. \A w \in Names : Reached /\ deployed[w] # NoPort => deployed[w] = e[w]
  BY <1>1 DEF Reached
<1>. QED BY <1>2 DEF Reached

LEMMA DeploymentReaches ==
    ASSUME NEW e, entries' = e, deployed' = Deployment(e)
    PROVE  Reached'
<1>1. \A w \in Names : deployed'[w] # NoPort => deployed'[w] = e[w]
  BY DEF Deployment
<1>. QED BY <1>1 DEF Reached

\* What is left to do, now and after a step, as two sequences.
LEMMA LeftToDo ==
    ASSUME TodoTyped, MainFits, todo[Main] # <<>>
    PROVE  \E m, s : /\ m = todo[Main] /\ m \in Seq(StepsOf(MainDos)) /\ m # <<>> /\ Fits(m)
                     /\ s = Next1(Main) /\ m[1] = s /\ s \in StepsOf(MainDos)
<1>1. PICK m \in {todo[Main]} : Fits(m)
  BY DEF MainFits
<1>2. PICK s : s = Next1(Main)
  OBVIOUS
<1>3. m \in Seq(StepsOf(MainDos)) /\ m # <<>> /\ m[1] = s
  BY <1>1, <1>2, FirstIs
<1>4. s \in StepsOf(MainDos)
  BY <1>3, Elements, HeadTailProperties
<1>. QED BY <1>1, <1>2, <1>3, <1>4

\* A step of the window's thread that is over, and changed no project's
\* workspace.
LEMMA PlainStepFits ==
    ASSUME NEW m, NEW n, NEW s, Fits(m), Follows(m, n, 0), m[1] = s, UNCHANGED registered,
           s.do \notin Moving \cup {"forget", "remove members"},
           \A w \in Names : Clean(w) => Clean(w)',
           s.do = "json" /\ s.w \in Names => Clean(s.w)',
           Reached => Reached' \/ s.do \in Breaking,
           s.do = "refresh" => Reached'
    PROVE  Fits(n)'
<1>1. Harmless(m, n, 0)
  <2>1. \A i \in 1..0 : FALSE
    BY EmptyRange
  <2>2. m[1].do \notin Moving \cup {"forget", "remove members"}
    OBVIOUS
  <2>. QED BY <2>1, <2>2 DEF Harmless
<1>. QED BY <1>1, FrameFits

\* The window's thread is at `s`, with `m` to do; after the step it has `n`.
Turn(m, n, s) ==
    /\ m = todo[Main] /\ m # <<>> /\ m \in Seq(StepsOf(MainDos)) /\ Fits(m)
    /\ s = Next1(Main) /\ m[1] = s /\ s \in StepsOf(MainDos)
    /\ n = todo'[Main]

LEMMA TurnDone ==
    ASSUME TodoTyped, NEW m, NEW n, NEW s, Turn(m, n, s), Done(Main)
    PROVE  Follows(m, n, 0)
  BY DoneFollows DEF Turn

LEMMA TurnRefused ==
    ASSUME TodoTyped, NEW m, NEW n, NEW s, Turn(m, n, s), Refuse(Main), Tidy', Reached'
    PROVE  Fits(n)'
<1>1. n = <<>>
  BY TodoOfMain DEF Refuse, Turn
<1>2. Len(n) = 0
  BY <1>1
<1>. QED BY <1>2, NothingLeft

LEMMA TurnOpens ==
    ASSUME NEW m, NEW n, NEW s, Turn(m, n, s), s.do \in Opening
    PROVE  Tidy /\ Reached
<1>1. 1 \in 1..Len(m) /\ m[1].do \in Opening
  BY DEF Turn
<1>. QED BY <1>1 DEF Turn, Fits, Ordered, OpensFirst

LEMMA TidyStays ==
    ASSUME UNCHANGED <<registered, json>>
    PROVE  Tidy => Tidy'
  BY DEF Tidy, Clean, Members

LEMMA TurnMoving ==
    ASSUME NEW m, NEW n, NEW s, Turn(m, n, s), s.do \in Moving
    PROVE  /\ Writes(m, s.to)
           /\ s.do # "rename" => s.to = s.w
           /\ s.do = "move" => registered[s.p] \in {s.w, Nowhere} \/ Writes(m, registered[s.p])
<1>1. 1 \in 1..Len(m) /\ m[1].do \in Moving /\ m[1] = s
  BY DEF Turn
<1>. QED BY <1>1 DEF Turn, Fits, Ordered, MovesFit

LEMMA RegisterFits ==
    ASSUME WorkspacesTyped, NEW m, NEW n, NEW s, Turn(m, n, s), Register(Main) \/ SetWorkspace(Main)
    PROVE  Fits(n)'
<1>0. TodoTyped /\ StoresTyped
  BY DEF WorkspacesTyped
<1>1. /\ s = Next1(Main) /\ s.do \in {"register", "move"}
      /\ UNCHANGED <<json, entries, deployed>>
  BY DEF Turn, Register, SetWorkspace, Doing
<1>2. Tidy /\ Reached /\ Reached'
  BY <1>1, TurnOpens, ReachedStays DEF Opening
<1>3. CASE Refuse(Main) /\ UNCHANGED registered
  BY <1>0, <1>1, <1>2, <1>3, TidyStays, TurnRefused
<1>4. CASE /\ Done(Main) /\ registered' = [registered EXCEPT ![s.p] = s.w]
           /\ s.do = "register" => registered[s.p] = Nowhere
  <2>1. Follows(m, n, 0)
    BY <1>0, <1>4, TurnDone
  <2>2. /\ Writes(m, s.w)
        /\ registered[s.p] \in {s.w, Nowhere} \/ Writes(m, registered[s.p])
    <3>1. s.do \in Moving /\ s.do # "rename"
      BY <1>1 DEF Moving
    <3>2. Writes(m, s.to) /\ s.to = s.w /\ (s.do = "move" => registered[s.p] \in {s.w, Nowhere} \/ Writes(m, registered[s.p]))
      BY <3>1, TurnMoving
    <3>. QED BY <1>1, <1>4, <3>2
  <2>3. ASSUME NEW v \in Names, ~Writes(m, v) PROVE Members(v)' = Members(v)
    <3>1. v # s.w /\ v # registered[s.p]
      BY <2>2, <2>3, NowhereAssumption
    <3>. QED BY <1>0, <1>4, <3>1 DEF StoresTyped, Members
  <2>4. m[1].do \in Moving
    BY <1>1 DEF Turn, Moving
  <2>5. Fits(m)
    BY DEF Turn
  <2>. QED BY <1>1, <1>2, <2>1, <2>3, <2>4, <2>5, MovedFits
<1>. QED BY <1>1, <1>3, <1>4 DEF Register, SetWorkspace, Doing

LEMMA RenameFits ==
    ASSUME WorkspacesTyped, NEW m, NEW n, NEW s, Turn(m, n, s), Rename(Main)
    PROVE  Fits(n)'
<1>0. TodoTyped /\ StoresTyped
  BY DEF WorkspacesTyped
<1>1. s = Next1(Main) /\ s.do = "rename" /\ UNCHANGED <<json, deployed>> /\ Done(Main)
  BY DEF Turn, Rename, Doing
<1>2. Tidy /\ Reached
  BY <1>1, TurnOpens DEF Opening
<1>3. Follows(m, n, 0)
  BY <1>0, <1>1, TurnDone
<1>4. Writes(m, s.to)
  BY <1>1, TurnMoving DEF Moving
<1>5. ASSUME NEW v \in Names, ~Writes(m, v) PROVE Members(v)' = Members(v) \/ Members(v)' = {}
  <2>1. v # s.to
    BY <1>4, <1>5
  <2>2. \/ UNCHANGED registered
        \/ registered' = [p \in Projects |-> IF registered[p] = s.w THEN s.to ELSE registered[p]]
    BY <1>1 DEF Rename
  <2>. QED BY <2>1, <2>2 DEF Members
<1>6. m[1].do \in Moving /\ m[1].do \in Breaking /\ Fits(m)
  BY <1>1 DEF Turn, Moving, Breaking
<1>. QED BY <1>1, <1>3, <1>5, <1>6, MovedFits

LEMMA ForgetStepFits ==
    ASSUME WorkspacesTyped, NEW m, NEW n, NEW s, Turn(m, n, s), Forget(Main)
    PROVE  Fits(n)'
<1>0. TodoTyped /\ StoresTyped
  BY DEF WorkspacesTyped
<1>1. s = Next1(Main) /\ s.do = "forget" /\ UNCHANGED <<json, entries, deployed>>
  BY DEF Turn, Forget, Doing
<1>2. m[1] = s /\ Fits(m) /\ 1 \in 1..Len(m)
  BY DEF Turn
<1>3. registered[s.p] # Nowhere
  BY <1>1, <1>2 DEF Fits, Ordered, ForgetsFit, ForgetFits
<1>4. Done(Main) /\ registered' = [registered EXCEPT ![s.p] = Nowhere]
  BY <1>1, <1>3 DEF Forget
<1>5. s.p \in Projects
  BY <1>1, StepsSuit DEF Turn, ProjectDos
<1>6. Follows(m, n, 0)
  BY <1>0, <1>4, TurnDone
<1>. QED BY <1>0, <1>1, <1>2, <1>4, <1>5, <1>6, ForgottenFits

LEMMA ListStepFits ==
    ASSUME WorkspacesTyped, NEW m, NEW n, NEW s, Turn(m, n, s), ListMembers(Main)
    PROVE  Fits(n)'
<1>0. TodoTyped /\ StoresTyped
  BY DEF WorkspacesTyped
<1>1. PICK b : b = ForEach(SetToSeq(Members(s.w)), RemovalOf)
  OBVIOUS
<1>2. s = Next1(Main) /\ s.do = "remove members" /\ UNCHANGED <<registered, json, entries, deployed>> /\ Expand(Main, b)
  BY <1>1 DEF Turn, ListMembers, Doing, stores
<1>3. RemovesEach(b, Members(s.w))
  BY <1>1, RemovalsAre DEF Members
<1>4. b \in Seq(StepsOf(MainDos))
  <2>1. {"remove", "forget"} \subseteq MainDos
    BY DEF MainDos
  <2>. QED BY <1>3, <2>1, WiderSteps DEF RemovesEach
<1>5. Follows(m, n, Len(b)) /\ \A i \in 1..Len(b) : n[i] = b[i]
  BY <1>0, <1>2, <1>4, ExpandFollows DEF Turn
<1>6. m[1] = s /\ Fits(m) /\ s.w \in Names
  BY <1>2, StepsSuit DEF Turn, PlacedDos
<1>. QED BY <1>2, <1>3, <1>5, <1>6, ListedFits

\* A poll, as far as the stores are concerned.
LEMMA PollStores ==
    ASSUME StoresTyped, PollAll, UNCHANGED deployed
    PROVE  UNCHANGED <<registered, json>> /\ (Reached => Reached')
<1>1. PICK e \in Allocations(Used) : entries' = e /\ UNCHANGED <<registered, json>>
  BY DEF PollAll, Poll
<1>. QED BY <1>1, AllocationReaches

\* Steps that leave projects, files and endpoints where they are.
LEMMA RuntimeStepFits ==
    ASSUME WorkspacesTyped, NEW m, NEW n, NEW s, Turn(m, n, s),
           \/ Unresolved(Main) \/ StartResident(Main) \/ StopResident(Main) \/ StopWorkspace(Main)
           \/ RemoveRuntime(Main) \/ LoadDashboard(Main) \/ RefuseIfLive(Main)
    PROVE  Fits(n)'
<1>0. TodoTyped /\ StoresTyped
  BY DEF WorkspacesTyped
<1>1. /\ s.do \in {"start", "stop", "json without", "stop workspace", "remove", "dashboard", "refuse if live"}
      /\ Done(Main) \/ (s.do = "refuse if live" /\ Refuse(Main))
      /\ UNCHANGED deployed
      /\ UNCHANGED stores \/ PollAll
  <2>1. s = Next1(Main)
    BY DEF Turn
  <2>2. CASE Unresolved(Main)
    BY <2>1, <2>2 DEF Unresolved
  <2>3. CASE StartResident(Main)
    BY <2>1, <2>3 DEF StartResident, Doing
  <2>4. CASE StopResident(Main)
    BY <2>1, <2>4 DEF StopResident, Doing
  <2>5. CASE StopWorkspace(Main)
    BY <2>1, <2>5 DEF StopWorkspace, Doing
  <2>6. CASE RemoveRuntime(Main)
    BY <2>1, <2>6 DEF RemoveRuntime, Doing
  <2>7. CASE LoadDashboard(Main)
    BY <2>1, <2>7 DEF LoadDashboard, Doing
  <2>8. CASE RefuseIfLive(Main)
    BY <2>1, <2>8 DEF RefuseIfLive, Doing
  <2>. QED BY <2>2, <2>3, <2>4, <2>5, <2>6, <2>7, <2>8
<1>2. UNCHANGED <<registered, json>> /\ (Reached => Reached')
  BY <1>0, <1>1, PollStores, ReachedStays DEF stores
<1>3. CASE s.do = "refuse if live" /\ Refuse(Main)
  <2>1. Tidy /\ Reached
    BY <1>3, TurnOpens DEF Opening
  <2>2. Tidy' /\ Reached'
    BY <1>2, <2>1, TidyStays
  <2>. QED BY <1>0, <1>3, <2>2, TurnRefused
<1>4. CASE Done(Main)
  <2>1. Follows(m, n, 0)
    BY <1>0, <1>4, TurnDone
  <2>2. \A w \in Names : Clean(w) => Clean(w)'
    BY <1>2, CleanStays
  <2>3. s.do \notin Moving \cup {"forget", "remove members"} /\ s.do # "json" /\ s.do # "refresh"
    BY <1>1 DEF Moving
  <2>4. Fits(m) /\ m[1] = s
    BY DEF Turn
  <2>. QED BY <1>2, <2>1, <2>2, <2>3, <2>4, PlainStepFits
<1>. QED BY <1>1, <1>3, <1>4

LEMMA ReleaseFits ==
    ASSUME WorkspacesTyped, NEW m, NEW n, NEW s, Turn(m, n, s), ReleaseEntry(Main)
    PROVE  Fits(n)'
<1>0. TodoTyped /\ StoresTyped
  BY DEF WorkspacesTyped
<1>1. s.do = "release" /\ UNCHANGED <<registered, json>> /\ Done(Main)
  BY DEF Turn, ReleaseEntry, Doing
<1>2. Follows(m, n, 0)
  BY <1>0, <1>1, TurnDone
<1>3. \A w \in Names : Clean(w) => Clean(w)'
  BY <1>1, CleanStays
<1>4. /\ s.do \notin Moving \cup {"forget", "remove members"} /\ s.do # "json" /\ s.do # "refresh"
      /\ s.do \in Breaking
  BY <1>1 DEF Moving, Breaking
<1>5. Fits(m) /\ m[1] = s
  BY DEF Turn
<1>. QED BY <1>1, <1>2, <1>3, <1>4, <1>5, PlainStepFits

\* A file is written, or removed with its folder.
LEMMA WriteFits ==
    ASSUME WorkspacesTyped, NEW m, NEW n, NEW s, Turn(m, n, s),
           WriteJson(Main) \/ WriteJsonWithout(Main) \/ DropFolder(Main)
    PROVE  Fits(n)'
<1>0. TodoTyped /\ StoresTyped /\ FilesTyped
  BY DEF WorkspacesTyped, StoresTyped
<1>1. /\ s.do \in {"json", "json without", "drop folder"} /\ Done(Main)
      /\ UNCHANGED <<registered, entries, deployed>>
  BY DEF Turn, WriteJson, WriteJsonWithout, DropFolder, Doing
<1>2. PICK f : /\ json' = [json EXCEPT ![s.w] = f]
               /\ f \in {FileOf(s.w), NoFile, [listed |-> Members(s.w) \ {s.p}, roots |-> {}]}
  BY DEF Turn, WriteJson, WriteJsonWithout, DropFolder
<1>3. f.listed \subseteq Members(s.w)
  BY <1>2 DEF FileOf, NoFile
<1>4. \A w \in Names : json'[w] = IF w = s.w THEN f ELSE json[w]
  BY <1>0, <1>2 DEF FilesTyped
<1>5. \A w : Members(w)' = Members(w)
  BY <1>1 DEF Members
<1>6. /\ \A w \in Names : Clean(w) => Clean(w)'
      /\ s.w \in Names => Clean(s.w)'
  BY <1>3, <1>4, <1>5 DEF Clean
<1>7. Follows(m, n, 0)
  BY <1>0, <1>1, TurnDone
<1>8. s.do \notin Moving \cup {"forget", "remove members"} /\ s.do # "refresh"
  BY <1>1 DEF Moving
<1>9. Fits(m) /\ m[1] = s /\ (Reached => Reached')
  BY <1>1, ReachedStays DEF Turn
<1>. QED BY <1>1, <1>6, <1>7, <1>8, <1>9, PlainStepFits

LEMMA DeployStepFits ==
    ASSUME WorkspacesTyped, NEW m, NEW n, NEW s, Turn(m, n, s), RefreshDeployed(Main) \/ Deploy(Main)
    PROVE  Fits(n)'
<1>0. TodoTyped /\ StoresTyped
  BY DEF WorkspacesTyped
<1>1. s.do \in {"refresh", "deploy"} /\ Done(Main) /\ UNCHANGED <<registered, json>>
  BY DEF Turn, RefreshDeployed, Deploy, Doing
<1>2. Reached'
  <2>1. CASE (\A w \in Names : deployed[w] = NoPort) /\ UNCHANGED deployed
    BY <2>1 DEF Reached
  <2>2. ASSUME NEW e \in Allocations(Used), entries' = e, deployed' = Deployment(e)
        PROVE  Reached'
    BY <2>2, DeploymentReaches
  <2>. QED BY <2>1, <2>2 DEF RefreshDeployed, Deploy
<1>3. Follows(m, n, 0)
  BY <1>0, <1>1, TurnDone
<1>4. \A w \in Names : Clean(w) => Clean(w)'
  BY <1>1, CleanStays
<1>5. s.do \notin Moving \cup {"forget", "remove members"} /\ s.do # "json"
  BY <1>1 DEF Moving
<1>6. Fits(m) /\ m[1] = s
  BY DEF Turn
<1>. QED BY <1>1, <1>2, <1>3, <1>4, <1>5, <1>6, PlainStepFits

LEMMA ResolveFits ==
    ASSUME WorkspacesTyped, NEW m, NEW n, NEW s, Turn(m, n, s), Resolve(Main)
    PROVE  Fits(n)'
<1>0. TodoTyped /\ StoresTyped
  BY DEF WorkspacesTyped
<1> DEFINE rest == Tail(todo[Main])
           goes(i) == rest[i].p = Next1(Main).p /\ rest[i].do # "await import"
           to(q) == [i \in DOMAIN rest |-> IF goes(i) THEN [rest[i] EXCEPT !.port = q] ELSE rest[i]]
<1>1. PICK e \in Allocations({s.w}) : entries' = e /\ todo' = [todo EXCEPT ![Main] = to(e[s.w])]
  <2>1. s = Next1(Main)
    BY DEF Turn
  <2>2. PICK e \in Allocations({Next1(Main).w}) : entries' = e /\ todo' = [todo EXCEPT ![Main] = to(e[Next1(Main).w])]
    BY DEF Resolve
  <2> HIDE DEF to, rest
  <2>3. e \in Allocations({s.w}) /\ entries' = e /\ todo' = [todo EXCEPT ![Main] = to(e[s.w])]
    BY <2>1, <2>2, Zenon
  <2>. QED BY <2>3
<1>2. s.do = "resolve" /\ UNCHANGED <<registered, json, deployed>>
  BY DEF Turn, Resolve, Doing
<1>3. PICK q : q = e[s.w]
  OBVIOUS
<1>4. n = to(q)
  <2>1. todo' = [todo EXCEPT ![Main] = to(q)]
    BY <1>1, <1>3
  <2> HIDE DEF to
  <2>2. todo'[Main] = to(q)
    BY <1>0, <2>1, TodoOfMain
  <2>. QED BY <2>2 DEF Turn
<1>5. PICK r : r = rest
  OBVIOUS
<1>6. r = Tail(m) /\ m \in Seq(StepsOf(MainDos)) /\ m # <<>>
  BY <1>5 DEF Turn
<1>7. /\ r \in Seq(StepsOf(MainDos)) /\ Len(m) \in Nat \ {0} /\ Len(r) = Len(m) - 1
      /\ \A i \in 1..Len(r) : r[i] = m[i + 1]
  BY <1>6, HeadTailProperties
<1>8. DOMAIN r = 1..Len(r) /\ Len(r) \in Nat /\ \A i \in 1..Len(r) : r[i] \in StepsOf(MainDos)
  BY <1>7
<1>9. DOMAIN n = 1..Len(r) /\ \A i \in 1..Len(r) : n[i] = r[i] \/ n[i] = [r[i] EXCEPT !.port = q]
  BY <1>4, <1>5, <1>8
<1>10. Len(n) = Len(r)
  <2>1. n = [i \in 1..Len(r) |-> n[i]]
    BY <1>4, <1>5, <1>8
  <2>. QED BY <1>8, <2>1
<1>11. \A a \in StepsOf(MainDos) : Same([a EXCEPT !.port = q], a) /\ Same(a, a)
  BY DEF Same, StepsOf
<1>12. \A i \in 1..Len(r) : Same(n[i], m[i + 1])
  BY <1>7, <1>8, <1>9, <1>11
<1>13. Follows(m, n, 0)
  <2>1. \A i \in (0 + 1)..Len(n) : Same(n[i], m[i + 1 - 0])
    BY <1>10, <1>12
  <2>. QED BY <1>7, <1>10, <2>1 DEF Follows
<1>14. Reached => Reached'
  BY <1>0, <1>1, <1>2, AllocationReaches
<1>15. \A w \in Names : Clean(w) => Clean(w)'
  BY <1>2, CleanStays
<1>16. s.do \notin Moving \cup {"forget", "remove members"} /\ s.do # "json" /\ s.do # "refresh"
  BY <1>2 DEF Moving
<1>17. Fits(m) /\ m[1] = s
  BY DEF Turn
<1>. QED BY <1>2, <1>13, <1>14, <1>15, <1>16, <1>17, PlainStepFits

\* A step of the window's thread that puts others before the rest.
LEMMA ExpandedFits ==
    ASSUME TodoTyped, NEW m, NEW n, NEW s, Turn(m, n, s), NEW dos, NEW b \in Seq(StepsOf(dos)), Expand(Main, b),
           dos \subseteq MainDos, dos \cap (Opening \cup {"forget", "remove members"}) = {},
           dos \cap Breaking = {} \/ s.do \in Breaking,
           s.do \notin Moving \cup {"forget", "remove members"}, s.do # "json", s.do # "refresh",
           UNCHANGED <<registered, json, entries, deployed>>
    PROVE  Fits(n)'
<1>1. b \in Seq(StepsOf(MainDos))
  BY WiderSteps
<1>2. Follows(m, n, Len(b)) /\ \A i \in 1..Len(b) : n[i] = b[i]
  BY <1>1, ExpandFollows DEF Turn
<1>3. \A i \in 1..Len(b) : b[i].do \in dos
  BY Elements, StepsSuit
<1>4. m[1] = s /\ Fits(m)
  BY DEF Turn
<1>5. Harmless(m, n, Len(b))
  BY <1>2, <1>3, <1>4 DEF Harmless
<1>6. (\A w \in Names : Clean(w) => Clean(w)') /\ (Reached => Reached')
  BY CleanStays, ReachedStays
<1>. QED BY <1>2, <1>4, <1>5, <1>6, FrameFits

LEMMA DropIfEmptyFits ==
    ASSUME WorkspacesTyped, NEW m, NEW n, NEW s, Turn(m, n, s), DropIfEmpty(Main)
    PROVE  Fits(n)'
<1>0. TodoTyped
  BY DEF WorkspacesTyped
<1>1. PICK b : b = IF Members(s.w) = {} THEN <<Of("stop workspace", s.w), Of("release", s.w)>> ELSE <<>>
  OBVIOUS
<1>2. s = Next1(Main)
  BY DEF Turn
<1>3. s.do = "drop if empty" /\ Expand(Main, b) /\ UNCHANGED <<registered, json, entries, deployed>>
  BY <1>1, <1>2 DEF DropIfEmpty, Doing, stores
<1>4. s.w \in Names \cup {Nowhere}
  BY StepsSuit DEF Turn
<1> DEFINE dos == {"stop workspace", "release"}
<1>5. b \in Seq(StepsOf(dos))
  BY <1>1, <1>4, DropStepsTyped
<1>6. /\ dos \subseteq MainDos /\ dos \cap (Opening \cup {"forget", "remove members"}) = {}
      /\ s.do \in Breaking /\ s.do \notin Moving \cup {"forget", "remove members"}
      /\ s.do # "json" /\ s.do # "refresh"
  BY <1>3 DEF MainDos, Opening, Breaking, Moving
<1> HIDE DEF dos
<1>. QED BY <1>0, <1>3, <1>5, <1>6, ExpandedFits

LEMMA ProjectStepFits ==
    ASSUME WorkspacesTyped, NEW m, NEW n, NEW s, Turn(m, n, s), StartProject(Main) \/ StopProject(Main)
    PROVE  Fits(n)'
<1>0. TodoTyped /\ StoresTyped
  BY DEF WorkspacesTyped
<1>1. PICK a : a = IF registered[s.p] = Nowhere THEN <<>> ELSE <<Of("json", registered[s.p])>> \o StartOf(s.p)
  OBVIOUS
<1>2. PICK c : c = IF registered[s.p] = Nowhere THEN <<>>
                   ELSE InsertAt(StopOf(s.p), 2, Step("json without", s.p, registered[s.p]))
  OBVIOUS
<1>3. s = Next1(Main)
  BY DEF Turn
<1>4. /\ s.do \in {"start project", "stop project"} /\ UNCHANGED <<registered, json, entries, deployed>>
      /\ Expand(Main, a) \/ Expand(Main, c)
  BY <1>1, <1>2, <1>3 DEF StartProject, StopProject, Doing, stores
<1>5. s.p \in Projects
  BY <1>4, StepsSuit DEF Turn, ProjectDos
<1>6. a \in Seq(StepsOf(SharedDos)) /\ c \in Seq(StepsOf(SharedDos))
  BY <1>0, <1>1, <1>2, <1>5, StartStepsTyped, StopStepsTyped
<1>7. /\ SharedDos \subseteq MainDos /\ SharedDos \cap (Opening \cup {"forget", "remove members"}) = {}
      /\ SharedDos \cap Breaking = {} /\ s.do \notin Moving \cup {"forget", "remove members"}
      /\ s.do # "json" /\ s.do # "refresh"
  BY <1>4 DEF MainDos, SharedDos, Opening, Breaking, Moving
<1>. QED BY <1>0, <1>4, <1>6, <1>7, ExpandedFits

LEMMA MainStepFits ==
    ASSUME WorkspacesTyped, MainFits, StepOf(Main)
    PROVE  MainFits'
<1>0. TodoTyped /\ Main \in Threads /\ DosOf(Main) = MainDos
  BY DEF WorkspacesTyped, Threads, DosOf
<1>1. todo[Main] # <<>>
  BY Zenon DEF StepOf, Register, SetWorkspace, Rename, Forget, ReleaseEntry, WriteJson, WriteJsonWithout, DropFolder,
         Resolve, Unresolved, StartResident, StopResident, StopWorkspace, RemoveRuntime, RefuseIfLive,
         LoadDashboard, AwaitSettled, RefreshDeployed, Deploy, ListMembers, DropIfEmpty, WriteAll, AwaitImport,
         Restore, StartProject, StopProject, Toggle, Doing
<1>2. PICK m, s : /\ m = todo[Main] /\ m \in Seq(StepsOf(MainDos)) /\ m # <<>> /\ Fits(m)
                  /\ s = Next1(Main) /\ m[1] = s /\ s \in StepsOf(MainDos)
  BY <1>0, <1>1, LeftToDo
<1>3. PICK n : n = todo'[Main]
  OBVIOUS
<1>4. Turn(m, n, s)
  BY <1>2, <1>3 DEF Turn
<1>5. ~(AwaitSettled(Main) \/ WriteAll(Main) \/ AwaitImport(Main) \/ Restore(Main) \/ Toggle(Main))
  <2>1. \A do : Doing(Main, do) => do \in MainDos
    BY <1>0, NextSuits
  <2>2. /\ "await settled" \notin MainDos /\ "start all" \notin MainDos /\ "await import" \notin MainDos
        /\ "restore" \notin MainDos /\ "toggle" \notin MainDos
    BY DEF MainDos
  <2>. QED BY <2>1, <2>2, Zenon DEF AwaitSettled, WriteAll, AwaitImport, Restore, Toggle
<1>6. Fits(n)'
  BY <1>4, <1>5, RegisterFits, RenameFits, ForgetStepFits, ListStepFits, RuntimeStepFits, ReleaseFits,
     WriteFits, DeployStepFits, ResolveFits, DropIfEmptyFits, ProjectStepFits, Zenon DEF StepOf
<1>. QED BY <1>3, <1>6 DEF MainFits

-----------------------------------------------------------------------------
(* Beside the window's thread. *)

\* Another thread, or nobody, makes a step.
LEMMA BesidesFits ==
    ASSUME MainFits, UNCHANGED <<registered, deployed>>, todo'[Main] = todo[Main],
           \A w \in Names : Clean(w) => Clean(w)',
           Reached => Reached'
    PROVE  MainFits'
<1>1. PICK m \in {todo[Main]} : Fits(m)
  BY DEF MainFits
<1>2. Fits(m)'
  BY <1>1, OthersFit
<1>3. m = todo'[Main]
  BY <1>1
<1>. QED BY <1>2, <1>3 DEF MainFits

\* Nothing but handles, records and what is still to do changes.
LEMMA AsideFits ==
    ASSUME MainFits, UNCHANGED <<registered, json, entries, deployed>>, todo'[Main] = todo[Main]
    PROVE  MainFits'
<1>1. \A w \in Names : Clean(w) => Clean(w)'
  BY CleanStays
<1>2. Reached => Reached'
  BY ReachedStays
<1>. QED BY <1>1, <1>2, BesidesFits

\* Besides, ports are found for some workspaces.
LEMMA AllocatingFits ==
    ASSUME MainFits, StoresTyped, UNCHANGED <<registered, json, deployed>>, todo'[Main] = todo[Main],
           NEW wanted, NEW e \in Allocations(wanted), entries' = e
    PROVE  MainFits'
<1>1. \A w \in Names : Clean(w) => Clean(w)'
  BY CleanStays
<1>2. Reached => Reached'
  BY AllocationReaches
<1>. QED BY <1>1, <1>2, BesidesFits

\* Besides, files are written.
LEMMA WritingFits ==
    ASSUME MainFits, UNCHANGED <<registered, deployed>>, todo'[Main] = todo[Main], Reached => Reached',
           \A w \in Names : json'[w].listed \subseteq Members(w) \/ json'[w] = json[w]
    PROVE  MainFits'
<1>1. \A w \in Names : Clean(w) => Clean(w)'
  BY DEF Clean, Members
<1>. QED BY <1>1, BesidesFits

LEMMA FleetOnly ==
    ASSUME NEW m, todo' = [todo EXCEPT ![Fleet] = m]
    PROVE  todo'[Main] = todo[Main]
  BY HistoryAssumption

LEMMA FleetDoes ==
    ASSUME TodoTyped
    PROVE  \A do : Doing(Fleet, do) => do \in FleetDos
  BY NextSuits, FleetIs

LEMMA FleetMovesOn ==
    ASSUME Done(Fleet) \/ Refuse(Fleet) \/ \E steps : Expand(Fleet, steps)
    PROVE  todo'[Main] = todo[Main]
<1>1. CASE Done(Fleet)
  <2>1. PICK m : todo' = [todo EXCEPT ![Fleet] = m]
    BY <1>1 DEF Done
  <2>. QED BY <2>1, FleetOnly
<1>2. CASE Refuse(Fleet)
  BY <1>2, FleetOnly DEF Refuse
<1>3. ASSUME NEW steps, Expand(Fleet, steps) PROVE todo'[Main] = todo[Main]
  BY <1>3, FleetOnly DEF Expand
<1>. QED BY <1>1, <1>2, <1>3

\* A poll, whoever asks for it.
LEMMA PollingFits ==
    ASSUME MainFits, StoresTyped, PollAll, UNCHANGED deployed, todo'[Main] = todo[Main]
    PROVE  MainFits'
<1>1. PICK e \in Allocations(Used) : entries' = e /\ UNCHANGED <<registered, json>>
  BY DEF PollAll, Poll
<1>. QED BY <1>1, AllocatingFits

LEMMA FleetPollsFit ==
    ASSUME MainFits, StoresTyped,
           LoadDashboard(Fleet) \/ AwaitSettled(Fleet) \/ Restore(Fleet) \/ Toggle(Fleet)
    PROVE  MainFits'
<1>1. CASE LoadDashboard(Fleet)
  BY <1>1, FleetMovesOn, PollingFits DEF LoadDashboard
<1>2. CASE AwaitSettled(Fleet)
  BY <1>2, FleetMovesOn, PollingFits DEF AwaitSettled
<1>3. CASE Restore(Fleet)
  BY <1>3, FleetMovesOn, PollingFits DEF Restore
<1>4. CASE Toggle(Fleet)
  BY <1>4, FleetMovesOn, PollingFits DEF Toggle
<1>. QED BY <1>1, <1>2, <1>3, <1>4

LEMMA FleetRunsFit ==
    ASSUME MainFits, StoresTyped,
           \/ Unresolved(Fleet) \/ StartResident(Fleet) \/ StopResident(Fleet)
           \/ StartProject(Fleet) \/ StopProject(Fleet)
    PROVE  MainFits'
<1>1. CASE Unresolved(Fleet)
  BY <1>1, FleetMovesOn, AsideFits DEF Unresolved, stores
<1>2. CASE StartResident(Fleet)
  BY <1>2, FleetMovesOn, AsideFits DEF StartResident, stores
<1>3. CASE StopResident(Fleet)
  BY <1>3, FleetMovesOn, AsideFits DEF StopResident, stores
<1>4. CASE StartProject(Fleet)
  BY <1>4, FleetMovesOn, AsideFits DEF StartProject, stores
<1>5. CASE StopProject(Fleet)
  BY <1>5, FleetMovesOn, AsideFits DEF StopProject, stores
<1>. QED BY <1>1, <1>2, <1>3, <1>4, <1>5

LEMMA FleetWritesFit ==
    ASSUME MainFits, StoresTyped, WriteJson(Fleet) \/ WriteJsonWithout(Fleet)
    PROVE  MainFits'
<1>1. UNCHANGED <<registered, entries, deployed>> /\ Done(Fleet)
  BY DEF WriteJson, WriteJsonWithout
<1>2. PICK s : s = Next1(Fleet)
  OBVIOUS
<1>3. PICK f : /\ json' = [json EXCEPT ![s.w] = f]
               /\ f \in {FileOf(s.w), [listed |-> Members(s.w) \ {s.p}, roots |-> {}]}
  BY <1>2 DEF WriteJson, WriteJsonWithout
<1>4. f.listed \subseteq Members(s.w)
  BY <1>3 DEF FileOf
<1>5. \A v \in Names : json'[v].listed \subseteq Members(v) \/ json'[v] = json[v]
  BY <1>3, <1>4 DEF StoresTyped, FilesTyped
<1>. QED BY <1>1, <1>5, FleetMovesOn, ReachedStays, WritingFits

LEMMA FleetWritesAllFit ==
    ASSUME MainFits, StoresTyped, WriteAll(Fleet)
    PROVE  MainFits'
<1>1. UNCHANGED <<registered, deployed>>
  BY DEF WriteAll
<1>2. PICK e \in Allocations(Used) : entries' = e /\ Expand(Fleet, Staggered(Listed, e))
  BY DEF WriteAll
<1>3. \A v \in Names : json'[v].listed \subseteq Members(v) \/ json'[v] = json[v]
  BY DEF WriteAll, WriteFiles, FileOf
<1>4. Reached => Reached'
  BY <1>1, <1>2, AllocationReaches
<1>. QED BY <1>1, <1>2, <1>3, <1>4, FleetMovesOn, WritingFits

LEMMA FleetAsksFit ==
    ASSUME MainFits, StoresTyped, Resolve(Fleet) \/ AwaitImport(Fleet)
    PROVE  MainFits'
<1>1. CASE Resolve(Fleet)
  <2>1. UNCHANGED <<registered, json, deployed>>
    BY <1>1 DEF Resolve
  <2>2. PICK e \in Allocations({Next1(Fleet).w}) : entries' = e /\ \E m : todo' = [todo EXCEPT ![Fleet] = m]
    BY <1>1 DEF Resolve
  <2>. QED BY <2>1, <2>2, FleetOnly, AllocatingFits
<1>2. CASE AwaitImport(Fleet)
  <2>1. UNCHANGED <<registered, json, deployed>>
    BY <1>2 DEF AwaitImport, Ask
  <2>2. PICK e \in Allocations({Next1(Fleet).w}) : entries' = e
    BY <1>2 DEF AwaitImport, Ask
  <2>3. todo'[Main] = todo[Main]
    BY <1>2, FleetMovesOn DEF AwaitImport
  <2>. QED BY <2>1, <2>2, <2>3, AllocatingFits
<1>. QED BY <1>1, <1>2

LEMMA FleetStepFits ==
    ASSUME WorkspacesTyped, MainFits, StepOf(Fleet)
    PROVE  MainFits'
<1>0. TodoTyped /\ StoresTyped
  BY DEF WorkspacesTyped
<1>1. ~(\/ Register(Fleet) \/ SetWorkspace(Fleet) \/ Rename(Fleet) \/ Forget(Fleet) \/ ReleaseEntry(Fleet)
        \/ DropFolder(Fleet) \/ StopWorkspace(Fleet) \/ RemoveRuntime(Fleet) \/ RefuseIfLive(Fleet)
        \/ RefreshDeployed(Fleet) \/ Deploy(Fleet) \/ ListMembers(Fleet) \/ DropIfEmpty(Fleet))
  <2>1. \A do : Doing(Fleet, do) => do \in FleetDos
    BY <1>0, FleetDoes
  <2>2. /\ "register" \notin FleetDos /\ "move" \notin FleetDos /\ "rename" \notin FleetDos
        /\ "forget" \notin FleetDos /\ "release" \notin FleetDos /\ "drop folder" \notin FleetDos
        /\ "stop workspace" \notin FleetDos /\ "remove" \notin FleetDos /\ "refuse if live" \notin FleetDos
        /\ "refresh" \notin FleetDos /\ "deploy" \notin FleetDos /\ "remove members" \notin FleetDos
        /\ "drop if empty" \notin FleetDos
    BY DEF FleetDos
  <2>. QED BY <2>1, <2>2, Zenon DEF Register, SetWorkspace, Rename, Forget, ReleaseEntry, DropFolder, StopWorkspace,
         RemoveRuntime, RefuseIfLive, RefreshDeployed, Deploy, ListMembers, DropIfEmpty
<1>. QED BY <1>0, <1>1, FleetPollsFit, FleetRunsFit, FleetWritesFit, FleetWritesAllFit, FleetAsksFit, Zenon DEF StepOf

\* Steps of nobody's commands.
LEMMA AroundFits ==
    ASSUME WorkspacesTyped, MainFits,
           \/ \E call, steps : FleetCall(call, steps)
           \/ StudioRestart
           \/ \E q \in Ports : Import(q)
           \/ UNCHANGED wsVars
    PROVE  MainFits'
<1>1. ASSUME NEW call, NEW steps, FleetCall(call, steps) PROVE MainFits'
  BY <1>1, FleetOnly, AsideFits DEF FleetCall, stores
<1>2. CASE StudioRestart
  <2>1. todo[Main] = <<>> /\ todo'[Main] = <<>>
    BY <1>2, HistoryAssumption DEF StudioRestart, Threads
  <2>. QED BY <1>2, <2>1, AsideFits DEF StudioRestart, stores
<1>3. ASSUME NEW q \in Ports, Import(q) PROVE MainFits'
  BY <1>3, AsideFits DEF Import, stores
<1>4. CASE UNCHANGED wsVars
  BY <1>4, AsideFits DEF wsVars, stores
<1>. QED BY <1>1, <1>2, <1>3, <1>4

-----------------------------------------------------------------------------
(* Which commands are asked for. *)

PlainDos == MainDos \ (Opening \cup Breaking \cup {"forget", "remove members"})

\* A command of which no step opens, breaks or forgets.
LEMMA PlainPlans ==
    ASSUME NEW m, \A i \in 1..Len(m) : m[i].do \in PlainDos
    PROVE  Ordered(m)
<1>1. \A i \in 1..Len(m) : m[i].do \notin Opening \cup Breaking \cup Moving \cup {"forget", "remove members"}
  BY MovingOpens DEF PlainDos
<1>. QED BY <1>1 DEF Ordered, OpensFirst, RefreshFollows, MovesFit, ForgetsFit, ListsOnce

LEMMA PlainStepsPlan ==
    ASSUME NEW dos, dos \subseteq PlainDos, NEW m \in Seq(StepsOf(dos))
    PROVE  Ordered(m)
<1>1. \A i \in 1..Len(m) : m[i].do \in dos
  BY Elements, StepsSuit
<1>. QED BY <1>1, PlainPlans

\* The dashboard at the end of a command changes nothing of that.
LEMMA AppendedPlans ==
    ASSUME NEW T, NEW a \in Seq(T), NEW d \in T, d.do = "dashboard", Ordered(a)
    PROVE  Ordered(a \o <<d>>)
<1>1. PICK n : n = a \o <<d>>
  OBVIOUS
<1>2. /\ Len(a) \in Nat /\ Len(n) = Len(a) + 1
      /\ \A i \in 1..Len(a) : n[i] = a[i]
      /\ n[Len(a) + 1] = d
  BY <1>1
<1>3. /\ \A i \in 1..Len(n) : i \in 1..Len(a) \/ n[i] = d
      /\ \A i \in 1..Len(a) : i \in 1..Len(n) /\ n[i] = a[i]
  BY <1>2
<1>4. d.do \notin Opening \cup Breaking \cup Moving \cup {"forget", "remove members"}
  BY DEF Opening, Breaking, Moving
<1>5. OpensFirst(a) /\ RefreshFollows(a) /\ MovesFit(a) /\ ForgetsFit(a) /\ ListsOnce(a)
  BY DEF Ordered
<1>6. OpensFirst(n) /\ RefreshFollows(n)
  BY <1>3, <1>4, <1>5 DEF OpensFirst, RefreshFollows
<1>7. ListsOnce(n)
  BY <1>3, <1>4, <1>5 DEF ListsOnce
<1>8. \A w : Writes(a, w) => Writes(n, w)
  BY <1>3 DEF Writes
<1>9. MovesFit(n)
  <2>1. SUFFICES ASSUME NEW i \in 1..Len(n), n[i].do \in Moving
                 PROVE  /\ Writes(n, n[i].to)
                        /\ n[i].do # "rename" => n[i].to = n[i].w
                        /\ n[i].do = "move" => registered[n[i].p] \in {n[i].w, Nowhere} \/ Writes(n, registered[n[i].p])
                        /\ \A j \in 1..Len(n) : n[j].do \notin {"forget", "remove members"}
    BY DEF MovesFit
  <2>2. i \in 1..Len(a) /\ n[i] = a[i]
    BY <1>3, <1>4, <2>1
  <2>3. \A j \in 1..Len(n) : n[j].do \notin {"forget", "remove members"}
    BY <1>3, <1>4, <1>5, <2>1, <2>2 DEF MovesFit
  <2>. QED BY <1>5, <1>8, <2>1, <2>2, <2>3 DEF MovesFit
<1>10. \A p : Forgets(a, p) => Forgets(n, p)
  BY <1>3 DEF Forgets
<1>11. \A w : Doomed(a, w) => Doomed(n, w)
  BY <1>10 DEF Doomed
<1>12. ForgetsFit(n)
  <2>1. SUFFICES ASSUME NEW i \in 1..Len(n), n[i].do = "forget" PROVE ForgetFits(n, i)
    BY DEF ForgetsFit
  <2>2. i \in 1..Len(a) /\ n[i] = a[i]
    BY <1>3, <1>4, <2>1
  <2>3. ForgetFits(a, i)
    BY <1>5, <2>1, <2>2 DEF ForgetsFit
  <2>4. \A j \in 1..Len(n) : n[j].do = "forget" => j \in 1..Len(a) /\ n[j] = a[j]
    BY <1>3, <1>4
  <2>. QED BY <1>3, <1>11, <2>2, <2>3, <2>4 DEF ForgetFits
<1>. QED BY <1>1, <1>6, <1>7, <1>9, <1>12 DEF Ordered

-----------------------------------------------------------------------------
(* The calls, when nothing is under way. *)

\* Short sequences, element by element.
LEMMA Single ==
    ASSUME NEW T, NEW a \in T
    PROVE  <<a>> \in Seq(T) /\ Len(<<a>>) = 1 /\ <<a>>[1] = a
  OBVIOUS

LEMMA TwoSinglesJoined ==
    ASSUME NEW T, NEW x \in Seq(T), NEW y \in Seq(T), Len(x) = 1, Len(y) = 1
    PROVE  x \o y \in Seq(T) /\ Len(x \o y) = 2 /\ (x \o y)[1] = x[1] /\ (x \o y)[2] = y[1]
<1>1. /\ x \o y \in Seq(T) /\ Len(x \o y) = Len(x) + Len(y)
      /\ \A i \in 1..Len(x) : (x \o y)[i] = x[i]
      /\ \A i \in 1..Len(y) : (x \o y)[Len(x) + i] = y[i]
  BY Joined
<1>2. PICK h : h = x \o y
  OBVIOUS
<1>3. /\ h \in Seq(T) /\ Len(h) = Len(x) + Len(y)
      /\ \A i \in 1..Len(x) : h[i] = x[i]
      /\ \A i \in 1..Len(y) : h[Len(x) + i] = y[i]
  BY <1>1, <1>2, Zenon
<1>4. h \in Seq(T) /\ Len(h) = 2 /\ h[1] = x[1] /\ h[2] = y[1]
  BY <1>3
<1>. QED BY <1>2, <1>4, Zenon

LEMMA SingleAppended ==
    ASSUME NEW T, NEW h \in Seq(T), NEW z \in Seq(T), Len(h) = 2, Len(z) = 1, NEW a, a = h \o z
    PROVE  Len(a) = 3 /\ a[1] = h[1] /\ a[2] = h[2] /\ a[3] = z[1]
<1>1. /\ a \in Seq(T) /\ Len(a) = Len(h) + Len(z)
      /\ \A i \in 1..Len(h) : a[i] = h[i]
      /\ \A i \in 1..Len(z) : a[Len(h) + i] = z[i]
  <2>1. /\ h \o z \in Seq(T) /\ Len(h \o z) = Len(h) + Len(z)
        /\ \A i \in 1..Len(h) : (h \o z)[i] = h[i]
        /\ \A i \in 1..Len(z) : (h \o z)[Len(h) + i] = z[i]
    BY Joined, SMTT(40)
  <2>. QED BY <2>1, Zenon
<1>2. Len(a) = 2 + 1 /\ 1 \in 1..Len(h) /\ 2 \in 1..Len(h) /\ 1 \in 1..Len(z)
  BY <1>1
<1>3. a[1] = h[1] /\ a[2] = h[2] /\ a[Len(h) + 1] = z[1]
  BY <1>1, <1>2, Zenon
<1>. QED BY <1>2, <1>3

LEMMA ThreeJoined ==
    ASSUME NEW b, NEW c, NEW d, NEW a, a = <<b>> \o <<c>> \o <<d>>
    PROVE  Len(a) = 3 /\ a[1] = b /\ a[2] = c /\ a[3] = d
<1> DEFINE T == {b, c, d}
<1>1. PICK x : x = <<b>>
  OBVIOUS
<1>2. PICK y : y = <<c>>
  OBVIOUS
<1>3. PICK z : z = <<d>>
  OBVIOUS
<1>4. /\ x \in Seq(T) /\ Len(x) = 1 /\ x[1] = b
      /\ y \in Seq(T) /\ Len(y) = 1 /\ y[1] = c
      /\ z \in Seq(T) /\ Len(z) = 1 /\ z[1] = d
  BY <1>1, <1>2, <1>3, Single
<1>5. PICK h : h = x \o y
  OBVIOUS
<1> HIDE DEF T
<1>6. h \in Seq(T) /\ Len(h) = 2 /\ h[1] = x[1] /\ h[2] = y[1]
  <2>1. x \o y \in Seq(T) /\ Len(x \o y) = 2 /\ (x \o y)[1] = x[1] /\ (x \o y)[2] = y[1]
    BY <1>4, TwoSinglesJoined
  <2>. QED BY <1>5, <2>1, Zenon
<1>7. a = h \o z
  BY <1>1, <1>2, <1>3, <1>5, Zenon
<1>8. Len(a) = 3 /\ a[1] = h[1] /\ a[2] = h[2] /\ a[3] = z[1]
  BY <1>4, <1>6, <1>7, SingleAppended
<1>. QED BY <1>4, <1>6, <1>8, Zenon

LEMMA TwoJoined ==
    ASSUME NEW b, NEW d, NEW a, a = <<b>> \o <<>> \o <<d>>
    PROVE  Len(a) = 2 /\ a[1] = b /\ a[2] = d
  OBVIOUS

LEMMA SixJoined ==
    ASSUME NEW b, NEW c, NEW d, NEW e, NEW f, NEW g, NEW a, a = <<b>> \o <<c, d>> \o <<e, f, g>>
    PROVE  Len(a) = 6 /\ a[1] = b /\ a[2] = c /\ a[3] = d /\ a[4] = e /\ a[5] = f /\ a[6] = g
  OBVIOUS

LEMMA OneToSix ==
    /\ \A i \in 1..6 : i = 1 \/ i = 2 \/ i = 3 \/ i = 4 \/ i = 5 \/ i = 6
    /\ 4 \in 1..6 /\ 6 \in 1..6 /\ 6 > 5 /\ 4 > 3
  OBVIOUS

LEMMA AddPlans ==
    ASSUME NEW p, NEW w, Tidy, Reached
    PROVE  Ordered(Add(p, w))
<1>1. PICK a : a = Add(p, w)
  OBVIOUS
<1>2. /\ Len(a) = 3
      /\ a[1].do = "register" /\ a[1].w = w /\ a[1].to = w
      /\ a[2].do = "json" /\ a[2].w = w /\ a[3].do = "refresh"
  BY <1>1 DEF Add, Step, Of
<1>3. (\A i \in 1..Len(a) : i = 1 \/ i = 2 \/ i = 3) /\ 2 \in 1..Len(a)
  BY <1>2
<1>4. Writes(a, w)
  BY <1>2, <1>3 DEF Writes
<1>5. OpensFirst(a) /\ RefreshFollows(a)
  BY <1>2, <1>3 DEF OpensFirst, RefreshFollows, Opening, Breaking
<1>6. MovesFit(a)
  BY <1>2, <1>3, <1>4 DEF MovesFit, Moving
<1>7. ForgetsFit(a) /\ ListsOnce(a)
  BY <1>2, <1>3 DEF ForgetsFit, ListsOnce
<1>. QED BY <1>1, <1>5, <1>6, <1>7 DEF Ordered

LEMMA MovePlans ==
    ASSUME NEW p, NEW w, registered[p] # Nowhere, Tidy, Reached
    PROVE  Ordered(Move(p, w))
<1>b. PICK b : b = Step("move", p, w)
  OBVIOUS
<1>c. PICK c : c = Of("json", registered[p])
  OBVIOUS
<1>d. PICK d : d = Of("json", w)
  OBVIOUS
<1>0. /\ b.do = "move" /\ b.p = p /\ b.w = w /\ b.to = w
      /\ c.do = "json" /\ c.w = registered[p]
      /\ d.do = "json" /\ d.w = w
  BY <1>b, <1>c, <1>d DEF Step, Of
<1>1. Move(p, w) = <<b>> \o (IF registered[p] # w THEN <<c>> ELSE <<>>) \o <<d>>
  BY <1>b, <1>c, <1>d DEF Move
<1>2. PICK a : a = Move(p, w)
  OBVIOUS
<1>3. CASE registered[p] = w
  <2>1. a = <<b>> \o <<>> \o <<d>>
    BY <1>1, <1>2, <1>3
  <2>2. Len(a) = 2 /\ a[1] = b /\ a[2] = d
    BY <2>1, TwoJoined
  <2>3. (\A i \in 1..Len(a) : i = 1 \/ i = 2) /\ 2 \in 1..Len(a)
    BY <2>2
  <2>4. Writes(a, w)
    BY <1>0, <2>2, <2>3 DEF Writes
  <2>5. OpensFirst(a) /\ RefreshFollows(a)
    BY <1>0, <2>2, <2>3 DEF OpensFirst, RefreshFollows, Opening, Breaking
  <2>6. MovesFit(a)
    BY <1>0, <1>3, <2>2, <2>3, <2>4 DEF MovesFit, Moving
  <2>7. ForgetsFit(a) /\ ListsOnce(a)
    BY <1>0, <2>2, <2>3 DEF ForgetsFit, ListsOnce
  <2>. QED BY <1>2, <2>5, <2>6, <2>7 DEF Ordered
<1>4. CASE registered[p] # w
  <2>1. a = <<b>> \o <<c>> \o <<d>>
    BY <1>1, <1>2, <1>4
  <2>2. Len(a) = 3 /\ a[1] = b /\ a[2] = c /\ a[3] = d
    BY <2>1, ThreeJoined
  <2>3. /\ (\A i \in 1..Len(a) : i = 1 \/ i = 2 \/ i = 3) /\ 2 \in 1..Len(a) /\ 3 \in 1..Len(a)
    BY <2>2
  <2>4. Writes(a, w) /\ Writes(a, registered[p])
    BY <1>0, <2>2, <2>3 DEF Writes
  <2>5. OpensFirst(a) /\ RefreshFollows(a)
    BY <1>0, <2>2, <2>3 DEF OpensFirst, RefreshFollows, Opening, Breaking
  <2>6. MovesFit(a)
    BY <1>0, <1>4, <2>2, <2>3, <2>4 DEF MovesFit, Moving
  <2>7. ForgetsFit(a) /\ ListsOnce(a)
    BY <1>0, <2>2, <2>3 DEF ForgetsFit, ListsOnce
  <2>. QED BY <1>2, <2>5, <2>6, <2>7 DEF Ordered
<1>. QED BY <1>3, <1>4

LEMMA RenamePlans ==
    ASSUME NEW old, NEW new, Tidy, Reached
    PROVE  Ordered(RenameTo(old, new))
<1>1. PICK a : a = RenameTo(old, new)
  OBVIOUS
<1>2. /\ Len(a) = 3
      /\ a[1].do = "rename" /\ a[1].w = old /\ a[1].to = new
      /\ a[2].do = "json" /\ a[2].w = new /\ a[3].do = "refresh"
  BY <1>1 DEF RenameTo, Step, Of
<1>3. (\A i \in 1..Len(a) : i = 1 \/ i = 2 \/ i = 3) /\ 2 \in 1..Len(a) /\ 3 \in 1..Len(a) /\ 3 > 1
  BY <1>2
<1>4. Writes(a, new)
  BY <1>2, <1>3 DEF Writes
<1>5. OpensFirst(a) /\ RefreshFollows(a)
  BY <1>2, <1>3 DEF OpensFirst, RefreshFollows, Opening, Breaking
<1>6. MovesFit(a)
  BY <1>2, <1>3, <1>4 DEF MovesFit, Moving
<1>7. ForgetsFit(a) /\ ListsOnce(a)
  BY <1>2, <1>3 DEF ForgetsFit, ListsOnce
<1>. QED BY <1>1, <1>5, <1>6, <1>7 DEF Ordered

LEMMA DeleteWorkspacePlans ==
    ASSUME NEW w, Tidy, Reached
    PROVE  Ordered(DeleteWorkspace(w))
<1>1. PICK a : a = DeleteWorkspace(w)
  OBVIOUS
<1>2. /\ Len(a) = 6
      /\ a[1].do = "refuse if live" /\ a[2].do = "stop workspace" /\ a[3].do = "remove members"
      /\ a[4].do = "drop folder" /\ a[5].do = "release" /\ a[6].do = "refresh"
  BY <1>1 DEF DeleteWorkspace, Step, Of
<1>3. (\A i \in 1..Len(a) : i = 1 \/ i = 2 \/ i = 3 \/ i = 4 \/ i = 5 \/ i = 6) /\ 6 \in 1..Len(a) /\ 6 > 5
  BY <1>2, OneToSix, Zenon
<1>5. OpensFirst(a) /\ RefreshFollows(a)
  BY <1>2, <1>3 DEF OpensFirst, RefreshFollows, Opening, Breaking
<1>6. MovesFit(a) /\ ForgetsFit(a) /\ ListsOnce(a)
  BY <1>2, <1>3 DEF MovesFit, Moving, ForgetsFit, ListsOnce
<1>. QED BY <1>1, <1>5, <1>6 DEF Ordered

LEMMA DeleteProjectPlans ==
    ASSUME NEW p, NEW w, w = registered[p], w # Nowhere, Tidy, Reached
    PROVE  Ordered(DeleteProject(p, w))
<1> DEFINE b == Of("refuse if live", w)
           c == Step("remove", p, Nowhere)
           d == Step("forget", p, Nowhere)
           e == Of("json", w)
           f == Of("drop if empty", w)
           g == Of("refresh", w)
<1>0. /\ b.do = "refuse if live" /\ c.do = "remove" /\ d.do = "forget" /\ d.p = p
      /\ e.do = "json" /\ e.w = w /\ f.do = "drop if empty" /\ g.do = "refresh"
  BY DEF Step, Of
<1>1. DeleteProject(p, w) = <<b>> \o <<c, d>> \o <<e, f, g>>
  BY DEF DeleteProject, RemovalOf
<1>2. PICK a : a = DeleteProject(p, w)
  OBVIOUS
<1> HIDE DEF b, c, d, e, f, g
<1>3. Len(a) = 6 /\ a[1] = b /\ a[2] = c /\ a[3] = d /\ a[4] = e /\ a[5] = f /\ a[6] = g
  BY <1>1, <1>2, SixJoined
<1>4. /\ (\A i \in 1..Len(a) : i = 1 \/ i = 2 \/ i = 3 \/ i = 4 \/ i = 5 \/ i = 6)
      /\ 4 \in 1..Len(a) /\ 6 \in 1..Len(a) /\ 6 > 5 /\ 4 > 3
  BY <1>3, OneToSix, Zenon
<1>5. OpensFirst(a) /\ RefreshFollows(a)
  BY <1>0, <1>3, <1>4 DEF OpensFirst, RefreshFollows, Opening, Breaking
<1>6. MovesFit(a) /\ ListsOnce(a)
  BY <1>0, <1>3, <1>4 DEF MovesFit, Moving, ListsOnce
<1>7. \A i \in 1..Len(a) : a[i].do = "forget" => i = 3
  BY <1>0, <1>3, <1>4
<1>8. ForgetsFit(a)
  BY <1>0, <1>3, <1>4, <1>7 DEF ForgetsFit, ForgetFits
<1>. QED BY <1>2, <1>5, <1>6, <1>8 DEF Ordered

LEMMA DeleteAllPlans ==
    ASSUME StoresTyped
    PROVE  Ordered(DeleteAll)
<1> DEFINE S == {p \in Projects : registered[p] # Nowhere}
<1>1. PICK a : a = DeleteAll
  OBVIOUS
<1>2. RemovesEach(a, S)
  BY <1>1, RemovalsAre DEF DeleteAll, Listed
<1>3. \A i \in 1..Len(a) : a[i].do \in {"remove", "forget"}
  <2>1. a \in Seq(StepsOf({"remove", "forget"}))
    BY <1>2 DEF RemovesEach
  <2>. QED BY <2>1, Elements, StepsSuit
<1>4. \A p \in S : Forgets(a, p)
  BY <1>2 DEF RemovesEach, Forgets
<1>5. \A w : w # Nowhere => Doomed(a, w)
  BY <1>4 DEF Doomed, Members
<1>6. OpensFirst(a) /\ RefreshFollows(a) /\ MovesFit(a) /\ ListsOnce(a)
  <2>1. /\ \A i \in 1..Len(a) : a[i].do \notin Opening \cup Breaking \cup Moving /\ a[i].do # "remove members"
    BY <1>3 DEF Opening, Breaking, Moving
  <2>. QED BY <2>1 DEF OpensFirst, RefreshFollows, MovesFit, ListsOnce
<1>7. ForgetsFit(a)
  <2>1. SUFFICES ASSUME NEW i \in 1..Len(a), a[i].do = "forget" PROVE ForgetFits(a, i)
    BY DEF ForgetsFit
  <2>2. a[i].p \in S
    BY <1>2, <2>1 DEF RemovesEach
  <2>3. registered[a[i].p] # Nowhere
    BY <2>2
  <2>4. \A j \in 1..Len(a) : a[j].do = "forget" /\ a[j].p = a[i].p => i = j
    BY <1>2, <2>1 DEF RemovesEach
  <2>. QED BY <1>5, <2>3, <2>4 DEF ForgetFits
<1>. QED BY <1>1, <1>6, <1>7 DEF Ordered

-----------------------------------------------------------------------------
(* The invariant holds always. *)

LEMMA OneStepPlans ==
    ASSUME NEW s, s.do \in PlainDos
    PROVE  Ordered(<<s>>)
<1>1. PICK m : m = <<s>>
  OBVIOUS
<1>2. \A i \in 1..Len(m) : m[i] = s
  BY <1>1
<1>3. Ordered(m)
  BY <1>2, PlainPlans
<1>. QED BY <1>1, <1>3

LEMMA AskedPlans ==
    ASSUME StoresTyped, Tidy, Reached, NEW call, NEW p \in Projects \cup {NoProject}, NEW w \in Names,
           NEW m \in Asked(call, p, w)
    PROVE  Ordered(m)
<1> DEFINE there == p # NoProject /\ registered[p] # Nowhere
<1>1. \/ m = Add(p, w)
      \/ there /\ m = Move(p, w)
      \/ \E v \in Names : m = RenameTo(w, v)
      \/ m = DeleteWorkspace(w)
      \/ there /\ w = registered[p] /\ m = DeleteProject(p, w)
      \/ m = DeleteAll
      \/ m = <<Step("start project", p, w)>>
      \/ m = <<Step("stop project", p, w)>>
      \/ m = StopAll
      \/ m = <<Of("deploy", w)>>
  BY DEF Asked
<1>2. CASE m = Add(p, w)
  BY <1>2, AddPlans
<1>3. CASE there /\ m = Move(p, w)
  BY <1>3, MovePlans
<1>4. CASE \E v \in Names : m = RenameTo(w, v)
  BY <1>4, RenamePlans
<1>5. CASE m = DeleteWorkspace(w)
  BY <1>5, DeleteWorkspacePlans
<1>6. CASE there /\ w = registered[p] /\ m = DeleteProject(p, w)
  BY <1>6, DeleteProjectPlans
<1>7. CASE m = DeleteAll
  BY <1>7, DeleteAllPlans
<1>8. /\ Step("start project", p, w).do \in PlainDos /\ Step("stop project", p, w).do \in PlainDos
      /\ Of("deploy", w).do \in PlainDos
  BY DEF Step, Of, PlainDos, MainDos, Opening, Breaking
<1>9. CASE m = <<Step("start project", p, w)>> \/ m = <<Step("stop project", p, w)>> \/ m = <<Of("deploy", w)>>
  BY <1>8, <1>9, OneStepPlans, Zenon
<1>10. CASE m = StopAll
  <2>1. SharedDos \subseteq PlainDos
    BY DEF SharedDos, PlainDos, MainDos, Opening, Breaking
  <2>. QED BY <1>10, <2>1, AllListedTyped, PlainStepsPlan
<1>. QED BY <1>1, <1>2, <1>3, <1>4, <1>5, <1>6, <1>7, <1>9, <1>10

\* Between two commands files and endpoints are as they should be.
LEMMA IdleIsTidy ==
    ASSUME MainFits, todo[Main] = <<>>
    PROVE  Tidy /\ Reached
<1>1. PICK m \in {todo[Main]} : Fits(m)
  BY DEF MainFits
<1>2. \A i \in 1..Len(m) : FALSE
  BY <1>1
<1>. QED BY <1>1, <1>2 DEF Fits, FilesFollow, EndpointsFollow, Tidy, Writes, Doomed, Forgets

LEMMA PlannedFits ==
    ASSUME NEW m, Ordered(m), Tidy, Reached, UNCHANGED <<registered, json, entries, deployed>>
    PROVE  Fits(m)'
<1>1. Tidy' /\ Reached' /\ \A w : Members(w)' = Members(w)
  BY TidyStays, ReachedStays DEF Members
<1>2. Fits(m)
  BY DEF Fits, FilesFollow, EndpointsFollow, Tidy, Doomed
<1>3. (\A w \in Names : Clean(w) => Clean(w)') /\ (Reached => Reached')
  BY <1>1, CleanStays
<1>. QED BY <1>2, <1>3, OthersFit

LEMMA CallFits ==
    ASSUME WorkspacesTyped, MainFits, NEW call, NEW p \in Projects \cup {NoProject}, NEW w \in Names,
           Call(call, p, w)
    PROVE  MainFits'
<1>0. StoresTyped /\ TodoTyped
  BY DEF WorkspacesTyped
<1>1. todo[Main] = <<>> /\ UNCHANGED <<registered, json, entries, deployed>>
  BY DEF Call, stores
<1>2. PICK a \in Asked(call, p, w) : todo' = [todo EXCEPT ![Main] = a \o <<Of("dashboard", w)>>]
  BY DEF Call
<1>3. Tidy /\ Reached
  BY <1>1, IdleIsTidy
<1>4. Ordered(a) /\ a \in Seq(StepsOf(MainDos))
  BY <1>0, <1>3, AskedPlans, AskedTyped
<1>5. Of("dashboard", w) \in StepsOf(MainDos) /\ Of("dashboard", w).do = "dashboard"
  <2>1. "dashboard" \in MainDos /\ "dashboard" \notin ProjectDos /\ "dashboard" \notin PlacedDos
    BY DEF MainDos, ProjectDos, PlacedDos
  <2>. QED BY <2>1, OfTyped DEF Of, Step
<1>6. PICK m : m = a \o <<Of("dashboard", w)>>
  OBVIOUS
<1>7. Ordered(m)
  <2>1. PICK d : d = Of("dashboard", w)
    OBVIOUS
  <2>2. Ordered(a \o <<d>>)
    BY <1>4, <1>5, <2>1, AppendedPlans
  <2>. QED BY <1>6, <2>1, <2>2
<1>8. Fits(m)'
  BY <1>1, <1>3, <1>7, PlannedFits
<1>9. todo'[Main] = m
  <2>1. todo' = [todo EXCEPT ![Main] = m]
    BY <1>2, <1>6
  <2>. QED BY <1>0, <2>1, TodoOfMain
<1>. QED BY <1>8, <1>9 DEF MainFits

LEMMA FitsAtFirst == WorkspacesInit => MainFits
<1> SUFFICES ASSUME WorkspacesInit PROVE MainFits
  OBVIOUS
<1>1. PICK m : m = todo[Main]
  OBVIOUS
<1>2. \A i \in 1..Len(m) : FALSE
  BY <1>1 DEF WorkspacesInit, Threads
<1>3. Tidy /\ Reached
  BY DEF WorkspacesInit, Tidy, Clean, Reached
<1>4. Ordered(m)
  BY <1>2 DEF Ordered, OpensFirst, RefreshFollows, MovesFit, ForgetsFit, ListsOnce
<1>5. Fits(m)
  BY <1>3, <1>4 DEF Fits, FilesFollow, EndpointsFollow, Tidy, Doomed
<1>. QED BY <1>1, <1>5 DEF MainFits

LEMMA FitsNext == WorkspacesTyped /\ MainFits /\ [WorkspacesNext]_wsVars => MainFits'
<1> SUFFICES ASSUME WorkspacesTyped, MainFits, [WorkspacesNext]_wsVars PROVE MainFits'
  OBVIOUS
<1>1. ASSUME NEW call, NEW p \in Projects \cup {NoProject}, NEW w \in Names, Call(call, p, w)
      PROVE  MainFits'
  BY <1>1, CallFits
<1>2. CASE FleetCall("start all", StartAll) \/ FleetCall("reload all", ReloadAll)
  BY <1>2, AroundFits
<1>3. ASSUME NEW w \in Used, FleetCall("toggle", <<Of("toggle", w)>>)
      PROVE  MainFits'
  BY <1>3, AroundFits
<1>4. CASE StudioRestart
  BY <1>4, AroundFits
<1>5. ASSUME NEW q \in Ports, Import(q) PROVE MainFits'
  BY <1>5, AroundFits
<1>6. ASSUME NEW t \in Threads, StepOf(t) PROVE MainFits'
  <2>1. t = Main \/ t = Fleet
    BY DEF Threads
  <2>. QED BY <1>6, <2>1, MainStepFits, FleetStepFits
<1>7. CASE UNCHANGED wsVars
  BY <1>7, AroundFits
<1>. QED BY <1>1, <1>2, <1>3, <1>4, <1>5, <1>6, <1>7 DEF WorkspacesNext

LEMMA FitsAlways == WorkspacesSpec => [](WorkspacesTyped /\ MainFits)
<1>1. WorkspacesInit => WorkspacesTyped /\ MainFits
  BY TypedAtFirst, FitsAtFirst
<1>2. WorkspacesTyped /\ MainFits /\ [WorkspacesNext]_wsVars => (WorkspacesTyped /\ MainFits)'
  BY WorkspacesTypedNext, FitsNext
<1>. QED BY <1>1, <1>2, PTL DEF WorkspacesSpec

LEMMA QuietIsTidy ==
    ASSUME WorkspacesTyped, MainFits, Quiet
    PROVE  Used \subseteq Names /\ Tidy /\ Reached
<1>1. todo[Main] = <<>>
  BY DEF Quiet, Threads
<1>. QED BY <1>1, IdleIsTidy, UsedNames DEF WorkspacesTyped

\* When nothing is under way, the file of a workspace lists no project that
\* belongs to another one (manager_service.rs: every command that moves,
\* renames, deletes or registers writes the files it invalidates), for any
\* projects, names, ports and histories.
THEOREM FilesAreOwn == WorkspacesSpec => []NoForeignProjects
<1>1. WorkspacesTyped /\ MainFits => NoForeignProjects
  BY QuietIsTidy DEF NoForeignProjects, Tidy, Clean, Used, Members
<1>. QED BY <1>1, FitsAlways, PTL

\* When nothing is under way, a client that was given an endpoint for a
\* workspace reaches the port of that workspace (manager_service.rs,
\* refresh_deployed_configs): a command that takes a port away, or gives it to
\* another name, refreshes the clients after it.
THEOREM EndpointsReach == WorkspacesSpec => []DeployedReaches
<1>1. WorkspacesTyped /\ MainFits => DeployedReaches
  BY QuietIsTidy DEF DeployedReaches, Reached
<1>. QED BY <1>1, FitsAlways, PTL

-----------------------------------------------------------------------------
(* Settings next to workspaces. *)

\* The files of Studio, settings.json and those of workspaces, are what their
\* readers expect in each part the runs look at.
THEOREM ConfigTypeCorrect == ConfigSpec => []ConfigTypeOK
<1>1. ConfigInit => SettingsInit /\ WorkspacesInit
  BY DEF ConfigInit
<1>2. [ConfigNext]_<<settingsVars, wsVars, part>> => [SettingsNext]_settingsVars /\ [WorkspacesNext]_wsVars
  BY DEF ConfigNext
<1>3. ConfigSpec => SettingsSpec /\ WorkspacesSpec
  BY <1>1, <1>2, PTL DEF ConfigSpec, SettingsSpec, WorkspacesSpec
<1>4. SettingsTypeOK /\ WorkspacesTypeOK => ConfigTypeOK
  BY DEF ConfigTypeOK
<1>. QED BY <1>3, <1>4, SettingsTypeCorrect, WorkspacesTypeCorrect, PTL
=============================================================================
