--------------------------- MODULE RuntimeManager ---------------------------
(***************************************************************************)
(* src-tauri/src/runtime_manager.rs: the part of jawata-studio that        *)
(* launches, joins, adopts, watches and stops the resident jawata          *)
(* processes, one per workspace, shared by the workspace's projects.       *)
(*                                                                         *)
(* RuntimeManager is called by several Studio threads at once (Tauri       *)
(* commands, the tray's fleet actions, the background pollers), so every   *)
(* operation is a small program: one action for each stretch of code that  *)
(* runs under a lock or makes one call to the operating system, and a      *)
(* program counter per thread.                                             *)
(***************************************************************************)
EXTENDS Naturals, FiniteSets

CONSTANTS
    Threads,          \* Studio threads that call the manager
    Projects,         \* configured project ids
    Workspaces,       \* workspace names
    WorkspaceOf,      \* the workspace_name of each project
    Pids,             \* process ids the operating system may hand out
    NoPid,            \* "no process id" (None)
    OpsOf,            \* the operations each thread may call
    ProbeMayTimeOut,  \* may resident_answers miss a live resident (500 ms)?
    PidMayBeHidden,   \* may pid_listening_on fail (no ss, lsof, netstat)?
    MaxOps,           \* bound: calls other than get_runtime_status
    MaxDeaths,        \* bound: residents that crash or are killed from outside
    MaxRestarts,      \* bound: times Studio itself stops and comes back
    MaxRecycles       \* bound: pids handed to processes that are not residents

OpNames == {"start", "stop", "stopWs", "status", "remove"}

ASSUME RuntimeManagerAssumption ==
    /\ Projects # {} /\ Workspaces # {}
    /\ WorkspaceOf \in [Projects -> Workspaces]
    /\ NoPid \notin Pids
    /\ OpsOf \in [Threads -> SUBSET OpNames]
    /\ ProbeMayTimeOut \in BOOLEAN /\ PidMayBeHidden \in BOOLEAN
    /\ MaxOps \in Nat /\ MaxDeaths \in Nat
    /\ MaxRestarts \in Nat /\ MaxRecycles \in Nat

VARIABLES
    handles,    \* the handles map: a ManagedRuntime (or none) per workspace
    snapshots,  \* the snapshots map: the last status record of each project
    stateFile,  \* what read_runtime_state would make of runtime-state.json now
    threads,    \* the call each thread is executing, and its locals
    procs,      \* the operating system's process table
    budget      \* what is left of the bounds

vars == <<handles, snapshots, stateFile, threads, procs, budget>>

-----------------------------------------------------------------------------
(* Types. *)

Phases == {"Stopped", "Starting", "Running", "Failed"}

\* RuntimePhase::is_live
IsLive(phase) == phase \in {"Running", "Starting"}

\* RuntimeStatusRecord. A project without a record reads as Stopped.
Snapshot == [phase : Phases, pid : Pids \cup {NoPid}]
NoSnapshot == [phase |-> "Stopped", pid |-> NoPid]
NoSnapshots == [p \in Projects |-> NoSnapshot]

\* RuntimeProcess, and the ManagedRuntime around it.
NoHandle == [pid |-> NoPid, kind |-> "None", members |-> {}]
Handle == {NoHandle} \cup
          [pid : Pids, kind : {"Owned", "Adopted"}, members : SUBSET Projects]

\* "starting" has not bound its port yet, "serving" answers on it. A "zombie"
\* is an exited child of this Studio that nobody has waited for: its pid stays
\* taken. "stranger" is a process that is no resident.
ProcStates == {"free", "starting", "serving", "zombie", "stranger"}
Proc == [st      : ProcStates,
         ws      : Workspaces,
         child   : BOOLEAN,   \* spawned by the Studio that runs now
         ready   : BOOLEAN,   \* its READY line has been read
         consent : BOOLEAN,   \* launched with allowSchemaUpgrade
         ended   : {"none", "exited", "stopped"}]  \* how the pid's last resident
                              \* ended: by itself or by the manager (auxiliary)

NoProc == [st |-> "free", ws |-> CHOOSE w \in Workspaces : TRUE, child |-> FALSE,
           ready |-> FALSE, consent |-> FALSE, ended |-> "none"]

Pcs == {"idle", "spec", "join", "rejoin", "look", "expected", "fallback",
        "contains", "probe", "discover", "insert", "spawn", "own",
        "take", "find", "leave", "kill", "verify", "answers", "signal",
        "mark", "forget", "persist", "open", "write", "overwrite"}

\* Where a call goes on after persist_snapshot.
Returns == {"idle", "contains", "spawn", "take", "fallback", "expected", "mark"}

Thread == [pc      : Pcs,
           op      : OpNames,
           project : Projects,
           hand    : Handle,             \* the process this call holds itself
           found   : Pids \cup {NoPid},  \* try_adopt: the pid discovered
           members : SUBSET Projects,    \* try_adopt, stop_workspace_runtime
           consent : BOOLEAN,            \* the command spec
           rec     : Snapshot,           \* persist_snapshot's argument
           next    : Returns,            \* where persist_snapshot returns to
           copy    : [Projects -> Snapshot],  \* the clone it will write
           seen    : Pids \cup {NoPid}]  \* Findable at the call (auxiliary)

TypeOK ==
    /\ handles \in [Workspaces -> Handle]
    /\ snapshots \in [Projects -> Snapshot]
    /\ stateFile \in [Projects -> Snapshot]
    /\ threads \in [Threads -> Thread]
    /\ procs \in [Pids -> Proc]
    /\ budget \in [ops : Nat, deaths : Nat, restarts : Nat, recycles : Nat]

-----------------------------------------------------------------------------
(* The process table. *)

Alive(x) == procs[x].st \in {"starting", "serving"}

Serving(w) == {x \in Pids : procs[x].st = "serving" /\ procs[x].ws = w}

\* resident_answers: a live resident of w answers health_check in time.
Answers(w) ==
    IF Serving(w) = {} THEN {FALSE}
    ELSE IF ProbeMayTimeOut THEN BOOLEAN ELSE {TRUE}

\* pid_listening_on
Listeners(w) ==
    IF Serving(w) = {} THEN {NoPid}
    ELSE Serving(w) \cup (IF PidMayBeHidden THEN {NoPid} ELSE {})

\* A process ends. A child of this Studio stays a zombie until it is waited for.
Ended(x, how) ==
    [NoProc EXCEPT !.st = IF procs[x].child THEN "zombie" ELSE "free",
                   !.child = procs[x].child,
                   !.ended = how]

\* Its pid is free again: waited for, or never a child.
Freed(x) == [NoProc EXCEPT !.ended = procs[x].ended]

MutantAdoptedNeverDead(h) == h.kind = "Owned" /\ procs[h.pid].st = "zombie"

\* Owned: try_wait. Adopted: process_alive, kill -0, which a zombie, or
\* whatever process has the pid by now, answers too.
IsDead(h) ==
    \/ h.kind = "Owned" /\ procs[h.pid].st = "zombie"
    \/ h.kind = "Adopted" /\ procs[h.pid].st = "free"

\* try_wait reaps the child it finds dead.
Reaped(h) ==
    IF h.kind = "Owned" THEN [procs EXCEPT ![h.pid] = Freed(h.pid)] ELSE procs

\* The phase of a live handle: READY, or the two-second guess.
LivePhases(h) ==
    IF h.kind = "Adopted" \/ procs[h.pid].ready
    THEN {"Running"} ELSE {"Starting", "Running"}

-----------------------------------------------------------------------------
(* Threads. *)

IdleThread ==
    [pc |-> "idle", op |-> "status", project |-> CHOOSE p \in Projects : TRUE,
     hand |-> NoHandle, found |-> NoPid, members |-> {}, consent |-> FALSE,
     rec |-> NoSnapshot, next |-> "idle", copy |-> NoSnapshots, seen |-> NoPid]

Ws(t) == WorkspaceOf[threads[t].project]

At(t, pc) == threads[t].pc = pc

\* The thread moves to pc, every other local kept.
Goto(t, pc) ==
    threads' = [threads EXCEPT ![t] =
                  IF pc = "idle" THEN IdleThread ELSE [@ EXCEPT !.pc = pc]]

\* The thread calls persist_snapshot(rec) and then continues at next.
Persist(t, rec, next) ==
    threads' = [threads EXCEPT ![t] =
                   [@ EXCEPT !.pc = "persist",
                             !.rec = rec,
                             !.next = next]]

Record(phase, pid) == [phase |-> phase, pid |-> pid]

\* Where a caller goes on when try_adopt gave it a status, or none.
AfterAdopted(op) == IF op = "stop" THEN "take" ELSE "idle"
AfterNotAdopted(op) ==
    CASE op = "start" -> "spawn" [] op = "stop" -> "take" [] OTHER -> "fallback"

\* Where a caller goes on when the process it took out has been dealt with.
AfterKill(op) ==
    CASE op = "stop" -> "persist" [] op = "stopWs" -> "mark" [] OTHER -> "forget"

-----------------------------------------------------------------------------
(* A call begins. *)

MutantStopWithoutAdopting(op) ==
    CASE op = "start" -> "spec" [] op \in {"stop", "stopWs"} -> "take"
      [] op = "remove" -> "find" [] OTHER -> "look"

FirstPc(op) ==
    CASE op = "start"  -> "spec"
      [] op = "stop"   -> "contains"
      [] op = "stopWs" -> "take"
      [] op = "remove" -> "find"
      [] OTHER         -> "look"

\* The resident that serves w, when the map holds it or holds nothing for w.
Findable(w) ==
    IF \E x \in Serving(w) : handles[w].pid \in {x, NoPid}
    THEN CHOOSE x \in Serving(w) : TRUE ELSE NoPid

Call(t, op, p) ==
    /\ At(t, "idle") /\ op \in OpsOf[t]
    /\ \/ op = "status" /\ UNCHANGED budget
       \/ /\ op # "status" /\ budget.ops > 0
          /\ budget' = [budget EXCEPT !.ops = @ - 1]
    /\ threads' = [threads EXCEPT ![t] =
                     [IdleThread EXCEPT
                        !.pc = FirstPc(op), !.op = op, !.project = p,
                        !.seen = IF op = "stop" THEN Findable(WorkspaceOf[p])
                                   ELSE NoPid]]
    /\ UNCHANGED <<handles, snapshots, stateFile, procs>>

-----------------------------------------------------------------------------
(* persist_snapshot: the map changes and is cloned under its lock, and the  *)
(* file is written after the lock is released. fs::write truncates first;   *)
(* a truncated or a mangled file reads as no records at all.                *)

MutantPersistBeforeInsert(t) ==
    /\ At(t, "persist")
    /\ snapshots' = [snapshots EXCEPT ![threads[t].project] = threads[t].rec]
    /\ threads' = [threads EXCEPT ![t] =
                      [@ EXCEPT !.pc = "open",
                                !.copy = snapshots]]
    /\ UNCHANGED <<handles, stateFile, procs, budget>>

PersistMemory(t) ==
    /\ At(t, "persist")
    /\ snapshots' = [snapshots EXCEPT ![threads[t].project] = threads[t].rec]
    /\ threads' = [threads EXCEPT ![t] =
                      [@ EXCEPT !.pc = "open",
                                !.copy = snapshots']]
    /\ UNCHANGED <<handles, stateFile, procs, budget>>

OpenStateFile(t) ==
    /\ At(t, "open")
    /\ stateFile' = NoSnapshots
    /\ Goto(t, "write")
    /\ UNCHANGED <<handles, snapshots, procs, budget>>

\* A second writer between this one's truncation and its write may leave its
\* longer text's tail behind: what is then in the file may not parse.
WriteStateFile(t) ==
    /\ threads[t].pc \in {"write", "overwrite"}
    /\ \/ stateFile' = threads[t].copy
       \/ At(t, "overwrite") /\ stateFile' = NoSnapshots
    /\ LET moved == [u \in Threads |->
                       IF u # t /\ threads[u].pc = "write"
                       THEN [threads[u] EXCEPT !.pc = "overwrite"]
                       ELSE threads[u]]
       IN  threads' = [moved EXCEPT ![t] =
                         IF threads[t].next = "idle" THEN IdleThread
                         ELSE [@ EXCEPT !.pc = threads[t].next,
                                        !.copy = NoSnapshots]]
    /\ UNCHANGED <<handles, snapshots, procs, budget>>

-----------------------------------------------------------------------------
(* start_runtime *)

MutantAlwaysAlone(w) == TRUE

NoOtherWorkspaceRunning(w) == \A v \in Workspaces \ {w} : handles[v] = NoHandle

\* command_spec_for: consent to the store upgrade when no other workspace has
\* a handle. Read long before the process is launched.
CommandSpecFor(t) ==
    /\ At(t, "spec")
    /\ threads' = [threads EXCEPT ![t] =
                      [@ EXCEPT !.pc = "join",
                                !.consent = NoOtherWorkspaceRunning(Ws(t))]]
    /\ UNCHANGED <<handles, snapshots, stateFile, procs, budget>>

\* Where try_join_running_workspace's two callers go on after None.
AfterNoJoin(t) ==
    IF At(t, "join") THEN "contains" ELSE AfterNotAdopted(threads[t].op)

\* try_join_running_workspace, from start_runtime and from try_adopt.
TryJoin(t) ==
    LET w == Ws(t)
        h == handles[w]
        next == IF At(t, "join") THEN "idle" ELSE AfterAdopted(threads[t].op)
    IN  /\ threads[t].pc \in {"join", "rejoin"}
        /\ \/ /\ h = NoHandle
              /\ Goto(t, AfterNoJoin(t))
              /\ UNCHANGED <<handles, procs>>
           \/ /\ h # NoHandle /\ IsDead(h)
              /\ handles' = [handles EXCEPT ![w] = NoHandle]
              /\ procs' = Reaped(h)
              /\ Persist(t, Record("Failed", NoPid), AfterNoJoin(t))
           \/ /\ h # NoHandle /\ ~IsDead(h)
              /\ handles' = [handles EXCEPT
                               ![w].members = @ \cup {threads[t].project}]
              /\ \E phase \in LivePhases(h) : Persist(t, Record(phase, h.pid), next)
              /\ UNCHANGED procs
        /\ UNCHANGED <<snapshots, stateFile, budget>>

\* Command::spawn, which may fail. Two residents never get the same pid (a pid
\* that has been used may only go to a stranger, see Recycle).
Spawn(t) ==
    /\ At(t, "spawn")
    /\ \/ Goto(t, "idle") /\ UNCHANGED procs
       \/ \E x \in Pids :
            /\ procs[x] = NoProc
            /\ procs' = [procs EXCEPT ![x] =
                           [st |-> "starting", ws |-> Ws(t), child |-> TRUE,
                            ready |-> FALSE, consent |-> threads[t].consent,
                            ended |-> "none"]]
            /\ threads' = [threads EXCEPT ![t] =
                              [@ EXCEPT !.pc = "own",
                                        !.hand = [pid |-> x, kind |-> "Owned", members |-> {}]]]
    /\ UNCHANGED <<handles, snapshots, stateFile, budget>>

\* handles.insert, whatever is there: a ManagedRuntime it replaces is dropped,
\* and dropping a Child neither kills nor waits for it.
OwnSpawned(t) ==
    LET x == threads[t].hand.pid
    IN  /\ At(t, "own")
        /\ handles' = [handles EXCEPT ![Ws(t)] =
                         [pid |-> x, kind |-> "Owned", members |-> {threads[t].project}]]
        /\ threads' = [threads EXCEPT ![t] =
                          [@ EXCEPT !.pc = "persist",
                                    !.rec = Record("Starting", x),
                                    !.next = "idle",
                                    !.hand = NoHandle]]
        /\ UNCHANGED <<snapshots, stateFile, procs, budget>>

-----------------------------------------------------------------------------
(* try_adopt: is the workspace unmanaged, does a resident answer on its port *)
(* with its token, which pid is it, who are its members, and then insert.    *)

AdoptContains(t) ==
    /\ At(t, "contains")
    /\ Goto(t, IF handles[Ws(t)] = NoHandle THEN "probe"
               ELSE AfterNotAdopted(threads[t].op))
    /\ UNCHANGED <<handles, snapshots, stateFile, procs, budget>>

AdoptProbe(t) ==
    /\ At(t, "probe")
    /\ \E a \in Answers(Ws(t)) :
         Goto(t, IF a THEN "discover" ELSE AfterNotAdopted(threads[t].op))
    /\ UNCHANGED <<handles, snapshots, stateFile, procs, budget>>

\* A pid that cannot be found: the truth is recorded without a handle.
\* Otherwise the members are the caller and the workspace's live projects.
LiveProjects(w) ==
    {p \in Projects : WorkspaceOf[p] = w /\ IsLive(snapshots[p].phase)}

MutantAdoptForCallerOnly(t) == {threads[t].project}

MutantAdoptForWholeWorkspace(t) == {p \in Projects : WorkspaceOf[p] = Ws(t)}

AdoptMembers(t) == LiveProjects(Ws(t)) \cup {threads[t].project}

Discovered(t, x) ==
    threads' = [threads EXCEPT ![t] =
                   [@ EXCEPT !.pc = "insert",
                             !.found = x,
                             !.members = AdoptMembers(t)]]

MutantAdoptWithoutPid(t) ==
    /\ At(t, "discover")
    /\ \E x \in Listeners(Ws(t)) : Discovered(t, x)
    /\ UNCHANGED <<handles, snapshots, stateFile, procs, budget>>

AdoptDiscover(t) ==
    /\ At(t, "discover")
    /\ \E x \in Listeners(Ws(t)) :
         IF x = NoPid
         THEN Persist(t, Record("Running", NoPid), AfterAdopted(threads[t].op))
         ELSE Discovered(t, x)
    /\ UNCHANGED <<handles, snapshots, stateFile, procs, budget>>

InsertAdopted(t) ==
    /\ handles' = [handles EXCEPT ![Ws(t)] =
                     [pid |-> threads[t].found, kind |-> "Adopted",
                      members |-> threads[t].members]]
    /\ threads' = [threads EXCEPT ![t] =
                      [@ EXCEPT !.pc = "persist",
                                !.rec = Record("Running", threads[t].found),
                                !.next = AfterAdopted(threads[t].op),
                                !.found = NoPid,
                                !.members = {}]]

MutantInsertUnchecked(t) ==
    /\ At(t, "insert")
    /\ InsertAdopted(t)
    /\ UNCHANGED <<snapshots, stateFile, procs, budget>>

\* The map is looked at again under the lock that inserts.
AdoptInsert(t) ==
    /\ At(t, "insert")
    /\ \/ /\ handles[Ws(t)] # NoHandle
          /\ threads' = [threads EXCEPT ![t] =
                            [@ EXCEPT !.pc = "rejoin",
                                      !.found = NoPid,
                                      !.members = {}]]
          /\ UNCHANGED handles
       \/ /\ handles[Ws(t)] = NoHandle
          /\ InsertAdopted(t)
    /\ UNCHANGED <<snapshots, stateFile, procs, budget>>

-----------------------------------------------------------------------------
(* get_runtime_status *)

\* try_join_running_workspace_readonly
TryJoinReadonly(t) ==
    LET w == Ws(t)
        h == handles[w]
    IN  /\ At(t, "look")
        /\ \/ /\ h = NoHandle
              /\ Goto(t, "expected")
              /\ UNCHANGED <<handles, procs>>
           \/ /\ h # NoHandle /\ IsDead(h)
              /\ handles' = [handles EXCEPT ![w] = NoHandle]
              /\ procs' = Reaped(h)
              /\ Persist(t, Record("Failed", NoPid), "expected")
           \/ /\ h # NoHandle /\ ~IsDead(h)
              /\ Goto(t, "idle")
              /\ UNCHANGED <<handles, procs>>
        /\ UNCHANGED <<snapshots, stateFile, budget>>

MutantProbeOnlyLive(t) ==
    /\ At(t, "expected")
    /\ Goto(t, IF IsLive(snapshots[threads[t].project].phase)
               THEN "contains" ELSE "fallback")
    /\ UNCHANGED <<handles, snapshots, stateFile, procs, budget>>

\* Only a project that should be up is worth a probe.
ExpectedUp(t) ==
    /\ At(t, "expected")
    /\ Goto(t, IF snapshots[threads[t].project].phase = "Stopped"
               THEN "fallback" ELSE "contains")
    /\ UNCHANGED <<handles, snapshots, stateFile, procs, budget>>

\* Nothing managed, nothing adopted: the answer is the last snapshot.
AnswerFromSnapshot(t) ==
    /\ At(t, "fallback")
    /\ Goto(t, "idle")
    /\ UNCHANGED <<handles, snapshots, stateFile, procs, budget>>

-----------------------------------------------------------------------------
(* stop_runtime, stop_workspace_runtime, remove_project_runtime *)

MutantTakeFromMapLater(t, w, h) ==
    /\ threads' = [threads EXCEPT ![t] =
                      [@ EXCEPT !.pc = IF h.kind = "Owned" THEN "kill" ELSE "verify",
                                !.hand = [h EXCEPT !.members = {}],
                                !.rec = NoSnapshot,
                                !.next = "idle"]]
    /\ UNCHANGED handles

\* The thread takes the handle h out of the map of w, to kill it after the
\* lock is released. rec and next are what a stop_runtime will persist.
TakeOut(t, w, h) ==
    /\ handles' = [handles EXCEPT ![w] = NoHandle]
    /\ threads' = [threads EXCEPT ![t] =
                      [@ EXCEPT !.pc = IF h.kind = "Owned" THEN "kill" ELSE "verify",
                                !.hand = [h EXCEPT !.members = {}],
                                !.members = IF threads[t].op = "stopWs" THEN h.members ELSE {},
                                !.rec = NoSnapshot,
                                !.next = "idle"]]

\* The thread goes on with no process to kill.
NothingToKill(t) ==
    threads' = [threads EXCEPT ![t] = [@ EXCEPT !.pc = AfterKill(threads[t].op),
                                                !.rec = NoSnapshot,
                                                !.next = "idle"]]

\* The project leaves w; the last one to leave takes the handle out.
Leave(t, w) ==
    LET h == handles[w]
        rest == h.members \ {threads[t].project}
    IN  \/ h = NoHandle /\ NothingToKill(t) /\ UNCHANGED handles
        \/ /\ h # NoHandle /\ rest # {}
           /\ handles' = [handles EXCEPT ![w].members = rest]
           /\ NothingToKill(t)
        \/ h # NoHandle /\ rest = {} /\ TakeOut(t, w, h)

StopLeave(t) ==
    /\ At(t, "take") /\ threads[t].op = "stop"
    /\ Leave(t, Ws(t))
    /\ UNCHANGED <<snapshots, stateFile, procs, budget>>

StopWorkspaceTake(t) ==
    LET h == handles[Ws(t)]
    IN  /\ At(t, "take") /\ threads[t].op = "stopWs"
        /\ \/ h = NoHandle /\ Goto(t, "idle") /\ UNCHANGED handles
           \/ h # NoHandle /\ TakeOut(t, Ws(t), h)
        /\ UNCHANGED <<snapshots, stateFile, procs, budget>>

\* remove_project_runtime looks for a hosting workspace and leaves it under
\* two acquisitions of the lock.
RemoveFind(t) ==
    /\ At(t, "find")
    /\ Goto(t, IF threads[t].project \in handles[Ws(t)].members
               THEN "leave" ELSE "forget")
    /\ UNCHANGED <<handles, snapshots, stateFile, procs, budget>>

RemoveLeave(t) ==
    /\ At(t, "leave")
    /\ Leave(t, Ws(t))
    /\ UNCHANGED <<snapshots, stateFile, procs, budget>>

RemoveForget(t) ==
    /\ At(t, "forget")
    /\ snapshots' = [snapshots EXCEPT ![threads[t].project] = NoSnapshot]
    /\ threads' = [threads EXCEPT ![t] =
                      [@ EXCEPT !.pc = "open",
                                !.copy = snapshots']]
    /\ UNCHANGED <<handles, stateFile, procs, budget>>

\* kill_and_reap of an Owned child: kill and wait.
KillOwned(t) ==
    LET x == threads[t].hand.pid
    IN  /\ At(t, "kill")
        /\ procs' = [procs EXCEPT ![x] = 
                       IF Alive(x) THEN [NoProc EXCEPT !.ended = "stopped"]
                       ELSE Freed(x)]
        /\ threads' = [threads EXCEPT ![t] =
                          [@ EXCEPT !.pc = AfterKill(threads[t].op),
                                    !.hand = NoHandle]]
        /\ UNCHANGED <<handles, snapshots, stateFile, budget>>

\* The hand is let go and the call goes on: killed, or found gone.
Released(t) ==
    threads' = [threads EXCEPT ![t] =
                   [@ EXCEPT !.pc = AfterKill(threads[t].op),
                             !.hand = NoHandle]]

MutantTrustTheToken(t) ==
    /\ At(t, "verify")
    /\ Goto(t, "answers")
    /\ UNCHANGED <<handles, snapshots, stateFile, procs, budget>>

MutantNeverTheListener(t) ==
    /\ At(t, "verify")
    /\ Released(t)
    /\ UNCHANGED <<handles, snapshots, stateFile, procs, budget>>

\* kill_and_reap of an Adopted resident: only while its pid holds the port ...
VerifyListener(t) ==
    /\ At(t, "verify")
    /\ \E x \in Listeners(Ws(t)) :
         IF x = threads[t].hand.pid THEN Goto(t, "answers") ELSE Released(t)
    /\ UNCHANGED <<handles, snapshots, stateFile, procs, budget>>

\* ... and the workspace's token is accepted there ...
VerifyAnswers(t) ==
    /\ At(t, "answers")
    /\ \E a \in Answers(Ws(t)) : IF a THEN Goto(t, "signal") ELSE Released(t)
    /\ UNCHANGED <<handles, snapshots, stateFile, procs, budget>>

\* ... kill -9 its pid. A pid that is gone is an error: stop_runtime and
\* stop_workspace_runtime return it, remove_project_runtime ignores it.
SignalPid(t) ==
    LET x == threads[t].hand.pid
    IN  /\ At(t, "signal")
        /\ \/ /\ procs[x].st # "free"
              /\ procs' = [procs EXCEPT ![x] = IF procs[x].st = "zombie" THEN @
                                               ELSE Ended(x, "stopped")]
              /\ Released(t)
           \/ /\ procs[x].st = "free"
              /\ IF threads[t].op = "remove" THEN Released(t) ELSE Goto(t, "idle")
              /\ UNCHANGED procs
        /\ UNCHANGED <<handles, snapshots, stateFile, budget>>

\* stop_workspace_runtime marks the members it took out, one by one, those
\* without a record (which reads as a stopped one) excepted.
MarkStopped(t) ==
    /\ At(t, "mark")
    /\ \/ threads[t].members = {} /\ Goto(t, "idle")
       \/ \E p \in threads[t].members :
            threads' = [threads EXCEPT ![t] =
                           [@ EXCEPT !.members = threads[t].members \ {p},
                                     !.project = p,
                                     !.pc = "persist",
                                     !.rec = NoSnapshot,
                                     !.next = "mark"]]
       \/ \E p \in threads[t].members :
            /\ snapshots[p] = NoSnapshot
            /\ threads' = [threads EXCEPT ![t] =
                              [@ EXCEPT !.members = threads[t].members \ {p}]]
    /\ UNCHANGED <<handles, snapshots, stateFile, procs, budget>>

-----------------------------------------------------------------------------
(* The residents, the operating system, and Studio's own end. *)

\* The resident finishes its import and binds its port, if nobody has it.
Bind(x) ==
    /\ procs[x].st = "starting" /\ Serving(procs[x].ws) = {}
    /\ procs' = [procs EXCEPT ![x].st = "serving"]
    /\ UNCHANGED <<handles, snapshots, stateFile, threads, budget>>

\* A second resident finds the port taken and exits 0.
ExitBusy(x) ==
    /\ procs[x].st = "starting" /\ Serving(procs[x].ws) # {}
    /\ procs' = [procs EXCEPT ![x] = Ended(x, "exited")]
    /\ UNCHANGED <<handles, snapshots, stateFile, threads, budget>>

\* The stdout-capture thread reads the READY line.
ReadyLine(x) ==
    /\ procs[x].st = "serving" /\ procs[x].child /\ ~procs[x].ready
    /\ procs' = [procs EXCEPT ![x].ready = TRUE]
    /\ UNCHANGED <<handles, snapshots, stateFile, threads, budget>>

\* A crash, an out-of-memory kill, a kill -9 from outside.
Die(x) ==
    /\ Alive(x) /\ budget.deaths > 0
    /\ procs' = [procs EXCEPT ![x] = Ended(x, "exited")]
    /\ budget' = [budget EXCEPT !.deaths = @ - 1]
    /\ UNCHANGED <<handles, snapshots, stateFile, threads>>

\* The pid of an ended resident goes to a process that has nothing to do with
\* Studio; not in the milliseconds in which kill_and_reap verifies and kills it.
InKillWindow(x) ==
    \E t \in Threads :
        threads[t].pc \in {"answers", "signal"} /\ threads[t].hand.pid = x

Recycle(x) ==
    /\ procs[x].st = "free" /\ procs[x] # NoProc /\ ~InKillWindow(x)
    /\ budget.recycles > 0
    /\ procs' = [procs EXCEPT ![x] = [NoProc EXCEPT !.st = "stranger"]]
    /\ budget' = [budget EXCEPT !.recycles = @ - 1]
    /\ UNCHANGED <<handles, snapshots, stateFile, threads>>

\* Studio ends, at any point of any call, and a new Studio reads the state
\* file (RuntimeManager::new). Residents outlive it; zombies do not.
StudioRestart ==
    /\ budget.restarts > 0
    /\ handles' = [w \in Workspaces |-> NoHandle]
    /\ snapshots' = stateFile
    /\ threads' = [t \in Threads |-> IdleThread]
    /\ procs' = [x \in Pids |->
                   IF procs[x].st = "zombie" THEN Freed(x)
                   ELSE [procs[x] EXCEPT !.child = FALSE]]
    /\ budget' = [budget EXCEPT !.restarts = @ - 1]
    /\ UNCHANGED stateFile

-----------------------------------------------------------------------------
(* The specification. *)

Init ==
    /\ handles = [w \in Workspaces |-> NoHandle]
    /\ snapshots = NoSnapshots
    /\ stateFile = NoSnapshots
    /\ threads = [t \in Threads |-> IdleThread]
    /\ procs = [x \in Pids |-> NoProc]
    /\ budget = [ops |-> MaxOps, deaths |-> MaxDeaths,
                 restarts |-> MaxRestarts, recycles |-> MaxRecycles]

\* One step of the call thread t is executing.
Step(t) ==
    \/ CommandSpecFor(t) \/ TryJoin(t) \/ Spawn(t) \/ OwnSpawned(t)
    \/ AdoptContains(t) \/ AdoptProbe(t) \/ AdoptDiscover(t) \/ AdoptInsert(t)
    \/ TryJoinReadonly(t) \/ ExpectedUp(t) \/ AnswerFromSnapshot(t)
    \/ StopLeave(t) \/ StopWorkspaceTake(t)
    \/ RemoveFind(t) \/ RemoveLeave(t) \/ RemoveForget(t)
    \/ KillOwned(t) \/ VerifyListener(t) \/ VerifyAnswers(t) \/ SignalPid(t)
    \/ MarkStopped(t)
    \/ PersistMemory(t) \/ OpenStateFile(t) \/ WriteStateFile(t)

Environment ==
    \/ \E x \in Pids : Bind(x) \/ ExitBusy(x) \/ ReadyLine(x) \/ Die(x) \/ Recycle(x)
    \/ StudioRestart

Next ==
    \/ \E t \in Threads, op \in OpNames, p \in Projects : Call(t, op, p)
    \/ \E t \in Threads : Step(t)
    \/ Environment

Spec == Init /\ [][Next]_vars

(* Fairness: a call that has begun runs on (its system calls are bounded), a
   resident comes up or gives up, and the dashboard polls every project again
   and again between the other calls. *)
Fairness ==
    /\ \A t \in Threads : WF_vars(Step(t))
    /\ \A x \in Pids : WF_vars(Bind(x)) /\ WF_vars(ExitBusy(x)) /\ WF_vars(ReadyLine(x))
    /\ \A p \in Projects : SF_vars(\E t \in Threads : Call(t, "status", p))

FairSpec == Spec /\ Fairness

-----------------------------------------------------------------------------
(* Safety. *)

\* F4 (kill_and_reap): whatever the order of adoptions, deaths and pid reuse,
\* the manager never kills a process that is not a resident.
StrangerSpared ==
    [][\A x \in Pids : procs[x].st = "stranger" => procs'[x].st = "stranger"]_vars

\* x is a child of this Studio that nobody has waited for: no other process can
\* have its pid.
Unreaped(x) == procs[x].child /\ procs[x].st \in {"starting", "serving", "zombie"}

OwnedIsUnreaped ==
    /\ \A w \in Workspaces :
          handles[w].kind = "Owned" => Unreaped(handles[w].pid)
    /\ \A t \in Threads :
          threads[t].hand.kind = "Owned" => Unreaped(threads[t].hand.pid)

OwnedOnce ==
    /\ \A v, w \in Workspaces :
          /\ handles[v].kind = "Owned" /\ handles[w].kind = "Owned"
          /\ handles[v].pid = handles[w].pid
          => v = w
    /\ \A t, u \in Threads :
          /\ threads[t].hand.kind = "Owned" /\ threads[u].hand.kind = "Owned"
          /\ threads[t].hand.pid = threads[u].hand.pid
          => t = u
    /\ \A w \in Workspaces, t \in Threads :
          handles[w].kind = "Owned" /\ threads[t].hand.kind = "Owned" =>
              handles[w].pid # threads[t].hand.pid

LocalsFitPc ==
    \A t \in Threads :
        /\ threads[t].pc = "insert" => threads[t].found # NoPid
        /\ threads[t].pc \in {"own", "kill"} => threads[t].hand.kind = "Owned"
        /\ threads[t].pc \in {"verify", "answers", "signal"} =>
              threads[t].hand.kind = "Adopted"
        /\ threads[t].pc \in {"answers", "signal"} =>
              procs[threads[t].hand.pid].st # "stranger"

\* Why the kills are safe (RuntimeProcess, kill_and_reap): a Child is held in
\* one place, the map or the hand of one call, and is not waited for before
\* that call ends it; a pid about to be signalled belongs to no stranger.
KillsAreSafe == OwnedIsUnreaped /\ OwnedOnce /\ LocalsFitPc

\* F5 (try_adopt): an adoption racing a start never replaces the Child the
\* start has inserted.
ChildKeptByAdoption ==
    [][\A w \in Workspaces :
          handles[w].kind = "Owned" => handles'[w].kind # "Adopted"]_vars

\* The other projects of t's workspace that have no call of their own running.
Settled(t) ==
    {q \in Projects :
        /\ WorkspaceOf[q] = Ws(t) /\ q # threads[t].project
        /\ \A u \in Threads : threads[u].pc = "idle" \/ threads[u].project # q}

\* N1 (try_adopt, stop_runtime, remove_project_runtime): a project that leaves
\* takes the process down only when no other project's record says that it
\* runs on that very process.
KillSparesUsers ==
    \A t \in Threads :
        threads[t].pc \in {"kill", "verify"} /\ threads[t].op \in {"stop", "remove"} =>
            \A q \in Settled(t) :
                ~(IsLive(snapshots[q].phase) /\ snapshots[q].pid = threads[t].hand.pid)

\* N3 (try_adopt): between calls, a member of a managed workspace is a project
\* whose record is live, so the last live project is the last to leave.
MembersAreLive ==
    (\A t \in Threads : threads[t].pc = "idle") =>
        \A w \in Workspaces : handles[w].members \subseteq LiveProjects(w)

\* The process x is in the handles map or in the hand of a call.
InCustody(x) ==
    \/ \E w \in Workspaces : handles[w].pid = x
    \/ \E t \in Threads : threads[t].hand.pid = x

\* F1, N3 (stop_runtime): when the last live project of a workspace has been
\* stopped, the resident that served it when the stop was called, managed or
\* not yet adopted, is gone, or another call is taking it down.
StopActs ==
    \A t \in Threads :
        LET x == threads[t].seen
        IN  /\ threads[t].op = "stop" /\ At(t, "persist") /\ threads[t].rec = NoSnapshot
            /\ x # NoPid
            /\ LiveProjects(Ws(t)) \subseteq {threads[t].project}
            => procs[x].st # "serving" \/ \E u \in Threads : threads[u].hand.pid = x

\* workspaces_to_auto_restore: a cleanly stopped project is not revived by the
\* next launch, so once no call is running the state file says Stopped too. It
\* holds for one caller; the file of the second of two may be older (persist).
StoppedStaysStopped ==
    (\A t \in Threads : threads[t].pc = "idle") =>
        \A p \in Projects : snapshots[p].phase = "Stopped" => stateFile[p].phase = "Stopped"

\* command_spec_for: of the residents this Studio has launched, one at a time
\* holds the consent to upgrade the shared store, so two never migrate the same
\* file at once. It holds for one caller; two starts at once both see no other.
OneConsent ==
    \A x, y \in {z \in Pids : Alive(z) /\ procs[z].child /\ procs[z].consent} : x = y

\* try_join_running_workspace_readonly: a status read that falls back on the
\* last snapshot never answers Running for a workspace with no live resident.
NoStaleRunning ==
    \A t \in Threads :
        At(t, "fallback") /\ IsLive(snapshots[threads[t].project].phase) =>
            \E x \in Pids : Alive(x) /\ procs[x].ws = Ws(t)

-----------------------------------------------------------------------------
(* The abstract specification, under the obvious mapping. *)

FateOf(x) == IF Alive(x) THEN "running" ELSE procs[x].ended

Custody == INSTANCE ResidentCustody
    WITH fate <- [x \in Pids |-> FateOf(x)],
         custody <- {x \in Pids : InCustody(x)}

\* A step of the manager, of a resident or of the system is a step of
\* ResidentCustody or leaves the custody as it was: only processes in custody
\* are ended, and a running one is let go of only when Studio itself ends.
CustodyKept == Custody!Spec

-----------------------------------------------------------------------------
(* Liveness, of FairSpec. *)

Wanted(w) == \E p \in Projects : WorkspaceOf[p] = w /\ snapshots[p].phase # "Stopped"

\* process_alive: what kill -0 takes for a live resident of w though the adopted
\* process has died: a zombie child of this Studio, or a stranger with its pid.
Misjudged(w) ==
    handles[w].kind = "Adopted" /\ procs[handles[w].pid].st \in {"zombie", "stranger"}

\* studio #1 (get_runtime_status, try_adopt): a resident that serves a wanted
\* workspace without being managed is adopted by a later poll, unless it goes
\* away, the workspace is stopped first, or the handle is held by a dead one that
\* kill -0 takes for alive.
OrphanIsRecovered ==
    \A w \in Workspaces, x \in Pids :
        (x \in Serving(w) /\ Wanted(w) /\ ~InCustody(x))
            ~> (x \notin Serving(w) \/ ~Wanted(w) \/ InCustody(x) \/ Misjudged(w))

\* get_runtime_status (try_join_running_workspace): a managed resident that has
\* died leaves the map, the one way to stay there being that its pid answers
\* kill -0 again, as a zombie or as a stranger's.
DeathIsNoticed ==
    \A w \in Workspaces, x \in Pids :
        (handles[w].pid = x /\ ~Alive(x)) ~> (handles[w].pid # x \/ Misjudged(w))

\* What the comment of process_alive (84-85) says of it: "A discovered orphan that
\* has since died must NOT be reported as a live-but-unmanaged runtime." So a dead
\* orphan leaves the map, whatever its pid has become.
DeadOrphansAreNotShown ==
    \A w \in Workspaces, x \in Pids :
        (handles[w].pid = x /\ handles[w].kind = "Adopted" /\ ~Alive(x))
            ~> handles[w].pid # x
=============================================================================
