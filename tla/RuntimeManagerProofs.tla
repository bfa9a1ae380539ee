------------------------ MODULE RuntimeManagerProofs ------------------------
(***************************************************************************)
(* What holds of RuntimeManager for every set of threads, projects,        *)
(* workspaces and pids, and every bound: its type invariant, and the two   *)
(* action properties the RuntimeManagerRaces run checks on one instance.   *)
(***************************************************************************)
EXTENDS RuntimeManager, TLAPS

-----------------------------------------------------------------------------
(* The type invariant. *)

\* The default values of the state have their types.
LEMMA Defaults ==
    /\ NoSnapshot \in Snapshot
    /\ NoSnapshots \in [Projects -> Snapshot]
    /\ NoHandle \in Handle
    /\ NoProc \in Proc
    /\ IdleThread \in Thread
<1>1. NoSnapshot \in Snapshot
  BY DEF NoSnapshot, Snapshot, Phases
<1>2. NoSnapshots \in [Projects -> Snapshot]
  BY <1>1 DEF NoSnapshots
<1>3. NoHandle \in Handle
  BY DEF NoHandle, Handle
<1>4. NoProc \in Proc
  BY RuntimeManagerAssumption DEF NoProc, Proc, ProcStates
<1>5. IdleThread \in Thread
  BY <1>1, <1>2, <1>3, RuntimeManagerAssumption DEF IdleThread, Thread, Pcs, Returns, OpNames
<1>. QED BY <1>1, <1>2, <1>3, <1>4, <1>5

\* A Studio that has just been installed starts in the type.
LEMMA TypeInit == Init => TypeOK
  BY Defaults, RuntimeManagerAssumption DEF Init, TypeOK

\* What the helpers that describe a process return has the type of a process.
LEMMA ProcTypes ==
    ASSUME TypeOK, NEW x \in Pids
    PROVE  /\ Freed(x) \in Proc
           /\ \A how \in {"none", "exited", "stopped"} : Ended(x, how) \in Proc
  BY Defaults DEF TypeOK, Freed, Ended, NoProc, Proc, ProcStates

\* Moving a thread on keeps the threads' type.
LEMMA GotoType ==
    ASSUME TypeOK, NEW t \in Threads, NEW pc \in Pcs, Goto(t, pc)
    PROVE  threads' \in [Threads -> Thread]
<1>1. IdleThread \in Thread
  BY Defaults
<1>2. [threads[t] EXCEPT !.pc = pc] \in Thread
  BY ZenonT(60) DEF TypeOK, Thread
<1>. QED BY <1>1, <1>2 DEF TypeOK, Goto

\* So does a call of persist_snapshot.
LEMMA PersistType ==
    ASSUME TypeOK, NEW t \in Threads, NEW rec \in Snapshot, NEW next \in Returns,
           Persist(t, rec, next)
    PROVE  threads' \in [Threads -> Thread]
<1>1. threads[t] \in Thread /\ "persist" \in Pcs
  BY DEF TypeOK, Pcs
<1>2. [threads[t] EXCEPT !.pc = "persist", !.rec = rec, !.next = next] \in Thread
  BY <1>1 DEF Thread
<1>. QED BY <1>2 DEF TypeOK, Persist

\* The types of the helpers that say where a call goes on.
LEMMA PcTypes ==
    ASSUME NEW op \in OpNames
    PROVE  /\ AfterAdopted(op) \in Returns
           /\ AfterNotAdopted(op) \in Returns \cap Pcs
           /\ AfterKill(op) \in Pcs
           /\ FirstPc(op) \in Pcs
  BY DEF OpNames, AfterAdopted, AfterNotAdopted, AfterKill, FirstPc, Pcs, Returns

\* What the type says of each local of a thread.
LEMMA ThreadFields ==
    ASSUME TypeOK, NEW t \in Threads
    PROVE  /\ threads[t] \in Thread
           /\ threads[t].op \in OpNames /\ threads[t].project \in Projects
           /\ threads[t].hand \in Handle /\ threads[t].rec \in Snapshot
           /\ threads[t].next \in Returns \cap Pcs /\ threads[t].copy \in [Projects -> Snapshot]
           /\ threads[t].members \in SUBSET Projects
           /\ threads[t].found \in Pids \cup {NoPid}
           /\ Ws(t) \in Workspaces
           /\ handles[Ws(t)] \in Handle
  BY RuntimeManagerAssumption DEF TypeOK, Thread, Ws, Returns, Pcs

\* The calls that only move the thread, and persist_snapshot.
LEMMA TypePersist ==
    ASSUME TypeOK, NEW t \in Threads,
           PersistMemory(t) \/ OpenStateFile(t) \/ WriteStateFile(t)
    PROVE  TypeOK'
<1>. threads[t] \in Thread
  BY ThreadFields
<1>1. CASE PersistMemory(t)
  <2>1. snapshots' \in [Projects -> Snapshot]
    BY <1>1, ThreadFields DEF PersistMemory, TypeOK
  <2>2. [threads[t] EXCEPT !.pc = "open", !.copy = snapshots'] \in Thread
    BY <2>1 DEF Thread, Pcs
  <2>. QED BY <1>1, <2>1, <2>2 DEF PersistMemory, TypeOK
<1>2. CASE OpenStateFile(t)
  BY <1>2, GotoType, Defaults DEF OpenStateFile, TypeOK, Pcs
<1>3. CASE WriteStateFile(t)
  <2>1. stateFile' \in [Projects -> Snapshot]
    BY <1>3, ThreadFields, Defaults DEF WriteStateFile
  <2>2. DEFINE moved == [u \in Threads |->
                           IF u # t /\ threads[u].pc = "write"
                           THEN [threads[u] EXCEPT !.pc = "overwrite"]
                           ELSE threads[u]]
               rest == [moved[t] EXCEPT !.pc = threads[t].next, !.copy = NoSnapshots]
  <2>3. \A u \in Threads : [threads[u] EXCEPT !.pc = "overwrite"] \in Thread
    BY SMTT(40) DEF TypeOK, Thread, Pcs
  <2>4. moved \in [Threads -> Thread] /\ moved[t] = threads[t]
    BY <2>3 DEF TypeOK
  <2>5. rest \in Thread
    BY <2>4, ThreadFields, Defaults DEF Thread
  <2>6. threads' = [moved EXCEPT ![t] =
                      IF threads[t].next = "idle" THEN IdleThread ELSE rest]
    BY <1>3, <2>4 DEF WriteStateFile
  <2>7. threads' \in [Threads -> Thread]
    BY <2>4, <2>5, <2>6, Defaults
  <2>. QED BY <1>3, <2>1, <2>7 DEF WriteStateFile, TypeOK
<1>. QED BY <1>1, <1>2, <1>3

\* What a stop can find is a pid or nothing.
LEMMA FindableType ==
    ASSUME NEW w \in Workspaces
    PROVE  Findable(w) \in Pids \cup {NoPid}
  BY DEF Findable, Serving

\* Beginning a call keeps the type.
LEMMA TypeCall ==
    ASSUME TypeOK, NEW t \in Threads, NEW op \in OpNames, NEW p \in Projects,
           Call(t, op, p)
    PROVE  TypeOK'
<1> DEFINE seen == IF op = "stop" THEN Findable(WorkspaceOf[p]) ELSE NoPid
           begun == [IdleThread EXCEPT !.pc = FirstPc(op), !.op = op,
                                       !.project = p, !.seen = seen]
<1>1. seen \in Pids \cup {NoPid}
  BY FindableType, RuntimeManagerAssumption
<1>2. begun \in Thread
  BY <1>1, Defaults, PcTypes DEF Thread
<1>3. threads' \in [Threads -> Thread]
  BY <1>2 DEF Call, TypeOK
<1>4. budget' \in [ops : Nat, deaths : Nat, restarts : Nat, recycles : Nat]
  BY DEF Call, TypeOK
<1>. QED BY <1>3, <1>4 DEF Call, TypeOK

\* Waiting for a dead child (try_wait) keeps the process table's type.
LEMMA ReapedType ==
    ASSUME TypeOK, NEW h \in Handle
    PROVE  Reaped(h) \in [Pids -> Proc]
<1>1. CASE h.kind = "Owned"
  <2>1. h.pid \in Pids
    BY <1>1 DEF Handle, NoHandle
  <2>. QED BY <1>1, <2>1, ProcTypes DEF Reaped, TypeOK
<1>2. CASE h.kind # "Owned"
  BY <1>2 DEF Reaped, TypeOK
<1>. QED BY <1>1, <1>2

\* start_runtime
LEMMA TypeStart ==
    ASSUME TypeOK, LocalsFitPc, NEW t \in Threads,
           CommandSpecFor(t) \/ TryJoin(t) \/ Spawn(t) \/ OwnSpawned(t)
    PROVE  TypeOK'
<1>. threads[t] \in Thread
  BY ThreadFields
<1>1. CASE CommandSpecFor(t)
  <2>1. [threads[t] EXCEPT !.pc = "join",
                           !.consent = NoOtherWorkspaceRunning(Ws(t))] \in Thread
    BY DEF Thread, Pcs, NoOtherWorkspaceRunning
  <2>. QED BY <1>1, <2>1 DEF CommandSpecFor, TypeOK
<1>2. CASE TryJoin(t)
  <2> DEFINE w == Ws(t)
             h == handles[w]
             next == IF At(t, "join") THEN "idle" ELSE AfterAdopted(threads[t].op)
  <2>1. /\ w \in Workspaces /\ h \in Handle
        /\ next \in Returns /\ AfterNoJoin(t) \in Returns \cap Pcs
    BY ThreadFields, PcTypes DEF AfterNoJoin, Pcs, Returns
  <2>2. CASE h = NoHandle /\ Goto(t, AfterNoJoin(t)) /\ UNCHANGED <<handles, procs>>
    BY <1>2, <2>1, <2>2, GotoType DEF TryJoin, TypeOK
  <2>3. CASE /\ handles' = [handles EXCEPT ![w] = NoHandle]
             /\ procs' = Reaped(h)
             /\ Persist(t, Record("Failed", NoPid), AfterNoJoin(t))
    <3>1. Record("Failed", NoPid) \in Snapshot
      BY DEF Record, Snapshot, Phases
    <3>2. handles' \in [Workspaces -> Handle]
      BY <2>1, <2>3, Defaults DEF TypeOK
    <3>3. procs' \in [Pids -> Proc]
      BY <2>1, <2>3, ReapedType
    <3>4. threads' \in [Threads -> Thread]
      BY <2>1, <2>3, <3>1, PersistType
    <3>. QED BY <1>2, <3>2, <3>3, <3>4 DEF TryJoin, TypeOK
  <2>4. CASE /\ h # NoHandle
             /\ handles' = [handles EXCEPT
                              ![w].members = @ \cup {threads[t].project}]
             /\ \E phase \in LivePhases(h) : Persist(t, Record(phase, h.pid), next)
             /\ UNCHANGED procs
    <3>1. PICK phase \in LivePhases(h) : Persist(t, Record(phase, h.pid), next)
      BY <2>4
    <3>2. Record(phase, h.pid) \in Snapshot
      BY <2>1, <2>4 DEF Record, Snapshot, Phases, LivePhases, Handle
    <3>3. threads' \in [Threads -> Thread]
      BY <2>1, <3>1, <3>2, PersistType
    <3>4. [h EXCEPT !.members = @ \cup {threads[t].project}] \in Handle
      BY <2>1, <2>4, ThreadFields DEF Handle
    <3>5. handles' \in [Workspaces -> Handle]
      BY <2>1, <2>4, <3>4 DEF TypeOK
    <3>. QED BY <1>2, <2>4, <3>3, <3>5 DEF TryJoin, TypeOK
  <2>. QED BY <1>2, <2>2, <2>3, <2>4 DEF TryJoin
<1>3. CASE Spawn(t)
  <2>1. CASE Goto(t, "idle") /\ UNCHANGED procs
    BY <1>3, <2>1, GotoType DEF Spawn, TypeOK, Pcs
  <2>2. ASSUME NEW x \in Pids,
               procs' = [procs EXCEPT ![x] =
                           [st |-> "starting", ws |-> Ws(t), child |-> TRUE,
                            ready |-> FALSE, consent |-> threads[t].consent,
                            ended |-> "none"]],
               threads' = [threads EXCEPT ![t] =
                             [@ EXCEPT !.pc = "own",
                                       !.hand = [pid |-> x, kind |-> "Owned",
                                                 members |-> {}]]]
        PROVE  TypeOK'
    <3>1. [pid |-> x, kind |-> "Owned", members |-> {}] \in Handle
      BY DEF Handle
    <3>2. [threads[t] EXCEPT !.pc = "own",
                             !.hand = [pid |-> x, kind |-> "Owned",
                                       members |-> {}]] \in Thread
      BY <3>1 DEF Thread, Pcs
    <3>3. threads[t].consent \in BOOLEAN
      BY DEF Thread
    <3>4. procs' \in [Pids -> Proc]
      BY <2>2, <3>3, ThreadFields DEF TypeOK, Proc, ProcStates
    <3>. QED BY <1>3, <2>2, <3>2, <3>4 DEF Spawn, TypeOK
  <2>. QED BY <1>3, <2>1, <2>2 DEF Spawn
<1>4. CASE OwnSpawned(t)
  <2> DEFINE x == threads[t].hand.pid
             owned == [pid |-> x, kind |-> "Owned", members |-> {threads[t].project}]
             after == [threads[t] EXCEPT !.pc = "persist",
                                         !.rec = Record("Starting", x),
                                         !.next = "idle",
                                         !.hand = NoHandle]
  <2>1. x \in Pids
    BY <1>4, ThreadFields DEF OwnSpawned, At, LocalsFitPc, Handle, NoHandle
  <2>2. owned \in Handle
    BY <2>1, ThreadFields DEF Handle
  <2>3. after \in Thread
    BY <2>1, Defaults DEF Thread, Pcs, Returns, Record, Snapshot, Phases
  <2>. QED BY <1>4, <2>2, <2>3 DEF OwnSpawned, TypeOK
<1>. QED BY <1>1, <1>2, <1>3, <1>4

\* try_adopt
LEMMA TypeAdopt ==
    ASSUME TypeOK, LocalsFitPc, NEW t \in Threads,
           \/ AdoptContains(t) \/ AdoptProbe(t)
           \/ AdoptDiscover(t) \/ AdoptInsert(t)
    PROVE  TypeOK'
<1>. threads[t] \in Thread
  BY ThreadFields
<1>1. CASE AdoptContains(t)
  <2>. DEFINE pc == IF handles[Ws(t)] = NoHandle THEN "probe"
                    ELSE AfterNotAdopted(threads[t].op)
  <2>1. pc \in Pcs
    BY ThreadFields, PcTypes DEF Pcs
  <2>. QED BY <1>1, <2>1, GotoType DEF AdoptContains, TypeOK
<1>2. CASE AdoptProbe(t)
  <2>1. PICK a \in Answers(Ws(t)) :
          Goto(t, IF a THEN "discover" ELSE AfterNotAdopted(threads[t].op))
    BY <1>2 DEF AdoptProbe
  <2>2. (IF a THEN "discover" ELSE AfterNotAdopted(threads[t].op)) \in Pcs
    BY ThreadFields, PcTypes DEF Pcs
  <2>. QED BY <1>2, <2>1, <2>2, GotoType DEF AdoptProbe, TypeOK
<1>3. CASE AdoptDiscover(t)
  <2>1. PICK x \in Listeners(Ws(t)) :
          IF x = NoPid
          THEN Persist(t, Record("Running", NoPid), AfterAdopted(threads[t].op))
          ELSE Discovered(t, x)
    BY <1>3 DEF AdoptDiscover
  <2>2. CASE Persist(t, Record("Running", NoPid), AfterAdopted(threads[t].op))
    <3>1. Record("Running", NoPid) \in Snapshot
      BY DEF Record, Snapshot, Phases
    <3>2. AfterAdopted(threads[t].op) \in Returns
      BY ThreadFields, PcTypes
    <3>. QED BY <1>3, <2>2, <3>1, <3>2, PersistType DEF AdoptDiscover, TypeOK
  <2>3. CASE Discovered(t, x)
    <3>1. x \in Pids \cup {NoPid}
      BY DEF Listeners, Serving
    <3>2. AdoptMembers(t) \in SUBSET Projects
      BY ThreadFields DEF AdoptMembers, LiveProjects
    <3>3. [threads[t] EXCEPT !.pc = "insert", !.found = x,
                             !.members = AdoptMembers(t)] \in Thread
      BY <3>1, <3>2 DEF Thread, Pcs
    <3>. QED BY <1>3, <2>3, <3>3 DEF AdoptDiscover, Discovered, TypeOK
  <2>. QED BY <2>1, <2>2, <2>3
<1>4. CASE AdoptInsert(t)
  <2>1. CASE threads' = [threads EXCEPT ![t] = [@ EXCEPT !.pc = "rejoin",
                                                         !.found = NoPid,
                                                         !.members = {}]]
             /\ UNCHANGED handles
    <3>1. [threads[t] EXCEPT !.pc = "rejoin", !.found = NoPid,
                             !.members = {}] \in Thread
      BY DEF Thread, Pcs
    <3>. QED BY <1>4, <2>1, <3>1 DEF AdoptInsert, TypeOK
  <2>2. CASE InsertAdopted(t)
    <3>. DEFINE after == [threads[t] EXCEPT !.pc = "persist",
                                  !.rec = Record("Running", threads[t].found),
                                  !.next = AfterAdopted(threads[t].op),
                                  !.found = NoPid,
                                  !.members = {}]
    <3>1. after \in Thread
      BY ThreadFields, PcTypes, ZenonT(60) DEF Thread, Pcs, Record, Snapshot, Phases
    <3>2. threads[t].found \in Pids
      BY <1>4, ThreadFields DEF AdoptInsert, At, LocalsFitPc
    <3>3. [pid |-> threads[t].found, kind |-> "Adopted",
           members |-> threads[t].members] \in Handle
      BY <3>2, ThreadFields DEF Handle
    <3>. QED BY <1>4, <2>2, <3>1, <3>3 DEF AdoptInsert, InsertAdopted, TypeOK
  <2>. QED BY <1>4, <2>1, <2>2 DEF AdoptInsert
<1>. QED BY <1>1, <1>2, <1>3, <1>4

\* get_runtime_status
LEMMA TypeStatus ==
    ASSUME TypeOK, NEW t \in Threads,
           TryJoinReadonly(t) \/ ExpectedUp(t) \/ AnswerFromSnapshot(t)
    PROVE  TypeOK'
<1>1. CASE TryJoinReadonly(t)
  <2> DEFINE h == handles[Ws(t)]
  <2>1. CASE Goto(t, "expected") /\ UNCHANGED <<handles, procs>>
    BY <1>1, <2>1, GotoType DEF TryJoinReadonly, TypeOK, Pcs
  <2>2. CASE Goto(t, "idle") /\ UNCHANGED <<handles, procs>>
    BY <1>1, <2>2, GotoType DEF TryJoinReadonly, TypeOK, Pcs
  <2>3. CASE /\ handles' = [handles EXCEPT ![Ws(t)] = NoHandle]
             /\ procs' = Reaped(h)
             /\ Persist(t, Record("Failed", NoPid), "expected")
    <3>1. Record("Failed", NoPid) \in Snapshot /\ "expected" \in Returns
      BY DEF Record, Snapshot, Phases, Returns
    <3>2. handles' \in [Workspaces -> Handle]
      BY <2>3, Defaults DEF TypeOK
    <3>3. procs' \in [Pids -> Proc]
      BY <2>3, ReapedType, ThreadFields
    <3>4. threads' \in [Threads -> Thread]
      BY <2>3, <3>1, PersistType
    <3>. QED BY <1>1, <3>2, <3>3, <3>4 DEF TryJoinReadonly, TypeOK
  <2>. QED BY <1>1, <2>1, <2>2, <2>3 DEF TryJoinReadonly
<1>2. CASE ExpectedUp(t)
  BY <1>2, GotoType DEF ExpectedUp, TypeOK, Pcs
<1>3. CASE AnswerFromSnapshot(t)
  BY <1>3, GotoType DEF AnswerFromSnapshot, TypeOK, Pcs
<1>. QED BY <1>1, <1>2, <1>3

\* The three ways a call can stop with or without a process in its hand.
LEMMA TypeTakeOut ==
    ASSUME TypeOK, NEW t \in Threads, NEW w \in Workspaces,
           handles[w] # NoHandle, TakeOut(t, w, handles[w])
    PROVE  /\ handles' \in [Workspaces -> Handle]
           /\ threads' \in [Threads -> Thread]
<1> DEFINE h == handles[w]
           after == [threads[t] EXCEPT
                       !.pc = IF h.kind = "Owned" THEN "kill" ELSE "verify",
                       !.hand = [h EXCEPT !.members = {}],
                       !.members = IF threads[t].op = "stopWs" THEN h.members ELSE {},
                       !.rec = NoSnapshot,
                       !.next = "idle"]
<1>1. handles' \in [Workspaces -> Handle]
  BY Defaults DEF TakeOut, TypeOK
<1>2. h \in Handle /\ h # NoHandle
  BY DEF TypeOK
<1>3. [h EXCEPT !.members = {}] \in Handle /\ h.members \in SUBSET Projects
  BY <1>2 DEF Handle
<1>4. \A pc \in Pcs, hand \in Handle, members \in SUBSET Projects :
        [threads[t] EXCEPT !.pc = pc, !.hand = hand, !.members = members,
                           !.rec = NoSnapshot, !.next = "idle"] \in Thread
  <2>1. threads[t] \in Thread /\ NoSnapshot \in Snapshot /\ "idle" \in Returns
    BY ThreadFields, Defaults DEF Returns
  <2>. QED BY <2>1 DEF Thread
<1>5. after \in Thread
  <2>1. (IF h.kind = "Owned" THEN "kill" ELSE "verify") \in Pcs
    BY DEF Pcs
  <2>2. (IF threads[t].op = "stopWs" THEN h.members ELSE {}) \in SUBSET Projects
    BY <1>3
  <2>. QED BY <1>3, <1>4, <2>1, <2>2
<1>. QED BY <1>1, <1>5 DEF TakeOut, TypeOK

\* Letting go of the hand, or having nothing to kill, keeps the threads' type.
LEMMA TypeReleased ==
    ASSUME TypeOK, NEW t \in Threads
    PROVE  /\ Released(t) => threads' \in [Threads -> Thread]
           /\ NothingToKill(t) => threads' \in [Threads -> Thread]
<1>1. AfterKill(threads[t].op) \in Pcs /\ threads[t] \in Thread
  BY ThreadFields, PcTypes
<1>2. [threads[t] EXCEPT !.pc = AfterKill(threads[t].op), !.hand = NoHandle] \in Thread
  BY <1>1, Defaults DEF Thread
<1>3. [threads[t] EXCEPT !.pc = AfterKill(threads[t].op), !.rec = NoSnapshot,
                         !.next = "idle"] \in Thread
  BY <1>1, Defaults DEF Thread, Returns
<1>. QED BY <1>2, <1>3 DEF Released, NothingToKill, TypeOK

\* A project that leaves its workspace keeps the type of the map and of the threads.
LEMMA TypeLeave ==
    ASSUME TypeOK, NEW t \in Threads, Leave(t, Ws(t))
    PROVE  /\ handles' \in [Workspaces -> Handle]
           /\ threads' \in [Threads -> Thread]
<1> DEFINE h == handles[Ws(t)]
           rest == h.members \ {threads[t].project}
<1>1. CASE NothingToKill(t) /\ UNCHANGED handles
  BY <1>1, TypeReleased DEF TypeOK
<1>2. CASE /\ h # NoHandle
           /\ handles' = [handles EXCEPT ![Ws(t)].members = rest]
           /\ NothingToKill(t)
  <2>1. [h EXCEPT !.members = rest] \in Handle
    BY <1>2, ThreadFields DEF Handle
  <2>. QED BY <1>2, <2>1, TypeReleased DEF TypeOK
<1>3. CASE h # NoHandle /\ TakeOut(t, Ws(t), h)
  BY <1>3, ThreadFields, TypeTakeOut
<1>. QED BY <1>1, <1>2, <1>3 DEF Leave

\* stop_runtime, stop_workspace_runtime, remove_project_runtime
LEMMA TypeStop ==
    ASSUME TypeOK, NEW t \in Threads,
           \/ StopLeave(t) \/ StopWorkspaceTake(t) \/ RemoveFind(t)
           \/ RemoveLeave(t) \/ RemoveForget(t) \/ MarkStopped(t)
    PROVE  TypeOK'
<1>. threads[t] \in Thread
  BY ThreadFields
<1>1. CASE StopLeave(t)
  BY <1>1, TypeLeave DEF StopLeave, TypeOK
<1>2. CASE StopWorkspaceTake(t)
  <2>1. CASE Goto(t, "idle") /\ UNCHANGED handles
    BY <1>2, <2>1, GotoType DEF StopWorkspaceTake, TypeOK, Pcs
  <2>2. CASE handles[Ws(t)] # NoHandle /\ TakeOut(t, Ws(t), handles[Ws(t)])
    BY <1>2, <2>2, ThreadFields, TypeTakeOut DEF StopWorkspaceTake, TypeOK
  <2>. QED BY <1>2, <2>1, <2>2 DEF StopWorkspaceTake
<1>3. CASE RemoveFind(t)
  BY <1>3, GotoType DEF RemoveFind, TypeOK, Pcs
<1>4. CASE RemoveLeave(t)
  BY <1>4, TypeLeave DEF RemoveLeave, TypeOK
<1>5. CASE RemoveForget(t)
  <2>1. snapshots' \in [Projects -> Snapshot]
    BY <1>5, Defaults DEF RemoveForget, TypeOK
  <2>2. [threads[t] EXCEPT !.pc = "open", !.copy = snapshots'] \in Thread
    BY <2>1 DEF Thread, Pcs
  <2>. QED BY <1>5, <2>1, <2>2 DEF RemoveForget, TypeOK
<1>6. CASE MarkStopped(t)
  <2>1. CASE Goto(t, "idle")
    BY <1>6, <2>1, GotoType DEF MarkStopped, TypeOK, Pcs
  <2>2. ASSUME NEW p \in threads[t].members,
               threads' = [threads EXCEPT ![t] =
                             [@ EXCEPT !.members = threads[t].members \ {p}, !.project = p,
                                       !.pc = "persist", !.rec = NoSnapshot,
                                       !.next = "mark"]]
        PROVE  TypeOK'
    <3>1. p \in Projects /\ threads[t].members \ {p} \in SUBSET Projects
      BY ThreadFields
    <3>. DEFINE after == [threads[t] EXCEPT
                            !.members = threads[t].members \ {p}, !.project = p,
                            !.pc = "persist", !.rec = NoSnapshot, !.next = "mark"]
    <3>2. after \in Thread
      BY <3>1, Defaults DEF Thread, Pcs, Returns
    <3>3. threads' = [threads EXCEPT ![t] = after]
      BY <2>2
    <3>. HIDE DEF after
    <3>4. threads' \in [Threads -> Thread]
      BY <3>2, <3>3 DEF TypeOK
    <3>. QED BY <1>6, <3>4 DEF MarkStopped, TypeOK
  <2>3. ASSUME NEW p \in threads[t].members,
               threads' = [threads EXCEPT ![t] =
                             [@ EXCEPT !.members = threads[t].members \ {p}]]
        PROVE  TypeOK'
    <3>1. [threads[t] EXCEPT !.members = threads[t].members \ {p}] \in Thread
      BY ThreadFields DEF Thread
    <3>. QED BY <1>6, <2>3, <3>1 DEF MarkStopped, TypeOK
  <2>. QED BY <1>6, <2>1, <2>2, <2>3 DEF MarkStopped
<1>. QED BY <1>1, <1>2, <1>3, <1>4, <1>5, <1>6

\* kill_and_reap
LEMMA TypeKill ==
    ASSUME TypeOK, NEW t \in Threads,
           KillOwned(t) \/ VerifyListener(t) \/ VerifyAnswers(t) \/ SignalPid(t)
    PROVE  TypeOK'
<1> DEFINE x == threads[t].hand.pid
<1>1. CASE KillOwned(t)
  <2>1. threads' \in [Threads -> Thread]
    BY <1>1, TypeReleased DEF KillOwned, Released
  <2>2. x \in Pids => [NoProc EXCEPT !.ended = "stopped"] \in Proc /\ Freed(x) \in Proc
    BY ProcTypes, Defaults DEF Proc
  <2>3. procs' \in [Pids -> Proc]
    BY <1>1, <2>2 DEF KillOwned, TypeOK
  <2>. QED BY <1>1, <2>1, <2>3 DEF KillOwned, TypeOK
<1>2. CASE VerifyListener(t)
  BY <1>2, TypeReleased, GotoType DEF VerifyListener, TypeOK, Pcs
<1>3. CASE VerifyAnswers(t)
  BY <1>3, TypeReleased, GotoType DEF VerifyAnswers, TypeOK, Pcs
<1>4. CASE SignalPid(t)
  <2>1. threads' \in [Threads -> Thread]
    BY <1>4, TypeReleased, GotoType DEF SignalPid, Pcs
  <2>2. x \in Pids => Ended(x, "stopped") \in Proc
    BY ProcTypes
  <2>3. procs' \in [Pids -> Proc]
    BY <1>4, <2>2 DEF SignalPid, TypeOK
  <2>. QED BY <1>4, <2>1, <2>3 DEF SignalPid, TypeOK
<1>. QED BY <1>1, <1>2, <1>3, <1>4

\* The residents, the operating system, Studio's own end.
LEMMA TypeEnvironment ==
    ASSUME TypeOK, Environment
    PROVE  TypeOK'
<1>1. ASSUME NEW x \in Pids, Bind(x) \/ ReadyLine(x)
      PROVE  TypeOK'
  <2>1. procs[x] \in Proc
    BY DEF TypeOK
  <2>2. /\ [procs[x] EXCEPT !.st = "serving"] \in Proc
        /\ [procs[x] EXCEPT !.ready = TRUE] \in Proc
    BY <2>1 DEF Proc, ProcStates
  <2>. QED BY <1>1, <2>2 DEF Bind, ReadyLine, TypeOK
<1>2. ASSUME NEW x \in Pids, ExitBusy(x) \/ Die(x)
      PROVE  TypeOK'
  BY <1>2, ProcTypes DEF ExitBusy, Die, TypeOK
<1>3. ASSUME NEW x \in Pids, Recycle(x)
      PROVE  TypeOK'
  <2>1. [NoProc EXCEPT !.st = "stranger"] \in Proc
    BY Defaults DEF Proc, ProcStates
  <2>. QED BY <1>3, <2>1 DEF Recycle, TypeOK
<1>4. CASE StudioRestart
  <2>1. \A x \in Pids : [procs[x] EXCEPT !.child = FALSE] \in Proc
    BY DEF TypeOK, Proc
  <2>2. procs' \in [Pids -> Proc]
    BY <1>4, <2>1, ProcTypes DEF StudioRestart
  <2>. QED BY <1>4, <2>2, Defaults DEF StudioRestart, TypeOK
<1>. QED BY <1>1, <1>2, <1>3, <1>4 DEF Environment

\* Every step of the specification keeps the type.
LEMMA TypeStep ==
    ASSUME TypeOK, LocalsFitPc, [Next]_vars
    PROVE  TypeOK'
<1>1. ASSUME NEW t \in Threads, NEW op \in OpNames, NEW p \in Projects, Call(t, op, p)
      PROVE  TypeOK'
  BY <1>1, TypeCall
<1>2. ASSUME NEW t \in Threads, Step(t)
      PROVE  TypeOK'
  BY <1>2, TypeStart, TypeAdopt, TypeStatus, TypeStop, TypeKill, TypePersist DEF Step
<1>3. CASE Environment
  BY <1>3, TypeEnvironment
<1>4. CASE UNCHANGED vars
  BY <1>4 DEF vars, TypeOK
<1>. QED BY <1>1, <1>2, <1>3, <1>4 DEF Next

-----------------------------------------------------------------------------
(* Kills are safe. KillsAreSafe is inductive together with TypeOK: its part  *)
(* OwnedOnce is what keeps the pid of one holder's child from being freed by *)
(* another holder, and LocalsFitPc says which process the hand of a call is. *)

IInv == TypeOK /\ KillsAreSafe

\* Some handle, or the hand of some call, owns the child x.
Held(x) ==
    \/ \E w \in Workspaces : handles[w].kind = "Owned" /\ handles[w].pid = x
    \/ \E t \in Threads : threads[t].hand.kind = "Owned" /\ threads[t].hand.pid = x

Holding == {"own", "kill", "verify", "answers", "signal"}

\* No handle gets another process to own.
HandlesKept ==
    \A w \in Workspaces :
        handles'[w].kind = "Owned" =>
            handles[w].kind = "Owned" /\ handles'[w].pid = handles[w].pid

\* No call gets another process to hold.
HandsKept ==
    \A u \in Threads :
        threads'[u].hand = threads[u].hand \/ threads'[u].hand = NoHandle

\* No call moves to where it holds a process, or to an insertion without a pid.
NoHolderMoves ==
    \A u \in Threads :
        /\ threads'[u].pc \in Holding =>
              threads'[u].pc = threads[u].pc /\ threads'[u].hand = threads[u].hand
        /\ threads'[u].pc = "insert" => threads'[u].found # NoPid

\* What is still held stays unreaped, and no pid on its way to a kill goes to
\* a stranger.
ProcsSafe ==
    \A x \in Pids :
        /\ Unreaped(x) /\ Held(x)' => Unreaped(x)'
        /\ InKillWindow(x) /\ procs[x].st # "stranger" => procs'[x].st # "stranger"

\* A Child that is held somewhere has not been waited for.
LEMMA HeldUnreaped ==
    ASSUME IInv, NEW x, Held(x)
    PROVE  x \in Pids /\ Unreaped(x)
<1>1. CASE \E w \in Workspaces : handles[w].kind = "Owned" /\ handles[w].pid = x
  BY <1>1 DEF IInv, KillsAreSafe, OwnedIsUnreaped, TypeOK, Handle, NoHandle
<1>2. CASE \E t \in Threads : threads[t].hand.kind = "Owned" /\ threads[t].hand.pid = x
  BY <1>2, ThreadFields DEF IInv, KillsAreSafe, OwnedIsUnreaped, Handle, NoHandle
<1>. QED BY <1>1, <1>2 DEF Held

\* Where no holder appears and no held process is freed, the Children stay safe.
LEMMA OwnedFrame ==
    ASSUME IInv, HandlesKept, HandsKept, ProcsSafe
    PROVE  OwnedIsUnreaped' /\ OwnedOnce'
<1>1. \A x : Held(x)' => Held(x)
  BY DEF Held, HandlesKept, HandsKept, NoHandle
<1>2. \A x : Held(x)' => Unreaped(x)'
  BY <1>1, HeldUnreaped DEF ProcsSafe
<1>3. OwnedIsUnreaped'
  BY <1>2 DEF OwnedIsUnreaped, Held
<1>4. OwnedOnce'
  BY DEF OwnedOnce, HandlesKept, HandsKept, IInv, KillsAreSafe, NoHandle
<1>. QED BY <1>3, <1>4

\* ... and so do the locals of the calls.
LEMMA LocalsFrame ==
    ASSUME IInv, NoHolderMoves, ProcsSafe
    PROVE  LocalsFitPc'
<1>. SUFFICES ASSUME NEW u \in Threads
              PROVE  /\ threads'[u].pc = "insert" => threads'[u].found # NoPid
                     /\ threads'[u].pc \in {"own", "kill"} => threads'[u].hand.kind = "Owned"
                     /\ threads'[u].pc \in {"verify", "answers", "signal"} =>
                           threads'[u].hand.kind = "Adopted"
                     /\ threads'[u].pc \in {"answers", "signal"} =>
                           procs'[threads'[u].hand.pid].st # "stranger"
  BY DEF LocalsFitPc
<1>1. LocalsFitPc
  BY DEF IInv, KillsAreSafe
<1>2. ASSUME threads'[u].pc \in {"answers", "signal"}
      PROVE  procs'[threads'[u].hand.pid].st # "stranger"
  <2>1. /\ threads'[u].pc = threads[u].pc /\ threads'[u].hand = threads[u].hand
        /\ threads[u].hand.kind = "Adopted"
        /\ procs[threads[u].hand.pid].st # "stranger"
    BY <1>1, <1>2 DEF NoHolderMoves, Holding, LocalsFitPc
  <2>2. threads[u].hand.pid \in Pids
    BY <2>1, ThreadFields DEF IInv, Handle, NoHandle
  <2>3. InKillWindow(threads[u].hand.pid)
    BY <1>2, <2>1 DEF InKillWindow
  <2>. QED BY <2>1, <2>2, <2>3 DEF ProcsSafe
<1>. QED BY <1>1, <1>2 DEF NoHolderMoves, Holding, LocalsFitPc

\* The frame rule: such a step keeps the kills safe.
LEMMA SafeFrame ==
    ASSUME IInv, HandlesKept, HandsKept, NoHolderMoves, ProcsSafe
    PROVE  KillsAreSafe'
  BY OwnedFrame, LocalsFrame DEF KillsAreSafe

\* The steps of a thread that leave the processes alone.
LEMMA StillProcs ==
    ASSUME UNCHANGED procs
    PROVE  ProcsSafe
  BY DEF ProcsSafe, Unreaped

\* A thread that moves to where nothing is held moves no holder.
LEMMA ThreadFrame ==
    ASSUME IInv, NEW t \in Threads, NEW r, threads' = [threads EXCEPT ![t] = r],
           r.hand = threads[t].hand \/ r.hand = NoHandle,
           r.pc \notin Holding,
           r.pc = "insert" => r.found # NoPid
    PROVE  HandsKept /\ NoHolderMoves
<1>1. LocalsFitPc /\ threads \in [Threads -> Thread]
  BY DEF IInv, KillsAreSafe, TypeOK
<1>2. threads'[t] = r /\ \A u \in Threads \ {t} : threads'[u] = threads[u]
  BY <1>1
<1>. QED BY <1>1, <1>2 DEF HandsKept, NoHolderMoves, LocalsFitPc

\* The frame rule for Goto.
LEMMA GotoFrame ==
    ASSUME IInv, NEW t \in Threads, NEW pc \in Pcs, pc \notin Holding, pc # "insert",
           Goto(t, pc)
    PROVE  HandsKept /\ NoHolderMoves
<1>1. threads[t] \in Thread /\ threads \in [Threads -> Thread]
  BY DEF IInv, TypeOK
<1>2. CASE pc = "idle"
  <2>1. IdleThread.pc = "idle" /\ IdleThread.hand = NoHandle
    BY DEF IdleThread
  <2>2. threads' = [threads EXCEPT ![t] = IdleThread]
    BY <1>2 DEF Goto
  <2>. QED BY <2>1, <2>2, ThreadFrame DEF Holding
<1>3. CASE pc # "idle"
  <2> DEFINE s == [threads[t] EXCEPT !.pc = pc]
  <2>1. s.pc = pc /\ s.hand = threads[t].hand
    BY <1>1 DEF Thread
  <2>2. threads' = [threads EXCEPT ![t] = s]
    BY <1>1, <1>3 DEF Goto
  <2>. HIDE DEF s
  <2>. QED BY <2>1, <2>2, ThreadFrame
<1>. QED BY <1>2, <1>3

\* The frame rule for a call of persist_snapshot.
LEMMA PersistFrame ==
    ASSUME IInv, NEW t \in Threads, NEW rec, NEW next, Persist(t, rec, next)
    PROVE  HandsKept /\ NoHolderMoves
<1> DEFINE s == [threads[t] EXCEPT !.pc = "persist", !.rec = rec, !.next = next]
<1>1. s.pc = "persist" /\ s.hand = threads[t].hand
  BY DEF IInv, TypeOK, Thread
<1>2. threads' = [threads EXCEPT ![t] = s]
  BY DEF Persist
<1>. HIDE DEF s
<1>. QED BY <1>1, <1>2, ThreadFrame DEF Holding

\* The frame rule for a call that has dealt with its process.
LEMMA ReleasedFrame ==
    ASSUME IInv, NEW t \in Threads, Released(t) \/ NothingToKill(t)
    PROVE  HandsKept /\ NoHolderMoves
<1>1. AfterKill(threads[t].op) \notin Holding /\ AfterKill(threads[t].op) # "insert"
  BY DEF AfterKill, Holding
<1>2. CASE Released(t)
  <2> DEFINE s == [threads[t] EXCEPT !.pc = AfterKill(threads[t].op), !.hand = NoHandle]
  <2>1. s.pc = AfterKill(threads[t].op) /\ s.hand = NoHandle
    BY DEF IInv, TypeOK, Thread
  <2>2. threads' = [threads EXCEPT ![t] = s]
    BY <1>2 DEF Released
  <2>. HIDE DEF s
  <2>. QED BY <1>1, <2>1, <2>2, ThreadFrame
<1>3. CASE NothingToKill(t)
  <2> DEFINE s == [threads[t] EXCEPT !.pc = AfterKill(threads[t].op),
                                     !.rec = NoSnapshot, !.next = "idle"]
  <2>1. s.pc = AfterKill(threads[t].op) /\ s.hand = threads[t].hand
    BY DEF IInv, TypeOK, Thread
  <2>2. threads' = [threads EXCEPT ![t] = s]
    BY <1>3 DEF NothingToKill
  <2>. HIDE DEF s
  <2>. QED BY <1>1, <2>1, <2>2, ThreadFrame
<1>. QED BY <1>2, <1>3

\* Beginning a call keeps the kills safe.
LEMMA SafeCall ==
    ASSUME IInv, NEW t \in Threads, NEW op \in OpNames, NEW p \in Projects,
           Call(t, op, p)
    PROVE  KillsAreSafe'
<1> DEFINE seen == IF op = "stop" THEN Findable(WorkspaceOf[p]) ELSE NoPid
           begun == [IdleThread EXCEPT !.pc = FirstPc(op), !.op = op,
                                       !.project = p, !.seen = seen]
<1>1. FirstPc(op) \notin Holding /\ FirstPc(op) # "insert"
  BY DEF FirstPc, Holding
<1>2. begun.pc = FirstPc(op) /\ begun.hand = NoHandle
  BY DEF IdleThread
<1>3. threads' = [threads EXCEPT ![t] = begun]
  BY DEF Call
<1>. HIDE DEF begun
<1>4. HandsKept /\ NoHolderMoves
  BY <1>1, <1>2, <1>3, ThreadFrame
<1>. QED BY <1>4, StillProcs, SafeFrame DEF Call, HandlesKept

\* The three steps of persist_snapshot keep the kills safe.
LEMMA SafePersist ==
    ASSUME IInv, NEW t \in Threads,
           PersistMemory(t) \/ OpenStateFile(t) \/ WriteStateFile(t)
    PROVE  KillsAreSafe'
<1>1. HandlesKept /\ ProcsSafe
  BY StillProcs DEF PersistMemory, OpenStateFile, WriteStateFile, HandlesKept
<1>2. CASE PersistMemory(t)
  <2> DEFINE s == [threads[t] EXCEPT !.pc = "open", !.copy = snapshots']
  <2>1. s.pc = "open" /\ s.hand = threads[t].hand
    BY DEF IInv, TypeOK, Thread
  <2>2. threads' = [threads EXCEPT ![t] = s]
    BY <1>2 DEF PersistMemory
  <2>. HIDE DEF s
  <2>. QED BY <1>1, <2>1, <2>2, ThreadFrame, SafeFrame DEF Holding
<1>3. CASE OpenStateFile(t)
  BY <1>1, <1>3, GotoFrame, SafeFrame DEF OpenStateFile, Holding, Pcs
<1>4. CASE WriteStateFile(t)
  <2> DEFINE moved == [u \in Threads |->
                         IF u # t /\ threads[u].pc = "write"
                         THEN [threads[u] EXCEPT !.pc = "overwrite"]
                         ELSE threads[u]]
  <2>1. threads[t].next \notin Holding /\ threads[t].next # "insert"
    BY ThreadFields DEF Returns, Holding, IInv
  <2>2. threads \in [Threads -> Thread] /\ threads[t] \in Thread
    BY DEF IInv, TypeOK
  <2> DEFINE rest == [threads[t] EXCEPT !.pc = threads[t].next, !.copy = NoSnapshots]
  <2>3. rest.pc = threads[t].next /\ rest.hand = threads[t].hand
    BY <2>2 DEF Thread
  <2>4. moved[t] = threads[t]
    OBVIOUS
  <2>5. threads'[t] = IF threads[t].next = "idle" THEN IdleThread ELSE rest
    BY <1>4, <2>4 DEF WriteStateFile
  <2>6. \/ threads'[t].hand = threads[t].hand
        \/ threads'[t].hand = NoHandle
    BY <2>3, <2>5 DEF IdleThread
  <2>7. threads'[t].pc \notin Holding /\ threads'[t].pc # "insert"
    BY <2>1, <2>3, <2>5 DEF IdleThread, Holding
  <2>8. \A u \in Threads \ {t} :
          \/ threads'[u] = threads[u]
          \/ threads'[u] = [threads[u] EXCEPT !.pc = "overwrite"]
    BY <1>4 DEF WriteStateFile
  <2>9. \A u \in Threads : [threads[u] EXCEPT !.pc = "overwrite"].pc = "overwrite"
                         /\ [threads[u] EXCEPT !.pc = "overwrite"].hand = threads[u].hand
    BY <2>2 DEF Thread
  <2>10. HandsKept
    BY <2>6, <2>8, <2>9 DEF HandsKept
  <2>11. LocalsFitPc
    BY DEF IInv, KillsAreSafe
  <2>12. NoHolderMoves
    BY <2>7, <2>8, <2>9, <2>11 DEF NoHolderMoves, Holding, LocalsFitPc
  <2>. QED BY <1>1, <2>10, <2>12, SafeFrame
<1>. QED BY <1>2, <1>3, <1>4

\* start_runtime
LEMMA SafeSpawn ==
    ASSUME IInv, NEW t \in Threads, Spawn(t)
    PROVE  KillsAreSafe'
<1>1. CASE Goto(t, "idle") /\ UNCHANGED procs
  BY <1>1, StillProcs, GotoFrame, SafeFrame DEF Spawn, HandlesKept, Holding, Pcs
<1>2. ASSUME NEW x \in Pids, procs[x] = NoProc,
             procs' = [procs EXCEPT ![x] =
                         [st |-> "starting", ws |-> Ws(t), child |-> TRUE,
                          ready |-> FALSE, consent |-> threads[t].consent,
                          ended |-> "none"]],
             threads' = [threads EXCEPT ![t] =
                           [@ EXCEPT !.pc = "own",
                                     !.hand = [pid |-> x, kind |-> "Owned",
                                               members |-> {}]]]
      PROVE  KillsAreSafe'
  <2>1. /\ threads'[t].pc = "own" /\ threads'[t].hand.kind = "Owned"
        /\ threads'[t].hand.pid = x
        /\ \A u \in Threads \ {t} : threads'[u] = threads[u]
    BY <1>2 DEF IInv, TypeOK, Thread
  <2>2. ~Unreaped(x)
    BY <1>2 DEF Unreaped, NoProc
  <2>3. /\ \A w \in Workspaces : handles[w].kind = "Owned" => handles[w].pid # x
        /\ \A u \in Threads : threads[u].hand.kind = "Owned" => threads[u].hand.pid # x
    BY <2>2 DEF IInv, KillsAreSafe, OwnedIsUnreaped
  <2>4. /\ procs'[x].child /\ procs'[x].st = "starting"
        /\ \A y \in Pids \ {x} : procs'[y] = procs[y]
    BY <1>2 DEF IInv, TypeOK
  <2>5. handles' = handles
    BY DEF Spawn
  <2>6. \A y : Held(y) => y \in Pids /\ Unreaped(y)
    BY HeldUnreaped
  <2>7. OwnedIsUnreaped'
    BY <2>1, <2>3, <2>4, <2>5, <2>6 DEF OwnedIsUnreaped, Unreaped, Held
  <2>8. OwnedOnce'
    BY <2>1, <2>3, <2>5 DEF OwnedOnce, IInv, KillsAreSafe
  <2>9. LocalsFitPc'
    <3>1. LocalsFitPc
      BY DEF IInv, KillsAreSafe
    <3>2. \A u \in Threads : threads[u].hand.kind = "Adopted" => threads[u].hand.pid \in Pids
      BY ThreadFields DEF IInv, Handle, NoHandle
    <3>3. \A y \in Pids : procs[y].st # "stranger" => procs'[y].st # "stranger"
      BY <2>4
    <3>. QED BY <2>1, <3>1, <3>2, <3>3 DEF LocalsFitPc
  <2>. QED BY <2>7, <2>8, <2>9 DEF KillsAreSafe
<1>. QED BY <1>1, <1>2 DEF Spawn

\* A dead handle is taken out of the map, and its child, held nowhere else, is
\* waited for.
LEMMA ReapSafe ==
    ASSUME IInv, NEW w \in Workspaces, HandsKept,
           handles[w] # NoHandle, IsDead(handles[w]),
           handles' = [handles EXCEPT ![w] = NoHandle],
           procs' = Reaped(handles[w])
    PROVE  HandlesKept /\ ProcsSafe
<1>1. /\ handles'[w] = NoHandle
      /\ \A v \in Workspaces \ {w} : handles'[v] = handles[v]
  BY DEF IInv, TypeOK
<1>2. HandlesKept
  BY <1>1 DEF HandlesKept, NoHandle
<1>3. CASE handles[w].kind # "Owned"
  <2>1. UNCHANGED procs
    BY <1>3 DEF Reaped
  <2>. QED BY <1>2, <2>1, StillProcs
<1>4. CASE handles[w].kind = "Owned"
  <2>1. PICK x \in Pids : x = handles[w].pid
    BY <1>4 DEF IInv, TypeOK, Handle, NoHandle
  <2>2. procs'[x] = Freed(x) /\ \A y \in Pids \ {x} : procs'[y] = procs[y]
    BY <1>4, <2>1 DEF Reaped, IInv, TypeOK
  <2>3. procs'[x].st = "free"
    BY <2>2 DEF Freed, NoProc
  <2>4. ~Held(x)'
    <3>1. \A v \in Workspaces \ {w} :
            ~(handles[v].kind = "Owned" /\ handles[v].pid = x)
      BY <1>4, <2>1 DEF IInv, KillsAreSafe, OwnedOnce
    <3>2. \A u \in Threads :
            ~(threads[u].hand.kind = "Owned" /\ threads[u].hand.pid = x)
      BY <1>4, <2>1 DEF IInv, KillsAreSafe, OwnedOnce
    <3>. QED BY <1>1, <3>1, <3>2 DEF Held, HandsKept, NoHandle
  <2>5. ProcsSafe
    BY <2>2, <2>3, <2>4 DEF ProcsSafe, Unreaped
  <2>. QED BY <1>2, <2>5
<1>. QED BY <1>3, <1>4

\* Joining a managed resident, or reaping a dead one, keeps the kills safe.
LEMMA SafeTryJoin ==
    ASSUME IInv, NEW t \in Threads, TryJoin(t)
    PROVE  KillsAreSafe'
<1> DEFINE w == Ws(t)
           h == handles[w]
           next == IF At(t, "join") THEN "idle" ELSE AfterAdopted(threads[t].op)
<1>1. w \in Workspaces /\ h \in Handle
  BY ThreadFields DEF IInv
<1>2. CASE Goto(t, AfterNoJoin(t)) /\ UNCHANGED <<handles, procs>>
  <2>1. AfterNoJoin(t) \in Pcs
    BY PcTypes, ThreadFields DEF AfterNoJoin, Pcs, IInv
  <2>2. AfterNoJoin(t) \notin Holding /\ AfterNoJoin(t) # "insert"
    BY DEF AfterNoJoin, AfterNotAdopted, Holding
  <2>. QED BY <1>2, <2>1, <2>2, GotoFrame, StillProcs, SafeFrame DEF HandlesKept
<1>3. CASE /\ h # NoHandle /\ IsDead(h)
           /\ handles' = [handles EXCEPT ![w] = NoHandle]
           /\ procs' = Reaped(h)
           /\ Persist(t, Record("Failed", NoPid), AfterNoJoin(t))
  BY <1>1, <1>3, PersistFrame, ReapSafe, SafeFrame
<1>4. CASE /\ h # NoHandle
           /\ handles' = [handles EXCEPT
                            ![w].members = @ \cup {threads[t].project}]
           /\ \E phase \in LivePhases(h) : Persist(t, Record(phase, h.pid), next)
           /\ UNCHANGED procs
  <2>1. HandlesKept
    BY <1>1, <1>4 DEF HandlesKept, IInv, TypeOK, Handle
  <2>. QED BY <1>4, <2>1, PersistFrame, StillProcs, SafeFrame
<1>. QED BY <1>2, <1>3, <1>4 DEF TryJoin

\* Inserting the spawned Child moves it from the hand into the map.
LEMMA SafeOwnSpawned ==
    ASSUME IInv, NEW t \in Threads, OwnSpawned(t)
    PROVE  KillsAreSafe'
<1> DEFINE x == threads[t].hand.pid
           w == Ws(t)
           after == [threads[t] EXCEPT !.pc = "persist",
                                       !.rec = Record("Starting", x),
                                       !.next = "idle",
                                       !.hand = NoHandle]
<1>1. threads[t].hand.kind = "Owned" /\ x \in Pids /\ w \in Workspaces
  BY ThreadFields DEF IInv, KillsAreSafe, LocalsFitPc, OwnSpawned, At, Handle, NoHandle
<1>2. after.pc = "persist" /\ after.hand = NoHandle
  BY DEF IInv, TypeOK, Thread
<1>3. threads' = [threads EXCEPT ![t] = after]
  BY DEF OwnSpawned
<1>4. HandsKept /\ NoHolderMoves
  <2>. HIDE DEF after
  <2>. QED BY <1>2, <1>3, ThreadFrame DEF Holding
<1>5. threads'[t].hand = NoHandle
  <2>. HIDE DEF after
  <2>. QED BY <1>2, <1>3 DEF IInv, TypeOK
<1>6. /\ handles'[w].kind = "Owned" /\ handles'[w].pid = x
      /\ \A v \in Workspaces \ {w} : handles'[v] = handles[v]
  BY <1>1 DEF OwnSpawned, IInv, TypeOK
<1>7. procs' = procs
  BY DEF OwnSpawned
<1>8. LocalsFitPc'
  BY <1>4, <1>7, StillProcs, LocalsFrame
<1>9. OwnedIsUnreaped'
  BY <1>1, <1>4, <1>6, <1>7
     DEF OwnedIsUnreaped, Unreaped, HandsKept, NoHandle, IInv, KillsAreSafe
<1>10. OwnedOnce'
  BY <1>1, <1>4, <1>5, <1>6 DEF OwnedOnce, HandsKept, NoHandle, IInv, KillsAreSafe
<1>. QED BY <1>8, <1>9, <1>10 DEF KillsAreSafe

\* The steps of start_runtime keep the kills safe.
LEMMA SafeStart ==
    ASSUME IInv, NEW t \in Threads,
           CommandSpecFor(t) \/ TryJoin(t) \/ Spawn(t) \/ OwnSpawned(t)
    PROVE  KillsAreSafe'
<1>1. CASE CommandSpecFor(t)
  <2> DEFINE s == [threads[t] EXCEPT !.pc = "join",
                                     !.consent = NoOtherWorkspaceRunning(Ws(t))]
  <2>1. s.pc = "join" /\ s.hand = threads[t].hand
    BY DEF IInv, TypeOK, Thread
  <2>2. threads' = [threads EXCEPT ![t] = s]
    BY <1>1 DEF CommandSpecFor
  <2>. HIDE DEF s
  <2>3. HandlesKept /\ ProcsSafe
    BY <1>1, StillProcs DEF CommandSpecFor, HandlesKept
  <2>. QED BY <2>1, <2>2, <2>3, ThreadFrame, SafeFrame DEF Holding
<1>. QED BY <1>1, SafeTryJoin, SafeSpawn, SafeOwnSpawned

\* try_adopt
LEMMA SafeAdopt ==
    ASSUME IInv, NEW t \in Threads,
           \/ AdoptContains(t) \/ AdoptProbe(t)
           \/ AdoptDiscover(t) \/ AdoptInsert(t)
    PROVE  KillsAreSafe'
<1>1. ProcsSafe
  BY StillProcs DEF AdoptContains, AdoptProbe, AdoptDiscover, AdoptInsert
<1>2. /\ AfterNotAdopted(threads[t].op) \in Pcs \ Holding
      /\ AfterNotAdopted(threads[t].op) # "insert"
  BY DEF AfterNotAdopted, Holding, Pcs
<1>3. /\ {"probe", "discover"} \subseteq Pcs \ Holding
  BY DEF Pcs, Holding
<1>4. CASE AdoptContains(t)
  <2>. DEFINE pc == IF handles[Ws(t)] = NoHandle THEN "probe"
                    ELSE AfterNotAdopted(threads[t].op)
  <2>1. pc \in Pcs /\ pc \notin Holding /\ pc # "insert"
    BY <1>2, <1>3
  <2>2. Goto(t, pc) /\ HandlesKept
    BY <1>4 DEF AdoptContains, HandlesKept
  <2>. HIDE DEF pc
  <2>. QED BY <1>1, <2>1, <2>2, GotoFrame, SafeFrame
<1>5. CASE AdoptProbe(t)
  <2>1. PICK a \in Answers(Ws(t)) :
          Goto(t, IF a THEN "discover" ELSE AfterNotAdopted(threads[t].op))
    BY <1>5 DEF AdoptProbe
  <2>. DEFINE pc == IF a THEN "discover" ELSE AfterNotAdopted(threads[t].op)
  <2>2. pc \in Pcs /\ pc \notin Holding /\ pc # "insert"
    BY <1>2, <1>3
  <2>3. Goto(t, pc) /\ HandlesKept
    BY <1>5, <2>1 DEF AdoptProbe, HandlesKept
  <2>. HIDE DEF pc
  <2>. QED BY <1>1, <2>2, <2>3, GotoFrame, SafeFrame
<1>6. CASE AdoptDiscover(t)
  <2>1. HandlesKept
    BY <1>6 DEF AdoptDiscover, HandlesKept
  <2>2. PICK x \in Listeners(Ws(t)) :
          IF x = NoPid
          THEN Persist(t, Record("Running", NoPid), AfterAdopted(threads[t].op))
          ELSE Discovered(t, x)
    BY <1>6 DEF AdoptDiscover
  <2>3. CASE x = NoPid
    BY <1>1, <2>1, <2>2, <2>3, PersistFrame, SafeFrame
  <2>4. CASE x # NoPid
    <3>. DEFINE s == [threads[t] EXCEPT !.pc = "insert", !.found = x,
                                        !.members = AdoptMembers(t)]
    <3>1. s.pc = "insert" /\ s.found = x /\ s.hand = threads[t].hand
      BY DEF IInv, TypeOK, Thread
    <3>2. threads' = [threads EXCEPT ![t] = s]
      BY <2>2, <2>4 DEF Discovered
    <3>. HIDE DEF s
    <3>. QED BY <1>1, <2>1, <2>4, <3>1, <3>2, ThreadFrame, SafeFrame DEF Holding
  <2>. QED BY <2>3, <2>4
<1>7. CASE AdoptInsert(t)
  <2>1. CASE threads' = [threads EXCEPT ![t] = [@ EXCEPT !.pc = "rejoin",
                                                         !.found = NoPid,
                                                         !.members = {}]]
             /\ UNCHANGED handles
    <3>. DEFINE s == [threads[t] EXCEPT !.pc = "rejoin", !.found = NoPid,
                                        !.members = {}]
    <3>1. s.pc = "rejoin" /\ s.hand = threads[t].hand
      BY DEF IInv, TypeOK, Thread
    <3>2. threads' = [threads EXCEPT ![t] = s] /\ HandlesKept
      BY <2>1 DEF HandlesKept
    <3>. HIDE DEF s
    <3>. QED BY <1>1, <3>1, <3>2, ThreadFrame, SafeFrame DEF Holding
  <2>2. CASE InsertAdopted(t)
    <3>. DEFINE s == [threads[t] EXCEPT !.pc = "persist",
                                        !.rec = Record("Running", threads[t].found),
                                        !.next = AfterAdopted(threads[t].op),
                                        !.found = NoPid,
                                        !.members = {}]
    <3>1. s.pc = "persist" /\ s.hand = threads[t].hand
      BY DEF IInv, TypeOK, Thread
    <3>2. threads' = [threads EXCEPT ![t] = s]
      BY <2>2 DEF InsertAdopted
    <3>3. HandlesKept
      BY <2>2, ThreadFields DEF InsertAdopted, HandlesKept, IInv, TypeOK
    <3>. HIDE DEF s
    <3>. QED BY <1>1, <3>1, <3>2, <3>3, ThreadFrame, SafeFrame DEF Holding
  <2>. QED BY <1>7, <2>1, <2>2 DEF AdoptInsert
<1>. QED BY <1>4, <1>5, <1>6, <1>7

\* get_runtime_status
LEMMA SafeStatus ==
    ASSUME IInv, NEW t \in Threads,
           TryJoinReadonly(t) \/ ExpectedUp(t) \/ AnswerFromSnapshot(t)
    PROVE  KillsAreSafe'
<1>1. {"expected", "idle", "fallback", "contains"} \subseteq Pcs \ Holding
  BY DEF Pcs, Holding
<1>2. ASSUME NEW pc \in {"expected", "idle", "fallback", "contains"}, Goto(t, pc),
             UNCHANGED <<handles, procs>>
      PROVE  KillsAreSafe'
  BY <1>1, <1>2, GotoFrame, StillProcs, SafeFrame DEF HandlesKept
<1>3. CASE TryJoinReadonly(t)
  <2>1. CASE \/ Goto(t, "expected") /\ UNCHANGED <<handles, procs>>
             \/ Goto(t, "idle") /\ UNCHANGED <<handles, procs>>
    BY <1>2, <2>1
  <2>2. CASE /\ handles[Ws(t)] # NoHandle /\ IsDead(handles[Ws(t)])
             /\ handles' = [handles EXCEPT ![Ws(t)] = NoHandle]
             /\ procs' = Reaped(handles[Ws(t)])
             /\ Persist(t, Record("Failed", NoPid), "expected")
    BY <2>2, ThreadFields, PersistFrame, ReapSafe, SafeFrame DEF IInv
  <2>. QED BY <1>3, <2>1, <2>2 DEF TryJoinReadonly
<1>4. CASE ExpectedUp(t)
  BY <1>2, <1>4 DEF ExpectedUp
<1>5. CASE AnswerFromSnapshot(t)
  BY <1>2, <1>5 DEF AnswerFromSnapshot
<1>. QED BY <1>3, <1>4, <1>5

\* A process moves from the map to the hand of a call, and is owned once still.
LEMMA SafeTakeOut ==
    ASSUME IInv, NEW t \in Threads, NEW w \in Workspaces,
           handles[w] # NoHandle, TakeOut(t, w, handles[w]), UNCHANGED procs
    PROVE  KillsAreSafe'
<1>1. PICK h \in Handle : h = handles[w]
  BY DEF IInv, TypeOK
<1>2. /\ h.kind \in {"Owned", "Adopted"} /\ h.pid \in Pids
  BY <1>1 DEF Handle
<1>3. /\ threads'[t].pc = IF h.kind = "Owned" THEN "kill" ELSE "verify"
      /\ threads'[t].hand = [h EXCEPT !.members = {}]
  BY <1>1 DEF TakeOut, IInv, TypeOK, Thread
<1>4. \A u \in Threads \ {t} : threads'[u] = threads[u]
  BY DEF TakeOut, IInv, TypeOK
<1>5. threads'[t].hand.kind = h.kind /\ threads'[t].hand.pid = h.pid
  BY <1>1, <1>3 DEF Handle, NoHandle
<1>6. /\ handles'[w].kind # "Owned"
      /\ \A v \in Workspaces \ {w} : handles'[v] = handles[v]
  BY DEF TakeOut, NoHandle, IInv, TypeOK
<1>7. OwnedIsUnreaped /\ OwnedOnce /\ LocalsFitPc
  BY DEF IInv, KillsAreSafe
<1>8. OwnedIsUnreaped'
  <2>1. /\ \A v \in Workspaces : handles'[v].kind = "Owned" => Unreaped(handles'[v].pid)
        /\ \A u \in Threads :
              threads'[u].hand.kind = "Owned" => Unreaped(threads'[u].hand.pid)
    BY <1>1, <1>5, <1>6, <1>7, <1>4 DEF OwnedIsUnreaped
  <2>. QED BY <2>1 DEF OwnedIsUnreaped, Unreaped
<1>9. OwnedOnce'
  BY <1>1, <1>5, <1>6, <1>7, <1>4 DEF OwnedOnce
<1>10. LocalsFitPc'
  BY <1>2, <1>3, <1>5, <1>7, <1>4, ZenonT(60) DEF LocalsFitPc
<1>. QED BY <1>8, <1>9, <1>10 DEF KillsAreSafe

\* A project that leaves moves the process from the map into the hand at most.
LEMMA SafeLeave ==
    ASSUME IInv, NEW t \in Threads, Leave(t, Ws(t)), UNCHANGED procs
    PROVE  KillsAreSafe'
<1> DEFINE h == handles[Ws(t)]
           rest == h.members \ {threads[t].project}
<1>1. CASE NothingToKill(t) /\ UNCHANGED handles
  BY <1>1, ReleasedFrame, StillProcs, SafeFrame DEF HandlesKept
<1>2. CASE /\ handles' = [handles EXCEPT ![Ws(t)].members = rest]
           /\ NothingToKill(t)
  <2>1. HandlesKept
    BY <1>2, ThreadFields DEF HandlesKept, IInv, TypeOK, Handle, NoHandle
  <2>. QED BY <1>2, <2>1, ReleasedFrame, StillProcs, SafeFrame
<1>3. CASE h # NoHandle /\ TakeOut(t, Ws(t), h)
  BY <1>3, ThreadFields, SafeTakeOut DEF IInv
<1>. QED BY <1>1, <1>2, <1>3 DEF Leave

\* stop_runtime, stop_workspace_runtime, remove_project_runtime
LEMMA SafeStop ==
    ASSUME IInv, NEW t \in Threads,
           \/ StopLeave(t) \/ StopWorkspaceTake(t) \/ RemoveFind(t)
           \/ RemoveLeave(t) \/ RemoveForget(t) \/ MarkStopped(t)
    PROVE  KillsAreSafe'
<1>1. UNCHANGED procs
  BY DEF StopLeave, StopWorkspaceTake, RemoveFind, RemoveLeave, RemoveForget, MarkStopped
<1>2. {"idle", "leave", "forget"} \subseteq Pcs \ Holding
  BY DEF Pcs, Holding
<1>3. ASSUME NEW pc \in {"idle", "leave", "forget"}, Goto(t, pc), UNCHANGED handles
      PROVE  KillsAreSafe'
  BY <1>1, <1>2, <1>3, GotoFrame, StillProcs, SafeFrame DEF HandlesKept
<1>4. CASE StopLeave(t) \/ RemoveLeave(t)
  BY <1>1, <1>4, SafeLeave DEF StopLeave, RemoveLeave
<1>5. CASE StopWorkspaceTake(t)
  <2>1. CASE Goto(t, "idle") /\ UNCHANGED handles
    BY <1>3, <2>1
  <2>2. CASE handles[Ws(t)] # NoHandle /\ TakeOut(t, Ws(t), handles[Ws(t)])
    BY <1>1, <2>2, ThreadFields, SafeTakeOut DEF IInv
  <2>. QED BY <1>5, <2>1, <2>2 DEF StopWorkspaceTake
<1>6. CASE RemoveFind(t)
  BY <1>3, <1>6 DEF RemoveFind
<1>7. CASE RemoveForget(t)
  <2> DEFINE s == [threads[t] EXCEPT !.pc = "open", !.copy = snapshots']
  <2>1. s.pc = "open" /\ s.hand = threads[t].hand
    BY DEF IInv, TypeOK, Thread
  <2>2. threads' = [threads EXCEPT ![t] = s] /\ HandlesKept
    BY <1>7, SMTT(40) DEF RemoveForget, HandlesKept
  <2>. HIDE DEF s
  <2>. QED BY <1>1, <2>1, <2>2, ThreadFrame, StillProcs, SafeFrame DEF Holding
<1>8. CASE MarkStopped(t)
  <2>1. CASE Goto(t, "idle")
    BY <1>3, <1>8, <2>1 DEF MarkStopped
  <2>2. ASSUME NEW p \in threads[t].members,
               threads' = [threads EXCEPT ![t] =
                             [@ EXCEPT !.members = threads[t].members \ {p},
                                       !.project = p, !.pc = "persist",
                                       !.rec = NoSnapshot, !.next = "mark"]]
        PROVE  KillsAreSafe'
    <3>. DEFINE s == [threads[t] EXCEPT !.members = threads[t].members \ {p},
                                        !.project = p, !.pc = "persist",
                                        !.rec = NoSnapshot, !.next = "mark"]
    <3>1. s.pc = "persist" /\ s.hand = threads[t].hand
      BY DEF IInv, TypeOK, Thread
    <3>2. threads' = [threads EXCEPT ![t] = s] /\ HandlesKept
      BY <1>8, <2>2 DEF MarkStopped, HandlesKept
    <3>. HIDE DEF s
    <3>. QED BY <1>1, <3>1, <3>2, ThreadFrame, StillProcs, SafeFrame DEF Holding
  <2>3. ASSUME NEW p \in threads[t].members,
               threads' = [threads EXCEPT ![t] =
                             [@ EXCEPT !.members = threads[t].members \ {p}]]
        PROVE  KillsAreSafe'
    <3>. DEFINE s == [threads[t] EXCEPT !.members = threads[t].members \ {p}]
    <3>1. s.pc = "mark" /\ s.hand = threads[t].hand
      BY <1>8, ZenonT(60) DEF MarkStopped, At, IInv, TypeOK, Thread
    <3>2. threads' = [threads EXCEPT ![t] = s] /\ HandlesKept
      BY <1>8, <2>3 DEF MarkStopped, HandlesKept
    <3>. HIDE DEF s
    <3>. QED BY <1>1, <3>1, <3>2, ThreadFrame, StillProcs, SafeFrame DEF Holding
  <2>. QED BY <1>8, <2>1, <2>2, <2>3 DEF MarkStopped
<1>. QED BY <1>4, <1>5, <1>6, <1>7, <1>8

\* kill_and_reap
LEMMA SafeKillOwned ==
    ASSUME IInv, NEW t \in Threads, KillOwned(t)
    PROVE  KillsAreSafe'
<1>1. PICK x \in Pids : x = threads[t].hand.pid /\ threads[t].hand.kind = "Owned"
  BY ThreadFields
     DEF KillOwned, At, IInv, KillsAreSafe, LocalsFitPc, Handle, NoHandle
<1>2. HandsKept /\ NoHolderMoves
  BY ReleasedFrame DEF KillOwned, Released
<1>3. threads'[t].hand = NoHandle
  BY DEF KillOwned, IInv, TypeOK, Thread
<1>4. handles' = handles /\ HandlesKept
  BY DEF KillOwned, HandlesKept
<1>5. procs'[x].st = "free" /\ \A y \in Pids \ {x} : procs'[y] = procs[y]
  BY <1>1 DEF KillOwned, Freed, NoProc, IInv, TypeOK
<1>6. ~Held(x)'
  <2>1. \A w \in Workspaces : ~(handles[w].kind = "Owned" /\ handles[w].pid = x)
    BY <1>1 DEF IInv, KillsAreSafe, OwnedOnce
  <2>2. \A u \in Threads \ {t} :
          ~(threads[u].hand.kind = "Owned" /\ threads[u].hand.pid = x)
    BY <1>1 DEF IInv, KillsAreSafe, OwnedOnce
  <2>. QED BY <1>2, <1>3, <1>4, <2>1, <2>2 DEF Held, HandsKept, NoHandle
<1>7. ProcsSafe
  BY <1>5, <1>6 DEF ProcsSafe, Unreaped
<1>. QED BY <1>2, <1>4, <1>7, SafeFrame

\* The thread stays with the resident it is about to signal, or lets it go.
LEMMA SafeVerify ==
    ASSUME IInv, NEW t \in Threads, UNCHANGED <<handles, procs>>,
           NEW pc \in {"answers", "signal"}, Goto(t, pc),
           threads[t].hand.kind = "Adopted",
           procs[threads[t].hand.pid].st # "stranger"
    PROVE  KillsAreSafe'
<1>1. LocalsFitPc /\ threads \in [Threads -> Thread]
  BY DEF IInv, KillsAreSafe, TypeOK
<1>2. /\ threads'[t].pc = pc /\ threads'[t].hand = threads[t].hand
      /\ \A u \in Threads \ {t} : threads'[u] = threads[u]
  BY <1>1 DEF Goto, Thread
<1>3. HandlesKept /\ HandsKept /\ ProcsSafe
  BY <1>2, StillProcs DEF HandlesKept, HandsKept
<1>4. LocalsFitPc'
  BY <1>1, <1>2 DEF LocalsFitPc
<1>. QED BY <1>3, <1>4, OwnedFrame DEF KillsAreSafe

\* A child that ends stays unreaped, and a process that ends is no stranger.
LEMMA EndedSafe ==
    ASSUME NEW x, NEW how
    PROVE  /\ Ended(x, how).st # "stranger"
           /\ Ended(x, how).child = procs[x].child
           /\ Unreaped(x) => Ended(x, how).st = "zombie"
  BY DEF Ended, NoProc, Unreaped

\* kill -9 ends the verified resident, which is in no other hand as a Child.
LEMMA SafeSignal ==
    ASSUME IInv, NEW t \in Threads, SignalPid(t)
    PROVE  KillsAreSafe'
<1>1. PICK x \in Pids : x = threads[t].hand.pid
  BY ThreadFields
     DEF SignalPid, At, IInv, KillsAreSafe, LocalsFitPc, Handle, NoHandle
<1>2. HandsKept /\ NoHolderMoves
  <2>1. "idle" \in Pcs \ Holding
    BY DEF Pcs, Holding
  <2>. QED BY <2>1, ReleasedFrame, GotoFrame DEF SignalPid
<1>3. \A y \in Pids : \/ procs'[y] = procs[y]
                      \/ procs'[y] = Ended(y, "stopped")
  BY <1>1 DEF SignalPid, IInv, TypeOK
<1>4. ProcsSafe
  BY <1>3, EndedSafe DEF ProcsSafe, Unreaped
<1>5. HandlesKept
  BY DEF SignalPid, HandlesKept
<1>. QED BY <1>2, <1>4, <1>5, SafeFrame

\* The steps of kill_and_reap keep the kills safe.
LEMMA SafeKill ==
    ASSUME IInv, NEW t \in Threads,
           KillOwned(t) \/ VerifyListener(t) \/ VerifyAnswers(t) \/ SignalPid(t)
    PROVE  KillsAreSafe'
<1>1. CASE VerifyListener(t)
  <2>1. threads[t].hand.kind = "Adopted" /\ threads[t].hand.pid \in Pids
    BY <1>1, ThreadFields
       DEF VerifyListener, At, IInv, KillsAreSafe, LocalsFitPc, Handle, NoHandle
  <2>2. UNCHANGED <<handles, procs>> /\ HandlesKept
    BY <1>1 DEF VerifyListener, HandlesKept
  <2>3. CASE Released(t)
    BY <2>2, <2>3, ReleasedFrame, StillProcs, SafeFrame
  <2>4. CASE /\ threads[t].hand.pid \in Listeners(Ws(t))
             /\ Goto(t, "answers")
    <3>1. procs[threads[t].hand.pid].st = "serving"
      BY <2>1, <2>4, RuntimeManagerAssumption DEF Listeners, Serving
    <3>. QED BY <2>1, <2>2, <2>4, <3>1, SafeVerify
  <2>. QED BY <1>1, <2>3, <2>4 DEF VerifyListener
<1>2. CASE VerifyAnswers(t)
  <2>1. /\ threads[t].hand.kind = "Adopted"
        /\ procs[threads[t].hand.pid].st # "stranger"
    BY <1>2 DEF VerifyAnswers, At, IInv, KillsAreSafe, LocalsFitPc
  <2>2. UNCHANGED <<handles, procs>> /\ HandlesKept
    BY <1>2 DEF VerifyAnswers, HandlesKept
  <2>3. CASE Released(t)
    BY <2>2, <2>3, ReleasedFrame, StillProcs, SafeFrame
  <2>4. CASE Goto(t, "signal")
    BY <2>1, <2>2, <2>4, SafeVerify
  <2>. QED BY <1>2, <2>3, <2>4 DEF VerifyAnswers
<1>. QED BY <1>1, <1>2, SafeKillOwned, SafeSignal

\* The residents, the operating system, Studio's own end.
LEMMA SafeEnvironment ==
    ASSUME IInv, Environment
    PROVE  KillsAreSafe'
<1>1. ASSUME NEW x \in Pids,
             Bind(x) \/ ExitBusy(x) \/ ReadyLine(x) \/ Die(x) \/ Recycle(x)
      PROVE  KillsAreSafe'
  <2>1. UNCHANGED <<handles, threads>>
    BY <1>1 DEF Bind, ExitBusy, ReadyLine, Die, Recycle
  <2>2. HandlesKept /\ HandsKept /\ NoHolderMoves
    BY <2>1 DEF HandlesKept, HandsKept, NoHolderMoves, IInv, KillsAreSafe, LocalsFitPc
  <2>3. procs[x] \in Proc /\ \A y \in Pids \ {x} : procs'[y] = procs[y]
    BY <1>1 DEF Bind, ExitBusy, ReadyLine, Die, Recycle, IInv, TypeOK
  <2>4. ProcsSafe
    <3>1. CASE Bind(x) \/ ReadyLine(x)
      BY <2>3, <3>1 DEF Bind, ReadyLine, ProcsSafe, Unreaped, Proc, IInv, TypeOK
    <3>2. CASE ExitBusy(x) \/ Die(x)
      <4>1. procs'[x] = Ended(x, "exited")
        BY <3>2 DEF ExitBusy, Die, IInv, TypeOK
      <4>. QED BY <2>3, <4>1, EndedSafe DEF ProcsSafe, Unreaped
    <3>3. CASE Recycle(x)
      BY <2>3, <3>3 DEF Recycle, ProcsSafe, Unreaped
    <3>. QED BY <1>1, <3>1, <3>2, <3>3
  <2>. QED BY <2>2, <2>4, SafeFrame
<1>2. CASE StudioRestart
  <2>1. /\ \A w \in Workspaces : handles'[w] = NoHandle
        /\ \A t \in Threads : threads'[t].hand = NoHandle /\ threads'[t].pc = "idle"
    BY <1>2 DEF StudioRestart, IdleThread
  <2>2. NoHandle.kind # "Owned"
    BY DEF NoHandle
  <2>. QED BY <2>1, <2>2
           DEF KillsAreSafe, OwnedIsUnreaped, OwnedOnce, LocalsFitPc
<1>. QED BY <1>1, <1>2 DEF Environment

\* Every step of the specification keeps the kills safe.
LEMMA SafeStep ==
    ASSUME IInv, [Next]_vars
    PROVE  KillsAreSafe'
<1>1. ASSUME NEW t \in Threads, NEW op \in OpNames, NEW p \in Projects, Call(t, op, p)
      PROVE  KillsAreSafe'
  BY <1>1, SafeCall
<1>2. ASSUME NEW t \in Threads, Step(t)
      PROVE  KillsAreSafe'
  BY <1>2, SafeStart, SafeAdopt, SafeStatus, SafeStop, SafeKill, SafePersist DEF Step
<1>3. CASE Environment
  BY <1>3, SafeEnvironment
<1>4. CASE UNCHANGED vars
  BY <1>4 DEF vars, IInv, KillsAreSafe, OwnedIsUnreaped, OwnedOnce, LocalsFitPc,
              Unreaped
<1>. QED BY <1>1, <1>2, <1>3, <1>4 DEF Next

-----------------------------------------------------------------------------
(* The theorems. *)

\* IInv holds at the start and is kept by every step.
THEOREM IInvHolds == Spec => []IInv
<1>1. Init => IInv
  <2>1. Init => KillsAreSafe
    BY DEF Init, KillsAreSafe, OwnedIsUnreaped, OwnedOnce, LocalsFitPc,
           IdleThread, NoHandle
  <2>. QED BY <2>1, TypeInit DEF IInv
<1>2. IInv /\ [Next]_vars => IInv'
  BY TypeStep, SafeStep DEF IInv, KillsAreSafe
<1>. QED BY <1>1, <1>2, PTL DEF Spec

\* Every variable keeps its type, in every state of every instance.
THEOREM TypeCorrect == Spec => []TypeOK
<1>1. IInv => TypeOK
  BY DEF IInv
<1>. QED BY <1>1, IInvHolds, PTL

\* A Child is held in one place and is not waited for before its holder ends
\* it, and a pid about to be signalled belongs to no stranger.
THEOREM KillsSafe == Spec => []KillsAreSafe
<1>1. IInv => KillsAreSafe
  BY DEF IInv
<1>. QED BY <1>1, IInvHolds, PTL

\* A step of a thread that ends or frees a process does so to a resident.
LEMMA StepSparesStrangers ==
    ASSUME IInv, [Next]_vars, NEW x \in Pids, procs[x].st = "stranger"
    PROVE  procs'[x].st = "stranger"
<1>. procs \in [Pids -> Proc] /\ LocalsFitPc
  BY DEF IInv, TypeOK, KillsAreSafe
<1>1. ASSUME UNCHANGED procs
      PROVE  procs'[x].st = "stranger"
  BY <1>1
<1>2. ASSUME NEW h, IsDead(h), procs' = Reaped(h)
      PROVE  procs'[x].st = "stranger"
  BY <1>2 DEF IsDead, Reaped
<1>3. ASSUME NEW t \in Threads, Step(t)
      PROVE  procs'[x].st = "stranger"
  <2>1. CASE TryJoin(t)
    BY <1>1, <1>2, <2>1 DEF TryJoin
  <2>2. CASE TryJoinReadonly(t)
    <3>1. \/ UNCHANGED procs
          \/ IsDead(handles[Ws(t)]) /\ procs' = Reaped(handles[Ws(t)])
      BY <2>2 DEF TryJoinReadonly
    <3>. QED BY <1>1, <1>2, <3>1
  <2>3. CASE Spawn(t)
    <3>1. NoProc.st = "free"
      BY DEF NoProc
    <3>2. UNCHANGED procs \/ \E y \in Pids : /\ procs[y] = NoProc
                                          /\ \A z \in Pids \ {y} : procs'[z] = procs[z]
      BY <2>3 DEF Spawn
    <3>. QED BY <1>1, <3>1, <3>2
  <2>4. CASE KillOwned(t)
    <3>1. procs[threads[t].hand.pid].st # "stranger"
      BY <2>4 DEF KillOwned, At, LocalsFitPc, IInv, KillsAreSafe, OwnedIsUnreaped,
                  Unreaped
    <3>. QED BY <2>4, <3>1 DEF KillOwned
  <2>5. CASE SignalPid(t)
    <3>1. procs[threads[t].hand.pid].st # "stranger"
      BY <2>5 DEF SignalPid, At, LocalsFitPc
    <3>. QED BY <2>5, <3>1 DEF SignalPid
  <2>6. CASE \/ CommandSpecFor(t) \/ OwnSpawned(t)
             \/ AdoptContains(t) \/ AdoptProbe(t) \/ AdoptDiscover(t) \/ AdoptInsert(t)
             \/ ExpectedUp(t) \/ AnswerFromSnapshot(t)
             \/ StopLeave(t) \/ StopWorkspaceTake(t)
             \/ RemoveFind(t) \/ RemoveLeave(t) \/ RemoveForget(t)
             \/ VerifyListener(t) \/ VerifyAnswers(t) \/ MarkStopped(t)
             \/ PersistMemory(t) \/ OpenStateFile(t) \/ WriteStateFile(t)
    <3>1. UNCHANGED procs
      BY <2>6 DEF CommandSpecFor, OwnSpawned, AdoptContains, AdoptProbe, AdoptDiscover,
                  AdoptInsert, ExpectedUp, AnswerFromSnapshot, StopLeave,
                  StopWorkspaceTake, RemoveFind, RemoveLeave, RemoveForget,
                  VerifyListener, VerifyAnswers, MarkStopped, PersistMemory,
                  OpenStateFile, WriteStateFile
    <3>. QED BY <1>1, <3>1, SMTT(40)
  <2>. QED BY <1>3, <2>1, <2>2, <2>3, <2>4, <2>5, <2>6 DEF Step
<1>4. CASE Environment
  <2>1. ASSUME NEW y \in Pids,
               Bind(y) \/ ExitBusy(y) \/ ReadyLine(y) \/ Die(y) \/ Recycle(y)
        PROVE  procs'[x].st = "stranger"
    BY <2>1 DEF Bind, ExitBusy, ReadyLine, Die, Recycle, Alive
  <2>2. CASE StudioRestart
    <3>1. procs'[x] = [procs[x] EXCEPT !.child = FALSE]
      BY <2>2 DEF StudioRestart
    <3>. QED BY <3>1 DEF Proc
  <2>. QED BY <1>4, <2>1, <2>2 DEF Environment
<1>5. CASE UNCHANGED vars
  BY <1>1, <1>5 DEF vars
<1>6. ASSUME NEW t \in Threads, NEW op \in OpNames, NEW p \in Projects, Call(t, op, p)
      PROVE  procs'[x].st = "stranger"
  BY <1>1, <1>6 DEF Call
<1>. QED BY <1>3, <1>4, <1>5, <1>6 DEF Next

\* F4: whatever the order of adoptions, deaths and pid reuse, the manager never
\* kills a process that is not a resident.
THEOREM StrangersAreSpared == Spec => StrangerSpared
<1>1. IInv /\ [Next]_vars =>
        [\A x \in Pids : procs[x].st = "stranger" => procs'[x].st = "stranger"]_vars
  BY StepSparesStrangers
<1>. QED BY <1>1, IInvHolds, PTL DEF Spec, StrangerSpared

\* F5: no step puts an adopted process where a Child is: an adoption inserts
\* only into an empty place, under the lock it looked with.
LEMMA StepKeepsChild ==
    ASSUME IInv, [Next]_vars, NEW w \in Workspaces,
           handles[w].kind = "Owned"
    PROVE  handles'[w].kind # "Adopted"
<1>. handles \in [Workspaces -> Handle]
  BY DEF IInv, TypeOK
<1>. NoHandle.kind = "None" /\ handles[w] # NoHandle
  BY DEF NoHandle
<1>1. ASSUME handles'[w] = handles[w] \/ handles'[w] = NoHandle
      PROVE  handles'[w].kind # "Adopted"
  BY <1>1
<1>2. ASSUME NEW v \in Workspaces, handles' = [handles EXCEPT ![v] = NoHandle]
      PROVE  handles'[w].kind # "Adopted"
  BY <1>2
<1>3. ASSUME NEW v \in Workspaces, NEW members,
             handles' = [handles EXCEPT ![v].members = members]
      PROVE  handles'[w].kind # "Adopted"
  BY <1>3 DEF Handle
<1>4. ASSUME NEW t \in Threads, Leave(t, Ws(t))
      PROVE  handles'[w].kind # "Adopted"
  BY <1>1, <1>2, <1>3, <1>4, ThreadFields DEF Leave, TakeOut, IInv
<1>5. ASSUME NEW t \in Threads, Step(t)
      PROVE  handles'[w].kind # "Adopted"
  <2>. Ws(t) \in Workspaces
    BY ThreadFields DEF IInv
  <2>1. CASE TryJoin(t)
    <3>1. \/ UNCHANGED handles
          \/ handles' = [handles EXCEPT ![Ws(t)] = NoHandle]
          \/ handles' = [handles EXCEPT ![Ws(t)].members =
                             handles[Ws(t)].members \cup {threads[t].project}]
      BY <2>1 DEF TryJoin
    <3>. QED BY <1>1, <1>2, <1>3, <3>1
  <2>2. CASE TryJoinReadonly(t)
    <3>1. UNCHANGED handles \/ handles' = [handles EXCEPT ![Ws(t)] = NoHandle]
      BY <2>2 DEF TryJoinReadonly
    <3>. QED BY <1>1, <1>2, <3>1
  <2>3. CASE OwnSpawned(t)
    BY <2>3 DEF OwnSpawned
  <2>4. CASE AdoptInsert(t)
    BY <2>4 DEF AdoptInsert, InsertAdopted
  <2>5. CASE StopLeave(t) \/ RemoveLeave(t)
    BY <1>4, <2>5 DEF StopLeave, RemoveLeave
  <2>6. CASE StopWorkspaceTake(t)
    BY <1>1, <1>2, <2>6 DEF StopWorkspaceTake, TakeOut
  <2>7. CASE \/ CommandSpecFor(t) \/ Spawn(t)
             \/ AdoptContains(t) \/ AdoptProbe(t) \/ AdoptDiscover(t)
             \/ ExpectedUp(t) \/ AnswerFromSnapshot(t)
             \/ RemoveFind(t) \/ RemoveForget(t)
             \/ KillOwned(t) \/ VerifyListener(t) \/ VerifyAnswers(t) \/ SignalPid(t)
             \/ MarkStopped(t)
             \/ PersistMemory(t) \/ OpenStateFile(t) \/ WriteStateFile(t)
    <3>1. UNCHANGED handles
      BY <2>7 DEF CommandSpecFor, Spawn, AdoptContains, AdoptProbe, AdoptDiscover,
                  ExpectedUp, AnswerFromSnapshot, RemoveFind, RemoveForget,
                  KillOwned, VerifyListener, VerifyAnswers, SignalPid, MarkStopped,
                  PersistMemory, OpenStateFile, WriteStateFile
    <3>. QED BY <1>1, <3>1, SMTT(40)
  <2>. QED BY <1>5, <2>1, <2>2, <2>3, <2>4, <2>5, <2>6, <2>7 DEF Step
<1>6. CASE Environment
  BY <1>1, <1>6 DEF Environment, Bind, ExitBusy, ReadyLine, Die, Recycle, StudioRestart
<1>7. ASSUME NEW t \in Threads, NEW op \in OpNames, NEW p \in Projects, Call(t, op, p)
      PROVE  handles'[w].kind # "Adopted"
  BY <1>1, <1>7 DEF Call
<1>8. CASE UNCHANGED vars
  BY <1>1, <1>8 DEF vars
<1>. QED BY <1>5, <1>6, <1>7, <1>8 DEF Next

\* F5: an adoption racing a start never replaces the Child the start inserted.
THEOREM ChildIsKept == Spec => ChildKeptByAdoption
<1>1. IInv /\ [Next]_vars =>
        [\A w \in Workspaces :
           handles[w].kind = "Owned" => handles'[w].kind # "Adopted"]_vars
  BY StepKeepsChild
<1>. QED BY <1>1, IInvHolds, PTL DEF Spec, ChildKeptByAdoption
=============================================================================
