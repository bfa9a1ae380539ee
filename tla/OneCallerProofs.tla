--------------------------- MODULE OneCallerProofs ---------------------------
(***************************************************************************)
(* What holds of RuntimeManager while calls do not overlap, for every set  *)
(* of projects, workspaces and pids, every bound, and residents that come  *)
(* up, die and lose their pid at any step: members are live, a stop spares *)
(* the other users and acts, and the custody of residents is kept. The     *)
(* probes may err, except where a theorem says Observant.                  *)
(***************************************************************************)
EXTENDS RuntimeManagerProofs

\* Calls do not overlap: one thread makes them all.
OneCaller == \A t, u \in Threads : t = u

-----------------------------------------------------------------------------
(* The invariant. *)

W(i) == WorkspaceOf[i.project]

\* The places a call of each operation goes through, and where persist_snapshot
\* returns to in it.
Path(op) ==
    CASE op = "start"  -> {"spec", "join", "contains", "probe", "discover", "insert",
                           "spawn", "own"}
      [] op = "stop"   -> {"contains", "probe", "discover", "insert", "take",
                           "kill", "verify", "answers", "signal"}
      [] op = "stopWs" -> {"take", "kill", "verify", "answers", "signal", "mark"}
      [] op = "remove" -> {"find", "leave", "kill", "verify", "answers", "signal", "forget"}
      [] OTHER         -> {"look", "expected", "contains", "probe", "discover", "insert",
                           "fallback"}

Nexts(op) ==
    CASE op = "start"  -> {"idle", "contains"}
      [] op = "stop"   -> {"idle", "take"}
      [] op = "stopWs" -> {"mark"}
      [] op = "remove" -> {"idle"}
      [] OTHER         -> {"idle", "expected"}

Persisting == {"persist", "open", "write"}
Killing == {"kill", "verify", "answers", "signal"}
Unmanaged == {"probe", "discover", "insert", "spawn", "own"} \cup Killing

\* Where a call is, what it carries, and that its workspace is unmanaged there.
Control(i) ==
    /\ i.pc \in Path(i.op) \cup Persisting \cup {"idle"}
    /\ i.pc \in Persisting => i.next \in Nexts(i.op)
    /\ i.op = "remove" => i.pc # "persist" /\ i.next = "idle"
    /\ i.pc \in Killing => i.rec = NoSnapshot /\ i.next = "idle"
    /\ i.pc \notin Holding => i.hand = NoHandle
    /\ i.pc \in Unmanaged => handles[W(i)] = NoHandle
    /\ i.op = "start" /\ i.pc = "contains" => handles[W(i)] = NoHandle
    /\ i.pc \in Persisting /\ i.next = "contains" => handles[W(i)] = NoHandle

\* Where the consent of a start was decided, it still holds.
Consenting(i) ==
    /\ i.op = "start" /\ i.consent
    /\ \/ i.pc \in {"join", "contains", "probe", "discover", "insert", "spawn"}
       \/ i.pc \in Persisting /\ i.next = "contains"

ConsentKept(i) == Consenting(i) => \A v \in Workspaces \ {W(i)} : handles[v] = NoHandle

\* A record about to be kept: the project's record comes to say that it runs, or
\* that it does not.
Arriving(i) == i.pc = "persist" /\ IsLive(i.rec.phase)
Leaving(i) == (i.pc = "persist" /\ ~IsLive(i.rec.phase)) \/ i.pc = "forget"

Live(p) == IsLive(snapshots[p].phase)
Names(s, x) == \E p \in Projects : s[p].pid = x

\* What a call knows of its workspace's members and of the records.
Membership(i) ==
    /\ i.pc = "insert" => i.members = LiveProjects(W(i)) \cup {i.project}
    /\ Leaving(i) => i.project \notin handles[W(i)].members
    /\ Arriving(i) => \/ i.rec.pid = NoPid
                      \/ /\ handles[W(i)].pid = i.rec.pid
                         /\ i.project \in handles[W(i)].members
    /\ i.op = "stopWs" /\ i.pc \notin {"idle", "take"} =>
          /\ handles[W(i)] = NoHandle
          /\ \A p \in i.members : WorkspaceOf[p] = W(i)
    /\ i.pc = "own" => ~Names(snapshots, i.hand.pid)
    /\ i.pc \in Killing /\ i.op \in {"stop", "remove"} =>
          \A q \in Projects \ {i.project} :
              WorkspaceOf[q] = W(i) => ~(Live(q) /\ snapshots[q].pid = i.hand.pid)

\* A process that was a resident of w when it was found, and is no other's.
Used(x) == procs[x] # NoProc
ServesOnly(x, w) ==
    x \in Pids /\ Used(x) /\ (Alive(x) => procs[x].st = "serving" /\ procs[x].ws = w)

\* What a call knows of the processes.
Processes(i) ==
    /\ i.hand.kind = "Adopted" => ServesOnly(i.hand.pid, W(i))
    /\ i.pc = "insert" => ServesOnly(i.found, W(i))
    /\ \A x \in Pids : procs[x] = NoProc => i.rec.pid # x /\ ~Names(i.copy, x)

CallFits(i) == Control(i) /\ ConsentKept(i) /\ Membership(i) /\ Processes(i)

\* runtime-state.json is what the map of snapshots is, but while it is written.
FileFollows ==
    /\ \A t \in Threads : threads[t].pc \in {"open", "write"} => threads[t].copy = snapshots
    /\ (\A t \in Threads : threads[t].pc \notin {"open", "write"}) => stateFile = snapshots

\* A member is a project of the workspace whose record is live, or about to be.
MembersFit ==
    \A w \in Workspaces : \A p \in handles[w].members :
        /\ WorkspaceOf[p] = w
        /\ Live(p) \/ \E t \in Threads : threads[t].project = p /\ Arriving(threads[t])

\* A project whose record says that it runs on the managed process is a member,
\* or on its way out.
UsersAreMembers ==
    \A p \in Projects :
        LET h == handles[WorkspaceOf[p]]
        IN  Live(p) /\ h.pid # NoPid /\ snapshots[p].pid = h.pid =>
                \/ p \in h.members
                \/ \E t \in Threads : threads[t].project = p /\ Leaving(threads[t])

\* The processes: one serves a workspace, a managed one served it, a zombie has an
\* end and a free pid no parent, and no record names a pid that was never used.
OneServing ==
    \A x, y \in Pids : procs[x].st = "serving" /\ procs[y].st = "serving"
                       /\ procs[x].ws = procs[y].ws => x = y
ManagedServe ==
    \A w \in Workspaces : handles[w].kind = "Adopted" => ServesOnly(handles[w].pid, w)
EndsFit ==
    \A x \in Pids : /\ procs[x].st = "zombie" => procs[x].ended # "none"
                    /\ procs[x].st = "free" => ~procs[x].child
UnusedUnnamed ==
    \A x \in Pids : procs[x] = NoProc => ~Names(snapshots, x) /\ ~Names(stateFile, x)

\* A live child of this Studio is in the map, or the call that holds it has just
\* spawned it or ends it.
Holds(i, x) ==
    /\ i.hand.pid = x
    /\ i.pc = "kill" \/ (i.pc = "own" /\ W(i) = procs[x].ws)

ChildrenHeld ==
    \A x \in Pids : Alive(x) /\ procs[x].child =>
        \/ handles[procs[x].ws].kind = "Owned" /\ handles[procs[x].ws].pid = x
        \/ \E t \in Threads : Holds(threads[t], x)

Records == FileFollows /\ MembersFit /\ UsersAreMembers
Residents == OneServing /\ ManagedServe /\ EndsFit /\ UnusedUnnamed
             /\ ChildrenHeld /\ OneConsent

SInv == (\A t \in Threads : CallFits(threads[t])) /\ Records /\ Residents

-----------------------------------------------------------------------------
(* Frames. *)

\* The locals of a thread at rest.
LEMMA IdleFields ==
    /\ IdleThread.pc = "idle" /\ IdleThread.op = "status" /\ IdleThread.hand = NoHandle
    /\ IdleThread.rec = NoSnapshot /\ IdleThread.copy = NoSnapshots /\ IdleThread.next = "idle"
    /\ IdleThread.members = {} /\ IdleThread.consent = FALSE /\ IdleThread.seen = NoPid
    /\ IdleThread.found = NoPid
  BY DEF IdleThread

\* A thread at rest relies on nothing, whatever the state.
LEMMA IdleFits == CallFits(IdleThread)
<1>1. \A x \in Pids : NoSnapshot.pid # x /\ ~Names(NoSnapshots, x)
  BY RuntimeManagerAssumption DEF NoSnapshot, NoSnapshots, Names
<1>2. Control(IdleThread)
  BY IdleFields DEF Control, Persisting, Killing, Unmanaged, Holding
<1>3. ConsentKept(IdleThread)
  BY IdleFields DEF ConsentKept, Consenting
<1>4. Membership(IdleThread)
  BY IdleFields DEF Membership, Leaving, Arriving, Killing
<1>5. Processes(IdleThread)
  BY <1>1, IdleFields DEF Processes, NoHandle
<1>. QED BY <1>2, <1>3, <1>4, <1>5 DEF CallFits

\* A step of the one caller that leaves the map, the records and the processes
\* alone, and comes from where no record is on its way and no child is held.
LEMMA WalkFrame ==
    ASSUME IInv, SInv, OneCaller, NEW t \in Threads, NEW j,
           threads' = [threads EXCEPT ![t] = j],
           UNCHANGED <<handles, snapshots, stateFile, procs>>,
           threads[t].pc \notin Persisting \cup {"forget", "own", "kill"},
           j.pc \notin {"open", "write"},
           CallFits(j)
    PROVE  SInv'
<1>1. threads'[t] = j /\ \A u \in Threads : u = t
  BY DEF IInv, TypeOK, OneCaller
<1>2. CallFits(threads[t])'
  BY <1>1 DEF CallFits, Control, ConsentKept, Membership, Processes, W, Consenting, Arriving,
              Leaving, Live, Names, Used, ServesOnly, Alive, LiveProjects
<1>3. FileFollows'
  BY <1>1 DEF SInv, Records, FileFollows, Persisting
<1>4. MembersFit'
  BY <1>1 DEF SInv, Records, MembersFit, Arriving, Live, Persisting
<1>5. UsersAreMembers'
  BY <1>1 DEF SInv, Records, UsersAreMembers, Leaving, Live, Persisting
<1>6. OneServing' /\ ManagedServe' /\ EndsFit' /\ UnusedUnnamed' /\ OneConsent'
  BY DEF SInv, Residents, OneServing, ManagedServe, EndsFit, UnusedUnnamed, OneConsent,
         ServesOnly, Used, Alive, Names
<1>7. ChildrenHeld'
  BY <1>1 DEF SInv, Residents, ChildrenHeld, Holds, Alive
<1>. QED BY <1>1, <1>2, <1>3, <1>4, <1>5, <1>6, <1>7 DEF SInv, Records, Residents

\* Only the place in the code differs.
MovedTo(i, j, pc) ==
    /\ j.pc = pc
    /\ j.op = i.op /\ j.project = i.project /\ j.hand = i.hand /\ j.found = i.found
    /\ j.members = i.members /\ j.consent = i.consent /\ j.rec = i.rec
    /\ j.next = i.next /\ j.copy = i.copy /\ j.seen = i.seen

\* What Goto makes of the thread's locals.
LEMMA GotoMoves ==
    ASSUME IInv, NEW t \in Threads, NEW pc, Goto(t, pc)
    PROVE  \E j : /\ threads' = [threads EXCEPT ![t] = j]
                  /\ pc = "idle" => j = IdleThread
                  /\ pc # "idle" => MovedTo(threads[t], j, pc)
<1>1. threads[t] \in Thread /\ threads \in [Threads -> Thread]
  BY DEF IInv, TypeOK
<1>2. CASE pc = "idle"
  BY <1>2 DEF Goto
<1>3. CASE pc # "idle"
  <2> DEFINE j == [threads[t] EXCEPT !.pc = pc]
  <2>1. MovedTo(threads[t], j, pc)
    BY <1>1 DEF MovedTo, Thread
  <2>2. threads' = [threads EXCEPT ![t] = j]
    BY <1>1, <1>3 DEF Goto
  <2>. QED BY <1>3, <2>1, <2>2
<1>. QED BY <1>2, <1>3

\* The frame for Goto.
LEMMA GotoWalks ==
    ASSUME IInv, SInv, OneCaller, NEW t \in Threads, NEW pc, Goto(t, pc),
           UNCHANGED <<handles, snapshots, stateFile, procs>>,
           threads[t].pc \notin Persisting \cup {"forget", "own", "kill"},
           pc \notin {"open", "write"},
           pc # "idle" => \A j : MovedTo(threads[t], j, pc) => CallFits(j)
    PROVE  SInv'
<1>1. PICK j : /\ threads' = [threads EXCEPT ![t] = j]
               /\ pc = "idle" => j = IdleThread
               /\ pc # "idle" => MovedTo(threads[t], j, pc)
  BY GotoMoves
<1>2. CallFits(j) /\ j.pc \notin {"open", "write"}
  BY <1>1, IdleFits, IdleFields DEF MovedTo
<1>. QED BY <1>1, <1>2, WalkFrame

\* A call begins.
LEMMA CallKeeps ==
    ASSUME IInv, SInv, OneCaller, NEW t \in Threads, NEW op \in OpNames, NEW p \in Projects,
           Call(t, op, p)
    PROVE  SInv'
<1> DEFINE j == [IdleThread EXCEPT !.pc = FirstPc(op), !.op = op, !.project = p,
                   !.seen = IF op = "stop" THEN Findable(WorkspaceOf[p]) ELSE NoPid]
<1>1. /\ threads' = [threads EXCEPT ![t] = j] /\ threads[t].pc = "idle"
      /\ UNCHANGED <<handles, snapshots, stateFile, procs>>
  BY DEF Call, At
<1>2. /\ j.pc = FirstPc(op) /\ j.op = op /\ j.hand = NoHandle /\ j.next = "idle"
      /\ j.rec = NoSnapshot /\ j.copy = NoSnapshots /\ j.consent = FALSE
  BY IdleFields DEF IdleThread
<1>3. /\ j.pc \in Path(op) \ (Persisting \cup Unmanaged \cup Holding \cup {"forget"})
      /\ op = "start" => j.pc = "spec"
      /\ op = "stopWs" => j.pc = "take"
  BY <1>2 DEF FirstPc, OpNames, Path, Persisting, Unmanaged, Holding, Killing
<1> HIDE DEF j
<1>4. Control(j) /\ ConsentKept(j)
  BY <1>2, <1>3 DEF Control, ConsentKept, Consenting, Unmanaged, Killing, Persisting
<1>5. Membership(j)
  BY <1>2, <1>3 DEF Membership, Leaving, Arriving, Persisting, Unmanaged, Killing
<1>6. Processes(j)
  BY <1>2, <1>3, IdleFits, IdleFields DEF CallFits, Processes, NoHandle, Unmanaged
<1>7. threads[t].pc \notin Persisting \cup {"forget", "own", "kill"} /\ j.pc \notin {"open", "write"}
  BY <1>1, <1>3 DEF Persisting
<1>. QED BY <1>1, <1>4, <1>5, <1>6, <1>7, WalkFrame DEF CallFits

\* What is known of the call that takes a step, and of its workspace's handle.
LEMMA CallFacts ==
    ASSUME IInv, SInv, NEW t \in Threads
    PROVE  /\ threads[t] \in Thread /\ threads \in [Threads -> Thread]
           /\ CallFits(threads[t]) /\ threads[t].op \in OpNames
           /\ threads[t].project \in Projects /\ W(threads[t]) = Ws(t) /\ Ws(t) \in Workspaces
           /\ handles \in [Workspaces -> Handle] /\ procs \in [Pids -> Proc]
           /\ snapshots \in [Projects -> Snapshot]
           /\ \A p \in Projects : WorkspaceOf[p] \in Workspaces
           /\ \A x \in Pids : procs[x].ws \in Workspaces
<1>1. \A x \in Pids : procs[x].ws \in Workspaces
  BY DEF IInv, TypeOK, Proc
<1>. QED BY <1>1, ThreadFields, RuntimeManagerAssumption DEF IInv, SInv, TypeOK, W, Ws


\* A call that only moves on keeps what it relies on, where it may move so.
LEMMA MoveFits ==
    ASSUME NEW i, NEW j, NEW pc, CallFits(i), MovedTo(i, j, pc),
           pc \in Path(i.op), pc \notin Persisting \cup {"forget", "own", "insert"},
           pc \notin Holding => i.pc \notin Holding,
           pc \in Killing => i.pc \in Killing,
           pc \in Unmanaged => handles[W(i)] = NoHandle,
           i.op = "start" =>
               /\ pc = "contains" => handles[W(i)] = NoHandle
               /\ i.pc \in {"join", "contains", "probe", "discover", "insert", "spawn"}
                  \/ (i.pc \in Persisting /\ i.next = "contains"),
           i.op = "stopWs" => i.pc \notin {"idle", "take"}
    PROVE  CallFits(j)
<1>1. Control(j)
  BY DEF CallFits, Control, MovedTo, Persisting, Killing, Holding, Unmanaged, W
<1>2. ConsentKept(j)
  BY DEF CallFits, ConsentKept, Consenting, MovedTo, Persisting, W
<1>3. Membership(j)
  BY DEF CallFits, Membership, MovedTo, Leaving, Arriving, Killing, Persisting, W
<1>4. Processes(j)
  BY DEF CallFits, Processes, MovedTo, W
<1>. QED BY <1>1, <1>2, <1>3, <1>4 DEF CallFits

\* The steps that only look and go on.
LEMMA LooksKeep ==
    ASSUME IInv, SInv, OneCaller, NEW t \in Threads,
           \/ AdoptContains(t) \/ AdoptProbe(t) \/ ExpectedUp(t) \/ AnswerFromSnapshot(t)
           \/ RemoveFind(t)
    PROVE  SInv'
<1> DEFINE i == threads[t]
<1>0. /\ CallFits(i) /\ i.op \in OpNames /\ W(i) = Ws(t) /\ i.project \in Projects
      /\ UNCHANGED <<handles, snapshots, stateFile, procs>>
      /\ i.pc \in Path(i.op) \cup Persisting \cup {"idle"}
  BY CallFacts DEF AdoptContains, AdoptProbe, ExpectedUp, AnswerFromSnapshot, RemoveFind,
                   CallFits, Control
<1>1. CASE AdoptContains(t)
  <2>1. PICK pc : /\ Goto(t, pc) /\ i.pc = "contains"
                  /\ pc = IF handles[Ws(t)] = NoHandle THEN "probe" ELSE AfterNotAdopted(i.op)
    BY <1>1 DEF AdoptContains, At
  <2>2. \/ pc = "probe" /\ handles[W(i)] = NoHandle /\ i.op \in {"start", "stop", "status"}
        \/ pc = "take" /\ i.op = "stop"
        \/ pc = "fallback" /\ i.op = "status"
    BY <1>0, <2>1 DEF AfterNotAdopted, CallFits, Control, Path, OpNames, Persisting
  <2>3. ASSUME NEW j, MovedTo(i, j, pc) PROVE CallFits(j)
    BY <1>0, <2>1, <2>2, <2>3, MoveFits DEF Path, Persisting, Killing, Unmanaged, Holding
  <2>. QED BY <1>0, <2>1, <2>2, <2>3, GotoWalks DEF Persisting
<1>2. CASE AdoptProbe(t)
  <2>1. PICK pc : /\ Goto(t, pc) /\ i.pc = "probe"
                  /\ pc \in {"discover", AfterNotAdopted(i.op)}
    BY <1>2 DEF AdoptProbe, At
  <2>2. /\ handles[W(i)] = NoHandle
        /\ \/ pc = "discover" /\ i.op \in {"start", "stop", "status"}
           \/ pc = "spawn" /\ i.op = "start"
           \/ pc = "take" /\ i.op = "stop"
           \/ pc = "fallback" /\ i.op = "status"
    BY <1>0, <2>1 DEF AfterNotAdopted, CallFits, Control, Path, OpNames, Persisting, Unmanaged
  <2>3. ASSUME NEW j, MovedTo(i, j, pc) PROVE CallFits(j)
    BY <1>0, <2>1, <2>2, <2>3, MoveFits DEF Path, Persisting, Killing, Unmanaged, Holding
  <2>. QED BY <1>0, <2>1, <2>2, <2>3, GotoWalks DEF Persisting
<1>3. CASE ExpectedUp(t)
  <2>1. PICK pc \in {"fallback", "contains"} : Goto(t, pc) /\ i.pc = "expected"
    BY <1>3 DEF ExpectedUp, At
  <2>2. i.op = "status"
    BY <1>0, <2>1 DEF Path, OpNames, Persisting
  <2>3. ASSUME NEW j, MovedTo(i, j, pc) PROVE CallFits(j)
    BY <1>0, <2>1, <2>2, <2>3, MoveFits DEF Path, Persisting, Killing, Unmanaged, Holding
  <2>. QED BY <1>0, <2>1, <2>3, GotoWalks DEF Persisting
<1>4. CASE AnswerFromSnapshot(t)
  <2>1. Goto(t, "idle") /\ i.pc = "fallback"
    BY <1>4 DEF AnswerFromSnapshot, At
  <2>. QED BY <1>0, <2>1, GotoWalks DEF Persisting
<1>5. CASE RemoveFind(t)
  <2>1. PICK pc \in {"leave", "forget"} :
             /\ Goto(t, pc) /\ i.pc = "find"
             /\ pc = "forget" => i.project \notin handles[W(i)].members
    BY <1>0, <1>5 DEF RemoveFind, At
  <2>2. i.op = "remove"
    BY <1>0, <2>1 DEF Path, OpNames, Persisting
  <2>3. ASSUME NEW j, MovedTo(i, j, pc) PROVE CallFits(j)
    <3>1. CASE pc = "leave"
      BY <1>0, <2>1, <2>2, <2>3, <3>1, MoveFits DEF Path, Persisting, Killing, Unmanaged, Holding
    <3>2. CASE pc = "forget"
      <4>1. Control(j) /\ ConsentKept(j)
        BY <1>0, <2>1, <2>2, <2>3, <3>2 DEF CallFits, Control, ConsentKept, Consenting, MovedTo,
                                       Path, Persisting, Killing, Holding, Unmanaged
      <4>2. Membership(j)
        BY <1>0, <2>1, <2>2, <2>3, <3>2 DEF Membership, MovedTo, Leaving, Arriving, Killing, W
      <4>3. Processes(j)
        BY <1>0, <2>1, <2>3, <3>2 DEF CallFits, Processes, MovedTo, W
      <4>. QED BY <4>1, <4>2, <4>3 DEF CallFits
    <3>. QED BY <2>1, <3>1, <3>2
  <2>. QED BY <1>0, <2>1, <2>3, GotoWalks DEF Persisting
<1>. QED BY <1>1, <1>2, <1>3, <1>4, <1>5

\* The verifications of kill_and_reap: the hand is kept, or let go.
LEMMA ReleasedMoves ==
    ASSUME IInv, NEW t \in Threads, Released(t)
    PROVE  \E j : /\ threads' = [threads EXCEPT ![t] = j]
                  /\ j.pc = AfterKill(threads[t].op) /\ j.hand = NoHandle
                  /\ j.op = threads[t].op /\ j.project = threads[t].project
                  /\ j.found = threads[t].found /\ j.members = threads[t].members
                  /\ j.consent = threads[t].consent /\ j.rec = threads[t].rec
                  /\ j.next = threads[t].next /\ j.copy = threads[t].copy
                  /\ j.seen = threads[t].seen
<1>1. threads[t] \in Thread /\ threads \in [Threads -> Thread]
  BY DEF IInv, TypeOK
<1> DEFINE j == [threads[t] EXCEPT !.pc = AfterKill(threads[t].op), !.hand = NoHandle]
<1>2. threads' = [threads EXCEPT ![t] = j]
  BY <1>1 DEF Released
<1>3. /\ j.pc = AfterKill(threads[t].op) /\ j.hand = NoHandle
      /\ j.op = threads[t].op /\ j.project = threads[t].project
      /\ j.found = threads[t].found /\ j.members = threads[t].members
      /\ j.consent = threads[t].consent /\ j.rec = threads[t].rec
      /\ j.next = threads[t].next /\ j.copy = threads[t].copy
      /\ j.seen = threads[t].seen
  BY <1>1 DEF Thread
<1>. QED BY <1>2, <1>3

\* What a call that has dealt with its process relies on then.
LEMMA ReleasedFits ==
    ASSUME NEW i, NEW j, CallFits(i), i.op \in OpNames, i.pc \in Killing,
           j.pc = AfterKill(i.op), j.hand = NoHandle, j.op = i.op, j.project = i.project,
           j.found = i.found, j.members = i.members, j.consent = i.consent, j.rec = i.rec,
           j.next = i.next, j.copy = i.copy
    PROVE  CallFits(j)
<1>1. \/ i.op = "stop" /\ j.pc = "persist"
      \/ i.op = "stopWs" /\ j.pc = "mark"
      \/ i.op = "remove" /\ j.pc = "forget"
  BY DEF CallFits, Control, Path, OpNames, AfterKill, Killing, Persisting
<1>2. handles[W(i)] = NoHandle /\ W(j) = W(i) /\ i.rec = NoSnapshot /\ i.next = "idle"
  BY DEF CallFits, Control, Killing, Unmanaged, W
<1>3. Control(j) /\ ConsentKept(j)
  BY <1>1, <1>2 DEF Control, ConsentKept, Consenting, Path, Nexts, Persisting, Killing, Holding,
                    Unmanaged
<1>4. Membership(j)
  BY <1>1, <1>2 DEF CallFits, Membership, Leaving, Arriving, Killing, NoSnapshot, IsLive, NoHandle
<1>5. Processes(j)
  BY <1>1, <1>2 DEF CallFits, Processes, NoHandle
<1>. QED BY <1>3, <1>4, <1>5 DEF CallFits

\* A verification keeps the hand for the next one, or lets it go.
LEMMA VerifyKeeps ==
    ASSUME IInv, SInv, OneCaller, NEW t \in Threads, VerifyListener(t) \/ VerifyAnswers(t)
    PROVE  SInv'
<1> DEFINE i == threads[t]
<1>0. /\ CallFits(i) /\ i.op \in OpNames
      /\ UNCHANGED <<handles, snapshots, stateFile, procs>>
      /\ i.pc \in {"verify", "answers"} /\ i.pc \in Path(i.op)
  BY CallFacts DEF VerifyListener, VerifyAnswers, At, CallFits, Control, Persisting
<1>1. CASE Released(t)
  <2>1. PICK j : /\ threads' = [threads EXCEPT ![t] = j]
                 /\ j.pc = AfterKill(i.op) /\ j.hand = NoHandle
                 /\ j.op = i.op /\ j.project = i.project
                 /\ j.found = i.found /\ j.members = i.members
                 /\ j.consent = i.consent /\ j.rec = i.rec
                 /\ j.next = i.next /\ j.copy = i.copy
    BY <1>1, ReleasedMoves
  <2>2. CallFits(j)
    BY <1>0, <2>1, ReleasedFits DEF Killing
  <2>3. j.pc \notin {"open", "write"}
    BY <2>1 DEF AfterKill
  <2>. QED BY <1>0, <2>1, <2>2, <2>3, WalkFrame DEF Persisting
<1>2. CASE ~Released(t)
  <2>1. PICK pc \in {"answers", "signal"} : Goto(t, pc)
    BY <1>2 DEF VerifyListener, VerifyAnswers
  <2>2. i.op \in {"stop", "stopWs", "remove"} /\ pc \in Path(i.op) /\ handles[W(i)] = NoHandle
    BY <1>0, <2>1 DEF Path, OpNames, CallFits, Control, Unmanaged, Killing
  <2>3. ASSUME NEW j, MovedTo(i, j, pc) PROVE CallFits(j)
    BY <1>0, <2>1, <2>2, <2>3, MoveFits DEF Persisting, Killing, Unmanaged, Holding
  <2>. QED BY <1>0, <2>1, <2>3, GotoWalks DEF Persisting
<1>. QED BY <1>1, <1>2

-----------------------------------------------------------------------------
(* The frame for the steps that change the map or the processes. *)

\* No process comes up: each stays as it is or ends, and a used pid stays used.
Wanes ==
    \A x \in Pids :
        \/ procs'[x] = procs[x]
        \/ /\ procs[x] # NoProc /\ procs'[x] # NoProc
           /\ ~Alive(x)'
           /\ procs'[x].st = "zombie" => procs'[x].ended # "none"
           /\ procs'[x].st = "free" => ~procs'[x].child

\* What such a step keeps of the processes.
LEMMA WaneKeeps ==
    ASSUME SInv, Wanes
    PROVE  /\ OneServing' /\ EndsFit' /\ OneConsent'
           /\ \A x, w : ServesOnly(x, w) => ServesOnly(x, w)'
           /\ \A x \in Pids : procs'[x] = NoProc => procs[x] = NoProc
<1>1. OneServing'
  BY DEF Wanes, SInv, Residents, OneServing, Alive
<1>2. EndsFit'
  BY DEF Wanes, SInv, Residents, EndsFit
<1>3. OneConsent'
  BY DEF Wanes, SInv, Residents, OneConsent, Alive
<1>4. \A x, w : ServesOnly(x, w) => ServesOnly(x, w)'
  BY DEF Wanes, ServesOnly, Used, Alive
<1>5. \A x \in Pids : procs'[x] = NoProc => procs[x] = NoProc
  BY DEF Wanes
<1>. QED BY <1>1, <1>2, <1>3, <1>4, <1>5

\* A step of the one caller that writes no record.
LEMMA StepFrame ==
    ASSUME IInv, SInv, OneCaller, Wanes, NEW t \in Threads,
           UNCHANGED <<snapshots, stateFile>>,
           threads[t].pc \notin {"open", "write"}, threads'[t].pc \notin {"open", "write"},
           CallFits(threads[t])', MembersFit', UsersAreMembers', ManagedServe', ChildrenHeld'
    PROVE  SInv'
<1>1. \A u \in Threads : u = t
  BY DEF OneCaller
<1>2. FileFollows'
  BY <1>1 DEF SInv, Records, FileFollows
<1>3. UnusedUnnamed'
  BY WaneKeeps DEF SInv, Residents, UnusedUnnamed, Names
<1>. QED BY <1>1, <1>2, <1>3, WaneKeeps DEF SInv, Records, Residents

\* The locals of a call that turns to persist_snapshot.
LEMMA PersistMoves ==
    ASSUME IInv, NEW t \in Threads, NEW rec, NEW next, Persist(t, rec, next)
    PROVE  LET i == threads[t]
               j == threads'[t]
           IN  /\ j.pc = "persist" /\ j.rec = rec /\ j.next = next
               /\ j.op = i.op /\ j.project = i.project /\ j.hand = i.hand
               /\ j.found = i.found /\ j.members = i.members /\ j.consent = i.consent
               /\ j.copy = i.copy /\ j.seen = i.seen
<1>1. threads[t] \in Thread /\ threads \in [Threads -> Thread]
  BY DEF IInv, TypeOK
<1> DEFINE j == [threads[t] EXCEPT !.pc = "persist", !.rec = rec, !.next = next]
<1>2. threads'[t] = j
  BY <1>1 DEF Persist
<1>3. /\ j.pc = "persist" /\ j.rec = rec /\ j.next = next
      /\ j.op = threads[t].op /\ j.project = threads[t].project /\ j.hand = threads[t].hand
      /\ j.found = threads[t].found /\ j.members = threads[t].members
      /\ j.consent = threads[t].consent
      /\ j.copy = threads[t].copy /\ j.seen = threads[t].seen
  BY <1>1 DEF Thread
<1> HIDE DEF j
<1>. QED BY <1>2, <1>3

\* What is left of a process that has ended.
LEMMA EndFields ==
    ASSUME NEW x
    PROVE  /\ NoProc.st = "free" /\ NoProc.ended = "none" /\ NoProc.child = FALSE
           /\ Freed(x).st = "free" /\ Freed(x).child = FALSE /\ Freed(x).ended = procs[x].ended
  BY DEF NoProc, Freed

\* A process that ends was used, stays used, and lives no longer.
LEMMA EndWanes ==
    ASSUME NEW x \in Pids, procs[x].st # "free", NEW how \in {"exited", "stopped"},
           procs'[x] = procs[x] \/ procs'[x] = Ended(x, how),
           \A y \in Pids \ {x} : procs'[y] = procs[y]
    PROVE  Wanes
<1>1. procs[x] # NoProc
  BY EndFields
<1>2. CASE procs'[x] = Ended(x, how)
  <2>1. procs'[x].st \in {"zombie", "free"} /\ procs'[x].ended = how
    BY <1>2 DEF Ended, NoProc
  <2>2. procs'[x] # NoProc
    BY <2>1, EndFields
  <2>3. procs'[x].st = "free" => ~procs'[x].child
    BY <1>2 DEF Ended, NoProc
  <2>. QED BY <1>1, <2>1, <2>2, <2>3 DEF Wanes, Alive
<1>. QED BY <1>2 DEF Wanes

\* A dead handle is taken out of the map, and its child is waited for.
LEMMA ReapWanes ==
    ASSUME IInv, SInv, NEW h \in Handle, h # NoHandle, IsDead(h), procs' = Reaped(h)
    PROVE  Wanes
<1>1. h.kind = "Owned" => h.pid \in Pids /\ procs[h.pid].st = "zombie"
  BY DEF IsDead, Handle, NoHandle
<1>2. CASE h.kind = "Owned"
  <2>1. procs[h.pid] \in Proc /\ procs \in [Pids -> Proc] /\ procs[h.pid].ended # "none"
    BY <1>1, <1>2 DEF IInv, TypeOK, SInv, Residents, EndsFit
  <2>2. /\ Freed(h.pid).st = "free" /\ Freed(h.pid).ended = procs[h.pid].ended
        /\ ~Freed(h.pid).child /\ NoProc.st = "free" /\ NoProc.ended = "none"
    BY EndFields
  <2>3. procs'[h.pid] = Freed(h.pid) /\ \A y \in Pids \ {h.pid} : procs'[y] = procs[y]
    BY <1>1, <1>2, <2>1 DEF Reaped
  <2>. QED BY <1>1, <1>2, <2>1, <2>2, <2>3 DEF Wanes, Alive
<1>3. CASE h.kind # "Owned"
  BY <1>3 DEF Reaped, Wanes
<1>. QED BY <1>2, <1>3

\* A call that finds its workspace's resident dead takes it out of the map.
LEMMA ReapKeeps ==
    ASSUME IInv, SInv, OneCaller, NEW t \in Threads, NEW next,
           handles[Ws(t)] # NoHandle, IsDead(handles[Ws(t)]),
           handles' = [handles EXCEPT ![Ws(t)] = NoHandle],
           procs' = Reaped(handles[Ws(t)]),
           Persist(t, Record("Failed", NoPid), next),
           UNCHANGED <<snapshots, stateFile>>,
           \/ threads[t].pc = "join" /\ next = "contains"
           \/ threads[t].pc = "look" /\ next = "expected"
    PROVE  SInv'
<1> DEFINE i == threads[t]
           w == Ws(t)
           h == handles[w]
<1>1. /\ CallFits(i) /\ i.op \in OpNames /\ W(i) = w /\ w \in Workspaces /\ i.project \in Projects
      /\ handles \in [Workspaces -> Handle] /\ h \in Handle /\ procs \in [Pids -> Proc]
  BY CallFacts
<1>2. \/ i.pc = "join" /\ i.op = "start" /\ next = "contains"
      \/ i.pc = "look" /\ i.op = "status" /\ next = "expected"
  BY <1>1 DEF CallFits, Control, Path, Persisting, OpNames
<1>3. /\ threads'[t].pc = "persist" /\ threads'[t].rec = Record("Failed", NoPid)
      /\ threads'[t].next = next
      /\ threads'[t].op = i.op /\ threads'[t].project = i.project /\ threads'[t].hand = i.hand
      /\ threads'[t].consent = i.consent /\ threads'[t].copy = i.copy
  BY PersistMoves
<1>4. handles'[w] = NoHandle /\ \A v \in Workspaces \ {w} : handles'[v] = handles[v]
  BY <1>1
<1>5. Wanes
  BY <1>1, ReapWanes
<1>6. \A u \in Threads : u = t
  BY DEF OneCaller
<1>7. i.hand = NoHandle
  BY <1>1, <1>2 DEF CallFits, Control, Holding
<1>8. CallFits(threads[t])'
  <2>1. Control(threads[t])'
    BY <1>1, <1>2, <1>3, <1>4, <1>7
       DEF Control, Persisting, Killing, Unmanaged, Holding, Path, Nexts, W
  <2>2. ConsentKept(threads[t])'
    BY <1>1, <1>2, <1>3, <1>4 DEF CallFits, ConsentKept, Consenting, Persisting, W
  <2>3. Membership(threads[t])'
    BY <1>1, <1>2, <1>3, <1>4
       DEF Membership, Leaving, Arriving, Killing, W, Record, IsLive, NoHandle
  <2>4. Processes(threads[t])'
    BY <1>1, <1>2, <1>3, <1>5, <1>7, WaneKeeps, RuntimeManagerAssumption
       DEF CallFits, Processes, NoHandle, Record, Names
  <2>. QED BY <2>1, <2>2, <2>3, <2>4 DEF CallFits
<1>9. MembersFit'
  BY <1>1, <1>2, <1>4, <1>6 DEF SInv, Records, MembersFit, Arriving, Live, NoHandle
<1>10. UsersAreMembers'
  BY <1>1, <1>2, <1>4, <1>6, RuntimeManagerAssumption
     DEF SInv, Records, UsersAreMembers, Leaving, Live, NoHandle
<1>11. ManagedServe'
  BY <1>4, <1>5, WaneKeeps DEF SInv, Residents, ManagedServe, NoHandle
<1>12. ChildrenHeld'
  <2>. SUFFICES ASSUME NEW x \in Pids, Alive(x)', procs'[x].child
                PROVE  /\ handles'[procs'[x].ws].kind = "Owned"
                       /\ handles'[procs'[x].ws].pid = x
    BY DEF ChildrenHeld
  <2>1. procs'[x] = procs[x] /\ Alive(x) /\ procs[x].child /\ procs[x].ws \in Workspaces
    BY <1>1, <1>5 DEF Wanes, Alive, Proc
  <2>2. handles[procs[x].ws].kind = "Owned" /\ handles[procs[x].ws].pid = x
    BY <1>2, <1>6, <2>1 DEF SInv, Residents, ChildrenHeld, Holds
  <2>3. procs[x].ws # w
    BY <2>1, <2>2 DEF IsDead, Alive
  <2>. QED BY <1>4, <2>1, <2>2, <2>3
<1>. QED BY <1>2, <1>3, <1>5, <1>8, <1>9, <1>10, <1>11, <1>12, StepFrame

-----------------------------------------------------------------------------
(* start_runtime and get_runtime_status. *)

\* The decision on the consent is made on the map as it is.
LEMMA SpecKeeps ==
    ASSUME IInv, SInv, OneCaller, NEW t \in Threads, CommandSpecFor(t)
    PROVE  SInv'
<1> DEFINE i == threads[t]
           j == [i EXCEPT !.pc = "join", !.consent = NoOtherWorkspaceRunning(Ws(t))]
<1>1. /\ CallFits(i) /\ i.op \in OpNames /\ W(i) = Ws(t) /\ i \in Thread
      /\ i.pc = "spec" /\ threads' = [threads EXCEPT ![t] = j]
      /\ UNCHANGED <<handles, snapshots, stateFile, procs>>
  BY CallFacts DEF CommandSpecFor, At
<1>2. /\ j.pc = "join" /\ j.consent = NoOtherWorkspaceRunning(Ws(t)) /\ j.op = i.op
      /\ j.project = i.project /\ j.hand = i.hand /\ j.found = i.found
      /\ j.members = i.members /\ j.rec = i.rec /\ j.next = i.next /\ j.copy = i.copy
  BY <1>1 DEF Thread
<1> HIDE DEF j
<1>3. i.op = "start" /\ i.hand = NoHandle
  BY <1>1 DEF CallFits, Control, Path, Persisting, OpNames, Holding
<1>4. Control(j)
  BY <1>1, <1>2, <1>3 DEF Control, Path, Persisting, Killing, Unmanaged
<1>5. ConsentKept(j)
  <2>. SUFFICES ASSUME Consenting(j)
                PROVE  \A v \in Workspaces \ {W(j)} : handles[v] = NoHandle
    BY DEF ConsentKept
  <2>1. j.consent
    BY DEF Consenting
  <2>2. NoOtherWorkspaceRunning(Ws(t))
    BY <1>2, <2>1, Zenon
  <2>3. W(j) = Ws(t)
    BY <1>1, <1>2 DEF W
  <2>. QED BY <2>2, <2>3 DEF NoOtherWorkspaceRunning
<1>6. Membership(j)
  BY <1>2, <1>3 DEF Membership, Leaving, Arriving, Killing
<1>7. Processes(j)
  BY <1>1, <1>2 DEF CallFits, Processes, W
<1>. QED BY <1>1, <1>2, <1>4, <1>5, <1>6, <1>7, WalkFrame DEF CallFits, Persisting

\* A handle names a pid that has been used.
LEMMA HandlesUsed ==
    ASSUME IInv, SInv, NEW w \in Workspaces, handles[w] # NoHandle
    PROVE  handles[w].pid \in Pids /\ handles[w].kind \in {"Owned", "Adopted"}
           /\ Used(handles[w].pid)
<1>1. handles[w].pid \in Pids /\ handles[w].kind \in {"Owned", "Adopted"}
  BY DEF IInv, TypeOK, Handle
<1>2. CASE handles[w].kind = "Owned"
  BY <1>1, <1>2 DEF IInv, KillsAreSafe, OwnedIsUnreaped, Unreaped, Used, NoProc
<1>3. CASE handles[w].kind = "Adopted"
  BY <1>3 DEF SInv, Residents, ManagedServe, ServesOnly
<1>. QED BY <1>1, <1>2, <1>3

Join(t) ==
    handles' = [handles EXCEPT ![Ws(t)].members = @ \cup {threads[t].project}]

\* A project joins the resident of its workspace: a member whose record is about
\* to say so.
LEMMA JoinKeeps ==
    ASSUME IInv, SInv, OneCaller, NEW t \in Threads, NEW phase \in {"Starting", "Running"},
           threads[t].pc = "join", handles[Ws(t)] # NoHandle,
           Join(t), Persist(t, Record(phase, handles[Ws(t)].pid), "idle"),
           UNCHANGED <<snapshots, stateFile, procs>>
    PROVE  SInv'
<1> DEFINE i == threads[t]
           w == Ws(t)
           h == handles[w]
<1>1. /\ CallFits(i) /\ i.op \in OpNames /\ W(i) = w /\ w \in Workspaces /\ i.project \in Projects
      /\ handles \in [Workspaces -> Handle] /\ h \in Handle /\ procs \in [Pids -> Proc]
  BY CallFacts
<1>2. i.op = "start" /\ i.hand = NoHandle
  BY <1>1 DEF CallFits, Control, Path, Persisting, OpNames, Holding
<1>3. /\ threads'[t].pc = "persist" /\ threads'[t].rec = Record(phase, h.pid)
      /\ threads'[t].next = "idle"
      /\ threads'[t].op = i.op /\ threads'[t].project = i.project /\ threads'[t].hand = i.hand
      /\ threads'[t].consent = i.consent /\ threads'[t].copy = i.copy
  BY PersistMoves
<1>4. /\ handles'[w].pid = h.pid /\ handles'[w].kind = h.kind
      /\ handles'[w].members = h.members \cup {i.project}
      /\ \A v \in Workspaces \ {w} : handles'[v] = handles[v]
  <2>1. handles' = [handles EXCEPT ![w] = [h EXCEPT !.members = @ \cup {i.project}]]
    BY DEF Join
  <2>2. h \in [pid : Pids, kind : {"Owned", "Adopted"}, members : SUBSET Projects]
    BY <1>1 DEF Handle
  <2> HIDE DEF h, i
  <2>. QED BY <1>1, <2>1, <2>2
<1>5. Wanes
  BY DEF Wanes
<1>6. \A u \in Threads : u = t
  BY DEF OneCaller
<1>7. h.pid \in Pids /\ Used(h.pid)
  BY <1>1, HandlesUsed
<1>8. CallFits(threads[t])'
  <2>1. Control(threads[t])'
    BY <1>1, <1>2, <1>3 DEF Control, Persisting, Killing, Unmanaged, Nexts
  <2>2. ConsentKept(threads[t])'
    BY <1>3 DEF ConsentKept, Consenting
  <2>3. Membership(threads[t])'
    BY <1>1, <1>2, <1>3, <1>4
       DEF Membership, Leaving, Arriving, Killing, W, Record, IsLive
  <2>4. Processes(threads[t])'
    BY <1>1, <1>2, <1>3, <1>7 DEF CallFits, Processes, NoHandle, Record, Names, Used
  <2>. QED BY <2>1, <2>2, <2>3, <2>4 DEF CallFits
<1>9. MembersFit'
  <2>1. Arriving(threads[t])' /\ WorkspaceOf[i.project] = w
    BY <1>1, <1>3 DEF Arriving, Record, IsLive, W
  <2>. SUFFICES ASSUME NEW v \in Workspaces, NEW p \in handles'[v].members
                PROVE  /\ WorkspaceOf[p] = v
                       /\ p = i.project \/ Live(p)'
    BY <1>3, <2>1 DEF MembersFit
  <2>2. p \in handles[v].members \/ (v = w /\ p = i.project)
    BY <1>4
  <2>. QED BY <1>6, <2>1, <2>2 DEF SInv, Records, MembersFit, Arriving, Live
<1>10. UsersAreMembers'
  <2>1. \A p \in Projects : WorkspaceOf[p] \in Workspaces
    BY CallFacts
  <2>. QED BY <1>1, <1>4, <1>6, <2>1 DEF SInv, Records, UsersAreMembers, Leaving, Live
<1>11. ManagedServe'
  BY <1>4, <1>5, WaneKeeps DEF SInv, Residents, ManagedServe
<1>12. ChildrenHeld'
  <2>1. \A x \in Pids : procs[x].ws \in Workspaces
    BY CallFacts
  <2>. QED BY <1>4, <1>6, <2>1 DEF SInv, Residents, ChildrenHeld, Holds, Alive
<1>. QED BY <1>3, <1>5, <1>8, <1>9, <1>10, <1>11, <1>12, StepFrame

\* try_join_running_workspace, from a start.
LEMMA TryJoinKeeps ==
    ASSUME IInv, SInv, OneCaller, NEW t \in Threads, TryJoin(t)
    PROVE  SInv'
<1> DEFINE i == threads[t]
           h == handles[Ws(t)]
<1>1. /\ CallFits(i) /\ i.op \in OpNames /\ W(i) = Ws(t) /\ i.pc \in {"join", "rejoin"}
      /\ UNCHANGED <<snapshots, stateFile>>
  BY CallFacts DEF TryJoin
<1>2. i.pc = "join" /\ i.op = "start"
  BY <1>1 DEF CallFits, Control, Path, Persisting, OpNames
<1>3. CASE h = NoHandle /\ Goto(t, AfterNoJoin(t)) /\ UNCHANGED <<handles, procs>>
  <2>1. AfterNoJoin(t) = "contains"
    BY <1>2 DEF AfterNoJoin, At
  <2>2. ASSUME NEW j, MovedTo(i, j, "contains") PROVE CallFits(j)
    BY <1>1, <1>2, <1>3, <2>2, MoveFits DEF Path, Persisting, Killing, Unmanaged, Holding
  <2>. QED BY <1>1, <1>2, <1>3, <2>1, <2>2, GotoWalks DEF Persisting
<1>4. CASE /\ h # NoHandle /\ IsDead(h)
           /\ handles' = [handles EXCEPT ![Ws(t)] = NoHandle]
           /\ procs' = Reaped(h)
           /\ Persist(t, Record("Failed", NoPid), AfterNoJoin(t))
  BY <1>1, <1>2, <1>4, ReapKeeps DEF AfterNoJoin, At
<1>5. CASE /\ h # NoHandle /\ ~IsDead(h)
           /\ handles' = [handles EXCEPT ![Ws(t)].members = @ \cup {threads[t].project}]
           /\ \E phase \in LivePhases(h) :
                Persist(t, Record(phase, h.pid), IF At(t, "join") THEN "idle"
                                                 ELSE AfterAdopted(threads[t].op))
           /\ UNCHANGED procs
  <2>1. PICK phase \in LivePhases(h) : Persist(t, Record(phase, h.pid), "idle")
    BY <1>2, <1>5 DEF At
  <2>2. phase \in {"Starting", "Running"}
    BY <2>1 DEF LivePhases
  <2>3. Join(t)
    BY <1>5 DEF Join
  <2>. QED BY <1>1, <1>2, <1>5, <2>1, <2>2, <2>3, JoinKeeps
<1>. QED BY <1>3, <1>4, <1>5 DEF TryJoin

\* try_join_running_workspace_readonly.
LEMMA LookKeeps ==
    ASSUME IInv, SInv, OneCaller, NEW t \in Threads, TryJoinReadonly(t)
    PROVE  SInv'
<1> DEFINE i == threads[t]
           h == handles[Ws(t)]
<1>1. /\ CallFits(i) /\ i.op \in OpNames /\ W(i) = Ws(t) /\ i.pc = "look"
      /\ UNCHANGED <<snapshots, stateFile>>
  BY CallFacts DEF TryJoinReadonly, At
<1>2. i.op = "status"
  BY <1>1 DEF CallFits, Control, Path, Persisting, OpNames
<1>3. ASSUME NEW pc \in {"expected", "idle"}, Goto(t, pc), UNCHANGED <<handles, procs>>
      PROVE  SInv'
  <2>1. ASSUME NEW j, MovedTo(i, j, "expected") PROVE CallFits(j)
    BY <1>1, <1>2, <1>3, <2>1, MoveFits DEF Path, Persisting, Killing, Unmanaged, Holding
  <2>. QED BY <1>1, <1>2, <1>3, <2>1, GotoWalks DEF Persisting
<1>4. CASE /\ h # NoHandle /\ IsDead(h)
           /\ handles' = [handles EXCEPT ![Ws(t)] = NoHandle]
           /\ procs' = Reaped(h)
           /\ Persist(t, Record("Failed", NoPid), "expected")
  BY <1>1, <1>2, <1>4, ReapKeeps
<1>. QED BY <1>3, <1>4 DEF TryJoinReadonly

\* A resident is spawned where nothing is managed: it is the call's to insert, and
\* with its consent no other child lives.
LEMMA SpawnKeeps ==
    ASSUME IInv, SInv, OneCaller, NEW t \in Threads, Spawn(t)
    PROVE  SInv'
<1> DEFINE i == threads[t]
           w == Ws(t)
<1>1. /\ CallFits(i) /\ i.op \in OpNames /\ W(i) = w /\ i.project \in Projects /\ w \in Workspaces
      /\ i.pc = "spawn" /\ i \in Thread /\ threads \in [Threads -> Thread]
      /\ procs \in [Pids -> Proc]
      /\ UNCHANGED <<handles, snapshots, stateFile>>
  BY CallFacts DEF Spawn, At
<1>2. i.op = "start" /\ handles[w] = NoHandle
  BY <1>1 DEF CallFits, Control, Path, Persisting, OpNames, Unmanaged
<1>3. CASE Goto(t, "idle") /\ UNCHANGED procs
  BY <1>1, <1>3, GotoWalks DEF Persisting
<1>4. ASSUME NEW x \in Pids, procs[x] = NoProc,
             procs' = [procs EXCEPT ![x] =
                         [st |-> "starting", ws |-> w, child |-> TRUE, ready |-> FALSE,
                          consent |-> i.consent, ended |-> "none"]],
             threads' = [threads EXCEPT ![t] =
                           [i EXCEPT !.pc = "own",
                                     !.hand = [pid |-> x, kind |-> "Owned", members |-> {}]]]
      PROVE  SInv'
  <2> DEFINE j == [i EXCEPT !.pc = "own",
                            !.hand = [pid |-> x, kind |-> "Owned", members |-> {}]]
  <2>1. /\ threads'[t] = j
        /\ j.pc = "own" /\ j.hand.pid = x /\ j.hand.kind = "Owned" /\ j.op = "start"
        /\ j.project = i.project /\ j.next = i.next /\ j.rec = i.rec /\ j.copy = i.copy
    BY <1>1, <1>2, <1>4 DEF Thread
  <2> HIDE DEF j
  <2>2. /\ procs'[x].st = "starting" /\ procs'[x].ws = w /\ procs'[x].child
        /\ procs'[x].consent = i.consent
        /\ procs[x].st = "free" /\ procs'[x] # NoProc
        /\ \A y \in Pids \ {x} : procs'[y] = procs[y]
    BY <1>1, <1>4 DEF NoProc
  <2>3. \A u \in Threads : u = t
    BY DEF OneCaller
  <2>4. \A y, v : ServesOnly(y, v) => ServesOnly(y, v)'
    BY <1>4, <2>2 DEF ServesOnly, Used, Alive
  <2>5. \A y \in Pids : procs'[y] = NoProc => procs[y] = NoProc
    BY <1>4
  <2>6. ~Names(snapshots, x)
    BY <1>4 DEF SInv, Residents, UnusedUnnamed
  <2>7. CallFits(threads[t])'
    <3>1. Control(threads[t])'
      BY <1>1, <1>2, <2>1 DEF Control, Path, Persisting, Killing, Unmanaged, Holding, W
    <3>2. ConsentKept(threads[t])'
      BY <2>1 DEF ConsentKept, Consenting, Persisting
    <3>3. Membership(threads[t])'
      BY <1>1, <1>2, <2>1, <2>6 DEF Membership, Leaving, Arriving, Killing, Names
    <3>4. Processes(threads[t])'
      BY <1>1, <2>1, <2>5 DEF CallFits, Processes
    <3>. QED BY <3>1, <3>2, <3>3, <3>4 DEF CallFits
  <2>8. Records'
    <3>1. FileFollows'
      BY <1>1, <2>1, <2>3 DEF SInv, Records, FileFollows
    <3>2. MembersFit'
      BY <1>1, <2>1, <2>3 DEF SInv, Records, MembersFit, Live, Arriving
    <3>3. UsersAreMembers'
      BY <1>1, <2>1, <2>3 DEF SInv, Records, UsersAreMembers, Live, Leaving
    <3>. QED BY <3>1, <3>2, <3>3 DEF Records
  <2>9. OneServing' /\ EndsFit'
    BY <2>2 DEF SInv, Residents, OneServing, EndsFit
  <2>10. ManagedServe'
    BY <1>1, <2>4 DEF SInv, Residents, ManagedServe
  <2>11. UnusedUnnamed'
    BY <1>1, <2>5 DEF SInv, Residents, UnusedUnnamed, Names
  <2>12. \A y \in Pids : Alive(y) /\ procs[y].child =>
             handles[procs[y].ws].kind = "Owned" /\ handles[procs[y].ws].pid = y
    BY <1>1, <2>3 DEF SInv, Residents, ChildrenHeld, Holds
  <2>13. ChildrenHeld'
    <3>1. Holds(threads[t], x)'
      BY <1>1, <2>1, <2>2 DEF Holds, W
    <3>2. \A y \in Pids \ {x} : Alive(y)' /\ procs'[y].child =>
             handles'[procs'[y].ws].kind = "Owned" /\ handles'[procs'[y].ws].pid = y
      BY <1>1, <2>2, <2>12 DEF Alive
    <3>. QED BY <3>1, <3>2 DEF ChildrenHeld
  <2>14. OneConsent'
    <3>1. CASE i.consent
      <4>1. \A v \in Workspaces : handles[v] = NoHandle
        BY <1>1, <1>2, <3>1 DEF CallFits, ConsentKept, Consenting
      <4>2. \A y \in Pids : ~(Alive(y) /\ procs[y].child)
        BY <1>1, <2>12, <4>1 DEF NoHandle, Proc
      <4>3. \A y \in Pids \ {x} : ~(Alive(y)' /\ procs'[y].child)
        BY <2>2, <4>2 DEF Alive
      <4>. QED BY <4>3 DEF OneConsent
    <3>2. CASE ~i.consent
      BY <2>2, <3>2 DEF SInv, Residents, OneConsent, Alive
    <3>. QED BY <3>1, <3>2
  <2>. QED BY <2>3, <2>7, <2>8, <2>9, <2>10, <2>11, <2>13, <2>14 DEF SInv, Residents
<1>. QED BY <1>3, <1>4 DEF Spawn

\* The spawned child goes from the hand into the map, its project's record
\* about to name it, and no other's.
LEMMA OwnKeeps ==
    ASSUME IInv, SInv, OneCaller, NEW t \in Threads, OwnSpawned(t)
    PROVE  SInv'
<1> DEFINE i == threads[t]
           w == Ws(t)
           x == i.hand.pid
           j == [i EXCEPT !.pc = "persist", !.rec = Record("Starting", x),
                          !.next = "idle", !.hand = NoHandle]
<1>1. /\ CallFits(i) /\ i.op \in OpNames /\ W(i) = w /\ i.project \in Projects /\ w \in Workspaces
      /\ i.pc = "own" /\ i \in Thread /\ threads \in [Threads -> Thread]
      /\ procs \in [Pids -> Proc] /\ handles \in [Workspaces -> Handle]
      /\ UNCHANGED <<snapshots, stateFile, procs>>
      /\ \A p \in Projects : WorkspaceOf[p] \in Workspaces
      /\ \A y \in Pids : procs[y].ws \in Workspaces
  BY CallFacts DEF OwnSpawned, At
<1>2. /\ i.op = "start" /\ handles[w] = NoHandle /\ ~Names(snapshots, x)
  BY <1>1 DEF CallFits, Control, Path, Persisting, OpNames, Unmanaged, Membership
<1>3. Unreaped(x) /\ x \in Pids
  <2>1. i.hand.kind = "Owned"
    BY <1>1 DEF IInv, KillsAreSafe, LocalsFitPc
  <2>. QED BY <2>1, HeldUnreaped DEF Held
<1>4. Used(x)
  BY <1>3 DEF Unreaped, Used, NoProc
<1>5. /\ threads'[t] = j
      /\ j.pc = "persist" /\ j.rec = Record("Starting", x) /\ j.next = "idle" /\ j.hand = NoHandle
      /\ j.op = "start" /\ j.project = i.project /\ j.copy = i.copy
  BY <1>1, <1>2 DEF OwnSpawned, Thread
<1> HIDE DEF j
<1>6. /\ handles'[w].pid = x /\ handles'[w].kind = "Owned" /\ handles'[w].members = {i.project}
      /\ \A v \in Workspaces \ {w} : handles'[v] = handles[v]
  BY <1>1 DEF OwnSpawned
<1>7. Wanes
  BY <1>1 DEF Wanes
<1>8. \A u \in Threads : u = t
  BY DEF OneCaller
<1>9. CallFits(threads[t])'
  <2>1. Control(threads[t])'
    BY <1>5 DEF Control, Path, Nexts, Persisting, Killing, Unmanaged, Holding
  <2>2. ConsentKept(threads[t])'
    BY <1>5 DEF ConsentKept, Consenting
  <2>3. Membership(threads[t])'
    BY <1>1, <1>5, <1>6 DEF Membership, Leaving, Arriving, Killing, W, Record, IsLive
  <2>4. Processes(threads[t])'
    BY <1>1, <1>4, <1>5 DEF CallFits, Processes, NoHandle, Record, Names, Used
  <2>. QED BY <2>1, <2>2, <2>3, <2>4 DEF CallFits
<1>10. MembersFit'
  <2>1. Arriving(threads[t])' /\ WorkspaceOf[i.project] = w
    BY <1>1, <1>5 DEF Arriving, Record, IsLive, W
  <2>2. ASSUME NEW v \in Workspaces, NEW p \in handles'[v].members
        PROVE  WorkspaceOf[p] = v /\ (p = i.project \/ Live(p)')
    BY <1>1, <1>6, <1>8, <2>1 DEF SInv, Records, MembersFit, Arriving, Live
  <2>. QED BY <1>5, <2>1, <2>2 DEF MembersFit
<1>11. UsersAreMembers'
  BY <1>1, <1>2, <1>6, <1>8 DEF SInv, Records, UsersAreMembers, Leaving, Live, Names
<1>12. ManagedServe'
  BY <1>6, <1>7, WaneKeeps DEF SInv, Residents, ManagedServe
<1>13. ChildrenHeld'
  <2>. SUFFICES ASSUME NEW y \in Pids, Alive(y)', procs'[y].child
                PROVE  handles'[procs'[y].ws].kind = "Owned" /\ handles'[procs'[y].ws].pid = y
    BY DEF ChildrenHeld
  <2>1. CASE handles[procs[y].ws].kind = "Owned" /\ handles[procs[y].ws].pid = y
    <3>1. procs[y].ws # w
      BY <1>2, <2>1 DEF NoHandle
    <3>. QED BY <1>1, <1>6, <2>1, <3>1
  <2>2. CASE Holds(i, y)
    BY <1>1, <1>6, <2>2 DEF Holds
  <2>. QED BY <1>1, <1>8, <2>1, <2>2 DEF SInv, Residents, ChildrenHeld, Alive
<1>. QED BY <1>1, <1>5, <1>7, <1>9, <1>10, <1>11, <1>12, <1>13, StepFrame

-----------------------------------------------------------------------------
(* try_adopt. *)

\* A pid on the port is that of the workspace's resident. Without one, the record
\* says that it runs, and names no pid.
LEMMA DiscoverKeeps ==
    ASSUME IInv, SInv, OneCaller, NEW t \in Threads, AdoptDiscover(t)
    PROVE  SInv'
<1> DEFINE i == threads[t]
           w == Ws(t)
<1>1. /\ CallFits(i) /\ i.op \in OpNames /\ W(i) = w /\ i.project \in Projects /\ w \in Workspaces
      /\ i.pc = "discover" /\ i \in Thread /\ threads \in [Threads -> Thread]
      /\ UNCHANGED <<handles, snapshots, stateFile, procs>>
  BY CallFacts DEF AdoptDiscover, At
<1>2. /\ i.op \in {"start", "stop", "status"} /\ handles[w] = NoHandle /\ i.hand = NoHandle
  BY <1>1 DEF CallFits, Control, Path, Persisting, OpNames, Unmanaged, Holding
<1>3. \A u \in Threads : u = t
  BY DEF OneCaller
<1>4. CASE Persist(t, Record("Running", NoPid), AfterAdopted(i.op))
  <2>1. /\ threads'[t].pc = "persist" /\ threads'[t].rec = Record("Running", NoPid)
        /\ threads'[t].next = AfterAdopted(i.op)
        /\ threads'[t].op = i.op /\ threads'[t].project = i.project
        /\ threads'[t].hand = i.hand /\ threads'[t].copy = i.copy
    BY <1>4, PersistMoves
  <2>2. AfterAdopted(i.op) \in Nexts(i.op) /\ AfterAdopted(i.op) # "contains"
    BY <1>2 DEF AfterAdopted, Nexts
  <2>3. Wanes
    BY <1>1 DEF Wanes
  <2>4. CallFits(threads[t])'
    <3>1. Control(threads[t])'
      BY <1>2, <2>1, <2>2 DEF Control, Persisting, Killing, Unmanaged
    <3>2. ConsentKept(threads[t])'
      BY <2>1, <2>2 DEF ConsentKept, Consenting
    <3>3. Membership(threads[t])'
      BY <1>2, <2>1 DEF Membership, Leaving, Arriving, Killing, Record, IsLive
    <3>4. Processes(threads[t])'
      BY <1>1, <1>2, <2>1, RuntimeManagerAssumption
         DEF CallFits, Processes, NoHandle, Record, Names
    <3>. QED BY <3>1, <3>2, <3>3, <3>4 DEF CallFits
  <2>5. MembersFit' /\ UsersAreMembers'
    BY <1>1, <1>3 DEF SInv, Records, MembersFit, UsersAreMembers, Arriving, Leaving, Live
  <2>6. ManagedServe' /\ ChildrenHeld'
    BY <1>1, <1>3, <2>3, WaneKeeps
       DEF SInv, Residents, ManagedServe, ChildrenHeld, Holds, Alive
  <2>. QED BY <1>1, <2>1, <2>3, <2>4, <2>5, <2>6, StepFrame
<1>5. ASSUME NEW x \in Listeners(w), x # NoPid, Discovered(t, x)
      PROVE  SInv'
  <2> DEFINE j == [i EXCEPT !.pc = "insert", !.found = x, !.members = AdoptMembers(t)]
  <2>1. /\ threads' = [threads EXCEPT ![t] = j]
        /\ j.pc = "insert" /\ j.found = x /\ j.members = LiveProjects(w) \cup {i.project}
        /\ j.op = i.op /\ j.project = i.project /\ j.hand = i.hand /\ j.consent = i.consent
        /\ j.rec = i.rec /\ j.next = i.next /\ j.copy = i.copy
    BY <1>1, <1>5 DEF Discovered, AdoptMembers, Thread
  <2> HIDE DEF j
  <2>2. ServesOnly(x, w)
    BY <1>5 DEF Listeners, Serving, ServesOnly, Used, NoProc
  <2>3. Control(j)
    BY <1>1, <1>2, <2>1 DEF Control, Path, Persisting, Killing, Unmanaged, W
  <2>4. ConsentKept(j)
    BY <1>1, <2>1 DEF CallFits, ConsentKept, Consenting, Persisting, W
  <2>5. Membership(j)
    BY <1>1, <1>2, <2>1 DEF Membership, Leaving, Arriving, Killing, W
  <2>6. Processes(j)
    BY <1>1, <2>1, <2>2 DEF CallFits, Processes, W
  <2>. QED BY <1>1, <2>1, <2>3, <2>4, <2>5, <2>6, WalkFrame DEF CallFits, Persisting
<1>. QED BY <1>4, <1>5 DEF AdoptDiscover

\* The adopted resident is inserted for the caller and the workspace's live projects.
LEMMA InsertKeeps ==
    ASSUME IInv, SInv, OneCaller, NEW t \in Threads, AdoptInsert(t)
    PROVE  SInv'
<1> DEFINE i == threads[t]
           w == Ws(t)
           j == [i EXCEPT !.pc = "persist", !.rec = Record("Running", i.found),
                          !.next = AfterAdopted(i.op), !.found = NoPid, !.members = {}]
<1>1. /\ CallFits(i) /\ i.op \in OpNames /\ W(i) = w /\ i.project \in Projects /\ w \in Workspaces
      /\ i.pc = "insert" /\ i \in Thread /\ threads \in [Threads -> Thread]
      /\ handles \in [Workspaces -> Handle]
      /\ UNCHANGED <<snapshots, stateFile, procs>>
      /\ \A p \in Projects : WorkspaceOf[p] \in Workspaces
      /\ \A y \in Pids : procs[y].ws \in Workspaces
  BY CallFacts DEF AdoptInsert, At
<1>2. /\ i.op \in {"start", "stop", "status"} /\ handles[w] = NoHandle /\ i.hand = NoHandle
      /\ i.members = LiveProjects(w) \cup {i.project} /\ ServesOnly(i.found, w)
  BY <1>1 DEF CallFits, Control, Path, Persisting, OpNames, Unmanaged, Holding, Membership,
              Processes
<1>3. InsertAdopted(t)
  BY <1>2 DEF AdoptInsert
<1>4. /\ threads'[t] = j
      /\ j.pc = "persist" /\ j.rec = Record("Running", i.found)
      /\ j.next = AfterAdopted(i.op) /\ j.hand = NoHandle
      /\ j.op = i.op /\ j.project = i.project /\ j.copy = i.copy
  BY <1>1, <1>2, <1>3 DEF InsertAdopted, Thread
<1> HIDE DEF j
<1>5. AfterAdopted(i.op) \in Nexts(i.op) /\ AfterAdopted(i.op) # "contains"
  BY <1>2 DEF AfterAdopted, Nexts
<1>6. /\ handles'[w].pid = i.found /\ handles'[w].kind = "Adopted"
      /\ handles'[w].members = LiveProjects(w) \cup {i.project}
      /\ \A v \in Workspaces \ {w} : handles'[v] = handles[v]
  BY <1>1, <1>2, <1>3 DEF InsertAdopted
<1>7. Wanes
  BY <1>1 DEF Wanes
<1>8. \A u \in Threads : u = t
  BY DEF OneCaller
<1>9. CallFits(threads[t])'
  <2>1. Control(threads[t])'
    BY <1>2, <1>4, <1>5 DEF Control, Persisting, Killing, Unmanaged
  <2>2. ConsentKept(threads[t])'
    BY <1>4, <1>5 DEF ConsentKept, Consenting
  <2>3. Membership(threads[t])'
    BY <1>1, <1>2, <1>4, <1>6 DEF Membership, Leaving, Arriving, Killing, W, Record, IsLive
  <2>4. Processes(threads[t])'
    BY <1>1, <1>2, <1>4 DEF CallFits, Processes, NoHandle, Record, Names, Used, ServesOnly
  <2>. QED BY <2>1, <2>2, <2>3, <2>4 DEF CallFits
<1>10. MembersFit'
  <2>1. Arriving(threads[t])' /\ WorkspaceOf[i.project] = w
    BY <1>1, <1>4 DEF Arriving, Record, IsLive, W
  <2>2. ASSUME NEW v \in Workspaces, NEW p \in handles'[v].members
        PROVE  WorkspaceOf[p] = v /\ (p = i.project \/ Live(p)')
    BY <1>1, <1>6, <1>8, <2>1 DEF SInv, Records, MembersFit, Arriving, Live, LiveProjects
  <2>. QED BY <1>4, <2>1, <2>2 DEF MembersFit
<1>11. UsersAreMembers'
  BY <1>1, <1>6, <1>8 DEF SInv, Records, UsersAreMembers, Leaving, Live, LiveProjects
<1>12. ManagedServe'
  BY <1>2, <1>6, <1>7, WaneKeeps DEF SInv, Residents, ManagedServe
<1>13. ChildrenHeld'
  <2>. SUFFICES ASSUME NEW y \in Pids, Alive(y)', procs'[y].child
                PROVE  handles'[procs'[y].ws].kind = "Owned" /\ handles'[procs'[y].ws].pid = y
    BY DEF ChildrenHeld
  <2>1. handles[procs[y].ws].kind = "Owned" /\ handles[procs[y].ws].pid = y
    BY <1>1, <1>8 DEF SInv, Residents, ChildrenHeld, Holds, Alive
  <2>2. procs[y].ws # w
    BY <1>2, <2>1 DEF NoHandle
  <2>. QED BY <1>1, <1>6, <2>1, <2>2
<1>. QED BY <1>1, <1>4, <1>7, <1>9, <1>10, <1>11, <1>12, <1>13, StepFrame

-----------------------------------------------------------------------------
(* stop_runtime, stop_workspace_runtime, remove_project_runtime. *)

\* The call that leaves goes on with no process to kill, when nothing says that
\* its project is still a member.
LEMMA NothingFits ==
    ASSUME IInv, SInv, NEW t \in Threads, NothingToKill(t),
           threads[t].pc \in {"take", "leave"}, threads[t].op \in {"stop", "remove"}
    PROVE  \E j : /\ threads' = [threads EXCEPT ![t] = j] /\ threads'[t] = j
                  /\ j.project = threads[t].project /\ j.hand = NoHandle
                  /\ j.pc \in {"persist", "forget"} /\ ~Arriving(j) /\ Leaving(j)
                  /\ (j.project \notin handles[W(j)].members => CallFits(j))
                  /\ (j.project \notin handles'[W(j)].members /\ UNCHANGED <<snapshots, procs>> =>
                         CallFits(j)')
<1> DEFINE i == threads[t]
           k == [i EXCEPT !.pc = AfterKill(i.op), !.rec = NoSnapshot, !.next = "idle"]
<1>1. CallFits(i) /\ i \in Thread /\ threads \in [Threads -> Thread] /\ i.hand = NoHandle
  BY CallFacts DEF CallFits, Control, Holding
<1>2. PICK j : j = k
  OBVIOUS
<1>3. /\ j.pc = AfterKill(i.op) /\ j.rec = NoSnapshot /\ j.next = "idle" /\ j.op = i.op
      /\ j.project = i.project /\ j.hand = NoHandle /\ j.copy = i.copy
      /\ threads' = [threads EXCEPT ![t] = j] /\ threads'[t] = j
  BY <1>1, <1>2 DEF NothingToKill, Thread
<1>4. \/ j.op = "stop" /\ j.pc = "persist"
      \/ j.op = "remove" /\ j.pc = "forget"
  BY <1>3 DEF AfterKill
<1>5. ~Arriving(j) /\ Leaving(j)
  BY <1>3, <1>4 DEF Arriving, Leaving, NoSnapshot, IsLive
<1>6. Control(j) /\ ConsentKept(j)
  BY <1>3, <1>4
     DEF Control, ConsentKept, Consenting, Path, Nexts, Persisting, Killing, Unmanaged, Holding
<1>7. Processes(j)
  BY <1>1, <1>3, <1>4, RuntimeManagerAssumption
     DEF CallFits, Processes, NoHandle, NoSnapshot
<1>8. ASSUME j.project \notin handles[W(j)].members PROVE CallFits(j)
  <2>1. Membership(j)
    BY <1>4, <1>5, <1>8 DEF Membership, Killing
  <2>. QED BY <1>6, <1>7, <2>1 DEF CallFits
<1>9. ASSUME j.project \notin handles'[W(j)].members, UNCHANGED <<snapshots, procs>>
      PROVE  CallFits(j)'
  <2>1. Control(j)' /\ ConsentKept(j)'
    BY <1>3, <1>4
       DEF Control, ConsentKept, Consenting, Path, Nexts, Persisting, Killing, Unmanaged, Holding
  <2>2. Membership(j)'
    BY <1>4, <1>5, <1>9 DEF Membership, Killing, W, Arriving, Leaving
  <2>3. Processes(j)'
    BY <1>3, <1>4, <1>7, <1>9 DEF Processes, NoHandle
  <2>. QED BY <2>1, <2>2, <2>3 DEF CallFits
<1>. QED BY <1>3, <1>4, <1>5, <1>8, <1>9

\* The call takes the handle out of the map: no other project of the workspace
\* has a record that says that it runs on it, and a child is in its hand.
LEMMA TakeOutKeeps ==
    ASSUME IInv, SInv, OneCaller, NEW t \in Threads, UNCHANGED <<snapshots, stateFile, procs>>,
           \/ threads[t].pc = "take" /\ threads[t].op \in {"stop", "stopWs"}
           \/ threads[t].pc = "leave" /\ threads[t].op = "remove",
           handles[Ws(t)] # NoHandle,
           threads[t].op # "stopWs" => handles[Ws(t)].members \subseteq {threads[t].project},
           TakeOut(t, Ws(t), handles[Ws(t)])
    PROVE  SInv'
<1> DEFINE i == threads[t]
           w == Ws(t)
           h == handles[w]
           j == [i EXCEPT !.pc = IF h.kind = "Owned" THEN "kill" ELSE "verify",
                          !.hand = [h EXCEPT !.members = {}],
                          !.members = IF i.op = "stopWs" THEN h.members ELSE {},
                          !.rec = NoSnapshot, !.next = "idle"]
<1>1. /\ CallFits(i) /\ W(i) = w /\ i.project \in Projects /\ w \in Workspaces
      /\ i \in Thread /\ threads \in [Threads -> Thread] /\ h \in Handle
      /\ handles \in [Workspaces -> Handle]
      /\ \A p \in Projects : WorkspaceOf[p] \in Workspaces
      /\ \A y \in Pids : procs[y].ws \in Workspaces
  BY CallFacts
<1>2. /\ threads'[t] = j
      /\ j.pc = IF h.kind = "Owned" THEN "kill" ELSE "verify"
      /\ j.members = IF i.op = "stopWs" THEN h.members ELSE {}
      /\ j.hand = [h EXCEPT !.members = {}] /\ j.rec = NoSnapshot /\ j.next = "idle"
      /\ j.op = i.op /\ j.project = i.project /\ j.copy = i.copy
  BY <1>1 DEF TakeOut, Thread
<1> HIDE DEF j
<1>3. handles'[w] = NoHandle /\ \A v \in Workspaces \ {w} : handles'[v] = handles[v]
  BY <1>1 DEF TakeOut
<1>4. j.hand.pid = h.pid /\ j.hand.kind = h.kind
  <2>1. h \in [pid : Pids, kind : {"Owned", "Adopted"}, members : SUBSET Projects]
    BY <1>1 DEF Handle
  <2> HIDE DEF h
  <2>. QED BY <1>2, <2>1
<1>5. Wanes
  BY DEF Wanes
<1>6. \A u \in Threads : u = t
  BY DEF OneCaller
<1>7. CallFits(threads[t])'
  <2>1. Control(threads[t])'
    BY <1>1, <1>2, <1>3 DEF Control, Path, Persisting, Killing, Unmanaged, Holding, W
  <2>2. ConsentKept(threads[t])'
    BY <1>2 DEF ConsentKept, Consenting
  <2>3. Membership(threads[t])'
    <3>1. \A q \in Projects \ {i.project} :
            i.op # "stopWs" /\ WorkspaceOf[q] = w => ~(Live(q) /\ snapshots[q].pid = h.pid)
      <4>1. h.pid # NoPid
        BY <1>1, HandlesUsed, RuntimeManagerAssumption
      <4>. QED BY <1>6, <4>1 DEF SInv, Records, UsersAreMembers, Leaving
    <3>2. \A p \in h.members : WorkspaceOf[p] = w
      BY <1>1 DEF SInv, Records, MembersFit
    <3>. QED BY <1>1, <1>2, <1>3, <1>4, <3>1, <3>2
             DEF Membership, Leaving, Arriving, Killing, W, Live, NoHandle
  <2>4. Processes(threads[t])'
    <3>1. PICK x, v : x = h.pid /\ v = w
      OBVIOUS
    <3>2. h.kind = "Adopted" => ServesOnly(x, v)
      BY <1>1, <3>1 DEF SInv, Residents, ManagedServe
    <3>3. h.kind = "Adopted" => ServesOnly(x, v)'
      BY <1>5, <3>2, WaneKeeps
    <3>4. threads'[t].hand.kind = "Adopted" =>
              h.kind = "Adopted" /\ threads'[t].hand.pid = x /\ W(threads[t])' = v
      BY <1>1, <1>2, <1>4, <3>1 DEF W
    <3>5. threads'[t].hand.kind = "Adopted" => ServesOnly(threads[t].hand.pid, W(threads[t]))'
      BY <3>3, <3>4
    <3>6. threads'[t].pc # "insert" /\ threads'[t].rec = NoSnapshot /\ threads'[t].copy = i.copy
      BY <1>2
    <3>7. \A y \in Pids : procs'[y] = NoProc => NoSnapshot.pid # y /\ ~Names(i.copy, y)
      BY <1>1, RuntimeManagerAssumption DEF CallFits, Processes, NoSnapshot
    <3>. QED BY <3>5, <3>6, <3>7 DEF Processes
  <2>. QED BY <2>1, <2>2, <2>3, <2>4 DEF CallFits
<1>8. MembersFit' /\ UsersAreMembers'
  BY <1>1, <1>3, <1>6
     DEF SInv, Records, MembersFit, UsersAreMembers, Arriving, Leaving, Live, NoHandle
<1>9. ManagedServe'
  BY <1>3, <1>5, WaneKeeps DEF SInv, Residents, ManagedServe, NoHandle
<1>10. ChildrenHeld'
  <2>. SUFFICES ASSUME NEW x \in Pids, Alive(x)', procs'[x].child
                PROVE  \/ /\ handles'[procs'[x].ws].kind = "Owned"
                          /\ handles'[procs'[x].ws].pid = x
                       \/ Holds(threads[t], x)'
    BY DEF ChildrenHeld
  <2>1. handles[procs[x].ws].kind = "Owned" /\ handles[procs[x].ws].pid = x
    BY <1>1, <1>6 DEF SInv, Residents, ChildrenHeld, Holds, Alive
  <2>2. CASE procs[x].ws = w
    BY <1>2, <1>4, <2>1, <2>2 DEF Holds
  <2>3. CASE procs[x].ws # w
    BY <1>1, <1>3, <2>1, <2>3
  <2>. QED BY <2>2, <2>3
<1>. QED BY <1>1, <1>2, <1>5, <1>7, <1>8, <1>9, <1>10, StepFrame

\* The project leaves its workspace.
LEMMA LeaveKeeps ==
    ASSUME IInv, SInv, OneCaller, NEW t \in Threads, Leave(t, Ws(t)),
           UNCHANGED <<snapshots, stateFile, procs>>,
           \/ threads[t].pc = "take" /\ threads[t].op = "stop"
           \/ threads[t].pc = "leave" /\ threads[t].op = "remove"
    PROVE  SInv'
<1> DEFINE i == threads[t]
           w == Ws(t)
           h == handles[w]
           rest == h.members \ {i.project}
<1>1. /\ CallFits(i) /\ W(i) = w /\ w \in Workspaces /\ h \in Handle
      /\ handles \in [Workspaces -> Handle]
      /\ \A p \in Projects : WorkspaceOf[p] \in Workspaces
      /\ \A y \in Pids : procs[y].ws \in Workspaces
  BY CallFacts
<1>2. \A u \in Threads : u = t
  BY DEF OneCaller
<1>3. CASE h = NoHandle /\ NothingToKill(t) /\ UNCHANGED handles
  <2>1. PICK j : /\ threads' = [threads EXCEPT ![t] = j]
                 /\ j.project = i.project /\ j.pc \in {"persist", "forget"}
                 /\ (j.project \notin handles[W(j)].members => CallFits(j))
    BY <1>3, NothingFits
  <2>2. CallFits(j)
    BY <1>1, <1>3, <2>1 DEF W, NoHandle
  <2>. QED BY <1>3, <2>1, <2>2, WalkFrame DEF Persisting
<1>4. CASE /\ h # NoHandle /\ rest # {} /\ NothingToKill(t)
           /\ handles' = [handles EXCEPT ![w].members = rest]
  <2>1. PICK j : /\ threads'[t] = j
                 /\ j.project = i.project /\ j.pc \in {"persist", "forget"} /\ Leaving(j)
                 /\ (j.project \notin handles'[W(j)].members /\ UNCHANGED <<snapshots, procs>> =>
                        CallFits(j)')
    BY <1>4, NothingFits
  <2>2. /\ handles'[w].members = rest /\ handles'[w].pid = h.pid /\ handles'[w].kind = h.kind
        /\ \A v \in Workspaces \ {w} : handles'[v] = handles[v]
    <3>1. handles' = [handles EXCEPT ![w] = [h EXCEPT !.members = rest]]
      BY <1>4
    <3>2. h \in [pid : Pids, kind : {"Owned", "Adopted"}, members : SUBSET Projects]
      BY <1>1, <1>4 DEF Handle
    <3> HIDE DEF h, i, rest
    <3>. QED BY <1>1, <3>1, <3>2
  <2>3. CallFits(threads[t])'
    BY <1>1, <2>1, <2>2 DEF W
  <2>4. Wanes
    BY DEF Wanes
  <2>5. MembersFit'
    BY <1>2, <2>2 DEF SInv, Records, MembersFit, Arriving, Live
  <2>6. UsersAreMembers'
    <3>1. Leaving(threads[t])' /\ threads'[t].project = i.project
      BY <2>1 DEF Leaving
    <3>2. \A p \in Projects \ {i.project} :
             LET g == handles'[WorkspaceOf[p]]
             IN  Live(p)' /\ g.pid # NoPid /\ snapshots'[p].pid = g.pid => p \in g.members
      BY <1>1, <1>2, <2>2 DEF SInv, Records, UsersAreMembers, Leaving, Live
    <3>. QED BY <3>1, <3>2 DEF UsersAreMembers
  <2>7. ManagedServe'
    BY <2>2, <2>4, WaneKeeps DEF SInv, Residents, ManagedServe
  <2>8. ChildrenHeld'
    BY <1>1, <1>2, <2>2 DEF SInv, Residents, ChildrenHeld, Holds, Alive
  <2>. QED BY <2>1, <2>3, <2>4, <2>5, <2>6, <2>7, <2>8, StepFrame
<1>5. CASE h # NoHandle /\ rest = {} /\ TakeOut(t, w, h)
  BY <1>5, TakeOutKeeps
<1>. QED BY <1>3, <1>4, <1>5 DEF Leave

\* The whole workspace is stopped: the members it takes out are its projects.
LEMMA StopWorkspaceKeeps ==
    ASSUME IInv, SInv, OneCaller, NEW t \in Threads, StopWorkspaceTake(t)
    PROVE  SInv'
<1>1. /\ threads[t].pc = "take" /\ threads[t].op = "stopWs"
      /\ UNCHANGED <<snapshots, stateFile, procs>>
  BY DEF StopWorkspaceTake, At
<1>2. CASE Goto(t, "idle") /\ UNCHANGED handles
  BY <1>1, <1>2, GotoWalks DEF Persisting
<1>3. CASE handles[Ws(t)] # NoHandle /\ TakeOut(t, Ws(t), handles[Ws(t)])
  BY <1>1, <1>3, TakeOutKeeps
<1>. QED BY <1>2, <1>3 DEF StopWorkspaceTake

\* The members are marked one by one: nothing of the workspace is managed.
LEMMA MarkKeeps ==
    ASSUME IInv, SInv, OneCaller, NEW t \in Threads, MarkStopped(t)
    PROVE  SInv'
<1> DEFINE i == threads[t]
<1>1. /\ CallFits(i) /\ i.op \in OpNames /\ i.pc = "mark" /\ i \in Thread /\ W(i) = Ws(t)
      /\ UNCHANGED <<handles, snapshots, stateFile, procs>>
  BY CallFacts DEF MarkStopped, At
<1>2. /\ i.op = "stopWs" /\ i.hand = NoHandle /\ handles[W(i)] = NoHandle
      /\ \A p \in i.members : WorkspaceOf[p] = W(i)
  BY <1>1 DEF CallFits, Control, Path, Persisting, OpNames, Holding, Membership
<1>3. CASE Goto(t, "idle")
  BY <1>1, <1>3, GotoWalks DEF Persisting
<1>4. ASSUME NEW p \in i.members,
             threads' = [threads EXCEPT ![t] =
                           [i EXCEPT !.members = i.members \ {p}, !.project = p, !.pc = "persist",
                                     !.rec = NoSnapshot, !.next = "mark"]]
      PROVE  SInv'
  <2> DEFINE j == [i EXCEPT !.members = i.members \ {p}, !.project = p, !.pc = "persist",
                            !.rec = NoSnapshot, !.next = "mark"]
  <2>1. /\ j.pc = "persist" /\ j.rec = NoSnapshot /\ j.next = "mark" /\ j.op = "stopWs"
        /\ j.project = p /\ j.members = i.members \ {p} /\ j.hand = NoHandle /\ j.copy = i.copy
        /\ threads' = [threads EXCEPT ![t] = j]
    BY <1>1, <1>2, <1>4 DEF Thread
  <2> HIDE DEF j
  <2>2. W(j) = W(i)
    BY <1>2, <2>1 DEF W
  <2>3. Control(j) /\ ConsentKept(j)
    BY <2>1 DEF Control, ConsentKept, Consenting, Nexts, Persisting, Killing, Unmanaged, Holding
  <2>4. Membership(j)
    BY <1>2, <2>1, <2>2 DEF Membership, Leaving, Arriving, Killing, NoSnapshot, IsLive, NoHandle
  <2>5. Processes(j)
    BY <1>1, <2>1, RuntimeManagerAssumption DEF CallFits, Processes, NoHandle, NoSnapshot
  <2>. QED BY <1>1, <2>1, <2>3, <2>4, <2>5, WalkFrame DEF CallFits, Persisting
<1>5. ASSUME NEW p \in i.members,
             threads' = [threads EXCEPT ![t] = [i EXCEPT !.members = i.members \ {p}]]
      PROVE  SInv'
  <2> DEFINE j == [i EXCEPT !.members = i.members \ {p}]
  <2>1. /\ j.pc = "mark" /\ j.rec = i.rec /\ j.next = i.next /\ j.op = "stopWs"
        /\ j.project = i.project /\ j.members = i.members \ {p} /\ j.hand = NoHandle
        /\ j.copy = i.copy /\ threads' = [threads EXCEPT ![t] = j]
    BY <1>1, <1>2, <1>5 DEF Thread
  <2> HIDE DEF j
  <2>2. Control(j) /\ ConsentKept(j)
    BY <2>1 DEF Control, ConsentKept, Consenting, Path, Persisting, Killing, Unmanaged, Holding
  <2>3. Membership(j)
    BY <1>2, <2>1 DEF Membership, Leaving, Arriving, Killing, W
  <2>4. Processes(j)
    BY <1>1, <2>1 DEF CallFits, Processes, NoHandle
  <2>. QED BY <1>1, <2>1, <2>2, <2>3, <2>4, WalkFrame DEF CallFits, Persisting
<1>. QED BY <1>3, <1>4, <1>5 DEF MarkStopped

\* kill and wait, or kill -9: the hand's process ends, and the call lets it go.
LEMMA EndKeeps ==
    ASSUME IInv, SInv, OneCaller, Wanes, NEW t \in Threads, Released(t),
           threads[t].pc \in {"kill", "signal"}, threads[t].hand.pid \in Pids,
           threads[t].pc = "kill" => procs'[threads[t].hand.pid].st = "free",
           UNCHANGED <<handles, snapshots, stateFile>>
    PROVE  SInv'
<1> DEFINE i == threads[t]
<1>1. /\ CallFits(i) /\ i.op \in OpNames /\ threads \in [Threads -> Thread]
  BY CallFacts
<1>2. PICK j : /\ threads' = [threads EXCEPT ![t] = j]
               /\ j.pc = AfterKill(i.op) /\ j.hand = NoHandle
               /\ j.op = i.op /\ j.project = i.project
               /\ j.found = i.found /\ j.members = i.members
               /\ j.consent = i.consent /\ j.rec = i.rec
               /\ j.next = i.next /\ j.copy = i.copy
  BY ReleasedMoves
<1>3. CallFits(j) /\ threads'[t] = j /\ j.pc \in {"persist", "mark", "forget"}
  BY <1>1, <1>2, ReleasedFits DEF Killing, AfterKill
<1>4. CallFits(threads[t])'
  <2>1. Control(j)' /\ ConsentKept(j)'
    BY <1>3 DEF CallFits, Control, ConsentKept
  <2>2. Membership(j)'
    BY <1>3 DEF CallFits, Membership, Live, LiveProjects
  <2>3. Processes(j)'
    BY <1>2, <1>3, WaneKeeps DEF CallFits, Processes, NoHandle
  <2>4. CallFits(j)'
    BY <2>1, <2>2, <2>3 DEF CallFits
  <2>. QED BY <1>3, <2>4
<1>5. \A u \in Threads : u = t
  BY DEF OneCaller
<1>6. MembersFit' /\ UsersAreMembers'
  BY <1>5 DEF SInv, Records, MembersFit, UsersAreMembers, Arriving, Leaving, Live
<1>7. ManagedServe'
  BY WaneKeeps DEF SInv, Residents, ManagedServe
<1>8. ChildrenHeld'
  <2>. SUFFICES ASSUME NEW x \in Pids, Alive(x)', procs'[x].child
                PROVE  handles'[procs'[x].ws].kind = "Owned" /\ handles'[procs'[x].ws].pid = x
    BY DEF ChildrenHeld
  <2>1. procs'[x] = procs[x] /\ Alive(x)
    BY DEF Wanes, Alive
  <2>2. ~Holds(i, x)
    BY <2>1 DEF Holds, Alive
  <2>. QED BY <1>5, <2>1, <2>2 DEF SInv, Residents, ChildrenHeld
<1>. QED BY <1>3, <1>4, <1>6, <1>7, <1>8, StepFrame

\* A killed child is free, having ended.
LEMMA KillWanes ==
    ASSUME IInv, SInv, NEW t \in Threads, KillOwned(t)
    PROVE  /\ Wanes /\ Released(t)
           /\ threads[t].hand.pid \in Pids /\ procs'[threads[t].hand.pid].st = "free"
<1> DEFINE i == threads[t]
           x == i.hand.pid
<1>1. i.pc = "kill" /\ UNCHANGED <<handles, snapshots, stateFile>> /\ Released(t)
  BY DEF KillOwned, At, Released
<1>2. x \in Pids /\ Unreaped(x) /\ procs \in [Pids -> Proc]
  <2>1. i.hand.kind = "Owned"
    BY <1>1 DEF IInv, KillsAreSafe, LocalsFitPc
  <2>. QED BY <2>1, HeldUnreaped, CallFacts DEF Held
<1>3. procs'[x] = IF Alive(x) THEN [NoProc EXCEPT !.ended = "stopped"] ELSE Freed(x)
  BY <1>2 DEF KillOwned
<1>4. \A y \in Pids \ {x} : procs'[y] = procs[y]
  BY <1>2 DEF KillOwned
<1>5. procs'[x].st = "free" /\ procs'[x].child = FALSE /\ procs'[x].ended # "none"
  <2>1. CASE Alive(x)
    BY <1>3, <2>1 DEF NoProc
  <2>2. CASE ~Alive(x)
    <3>1. procs[x].st = "zombie"
      BY <1>2, <2>2 DEF Unreaped, Alive
    <3>2. procs'[x] = Freed(x) /\ procs[x].ended # "none"
      BY <1>2, <1>3, <2>2, <3>1 DEF SInv, Residents, EndsFit
    <3>. QED BY <3>2, EndFields
  <2>. QED BY <2>1, <2>2
<1>6. procs[x] # NoProc /\ procs'[x] # NoProc
  BY <1>2, <1>5, EndFields DEF Unreaped
<1>7. Wanes
  BY <1>4, <1>5, <1>6 DEF Wanes, Alive
<1>. QED BY <1>1, <1>2, <1>5, <1>7

\* The kill of an owned child.
LEMMA KillKeeps ==
    ASSUME IInv, SInv, OneCaller, NEW t \in Threads, KillOwned(t)
    PROVE  SInv'
<1>1. threads[t].pc = "kill" /\ UNCHANGED <<handles, snapshots, stateFile>>
  BY DEF KillOwned, At
<1>. QED BY <1>1, KillWanes, EndKeeps

\* A signalled process ends; a pid that is gone stays as it is.
LEMMA SignalWanes ==
    ASSUME IInv, SInv, NEW t \in Threads, SignalPid(t)
    PROVE  /\ Wanes /\ threads[t].hand.pid \in Pids
           /\ procs'[threads[t].hand.pid].st \notin {"starting", "serving"}
           /\ Released(t) \/ (Goto(t, "idle") /\ UNCHANGED procs)
<1> DEFINE i == threads[t]
           x == i.hand.pid
<1>1. /\ i.pc = "signal" /\ UNCHANGED <<handles, snapshots, stateFile>> /\ CallFits(i)
      /\ i.op \in OpNames
  BY CallFacts DEF SignalPid, At
<1>2. x \in Pids /\ procs \in [Pids -> Proc]
  <2>1. i.hand.kind = "Adopted" /\ i.hand \in Handle
    BY <1>1, ThreadFields DEF IInv, KillsAreSafe, LocalsFitPc
  <2>. QED BY <2>1, CallFacts DEF Handle, NoHandle
<1>3. CASE /\ procs[x].st # "free" /\ Released(t)
           /\ procs' = [procs EXCEPT ![x] = IF procs[x].st = "zombie" THEN @
                                            ELSE Ended(x, "stopped")]
  <2>1. /\ procs'[x] = IF procs[x].st = "zombie" THEN procs[x] ELSE Ended(x, "stopped")
        /\ \A y \in Pids \ {x} : procs'[y] = procs[y]
    BY <1>2, <1>3
  <2>2. procs'[x].st \notin {"starting", "serving"}
    BY <2>1, SMTT(40) DEF Ended, NoProc
  <2>3. Wanes
    BY <1>2, <1>3, <2>1, EndWanes
  <2>. QED BY <1>2, <1>3, <2>2, <2>3
<1>4. CASE procs[x].st = "free" /\ (Released(t) \/ Goto(t, "idle")) /\ UNCHANGED procs
  BY <1>2, <1>4 DEF Wanes
<1>. QED BY <1>3, <1>4 DEF SignalPid

\* The kill of an adopted resident.
LEMMA SignalKeeps ==
    ASSUME IInv, SInv, OneCaller, NEW t \in Threads, SignalPid(t)
    PROVE  SInv'
<1>1. threads[t].pc = "signal" /\ UNCHANGED <<handles, snapshots, stateFile>>
  BY DEF SignalPid, At
<1>2. CASE Released(t)
  BY <1>1, <1>2, SignalWanes, EndKeeps
<1>3. CASE Goto(t, "idle") /\ UNCHANGED procs
  BY <1>1, <1>3, GotoWalks DEF Persisting
<1>. QED BY <1>2, <1>3, SignalWanes

-----------------------------------------------------------------------------
(* persist_snapshot. *)

\* A record is kept, or forgotten: the map of snapshots is cloned as it is then.
LEMMA RecordKeeps ==
    ASSUME IInv, SInv, OneCaller, NEW t \in Threads, NEW r \in Snapshot,
           \/ threads[t].pc = "persist" /\ r = threads[t].rec
           \/ threads[t].pc = "forget" /\ r = NoSnapshot,
           snapshots' = [snapshots EXCEPT ![threads[t].project] = r],
           threads' = [threads EXCEPT ![t] = [@ EXCEPT !.pc = "open", !.copy = snapshots']],
           UNCHANGED <<handles, stateFile, procs>>
    PROVE  SInv'
<1> DEFINE i == threads[t]
           p == i.project
<1>1. /\ CallFits(i) /\ i.op \in OpNames /\ W(i) = Ws(t) /\ p \in Projects /\ i \in Thread
      /\ Ws(t) \in Workspaces /\ threads \in [Threads -> Thread]
      /\ snapshots \in [Projects -> Snapshot]
      /\ \A q \in Projects : WorkspaceOf[q] \in Workspaces
  BY CallFacts
<1>2. \A u \in Threads : u = t
  BY DEF OneCaller
<1>3. /\ threads'[t].pc = "open" /\ threads'[t].copy = snapshots'
      /\ threads'[t].op = i.op /\ threads'[t].project = p /\ threads'[t].hand = i.hand
      /\ threads'[t].members = i.members /\ threads'[t].consent = i.consent
      /\ threads'[t].rec = i.rec /\ threads'[t].next = i.next
  <2> DEFINE j == [i EXCEPT !.pc = "open", !.copy = snapshots']
  <2>1. threads'[t] = j
    BY <1>1
  <2>2. /\ j.pc = "open" /\ j.copy = snapshots'
        /\ j.op = i.op /\ j.project = p /\ j.hand = i.hand
        /\ j.members = i.members /\ j.consent = i.consent
        /\ j.rec = i.rec /\ j.next = i.next
    BY <1>1 DEF Thread
  <2> HIDE DEF j
  <2>. QED BY <2>1, <2>2
<1>4. snapshots'[p] = r /\ \A q \in Projects \ {p} : snapshots'[q] = snapshots[q]
  BY <1>1
<1>5. i.hand = NoHandle /\ i.next \in Nexts(i.op) /\ (i.pc = "forget" => i.op = "remove")
  BY <1>1 DEF CallFits, Control, Holding, Persisting, Path, Nexts, OpNames
<1>6. \A x \in Pids : procs'[x] = NoProc => r.pid # x /\ ~Names(snapshots', x)
  BY <1>1, <1>4, RuntimeManagerAssumption
     DEF CallFits, Processes, NoSnapshot, SInv, Residents, UnusedUnnamed, Names
<1>7. CallFits(threads[t])'
  <2>1. Control(threads[t])'
    BY <1>1, <1>3, <1>5 DEF CallFits, Control, Persisting, Killing, Unmanaged, W
  <2>2. ConsentKept(threads[t])'
    BY <1>1, <1>3, <1>5 DEF CallFits, ConsentKept, Consenting, Persisting, W
  <2>3. Membership(threads[t])'
    BY <1>1, <1>3, <1>5 DEF CallFits, Membership, Leaving, Arriving, Killing, W
  <2>4. Processes(threads[t])'
    BY <1>1, <1>3, <1>5, <1>6 DEF CallFits, Processes, NoHandle, Names
  <2>. QED BY <2>1, <2>2, <2>3, <2>4 DEF CallFits
<1>8. FileFollows'
  BY <1>2, <1>3 DEF FileFollows
<1>9. Leaving(i) => p \notin handles[Ws(t)].members
  BY <1>1 DEF CallFits, Membership
<1>10. i.pc = "persist" /\ IsLive(r.phase) =>
          r.pid = NoPid \/ (handles[Ws(t)].pid = r.pid /\ p \in handles[Ws(t)].members)
  BY <1>1 DEF CallFits, Membership, Arriving
<1>11. IsLive(r.phase) \/ Leaving(i)
  BY DEF Leaving
<1>12. IsLive(r.phase) => i.pc = "persist"
  BY DEF NoSnapshot, IsLive
<1>13. MembersFit'
  <2>. SUFFICES ASSUME NEW w \in Workspaces, NEW q \in handles[w].members
                PROVE  WorkspaceOf[q] = w /\ Live(q)'
    BY DEF MembersFit
  <2>1. WorkspaceOf[q] = w /\ (Live(q) \/ i.project = q)
    BY <1>2 DEF SInv, Records, MembersFit
  <2>2. CASE q = p
    BY <1>1, <1>4, <1>9, <1>11, <2>1, <2>2 DEF Live, W
  <2>3. CASE q # p
    <3>1. q \in Projects
      BY DEF IInv, TypeOK, Handle, NoHandle
    <3>. QED BY <1>4, <2>1, <2>3, <3>1 DEF Live
  <2>. QED BY <2>2, <2>3
<1>14. UsersAreMembers'
  <2>. SUFFICES ASSUME NEW q \in Projects, Live(q)', handles[WorkspaceOf[q]].pid # NoPid,
                       snapshots'[q].pid = handles[WorkspaceOf[q]].pid
                PROVE  q \in handles[WorkspaceOf[q]].members
    BY DEF UsersAreMembers
  <2>1. CASE q = p
    BY <1>1, <1>4, <1>10, <1>12, <2>1 DEF Live, W
  <2>2. CASE q # p
    BY <1>2, <1>4, <2>2 DEF Live, SInv, Records, UsersAreMembers
  <2>. QED BY <2>1, <2>2
<1>15. Wanes
  BY DEF Wanes
<1>16. UnusedUnnamed'
  BY <1>6 DEF SInv, Residents, UnusedUnnamed, Names
<1>17. ManagedServe' /\ ChildrenHeld'
  <2>1. i.pc \notin {"own", "kill"}
    OBVIOUS
  <2>. QED BY <1>2, <1>15, <2>1, WaneKeeps
           DEF SInv, Residents, ManagedServe, ChildrenHeld, Holds, Alive
<1>. QED BY <1>2, <1>7, <1>8, <1>13, <1>14, <1>15, <1>16, <1>17, WaneKeeps
         DEF SInv, Records, Residents

\* The steps that keep or forget a record.
LEMMA KeepKeeps ==
    ASSUME IInv, SInv, OneCaller, NEW t \in Threads, PersistMemory(t) \/ RemoveForget(t)
    PROVE  SInv'
<1>1. threads[t].rec \in Snapshot /\ NoSnapshot \in Snapshot
  BY ThreadFields, Defaults DEF IInv
<1>2. CASE PersistMemory(t)
  BY <1>1, <1>2, RecordKeeps DEF PersistMemory, At
<1>3. CASE RemoveForget(t)
  BY <1>1, <1>3, RecordKeeps DEF RemoveForget, At
<1>. QED BY <1>2, <1>3

\* The file is opened, and reads as no records at all until it is written.
LEMMA OpenKeeps ==
    ASSUME IInv, SInv, OneCaller, NEW t \in Threads, OpenStateFile(t)
    PROVE  SInv'
<1> DEFINE i == threads[t]
<1>1. /\ CallFits(i) /\ i.pc = "open" /\ UNCHANGED <<handles, snapshots, procs>>
      /\ stateFile' = NoSnapshots /\ threads \in [Threads -> Thread]
  BY CallFacts DEF OpenStateFile, At
<1>2. PICK j : threads' = [threads EXCEPT ![t] = j] /\ MovedTo(i, j, "write")
  BY GotoMoves DEF OpenStateFile
<1>3. threads'[t] = j
  BY <1>1, <1>2
<1>4. \A u \in Threads : u = t
  BY DEF OneCaller
<1>5. CallFits(threads[t])'
  <2>1. Control(threads[t])'
    BY <1>1, <1>2, <1>3 DEF CallFits, Control, MovedTo, Persisting, Killing, Unmanaged, Holding, W
  <2>2. ConsentKept(threads[t])'
    BY <1>1, <1>2, <1>3 DEF CallFits, ConsentKept, Consenting, MovedTo, Persisting, W
  <2>3. Membership(threads[t])'
    BY <1>1, <1>2, <1>3 DEF CallFits, Membership, MovedTo, Leaving, Arriving, Killing, W
  <2>4. i.hand = NoHandle
    BY <1>1 DEF CallFits, Control, Holding
  <2>5. Processes(threads[t])'
    BY <1>1, <1>2, <1>3, <2>4 DEF CallFits, Processes, MovedTo, NoHandle, Names
  <2>. QED BY <2>1, <2>2, <2>3, <2>5 DEF CallFits
<1>6. FileFollows'
  BY <1>1, <1>2, <1>3, <1>4 DEF SInv, Records, FileFollows, MovedTo
<1>7. MembersFit' /\ UsersAreMembers'
  BY <1>1, <1>4 DEF SInv, Records, MembersFit, UsersAreMembers, Arriving, Leaving, Live
<1>8. Wanes
  BY <1>1 DEF Wanes
<1>9. UnusedUnnamed'
  BY <1>1, RuntimeManagerAssumption
     DEF SInv, Residents, UnusedUnnamed, Names, NoSnapshots, NoSnapshot
<1>10. ManagedServe' /\ ChildrenHeld'
  BY <1>1, <1>4, <1>8, WaneKeeps DEF SInv, Residents, ManagedServe, ChildrenHeld, Holds, Alive
<1>. QED BY <1>4, <1>5, <1>6, <1>7, <1>8, <1>9, <1>10, WaneKeeps DEF SInv, Records, Residents

\* The file is what the map was when it was cloned, and nothing was kept since.
LEMMA WriteKeeps ==
    ASSUME IInv, SInv, OneCaller, NEW t \in Threads, WriteStateFile(t)
    PROVE  SInv'
<1> DEFINE i == threads[t]
           j == IF i.next = "idle" THEN IdleThread
                ELSE [i EXCEPT !.pc = i.next, !.copy = NoSnapshots]
<1>1. /\ CallFits(i) /\ i.op \in OpNames /\ i \in Thread /\ threads \in [Threads -> Thread]
      /\ UNCHANGED <<handles, snapshots, procs>>
  BY CallFacts DEF WriteStateFile
<1>2. /\ i.pc = "write" /\ i.next \in Nexts(i.op) /\ i.hand = NoHandle
      /\ i.next = "contains" => handles[W(i)] = NoHandle
  BY <1>1 DEF WriteStateFile, CallFits, Control, Persisting, Path, OpNames, Holding
<1>3. \A u \in Threads : u = t
  BY DEF OneCaller
<1>4. stateFile' = snapshots
  BY <1>2 DEF WriteStateFile, At, SInv, Records, FileFollows
<1>5. threads'[t] = j
  <2> DEFINE moved == [u \in Threads |->
                       IF u # t /\ threads[u].pc = "write"
                       THEN [threads[u] EXCEPT !.pc = "overwrite"]
                       ELSE threads[u]]
  <2>1. moved[t] = i /\ moved \in [Threads -> {moved[u] : u \in Threads}]
    OBVIOUS
  <2>2. threads' = [moved EXCEPT ![t] = IF i.next = "idle" THEN IdleThread
                                        ELSE [@ EXCEPT !.pc = i.next, !.copy = NoSnapshots]]
    BY DEF WriteStateFile
  <2> HIDE DEF moved
  <2>. QED BY <2>1, <2>2
<1>6. /\ i.next = "idle" => j = IdleThread
      /\ i.next # "idle" => /\ j.pc = i.next /\ j.copy = NoSnapshots
                            /\ j.op = i.op /\ j.project = i.project /\ j.hand = NoHandle
                            /\ j.members = i.members /\ j.consent = i.consent
                            /\ j.rec = i.rec /\ j.next = i.next
  BY <1>1, <1>2 DEF Thread
<1> HIDE DEF j
<1>7. CallFits(j) /\ j.pc \notin {"open", "write"}
  <2>1. CASE i.next = "idle"
    BY <1>6, <2>1, IdleFits, IdleFields
  <2>2. CASE i.next # "idle"
    <3>1. \/ i.op = "start" /\ j.pc = "contains"
          \/ i.op = "stop" /\ j.pc = "take"
          \/ i.op = "stopWs" /\ j.pc = "mark"
          \/ i.op = "status" /\ j.pc = "expected"
      BY <1>1, <1>2, <1>6, <2>2 DEF Nexts, OpNames
    <3>2. Control(j)
      BY <1>1, <1>2, <1>6, <2>2, <3>1
         DEF Control, Path, Persisting, Killing, Unmanaged, W
    <3>3. ConsentKept(j)
      BY <1>1, <1>2, <1>6, <2>2, <3>1 DEF CallFits, ConsentKept, Consenting, Persisting, W
    <3>4. Membership(j)
      BY <1>1, <1>2, <1>6, <2>2, <3>1 DEF CallFits, Membership, Leaving, Arriving, Killing, W
    <3>5. \A x : ~Names(NoSnapshots, x) \/ x = NoPid
      BY DEF Names, NoSnapshots, NoSnapshot
    <3>6. Processes(j)
      BY <1>1, <1>2, <1>6, <2>2, <3>1, <3>5, RuntimeManagerAssumption
         DEF CallFits, Processes, NoHandle
    <3>. QED BY <1>2, <2>2, <3>1, <3>2, <3>3, <3>4, <3>6 DEF CallFits
  <2>. QED BY <2>1, <2>2
<1>8. CallFits(threads[t])'
  BY <1>1, <1>5, <1>7
     DEF CallFits, Control, ConsentKept, Membership, Processes, W, Consenting, Arriving,
         Leaving, Live, Names, Used, ServesOnly, Alive, LiveProjects
<1>9. FileFollows'
  BY <1>1, <1>3, <1>4, <1>5, <1>7 DEF FileFollows
<1>10. MembersFit' /\ UsersAreMembers'
  BY <1>1, <1>2, <1>3 DEF SInv, Records, MembersFit, UsersAreMembers, Arriving, Leaving, Live
<1>11. Wanes
  BY <1>1 DEF Wanes
<1>12. UnusedUnnamed'
  BY <1>1, <1>4 DEF SInv, Residents, UnusedUnnamed, Names
<1>13. ManagedServe' /\ ChildrenHeld'
  BY <1>1, <1>2, <1>3, <1>11, WaneKeeps
     DEF SInv, Residents, ManagedServe, ChildrenHeld, Holds, Alive
<1>. QED BY <1>3, <1>8, <1>9, <1>10, <1>11, <1>12, <1>13, WaneKeeps
         DEF SInv, Records, Residents

-----------------------------------------------------------------------------
(* The residents, the system, and Studio's own end. *)

\* A step that changes the processes only, and makes none a live child.
LEMMA EnvironFrame ==
    ASSUME IInv, SInv, UNCHANGED <<handles, snapshots, stateFile, threads>>,
           OneServing', EndsFit', OneConsent',
           \A x, w : ServesOnly(x, w) => ServesOnly(x, w)',
           \A x \in Pids : procs'[x] = NoProc => procs[x] = NoProc,
           \A x \in Pids : Alive(x)' /\ procs'[x].child =>
               Alive(x) /\ procs[x].child /\ procs'[x].ws = procs[x].ws
    PROVE  SInv'
<1>1. ASSUME NEW t \in Threads PROVE CallFits(threads[t])'
  <2> DEFINE i == threads[t]
  <2>1. PICK j : j = i
    OBVIOUS
  <2>2. CallFits(j) /\ threads'[t] = j
    BY <2>1 DEF SInv
  <2>3. Control(j)' /\ ConsentKept(j)'
    BY <2>2 DEF CallFits, Control, ConsentKept
  <2>4. Membership(j)'
    BY <2>2 DEF CallFits, Membership, Live, LiveProjects
  <2>5. PICK v : v = W(j)
    OBVIOUS
  <2>6. Processes(j)'
    <3>1. j.hand.kind = "Adopted" => ServesOnly(j.hand.pid, v)'
      BY <2>2, <2>5 DEF CallFits, Processes
    <3>2. j.pc = "insert" => ServesOnly(j.found, v)'
      BY <2>2, <2>5 DEF CallFits, Processes
    <3>3. \A x \in Pids : procs'[x] = NoProc => j.rec.pid # x /\ ~Names(j.copy, x)
      BY <2>2 DEF CallFits, Processes
    <3>. QED BY <2>5, <3>1, <3>2, <3>3 DEF Processes, W
  <2>7. CallFits(j)'
    BY <2>3, <2>4, <2>6 DEF CallFits
  <2>. QED BY <2>2, <2>7
<1>2. Records'
  BY DEF SInv, Records, FileFollows, MembersFit, UsersAreMembers, Arriving, Leaving, Live
<1>3. ManagedServe'
  BY DEF SInv, Residents, ManagedServe
<1>4. UnusedUnnamed'
  BY DEF SInv, Residents, UnusedUnnamed, Names
<1>5. ChildrenHeld'
  <2>. SUFFICES ASSUME NEW x \in Pids, Alive(x)', procs'[x].child
                PROVE  \/ /\ handles'[procs'[x].ws].kind = "Owned"
                          /\ handles'[procs'[x].ws].pid = x
                       \/ \E t \in Threads : Holds(threads[t], x)'
    BY DEF ChildrenHeld
  <2>1. Alive(x) /\ procs[x].child /\ procs'[x].ws = procs[x].ws
    OBVIOUS
  <2>2. \A t \in Threads : Holds(threads[t], x) => Holds(threads[t], x)'
    BY <2>1 DEF Holds, W
  <2>. QED BY <2>1, <2>2 DEF SInv, Residents, ChildrenHeld
<1>. QED BY <1>1, <1>2, <1>3, <1>4, <1>5 DEF SInv, Residents

\* A resident ends, loses its pid, or goes on to serve.
LEMMA EnvironWanes ==
    ASSUME IInv, NEW x \in Pids,
           Bind(x) \/ ExitBusy(x) \/ ReadyLine(x) \/ Die(x) \/ Recycle(x)
    PROVE  \/ Wanes
           \/ /\ Bind(x) \/ ReadyLine(x)
              /\ procs'[x].st = "serving" /\ procs'[x].ws = procs[x].ws
              /\ procs'[x].child = procs[x].child /\ procs'[x].consent = procs[x].consent
              /\ procs'[x].ended = procs[x].ended
              /\ procs[x].st \in {"starting", "serving"}
              /\ \A y \in Pids \ {x} : procs'[y] = procs[y]
<1>1. procs \in [Pids -> Proc] /\ procs[x] \in Proc
  BY DEF IInv, TypeOK
<1>2. CASE ExitBusy(x) \/ Die(x)
  <2>1. /\ procs[x].st # "free" /\ procs'[x] = Ended(x, "exited")
        /\ \A y \in Pids \ {x} : procs'[y] = procs[y]
    BY <1>1, <1>2 DEF ExitBusy, Die, Alive
  <2>. QED BY <2>1, EndWanes
<1>3. CASE Recycle(x)
  <2>1. /\ procs[x] # NoProc /\ procs'[x].st = "stranger"
        /\ \A y \in Pids \ {x} : procs'[y] = procs[y]
    BY <1>1, <1>3 DEF Recycle, NoProc
  <2>2. procs'[x] # NoProc
    BY <2>1, EndFields
  <2>. QED BY <2>1, <2>2 DEF Wanes, Alive
<1>4. CASE Bind(x) \/ ReadyLine(x)
  BY <1>1, <1>4 DEF Bind, ReadyLine, Proc
<1>. QED BY <1>2, <1>3, <1>4

\* What the residents and the system do.
LEMMA EnvironKeeps ==
    ASSUME IInv, SInv, NEW x \in Pids,
           Bind(x) \/ ExitBusy(x) \/ ReadyLine(x) \/ Die(x) \/ Recycle(x)
    PROVE  SInv'
<1>1. UNCHANGED <<handles, snapshots, stateFile, threads>>
  BY DEF Bind, ExitBusy, ReadyLine, Die, Recycle
<1>2. CASE Wanes
  <2>1. \A y \in Pids : Alive(y)' /\ procs'[y].child =>
            Alive(y) /\ procs[y].child /\ procs'[y].ws = procs[y].ws
    BY <1>2 DEF Wanes, Alive
  <2>. QED BY <1>1, <1>2, <2>1, WaneKeeps, EnvironFrame
<1>3. CASE Bind(x) \/ ReadyLine(x)
  <2>1. /\ procs'[x].st = "serving" /\ procs'[x].ws = procs[x].ws
        /\ procs'[x].child = procs[x].child /\ procs'[x].consent = procs[x].consent
        /\ procs[x].st \in {"starting", "serving"}
        /\ \A y \in Pids \ {x} : procs'[y] = procs[y]
    <3>1. procs \in [Pids -> Proc] /\ procs[x] \in Proc
      BY DEF IInv, TypeOK
    <3>. QED BY <1>3, <3>1 DEF Bind, ReadyLine, Proc
  <2>2. procs[x].st = "starting" => \A y \in Pids : ~(procs[y].st = "serving"
                                                     /\ procs[y].ws = procs[x].ws)
    BY <1>3 DEF Bind, ReadyLine, Serving
  <2>3. OneServing'
    BY <2>1, <2>2 DEF SInv, Residents, OneServing
  <2>4. EndsFit'
    BY <2>1 DEF SInv, Residents, EndsFit
  <2>5. OneConsent'
    BY <2>1 DEF SInv, Residents, OneConsent, Alive
  <2>6. procs'[x] # NoProc
    BY <2>1, EndFields
  <2>7. \A y, w : ServesOnly(y, w) => ServesOnly(y, w)'
    BY <2>1, <2>6 DEF ServesOnly, Used, Alive
  <2>. QED BY <1>1, <2>1, <2>3, <2>4, <2>5, <2>6, <2>7, EnvironFrame DEF Alive
<1>. QED BY <1>2, <1>3, EnvironWanes

\* A new Studio has no handles, no calls and no children.
LEMMA RestartKeeps ==
    ASSUME IInv, SInv, StudioRestart
    PROVE  SInv'
<1>1. /\ \A w \in Workspaces : handles'[w] = NoHandle
      /\ \A t \in Threads : threads'[t] = IdleThread
      /\ snapshots' = stateFile /\ stateFile' = stateFile
  BY DEF StudioRestart
<1>2. ASSUME NEW x \in Pids
      PROVE  /\ procs'[x].st = IF procs[x].st = "zombie" THEN "free" ELSE procs[x].st
             /\ procs'[x].st = "serving" => procs'[x].ws = procs[x].ws
             /\ ~procs'[x].child
             /\ procs'[x] = NoProc => procs[x] = NoProc
  <2>1. procs[x] \in Proc
    BY DEF IInv, TypeOK
  <2>2. CASE procs[x].st = "zombie"
    <3>1. procs'[x] = Freed(x) /\ procs[x].ended # "none"
      BY <2>2 DEF StudioRestart, SInv, Residents, EndsFit
    <3>. QED BY <2>2, <3>1, EndFields
  <2>3. CASE procs[x].st # "zombie"
    <3>1. procs'[x] = [procs[x] EXCEPT !.child = FALSE]
      BY <2>3 DEF StudioRestart
    <3>2. /\ procs'[x].st = procs[x].st /\ procs'[x].ws = procs[x].ws
          /\ procs'[x].child = FALSE
      BY <2>1, <3>1 DEF Proc
    <3>3. procs[x].st = "free" => procs'[x] = procs[x]
      <4>1. procs[x].st = "free" => procs[x].child = FALSE
        BY <2>1 DEF SInv, Residents, EndsFit, Proc
      <4>. QED BY <2>1, <3>1, <4>1, ZenonT(60) DEF Proc
    <3>. QED BY <2>3, <3>2, <3>3, EndFields
  <2>. QED BY <2>2, <2>3
<1>3. ASSUME NEW t \in Threads PROVE CallFits(threads[t])'
  <2>1. CallFits(IdleThread)'
    BY IdleFits, PTL
  <2>. QED BY <1>1, <2>1
<1>4. FileFollows' /\ MembersFit' /\ UsersAreMembers'
  <2>1. \A p \in Projects : WorkspaceOf[p] \in Workspaces
    BY RuntimeManagerAssumption
  <2>. QED BY <1>1, <2>1, IdleFields DEF FileFollows, MembersFit, UsersAreMembers, NoHandle
<1>5. OneServing' /\ EndsFit'
  BY <1>2 DEF SInv, Residents, OneServing, EndsFit
<1>6. ManagedServe'
  BY <1>1 DEF ManagedServe, NoHandle
<1>7. UnusedUnnamed'
  BY <1>1, <1>2 DEF SInv, Residents, UnusedUnnamed, Names
<1>8. ChildrenHeld' /\ OneConsent'
  BY <1>2 DEF ChildrenHeld, OneConsent
<1>. QED BY <1>3, <1>4, <1>5, <1>6, <1>7, <1>8 DEF SInv, Records, Residents

-----------------------------------------------------------------------------
(* The invariant holds. *)

\* A Studio that has just been installed.
LEMMA SInit == Init => SInv
<1>. SUFFICES ASSUME Init PROVE SInv
  OBVIOUS
<1>1. /\ \A t \in Threads : threads[t] = IdleThread
      /\ \A w \in Workspaces : handles[w] = NoHandle
      /\ \A x \in Pids : procs[x] = NoProc
      /\ snapshots = NoSnapshots /\ stateFile = NoSnapshots
  BY DEF Init
<1>2. \A t \in Threads : CallFits(threads[t])
  BY <1>1, IdleFits
<1>3. FileFollows
  BY <1>1, IdleFields DEF FileFollows
<1>4. MembersFit /\ UsersAreMembers /\ ManagedServe
  BY <1>1, RuntimeManagerAssumption DEF MembersFit, UsersAreMembers, ManagedServe, NoHandle
<1>5. OneServing /\ EndsFit /\ ChildrenHeld /\ OneConsent
  BY <1>1, EndFields DEF OneServing, EndsFit, ChildrenHeld, OneConsent, Alive
<1>6. UnusedUnnamed
  BY <1>1, RuntimeManagerAssumption DEF UnusedUnnamed, Names, NoSnapshots, NoSnapshot
<1>. QED BY <1>2, <1>3, <1>4, <1>5, <1>6 DEF SInv, Records, Residents

\* Every step keeps the invariant.
LEMMA SStep ==
    ASSUME IInv, SInv, OneCaller, [Next]_vars
    PROVE  SInv'
<1>1. ASSUME NEW t \in Threads, NEW op \in OpNames, NEW p \in Projects, Call(t, op, p)
      PROVE  SInv'
  BY <1>1, CallKeeps
<1>2. ASSUME NEW t \in Threads, Step(t)
      PROVE  SInv'
  <2>1. CASE CommandSpecFor(t) \/ TryJoin(t) \/ Spawn(t) \/ OwnSpawned(t)
    BY <2>1, SpecKeeps, TryJoinKeeps, SpawnKeeps, OwnKeeps
  <2>2. CASE AdoptContains(t) \/ AdoptProbe(t) \/ AdoptDiscover(t) \/ AdoptInsert(t)
    BY <2>2, LooksKeep, DiscoverKeeps, InsertKeeps
  <2>3. CASE TryJoinReadonly(t) \/ ExpectedUp(t) \/ AnswerFromSnapshot(t)
    BY <2>3, LookKeeps, LooksKeep
  <2>4. CASE StopLeave(t) \/ RemoveLeave(t)
    <3>1. RemoveLeave(t) => threads[t].op = "remove"
      BY CallFacts DEF RemoveLeave, At, CallFits, Control, Path, Persisting, OpNames
    <3>. QED BY <2>4, <3>1, LeaveKeeps DEF StopLeave, RemoveLeave, At
  <2>5. CASE StopWorkspaceTake(t) \/ RemoveFind(t) \/ RemoveForget(t) \/ MarkStopped(t)
    BY <2>5, StopWorkspaceKeeps, LooksKeep, KeepKeeps, MarkKeeps
  <2>6. CASE KillOwned(t) \/ VerifyListener(t) \/ VerifyAnswers(t) \/ SignalPid(t)
    BY <2>6, KillKeeps, VerifyKeeps, SignalKeeps
  <2>7. CASE PersistMemory(t) \/ OpenStateFile(t) \/ WriteStateFile(t)
    BY <2>7, KeepKeeps, OpenKeeps, WriteKeeps
  <2>. QED BY <1>2, <2>1, <2>2, <2>3, <2>4, <2>5, <2>6, <2>7 DEF Step
<1>3. CASE Environment
  BY <1>3, EnvironKeeps, RestartKeeps DEF Environment
<1>4. CASE UNCHANGED vars
  <2>1. \A x, w : ServesOnly(x, w) => ServesOnly(x, w)'
    BY <1>4 DEF vars, ServesOnly, Used, Alive
  <2>2. OneServing' /\ EndsFit' /\ OneConsent'
    BY <1>4 DEF vars, SInv, Residents, OneServing, EndsFit, OneConsent, Alive
  <2>. QED BY <1>4, <2>1, <2>2, EnvironFrame DEF vars, Alive
<1>. QED BY <1>1, <1>2, <1>3, <1>4 DEF Next

\* The inductive invariant of calls that do not overlap.
THEOREM SInvHolds == OneCaller => (Spec => []SInv)
<1>. SUFFICES ASSUME OneCaller PROVE Spec => []SInv
  OBVIOUS
<1>1. IInv /\ SInv /\ [Next]_vars => SInv'
  BY SStep
<1>. QED BY <1>1, SInit, IInvHolds, PTL DEF Spec

\* Between calls, a member of a managed workspace is a project whose record is live:
\* the last live project is the last to leave.
THEOREM MembersLive == OneCaller => (Spec => []MembersAreLive)
<1>1. IInv /\ SInv => MembersAreLive
  <2>. SUFFICES ASSUME IInv, SInv, \A t \in Threads : threads[t].pc = "idle",
                       NEW w \in Workspaces, NEW p \in handles[w].members
                PROVE  p \in LiveProjects(w)
    BY DEF MembersAreLive
  <2>1. p \in Projects
    BY DEF IInv, TypeOK, Handle, NoHandle
  <2>2. WorkspaceOf[p] = w /\ Live(p)
    BY DEF SInv, Records, MembersFit, Arriving
  <2>. QED BY <2>1, <2>2 DEF LiveProjects, Live
<1>. QED BY <1>1, SInvHolds, IInvHolds, PTL

\* A project that leaves takes the process down only when no other project's record
\* says that it runs on it.
THEOREM KillsSpareUsers == OneCaller => (Spec => []KillSparesUsers)
<1>1. SInv => KillSparesUsers
  <2>. SUFFICES ASSUME SInv, NEW t \in Threads, threads[t].pc \in {"kill", "verify"},
                       threads[t].op \in {"stop", "remove"}, NEW q \in Settled(t)
                PROVE  ~(IsLive(snapshots[q].phase) /\ snapshots[q].pid = threads[t].hand.pid)
    BY DEF KillSparesUsers
  <2>1. Membership(threads[t]) /\ threads[t].pc \in Killing
    BY DEF SInv, CallFits, Killing
  <2>. QED BY <2>1 DEF Membership, Settled, W, Ws, Live
<1>. QED BY <1>1, SInvHolds, PTL

-----------------------------------------------------------------------------
(* A stop acts. The probe answers for a live resident, and its pid is found.   *)

Observant == ~ProbeMayTimeOut /\ ~PidMayBeHidden

\* Where a stop stands towards the resident that served its workspace when it was
\* called, as long as that resident serves.
Placed(i) ==
    /\ i.pc = "contains" => handles[W(i)].pid \in {i.seen, NoPid}
    /\ i.pc = "insert" => i.found = i.seen
    /\ i.pc = "take" \/ (i.pc \in Persisting /\ i.next = "take") => handles[W(i)].pid = i.seen
    /\ i.pc \in Killing => i.hand.pid = i.seen
    /\ i.pc \in Persisting /\ i.next = "idle" =>
          \E q \in LiveProjects(W(i)) : q # i.project

StopFits(i) ==
    i.op = "stop" /\ i.pc # "idle" /\ i.seen # NoPid =>
        /\ ServesOnly(i.seen, W(i))
        /\ procs[i.seen].st = "serving" => Placed(i)
        /\ i.pc = "persist" /\ i.next = "take" => IsLive(i.rec.phase)

StopsFit == \A t \in Threads : StopFits(threads[t])

\* The step of a stop keeps the resident it faces, and its place towards it.
LEMMA StopFrame ==
    ASSUME IInv, SInv, StopsFit, Wanes, NEW t \in Threads,
           threads[t].op = "stop", threads[t].pc # "idle",
           \/ threads'[t].pc = "idle"
           \/ /\ threads'[t].project = threads[t].project
              /\ threads'[t].seen = threads[t].seen
              /\ threads'[t].pc = "persist" /\ threads'[t].next = "take" =>
                    IsLive(threads'[t].rec.phase)
              /\ /\ threads[t].seen \in Pids /\ procs[threads[t].seen].st = "serving"
                 /\ procs[threads[t].seen].ws = Ws(t)
                 /\ procs'[threads[t].seen].st = "serving"
                 /\ Placed(threads[t])
                 => Placed(threads[t])'
    PROVE  StopFits(threads[t])'
<1>. SUFFICES ASSUME threads'[t].pc # "idle", threads'[t].seen # NoPid
              PROVE  /\ ServesOnly(threads[t].seen, W(threads[t]))'
                     /\ procs'[threads'[t].seen].st = "serving" => Placed(threads[t])'
                     /\ threads'[t].pc = "persist" /\ threads'[t].next = "take" =>
                            IsLive(threads'[t].rec.phase)
  BY DEF StopFits
<1>1. PICK x, w : x = threads[t].seen /\ w = Ws(t)
  OBVIOUS
<1>2. ServesOnly(x, w) /\ (procs[x].st = "serving" => Placed(threads[t]))
  BY <1>1 DEF StopsFit, StopFits, W, Ws
<1>3. ServesOnly(x, w)'
  BY <1>2, WaneKeeps
<1>4. threads'[t].seen = x /\ W(threads[t])' = w
  BY <1>1 DEF W, Ws
<1>5. procs'[x].st = "serving" => procs[x].st = "serving" /\ x \in Pids /\ procs[x].ws = w
  BY <1>2 DEF ServesOnly, Wanes, Alive
<1>. QED BY <1>1, <1>2, <1>3, <1>4, <1>5

\* A stop is called on the resident that the map holds, or that it may adopt.
LEMMA StopCalled ==
    ASSUME IInv, SInv, NEW t \in Threads, NEW op \in OpNames, NEW p \in Projects, Call(t, op, p)
    PROVE  StopFits(threads[t])'
<1> DEFINE j == [IdleThread EXCEPT !.pc = FirstPc(op), !.op = op, !.project = p,
                   !.seen = IF op = "stop" THEN Findable(WorkspaceOf[p]) ELSE NoPid]
           w == WorkspaceOf[p]
<1>1. /\ threads'[t] = j /\ UNCHANGED <<handles, procs>>
  BY CallFacts DEF Call
<1>2. /\ j.pc = FirstPc(op) /\ j.op = op /\ j.project = p
      /\ j.seen = IF op = "stop" THEN Findable(w) ELSE NoPid
  BY DEF IdleThread
<1> HIDE DEF j
<1>. SUFFICES ASSUME op = "stop", j.seen # NoPid
              PROVE  StopFits(threads[t])'
  BY <1>1, <1>2 DEF StopFits
<1>3. PICK x, y, v : x = Findable(w) /\ y \in Serving(w) /\ handles[w].pid \in {y, NoPid} /\ v = w
  BY <1>2 DEF Findable
<1>4. x \in Serving(w) /\ x = y
  <2>1. x \in Serving(w)
    BY <1>2, <1>3 DEF Findable
  <2>. QED BY <1>3, <2>1 DEF Serving, SInv, Residents, OneServing
<1>5. ServesOnly(x, v)'
  BY <1>1, <1>3, <1>4 DEF Serving, ServesOnly, Used, NoProc, Alive
<1>6. j.pc = "contains"
  BY <1>2 DEF FirstPc
<1>7. W(threads[t])' = v /\ threads'[t].seen = x /\ threads'[t].pc = "contains"
  BY <1>1, <1>2, <1>3, <1>6 DEF W
<1>8. Placed(threads[t])'
  BY <1>1, <1>3, <1>4, <1>7 DEF Placed, Persisting, Killing
<1>. QED BY <1>5, <1>7, <1>8 DEF StopFits

\* The locals of the call that has written the file.
LEMMA WriteMoves ==
    ASSUME IInv, NEW t \in Threads, WriteStateFile(t)
    PROVE  \/ threads[t].next = "idle" /\ threads'[t] = IdleThread
           \/ /\ threads[t].next # "idle"
              /\ threads'[t].pc = threads[t].next /\ threads'[t].project = threads[t].project
              /\ threads'[t].op = threads[t].op /\ threads'[t].seen = threads[t].seen
              /\ threads'[t].hand = threads[t].hand
<1> DEFINE i == threads[t]
           moved == [u \in Threads |->
                       IF u # t /\ threads[u].pc = "write"
                       THEN [threads[u] EXCEPT !.pc = "overwrite"]
                       ELSE threads[u]]
           j == IF i.next = "idle" THEN IdleThread
                ELSE [i EXCEPT !.pc = i.next, !.copy = NoSnapshots]
<1>1. moved[t] = i /\ moved \in [Threads -> {moved[u] : u \in Threads}] /\ i \in Thread
  BY DEF IInv, TypeOK
<1>2. threads' = [moved EXCEPT ![t] = IF i.next = "idle" THEN IdleThread
                                      ELSE [@ EXCEPT !.pc = i.next, !.copy = NoSnapshots]]
  BY DEF WriteStateFile
<1>3. threads'[t] = j
  <2>. HIDE DEF moved
  <2>. QED BY <1>1, <1>2
<1>4. /\ i.next = "idle" => j = IdleThread
      /\ i.next # "idle" => /\ j.pc = i.next /\ j.project = i.project /\ j.op = i.op
                            /\ j.seen = i.seen /\ j.hand = i.hand
  BY <1>1 DEF Thread
<1> HIDE DEF j
<1>. QED BY <1>3, <1>4

\* A step goes on with the same operation, or ends the call.
LEMMA OpKept ==
    ASSUME IInv, SInv, NEW t \in Threads, Step(t)
    PROVE  threads'[t] = IdleThread \/ threads'[t].op = threads[t].op
<1> DEFINE i == threads[t]
<1>1. i \in Thread /\ threads \in [Threads -> Thread]
  BY CallFacts
<1>2. ASSUME NEW pc, Goto(t, pc)
      PROVE  threads'[t] = IdleThread \/ threads'[t].op = i.op
  <2>1. PICK j : /\ threads' = [threads EXCEPT ![t] = j]
                 /\ pc = "idle" => j = IdleThread
                 /\ pc # "idle" => MovedTo(i, j, pc)
    BY <1>2, GotoMoves
  <2>. QED BY <1>1, <2>1 DEF MovedTo
<1>3. ASSUME NEW rec, NEW next, Persist(t, rec, next)
      PROVE  threads'[t].op = i.op
  BY <1>3, PersistMoves
<1>4. ASSUME Released(t) PROVE threads'[t].op = i.op
  BY <1>1, <1>4, ReleasedMoves
<1>5. ASSUME NothingToKill(t) PROVE threads'[t].op = i.op
  BY <1>1, <1>5 DEF NothingToKill, Thread
<1>5a. ASSUME NEW w, NEW h, TakeOut(t, w, h) PROVE threads'[t].op = i.op
  BY <1>1, <1>5a DEF TakeOut, Thread
<1>6. CASE CommandSpecFor(t) \/ OwnSpawned(t)
  BY <1>1, <1>6 DEF CommandSpecFor, OwnSpawned, Thread
<1>7. CASE TryJoin(t) \/ TryJoinReadonly(t)
  BY <1>2, <1>3, <1>7 DEF TryJoin, TryJoinReadonly
<1>8. CASE Spawn(t)
  <2>1. ASSUME NEW x,
               threads' = [threads EXCEPT ![t] =
                             [i EXCEPT !.pc = "own",
                                       !.hand = [pid |-> x, kind |-> "Owned", members |-> {}]]]
        PROVE  threads'[t].op = i.op
    BY <1>1, <2>1 DEF Thread
  <2>. QED BY <1>2, <1>8, <2>1 DEF Spawn
<1>9. CASE AdoptContains(t) \/ AdoptProbe(t) \/ ExpectedUp(t) \/ AnswerFromSnapshot(t)
           \/ RemoveFind(t)
  BY <1>2, <1>9 DEF AdoptContains, AdoptProbe, ExpectedUp, AnswerFromSnapshot, RemoveFind
<1>10. CASE AdoptDiscover(t)
  <2>1. ASSUME NEW x, Discovered(t, x) PROVE threads'[t].op = i.op
    BY <1>1, <2>1 DEF Discovered, Thread
  <2>. QED BY <1>3, <1>10, <2>1 DEF AdoptDiscover
<1>11. CASE AdoptInsert(t)
  BY <1>1, <1>11, ZenonT(60) DEF AdoptInsert, InsertAdopted, Thread
<1>12. CASE StopLeave(t) \/ RemoveLeave(t) \/ StopWorkspaceTake(t)
  BY <1>2, <1>5, <1>12, <1>5a DEF StopLeave, RemoveLeave, StopWorkspaceTake, Leave
<1>13. CASE RemoveForget(t) \/ PersistMemory(t)
  BY <1>1, <1>13 DEF RemoveForget, PersistMemory, Thread
<1>14. CASE KillOwned(t)
  BY <1>4, <1>14 DEF KillOwned, Released
<1>15. CASE VerifyListener(t) \/ VerifyAnswers(t) \/ SignalPid(t)
  BY <1>2, <1>4, <1>15 DEF VerifyListener, VerifyAnswers, SignalPid
<1>16. CASE MarkStopped(t)
  <2>1. ASSUME NEW p,
               \/ threads' = [threads EXCEPT ![t] =
                                [i EXCEPT !.members = i.members \ {p}, !.project = p,
                                          !.pc = "persist", !.rec = NoSnapshot, !.next = "mark"]]
               \/ threads' = [threads EXCEPT ![t] = [i EXCEPT !.members = i.members \ {p}]]
        PROVE  threads'[t].op = i.op
    BY <1>1, <2>1 DEF Thread
  <2>. QED BY <1>2, <1>16, <2>1 DEF MarkStopped
<1>17. CASE OpenStateFile(t)
  BY <1>2, <1>17 DEF OpenStateFile
<1>18. CASE WriteStateFile(t)
  BY <1>18, WriteMoves
<1>. QED BY <1>6, <1>7, <1>8, <1>9, <1>10, <1>11, <1>12, <1>13, <1>14, <1>15, <1>16, <1>17,
            <1>18 DEF Step

\* The steps of a stop: it adopts the resident it faces, takes it out of the map when
\* no other project lives there, and does not let it go before it has ended.
LEMMA StopStep ==
    ASSUME IInv, SInv, StopsFit, OneCaller, Observant, NEW t \in Threads, Step(t)
    PROVE  StopFits(threads[t])'
<1> DEFINE i == threads[t]
           x == i.seen
           w == Ws(t)
<1>1. /\ CallFits(i) /\ i.op \in OpNames /\ W(i) = w /\ i \in Thread /\ w \in Workspaces
      /\ i.project \in Projects /\ threads \in [Threads -> Thread]
      /\ handles \in [Workspaces -> Handle] /\ procs \in [Pids -> Proc]
  BY CallFacts
<1>2. \A u \in Threads : u = t
  BY DEF OneCaller
<1>3. CASE i.op # "stop"
  BY <1>3, OpKept, IdleFields DEF StopFits
<1>4. CASE i.op = "stop"
  <2>1. i.pc # "idle"
    BY DEF Step, CommandSpecFor, TryJoin, Spawn, OwnSpawned, AdoptContains, AdoptProbe,
           AdoptDiscover, AdoptInsert, TryJoinReadonly, ExpectedUp, AnswerFromSnapshot,
           StopLeave, StopWorkspaceTake, RemoveFind, RemoveLeave, RemoveForget,
           KillOwned, VerifyListener, VerifyAnswers, SignalPid, MarkStopped,
           PersistMemory, OpenStateFile, WriteStateFile, At
  <2>2. i.pc \in Path("stop") \cup Persisting
    BY <1>1, <1>4, <2>1 DEF CallFits, Control
  <2>3. \/ AdoptContains(t) \/ AdoptProbe(t) \/ AdoptDiscover(t) \/ AdoptInsert(t)
        \/ StopLeave(t) \/ KillOwned(t) \/ VerifyListener(t) \/ VerifyAnswers(t) \/ SignalPid(t)
        \/ PersistMemory(t) \/ OpenStateFile(t) \/ WriteStateFile(t)
    BY <1>4, <2>2 DEF Step, Path, Persisting, At,
           CommandSpecFor, TryJoin, Spawn, OwnSpawned, TryJoinReadonly, ExpectedUp,
           AnswerFromSnapshot, StopWorkspaceTake, RemoveFind, RemoveLeave, RemoveForget,
           MarkStopped
  <2>4. x \in Pids /\ procs[x].st = "serving" /\ procs[x].ws = w => Serving(w) = {x}
    BY <1>1 DEF SInv, Residents, OneServing, Serving
  <2>5. ASSUME NEW pc, Goto(t, pc), Wanes, pc \notin Persisting \cup {"insert", "idle"},
               /\ x \in Pids /\ procs[x].st = "serving" /\ procs[x].ws = w
               /\ procs'[x].st = "serving" /\ Placed(i)
               => /\ pc = "contains" => handles'[w].pid \in {x, NoPid}
                  /\ pc = "take" => handles'[w].pid = x
                  /\ pc \in Killing => i.hand.pid = x
        PROVE  StopFits(threads[t])'
    <3>1. PICK j : threads' = [threads EXCEPT ![t] = j] /\ MovedTo(i, j, pc)
      BY <2>5, GotoMoves
    <3>2. /\ threads'[t].pc = pc /\ threads'[t].project = i.project /\ threads'[t].seen = x
          /\ threads'[t].hand = i.hand
      BY <1>1, <3>1 DEF MovedTo
    <3>3. /\ x \in Pids /\ procs[x].st = "serving" /\ procs[x].ws = w
          /\ procs'[x].st = "serving" /\ Placed(i)
          => Placed(threads[t])'
      BY <1>1, <2>5, <3>2 DEF Placed, W, Persisting
    <3>. QED BY <1>4, <2>1, <2>5, <3>2, <3>3, StopFrame DEF Persisting
  <2>6. ASSUME Released(t), Wanes, i.pc \in Killing,
               /\ x \in Pids /\ procs[x].st = "serving" /\ procs[x].ws = w
               /\ procs'[x].st = "serving" /\ Placed(i)
               => FALSE
        PROVE  StopFits(threads[t])'
    <3>1. PICK j : /\ threads' = [threads EXCEPT ![t] = j]
                   /\ j.project = i.project /\ j.seen = x /\ j.next = i.next
      BY <2>6, ReleasedMoves
    <3>2. i.next = "idle"
      BY <1>1, <2>6 DEF CallFits, Control
    <3>3. threads'[t].project = i.project /\ threads'[t].seen = x /\ threads'[t].next = i.next
      BY <1>1, <3>1
    <3>. QED BY <1>4, <2>1, <2>6, <3>2, <3>3, StopFrame
  <2>7. UNCHANGED procs => Wanes
    BY DEF Wanes
  <2>8. CASE AdoptContains(t)
    <3>1. PICK pc : /\ Goto(t, pc) /\ i.pc = "contains" /\ UNCHANGED <<handles, procs>>
                    /\ pc = IF handles[w] = NoHandle THEN "probe" ELSE "take"
      BY <1>4, <2>8 DEF AdoptContains, At, AfterNotAdopted
    <3>2. pc = "take" /\ Placed(i) => handles[w].pid = x
      BY <1>1, <3>1, HandlesUsed, RuntimeManagerAssumption DEF Placed
    <3>. QED BY <2>5, <2>7, <3>1, <3>2 DEF Persisting, Killing
  <2>9. CASE AdoptProbe(t)
    <3>1. PICK pc : /\ Goto(t, pc) /\ UNCHANGED <<handles, procs>>
                    /\ pc \in {"discover", "take"}
                    /\ Serving(w) # {} => pc = "discover"
      BY <1>4, <2>9 DEF AdoptProbe, AfterNotAdopted, Answers, Observant
    <3>. QED BY <2>4, <2>5, <2>7, <3>1 DEF Persisting, Killing
  <2>10. CASE AdoptDiscover(t)
    <3>1. /\ UNCHANGED <<handles, snapshots, procs>>
          /\ \/ /\ Serving(w) = {} \/ NoPid \in Serving(w)
                /\ Persist(t, Record("Running", NoPid), "take")
             \/ \E y \in Serving(w) : Discovered(t, y)
      BY <1>4, <2>10 DEF AdoptDiscover, AfterAdopted, Listeners, Observant
    <3>2. CASE /\ Serving(w) = {} \/ NoPid \in Serving(w)
               /\ Persist(t, Record("Running", NoPid), "take")
      <4>1. /\ threads'[t].project = i.project /\ threads'[t].seen = x
            /\ IsLive(threads'[t].rec.phase)
        BY <3>2, PersistMoves DEF Record, IsLive
      <4>2. Serving(w) = {}
        BY <3>2, RuntimeManagerAssumption DEF Serving
      <4>. QED BY <1>4, <2>1, <2>4, <2>7, <3>1, <4>1, <4>2, StopFrame
    <3>3. ASSUME NEW y \in Serving(w), Discovered(t, y)
          PROVE  StopFits(threads[t])'
      <4>1. /\ threads'[t].pc = "insert" /\ threads'[t].found = y
            /\ threads'[t].project = i.project /\ threads'[t].seen = x
        BY <1>1, <3>3 DEF Discovered, Thread
      <4>2. y = x => Placed(threads[t])'
        BY <4>1 DEF Placed, Persisting, Killing
      <4>. QED BY <1>4, <2>1, <2>4, <2>7, <3>1, <4>1, <4>2, StopFrame
    <3>. QED BY <3>1, <3>2, <3>3
  <2>11. CASE AdoptInsert(t)
    <3>1. handles[w] = NoHandle /\ i.pc = "insert" /\ UNCHANGED <<snapshots, procs>>
      BY <1>1, <2>11 DEF AdoptInsert, At, CallFits, Control, Unmanaged
    <3>2. InsertAdopted(t)
      BY <2>11, <3>1 DEF AdoptInsert
    <3>3. handles'[w].pid = i.found
      BY <1>1, <3>2 DEF InsertAdopted
    <3>4. /\ threads'[t].pc = "persist" /\ threads'[t].next = "take"
          /\ threads'[t].rec = Record("Running", i.found)
          /\ threads'[t].project = i.project /\ threads'[t].seen = x
      BY <1>1, <1>4, <3>2 DEF InsertAdopted, AfterAdopted, Thread
    <3>5. Placed(i) => Placed(threads[t])'
      BY <1>1, <3>1, <3>3, <3>4 DEF Placed, Persisting, Killing, W
    <3>6. IsLive(threads'[t].rec.phase)
      BY <3>4 DEF Record, IsLive
    <3>. QED BY <1>4, <2>1, <2>7, <3>1, <3>4, <3>5, <3>6, StopFrame
  <2>12. CASE StopLeave(t)
    <3> DEFINE h == handles[w]
               rest == h.members \ {i.project}
    <3>1. /\ i.pc = "take" /\ UNCHANGED <<snapshots, procs>> /\ Leave(t, w)
          /\ Placed(i) => h.pid = x
      BY <2>12 DEF StopLeave, At, Placed, W, Ws
    <3>2. ASSUME NothingToKill(t)
          PROVE  /\ threads'[t].pc = "persist" /\ threads'[t].next = "idle"
                 /\ threads'[t].project = i.project /\ threads'[t].seen = x
      BY <1>1, <1>4, <3>2 DEF NothingToKill, AfterKill, Thread
    <3>3. CASE h = NoHandle /\ NothingToKill(t)
      <4>1. Placed(i) => x \notin Pids
        BY <3>1, <3>3, RuntimeManagerAssumption DEF NoHandle
      <4>. QED BY <1>4, <2>1, <2>7, <3>1, <3>2, <3>3, <4>1, StopFrame
    <3>4. CASE rest # {} /\ NothingToKill(t)
      <4>1. PICK q \in h.members : q # i.project
        BY <3>4
      <4>2. q \in Projects /\ WorkspaceOf[q] = w /\ Live(q)
        BY <1>1, <1>2, <3>1 DEF SInv, Records, MembersFit, Arriving, Handle, NoHandle
      <4>3. W(threads[t])' = w
        BY <1>1, <3>2, <3>4 DEF W
      <4>4. Placed(threads[t])'
        BY <3>1, <3>2, <3>4, <4>1, <4>2, <4>3
           DEF Placed, Persisting, Killing, LiveProjects, Live
      <4>. QED BY <1>4, <2>1, <2>7, <3>1, <3>2, <3>4, <4>4, StopFrame
    <3>5. CASE TakeOut(t, w, h) /\ h # NoHandle
      <4>1. PICK k : k = [h EXCEPT !.members = {}]
        OBVIOUS
      <4>2. k.pid = h.pid
        <5>1. h \in [pid : Pids, kind : {"Owned", "Adopted"}, members : SUBSET Projects]
          BY <1>1, <3>5 DEF Handle
        <5> HIDE DEF h
        <5>. QED BY <4>1, <5>1
      <4>3. /\ threads'[t].pc \in {"kill", "verify"} /\ threads'[t].hand = k
            /\ threads'[t].project = i.project /\ threads'[t].seen = x
        BY <1>1, <3>5, <4>1 DEF TakeOut, Thread
      <4>4. Placed(i) => Placed(threads[t])'
        BY <3>1, <4>2, <4>3 DEF Placed, Persisting, Killing
      <4>. QED BY <1>4, <2>1, <2>7, <3>1, <4>3, <4>4, StopFrame
    <3>. QED BY <3>1, <3>3, <3>4, <3>5 DEF Leave
  <2>13. CASE KillOwned(t)
    <3>1. i.pc \in Killing /\ (Placed(i) => i.hand.pid = x)
      BY <2>13 DEF KillOwned, At, Placed, Killing
    <3>. QED BY <2>6, <2>13, <3>1, KillWanes
  <2>14. CASE VerifyListener(t) \/ VerifyAnswers(t)
    <3>1. /\ i.pc \in {"verify", "answers"} /\ UNCHANGED <<handles, procs>>
          /\ i.pc \in Killing /\ (Placed(i) => i.hand.pid = x)
      BY <2>14 DEF VerifyListener, VerifyAnswers, At, Placed, Killing
    <3>2. CASE Released(t) /\ Serving(w) # {i.hand.pid}
      BY <2>4, <2>6, <2>7, <3>1, <3>2
    <3>3. CASE Goto(t, "answers") \/ Goto(t, "signal")
      BY <2>5, <2>7, <3>1, <3>3 DEF Persisting, Killing
    <3>. QED BY <2>14, <3>2, <3>3
             DEF VerifyListener, VerifyAnswers, Listeners, Answers, Observant
  <2>15. CASE SignalPid(t)
    <3>1. i.pc \in Killing /\ (Placed(i) => i.hand.pid = x)
      BY <2>15 DEF SignalPid, At, Placed, Killing
    <3>2. CASE Released(t)
      BY <2>6, <2>15, <3>1, <3>2, SignalWanes
    <3>3. CASE Goto(t, "idle")
      BY <1>1, <3>3, IdleFields DEF Goto, StopFits
    <3>. QED BY <2>15, <3>2, <3>3, SignalWanes
  <2>16. CASE PersistMemory(t)
    <3>1. /\ i.pc = "persist" /\ UNCHANGED <<handles, procs>>
          /\ \A q \in Projects \ {i.project} : snapshots'[q] = snapshots[q]
      BY <1>1, <2>16, CallFacts DEF PersistMemory, At
    <3>2. /\ threads'[t].pc = "open" /\ threads'[t].next = i.next
          /\ threads'[t].project = i.project /\ threads'[t].seen = x
      BY <1>1, <2>16 DEF PersistMemory, Thread
    <3>3. Placed(i) => Placed(threads[t])'
      BY <1>1, <3>1, <3>2 DEF Placed, Persisting, Killing, W, LiveProjects
    <3>. QED BY <1>4, <2>1, <2>7, <3>1, <3>2, <3>3, StopFrame
  <2>17. CASE OpenStateFile(t)
    <3>1. /\ i.pc = "open" /\ UNCHANGED <<handles, snapshots, procs>> /\ Goto(t, "write")
      BY <2>17 DEF OpenStateFile, At
    <3>2. PICK j : threads' = [threads EXCEPT ![t] = j] /\ MovedTo(i, j, "write")
      BY <3>1, GotoMoves
    <3>3. /\ threads'[t].pc = "write" /\ threads'[t].next = i.next
          /\ threads'[t].project = i.project /\ threads'[t].seen = x
      BY <1>1, <3>2 DEF MovedTo
    <3>4. Placed(i) => Placed(threads[t])'
      BY <1>1, <3>1, <3>3 DEF Placed, Persisting, Killing, W, LiveProjects
    <3>. QED BY <1>4, <2>1, <2>7, <3>1, <3>3, <3>4, StopFrame
  <2>18. CASE WriteStateFile(t)
    <3>1. /\ i.pc = "write" /\ UNCHANGED <<handles, snapshots, procs>>
          /\ i.next \in {"idle", "take"}
      BY <1>1, <1>4, <2>18
         DEF WriteStateFile, CallFits, Control, Persisting, Path, Nexts
    <3>2. \/ threads'[t] = IdleThread
          \/ /\ i.next = "take"
             /\ threads'[t].pc = "take" /\ threads'[t].project = i.project
             /\ threads'[t].seen = x
      BY <1>1, <2>18, <3>1, WriteMoves
    <3>3. threads'[t] # IdleThread /\ Placed(i) => Placed(threads[t])'
      BY <1>1, <3>1, <3>2 DEF Placed, Persisting, Killing, W
    <3>. QED BY <1>4, <2>1, <2>7, <3>1, <3>2, <3>3, StopFrame, IdleFields
  <2>. QED BY <2>3, <2>8, <2>9, <2>10, <2>11, <2>12, <2>13, <2>14, <2>15, <2>16, <2>17, <2>18, SMTT(40)
<1>. QED BY <1>3, <1>4

\* What the residents, the system and a restart do to a stop.
LEMMA StopEnviron ==
    ASSUME IInv, SInv, StopsFit, Environment \/ UNCHANGED vars
    PROVE  StopsFit'
<1>1. CASE StudioRestart
  BY <1>1, IdleFields DEF StudioRestart, StopsFit, StopFits
<1>2. ASSUME UNCHANGED <<handles, snapshots, threads>>,
             \A x, w : ServesOnly(x, w) => ServesOnly(x, w)',
             \A x \in Pids : procs'[x].st = "serving" => procs[x].st \in {"starting", "serving"}
      PROVE  StopsFit'
  <2>. SUFFICES ASSUME NEW t \in Threads
                PROVE  StopFits(threads[t])'
    BY DEF StopsFit
  <2>1. PICK j, v : j = threads[t] /\ v = W(j)
    OBVIOUS
  <2>2. StopFits(j) /\ threads'[t] = j
    BY <1>2, <2>1 DEF StopsFit
  <2>. SUFFICES ASSUME j.op = "stop", j.pc # "idle", j.seen # NoPid
                PROVE  StopFits(j)'
    BY <2>2 DEF StopFits
  <2>3. /\ ServesOnly(j.seen, v) /\ (procs[j.seen].st = "serving" => Placed(j))
        /\ j.pc = "persist" /\ j.next = "take" => IsLive(j.rec.phase)
    BY <2>1, <2>2 DEF StopFits
  <2>4. ServesOnly(j.seen, v)'
    BY <1>2, <2>3
  <2>5. procs'[j.seen].st = "serving" => Placed(j)
    BY <1>2, <2>3 DEF ServesOnly, Alive
  <2>6. Placed(j) => Placed(j)'
    BY <1>2 DEF Placed, LiveProjects
  <2>. QED BY <2>1, <2>3, <2>4, <2>5, <2>6 DEF StopFits, W
<1>3. ASSUME Wanes PROVE /\ \A x, w : ServesOnly(x, w) => ServesOnly(x, w)'
                         /\ \A x \in Pids : procs'[x].st = "serving" =>
                                                procs[x].st \in {"starting", "serving"}
  BY <1>3, WaneKeeps DEF Wanes, Alive
<1>4. ASSUME NEW x \in Pids, Bind(x) \/ ExitBusy(x) \/ ReadyLine(x) \/ Die(x) \/ Recycle(x)
      PROVE  StopsFit'
  <2>1. UNCHANGED <<handles, snapshots, threads>>
    BY <1>4 DEF Bind, ExitBusy, ReadyLine, Die, Recycle
  <2>2. \/ Wanes
        \/ /\ procs'[x].st = "serving" /\ procs'[x].ws = procs[x].ws
           /\ procs[x].st \in {"starting", "serving"}
           /\ \A y \in Pids \ {x} : procs'[y] = procs[y]
    BY <1>4, EnvironWanes
  <2>3. CASE /\ procs'[x].st = "serving" /\ procs'[x].ws = procs[x].ws
             /\ procs[x].st \in {"starting", "serving"}
             /\ \A y \in Pids \ {x} : procs'[y] = procs[y]
    <3>1. procs'[x] # NoProc
      BY <2>3, EndFields
    <3>2. \A y, w : ServesOnly(y, w) => ServesOnly(y, w)'
      BY <2>3, <3>1 DEF ServesOnly, Used, Alive
    <3>. QED BY <1>2, <2>1, <2>3, <3>2
  <2>. QED BY <1>2, <1>3, <2>1, <2>2, <2>3
<1>5. CASE UNCHANGED vars
  <2>1. Wanes
    BY <1>5 DEF vars, Wanes
  <2>. QED BY <1>2, <1>3, <1>5, <2>1 DEF vars
<1>. QED BY <1>1, <1>4, <1>5 DEF Environment

\* What a stop relies on, of the resident it was called on.
THEOREM StopsFitHolds == OneCaller /\ Observant => (Spec => []StopsFit)
<1>. SUFFICES ASSUME OneCaller, Observant PROVE Spec => []StopsFit
  OBVIOUS
<1>1. Init => StopsFit
  BY IdleFields DEF Init, StopsFit, StopFits
<1>2. IInv /\ SInv /\ StopsFit /\ [Next]_vars => StopsFit'
  <2>. SUFFICES ASSUME IInv, SInv, StopsFit, [Next]_vars PROVE StopsFit'
    OBVIOUS
  <2>1. ASSUME NEW t \in Threads,
               Step(t) \/ \E op \in OpNames, p \in Projects : Call(t, op, p)
        PROVE  StopsFit'
    <3>1. StopFits(threads[t])'
      BY <2>1, StopStep, StopCalled
    <3>2. \A u \in Threads : u = t
      BY DEF OneCaller
    <3>. QED BY <3>1, <3>2 DEF StopsFit
  <2>. QED BY <2>1, StopEnviron DEF Next
<1>. QED BY <1>1, <1>2, IInvHolds, SInvHolds, PTL DEF Spec

\* When the last live project of a workspace has been stopped, the resident that
\* served it when the stop was called is gone.
THEOREM StopsAct == OneCaller /\ Observant => (Spec => []StopActs)
<1>1. IInv /\ SInv /\ StopsFit => StopActs
  <2>. SUFFICES ASSUME IInv, SInv, StopsFit, NEW t \in Threads,
                       threads[t].op = "stop", threads[t].pc = "persist",
                       threads[t].rec = NoSnapshot, threads[t].seen # NoPid,
                       LiveProjects(Ws(t)) \subseteq {threads[t].project},
                       procs[threads[t].seen].st = "serving"
                PROVE  FALSE
    BY DEF StopActs, At
  <2>1. Placed(threads[t]) /\ ~(threads[t].next = "take" /\ IsLive(NoSnapshot.phase) = FALSE)
    BY DEF StopsFit, StopFits
  <2>2. threads[t].next \in {"idle", "take"}
    BY DEF SInv, CallFits, Control, Persisting, Nexts
  <2>3. threads[t].next = "idle"
    BY <2>1, <2>2 DEF NoSnapshot, IsLive
  <2>. QED BY <2>1, <2>3 DEF Placed, Persisting, W, Ws
<1>. QED BY <1>1, IInvHolds, SInvHolds, StopsFitHolds, PTL

-----------------------------------------------------------------------------
(* The custody of residents, under the mapping of RuntimeManager.            *)

\* What a step may do to one pid, the others left alone, so that it is a step of
\* ResidentCustody or none.
LEMMA CustodySteps ==
    ASSUME NEW x \in Pids,
           \A y \in Pids \ {x} : FateOf(y)' = FateOf(y) /\ (InCustody(y)' <=> InCustody(y)),
           \/ /\ FateOf(x)' = FateOf(x)
              /\ InCustody(x)' \/ ~InCustody(x) \/ FateOf(x) # "running"
           \/ FateOf(x) # "running" /\ FateOf(x)' = "running" /\ InCustody(x)'
           \/ /\ FateOf(x) = "running" /\ FateOf(x)' = "exited"
              /\ InCustody(x)' <=> InCustody(x)
           \/ /\ FateOf(x) \in {"exited", "stopped"} /\ FateOf(x)' = "none"
              /\ InCustody(x)' <=> InCustody(x)
           \/ FateOf(x) = "running" /\ FateOf(x)' = "stopped" /\ InCustody(x)
    PROVE  [Custody!Next]_(Custody!vars)
<1> DEFINE F == [y \in Pids |-> FateOf(y)]
           C == {y \in Pids : InCustody(y)}
<1>1. F' = [F EXCEPT ![x] = FateOf(x)'] /\ F[x] = FateOf(x)
  OBVIOUS
<1>2. /\ FateOf(x)' = FateOf(x) => F' = F
      /\ InCustody(x)' => C' = C \cup {x}
      /\ ~InCustody(x)' => C' = C \ {x}
      /\ (InCustody(x)' <=> InCustody(x)) => C' = C
      /\ x \in C <=> InCustody(x)
  OBVIOUS
<1>3. CASE FateOf(x)' = FateOf(x) /\ InCustody(x)'
  <2>1. Custody!Adopt(x)
    BY <1>2, <1>3 DEF Custody!Adopt
  <2>. QED BY <2>1 DEF Custody!Next
<1>4. CASE FateOf(x)' = FateOf(x) /\ ~InCustody(x) /\ ~InCustody(x)'
  BY <1>2, <1>4 DEF Custody!vars
<1>5. CASE FateOf(x)' = FateOf(x) /\ InCustody(x) /\ ~InCustody(x)' /\ FateOf(x) # "running"
  <2>1. Custody!LetGo(x)
    BY <1>1, <1>2, <1>5 DEF Custody!LetGo
  <2>. QED BY <2>1 DEF Custody!Next
<1>6. CASE FateOf(x) # "running" /\ FateOf(x)' = "running" /\ InCustody(x)'
  <2>1. Custody!Launch(x)
    BY <1>1, <1>2, <1>6 DEF Custody!Launch
  <2>. QED BY <2>1 DEF Custody!Next
<1>7. CASE FateOf(x) = "running" /\ FateOf(x)' = "exited" /\ (InCustody(x)' <=> InCustody(x))
  <2>1. Custody!Exit(x)
    BY <1>1, <1>2, <1>7 DEF Custody!Exit
  <2>. QED BY <2>1 DEF Custody!Next
<1>8. CASE /\ FateOf(x) \in {"exited", "stopped"} /\ FateOf(x)' = "none"
           /\ InCustody(x)' <=> InCustody(x)
  <2>1. Custody!Recycle(x)
    BY <1>1, <1>2, <1>8 DEF Custody!Recycle
  <2>. QED BY <2>1 DEF Custody!Next
<1>9. CASE FateOf(x) = "running" /\ FateOf(x)' = "stopped" /\ InCustody(x)
  <2>1. C' \in {C, C \ {x}}
    BY <1>2, <1>9
  <2>2. Custody!Terminate(x)
    BY <1>1, <1>2, <1>9, <2>1 DEF Custody!Terminate
  <2>. QED BY <2>2 DEF Custody!Next
<1>. QED BY <1>3, <1>4, <1>5, <1>6, <1>7, <1>8, <1>9

\* Nothing in custody changes, and no process does.
LEMMA CustodyStutters ==
    ASSUME \A y \in Pids : FateOf(y)' = FateOf(y) /\ (InCustody(y)' <=> InCustody(y))
    PROVE  [Custody!Next]_(Custody!vars)
  BY DEF Custody!vars

\* What is in custody while calls do not overlap.
LEMMA CallCustody ==
    ASSUME OneCaller, NEW t \in Threads
    PROVE  \A x \in Pids :
              /\ InCustody(x) <=> \/ \E w \in Workspaces : handles[w].pid = x
                                  \/ threads[t].hand.pid = x
              /\ InCustody(x)' <=> \/ \E w \in Workspaces : handles'[w].pid = x
                                   \/ threads'[t].hand.pid = x
<1>1. \A u \in Threads : u = t
  BY DEF OneCaller
<1>. QED BY <1>1 DEF InCustody

\* A step that keeps the pids of the map and of the hand.
LEMMA KeepsCustody ==
    ASSUME OneCaller, NEW t \in Threads, UNCHANGED procs,
           \A w \in Workspaces : handles'[w].pid = handles[w].pid,
           threads'[t].hand = threads[t].hand
    PROVE  [Custody!Next]_(Custody!vars)
<1>1. \A y \in Pids : FateOf(y)' = FateOf(y)
  BY DEF FateOf, Alive
<1>2. \A y \in Pids : InCustody(y)' <=> InCustody(y)
  BY CallCustody
<1>. QED BY <1>1, <1>2, CustodyStutters

\* The frame for Goto.
LEMMA GotoKeepsCustody ==
    ASSUME IInv, SInv, OneCaller, NEW t \in Threads, NEW pc, Goto(t, pc),
           UNCHANGED <<handles, procs>>,
           pc = "idle" => threads[t].pc \notin Holding
    PROVE  [Custody!Next]_(Custody!vars)
<1>1. PICK j : /\ threads' = [threads EXCEPT ![t] = j]
               /\ pc = "idle" => j = IdleThread
               /\ pc # "idle" => MovedTo(threads[t], j, pc)
  BY GotoMoves
<1>2. threads'[t] = j
  BY <1>1, CallFacts
<1>3. threads[t].pc \notin Holding => threads[t].hand = NoHandle
  BY CallFacts DEF CallFits, Control
<1>4. j.hand = threads[t].hand
  BY <1>1, <1>3, IdleFields DEF MovedTo
<1>. QED BY <1>2, <1>4, KeepsCustody

\* The hand lets go of a pid whose process has ended, or that it ends.
LEMMA HandLetsGo ==
    ASSUME IInv, OneCaller, NEW t \in Threads, NEW x \in Pids, threads[t].hand.pid = x,
           UNCHANGED handles, threads'[t].hand = NoHandle,
           \A y \in Pids \ {x} : procs'[y] = procs[y],
           ~Alive(x)',
           procs'[x].ended = IF Alive(x) THEN "stopped" ELSE procs[x].ended
    PROVE  [Custody!Next]_(Custody!vars)
<1>1. \A y \in Pids \ {x} : FateOf(y)' = FateOf(y)
  BY DEF FateOf, Alive
<1>2. \A y \in Pids \ {x} : InCustody(y)' <=> InCustody(y)
  BY CallCustody, RuntimeManagerAssumption DEF NoHandle
<1>3. InCustody(x)
  BY CallCustody
<1>4. \/ FateOf(x)' = FateOf(x) /\ (~Alive(x))
      \/ FateOf(x) = "running" /\ FateOf(x)' = "stopped"
  BY DEF FateOf
<1>5. ~Alive(x) => FateOf(x) # "running"
  BY DEF FateOf, IInv, TypeOK, Proc
<1>6. CASE ~Alive(x) /\ FateOf(x)' = FateOf(x)
  BY <1>1, <1>2, <1>5, <1>6, CustodySteps
<1>7. CASE FateOf(x) = "running" /\ FateOf(x)' = "stopped"
  BY <1>1, <1>2, <1>3, <1>7, CustodySteps
<1>. QED BY <1>4, <1>6, <1>7

\* A dead resident is taken out of the map.
LEMMA ReapLetsGo ==
    ASSUME IInv, SInv, OneCaller, NEW t \in Threads, NEW rec, NEW next,
           handles[Ws(t)] # NoHandle, IsDead(handles[Ws(t)]),
           handles' = [handles EXCEPT ![Ws(t)] = NoHandle],
           procs' = Reaped(handles[Ws(t)]),
           Persist(t, rec, next)
    PROVE  [Custody!Next]_(Custody!vars)
<1>1. PICK w, h : w = Ws(t) /\ h = handles[w]
  OBVIOUS
<1>2. PICK x : x = h.pid
  OBVIOUS
<1>3. w \in Workspaces /\ h \in Handle /\ h # NoHandle /\ x \in Pids /\ procs \in [Pids -> Proc]
      /\ handles \in [Workspaces -> Handle] /\ IsDead(h)
  BY <1>1, <1>2, CallFacts, HandlesUsed
<1>4. handles'[w].pid \notin Pids /\ \A v \in Workspaces \ {w} : handles'[v] = handles[v]
  BY <1>1, <1>3, RuntimeManagerAssumption DEF NoHandle
<1>5. threads'[t].hand = threads[t].hand
  BY PersistMoves
<1>6. ~Alive(x)
  BY <1>2, <1>3 DEF IsDead, Alive
<1>7. /\ \A y \in Pids \ {x} : procs'[y] = procs[y]
      /\ ~Alive(x)' /\ procs'[x].ended = procs[x].ended
  <2>1. CASE h.kind = "Owned"
    <3>1. procs' = [procs EXCEPT ![x] = Freed(x)]
      BY <1>1, <1>2, <2>1 DEF Reaped
    <3>. QED BY <1>3, <3>1, EndFields DEF Alive
  <2>2. CASE h.kind # "Owned"
    BY <1>1, <1>6, <2>2 DEF Reaped, Alive
  <2>. QED BY <2>1, <2>2
<1>8. \A y \in Pids : FateOf(y)' = FateOf(y)
  BY <1>6, <1>7 DEF FateOf, Alive
<1>9. \A y \in Pids \ {x} : InCustody(y)' <=> InCustody(y)
  BY <1>1, <1>2, <1>3, <1>4, <1>5, CallCustody
<1>10. FateOf(x) # "running"
  BY <1>3, <1>6 DEF FateOf, Proc
<1>. QED BY <1>3, <1>8, <1>9, <1>10, CustodySteps

\* What a start does.
LEMMA StartKeepsCustody ==
    ASSUME IInv, SInv, OneCaller, NEW t \in Threads,
           CommandSpecFor(t) \/ TryJoin(t) \/ Spawn(t) \/ OwnSpawned(t)
    PROVE  [Custody!Next]_(Custody!vars)
<1> DEFINE i == threads[t]
<1>0. /\ CallFits(i) /\ i \in Thread /\ threads \in [Threads -> Thread] /\ W(i) = Ws(t)
      /\ Ws(t) \in Workspaces /\ handles \in [Workspaces -> Handle] /\ procs \in [Pids -> Proc]
      /\ i.op \in OpNames
  BY CallFacts
<1>1. CASE CommandSpecFor(t)
  <2> DEFINE j == [i EXCEPT !.pc = "join", !.consent = NoOtherWorkspaceRunning(Ws(t))]
  <2>1. threads'[t] = j /\ j.hand = i.hand /\ UNCHANGED <<handles, procs>>
    BY <1>0, <1>1 DEF CommandSpecFor, Thread
  <2>. HIDE DEF j
  <2>. QED BY <2>1, KeepsCustody
<1>2. CASE TryJoin(t)
  <2>1. i.pc \in {"join", "rejoin"}
    BY <1>2 DEF TryJoin
  <2>2. CASE Goto(t, AfterNoJoin(t)) /\ UNCHANGED <<handles, procs>>
    BY <2>1, <2>2, GotoKeepsCustody DEF Holding
  <2>3. CASE /\ handles[Ws(t)] # NoHandle /\ IsDead(handles[Ws(t)])
             /\ handles' = [handles EXCEPT ![Ws(t)] = NoHandle]
             /\ procs' = Reaped(handles[Ws(t)])
             /\ Persist(t, Record("Failed", NoPid), AfterNoJoin(t))
    BY <2>3, ReapLetsGo
  <2>4. ASSUME NEW rec, NEW next, Persist(t, rec, next), Join(t), UNCHANGED procs,
               handles[Ws(t)] # NoHandle
        PROVE  [Custody!Next]_(Custody!vars)
    <3>1. threads'[t].hand = i.hand
      BY <2>4, PersistMoves
    <3>2. PICK w, h : w = Ws(t) /\ h = handles[w]
      OBVIOUS
    <3>3. h \in [pid : Pids, kind : {"Owned", "Adopted"}, members : SUBSET Projects]
      BY <1>0, <2>4, <3>2 DEF Handle
    <3>4. handles' = [handles EXCEPT ![w] = [h EXCEPT !.members = @ \cup {i.project}]]
      BY <1>0, <2>4, <3>2 DEF Join
    <3>5. [h EXCEPT !.members = @ \cup {i.project}].pid = h.pid
      BY <3>3
    <3>6. \A v \in Workspaces : handles'[v].pid = handles[v].pid
      BY <1>0, <3>2, <3>4, <3>5
    <3>. QED BY <2>4, <3>1, <3>6, KeepsCustody
  <2>. QED BY <1>2, <2>2, <2>3, <2>4 DEF TryJoin, Join
<1>3. CASE Spawn(t)
  <2>1. i.pc = "spawn" /\ i.hand = NoHandle /\ UNCHANGED handles
    BY <1>0, <1>3 DEF Spawn, At, CallFits, Control, Holding
  <2>2. CASE Goto(t, "idle") /\ UNCHANGED procs
    BY <2>1, <2>2, GotoKeepsCustody DEF Holding
  <2>3. ASSUME NEW x \in Pids, procs[x] = NoProc,
               procs' = [procs EXCEPT ![x] =
                           [st |-> "starting", ws |-> Ws(t), child |-> TRUE, ready |-> FALSE,
                            consent |-> i.consent, ended |-> "none"]],
               threads' = [threads EXCEPT ![t] =
                             [@ EXCEPT !.pc = "own",
                                       !.hand = [pid |-> x, kind |-> "Owned", members |-> {}]]]
        PROVE  [Custody!Next]_(Custody!vars)
    <3> DEFINE j == [i EXCEPT !.pc = "own",
                              !.hand = [pid |-> x, kind |-> "Owned", members |-> {}]]
    <3>1. threads'[t] = j /\ j.hand.pid = x
      BY <1>0, <2>3 DEF Thread
    <3>. HIDE DEF j
    <3>2. procs'[x].st = "starting" /\ \A y \in Pids \ {x} : procs'[y] = procs[y]
      BY <1>0, <2>3
    <3>3. FateOf(x) = "none" /\ FateOf(x)' = "running"
      BY <2>3, <3>2, EndFields DEF FateOf, Alive
    <3>4. \A y \in Pids \ {x} : FateOf(y)' = FateOf(y)
      BY <3>2 DEF FateOf, Alive
    <3>5. InCustody(x)' /\ \A y \in Pids \ {x} : InCustody(y)' <=> InCustody(y)
      BY <2>1, <3>1, CallCustody, RuntimeManagerAssumption DEF NoHandle
    <3>. QED BY <3>3, <3>4, <3>5, CustodySteps
  <2>. QED BY <1>3, <2>2, <2>3 DEF Spawn
<1>4. CASE OwnSpawned(t)
  <2>1. /\ i.pc = "own" /\ UNCHANGED procs
        /\ handles' = [handles EXCEPT ![Ws(t)] = [pid |-> i.hand.pid, kind |-> "Owned",
                                                  members |-> {i.project}]]
    BY <1>4 DEF OwnSpawned, At
  <2>2. handles[Ws(t)].pid \notin Pids
    BY <1>0, <2>1, RuntimeManagerAssumption DEF CallFits, Control, Unmanaged, NoHandle
  <2>3. /\ handles'[Ws(t)].pid = i.hand.pid
        /\ \A v \in Workspaces \ {Ws(t)} : handles'[v] = handles[v]
    BY <1>0, <2>1
  <2> DEFINE j == [i EXCEPT !.pc = "persist", !.rec = Record("Starting", i.hand.pid),
                            !.next = "idle", !.hand = NoHandle]
  <2>4. threads'[t] = j /\ j.hand.pid = NoPid
    BY <1>0, <1>4 DEF OwnSpawned, Thread, NoHandle
  <2>. HIDE DEF j
  <2>5. \A y \in Pids : FateOf(y)' = FateOf(y)
    BY <2>1 DEF FateOf, Alive
  <2>6. \A y \in Pids : InCustody(y)' <=> InCustody(y)
    <3>1. \A y \in Pids : InCustody(y)' <=> \E w \in Workspaces : handles'[w].pid = y
      BY <2>4, CallCustody, RuntimeManagerAssumption
    <3>. QED BY <1>0, <2>2, <2>3, <3>1, CallCustody
  <2>. QED BY <2>5, <2>6, CustodyStutters
<1>. QED BY <1>1, <1>2, <1>3, <1>4

\* What an adoption and a status read do.
LEMMA AdoptKeepsCustody ==
    ASSUME IInv, SInv, OneCaller, NEW t \in Threads,
           \/ AdoptContains(t) \/ AdoptProbe(t) \/ AdoptDiscover(t) \/ AdoptInsert(t)
           \/ TryJoinReadonly(t) \/ ExpectedUp(t) \/ AnswerFromSnapshot(t)
    PROVE  [Custody!Next]_(Custody!vars)
<1> DEFINE i == threads[t]
<1>0. /\ CallFits(i) /\ i \in Thread /\ threads \in [Threads -> Thread] /\ W(i) = Ws(t)
      /\ Ws(t) \in Workspaces /\ handles \in [Workspaces -> Handle] /\ procs \in [Pids -> Proc]
      /\ i.op \in OpNames
  BY CallFacts
<1>1. CASE AdoptContains(t) \/ AdoptProbe(t) \/ ExpectedUp(t) \/ AnswerFromSnapshot(t)
  <2>1. i.pc \notin Holding /\ (\E pc : Goto(t, pc)) /\ UNCHANGED <<handles, procs>>
    BY <1>1 DEF AdoptContains, AdoptProbe, ExpectedUp, AnswerFromSnapshot, At, Holding
  <2>. QED BY <2>1, GotoKeepsCustody
<1>2. CASE AdoptDiscover(t)
  <2>1. UNCHANGED <<handles, procs>>
    BY <1>2 DEF AdoptDiscover
  <2>2. threads'[t].hand = i.hand
    <3>1. CASE Persist(t, Record("Running", NoPid), AfterAdopted(i.op))
      BY <3>1, PersistMoves
    <3>2. ASSUME NEW x, Discovered(t, x) PROVE threads'[t].hand = i.hand
      <4> DEFINE j == [i EXCEPT !.pc = "insert", !.found = x, !.members = AdoptMembers(t)]
      <4>1. threads'[t] = j /\ j.hand = i.hand
        BY <1>0, <3>2 DEF Discovered, Thread
      <4>. HIDE DEF j
      <4>. QED BY <4>1
    <3>. QED BY <1>2, <3>1, <3>2 DEF AdoptDiscover
  <2>. QED BY <2>1, <2>2, KeepsCustody
<1>3. CASE AdoptInsert(t)
  <2>1. i.pc = "insert" /\ i.op \in {"start", "stop", "status"} /\ handles[Ws(t)] = NoHandle
    BY <1>0, <1>3 DEF AdoptInsert, At, CallFits, Control, Path, Persisting, OpNames, Unmanaged
  <2>2. PICK x : x = i.found
    OBVIOUS
  <2>3. x \in Pids
    BY <1>0, <2>1, <2>2 DEF CallFits, Processes, ServesOnly
  <2>4. InsertAdopted(t) /\ UNCHANGED procs
    BY <1>3, <2>1 DEF AdoptInsert
  <2>5. handles'[Ws(t)].pid = x /\ \A v \in Workspaces \ {Ws(t)} : handles'[v] = handles[v]
    BY <1>0, <2>2, <2>4 DEF InsertAdopted
  <2> DEFINE j == [i EXCEPT !.pc = "persist", !.rec = Record("Running", i.found),
                            !.next = AfterAdopted(i.op), !.found = NoPid, !.members = {}]
  <2>6. threads'[t] = j /\ j.hand = i.hand
    BY <1>0, <2>4 DEF InsertAdopted, Thread
  <2>. HIDE DEF j
  <2>7. \A y \in Pids : FateOf(y)' = FateOf(y)
    BY <2>4 DEF FateOf, Alive
  <2>8. handles[Ws(t)].pid \notin Pids
    BY <2>1, RuntimeManagerAssumption DEF NoHandle
  <2>9. InCustody(x)' /\ \A y \in Pids \ {x} : InCustody(y)' <=> InCustody(y)
    BY <1>0, <2>3, <2>5, <2>6, <2>8, CallCustody
  <2>. QED BY <2>3, <2>7, <2>9, CustodySteps
<1>4. CASE TryJoinReadonly(t)
  <2>1. CASE (\E pc : Goto(t, pc)) /\ UNCHANGED <<handles, procs>>
    BY <1>4, <2>1, GotoKeepsCustody DEF TryJoinReadonly, At, Holding
  <2>2. CASE /\ handles[Ws(t)] # NoHandle /\ IsDead(handles[Ws(t)])
             /\ handles' = [handles EXCEPT ![Ws(t)] = NoHandle]
             /\ procs' = Reaped(handles[Ws(t)])
             /\ Persist(t, Record("Failed", NoPid), "expected")
    BY <2>2, ReapLetsGo
  <2>. QED BY <1>4, <2>1, <2>2 DEF TryJoinReadonly
<1>. QED BY <1>1, <1>2, <1>3, <1>4

\* What leaving, stopping and removing do before a process is killed.
LEMMA LeaveKeepsCustody ==
    ASSUME IInv, SInv, OneCaller, NEW t \in Threads,
           \/ StopLeave(t) \/ StopWorkspaceTake(t) \/ RemoveFind(t) \/ RemoveLeave(t)
           \/ RemoveForget(t) \/ MarkStopped(t)
    PROVE  [Custody!Next]_(Custody!vars)
<1> DEFINE i == threads[t]
<1>0. /\ CallFits(i) /\ i \in Thread /\ threads \in [Threads -> Thread] /\ W(i) = Ws(t)
      /\ Ws(t) \in Workspaces /\ handles \in [Workspaces -> Handle] /\ procs \in [Pids -> Proc]
      /\ i.op \in OpNames
  BY CallFacts
<1>1. i.pc \notin Holding /\ i.hand = NoHandle /\ UNCHANGED procs
  BY <1>0 DEF StopLeave, StopWorkspaceTake, RemoveFind, RemoveLeave, RemoveForget, MarkStopped, At,
              Holding, CallFits, Control
<1>2. CASE (\E pc : Goto(t, pc)) /\ UNCHANGED handles
  BY <1>1, <1>2, GotoKeepsCustody
<1>3. ASSUME NothingToKill(t), \A w \in Workspaces : handles'[w].pid = handles[w].pid
      PROVE  [Custody!Next]_(Custody!vars)
  <2> DEFINE j == [i EXCEPT !.pc = AfterKill(i.op), !.rec = NoSnapshot, !.next = "idle"]
  <2>1. threads'[t] = j /\ j.hand = i.hand
    BY <1>0, <1>3 DEF NothingToKill, Thread
  <2>. HIDE DEF j
  <2>. QED BY <1>1, <1>3, <2>1, KeepsCustody
<1>4. ASSUME handles[Ws(t)] # NoHandle, TakeOut(t, Ws(t), handles[Ws(t)])
      PROVE  [Custody!Next]_(Custody!vars)
  <2>1. PICK w, h : w = Ws(t) /\ h = handles[w]
    OBVIOUS
  <2>2. h \in [pid : Pids, kind : {"Owned", "Adopted"}, members : SUBSET Projects]
    BY <1>0, <1>4, <2>1 DEF Handle
  <2> DEFINE j == [i EXCEPT !.pc = IF h.kind = "Owned" THEN "kill" ELSE "verify",
                            !.hand = [h EXCEPT !.members = {}],
                            !.members = IF i.op = "stopWs" THEN h.members ELSE {},
                            !.rec = NoSnapshot, !.next = "idle"]
  <2>3. threads'[t] = j /\ j.hand = [h EXCEPT !.members = {}]
    BY <1>0, <1>4, <2>1 DEF TakeOut, Thread
  <2>. HIDE DEF j
  <2>4. threads'[t].hand.pid = h.pid
    BY <2>2, <2>3
  <2>5. /\ handles'[w].pid = NoPid
        /\ \A v \in Workspaces \ {w} : handles'[v] = handles[v]
    BY <1>0, <1>4, <2>1 DEF TakeOut, NoHandle
  <2>6. i.hand.pid = NoPid
    BY <1>1 DEF NoHandle
  <2>7. \A y \in Pids : FateOf(y)' = FateOf(y)
    BY <1>1 DEF FateOf, Alive
  <2>8. \A y \in Pids : InCustody(y)' <=> InCustody(y)
    BY <1>0, <2>1, <2>4, <2>5, <2>6, CallCustody, RuntimeManagerAssumption
  <2>. QED BY <2>7, <2>8, CustodyStutters
<1>5. CASE RemoveForget(t)
  <2> DEFINE j == [i EXCEPT !.pc = "open", !.copy = snapshots']
  <2>1. threads'[t] = j /\ j.hand = i.hand /\ UNCHANGED handles
    BY <1>0, <1>5 DEF RemoveForget, Thread
  <2>. HIDE DEF j
  <2>. QED BY <1>1, <2>1, KeepsCustody
<1>6. CASE MarkStopped(t)
  <2>1. ASSUME NEW p, threads' = [threads EXCEPT ![t] =
                          [@ EXCEPT !.members = i.members \ {p}, !.project = p,
                                    !.pc = "persist", !.rec = NoSnapshot, !.next = "mark"]]
        PROVE  threads'[t].hand = i.hand
    <3> DEFINE j == [i EXCEPT !.members = i.members \ {p}, !.project = p,
                              !.pc = "persist", !.rec = NoSnapshot, !.next = "mark"]
    <3>1. threads'[t] = j /\ j.hand = i.hand
      BY <1>0, <2>1 DEF Thread
    <3>. HIDE DEF j
    <3>. QED BY <3>1
  <2>2. ASSUME NEW p, threads' = [threads EXCEPT ![t] = [@ EXCEPT !.members = i.members \ {p}]]
        PROVE  threads'[t].hand = i.hand
    <3> DEFINE j == [i EXCEPT !.members = i.members \ {p}]
    <3>1. threads'[t] = j /\ j.hand = i.hand
      BY <1>0, <2>2, SMTT(40) DEF Thread
    <3>. HIDE DEF j
    <3>. QED BY <3>1
  <2>3. threads'[t].hand = i.hand \/ Goto(t, "idle")
    BY <1>6, <2>1, <2>2, ZenonT(60) DEF MarkStopped
  <2>4. UNCHANGED handles
    BY <1>6 DEF MarkStopped
  <2>. QED BY <1>1, <1>2, <2>3, <2>4, KeepsCustody
<1>7. CASE Leave(t, Ws(t))
  <2>1. CASE /\ handles[Ws(t)] # NoHandle
             /\ handles' = [handles EXCEPT ![Ws(t)].members =
                              handles[Ws(t)].members \ {i.project}]
             /\ NothingToKill(t)
    <3>1. PICK w, h, rest : w = Ws(t) /\ h = handles[w] /\ rest = h.members \ {i.project}
      OBVIOUS
    <3>2. h \in [pid : Pids, kind : {"Owned", "Adopted"}, members : SUBSET Projects]
      BY <1>0, <2>1, <3>1 DEF Handle
    <3>3. handles' = [handles EXCEPT ![w] = [h EXCEPT !.members = rest]]
      BY <1>0, <2>1, <3>1
    <3>4. [h EXCEPT !.members = rest].pid = h.pid
      BY <3>2
    <3>5. \A v \in Workspaces : handles'[v].pid = handles[v].pid
      BY <1>0, <3>1, <3>3, <3>4
    <3>. QED BY <1>3, <2>1, <3>5
  <2>. QED BY <1>3, <1>4, <1>7, <2>1 DEF Leave
<1>. QED BY <1>2, <1>4, <1>5, <1>6, <1>7
         DEF StopLeave, StopWorkspaceTake, RemoveFind, RemoveLeave

\* What Released does to the hand.
LEMMA ReleasedHand ==
    ASSUME IInv, NEW t \in Threads, Released(t) PROVE threads'[t].hand = NoHandle
<1>1. PICK j : threads' = [threads EXCEPT ![t] = j] /\ j.hand = NoHandle
  BY ReleasedMoves
<1>. QED BY <1>1 DEF IInv, TypeOK

\* What is done to the process in the hand: it is let go of when it is ended, or
\* was found gone.
LEMMA KillKeepsCustody ==
    ASSUME IInv, SInv, OneCaller, Observant, NEW t \in Threads,
           KillOwned(t) \/ VerifyListener(t) \/ VerifyAnswers(t) \/ SignalPid(t)
    PROVE  [Custody!Next]_(Custody!vars)
<1> DEFINE i == threads[t]
<1>0. /\ CallFits(i) /\ i \in Thread /\ threads \in [Threads -> Thread] /\ W(i) = Ws(t)
      /\ Ws(t) \in Workspaces /\ procs \in [Pids -> Proc] /\ i.op \in OpNames
      /\ UNCHANGED handles
  BY CallFacts DEF KillOwned, VerifyListener, VerifyAnswers, SignalPid
<1>1. PICK x : x = i.hand.pid
  OBVIOUS
<1>2. i.pc \in {"verify", "answers", "signal"} => i.hand.kind = "Adopted"
  BY DEF IInv, KillsAreSafe, LocalsFitPc
<1>3. i.pc \in {"verify", "answers", "signal"} => x \in Pids /\ ServesOnly(x, Ws(t))
  BY <1>0, <1>1, <1>2 DEF CallFits, Processes, ServesOnly
<1>4. ASSUME x \in Pids, ~Alive(x), UNCHANGED procs, threads'[t].hand = NoHandle
      PROVE  [Custody!Next]_(Custody!vars)
  BY <1>0, <1>1, <1>4, HandLetsGo DEF Alive
<1>5. CASE KillOwned(t)
  <2>1. Released(t) /\ x \in Pids /\ procs'[x].st = "free"
    BY <1>1, <1>5, KillWanes
  <2>2. procs' = [procs EXCEPT ![x] = IF Alive(x) THEN [NoProc EXCEPT !.ended = "stopped"]
                                      ELSE Freed(x)]
    BY <1>1, <1>5 DEF KillOwned
  <2>3. procs'[x].ended = IF Alive(x) THEN "stopped" ELSE procs[x].ended
    BY <1>0, <2>1, <2>2, EndFields DEF NoProc
  <2>4. \A y \in Pids \ {x} : procs'[y] = procs[y]
    BY <1>0, <2>2
  <2>5. ~Alive(x)'
    BY <2>1 DEF Alive
  <2>. QED BY <1>0, <1>1, <2>1, <2>3, <2>4, <2>5, ReleasedHand, HandLetsGo
<1>6. CASE VerifyListener(t)
  <2>1. i.pc = "verify" /\ UNCHANGED procs
    BY <1>6 DEF VerifyListener, At
  <2>2. CASE Goto(t, "answers")
    BY <1>0, <2>1, <2>2, GotoKeepsCustody
  <2>3. ASSUME NEW y \in Listeners(Ws(t)), y # x, Released(t)
        PROVE  ~Alive(x)
    <3>1. SUFFICES ASSUME Alive(x) PROVE FALSE
      OBVIOUS
    <3>2. x \in Serving(Ws(t))
      BY <1>3, <2>1, <3>1 DEF ServesOnly, Serving
    <3>3. y \in Serving(Ws(t))
      BY <2>3, <3>2 DEF Listeners, Observant
    <3>. QED BY <2>3, <3>2, <3>3 DEF Serving, SInv, Residents, OneServing
  <2>4. Goto(t, "answers") \/ \E y \in Listeners(Ws(t)) : y # x /\ Released(t)
    BY <1>1, <1>6 DEF VerifyListener
  <2>. QED BY <1>3, <1>4, <2>1, <2>2, <2>3, <2>4, ReleasedHand
<1>7. CASE VerifyAnswers(t)
  <2>1. i.pc = "answers" /\ UNCHANGED procs
    BY <1>7 DEF VerifyAnswers, At
  <2>2. CASE Goto(t, "signal")
    BY <1>0, <2>1, <2>2, GotoKeepsCustody
  <2>3. ASSUME FALSE \in Answers(Ws(t)) PROVE ~Alive(x)
    BY <1>3, <2>1, <2>3 DEF ServesOnly, Serving, Answers, Observant
  <2>4. Goto(t, "signal") \/ (FALSE \in Answers(Ws(t)) /\ Released(t))
    <3>1. \A a \in Answers(Ws(t)) : a \in BOOLEAN
      BY DEF Answers
    <3>. QED BY <1>7, <3>1, Zenon DEF VerifyAnswers
  <2>. QED BY <1>3, <1>4, <2>1, <2>2, <2>3, <2>4, ReleasedHand
<1>8. CASE SignalPid(t)
  <2>1. i.pc = "signal"
    BY <1>8 DEF SignalPid, At
  <2>2. x \in Pids /\ procs[x].st # "stranger"
    BY <1>1, <1>3, <2>1 DEF IInv, KillsAreSafe, LocalsFitPc
  <2>3. CASE procs[x].st = "free" /\ UNCHANGED procs /\ (Released(t) \/ Goto(t, "idle"))
    <3>1. Goto(t, "idle") => threads'[t].hand = NoHandle
      BY <1>0, IdleFields DEF Goto
    <3>. QED BY <1>4, <2>2, <2>3, <3>1, ReleasedHand DEF Alive
  <2>4. CASE procs[x].st = "zombie" /\ Released(t)
             /\ procs' = [procs EXCEPT ![x] = procs[x]]
    <3>1. UNCHANGED procs
      BY <1>0, <2>4
    <3>. QED BY <1>4, <2>2, <2>4, <3>1, ReleasedHand DEF Alive
  <2>5. CASE procs[x].st \notin {"free", "zombie"} /\ Released(t)
             /\ procs' = [procs EXCEPT ![x] = Ended(x, "stopped")]
    <3>1. Alive(x)
      BY <1>0, <2>2, <2>5 DEF Proc, ProcStates, Alive
    <3>2. procs'[x] = Ended(x, "stopped") /\ \A y \in Pids \ {x} : procs'[y] = procs[y]
      BY <1>0, <2>2, <2>5
    <3>3. procs'[x].ended = "stopped" /\ ~Alive(x)'
      BY <3>2 DEF Ended, NoProc, Alive
    <3>. QED BY <1>0, <1>1, <2>2, <2>5, <3>1, <3>2, <3>3, ReleasedHand, HandLetsGo
  <2>. QED BY <1>1, <1>8, <2>3, <2>4, <2>5 DEF SignalPid
<1>. QED BY <1>5, <1>6, <1>7, <1>8

\* What persist_snapshot does.
LEMMA PersistKeepsCustody ==
    ASSUME IInv, SInv, OneCaller, NEW t \in Threads,
           PersistMemory(t) \/ OpenStateFile(t) \/ WriteStateFile(t)
    PROVE  [Custody!Next]_(Custody!vars)
<1> DEFINE i == threads[t]
<1>0. /\ i \in Thread /\ threads \in [Threads -> Thread] /\ UNCHANGED <<handles, procs>>
      /\ CallFits(i)
  BY CallFacts DEF PersistMemory, OpenStateFile, WriteStateFile
<1>1. CASE PersistMemory(t)
  <2> DEFINE j == [i EXCEPT !.pc = "open", !.copy = snapshots']
  <2>1. threads'[t] = j /\ j.hand = i.hand
    BY <1>0, <1>1 DEF PersistMemory, Thread
  <2>. HIDE DEF j
  <2>. QED BY <1>0, <2>1, KeepsCustody
<1>2. CASE OpenStateFile(t)
  <2>1. Goto(t, "write")
    BY <1>2 DEF OpenStateFile
  <2>. QED BY <1>0, <2>1, GotoKeepsCustody
<1>3. CASE WriteStateFile(t)
  <2>1. i.pc \notin Holding
    BY <1>3 DEF WriteStateFile, Holding
  <2>2. i.hand = NoHandle
    BY <1>0, <2>1 DEF CallFits, Control
  <2>3. threads'[t].hand = i.hand
    BY <1>3, <2>2, WriteMoves, IdleFields
  <2>. QED BY <1>0, <2>3, KeepsCustody
<1>. QED BY <1>1, <1>2, <1>3

\* Residents come up, end and lose their pid; Studio ends.
LEMMA EnvironKeepsCustody ==
    ASSUME IInv, SInv, Environment
    PROVE  [Custody!Next]_(Custody!vars)
<1>0. procs \in [Pids -> Proc]
  BY DEF IInv, TypeOK
<1>1. ASSUME NEW x \in Pids, NEW p, procs' = [procs EXCEPT ![x] = p],
             UNCHANGED <<handles, threads>>
      PROVE  /\ procs'[x] = p
             /\ \A y \in Pids \ {x} : FateOf(y)' = FateOf(y) /\ (InCustody(y)' <=> InCustody(y))
             /\ InCustody(x)' <=> InCustody(x)
  BY <1>0, <1>1 DEF FateOf, InCustody, Alive
<1>2. ASSUME NEW x \in Pids, Bind(x) \/ ReadyLine(x)
      PROVE  [Custody!Next]_(Custody!vars)
  <2>1. PICK p : /\ procs' = [procs EXCEPT ![x] = p] /\ UNCHANGED <<handles, threads>>
                 /\ p.st = "serving" /\ p.ended = procs[x].ended
    <3>1. CASE Bind(x)
      <4>1. [procs[x] EXCEPT !.st = "serving"].st = "serving"
            /\ [procs[x] EXCEPT !.st = "serving"].ended = procs[x].ended
        BY <1>0 DEF Proc
      <4>. QED BY <1>0, <3>1, <4>1 DEF Bind
    <3>2. CASE ReadyLine(x)
      <4>1. [procs[x] EXCEPT !.ready = TRUE].st = procs[x].st
            /\ [procs[x] EXCEPT !.ready = TRUE].ended = procs[x].ended
        BY <1>0 DEF Proc
      <4>. QED BY <1>0, <3>2, <4>1 DEF ReadyLine
    <3>. QED BY <1>2, <3>1, <3>2
  <2>2. Alive(x)
    BY <1>2 DEF Bind, ReadyLine, Alive
  <2>3. FateOf(x)' = FateOf(x)
    BY <1>1, <2>1, <2>2 DEF FateOf, Alive
  <2>. QED BY <1>1, <2>1, <2>3, CustodySteps
<1>3. ASSUME NEW x \in Pids, ExitBusy(x) \/ Die(x)
      PROVE  [Custody!Next]_(Custody!vars)
  <2>1. Alive(x) /\ procs' = [procs EXCEPT ![x] = Ended(x, "exited")]
        /\ UNCHANGED <<handles, threads>>
    BY <1>3 DEF ExitBusy, Die, Alive
  <2>2. Ended(x, "exited").st \notin {"starting", "serving"} /\ Ended(x, "exited").ended = "exited"
    BY DEF Ended, NoProc
  <2>3. FateOf(x) = "running" /\ FateOf(x)' = "exited"
    BY <1>1, <2>1, <2>2 DEF FateOf, Alive
  <2>. QED BY <1>1, <2>1, <2>3, CustodySteps
<1>4. ASSUME NEW x \in Pids, Recycle(x)
      PROVE  [Custody!Next]_(Custody!vars)
  <2>1. ~Alive(x) /\ procs' = [procs EXCEPT ![x] = [NoProc EXCEPT !.st = "stranger"]]
        /\ UNCHANGED <<handles, threads>>
    BY <1>4 DEF Recycle, Alive
  <2>2. /\ [NoProc EXCEPT !.st = "stranger"].st = "stranger"
        /\ [NoProc EXCEPT !.st = "stranger"].ended = "none"
    BY DEF NoProc
  <2>3. FateOf(x)' = "none" /\ FateOf(x) = procs[x].ended
    BY <1>1, <2>1, <2>2 DEF FateOf, Alive
  <2>4. FateOf(x) \in {"none", "exited", "stopped"}
    BY <1>0, <2>3 DEF Proc
  <2>. QED BY <1>1, <2>1, <2>3, <2>4, CustodySteps
<1>5. CASE StudioRestart
  <2>1. /\ \A w \in Workspaces : handles'[w] = NoHandle
        /\ \A t \in Threads : threads'[t] = IdleThread
        /\ \A x \in Pids : procs'[x] = IF procs[x].st = "zombie" THEN Freed(x)
                                       ELSE [procs[x] EXCEPT !.child = FALSE]
    BY <1>5 DEF StudioRestart
  <2>2. {x \in Pids : InCustody(x)}' = {}
    BY <2>1, IdleFields, RuntimeManagerAssumption DEF InCustody, NoHandle
  <2>3. ASSUME NEW x \in Pids PROVE FateOf(x)' = FateOf(x)
    <3>1. CASE procs[x].st = "zombie"
      <4>1. procs'[x] = Freed(x)
        BY <2>1, <3>1
      <4>2. procs'[x].st = "free" /\ procs'[x].ended = procs[x].ended
        BY <4>1, EndFields
      <4>. QED BY <3>1, <4>2 DEF FateOf, Alive
    <3>2. CASE procs[x].st # "zombie"
      <4>1. procs[x] \in Proc
        BY <1>0
      <4>2. procs'[x].st = procs[x].st /\ procs'[x].ended = procs[x].ended
        BY <2>1, <3>2, <4>1 DEF Proc
      <4>. QED BY <4>2 DEF FateOf, Alive
    <3>. QED BY <3>1, <3>2
  <2>4. Custody!End
    BY <2>2, <2>3 DEF Custody!End
  <2>. QED BY <2>4 DEF Custody!Next
<1>. QED BY <1>2, <1>3, <1>4, <1>5 DEF Environment

\* Every step is one of ResidentCustody, or none.
LEMMA CustodyStep ==
    ASSUME IInv, SInv, OneCaller, Observant, [Next]_vars
    PROVE  [Custody!Next]_(Custody!vars)
<1>1. ASSUME NEW t \in Threads, NEW op \in OpNames, NEW p \in Projects, Call(t, op, p)
      PROVE  [Custody!Next]_(Custody!vars)
  <2> DEFINE j == [IdleThread EXCEPT !.pc = FirstPc(op), !.op = op, !.project = p,
                     !.seen = IF op = "stop" THEN Findable(WorkspaceOf[p]) ELSE NoPid]
  <2>1. threads' = [threads EXCEPT ![t] = j] /\ threads[t].pc = "idle"
        /\ UNCHANGED <<handles, procs>>
    BY <1>1 DEF Call, At
  <2>2. j.hand = NoHandle
    BY IdleFields DEF IdleThread
  <2>. HIDE DEF j
  <2>3. threads[t].hand = NoHandle /\ threads'[t] = j
    BY <2>1, CallFacts DEF CallFits, Control, Holding
  <2>. QED BY <2>1, <2>2, <2>3, KeepsCustody
<1>2. ASSUME NEW t \in Threads, Step(t) PROVE [Custody!Next]_(Custody!vars)
  BY <1>2, StartKeepsCustody, AdoptKeepsCustody, LeaveKeepsCustody, KillKeepsCustody,
     PersistKeepsCustody DEF Step
<1>3. CASE UNCHANGED vars
  BY <1>3, CustodyStutters DEF vars, FateOf, Alive, InCustody
<1>. QED BY <1>1, <1>2, <1>3, EnvironKeepsCustody DEF Next

\* The manager keeps the custody of its residents: it ends only residents it launched
\* or adopted, and lets go of one only when it no longer runs or Studio ends. Every
\* step of calls, residents, system and restarts is a step of ResidentCustody.
THEOREM CustodyIsKept == OneCaller /\ Observant => (Spec => CustodyKept)
<1>. SUFFICES ASSUME OneCaller, Observant PROVE Spec => CustodyKept
  OBVIOUS
<1>1. Init => Custody!Init
  <2>. SUFFICES ASSUME Init PROVE Custody!Init
    OBVIOUS
  <2>1. \A x \in Pids : FateOf(x) = "none"
    BY EndFields DEF Init, FateOf, Alive
  <2>2. \A x \in Pids : ~InCustody(x)
    BY IdleFields, RuntimeManagerAssumption DEF Init, InCustody, NoHandle
  <2>. QED BY <2>1, <2>2 DEF Custody!Init
<1>2. IInv /\ SInv /\ [Next]_vars => [Custody!Next]_(Custody!vars)
  BY CustodyStep
<1>. QED BY <1>1, <1>2, IInvHolds, SInvHolds, PTL DEF Spec, CustodyKept, Custody!Spec
=============================================================================
