----------------------------- MODULE Workspaces -----------------------------
(* The workspaces of Studio: which project belongs to which workspace, the *)
(* port of each workspace, its workspace.json, its resident and the entry  *)
(* in the clients' configurations.  The calls are those of src-tauri/src/  *)
(* manager_service.rs, each the sequence of its calls into the config      *)
(* store (config.rs) and the runtime manager; `Main` is the thread of the  *)
(* window's synchronous commands, `Fleet` one of the threads that start,   *)
(* stop and reload everything.                                             *)
(*                                                                         *)
(* The runtime manager is reduced to its effect, one step per call: the    *)
(* module RuntimeManager opens it.  Residents do not die by themselves     *)
(* here, and a port stands for the token allocated with it.                *)
EXTENDS Naturals, Sequences, FiniteSets, SequencesExt

CONSTANTS Projects, Names,  \* Names: the names a workspace may have
          Nowhere,          \* in no workspace
          Ports, NoPort,
          NoProject,
          Rooted,           \* projects that declare source folders of their own
          Main, Fleet,
          Plans             \* the histories to look at

ASSUME NowhereAssumption == Nowhere \notin Names /\ NoPort \notin Ports

\* The window's thread is not one of the fleet's, and a history starts from a
\* finite projects.json.
ASSUME HistoryAssumption ==
    /\ Main # Fleet /\ IsFiniteSet(Projects)
    /\ \A history \in Plans : history.registered \in [Projects -> Names \cup {Nowhere}]

VARIABLES registered,  \* projects.json: the workspace of each project
          entries,     \* projects.json: the port of each workspace
          json,        \* workspace.json in each workspace's folder
          residents,   \* for each port the workspace whose resident listens there
          handles,     \* the runtime manager's handles
          snaps,       \* its status records
          loading,     \* ports whose resident has not finished its import
          begun,       \* ports whose resident the fleet start has started
          fleeting,    \* whether the call of Fleet is a fleet start
          late,        \* waits for an import that ended by the cap
          deployed,    \* the port the clients' configurations name
          hurt,        \* workspaces whose folder was removed under their resident
          todo,        \* the steps each thread still has to do
          plan         \* what may still be called

stores == <<registered, entries, json>>
imports == <<loading, begun, fleeting, late>>
runtime == <<residents, handles, snaps, imports>>
wsVars == <<stores, runtime, deployed, hurt, todo, plan>>

Threads == {Main, Fleet}
NoHandle == [port |-> NoPort, members |-> {}]
NoFile == [listed |-> {}, roots |-> {}]
Stopped == [phase |-> "Stopped", at |-> Nowhere]
Live(phase) == phase = "Running"

Members(w) == {p \in Projects : registered[p] = w}
Used == {registered[p] : p \in Projects} \ {Nowhere}

WorkspacesInit ==
    /\ plan \in Plans
    /\ registered = plan.registered
    /\ entries = [w \in Names |-> NoPort]
    /\ json = [w \in Names |-> [listed |-> Members(w), roots |-> Members(w) \cap Rooted]]
    /\ residents = [q \in Ports |-> Nowhere]
    /\ handles = [w \in Names |-> NoHandle]
    /\ snaps = [p \in Projects |-> Stopped]
    /\ loading = {} /\ begun = {} /\ fleeting = FALSE /\ late = 0
    /\ deployed = [w \in Names |-> NoPort]
    /\ hurt = {}
    /\ todo = [t \in Threads |-> <<>>]

-----------------------------------------------------------------------------
\* Steps: what is done, for which project, in which workspace, on which port,
\* or, for a rename, the new name.
Step(do, p, w) == [do |-> do, p |-> p, w |-> w, port |-> NoPort, to |-> w]
Of(do, w) == Step(do, NoProject, w)

Next1(t) == Head(todo[t])
Doing(t, do) == todo[t] # <<>> /\ Next1(t).do = do
Done(t) == todo' = [todo EXCEPT ![t] = Tail(@)]
Expand(t, steps) == todo' = [todo EXCEPT ![t] = steps \o Tail(@)]
Refuse(t) == todo' = [todo EXCEPT ![t] = <<>>]  \* `?` out of the command

Listed == SetToSeq({p \in Projects : registered[p] # Nowhere})
ForEach(seq, Steps(_)) == FlattenSeq([i \in DOMAIN seq |-> Steps(seq[i])])

\* The port of a stopped workspace is taken for free.
MutantFreeWhenNobodyListens == {q \in Ports : residents[q] = Nowhere}

\* PortAllocator.allocate: a port no workspace has and nothing listens on.
FreePorts == {q \in Ports : residents[q] = Nowhere /\ \A w \in Names : entries[w] # q}

\* What get_or_allocate_workspace_state may leave when it has been asked for
\* each of `wanted`: a workspace the range has no port for stays without one.
Allocations(wanted) ==
    LET need == {w \in wanted : entries[w] = NoPort}
        full(e) == \A w \in need : e[w] = NoPort => FreePorts \subseteq {e[v] : v \in need}
    IN {e \in [Names -> Ports \cup {NoPort}] :
          /\ \A w \in Names \ need : e[w] = entries[w]
          /\ \A w \in need : e[w] \in FreePorts \cup {NoPort}
          /\ \A v, w \in need : e[v] = e[w] /\ e[v] # NoPort => v = w
          /\ full(e)}

\* The registered members that were live, and who asks (try_adopt).
AdoptedMembers(p, w) == {p} \cup {o \in Projects : snaps[o].at = w /\ Live(snaps[o].phase)}

Alive(h) == h.port # NoPort /\ residents[h.port] # Nowhere
Answers(q) == q # NoPort /\ residents[q] # Nowhere

-----------------------------------------------------------------------------
\* Steps in the config store.

\* add_project: a path is registered once.
Register(t) ==
    LET s == Next1(t) IN
    /\ Doing(t, "register")
    /\ IF registered[s.p] # Nowhere THEN Refuse(t) /\ UNCHANGED registered
       ELSE registered' = [registered EXCEPT ![s.p] = s.w] /\ Done(t)
    /\ UNCHANGED <<entries, json, runtime, deployed, hurt, plan>>

\* ConfigStore::set_project_workspace
SetWorkspace(t) ==
    LET s == Next1(t) IN
    /\ Doing(t, "move")
    /\ IF registered[s.p] = Nowhere THEN Refuse(t) /\ UNCHANGED registered
       ELSE registered' = [registered EXCEPT ![s.p] = s.w] /\ Done(t)
    /\ UNCHANGED <<entries, json, runtime, deployed, hurt, plan>>

\* The entry of a name that is given up goes with it to the new name, unless
\* the new name has one.
RenamedEntries(old, new) ==
    LET has(w) == w \in Names /\ entries[w] # NoPort
    IN [w \in Names |-> IF w = old THEN NoPort
                        ELSE IF w = new /\ has(old) /\ ~has(new) THEN entries[old]
                        ELSE entries[w]]

\* ConfigStore::rename_workspace
Rename(t) ==
    LET s == Next1(t) IN
    /\ Doing(t, "rename") /\ Done(t)
    /\ IF s.to = s.w THEN UNCHANGED <<registered, entries>>
       ELSE /\ registered' = [p \in Projects |-> IF registered[p] = s.w THEN s.to ELSE registered[p]]
            /\ entries' = RenamedEntries(s.w, s.to)
    /\ UNCHANGED <<json, runtime, deployed, hurt, plan>>

\* ConfigStore::delete_project
Forget(t) ==
    LET s == Next1(t) IN
    /\ Doing(t, "forget")
    /\ IF registered[s.p] = Nowhere THEN Refuse(t) /\ UNCHANGED registered
       ELSE registered' = [registered EXCEPT ![s.p] = Nowhere] /\ Done(t)
    /\ UNCHANGED <<entries, json, runtime, deployed, hurt, plan>>

\* release_workspace_state
ReleaseEntry(t) ==
    /\ Doing(t, "release") /\ Done(t)
    /\ entries' = [entries EXCEPT ![Next1(t).w] = NoPort]
    /\ UNCHANGED <<registered, json, runtime, deployed, hurt, plan>>

\* write_workspace_json_for: the registered members, or no file.
FileOf(w) == [listed |-> Members(w), roots |-> Members(w) \cap Rooted]

WriteJson(t) ==
    LET w == Next1(t).w IN
    /\ Doing(t, "json") /\ Done(t)
    /\ json' = [json EXCEPT ![w] = FileOf(w)]
    /\ UNCHANGED <<registered, entries, runtime, deployed, hurt, plan>>

\* What ManagerService::stop_runtime writes: the members without the one that
\* leaves (write_workspace_json_excluding names no source folders), but all of
\* them when it is the only one.
WriteJsonWithout(t) ==
    LET s == Next1(t)
        remaining == Members(s.w) \ {s.p} IN
    /\ Doing(t, "json without") /\ s.port # NoPort /\ Done(t)
    /\ json' = [json EXCEPT ![s.w] =
                  IF remaining = {} THEN FileOf(s.w)
                  ELSE [listed |-> remaining, roots |-> {}]]
    /\ UNCHANGED <<registered, entries, runtime, deployed, hurt, plan>>

\* delete_workspace removes the folder of the workspace.
DropFolder(t) ==
    LET w == Next1(t).w IN
    /\ Doing(t, "drop folder") /\ Done(t)
    /\ json' = [json EXCEPT ![w] = NoFile]
    /\ hurt' = hurt \cup {v \in {w} : \E q \in Ports : residents[q] = w}
    /\ UNCHANGED <<registered, entries, runtime, deployed, plan>>

-----------------------------------------------------------------------------
\* Steps in the runtime manager.

\* resolve_runtime_reference: the port the project's next steps go to.  A wait
\* asks at the endpoint it was given.
Resolve(t) ==
    /\ Doing(t, "resolve")
    /\ LET w == Next1(t).w
           rest == Tail(todo[t])
           goes(i) == rest[i].p = Next1(t).p /\ rest[i].do # "await import"
           to(q) == [i \in DOMAIN rest |-> IF goes(i) THEN [rest[i] EXCEPT !.port = q] ELSE rest[i]] IN
       \E e \in Allocations({w}) :
         /\ entries' = e
         /\ todo' = [todo EXCEPT ![t] = to(e[w])]
    /\ UNCHANGED <<registered, json, runtime, deployed, hurt, plan>>

\* Without a port the project's steps are not made.
Unresolved(t) ==
    /\ todo[t] # <<>> /\ Next1(t).do \in {"start", "stop", "json without"} /\ Next1(t).port = NoPort
    /\ Done(t)
    /\ UNCHANGED <<stores, runtime, deployed, hurt, plan>>

Up(p, w) == snaps' = [snaps EXCEPT ![p] = [phase |-> "Running", at |-> w]]

\* RuntimeManager::start_runtime: join, adopt what answers on the port, or
\* start a resident there.
StartResident(t) ==
    LET s == Next1(t) IN
    /\ Doing(t, "start") /\ s.port # NoPort /\ Done(t)
    /\ Up(s.p, s.w)
    /\ IF Alive(handles[s.w])
       THEN /\ handles' = [handles EXCEPT ![s.w].members = @ \cup {s.p}]
            /\ UNCHANGED <<residents, imports>>
       ELSE IF Answers(s.port)
       THEN /\ handles' = [handles EXCEPT ![s.w] = [port |-> s.port, members |-> AdoptedMembers(s.p, s.w)]]
            /\ UNCHANGED <<residents, imports>>
       ELSE /\ handles' = [handles EXCEPT ![s.w] = [port |-> s.port, members |-> {s.p}]]
            /\ residents' = [residents EXCEPT ![s.port] = s.w]
            /\ loading' = loading \cup {s.port}
            /\ begun' = IF t = Fleet /\ fleeting THEN begun \cup {s.port} ELSE begun
            /\ UNCHANGED <<fleeting, late>>
    /\ UNCHANGED <<stores, deployed, hurt, plan>>

\* A handle without members stays in the table.
MutantKeepTheEmptyHandle(p, w, h) ==
    handles' = [handles EXCEPT ![w] = [h EXCEPT !.members = @ \ {p}]] /\ UNCHANGED residents

\* Handles and residents when `p` has left the handle `h` of `w`: the resident
\* is killed with its last member.
Leave(p, w, h) ==
    LET left == h.members \ {p} IN
    IF left # {}
    THEN handles' = [handles EXCEPT ![w] = [h EXCEPT !.members = left]] /\ UNCHANGED residents
    ELSE /\ handles' = [handles EXCEPT ![w] = NoHandle]
         /\ residents' = [residents EXCEPT ![h.port] = Nowhere]

\* RuntimeManager::stop_runtime: adopt what answers when there is no handle,
\* then leave.
StopResident(t) ==
    LET s == Next1(t) IN
    /\ Doing(t, "stop") /\ s.port # NoPort /\ Done(t)
    /\ snaps' = [snaps EXCEPT ![s.p] = Stopped]
    /\ IF handles[s.w] # NoHandle THEN Leave(s.p, s.w, handles[s.w])
       ELSE IF Answers(s.port) THEN Leave(s.p, s.w, [port |-> s.port, members |-> AdoptedMembers(s.p, s.w)])
       ELSE UNCHANGED <<handles, residents>>
    /\ UNCHANGED <<stores, imports, deployed, hurt, plan>>

\* RuntimeManager::stop_workspace_runtime: only a resident with a handle.
StopWorkspace(t) ==
    LET w == Next1(t).w
        h == handles[w] IN
    /\ Doing(t, "stop workspace") /\ Done(t)
    /\ IF h = NoHandle THEN UNCHANGED runtime
       ELSE /\ handles' = [handles EXCEPT ![w] = NoHandle]
            /\ residents' = [residents EXCEPT ![h.port] = Nowhere]
            /\ snaps' = [p \in Projects |-> IF p \in h.members THEN Stopped ELSE snaps[p]]
            /\ UNCHANGED imports
    /\ UNCHANGED <<stores, deployed, hurt, plan>>

\* RuntimeManager::remove_project_runtime: from whichever handle has it.
RemoveRuntime(t) ==
    LET p == Next1(t).p
        hosts == {w \in Names : p \in handles[w].members} IN
    /\ Doing(t, "remove") /\ Done(t)
    /\ snaps' = [snaps EXCEPT ![p] = Stopped]
    /\ IF hosts = {} THEN UNCHANGED <<handles, residents>>
       ELSE \E w \in hosts : Leave(p, w, handles[w])
    /\ UNCHANGED <<stores, imports, deployed, hurt, plan>>

\* Whether get_runtime_status finds the resident of `w` for one of its members,
\* by its handle or, when a record says it should be up, by its port.
Found(w, e) ==
    \/ Alive(handles[w])
    \/ Answers(e[w]) /\ handles[w] = NoHandle /\ \E p \in Members(w) : snaps[p].phase # "Stopped"

\* get_runtime_status for the members of each of `asked`: the workspace is
\* resolved, and what answers is adopted.  A handle of a resident that is gone
\* is dropped, and the member that was asked for is recorded as Failed.
Poll(asked) ==
    \E e \in Allocations(asked) :
      /\ entries' = e
      /\ handles' = [w \in Names |->
                       IF w \notin asked \/ Alive(handles[w]) THEN handles[w]
                       ELSE IF Found(w, e)
                       THEN [port |-> e[w],
                             members |-> AdoptedMembers(CHOOSE p \in Members(w) : snaps[p].phase # "Stopped", w)]
                       ELSE NoHandle]
      /\ snaps' = [p \in Projects |->
                     LET w == registered[p] IN
                     IF w \notin asked THEN snaps[p]
                     ELSE IF ~Alive(handles[w]) /\ handles[w] # NoHandle /\ p = CHOOSE o \in Members(w) : TRUE
                     THEN [phase |-> "Failed", at |-> w]
                     ELSE IF Found(w, e) THEN [phase |-> "Running", at |-> w]
                     ELSE snaps[p]]
      /\ UNCHANGED <<registered, json, residents, imports>>

\* collect_runtime_statuses
PollAll == Poll(Used)

\* deletion_refusal, over the statuses just collected.
Refused(w) == \E p \in Members(w) : Live(snaps'[p].phase)

RefuseIfLive(t) ==
    /\ Doing(t, "refuse if live") /\ PollAll
    /\ IF Refused(Next1(t).w) THEN Refuse(t) ELSE Done(t)
    /\ UNCHANGED <<deployed, hurt, plan>>

\* load_dashboard at the end of a command.
LoadDashboard(t) ==
    /\ Doing(t, "dashboard") /\ PollAll /\ Done(t)
    /\ UNCHANGED <<deployed, hurt, plan>>

\* reload_all_runtimes waits until nothing is up, thirty seconds at most.
AwaitSettled(t) ==
    /\ Doing(t, "await settled") /\ PollAll
    /\ IF \A p \in Projects : registered[p] # Nowhere => ~Live(snaps'[p].phase) THEN Done(t)
       ELSE Refuse(t)
    /\ UNCHANGED <<deployed, hurt, plan>>

\* refresh_deployed_configs: clients that have entries get all workspaces that
\* have a member.  `deploy` is the same for a client that had none.
Deployment(e) == [w \in Names |-> IF w \in Used THEN e[w] ELSE NoPort]

RefreshDeployed(t) ==
    /\ Doing(t, "refresh") /\ Done(t)
    /\ IF \A w \in Names : deployed[w] = NoPort THEN UNCHANGED <<entries, deployed>>
       ELSE \E e \in Allocations(Used) : entries' = e /\ deployed' = Deployment(e)
    /\ UNCHANGED <<registered, json, runtime, hurt, plan>>

Deploy(t) ==
    /\ Doing(t, "deploy") /\ Done(t)
    /\ \E e \in Allocations(Used) : entries' = e /\ deployed' = Deployment(e)
    /\ UNCHANGED <<registered, json, runtime, hurt, plan>>

-----------------------------------------------------------------------------
\* Steps that read the project list and go on from it.

StartOf(p) == <<Step("resolve", p, registered[p]), Step("start", p, registered[p])>>
StopOf(p) == <<Step("resolve", p, registered[p]), Step("stop", p, registered[p])>>
RemovalOf(p) == <<Step("remove", p, Nowhere), Step("forget", p, Nowhere)>>

\* delete_workspace, after the resident is stopped.
ListMembers(t) ==
    /\ Doing(t, "remove members")
    /\ Expand(t, ForEach(SetToSeq(Members(Next1(t).w)), RemovalOf))
    /\ UNCHANGED <<stores, runtime, deployed, hurt, plan>>

\* delete_project, when the last member has left.
DropIfEmpty(t) ==
    LET w == Next1(t).w IN
    /\ Doing(t, "drop if empty")
    /\ Expand(t, IF Members(w) = {} THEN <<Of("stop workspace", w), Of("release", w)>> ELSE <<>>)
    /\ UNCHANGED <<stores, runtime, deployed, hurt, plan>>

WriteFiles(chosen) == json' = [w \in Names |-> IF w \in chosen THEN FileOf(w) ELSE json[w]]

\* All at once, as before REL44-12.
MutantStartAtOnce(seq, e) == ForEach(seq, StartOf)

\* One project after the other, and before each workspace but the first the
\* import of the one before; `e` are the ports the workspaces have by then.
Staggered(seq, e) ==
    LET ws(i) == registered[seq[i]]
        firsts == {i \in DOMAIN seq : \A h \in 1..(i - 1) : ws(h) # ws(i)}
        await(i) == [Step("await import", seq[i], ws(i)) EXCEPT !.port = e[ws(i)]]
    IN FlattenSeq([i \in DOMAIN seq |->
           (IF i \in firsts \ {1} THEN <<await(Max({k \in firsts : k < i}))>> ELSE <<>>) \o StartOf(seq[i])])

\* start_all_runtimes: the endpoints are resolved and the list is read once,
\* then minutes may pass.
WriteAll(t) ==
    /\ Doing(t, "start all")
    /\ WriteFiles(Used)
    /\ \E e \in Allocations(Used) : entries' = e /\ Expand(t, Staggered(Listed, e))
    /\ begun' = {} /\ fleeting' = TRUE /\ late' = 0
    /\ UNCHANGED <<registered, residents, handles, snaps, loading, deployed, hurt, plan>>

\* get_runtime_status for one project of the list read then.
Ask(p, w) ==
    \E e \in Allocations({w}) :
      LET adopt == handles[w] = NoHandle /\ snaps[p].phase # "Stopped" /\ Answers(e[w])
          gone == handles[w] # NoHandle /\ ~Alive(handles[w]) IN
      /\ entries' = e
      /\ handles' = [handles EXCEPT ![w] = IF gone THEN NoHandle
                                         ELSE IF adopt THEN [port |-> e[w], members |-> AdoptedMembers(p, w)]
                                         ELSE @]
      /\ snaps' = [snaps EXCEPT ![p] = IF gone THEN [phase |-> "Failed", at |-> w]
                                      ELSE IF adopt \/ Alive(handles[w]) THEN [phase |-> "Running", at |-> w]
                                      ELSE @]
      /\ UNCHANGED <<registered, json, residents>>

\* wait_until_imported, import_wait_over: again and again, until the import is
\* over, the workspace is down, or the cap has passed.
AwaitImport(t) ==
    LET s == Next1(t)
        imported == s.port = NoPort \/ (Answers(s.port) /\ s.port \notin loading) IN
    /\ Doing(t, "await import")
    /\ Ask(s.p, s.w)
    /\ \/ /\ plan.caps > 0 /\ plan' = [plan EXCEPT !.caps = @ - 1] /\ late' = late + 1
          /\ Done(t)
       \/ /\ UNCHANGED <<plan, late>>
          /\ IF imported \/ ~Live(snaps'[s.p].phase) THEN Done(t) ELSE UNCHANGED todo
    /\ UNCHANGED <<loading, begun, fleeting, deployed, hurt>>

\* An engine finishes the import of its workspace.
Import(q) ==
    /\ q \in loading
    /\ loading' = loading \ {q}
    /\ UNCHANGED <<stores, residents, handles, snaps, begun, fleeting, late, deployed, hurt, todo, plan>>

\* workspaces_to_auto_restore and start_specific_workspaces: what was meant to
\* run, all at once.
Restore(t) ==
    /\ Doing(t, "restore") /\ PollAll
    /\ LET wanted == {registered[p] : p \in {o \in Projects : registered[o] # Nowhere /\ snaps'[o].phase # "Stopped"}}
       IN Expand(t, ForEach(SetToSeq(wanted), LAMBDA w : <<Of("json", w)>>)
                    \o ForEach(SetToSeq({p \in Projects : registered[p] \in wanted}), StartOf))
    /\ UNCHANGED <<deployed, hurt, plan>>

\* ManagerService::start_runtime and stop_runtime of one project.
StartProject(t) ==
    LET p == Next1(t).p IN
    /\ Doing(t, "start project")
    /\ Expand(t, IF registered[p] = Nowhere THEN <<>> ELSE <<Of("json", registered[p])>> \o StartOf(p))
    /\ UNCHANGED <<stores, runtime, deployed, hurt, plan>>

StopProject(t) ==
    LET p == Next1(t).p IN
    /\ Doing(t, "stop project")
    /\ Expand(t, IF registered[p] = Nowhere THEN <<>>
                 ELSE InsertAt(StopOf(p), 2, Step("json without", p, registered[p])))
    /\ UNCHANGED <<stores, runtime, deployed, hurt, plan>>

\* toggle_workspace: one aggregated phase decides for all its members.
Toggle(t) ==
    LET w == Next1(t).w
        phases == {snaps'[p].phase : p \in Members(w)}
        each(do) == ForEach(SetToSeq(Members(w)), LAMBDA p : <<Step(do, p, w)>>) IN
    /\ Doing(t, "toggle") /\ PollAll
    /\ Expand(t, IF phases = {"Running"} THEN each("stop project") ELSE each("start project"))
    /\ UNCHANGED <<deployed, hurt, plan>>

-----------------------------------------------------------------------------
\* The calls.

Add(p, w) == <<Step("register", p, w), Of("json", w), Of("refresh", w)>>

\* Only the new workspace's file is written.
MutantMoveKeepsTheOldFile(p, w) == <<Step("move", p, w), Of("json", w)>>

Move(p, w) ==
    <<Step("move", p, w)>>
    \o (IF registered[p] # w THEN <<Of("json", registered[p])>> ELSE <<>>)
    \o <<Of("json", w)>>

\* The clients are not told that a workspace has another name.
MutantRenameTellsNobody(old, new) ==
    <<[Of("rename", old) EXCEPT !.to = new], Of("json", new)>>

RenameTo(old, new) ==
    <<[Of("rename", old) EXCEPT !.to = new], Of("json", new), Of("refresh", new)>>

DeleteWorkspace(w) ==
    <<Of("refuse if live", w), Of("stop workspace", w), Of("remove members", w),
      Of("drop folder", w), Of("release", w), Of("refresh", w)>>

DeleteProject(p, w) ==
    <<Of("refuse if live", w)>> \o RemovalOf(p) \o <<Of("json", w), Of("drop if empty", w), Of("refresh", w)>>

DeleteAll == ForEach(Listed, RemovalOf)
StopAll == ForEach(Listed, StopOf)
StartAll == <<Of("start all", Nowhere), Of("dashboard", Nowhere)>>
ReloadAll == StopAll \o <<Of("dashboard", Nowhere), Of("await settled", Nowhere)>> \o StartAll

\* What the window may ask for now.
Asked(call, p, w) ==
    LET there == p # NoProject /\ registered[p] # Nowhere
        used == w \in Used IN
    CASE call = "add" /\ p # NoProject /\ ~there -> {Add(p, w)}
      [] call = "move" /\ there -> {Move(p, w)}
      [] call = "rename" /\ p = NoProject /\ used -> {RenameTo(w, v) : v \in Names \ {w}}
      [] call = "delete workspace" /\ p = NoProject -> {DeleteWorkspace(w)}
      [] call = "delete project" /\ there /\ w = registered[p] -> {DeleteProject(p, w)}
      [] call = "delete all" /\ p = NoProject /\ Used # {} -> {DeleteAll}
      [] call = "start" /\ there /\ w = registered[p] -> {<<Step("start project", p, w)>>}
      [] call = "stop" /\ there /\ w = registered[p] -> {<<Step("stop project", p, w)>>}
      [] call = "stop all" /\ p = NoProject /\ Used # {} -> {StopAll}
      [] call = "deploy" /\ p = NoProject /\ Used # {} -> {<<Of("deploy", w)>>}
      [] OTHER -> {}

Call(call, p, w) ==
    /\ call \in plan.menu /\ plan.calls > 0 /\ todo[Main] = <<>>
    /\ \E steps \in Asked(call, p, w) :
         todo' = [todo EXCEPT ![Main] = steps \o <<Of("dashboard", w)>>]
    /\ plan' = [plan EXCEPT !.calls = @ - 1]
    /\ UNCHANGED <<stores, runtime, deployed, hurt>>

FleetCall(call, steps) ==
    /\ call \in plan.menu /\ plan.fleet > 0 /\ todo[Fleet] = <<>>
    /\ todo' = [todo EXCEPT ![Fleet] = steps]
    /\ plan' = [plan EXCEPT !.fleet = @ - 1]
    /\ fleeting' = FALSE
    /\ UNCHANGED <<stores, residents, handles, snaps, loading, begun, late, deployed, hurt>>

\* Studio ends, not inside a command of the window, and starts again; the
\* residents live on.  With autostart on it restores what ran.
StudioRestart ==
    /\ plan.restarts > 0 /\ todo[Main] = <<>>
    /\ plan' = [plan EXCEPT !.restarts = @ - 1]
    /\ handles' = [w \in Names |-> NoHandle]
    /\ todo' = [t \in Threads |-> IF t = Fleet /\ "restore" \in plan.menu
                                  THEN <<Of("restore", Nowhere)>> ELSE <<>>]
    /\ fleeting' = FALSE
    /\ UNCHANGED <<stores, residents, snaps, loading, begun, late, deployed, hurt>>

StepOf(t) ==
    \/ Register(t) \/ SetWorkspace(t) \/ Rename(t) \/ Forget(t) \/ ReleaseEntry(t)
    \/ WriteJson(t) \/ WriteJsonWithout(t) \/ DropFolder(t)
    \/ Resolve(t) \/ Unresolved(t) \/ StartResident(t) \/ StopResident(t) \/ StopWorkspace(t) \/ RemoveRuntime(t)
    \/ RefuseIfLive(t) \/ LoadDashboard(t) \/ AwaitSettled(t)
    \/ RefreshDeployed(t) \/ Deploy(t)
    \/ ListMembers(t) \/ DropIfEmpty(t) \/ WriteAll(t) \/ AwaitImport(t) \/ Restore(t)
    \/ StartProject(t) \/ StopProject(t) \/ Toggle(t)

WorkspacesNext ==
    \/ \E call \in plan.menu, p \in Projects \cup {NoProject}, w \in Names : Call(call, p, w)
    \/ FleetCall("start all", StartAll) \/ FleetCall("reload all", ReloadAll)
    \/ \E w \in Used : FleetCall("toggle", <<Of("toggle", w)>>)
    \/ StudioRestart
    \/ \E q \in Ports : Import(q)
    \/ \E t \in Threads : StepOf(t)

WorkspacesSpec == WorkspacesInit /\ [][WorkspacesNext]_wsVars

-----------------------------------------------------------------------------
Quiet == \A t \in Threads : todo[t] = <<>>

WorkspacesTypeOK ==
    /\ registered \in [Projects -> Names \cup {Nowhere}]
    /\ entries \in [Names -> Ports \cup {NoPort}]
    /\ \A w \in Names : json[w].listed \subseteq Projects /\ json[w].roots \subseteq json[w].listed \cap Rooted
    /\ residents \in [Ports -> Names \cup {Nowhere}]
    /\ \A w \in Names : /\ handles[w].port \in Ports \cup {NoPort}
                        /\ handles[w] # NoHandle => handles[w].members # {} /\ handles[w].members \subseteq Projects
    /\ \A p \in Projects : snaps[p].phase \in {"Stopped", "Running", "Failed"}
    /\ deployed \in [Names -> Ports \cup {NoPort}]

\* No two workspaces are told the same port, whatever is renamed, released and
\* allocated meanwhile.
PortsDistinct ==
    \A v, w \in Names : v # w /\ entries[v] # NoPort => entries[v] # entries[w]

\* When nothing is under way, the file of a workspace lists no project that
\* belongs to another one: no project is imported by two residents.
NoForeignProjects ==
    Quiet => \A w \in Used : json[w].listed \subseteq Members(w)

\* When nothing is under way, a client that was given an endpoint for a
\* workspace reaches the port of that workspace.
DeployedReaches ==
    Quiet => \A w \in Used : deployed[w] # NoPort => deployed[w] = entries[w]

\* "at most one import runs at a time" (manager_service.rs:870) of those a fleet
\* start has begun, but for the waits that ended by the cap.
OneImportAtATime ==
    Cardinality({q \in begun \cap loading : residents[q] # Nowhere}) <= 1 + late

\* "stop every workspace, poll until each phase reaches `Stopped`"
\* (manager_service.rs:1010): when reload_all goes on to start everything, no
\* resident of before is left.
ReloadStopsAll ==
    [][Doing(Fleet, "await settled") /\ todo'[Fleet] = Tail(todo[Fleet])
         => \A q \in Ports : residents[q] = Nowhere]_wsVars

\* "when the last member leaves, the workspace is gone" (manager_service.rs:
\* 801): no resident runs for a workspace without a project.
GoneIsGone == Quiet => \A q \in Ports : residents[q] # Nowhere => residents[q] \in Used

\* "a running workspace cannot be deleted" (manager_service.rs:742): no folder
\* is removed under its resident.
DeletedIsDown == hurt = {}
=============================================================================
