------------------------------- MODULE Canary -------------------------------
(* The tray's light (src-tauri/src/lib.rs, field_view.rs and the canary     *)
(* part of manager_service.rs).  Two threads write one board and paint one  *)
(* icon: the canary asks every resident that should run two real questions  *)
(* and replaces the board; the fast lane repaints from the board every five *)
(* seconds, wakes the canary when what should run has changed, asks whether *)
(* each workspace can be read and writes its copy of the board back.        *)
(*                                                                          *)
(* Every question to a resident, and every read or write of what the        *)
(* threads share, is a step.  Time passes when a wait of the canary runs    *)
(* out.  The channel that ends the lane's wait early only makes its next    *)
(* tick sooner; here a tick may come at any time.                           *)
EXTENDS Naturals

CONSTANTS Residents,   \* the workspaces with a deployed endpoint
          Grace,       \* waits after which an import is no longer innocent
          Budgets      \* how often, in one behaviour, a resident changes, a
                       \* round is asked for, the shell refuses or loses an icon

ASSUME GraceAssumption == Grace \in Nat \ {0}
ASSUME BudgetAssumption == Budgets \subseteq [changes : Nat, requests : Nat, faults : Nat]

VARIABLES condition, \* what each resident is and would answer
          wake,      \* CANARY_WAKE holds its one request
          owed,      \* a round was asked for since the last one looked around
          board,     \* the readings of the last round, as published
          canary,    \* the canary thread
          lane,      \* the fast lane; `last` holds the population it last saw, if any
          icon,      \* the verdict last sent, whether to repeat it, and the one shown
          budget     \* changes, requests and faults that are left

vars == <<condition, wake, owed, board, canary, lane, icon, budget>>

\* Deliberately stopped; on its way up; should run and does not; importing with
\* and without its store; its store gone; its workspace gone; well.
Conditions == {"off", "booting", "down", "importing", "wedged", "mute", "unreadable", "well"}
Verdicts == {"Idle", "Unknown", "Green", "Reduced", "PartlyUp", "Loading", "Degraded"}

Row == [green : BOOLEAN, starting : BOOLEAN, store : BOOLEAN, loading : BOOLEAN,
        readable : BOOLEAN, age : 0..Grace]
NoRow == [row |-> "none"]
Boards == [Residents -> Row \cup {NoRow}]
Blank == [r \in Residents |-> NoRow]

\* What is supposed to run (any phase but Stopped), and what has not yet said
\* that it is ready.
Probed == {r \in Residents : condition[r] # "off"}
NotYetReady == {r \in Residents : condition[r] = "booting"}

CanaryInit ==
    /\ condition \in [Residents -> {"off", "well"}]
    /\ wake = FALSE
    /\ owed = FALSE
    /\ board = Blank
    /\ canary = [pc |-> "wait", probe |-> {}, todo |-> {}, rising |-> {}, results |-> Blank, health |-> "Unknown"]
    /\ lane = [pc |-> "wait", last |-> {}, probe |-> {}, todo |-> {}, copy |-> Blank,
               unreadable |-> {}, health |-> "Unknown"]
    /\ icon = [sent |-> "none", stale |-> FALSE, shown |-> "none"]
    /\ budget \in Budgets

-----------------------------------------------------------------------------
(* The verdict. *)

Rows(b, who) == {b[r] : r \in {q \in who : b[q] # NoRow}}

\* canary_health: a resident on its way up is no fault, one that imports with
\* its store answering is none while it is young.
HealthOf(rows) ==
    LET faulty == {x \in rows : ~x.green /\ ~x.starting}
        excused == \A x \in faulty : x.loading /\ x.store /\ x.age < Grace
        someGreen == \E x \in rows : x.green
    IN  CASE rows = {} -> "Unknown"
          [] rows # {} /\ \A x \in rows : x.green -> "Green"
          [] ~excused -> "Degraded"
          [] OTHER -> IF someGreen THEN "PartlyUp" ELSE "Loading"

\* fold_switched_off: what is off by choice turns Green into Reduced, and no
\* answer from nobody into Idle.
Folded(health, asked, off) ==
    CASE off # {} /\ health = "Green" -> "Reduced"
      [] off # {} /\ health = "Unknown" /\ asked = {} -> "Idle"
      [] OTHER -> health

\* judge_canary and with_workspace_readable: a resident that does not answer
\* counts as readable, for its two other answers report it.
Judged(r, rising) ==
    LET c == condition[r]
        store == c \in {"well", "importing", "unreadable"}
        green == c = "well"
    IN  [green |-> green, store |-> store, loading |-> c \in {"importing", "wedged"},
         readable |-> c # "unreadable", starting |-> ~green /\ r \in rising, age |-> 0]

\* stitch_loading_runs: an import keeps the age it had on the board.
Stitched(previous, results) ==
    [r \in Residents |->
        IF /\ results[r] # NoRow /\ results[r].loading
           /\ previous[r] # NoRow /\ previous[r].loading
        THEN [results[r] EXCEPT !.age = previous[r].age]
        ELSE results[r]]

\* A mutant of Marked: the row goes on saying green.
MutantMarkKeepsGreen(b, unreadable) ==
    [r \in Residents |->
        IF r \in unreadable /\ b[r] # NoRow THEN [b[r] EXCEPT !.readable = FALSE] ELSE b[r]]

\* apply_readability: it marks what cannot be read and clears nothing.
Marked(b, unreadable) ==
    [r \in Residents |->
        IF r \in unreadable /\ b[r] # NoRow
        THEN [b[r] EXCEPT !.readable = FALSE, !.green = FALSE]
        ELSE b[r]]

Rising(b) ==
    [r \in Residents |->
        IF b[r] # NoRow /\ ~b[r].green /\ r \in NotYetReady
        THEN [b[r] EXCEPT !.starting = TRUE]
        ELSE b[r]]

\* Time: every import on the board, and on the lane's copy of it, is older.
Older(b) ==
    [r \in Residents |->
        IF b[r] # NoRow /\ b[r].loading /\ b[r].age < Grace
        THEN [b[r] EXCEPT !.age = @ + 1]
        ELSE b[r]]

-----------------------------------------------------------------------------
(* The residents, the user and the tray. *)

\* A start, a stop, a resident that becomes ready, falls ill, dies or recovers.
Turn(r, c) ==
    /\ budget.changes > 0
    /\ c # condition[r]
    /\ condition[r] = "off" => c = "booting"
    /\ c = "booting" => condition[r] \in {"off", "down"}
    /\ condition' = [condition EXCEPT ![r] = c]
    /\ budget' = [budget EXCEPT !.changes = @ - 1]
    /\ UNCHANGED <<wake, owed, board, canary, lane, icon>>

\* A command that starts or stops residents is done, or someone looks at the
\* Field view.
RequestRound ==
    /\ budget.requests > 0
    /\ wake' = TRUE
    /\ owed' = TRUE
    /\ budget' = [budget EXCEPT !.requests = @ - 1]
    /\ UNCHANGED <<condition, board, canary, lane, icon>>

\* A mutant of Paint: an icon is sent when the verdict changes, never again.
MutantSendOnlyChanges(health) ==
    LET accepted == [icon EXCEPT !.sent = health]
    IN  \/ /\ icon.sent = health
           /\ UNCHANGED <<icon, budget>>
        \/ /\ icon.sent # health
           /\ icon' = [accepted EXCEPT !.shown = health]
           /\ UNCHANGED budget
        \/ /\ icon.sent # health
           /\ budget.faults > 0
           /\ icon' \in {icon, accepted}
           /\ budget' = [budget EXCEPT !.faults = @ - 1]

\* TrayIconPainter: a new verdict is sent, an old one again after a minute; a
\* refused send is not remembered, and an accepted one may not be shown.
Paint(health) ==
    LET due == icon.sent # health \/ icon.stale
        accepted == [icon EXCEPT !.sent = health, !.stale = FALSE]
    IN  \/ /\ ~due
           /\ UNCHANGED <<icon, budget>>
        \/ /\ due
           /\ icon' = [accepted EXCEPT !.shown = health]
           /\ UNCHANGED budget
        \/ /\ due
           /\ budget.faults > 0
           /\ icon' \in {icon, accepted}
           /\ budget' = [budget EXCEPT !.faults = @ - 1]

-----------------------------------------------------------------------------
(* The canary. *)

At(thread, pc) == thread.pc = pc

\* Both threads ask the residents one after the other, in the order of the
\* deployed endpoints.
First(list) == CHOOSE r \in list : TRUE

CanaryIsWoken ==
    /\ At(canary, "wait")
    /\ wake
    /\ wake' = FALSE
    /\ canary' = [canary EXCEPT !.pc = "begin"]
    /\ UNCHANGED <<condition, owed, board, lane, icon, budget>>

WaitRunsOut ==
    /\ At(canary, "wait")
    /\ ~wake
    /\ canary' = [canary EXCEPT !.pc = "begin"]
    /\ board' = Older(board)
    /\ lane' = [lane EXCEPT !.copy = Older(@)]
    /\ icon' = [icon EXCEPT !.stale = @ \/ icon.sent # "none"]
    /\ UNCHANGED <<condition, wake, owed, budget>>

TakePopulation ==
    /\ At(canary, "begin")
    /\ canary' = [canary EXCEPT !.pc = "rising", !.probe = Probed]
    /\ owed' = FALSE
    /\ UNCHANGED <<condition, wake, board, lane, icon, budget>>

TakeRising ==
    /\ At(canary, "rising")
    /\ canary' = [canary EXCEPT !.pc = "ask", !.rising = NotYetReady, !.todo = canary.probe]
    /\ UNCHANGED <<condition, wake, owed, board, lane, icon, budget>>

AskResident ==
    /\ At(canary, "ask")
    /\ canary.todo # {}
    /\ LET r == First(canary.todo)
       IN  canary' = [canary EXCEPT !.todo = @ \ {r}, !.results[r] = Judged(r, canary.rising)]
    /\ UNCHANGED <<condition, wake, owed, board, lane, icon, budget>>

\* publish_canary; the verdict is taken with what was off when the round began.
Publish ==
    LET results == Stitched(board, canary.results)
        health == HealthOf(Rows(results, Residents))
    IN  /\ At(canary, "ask")
        /\ canary.todo = {}
        /\ board' = results
        /\ canary' = [canary EXCEPT !.pc = "paint", !.rising = {}, !.results = Blank,
                                    !.health = Folded(health, canary.probe, Residents \ canary.probe)]
        /\ UNCHANGED <<condition, wake, owed, lane, icon, budget>>

\* A mutant of CanaryPaints: a round ends by emptying the slot, so that a
\* burst of requests costs no second round.
MutantDrainsTheSlot ==
    /\ At(canary, "paint")
    /\ Paint(canary.health)
    /\ canary' = [canary EXCEPT !.pc = "wait", !.probe = {}, !.health = "Unknown"]
    /\ wake' = FALSE
    /\ UNCHANGED <<condition, owed, board, lane>>

CanaryPaints ==
    /\ At(canary, "paint")
    /\ Paint(canary.health)
    /\ canary' = [canary EXCEPT !.pc = "wait", !.probe = {}, !.health = "Unknown"]
    /\ UNCHANGED <<condition, wake, owed, board, lane>>

CanaryStep ==
    \/ CanaryIsWoken \/ WaitRunsOut \/ TakePopulation \/ TakeRising \/ AskResident \/ Publish
    \/ CanaryPaints

-----------------------------------------------------------------------------
(* The fast lane. *)

\* verdict_now: the board's readings of what should run now.
VerdictNow ==
    LET asked == {r \in Probed : board[r] # NoRow}
        health == HealthOf(Rows(Rising(board), asked))
    IN  /\ At(lane, "wait")
        /\ lane' = [lane EXCEPT !.pc = "paint", !.health = Folded(health, asked, Residents \ Probed)]
        /\ UNCHANGED <<condition, wake, owed, board, canary, icon, budget>>

LanePaints ==
    /\ lane.pc \in {"paint", "repaint"}
    /\ Paint(lane.health)
    /\ lane' = [lane EXCEPT !.pc = IF @ = "paint" THEN "compare" ELSE "wait", !.health = "Unknown"]
    /\ UNCHANGED <<condition, wake, owed, board, canary>>

\* population_change_wakes_the_canary: the first look wakes nothing.
Compare ==
    LET changed == lane.last # {} /\ lane.last # {Probed}
    IN  /\ At(lane, "compare")
        /\ wake' = (wake \/ changed)
        /\ owed' = (owed \/ changed)
        /\ lane' = [lane EXCEPT !.pc = "copy", !.last = {Probed}]
        /\ UNCHANGED <<condition, board, canary, icon, budget>>

\* refresh_workspace_readability, up to its first question.
CopyBoard ==
    /\ At(lane, "copy")
    /\ lane' = IF Probed = {} \/ board = Blank
               THEN [lane EXCEPT !.pc = "wait"]
               ELSE [lane EXCEPT !.pc = "read", !.copy = board, !.probe = Probed, !.todo = Probed]
    /\ UNCHANGED <<condition, wake, owed, board, canary, icon, budget>>

ReadWorkspace ==
    /\ At(lane, "read")
    /\ lane.todo # {}
    /\ LET r == First(lane.todo)
       IN  lane' = [lane EXCEPT !.todo = @ \ {r},
                                !.unreadable = IF condition[r] = "unreadable" THEN @ \cup {r} ELSE @]
    /\ UNCHANGED <<condition, wake, owed, board, canary, icon, budget>>

\* The rest of it: the copy is written back when a reading changed it.
WriteBack ==
    LET marked == Marked(lane.copy, lane.unreadable)
        health == HealthOf(Rows(marked, Residents))
        changed == marked # lane.copy
        done == [lane EXCEPT !.probe = {}, !.copy = Blank, !.unreadable = {}]
    IN  /\ At(lane, "read")
        /\ lane.todo = {}
        /\ \/ /\ ~changed
              /\ lane' = [done EXCEPT !.pc = "wait"]
              /\ UNCHANGED board
           \/ /\ changed
              /\ lane' = [done EXCEPT !.pc = "repaint",
                                      !.health = Folded(health, lane.probe, Residents \ lane.probe)]
              /\ board' = marked
        /\ UNCHANGED <<condition, wake, owed, canary, icon, budget>>

LaneStep ==
    \/ VerdictNow \/ LanePaints \/ Compare \/ CopyBoard \/ ReadWorkspace
    \/ WriteBack

-----------------------------------------------------------------------------
CanaryNext ==
    \/ \E r \in Residents, c \in Conditions : Turn(r, c)
    \/ RequestRound
    \/ CanaryStep
    \/ LaneStep

\* Both threads loop for good: each wait has a time limit and so has each
\* question to a resident.
CanarySpec == CanaryInit /\ [][CanaryNext]_vars /\ WF_vars(CanaryStep) /\ WF_vars(LaneStep)

-----------------------------------------------------------------------------
\* A row that says green says that all three questions were answered well.
Earned(row) == row # NoRow /\ row.green => row.store /\ row.readable /\ ~row.loading

CanaryState ==
    [pc : {"wait", "begin", "rising", "ask", "paint"}, probe : SUBSET Residents,
     todo : SUBSET Residents, rising : SUBSET Residents, results : Boards, health : Verdicts]
LaneState ==
    [pc : {"wait", "paint", "compare", "copy", "read", "repaint"}, last : SUBSET SUBSET Residents,
     probe : SUBSET Residents, todo : SUBSET Residents, copy : Boards,
     unreadable : SUBSET Residents, health : Verdicts]
IconState == [sent : Verdicts \cup {"none"}, stale : BOOLEAN, shown : Verdicts \cup {"none"}]
BudgetState == [changes : Nat, requests : Nat, faults : Nat]

\* The shape of the state, and every row that says green has earned it.
CanaryTypeOK ==
    /\ condition \in [Residents -> Conditions]
    /\ wake \in BOOLEAN /\ owed \in BOOLEAN
    /\ board \in Boards
    /\ canary \in CanaryState
    /\ lane \in LaneState
    /\ icon \in IconState
    /\ budget \in BudgetState
    /\ \A r \in Residents : Earned(board[r]) /\ Earned(lane.copy[r]) /\ Earned(canary.results[r])

\* "A missed wake only means the periodic cadence applies" (lib.rs:1006), and
\* none is missed here: a round that was asked for, even while the slot was
\* taken or a round ran, is one that looks around after the request.
WakesAreHeard == owed => wake \/ canary.pc = "begin"

\* What the light should say of the residents once an import that goes on has
\* outlived its grace.
Truth ==
    LET fine == {r \in Probed : condition[r] = "well"}
    IN  CASE Probed = {} -> "Idle"
          [] Probed # {} /\ fine = Residents -> "Green"
          [] Probed # {} /\ fine = Probed /\ fine # Residents -> "Reduced"
          [] fine # Probed /\ Probed \ fine \subseteq NotYetReady ->
                IF fine # {} THEN "PartlyUp" ELSE "Loading"
          [] OTHER -> "Degraded"

\* "The light's whole job is to be current when someone looks at it"
\* (lib.rs:111): once the residents stop changing, what is shown is the truth
\* and stays it.
TrayTellsTheTruth == <>[](icon.shown = Truth)

-----------------------------------------------------------------------------
(* What the comments say and the code does not keep. *)

\* Idle is "NOTHING IS RUNNING" (field_view.rs:975).
IdleMeansNobody ==
    [][At(lane, "wait") /\ lane'.pc = "paint" /\ lane'.health = "Idle" => Probed = {}]_vars

\* "It may only ever raise the alarm" (field_view.rs:1258): what the lane writes
\* back turns no row green.
OnlyRaises ==
    [][lane'.pc = "repaint" /\ ~At(lane, "repaint") =>
           \A r \in Residents :
              board[r] # NoRow /\ ~board[r].green => board'[r] = NoRow \/ ~board'[r].green]_vars
=============================================================================
