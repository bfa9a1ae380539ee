---------------------------- MODULE CanaryProofs ----------------------------
(* What holds of the canary and the fast lane for every set of residents,  *)
(* every grace and every budget.                                           *)
EXTENDS Canary, TLAPS

USE DEF At, CanaryState, LaneState, IconState, BudgetState

-----------------------------------------------------------------------------
(* What the operators on the board and on the verdict return. *)

LEMMA VerdictTyped ==
    /\ \A rows : HealthOf(rows) \in Verdicts
    /\ \A h \in Verdicts : \A asked, off : Folded(h, asked, off) \in Verdicts
  BY DEF HealthOf, Folded, Verdicts

LEMMA JudgedTyped ==
    ASSUME NEW r, NEW rising
    PROVE  Judged(r, rising) \in Row /\ Earned(Judged(r, rising))
<1> DEFINE c == condition[r]
           row == Judged(r, rising)
<1>1. row \in Row
  <2>1. 0 \in 0..Grace
    BY GraceAssumption
  <2>2. QED
    BY <2>1 DEF Judged, Row
<1>2. row.green => row.store
  BY DEF Judged
<1>3. row.green => row.readable
  BY DEF Judged
<1>4. row.green => ~row.loading
  BY DEF Judged
<1>5. QED
  BY <1>1, <1>2, <1>3, <1>4 DEF Earned

LEMMA BlankTyped == Blank \in Boards /\ \A r \in Residents : Earned(Blank[r])
  BY DEF Blank, Boards, Earned

LEMMA StitchedTyped ==
    ASSUME NEW previous \in Boards, NEW results \in Boards,
           \A r \in Residents : Earned(results[r])
    PROVE  /\ Stitched(previous, results) \in Boards
           /\ \A r \in Residents : Earned(Stitched(previous, results)[r])
  BY DEF Stitched, Boards, Row, Earned, NoRow

LEMMA MarkedTyped ==
    ASSUME NEW b \in Boards, NEW unreadable, \A r \in Residents : Earned(b[r])
    PROVE  /\ Marked(b, unreadable) \in Boards
           /\ \A r \in Residents : Earned(Marked(b, unreadable)[r])
  BY DEF Marked, Boards, Row, Earned, NoRow

LEMMA OlderTyped ==
    ASSUME NEW b \in Boards, \A r \in Residents : Earned(b[r])
    PROVE  /\ Older(b) \in Boards
           /\ \A r \in Residents : Earned(Older(b)[r])
  BY GraceAssumption DEF Older, Boards, Row, Earned, NoRow

LEMMA FirstIsListed == \A list : list # {} => First(list) \in list
  BY DEF First

LEMMA PaintTyped ==
    ASSUME CanaryTypeOK, NEW health \in Verdicts, Paint(health)
    PROVE  /\ icon' \in IconState
           /\ budget' \in BudgetState
<1>1. /\ icon \in IconState
      /\ budget \in BudgetState
  BY DEF CanaryTypeOK
<1>2. \/ icon' = icon
      \/ icon' = [icon EXCEPT !.sent = health, !.stale = FALSE]
      \/ icon' = [icon EXCEPT !.sent = health, !.stale = FALSE, !.shown = health]
  BY DEF Paint
<1>3. \/ budget' = budget
      \/ budget.faults > 0 /\ budget' = [budget EXCEPT !.faults = @ - 1]
  BY DEF Paint
<1>4. budget' \in BudgetState
  BY <1>1, <1>3
<1>5. icon' \in IconState
  <2>1. CASE icon' = icon
    BY <1>1, <2>1
  <2>2. CASE icon' = [icon EXCEPT !.sent = health, !.stale = FALSE]
    BY <1>1, <2>2
  <2>3. CASE icon' = [icon EXCEPT !.sent = health, !.stale = FALSE, !.shown = health]
    BY <1>1, <2>3
  <2>4. QED
    BY <1>2, <2>1, <2>2, <2>3
<1>6. QED
  BY <1>4, <1>5

-----------------------------------------------------------------------------
(* The shape of the state, one step for each action. *)

LEMMA InitTyped == CanaryInit => CanaryTypeOK
<1> SUFFICES ASSUME CanaryInit PROVE CanaryTypeOK
  OBVIOUS
<1>1. condition \in [Residents -> Conditions]
  BY DEF CanaryInit, Conditions
<1>2. canary \in CanaryState
  BY BlankTyped DEF CanaryInit, Verdicts
<1>3. lane \in LaneState
  BY BlankTyped DEF CanaryInit, Verdicts
<1>4. \A r \in Residents : Earned(board[r]) /\ Earned(lane.copy[r]) /\ Earned(canary.results[r])
  BY BlankTyped DEF CanaryInit
<1>5. QED
  BY <1>1, <1>2, <1>3, <1>4, BlankTyped, BudgetAssumption DEF CanaryInit, CanaryTypeOK

LEMMA WorldTyped ==
    ASSUME CanaryTypeOK, \/ RequestRound
                         \/ \E r \in Residents, c \in Conditions : Turn(r, c)
    PROVE  CanaryTypeOK'
<1>1. CASE RequestRound
  BY <1>1 DEF CanaryTypeOK, RequestRound
<1>2. CASE \E r \in Residents, c \in Conditions : Turn(r, c)
  BY <1>2 DEF CanaryTypeOK, Turn
<1>3. QED
  BY <1>1, <1>2

LEMMA CanaryTyped ==
    ASSUME CanaryTypeOK, CanaryStep
    PROVE  CanaryTypeOK'
<1>1. Probed \subseteq Residents /\ NotYetReady \subseteq Residents
  BY DEF Probed, NotYetReady
<1>2. CASE CanaryIsWoken
  BY <1>2 DEF CanaryTypeOK, CanaryIsWoken
<1>3. CASE WaitRunsOut
  <2>1. /\ board' \in Boards
        /\ \A r \in Residents : Earned(board'[r])
    BY <1>3, OlderTyped DEF CanaryTypeOK, WaitRunsOut
  <2>2. /\ Older(lane.copy) \in Boards
        /\ \A r \in Residents : Earned(Older(lane.copy)[r])
    BY OlderTyped DEF CanaryTypeOK
  <2>3. (icon.stale \/ icon.sent # "none") \in BOOLEAN
    BY DEF CanaryTypeOK
  <2>4. QED
    BY <1>3, <2>1, <2>2, <2>3 DEF CanaryTypeOK, WaitRunsOut
<1>4. CASE TakePopulation
  BY <1>1, <1>4 DEF CanaryTypeOK, TakePopulation
<1>5. CASE TakeRising
  BY <1>1, <1>5 DEF CanaryTypeOK, TakeRising
<1>6. CASE AskResident
  <2> DEFINE r == First(canary.todo)
             row == Judged(r, canary.rising)
  <2>1. r \in Residents /\ row \in Row /\ Earned(row)
    BY <1>6, FirstIsListed, JudgedTyped DEF CanaryTypeOK, AskResident
  <2> HIDE DEF r, row
  <2>2. /\ [canary.results EXCEPT ![r] = row] \in Boards
        /\ \A q \in Residents : Earned([canary.results EXCEPT ![r] = row][q])
    BY <2>1 DEF CanaryTypeOK, Boards
  <2>3. canary' = [canary EXCEPT !.todo = @ \ {r}, !.results = [canary.results EXCEPT ![r] = row]]
    BY <1>6 DEF AskResident, r, row, CanaryTypeOK
  <2>4. /\ canary' \in CanaryState
        /\ canary'.results = [canary.results EXCEPT ![r] = row]
    BY <2>2, <2>3 DEF CanaryTypeOK
  <2>5. QED
    BY <1>6, <2>2, <2>4 DEF CanaryTypeOK, AskResident
<1>7. CASE Publish
  <2>1. /\ board' \in Boards
        /\ \A r \in Residents : Earned(board'[r])
    BY <1>7, StitchedTyped DEF CanaryTypeOK, Publish
  <2>2. Folded(HealthOf(Rows(Stitched(board, canary.results), Residents)), canary.probe,
               Residents \ canary.probe) \in Verdicts
    BY VerdictTyped
  <2>3. QED
    BY <1>7, <2>1, <2>2, BlankTyped DEF CanaryTypeOK, Publish
<1>8. CASE CanaryPaints
  <2>1. canary.health \in Verdicts /\ "Unknown" \in Verdicts
    BY DEF CanaryTypeOK, Verdicts
  <2>2. QED
    BY <1>8, <2>1, PaintTyped DEF CanaryTypeOK, CanaryPaints
<1>9. QED
  BY <1>2, <1>3, <1>4, <1>5, <1>6, <1>7, <1>8 DEF CanaryStep

LEMMA LaneTyped ==
    ASSUME CanaryTypeOK, LaneStep
    PROVE  CanaryTypeOK'
<1>1. Probed \subseteq Residents
  BY DEF Probed
<1>2. CASE VerdictNow
  <2>1. lane'.health \in Verdicts /\ lane' = [lane EXCEPT !.pc = "paint", !.health = lane'.health]
    BY <1>2, VerdictTyped DEF CanaryTypeOK, VerdictNow
  <2>2. QED
    BY <1>2, <2>1 DEF CanaryTypeOK, VerdictNow
<1>3. CASE LanePaints
  <2>1. lane.health \in Verdicts /\ "Unknown" \in Verdicts
    BY DEF CanaryTypeOK, Verdicts
  <2>2. QED
    BY <1>3, <2>1, PaintTyped DEF CanaryTypeOK, LanePaints
<1>4. CASE Compare
  <2>1. wake' \in BOOLEAN /\ owed' \in BOOLEAN
    BY <1>4 DEF CanaryTypeOK, Compare
  <2>2. lane' = [lane EXCEPT !.pc = "copy", !.last = {Probed}] /\ {Probed} \in SUBSET SUBSET Residents
    BY <1>1, <1>4 DEF Compare
  <2>3. /\ lane' \in LaneState
        /\ lane'.copy = lane.copy
    <3>1. lane \in LaneState
      BY DEF CanaryTypeOK
    <3>2. QED
      BY <2>2, <3>1
  <2>4. UNCHANGED <<condition, board, canary, icon, budget>>
    BY <1>4 DEF Compare
  <2>5. QED
    BY <2>1, <2>3, <2>4 DEF CanaryTypeOK
<1>5. CASE CopyBoard
  BY <1>1, <1>5 DEF CanaryTypeOK, CopyBoard
<1>6. CASE ReadWorkspace
  <2>1. First(lane.todo) \in Residents
    BY <1>6, FirstIsListed DEF CanaryTypeOK, ReadWorkspace
  <2>2. QED
    BY <1>6, <2>1 DEF CanaryTypeOK, ReadWorkspace
<1>7. CASE WriteBack
  <2> DEFINE marked == Marked(lane.copy, lane.unreadable)
             health == Folded(HealthOf(Rows(marked, Residents)), lane.probe, Residents \ lane.probe)
  <2>1. marked \in Boards /\ \A r \in Residents : Earned(marked[r])
    BY MarkedTyped DEF CanaryTypeOK
  <2>2. health \in Verdicts
    BY VerdictTyped
  <2>3. \/ /\ board' = board
           /\ lane' = [lane EXCEPT !.probe = {}, !.copy = Blank, !.unreadable = {}, !.pc = "wait"]
        \/ /\ board' = marked
           /\ lane' = [lane EXCEPT !.probe = {}, !.copy = Blank, !.unreadable = {}, !.pc = "repaint",
                                   !.health = health]
    BY <1>7 DEF WriteBack, CanaryTypeOK
  <2> HIDE DEF marked, health
  <2>4. /\ lane' \in LaneState
        /\ lane'.copy = Blank
    <3>1. lane \in LaneState
      BY DEF CanaryTypeOK
    <3>2. CASE lane' = [lane EXCEPT !.probe = {}, !.copy = Blank, !.unreadable = {}, !.pc = "wait"]
      BY <3>1, <3>2, BlankTyped
    <3>3. CASE lane' = [lane EXCEPT !.probe = {}, !.copy = Blank, !.unreadable = {}, !.pc = "repaint",
                                    !.health = health]
      BY <3>1, <3>3, <2>2, BlankTyped
    <3>4. QED
      BY <2>3, <3>2, <3>3
  <2>5. board' \in Boards /\ \A r \in Residents : Earned(board'[r])
    BY <2>1, <2>3 DEF CanaryTypeOK
  <2>6. UNCHANGED <<condition, wake, owed, canary, icon, budget>>
    BY <1>7 DEF WriteBack
  <2>7. QED
    BY <2>4, <2>5, <2>6, BlankTyped DEF CanaryTypeOK
<1>8. QED
  BY <1>2, <1>3, <1>4, <1>5, <1>6, <1>7 DEF LaneStep

\* The state keeps its shape, and a row that says green was answered well in
\* all three questions wherever it is kept: on the board, in the answers of a
\* round and in the lane's copy, whichever thread wrote it last.
THEOREM CanaryTypeCorrect == CanarySpec => []CanaryTypeOK
<1>1. CanaryTypeOK /\ [CanaryNext]_vars => CanaryTypeOK'
  <2>1. ASSUME CanaryTypeOK, UNCHANGED vars PROVE CanaryTypeOK'
    BY <2>1 DEF CanaryTypeOK, vars
  <2>2. QED
    BY <2>1, WorldTyped, CanaryTyped, LaneTyped DEF CanaryNext
<1>2. QED
  BY <1>1, InitTyped, PTL DEF CanarySpec

-----------------------------------------------------------------------------
(* The wake. *)

LEMMA WakeIsKept == CanaryTypeOK /\ WakesAreHeard /\ [CanaryNext]_vars => WakesAreHeard'
<1> SUFFICES ASSUME CanaryTypeOK, WakesAreHeard, [CanaryNext]_vars PROVE WakesAreHeard'
  OBVIOUS
<1>1. CASE UNCHANGED vars
  BY <1>1 DEF WakesAreHeard, vars
<1>2. CASE RequestRound
  BY <1>2 DEF WakesAreHeard, RequestRound
<1>3. CASE \E r \in Residents, c \in Conditions : Turn(r, c)
  BY <1>3 DEF WakesAreHeard, Turn
<1>4. CASE CanaryStep
  <2>1. CASE CanaryIsWoken
    BY <2>1 DEF CanaryIsWoken, WakesAreHeard, CanaryTypeOK
  <2>2. CASE WaitRunsOut
    BY <2>2 DEF WaitRunsOut, WakesAreHeard, CanaryTypeOK
  <2>3. CASE TakePopulation
    BY <2>3 DEF TakePopulation, WakesAreHeard
  <2>4. CASE TakeRising \/ AskResident \/ Publish \/ CanaryPaints
    <3>1. canary.pc # "begin" /\ UNCHANGED <<wake, owed>>
      BY <2>4 DEF TakeRising, AskResident, Publish, CanaryPaints
    <3>2. QED
      BY <3>1 DEF WakesAreHeard
  <2>5. QED
    BY <1>4, <2>1, <2>2, <2>3, <2>4 DEF CanaryStep
<1>5. CASE LaneStep
  <2>1. CASE Compare
    BY <2>1 DEF Compare, WakesAreHeard, CanaryTypeOK
  <2>2. CASE VerdictNow \/ LanePaints \/ CopyBoard \/ ReadWorkspace \/ WriteBack
    BY <2>2 DEF VerdictNow, LanePaints, CopyBoard, ReadWorkspace, WriteBack, WakesAreHeard
  <2>3. QED
    BY <1>5, <2>1, <2>2 DEF LaneStep
<1>6. QED
  BY <1>1, <1>2, <1>3, <1>4, <1>5 DEF CanaryNext

\* No request is lost in the slot of one: whoever asked for a round, even while
\* the slot was taken or a round was running, there is a round that looks
\* around after the request.
THEOREM NoWakeIsLost == CanarySpec => []WakesAreHeard
<1>1. CanaryInit => WakesAreHeard
  BY DEF CanaryInit, WakesAreHeard
<1>2. QED
  BY <1>1, CanaryTypeCorrect, WakeIsKept, PTL DEF CanarySpec
=============================================================================
