------------------------------- MODULE MCHook -------------------------------
(* Instances of the hook's modules small enough for TLC. The observer, the *)
(* gates of edits and the stop gate share no file, so a behaviour of one   *)
(* next to a behaviour of another shows nothing that they do not show      *)
(* apart: a run looks at the behaviours of each.                           *)
EXTENDS ObserverJudge, EditGates, StopGate

VARIABLE part  \* the part this behaviour is of

Session(calls, siblings, kinds, deaths, time) ==
    [calls |-> calls, siblings |-> siblings, kinds |-> kinds, faults |-> deaths, time |-> time]

\* Calls one after the other, with a killed process and time; sibling calls.
ObserverSessions ==
    {Session(4, 1, {"plain", "wait"}, 1, 0), Session(4, 1, {"wait"}, 1, 1),
     Session(3, 1, {"plain", "wait"}, 1, 1), Session(5, 1, {"declare"}, 1, 2),
     Session(5, 1, {"plain"}, 0, 0), Session(3, 2, {"wait"}, 0, 0)}

CONSTANTS jobA, jobB, noJob

DeclareAuthoring == CallOf("author", <<>>, noJob, FALSE)
DeclareFailure == CallOf("author", <<"move">>, noJob, FALSE)
GiveAnswer == CallOf("answer", <<>>, noJob, FALSE)
RunCommand == CallOf("bash", <<>>, noJob, FALSE)
AuthorEdit == CallOf("edit", <<>>, jobA, TRUE)
MoveEdit == CallOf("edit", <<"move">>, noJob, FALSE)
MoveEditB == CallOf("edit", <<"move">>, jobB, FALSE)
TwoMoves == CallOf("edit", <<"move", "move">>, noJob, FALSE)
NewFile == CallOf("edit", <<>>, jobB, TRUE)

Plan(calls, siblings, menu, time) ==
    [calls |-> calls, siblings |-> siblings, menu |-> menu, time |-> time]

\* Shaped edits, nominated writes, commands: one after the other or siblings.
GatePlans ==
    {Plan(4, 1, {DeclareAuthoring, DeclareFailure, MoveEdit, TwoMoves}, 1), Plan(5, 1, {GiveAnswer, AuthorEdit, NewFile}, 0),
     Plan(4, 1, {GiveAnswer, AuthorEdit, DeclareFailure, MoveEditB}, 0), Plan(3, 1, {DeclareAuthoring, RunCommand, MoveEdit}, 2),
     Plan(3, 2, {DeclareFailure, MoveEdit}, 0), Plan(3, 2, {GiveAnswer, AuthorEdit}, 0),
     Plan(2, 2, {RunCommand}, 1)}

\* What the agent does up to its stops, in clients that mark retries or not, with
\* a store that may fall silent or not, where a counter may be lost or not.
StopSituations ==
    {Situation({"work", "job", "judge", "poor"}, TRUE, FALSE, TRUE),
     Situation({"work", "judge", "story", "poor"}, TRUE, TRUE, TRUE),
     Situation({"work", "job", "judge", "members", "poor"}, FALSE, TRUE, FALSE),
     Situation({"work", "judge", "story", "members"}, TRUE, TRUE, FALSE),
     Situation({"work", "story", "members", "poor"}, FALSE, TRUE, TRUE),
     Situation({"wakeup", "judge", "audit", "poor"}, TRUE, FALSE, FALSE),
     Situation({"work", "story", "members", "audit"}, FALSE, FALSE, TRUE),
     Situation({"story", "members", "audit"}, TRUE, TRUE, FALSE)}

HookInit ==
    /\ ObserverInit /\ GatesInit /\ StopInit
    /\ part \in {"observer", "gates", "stop"}
    /\ part = "observer" \/ session = CHOOSE s \in Sessions : TRUE
    /\ part = "gates"    \/ plan = CHOOSE p \in Plans : TRUE
    /\ part = "stop"     \/ situation = CHOOSE s \in Situations : TRUE

HookNext ==
    \/ part = "observer" /\ ObserverNext /\ UNCHANGED <<gatesVars, stopVars, part>>
    \/ part = "gates" /\ GatesNext /\ UNCHANGED <<observerVars, stopVars, part>>
    \/ part = "stop" /\ StopNext /\ UNCHANGED <<observerVars, gatesVars, part>>

\* The files of all parts are what their readers expect.
HookTypeOK == ObserverTypeOK /\ GatesTypeOK /\ StopTypeOK

HookSpec == HookInit /\ [][HookNext]_<<observerVars, gatesVars, stopVars, part>>
=============================================================================
