------------------------------ MODULE MCConfig ------------------------------
(* Instances of Settings and Workspaces small enough for TLC.  The two have *)
(* a mutex and a file of their own, so a run looks at the behaviours of    *)
(* each.                                                                   *)
EXTENDS Settings, Workspaces, TLC

CONSTANT Parts \* the parts a run looks at
VARIABLE part  \* the part this behaviour is of

CONSTANTS r1, r2, g1, g2, bad

\* A full update, one refused for its repository, one for its data root.
WindowInputs ==
    {[policy |-> "Ask", root |-> r2, repo |-> g2], [policy |-> "Always", root |-> r1, repo |-> bad],
     [policy |-> "Always", root |-> bad, repo |-> g1]}

SettingsFile(version, policy) ==
    [policy |-> policy, root |-> r1, repo |-> g1, silenced |-> FALSE, seen |-> {},
     latest |-> NoVersion, version |-> version]

\* A file of an older build, and the one a first start writes.
OldAndNew == {SettingsFile(1, "Ask"), SettingsFile(2, "Always")}

CONSTANTS p1, p2, wsA, wsB

Together == (p1 :> wsA) @@ (p2 :> wsA)
Apart == (p1 :> wsA) @@ (p2 :> wsB)

History(where, calls, fleet, restarts, menu) ==
    [registered |-> where, calls |-> calls, fleet |-> fleet, restarts |-> restarts, caps |-> fleet, menu |-> menu]

\* Commands one after the other; with restarts; next to a call of Fleet.
Histories ==
    {History(Together, 4, 0, 0, {"add", "move", "rename", "delete workspace", "delete project", "delete all",
                                 "start", "stop", "stop all", "deploy"}),
     History(Apart, 4, 0, 1, {"start", "stop", "deploy", "add", "delete project", "move", "restore"}),
     History(Apart, 2, 1, 0, {"move", "delete workspace", "start", "start all", "reload all", "toggle"})}

\* A reload after a project has moved; a delete next to a fleet start; a
\* delete after a move and a restart.
MoveAndReload == {History(Apart, 3, 1, 0, {"start", "move", "reload all"})}
DeleteAndStartAll == {History(Apart, 1, 1, 0, {"delete workspace", "start all"})}
MoveAndDelete == {History(Together, 4, 0, 1, {"start", "move", "delete workspace"})}

ConfigInit ==
    /\ SettingsInit /\ WorkspacesInit
    /\ part \in Parts
    /\ \/ part = "settings" /\ plan = CHOOSE p \in Plans : TRUE
       \/ part = "workspaces" /\ file = CHOOSE f \in FirstFiles : TRUE

ConfigNext ==
    \/ part = "settings" /\ SettingsNext /\ UNCHANGED <<wsVars, part>>
    \/ part = "workspaces" /\ WorkspacesNext /\ UNCHANGED <<settingsVars, part>>

ConfigTypeOK == SettingsTypeOK /\ WorkspacesTypeOK

ConfigSpec == ConfigInit /\ [][ConfigNext]_<<settingsVars, wsVars, part>>

ConfigSymmetry == Permutations(SyncThreads) \cup Permutations(Ports)
=============================================================================
