------------------------- MODULE MCRuntimeManager -------------------------
(* Instances of RuntimeManager small enough for TLC. *)
EXTENDS RuntimeManager, TLC

CONSTANTS p1, p2, p3, w1, w2, t1, t2

\* Two projects that share one workspace.
OneWorkspace == [p \in {p1, p2} |-> w1]

\* Two projects share w1, a third has w2.
SharedAndOwn == (p1 :> w1) @@ (p2 :> w1) @@ (p3 :> w2)

\* Two projects in workspaces of their own.
TwoWorkspaces == (p1 :> w1) @@ (p2 :> w2)

\* One thread that makes every call.
OneThread == t1 :> OpNames

\* Two threads that start, stop and poll.
TwoThreads == [t \in {t1, t2} |-> {"start", "stop", "status"}]

\* One project only, in one workspace.
OneProject == p1 :> w1

\* A command starts and stops; beside it the background start and the poller work.
CommandsAndPoller ==
    (t1 :> {"start", "stop", "stopWs", "remove"}) @@ (t2 :> {"start", "stop", "status"})

\* Pids are interchangeable; so are threads that make the same calls.
PidSymmetry == Permutations(Pids)
PidAndThreadSymmetry == Permutations(Pids) \cup Permutations(Threads)
=============================================================================
