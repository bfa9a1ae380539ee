------------------------------ MODULE MCCanary ------------------------------
(* An instance of Canary small enough for TLC.                             *)
EXTENDS Canary

Budget(changes, requests, faults) ==
    [changes |-> changes, requests |-> requests, faults |-> faults]

\* Changes alone; a change while rounds are asked for; an icon that is lost.
SmallBudgets == {Budget(2, 0, 0), Budget(1, 1, 0), Budget(1, 0, 1)}
=============================================================================
