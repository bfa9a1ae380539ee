--------------------------- MODULE ResidentCustody ---------------------------
(***************************************************************************)
(* What the runtime manager promises about the residents, without saying   *)
(* how (src-tauri/src/runtime_manager.rs, RuntimeProcess: "ownership       *)
(* survives a Studio restart", "Stop must act or report honestly").        *)
(* A process Studio launches or adopts is in its custody. Studio ends only *)
(* residents in its custody, and it lets go of one only when it no longer  *)
(* runs, or when Studio itself ends.                                       *)
(***************************************************************************)
CONSTANT Pids

VARIABLES
    fate,     \* each pid: no resident, a running one, how the last one ended
    custody   \* the pids Studio answers for

vars == <<fate, custody>>

Fates == {"none", "running", "exited", "stopped"}

Init ==
    /\ fate = [x \in Pids |-> "none"]
    /\ custody = {}

\* Studio spawns a resident.
Launch(x) ==
    /\ fate[x] # "running"
    /\ fate' = [fate EXCEPT ![x] = "running"]
    /\ custody' = custody \cup {x}

\* Studio takes up a process it found.
Adopt(x) ==
    /\ custody' = custody \cup {x}
    /\ UNCHANGED fate

\* A resident ends by itself or from outside.
Exit(x) ==
    /\ fate[x] = "running"
    /\ fate' = [fate EXCEPT ![x] = "exited"]
    /\ UNCHANGED custody

\* The pid of an ended resident goes to some other process.
Recycle(x) ==
    /\ fate[x] \in {"exited", "stopped"}
    /\ fate' = [fate EXCEPT ![x] = "none"]
    /\ UNCHANGED custody

\* Studio ends a resident it holds.
Terminate(x) ==
    /\ fate[x] = "running" /\ x \in custody
    /\ fate' = [fate EXCEPT ![x] = "stopped"]
    /\ custody' \in {custody, custody \ {x}}

\* Studio lets go of a pid whose resident no longer runs.
LetGo(x) ==
    /\ x \in custody /\ fate[x] # "running"
    /\ custody' = custody \ {x}
    /\ UNCHANGED fate

\* Studio ends.
End ==
    /\ custody' = {}
    /\ UNCHANGED fate

Next ==
    \/ \E x \in Pids : \/ Launch(x) \/ Adopt(x) \/ Exit(x)
                       \/ Recycle(x) \/ Terminate(x) \/ LetGo(x)
    \/ End

Spec == Init /\ [][Next]_vars
=============================================================================
