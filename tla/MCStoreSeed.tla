----------------------------- MODULE MCStoreSeed -----------------------------
(* Instances of StoreSeed small enough for TLC. *)
EXTENDS StoreSeed, TLC

CONSTANTS r1, r2, r3, s1, s2, b1, b2, current

\* Two residents share a store, a third has its own.
SharedStore == (r1 :> s1) @@ (r2 :> s1) @@ (r3 :> s2)

\* One resident.
OneStore == r1 :> s1

\* A managed engine: every build is launched through the current link.
ThroughCurrent == [b \in {b1, b2} |-> current]

SeederSymmetry == Permutations(Seeders)
=============================================================================
