-------------------------------- MODULE OneUse --------------------------------
(***************************************************************************)
(* What a one-use record of the hook promises (jawata-hook/src/oneshot.rs):*)
(* "a record kept for one session that is good for ONE use and for a       *)
(* bounded time". A record is opened, replacing an earlier one, it may be  *)
(* dropped, and every use takes a record away. So there are never more     *)
(* uses than records were opened, however many hook processes run.         *)
(***************************************************************************)
EXTENDS Integers, FiniteSets

VARIABLES
    there,   \* there is a record, used or not, fresh or not
    opened,  \* how often one was opened
    used     \* how often one was used

oneUseVars == <<there, opened, used>>

OneUseInit == there = FALSE /\ opened = 0 /\ used = 0

\* open, lines 24-31: the write replaces what is there.
Open == there' = TRUE /\ opened' = opened + 1 /\ UNCHANGED used

\* discard, lines 85-87.
Drop == there /\ there' = FALSE /\ UNCHANGED <<opened, used>>

\* take_within, lines 67-82: the removal succeeded.
Use == there /\ there' = FALSE /\ used' = used + 1 /\ UNCHANGED opened

OneUseNext == Open \/ Drop \/ Use

OneUseSpec == OneUseInit /\ [][OneUseNext]_oneUseVars

-----------------------------------------------------------------------------

\* What is left to use: at most what was opened and not used.
Bounded == used <= opened /\ (there => used < opened)

UsesBounded == used <= opened
=============================================================================
