----------------------------- MODULE ObserverProofs -----------------------------
(***************************************************************************)
(* What is proved of the observer of the hook, for any sessions and times. *)
(*                                                                         *)
(* What a one-use record promises holds of the verdict and of the reminder *)
(* for any number of calls, siblings, judges, killed processes and time:   *)
(* every step of the observer opens, drops or uses the record, or leaves   *)
(* it alone (the refinement), and such steps never use more records than   *)
(* were opened (the inductive invariant of OneUse).                        *)
(*                                                                         *)
(* OInv says, while calls follow each other, what a halt, a marker and a   *)
(* brief say of the judges and the calls, and what every line of the       *)
(* ledger says of its call. HookBecomes and JudgeBecomes say once what     *)
(* each action makes of its call or judge, HookTouches which files it      *)
(* leaves alone; the step of each part of OInv builds on these.            *)
(***************************************************************************)
EXTENDS ObserverJudge, NaturalsInduction, WellFoundedInduction, FiniteSetTheorems, TLAPS

-----------------------------------------------------------------------------
\* The counters count: the one type fact the refinement needs.
NumbersTypeOK == halts \in [opened : Nat, used : Nat] /\ notes \in [opened : Nat, used : Nat]

\* A step of the observer's next-state relation is one of these.
LEMMA NextCases ==
    ASSUME ObserverNext
    PROVE  \/ UNCHANGED <<verdict, halts, reminder, notes>>
           \/ (\E c \in Calls : SetReminder(c)) /\ UNCHANGED <<verdict, halts>>
           \/ (\E c \in Calls : TakeVerdict(c)) /\ UNCHANGED <<reminder, notes>>
           \/ (\E c \in Calls : TakeReminder(c)) /\ UNCHANGED <<verdict, halts>>
           \/ (\E j \in Judges : Hire(j)) /\ UNCHANGED <<reminder, notes>>
  <1> USE DEF files, auxiliary
  <1>1. ASSUME NEW c \in Calls, HookStep(c)
        PROVE  \/ UNCHANGED <<verdict, halts, reminder, notes>>
               \/ SetReminder(c) /\ UNCHANGED <<verdict, halts>>
               \/ TakeVerdict(c) /\ UNCHANGED <<reminder, notes>>
               \/ TakeReminder(c) /\ UNCHANGED <<verdict, halts>>
    <2>1. CASE Begin(c)
      BY <2>1 DEF Begin
    <2>2. CASE RemindHalt(c)
      BY <2>2 DEF RemindHalt
    <2>3. CASE AppendCall(c)
      BY <2>3 DEF AppendCall
    <2>4. CASE ReadVerdict(c)
      BY <2>4 DEF ReadVerdict
    <2>5. CASE TakeVerdict(c)
      BY <2>5 DEF TakeVerdict
    <2>6. CASE RemindJudged(c)
      BY <2>6 DEF RemindJudged
    <2>7. CASE Due(c)
      BY <2>7 DEF Due
    <2>8. CASE WriteBrief(c)
      BY <2>8 DEF WriteBrief
    <2>9. CASE OpenMarker(c)
      BY <2>9 DEF OpenMarker
    <2>10. CASE MarkJudged(c)
      BY <2>10 DEF MarkJudged
    <2>11. CASE Spawn(c)
      BY <2>11 DEF Spawn
    <2>12. CASE End(c)
      BY <2>12 DEF End
    <2>13. CASE ReadReminder(c)
      BY <2>13 DEF ReadReminder
    <2>14. CASE TakeReminder(c)
      BY <2>14 DEF TakeReminder
    <2>15. CASE Kill(c)
      BY <2>15 DEF Kill
    <2>16. CASE Deliver(c)
      BY <2>16 DEF Deliver
    <2> QED
      BY <1>1, <2>1, <2>2, <2>3, <2>4, <2>5, <2>6, <2>7, <2>8, <2>9, <2>10, <2>11, <2>12,
         <2>13, <2>14, <2>15, <2>16 DEF HookStep
  <1>2. ASSUME NEW j \in Judges, JudgeStep(j)
        PROVE  \/ UNCHANGED <<verdict, halts, reminder, notes>>
               \/ Hire(j) /\ UNCHANGED <<reminder, notes>>
    BY <1>2 DEF JudgeStep, ReadBrief, Hire, DropMarker, JudgeDies
  <1>3. ASSUME ObserverTick PROVE UNCHANGED <<verdict, halts, reminder, notes>>
    BY <1>3 DEF ObserverTick
  <1> QED
    BY <1>1, <1>2, <1>3 DEF ObserverNext

LEMMA CountersInit == ObserverInit => NumbersTypeOK
  BY DEF ObserverInit, NumbersTypeOK

LEMMA CountersStep == NumbersTypeOK /\ [ObserverNext]_observerVars => NumbersTypeOK'
  <1> SUFFICES ASSUME NumbersTypeOK, [ObserverNext]_observerVars PROVE NumbersTypeOK'
    OBVIOUS
  <1>1. CASE UNCHANGED <<verdict, halts, reminder, notes>>
    BY <1>1 DEF NumbersTypeOK
  <1>2. ASSUME NEW c \in Calls, SetReminder(c), UNCHANGED halts PROVE NumbersTypeOK'
    BY <1>2 DEF SetReminder, NumbersTypeOK
  <1>3. ASSUME NEW c \in Calls, TakeVerdict(c), UNCHANGED notes PROVE NumbersTypeOK'
    BY <1>3 DEF TakeVerdict, NumbersTypeOK
  <1>4. ASSUME NEW c \in Calls, TakeReminder(c), UNCHANGED halts PROVE NumbersTypeOK'
    BY <1>4 DEF TakeReminder, NumbersTypeOK
  <1>5. ASSUME NEW j \in Judges, Hire(j), UNCHANGED notes PROVE NumbersTypeOK'
    BY <1>5 DEF Hire, NumbersTypeOK
  <1>6. CASE UNCHANGED observerVars
    BY <1>6, <1>1 DEF observerVars, files, auxiliary
  <1> QED
    BY <1>1, <1>2, <1>3, <1>4, <1>5, <1>6, NextCases

-----------------------------------------------------------------------------
(* Every step is a step of the record, or leaves it alone.                  *)

LEMMA VerdictStep ==
    NumbersTypeOK /\ [ObserverNext]_observerVars
        => [VerdictFile!OneUseNext]_(VerdictFile!oneUseVars)
  <1> SUFFICES ASSUME NumbersTypeOK, [ObserverNext]_observerVars
               PROVE  [VerdictFile!OneUseNext]_(VerdictFile!oneUseVars)
    OBVIOUS
  <1> USE DEF VerdictFile!oneUseVars
  <1>1. CASE UNCHANGED <<verdict, halts>>
    BY <1>1
  <1>2. ASSUME NEW c \in Calls, TakeVerdict(c), verdict = {} PROVE UNCHANGED <<verdict, halts>>
    BY <1>2 DEF TakeVerdict
  <1>3. ASSUME NEW c \in Calls, TakeVerdict(c), verdict # {} PROVE VerdictFile!Use
    BY <1>3 DEF TakeVerdict, VerdictFile!Use, NumbersTypeOK
  <1>4. ASSUME NEW j \in Judges, Hire(j)
        PROVE  VerdictFile!Open \/ VerdictFile!Drop \/ UNCHANGED <<verdict, halts>>
    BY <1>4 DEF Hire, Record, VerdictFile!Open, VerdictFile!Drop, NumbersTypeOK
  <1>5. CASE UNCHANGED observerVars
    BY <1>5, <1>1 DEF observerVars, files, auxiliary
  <1> QED
    BY <1>1, <1>2, <1>3, <1>4, <1>5, NextCases DEF VerdictFile!OneUseNext

LEMMA ReminderStep ==
    NumbersTypeOK /\ [ObserverNext]_observerVars
        => [ReminderFile!OneUseNext]_(ReminderFile!oneUseVars)
  <1> SUFFICES ASSUME NumbersTypeOK, [ObserverNext]_observerVars
               PROVE  [ReminderFile!OneUseNext]_(ReminderFile!oneUseVars)
    OBVIOUS
  <1> USE DEF ReminderFile!oneUseVars
  <1>1. CASE UNCHANGED <<reminder, notes>>
    BY <1>1
  <1>2. ASSUME NEW c \in Calls, TakeReminder(c), reminder = {}
        PROVE  UNCHANGED <<reminder, notes>>
    BY <1>2 DEF TakeReminder, NumbersTypeOK
  <1>3. ASSUME NEW c \in Calls, TakeReminder(c), reminder # {} PROVE ReminderFile!Use
    BY <1>3 DEF TakeReminder, ReminderFile!Use, NumbersTypeOK
  <1>4. ASSUME NEW c \in Calls, SetReminder(c) PROVE ReminderFile!Open
    BY <1>4 DEF SetReminder, Record, ReminderFile!Open, NumbersTypeOK
  <1>5. CASE UNCHANGED observerVars
    BY <1>5, <1>1 DEF observerVars, files, auxiliary
  <1> QED
    BY <1>1, <1>2, <1>3, <1>4, <1>5, NextCases DEF ReminderFile!OneUseNext

\* Both records of the observer are one-use records (oneshot.rs:1), among any
\* number of overlapping hooks and judges.
THEOREM ObserverKeepsOneUse == ObserverSpec => RecordsAreOneUse
  <1>1. ObserverInit => VerdictFile!OneUseInit /\ ReminderFile!OneUseInit
    BY DEF ObserverInit, VerdictFile!OneUseInit, ReminderFile!OneUseInit
  <1> QED
    BY <1>1, CountersInit, CountersStep, VerdictStep, ReminderStep, PTL
       DEF ObserverSpec, RecordsAreOneUse, VerdictFile!OneUseSpec, ReminderFile!OneUseSpec

\* What is used and what is left of a record is bounded by what was opened.
LEMMA BoundedStep ==
    NumbersTypeOK /\ VerdictFile!Bounded /\ ReminderFile!Bounded
        /\ [VerdictFile!OneUseNext]_(VerdictFile!oneUseVars)
        /\ [ReminderFile!OneUseNext]_(ReminderFile!oneUseVars)
        /\ NumbersTypeOK'
    => VerdictFile!Bounded' /\ ReminderFile!Bounded'
  <1> SUFFICES ASSUME NumbersTypeOK, NumbersTypeOK', VerdictFile!Bounded, ReminderFile!Bounded,
                      [VerdictFile!OneUseNext]_(VerdictFile!oneUseVars),
                      [ReminderFile!OneUseNext]_(ReminderFile!oneUseVars)
               PROVE  VerdictFile!Bounded' /\ ReminderFile!Bounded'
    OBVIOUS
  <1> USE DEF NumbersTypeOK
  <1>1. VerdictFile!Bounded'
    <2> USE DEF VerdictFile!Bounded
    <2>1. CASE VerdictFile!Open
      BY <2>1 DEF VerdictFile!Open
    <2>2. CASE VerdictFile!Drop
      BY <2>2 DEF VerdictFile!Drop
    <2>3. CASE VerdictFile!Use
      BY <2>3 DEF VerdictFile!Use
    <2> QED
      BY <2>1, <2>2, <2>3 DEF VerdictFile!OneUseNext, VerdictFile!oneUseVars
  <1>2. ReminderFile!Bounded'
    <2> USE DEF ReminderFile!Bounded
    <2>1. CASE ReminderFile!Open
      BY <2>1 DEF ReminderFile!Open
    <2>2. CASE ReminderFile!Drop
      BY <2>2 DEF ReminderFile!Drop
    <2>3. CASE ReminderFile!Use
      BY <2>3 DEF ReminderFile!Use
    <2> QED
      BY <2>1, <2>2, <2>3 DEF ReminderFile!OneUseNext, ReminderFile!oneUseVars
  <1> QED
    BY <1>1, <1>2

\* Neither record is ever used more often than one was opened (oneshot.rs:79,
\* "if the removal fails the record must not be usable twice").
THEOREM UsesAreBounded ==
    ObserverSpec => [](VerdictFile!UsesBounded /\ ReminderFile!UsesBounded)
  <1>1. ObserverInit => VerdictFile!Bounded /\ ReminderFile!Bounded
    BY DEF ObserverInit, VerdictFile!Bounded, ReminderFile!Bounded
  <1>2. VerdictFile!Bounded /\ ReminderFile!Bounded
            => VerdictFile!UsesBounded /\ ReminderFile!UsesBounded
    BY DEF VerdictFile!Bounded, ReminderFile!Bounded, VerdictFile!UsesBounded,
           ReminderFile!UsesBounded
  <1> QED
    BY <1>1, <1>2, CountersInit, CountersStep, VerdictStep, ReminderStep, BoundedStep, PTL
       DEF ObserverSpec

-----------------------------------------------------------------------------
(* The observer: its ledger, halts and judges.                              *)

LedgerLine == [line : {"c", "o", "h", "j"}, n : Nat,
               what : Kinds \cup Classes \cup {"deny", "allow", "judged"}, of : Calls]
HookRecord == [pc : GuardPcs \cup PostPcs \cup {"idle", "done", "refused"}, kind : Kinds, number : Nat,
               halt : Classes \cup {NoClass}, seen : Nat, handed : Nat, refused : BOOLEAN]
JudgeRecord == [pc : {"idle", "read", "hire", "clear", "done"},
                since : Nat, handed : Nat, brief : Nat]

Numbered(l) == {l[i].n : i \in Lines(l, "c") \cup Lines(l, "h")}
IsTop(l, m) == m \in {0} \cup Numbered(l) /\ \A x \in Numbered(l) : x <= m

Single(f) == \A r, s \in f : r = s

\* The types, that the ledger has a highest number, that a file holds one record.
ObserverTyped ==
    /\ session \in Sessions /\ faults \in 0..session.faults
    /\ now \in Nat /\ brief \in Nat
    /\ ledger \in Seq(LedgerLine) /\ (\E m \in Nat : IsTop(ledger, m))
    /\ reminder \in SUBSET [at : Nat, what : Calls] /\ Single(reminder)
    /\ verdict \in SUBSET [at : Nat, what : Judges] /\ Single(verdict)
    /\ marker \in SUBSET [at : Nat, what : Calls] /\ Single(marker)
    /\ hook \in [Calls -> HookRecord] /\ judge \in [Judges -> JudgeRecord]
    /\ \A c \in Calls : hook[c].pc = "taking" => hook[c].seen \in Judges
    /\ delivered \in [Judges -> Nat] /\ withdrawn \subseteq Judges
    /\ overlapped \in BOOLEAN /\ outlived \in BOOLEAN

\* Calls follow each other.
OneUnderWay == ~overlapped => \A c, d \in Calls : UnderWay(c) /\ UnderWay(d) => c = d

\* A halt that lies there, or that a call is about to take, reached no call; a judge
\* that has not answered has no halt.
Delivery ==
    ~overlapped =>
        /\ \A j \in Judges : judge[j].pc \in {"idle", "read", "hire"} =>
              /\ delivered[j] = 0 /\ j \notin withdrawn
              /\ \A r \in verdict : r.what # j
              /\ \A c \in Calls : hook[c].pc = "taking" => hook[c].seen # j
        /\ \A r \in verdict : delivered[r.what] = 0
        /\ \A c \in Calls : hook[c].pc = "taking" => delivered[hook[c].seen] = 0
        /\ \A j \in Judges : delivered[j] <= 1

\* One judge, with the marker of its call and its window in the brief; none while
\* a call is about to start one; and what was withdrawn is out of reach.
JudgeFits(j) ==
    LET k == judge[j] IN
    /\ Running(j) => (\E c \in Calls : marker = Record(c, k.since)) /\ now - k.since < InFlight
    /\ k.pc = "read" => brief = k.handed
    /\ k.pc \in {"hire", "clear"} => k.brief = k.handed

CallFitsJudge(c) ==
    LET h == hook[c] IN
    /\ h.pc \in {"brief", "mark", "handOver", "spawn"} => \A j \in Judges : ~Running(j)
    /\ h.pc \in {"mark", "handOver", "spawn"} => brief = h.handed
    /\ h.pc \in {"handOver", "spawn"} => marker = Record(c, h.seen)
    /\ h.pc = "taking" /\ h.seen \in withdrawn
         => verdict = {} /\ \A j \in Judges : judge[j].pc \notin {"read", "hire"}

Judging ==
    calm =>
        /\ \A j, k \in Judges : Running(j) /\ Running(k) => j = k
        /\ \A j \in Judges : JudgeFits(j)
        /\ \A c \in Calls : CallFitsJudge(c)
        /\ \A j \in withdrawn : delivered[j] = 0
        /\ \A r \in verdict : r.what \notin withdrawn

\* Numbers grow along the ledger, two halts of a class are a window apart, and a
\* call has one line.
Growing(l, kind) == \A i, k \in Lines(l, kind) : i < k => l[i].n < l[k].n

HaltsApart(l) ==
    \A h, k \in Lines(l, "h") : h < k /\ l[h].what = l[k].what => l[k].n - l[h].n > Window

OnceEach(l) == \A i, k \in Lines(l, "c") : l[i].of = l[k].of => i = k

\* What the line of a call and its outcome say of the hooks.
Gone  == {"answer", "refused", "post", "telling", "done"}
Later == {"tier2", "taking", "remindJudged", "due", "brief", "mark", "handOver", "spawn", "rules", "end"}

CallLine(l, hooks, i) ==
    LET h == hooks[l[i].of] IN
    /\ h.pc \notin {"idle", "remind", "append"}
    /\ h.pc \in Later => l[i].n = h.number
    /\ h.refused
         => \E o \in Lines(l, "o") : i < o /\ l[o].n = l[i].n /\ l[o].what = "deny"

OutcomeLine(l, hooks, o) ==
    /\ \E i \in Lines(l, "c") : i < o /\ l[i].n = l[o].n /\ l[i].of = l[o].of
    /\ l[o].what = "deny" => hooks[l[o].of].refused

\* A call that is not in the ledger yet comes after all that is, and its halt is a
\* window after the last one of its class; later it has its line.
Ahead(l, h) ==
    h.pc \in {"remind", "append"} =>
        /\ IsTop(l, h.number - 1)
        /\ \A i \in Lines(l, "h") : l[i].what = h.halt => h.number - l[i].n > Window

InLedger(l, h, c) ==
    /\ Ahead(l, h)
    /\ h.refused => h.pc \in Gone
    /\ h.pc \in Later => \E i \in Lines(l, "c") : l[i].of = c

LedgerFits(l, hooks) ==
    /\ Growing(l, "c") /\ Growing(l, "h") /\ HaltsApart(l) /\ OnceEach(l)
    /\ \A i \in Lines(l, "c") : CallLine(l, hooks, i)
    /\ \A o \in Lines(l, "o") : OutcomeLine(l, hooks, o)
    /\ \A c \in Calls : InLedger(l, hooks[c], c)

Ledger == ~overlapped => LedgerFits(ledger, hook)

\* What the client was told is what the guard decided; it runs a call that was to
\* be refused only if a process was killed.
ToldRight ==
    \A c \in Calls :
        /\ hook[c].pc = "refused" => hook[c].refused
        /\ hook[c].refused => hook[c].pc \in Gone
                              /\ (hook[c].pc \in {"answer", "refused"} \/ faults > 0)

OInv == ObserverTyped /\ OneUnderWay /\ Delivery /\ Judging /\ Ledger /\ ToldRight

\* What the fields of a call's hook become in each action.
AsIs(h, k) == k.kind = h.kind /\ k.number = h.number /\ k.halt = h.halt /\ k.refused = h.refused
Still(h, k) == AsIs(h, k) /\ k.seen = h.seen /\ k.handed = h.handed

Begun(c, k) ==
    /\ Begin(c) /\ k.pc = IF k.halt = NoClass THEN "append" ELSE "remind"
    /\ k.number = Number(ledger) + 1 /\ k.refused = FALSE
    /\ k.halt # NoClass => ~RecentlyHalted(ledger, k.halt)
Reminded(c, k) == RemindHalt(c) /\ k.pc = "append" /\ Still(hook[c], k)
Appended(c, k) ==
    AppendCall(c) /\ k.pc = (IF k.halt = NoClass THEN "tier2" ELSE "end") /\ Still(hook[c], k)
FoundNone(c, k) == ReadVerdict(c) /\ k.pc = "due" /\ Still(hook[c], k)
FoundOne(c, k) ==
    ReadVerdict(c) /\ k.pc = "taking" /\ (\E r \in verdict : k.seen = r.what) /\ AsIs(hook[c], k)
TookNone(c, k) == TakeVerdict(c) /\ verdict = {} /\ k.pc = "due" /\ Still(hook[c], k)
TookOne(c, k) == TakeVerdict(c) /\ verdict # {} /\ k.pc = "remindJudged" /\ Still(hook[c], k)
Halted(c, k) == RemindJudged(c) /\ k.pc = "end" /\ Still(hook[c], k)
WentOn(c, k) == Due(c) /\ k.pc = "rules" /\ Still(hook[c], k)
WasDue(c, k) ==
    Due(c) /\ JudgeIsDue /\ k.pc = "brief" /\ k.handed = Number(ledger) /\ AsIs(hook[c], k)
Briefed(c, k) == WriteBrief(c) /\ k.pc = "mark" /\ Still(hook[c], k)
Opened(c, k) ==
    OpenMarker(c) /\ k.pc = "handOver" /\ k.seen = now /\ k.handed = hook[c].handed /\ AsIs(hook[c], k)
HandedOver(c, k) == MarkJudged(c) /\ k.pc = "spawn" /\ Still(hook[c], k)
Spawned(c, k) == Spawn(c) /\ k.pc = "rules" /\ Still(hook[c], k)
Ended(c, k) ==
    /\ End(c) /\ k.pc = "answer"
    /\ ledger' = ledger \o <<Line("o", hook[c].number, IF k.refused THEN "deny" ELSE "allow", c)>>
Printed(c, k) ==
    Deliver(c) /\ k.pc = (IF k.refused THEN "refused" ELSE "post") /\ k.refused = hook[c].refused
Read(c, k) == ReadReminder(c) /\ k.pc \in {"done", "telling"} /\ Still(hook[c], k)
Told(c, k) == TakeReminder(c) /\ k.pc = "done" /\ Still(hook[c], k)
Killed(c, k) == Kill(c) /\ k.pc = "post" /\ k.refused = hook[c].refused

\* One of these.
HookBecame(c, k) ==
    \/ Begun(c, k) \/ Reminded(c, k) \/ Appended(c, k) \/ FoundNone(c, k) \/ FoundOne(c, k)
    \/ TookNone(c, k) \/ TookOne(c, k) \/ Halted(c, k) \/ WentOn(c, k) \/ WasDue(c, k)
    \/ Briefed(c, k) \/ Opened(c, k) \/ HandedOver(c, k) \/ Spawned(c, k) \/ Ended(c, k)
    \/ Printed(c, k) \/ Read(c, k) \/ Told(c, k) \/ Killed(c, k)

LEMMA NumberIsTop ==
    ASSUME NEW l \in Seq(LedgerLine), NEW m \in Nat, IsTop(l, m) PROVE Number(l) = m
<1> DEFINE S == {0} \cup Numbered(l)
<1>1. \A x \in S : x \in Nat /\ x <= m
  <2>1. \A i \in DOMAIN l : l[i] \in LedgerLine
    OBVIOUS
  <2>2. \A i \in DOMAIN l : l[i].n \in Nat
    BY <2>1 DEF LedgerLine
  <2>3. Numbered(l) \subseteq Nat
    BY <2>2 DEF Numbered, Lines
  <2>. QED BY <2>3 DEF IsTop
<1>2. m \in S /\ Number(l) = Max(S)
  BY DEF IsTop, Number, Numbered
<1>3. Max(S) = CHOOSE x \in S : \A y \in S : x >= y
  BY DEF Max
<1>4. \A x \in S : (\A y \in S : x >= y) => x = m
  BY <1>1, <1>2
<1>5. \A y \in S : m >= y
  BY <1>1, <1>2
<1> HIDE DEF S
<1>. QED BY <1>2, <1>3, <1>4, <1>5

LEMMA NumberTyped == ObserverTyped => Number(ledger) \in Nat /\ IsTop(ledger, Number(ledger))
  BY NumberIsTop DEF ObserverTyped

LEMMA GoesTo ==
    ASSUME ObserverTyped, NEW c \in Calls, NEW pc \in GuardPcs \cup PostPcs \cup {"done"}, Goto(c, pc)
    PROVE  \E k \in HookRecord : hook' = [hook EXCEPT ![c] = k] /\ k.pc = pc /\ Still(hook[c], k)
<1> DEFINE k == [hook[c] EXCEPT !.pc = pc]
<1>1. hook[c] \in HookRecord
  BY DEF ObserverTyped
<1>2. hook' = [hook EXCEPT ![c] = k]
  BY DEF Goto
<1>3. k \in HookRecord /\ k.pc = pc /\ Still(hook[c], k)
  BY <1>1 DEF HookRecord, Still, AsIs
<1>. QED BY <1>2, <1>3

LEMMA LeavesTo ==
    ASSUME ObserverTyped, NEW c \in Calls, NEW pc \in {"post", "refused"}, Leave(c, pc)
    PROVE  \E k \in HookRecord : /\ hook' = [hook EXCEPT ![c] = k]
                                 /\ k.pc = pc /\ k.refused = hook[c].refused
<1>0. PICK refused \in BOOLEAN : refused = hook[c].refused
  BY DEF ObserverTyped, HookRecord
<1> DEFINE k == [NoCall EXCEPT !.pc = pc, !.refused = refused]
<1>1. hook' = [hook EXCEPT ![c] = k]
  BY <1>0 DEF Leave
<1>3. k \in HookRecord /\ k.pc = pc
  BY DEF HookRecord, NoCall, PostPcs, Kinds
<1>4. k.refused = refused
  BY Zenon DEF NoCall
<1>. QED BY <1>0, <1>1, <1>3, <1>4

LEMMA HookBecomes ==
    ASSUME ObserverTyped, NEW c \in Calls, HookStep(c)
    PROVE  \E k \in HookRecord : hook' = [hook EXCEPT ![c] = k] /\ HookBecame(c, k)
<1>0. /\ hook[c] \in HookRecord /\ hook \in [Calls -> HookRecord]
      /\ \A r \in verdict : r.what \in Judges /\ r.what \in Nat
  BY ObserverAssumption, SMTT(40) DEF ObserverTyped, Judges
<1>1. CASE Begin(c)
  <2>1. PICK kind, halt, number :
           /\ kind \in session.kinds
           /\ hook' = [hook EXCEPT ![c] =
                        [NoCall EXCEPT !.pc = IF halt = NoClass THEN "append" ELSE "remind",
                                       !.kind = kind, !.halt = halt, !.number = number]]
           /\ number = Number(ledger) + 1
           /\ halt = IF RecentlyHalted(ledger, Finding(ledger, kind)) THEN NoClass
                     ELSE Finding(ledger, kind)
    BY <1>1 DEF Begin
  <2> DEFINE pc == IF halt = NoClass THEN "append" ELSE "remind"
             k == [NoCall EXCEPT !.pc = pc, !.kind = kind, !.halt = halt, !.number = number]
  <2>2. hook' = [hook EXCEPT ![c] = k]
    BY <2>1
  <2>3. kind \in Kinds
    <3>1. session.kinds \subseteq Kinds
      BY ObserverAssumption DEF ObserverTyped
    <3>. QED BY <2>1, <3>1
  <2>4. halt \in Classes \cup {NoClass} /\ (halt # NoClass => ~RecentlyHalted(ledger, halt))
    <3>1. Finding(ledger, kind) \in Classes \cup {NoClass}
      BY DEF Finding, Classes, NoClass
    <3>. QED BY <2>1, <3>1
  <2>5. number \in Nat
    BY <2>1, NumberTyped
  <2>6. pc \in {"append", "remind"}
    OBVIOUS
  <2> HIDE DEF pc
  <2>7. k \in HookRecord /\ k.pc = pc /\ k.halt = halt /\ k.number = number
    BY <2>3, <2>4, <2>5, <2>6 DEF HookRecord, NoCall, GuardPcs
  <2>8. k.refused = FALSE
    BY Zenon DEF NoCall
  <2> HIDE DEF k
  <2>9. Begun(c, k)
    BY <1>1, <2>1, <2>4, <2>7, <2>8 DEF Begun, pc
  <2>. QED BY <2>2, <2>7, <2>9 DEF HookBecame
<1>2. CASE RemindHalt(c)
  <2>1. PICK k \in HookRecord : hook' = [hook EXCEPT ![c] = k] /\ k.pc = "append" /\ Still(hook[c], k)
    BY <1>2, GoesTo DEF RemindHalt, GuardPcs
  <2>. QED BY <1>2, <2>1 DEF HookBecame, Reminded
<1>3. CASE AppendCall(c)
  <2>1. Goto(c, IF hook[c].halt = NoClass THEN "tier2" ELSE "end")
    BY <1>3 DEF AppendCall
  <2>2. (IF hook[c].halt = NoClass THEN "tier2" ELSE "end") \in GuardPcs
    BY DEF GuardPcs
  <2>3. PICK k \in HookRecord : /\ hook' = [hook EXCEPT ![c] = k] /\ Still(hook[c], k)
                                /\ k.pc = IF hook[c].halt = NoClass THEN "tier2" ELSE "end"
    BY <2>1, <2>2, GoesTo
  <2>. QED BY <1>3, <2>3 DEF HookBecame, Appended, Still, AsIs
<1>4. CASE ReadVerdict(c)
  <2>1. CASE Fresh(verdict, VerdictTtl, now) = {}
    <3>1. PICK k \in HookRecord : hook' = [hook EXCEPT ![c] = k] /\ k.pc = "due" /\ Still(hook[c], k)
      BY <1>4, <2>1, GoesTo DEF ReadVerdict, GuardPcs
    <3>. QED BY <1>4, <3>1 DEF HookBecame, FoundNone
  <2>2. CASE Fresh(verdict, VerdictTtl, now) # {}
    <3>1. PICK r \in verdict : hook' = [hook EXCEPT ![c].pc = "taking", ![c].seen = r.what]
      BY <1>4, <2>2 DEF ReadVerdict
    <3> DEFINE k == [hook[c] EXCEPT !.pc = "taking", !.seen = r.what]
    <3>2. hook' = [hook EXCEPT ![c] = k]
      BY <1>0, <3>1
    <3>3. k \in HookRecord /\ k.pc = "taking" /\ k.seen = r.what /\ AsIs(hook[c], k)
      BY <1>0 DEF HookRecord, AsIs, GuardPcs
    <3>4. FoundOne(c, k)
      BY <1>4, <3>3 DEF FoundOne
    <3>. QED BY <3>2, <3>3, <3>4 DEF HookBecame
  <2>. QED BY <2>1, <2>2
<1>5. CASE TakeVerdict(c)
  <2>1. CASE verdict = {}
    <3>1. PICK k \in HookRecord : hook' = [hook EXCEPT ![c] = k] /\ k.pc = "due" /\ Still(hook[c], k)
      BY <1>5, <2>1, GoesTo DEF TakeVerdict, GuardPcs
    <3>. QED BY <1>5, <2>1, <3>1 DEF HookBecame, TookNone
  <2>2. CASE verdict # {}
    <3>1. PICK k \in HookRecord :
             hook' = [hook EXCEPT ![c] = k] /\ k.pc = "remindJudged" /\ Still(hook[c], k)
      BY <1>5, <2>2, GoesTo DEF TakeVerdict, GuardPcs
    <3>. QED BY <1>5, <2>2, <3>1 DEF HookBecame, TookOne
  <2>. QED BY <2>1, <2>2
<1>6. CASE RemindJudged(c)
  <2>1. PICK k \in HookRecord : hook' = [hook EXCEPT ![c] = k] /\ k.pc = "end" /\ Still(hook[c], k)
    BY <1>6, GoesTo DEF RemindJudged, GuardPcs
  <2>. QED BY <1>6, <2>1 DEF HookBecame, Halted
<1>7. CASE Due(c)
  <2>1. CASE Goto(c, "rules")
    <3>1. PICK k \in HookRecord : hook' = [hook EXCEPT ![c] = k] /\ k.pc = "rules" /\ Still(hook[c], k)
      BY <2>1, GoesTo DEF GuardPcs
    <3>. QED BY <1>7, <3>1 DEF HookBecame, WentOn
  <2>2. CASE JudgeIsDue /\ hook' = [hook EXCEPT ![c].pc = "brief", ![c].handed = Number(ledger)]
    <3> DEFINE k == [hook[c] EXCEPT !.pc = "brief", !.handed = Number(ledger)]
    <3>1. hook' = [hook EXCEPT ![c] = k]
      BY <1>0, <2>2
    <3>2. k \in HookRecord /\ k.pc = "brief" /\ k.handed = Number(ledger) /\ AsIs(hook[c], k)
      BY <1>0, NumberTyped DEF HookRecord, AsIs, GuardPcs
    <3>3. WasDue(c, k)
      BY <1>7, <2>2, <3>2 DEF WasDue
    <3>. QED BY <3>1, <3>2, <3>3 DEF HookBecame
  <2>. QED BY <1>7, <2>1, <2>2 DEF Due
<1>8. CASE WriteBrief(c)
  <2>1. PICK k \in HookRecord : hook' = [hook EXCEPT ![c] = k] /\ k.pc = "mark" /\ Still(hook[c], k)
    BY <1>8, GoesTo DEF WriteBrief, GuardPcs
  <2>. QED BY <1>8, <2>1 DEF HookBecame, Briefed
<1>9. CASE OpenMarker(c)
  <2> DEFINE k == [hook[c] EXCEPT !.pc = "handOver", !.seen = now]
  <2>1. hook' = [hook EXCEPT ![c] = k]
    BY <1>0, <1>9 DEF OpenMarker
  <2>2. /\ k \in HookRecord /\ k.pc = "handOver" /\ k.seen = now /\ k.handed = hook[c].handed
        /\ AsIs(hook[c], k)
    BY <1>0 DEF HookRecord, AsIs, GuardPcs, ObserverTyped
  <2>3. Opened(c, k)
    BY <1>9, <2>2 DEF Opened
  <2>. QED BY <2>1, <2>2, <2>3 DEF HookBecame
<1>10. CASE MarkJudged(c)
  <2>1. PICK k \in HookRecord : hook' = [hook EXCEPT ![c] = k] /\ k.pc = "spawn" /\ Still(hook[c], k)
    BY <1>10, GoesTo DEF MarkJudged, GuardPcs
  <2>. QED BY <1>10, <2>1 DEF HookBecame, HandedOver
<1>11. CASE Spawn(c)
  <2>1. PICK k \in HookRecord : hook' = [hook EXCEPT ![c] = k] /\ k.pc = "rules" /\ Still(hook[c], k)
    BY <1>11, GoesTo DEF Spawn, GuardPcs
  <2>. QED BY <1>11, <2>1 DEF HookBecame, Spawned
<1>12. CASE End(c)
  <2>1. PICK refused \in BOOLEAN :
           /\ ledger' = ledger \o <<Line("o", hook[c].number, IF refused THEN "deny" ELSE "allow", c)>>
           /\ hook' = [hook EXCEPT ![c].pc = "answer", ![c].refused = refused]
    BY <1>12 DEF End
  <2> DEFINE k == [hook[c] EXCEPT !.pc = "answer", !.refused = refused]
  <2>2. hook' = [hook EXCEPT ![c] = k]
    BY <1>0, <2>1
  <2>3. k \in HookRecord /\ k.pc = "answer" /\ k.refused = refused
    BY <1>0 DEF HookRecord, GuardPcs
  <2>4. Ended(c, k)
    BY <1>12, <2>1, <2>3 DEF Ended
  <2>. QED BY <2>2, <2>3, <2>4 DEF HookBecame
<1>13. CASE ReadReminder(c)
  <2>1. PICK pc \in {"done", "telling"} : Goto(c, pc)
    BY <1>13 DEF ReadReminder
  <2>2. PICK k \in HookRecord : hook' = [hook EXCEPT ![c] = k] /\ k.pc = pc /\ Still(hook[c], k)
    BY <2>1, GoesTo DEF PostPcs
  <2>. QED BY <1>13, <2>2 DEF HookBecame, Read
<1>14. CASE TakeReminder(c)
  <2>1. PICK k \in HookRecord : hook' = [hook EXCEPT ![c] = k] /\ k.pc = "done" /\ Still(hook[c], k)
    BY <1>14, GoesTo DEF TakeReminder
  <2>. QED BY <1>14, <2>1 DEF HookBecame, Told
<1>15. CASE Kill(c)
  <2>1. PICK k \in HookRecord : /\ hook' = [hook EXCEPT ![c] = k]
                                /\ k.pc = "post" /\ k.refused = hook[c].refused
    BY <1>15, LeavesTo DEF Kill
  <2>. QED BY <1>15, <2>1 DEF HookBecame, Killed
<1>16. CASE Deliver(c)
  <2>1. PICK pc \in {"post", "refused"} : pc = IF hook[c].refused THEN "refused" ELSE "post"
    OBVIOUS
  <2>2. PICK k \in HookRecord : /\ hook' = [hook EXCEPT ![c] = k]
                                /\ k.pc = pc /\ k.refused = hook[c].refused
    BY <1>16, <2>1, LeavesTo DEF Deliver
  <2>3. Printed(c, k)
    BY <1>16, <2>1, <2>2 DEF Printed
  <2>. QED BY <2>2, <2>3 DEF HookBecame
<1>. QED BY <1>1, <1>2, <1>3, <1>4, <1>5, <1>6, <1>7, <1>8, <1>9, <1>10, <1>11, <1>12, <1>13,
            <1>14, <1>15, <1>16 DEF HookStep

-----------------------------------------------------------------------------
(* Sets of numbers. A least element is what the library has of induction.   *)

\* A set of numbers that is not empty has a least element, and a greatest one
\* if it is bounded.
LEMMA LeastNumber ==
  ASSUME NEW T, T \subseteq Nat, T # {}
  PROVE  \E x \in T : \A y \in T : x <= y
<1> DEFINE R == {ss \in Nat \X Nat : ss[1] < ss[2]}
<1>1. IsWellFoundedOn(R, Nat)
  BY NatLessThanWellFounded DEF OpToRel
<1>2. PICK x \in T : \A y \in T : ~(<<y, x>> \in R)
  <2> HIDE DEF R
  <2>. QED BY <1>1, WFMin
<1>3. ASSUME NEW y \in T PROVE x <= y
  <2>1. <<y, x>> \notin R /\ <<y, x>> \in Nat \X Nat
    BY <1>2
  <2>2. ~(y < x)
    BY <2>1
  <2>. QED BY <2>2
<1>. QED BY <1>3

LEMMA GreatestNumber ==
  ASSUME NEW m \in Nat, NEW T, T \subseteq 1..m, T # {}
  PROVE  \E x \in T : \A y \in T : y <= x
<1> DEFINE D == {k \in Nat : m - k \in T}
<1>1. D \subseteq Nat /\ D # {}
  <2>1. PICK v \in T : TRUE
    OBVIOUS
  <2>2. v \in Nat /\ m - v \in Nat /\ m - (m - v) = v
    OBVIOUS
  <2>. QED BY <2>2
<1>2. PICK k \in D : \A j \in D : k <= j
  <2> HIDE DEF D
  <2>. QED BY <1>1, LeastNumber
<1>3. ASSUME NEW y \in T PROVE y <= m - k
  <2>1. m - y \in Nat /\ m - (m - y) = y
    OBVIOUS
  <2>2. k <= m - y
    BY <1>2, <2>1
  <2>. QED BY <2>1, <2>2
<1>. QED BY <1>3


\* Which of these changes what, and from where.
LEMMA HookTouches ==
    ASSUME NEW c \in Calls, NEW k, HookBecame(c, k)
    PROVE  /\ UNCHANGED <<session, now, withdrawn>>
           /\ Killed(c, k) \/ UNCHANGED faults
           /\ TookNone(c, k) \/ TookOne(c, k) \/ UNCHANGED <<verdict, delivered>>
           /\ Reminded(c, k) \/ Halted(c, k) \/ Told(c, k) \/ UNCHANGED reminder
           /\ Appended(c, k) \/ HandedOver(c, k) \/ Ended(c, k) \/ UNCHANGED ledger
           /\ Briefed(c, k) \/ UNCHANGED brief
           /\ Opened(c, k) \/ Spawned(c, k) \/ UNCHANGED marker
           /\ Spawned(c, k) \/ UNCHANGED <<judge, outlived>>
           /\ Begun(c, k) \/ (UNCHANGED overlapped /\ UnderWay(c))
           /\ FoundOne(c, k) \/ k.pc # "taking"
<1> USE DEF files, auxiliary
<1>1. CASE Begun(c, k)
  <2>1. Begin(c) /\ k.pc = IF k.halt = NoClass THEN "append" ELSE "remind"
    BY <1>1 DEF Begun
  <2>2. k.pc # "taking"
    BY <2>1
  <2>3. UNCHANGED <<session, faults, now, files, judge, delivered, withdrawn, halts, notes, outlived>>
    BY <2>1 DEF Begin
  <2>. QED BY <1>1, <2>2, <2>3
<1>2. CASE Reminded(c, k)
  BY <1>2 DEF Reminded, RemindHalt, UnderWay
<1>3. CASE Appended(c, k)
  BY <1>3 DEF Appended, AppendCall, UnderWay
<1>4. CASE FoundNone(c, k)
  BY <1>4 DEF FoundNone, ReadVerdict, UnderWay
<1>5. CASE FoundOne(c, k)
  BY <1>5 DEF FoundOne, ReadVerdict, UnderWay
<1>6. CASE TookNone(c, k)
  BY <1>6 DEF TookNone, TakeVerdict, UnderWay
<1>7. CASE TookOne(c, k)
  BY <1>7 DEF TookOne, TakeVerdict, UnderWay
<1>8. CASE Halted(c, k)
  BY <1>8 DEF Halted, RemindJudged, UnderWay
<1>9. CASE WentOn(c, k)
  BY <1>9 DEF WentOn, Due, UnderWay
<1>10. CASE WasDue(c, k)
  BY <1>10 DEF WasDue, Due, UnderWay
<1>11. CASE Briefed(c, k)
  BY <1>11 DEF Briefed, WriteBrief, UnderWay
<1>12. CASE Opened(c, k)
  BY <1>12 DEF Opened, OpenMarker, UnderWay
<1>13. CASE HandedOver(c, k)
  BY <1>13 DEF HandedOver, MarkJudged, UnderWay
<1>14. CASE Spawned(c, k)
  BY <1>14 DEF Spawned, Spawn, UnderWay
<1>15. CASE Ended(c, k)
  BY <1>15 DEF Ended, End, UnderWay
<1>16. CASE Read(c, k)
  BY <1>16 DEF Read, ReadReminder, UnderWay
<1>17. CASE Told(c, k)
  BY <1>17 DEF Told, TakeReminder, UnderWay
<1>18. CASE Killed(c, k)
  BY <1>18 DEF Killed, Kill, UnderWay, GuardPcs
<1>19. CASE Printed(c, k)
  BY <1>19 DEF Printed, Deliver, UnderWay
<1>. QED BY <1>19, <1>1, <1>2, <1>3, <1>4, <1>5, <1>6, <1>7, <1>8, <1>9, <1>10, <1>11, <1>12, <1>13, <1>14, <1>15, <1>16, <1>17, <1>18 DEF HookBecame

\* What the fields of a judge become in each of its actions, and what else does.
Reads(j, k) ==
    /\ ReadBrief(j) /\ k.pc = "hire" /\ k.brief = brief
    /\ k.handed = judge[j].handed /\ k.since = judge[j].since
    /\ UNCHANGED <<verdict, withdrawn, marker>>
Hires(j, k) ==
    /\ Hire(j) /\ k.pc = "clear" /\ k.brief = judge[j].brief
    /\ k.handed = judge[j].handed /\ k.since = judge[j].since /\ UNCHANGED marker
Stops(j, k) ==
    /\ k.pc = "done" /\ UNCHANGED <<verdict, withdrawn>>
    /\ \/ judge[j].pc = "clear" /\ marker' = {}
       \/ Running(j) /\ UNCHANGED marker

LEMMA JudgeBecomes ==
    ASSUME ObserverTyped, NEW j \in Judges, JudgeStep(j)
    PROVE  /\ UNCHANGED <<session, now, ledger, reminder, brief, hook, delivered, overlapped, outlived>>
           /\ faults' \in 0..session.faults
           /\ Running(j)
           /\ \E k \in JudgeRecord : /\ judge' = [judge EXCEPT ![j] = k]
                                     /\ Reads(j, k) \/ Hires(j, k) \/ Stops(j, k)
<1> DEFINE old == judge[j]
<1>0. old \in JudgeRecord
  BY DEF ObserverTyped
<1>6. session.faults \in Nat /\ faults \in 0..session.faults
  BY ObserverAssumption DEF ObserverTyped
<1> USE DEF files, auxiliary
<1>1. CASE ReadBrief(j)
  <2> DEFINE k == [old EXCEPT !.pc = "hire", !.brief = brief]
  <2>1. judge' = [judge EXCEPT ![j] = k]
    BY <1>0, <1>1 DEF ReadBrief
  <2>2. /\ k \in JudgeRecord /\ k.pc = "hire" /\ k.brief = brief
        /\ k.handed = old.handed /\ k.since = old.since
    BY <1>0 DEF JudgeRecord, ObserverTyped
  <2> HIDE DEF k
  <2>3. Reads(j, k)
    BY <1>1, <2>2 DEF Reads, ReadBrief
  <2>. QED BY <1>1, <1>6, <2>1, <2>2, <2>3 DEF ReadBrief, Running
<1>2. CASE Hire(j)
  <2> DEFINE k == [old EXCEPT !.pc = "clear"]
  <2>1. judge' = [judge EXCEPT ![j] = k]
    BY <1>0, <1>2 DEF Hire
  <2>2. /\ k \in JudgeRecord /\ k.pc = "clear" /\ k.brief = old.brief
        /\ k.handed = old.handed /\ k.since = old.since
    BY <1>0 DEF JudgeRecord
  <2> HIDE DEF k
  <2>3. Hires(j, k)
    BY <1>2, <2>2 DEF Hires, Hire
  <2>. QED BY <1>2, <1>6, <2>1, <2>2, <2>3 DEF Hire, Running
<1>3. ASSUME JudgeDone(j)
      PROVE  \E k \in JudgeRecord : judge' = [judge EXCEPT ![j] = k] /\ k.pc = "done"
  <2> DEFINE k == [NoJudge EXCEPT !.pc = "done"]
  <2>1. judge' = [judge EXCEPT ![j] = k]
    BY <1>3 DEF JudgeDone
  <2>2. k \in JudgeRecord /\ k.pc = "done"
    BY DEF JudgeRecord, NoJudge
  <2>. QED BY <2>1, <2>2
<1>4. CASE DropMarker(j)
  BY <1>3, <1>4, <1>6 DEF DropMarker, Stops, Running
<1>5. CASE JudgeDies(j)
  <2>1. faults' \in 0..session.faults
    BY <1>5, <1>6 DEF JudgeDies, Fault
  <2>. QED BY <1>3, <1>5, <2>1 DEF JudgeDies, Stops, Running
<1>. QED BY <1>1, <1>2, <1>4, <1>5 DEF JudgeStep

-----------------------------------------------------------------------------
(* The ledger grows by a line. *)

LEMMA Longer ==
    ASSUME NEW l \in Seq(LedgerLine), NEW line \in LedgerLine
    PROVE  /\ (l \o <<line>>) \in Seq(LedgerLine)
           /\ Len(l) \in Nat /\ DOMAIN l = 1..Len(l) /\ DOMAIN (l \o <<line>>) = 1..(Len(l) + 1)
           /\ \A i \in DOMAIN l : (l \o <<line>>)[i] = l[i]
           /\ (l \o <<line>>)[Len(l) + 1] = line
  OBVIOUS

LEMMA LinesGrow ==
    ASSUME NEW l \in Seq(LedgerLine), NEW line \in LedgerLine, NEW kind
    PROVE  Lines(l \o <<line>>, kind)
             = Lines(l, kind) \cup IF line.line = kind THEN {Len(l) + 1} ELSE {}
<1>1. PICK l2 : l2 = l \o <<line>>
  OBVIOUS
<1>2. /\ Len(l) \in Nat /\ DOMAIN l = 1..Len(l) /\ DOMAIN l2 = 1..(Len(l) + 1)
      /\ \A i \in DOMAIN l : l2[i] = l[i]
      /\ l2[Len(l) + 1] = line
  BY <1>1, Longer
<1>3. Lines(l2, kind) = Lines(l, kind) \cup IF line.line = kind THEN {Len(l) + 1} ELSE {}
  BY <1>2 DEF Lines
<1>. QED BY <1>1, <1>3

LEMMA LinesTyped ==
    ASSUME NEW l \in Seq(LedgerLine), NEW kind
    PROVE  \A i \in Lines(l, kind) : /\ i \in Nat /\ i \in DOMAIN l /\ l[i] \in LedgerLine
                                     /\ l[i].n \in Nat /\ l[i].of \in Calls
<1>1. \A i \in DOMAIN l : i \in Nat /\ l[i] \in LedgerLine
  OBVIOUS
<1>. QED BY <1>1 DEF Lines, LedgerLine

LEMMA NumberedGrows ==
    ASSUME NEW l \in Seq(LedgerLine), NEW line \in LedgerLine
    PROVE  /\ line.line \in {"c", "h"} => Numbered(l \o <<line>>) = Numbered(l) \cup {line.n}
           /\ line.line \in {"o", "j"} => Numbered(l \o <<line>>) = Numbered(l)
           /\ Numbered(l) \subseteq Nat
<1> DEFINE D == Lines(l, "c") \cup Lines(l, "h")
<1>0. PICK l2 : l2 = l \o <<line>>
  OBVIOUS
<1>1. /\ DOMAIN l = 1..Len(l) /\ Len(l) \in Nat
      /\ \A i \in DOMAIN l : l2[i] = l[i]
      /\ l2[Len(l) + 1] = line
      /\ line.line \in {"c", "h"} => Lines(l2, "c") \cup Lines(l2, "h") = D \cup {Len(l) + 1}
      /\ line.line \in {"o", "j"} => Lines(l2, "c") \cup Lines(l2, "h") = D
  <2>1. /\ DOMAIN l = 1..Len(l) /\ Len(l) \in Nat
        /\ \A i \in DOMAIN l : l2[i] = l[i]
        /\ l2[Len(l) + 1] = line
    BY <1>0, Longer
  <2>2. \A kind : Lines(l2, kind) = Lines(l, kind) \cup IF line.line = kind THEN {Len(l) + 1} ELSE {}
    BY <1>0, LinesGrow, Zenon
  <2>3. Lines(l2, "c") = Lines(l, "c") \cup IF line.line = "c" THEN {Len(l) + 1} ELSE {}
    BY <2>2, Zenon
  <2>4. Lines(l2, "h") = Lines(l, "h") \cup IF line.line = "h" THEN {Len(l) + 1} ELSE {}
    BY <2>2, Zenon
  <2>. QED BY <2>1, <2>3, <2>4
<1>2. \A i \in D : i \in DOMAIN l /\ l[i].n \in Nat
  BY LinesTyped
<1> HIDE DEF D
<1>3. Numbered(l) = {l[i].n : i \in D}
  BY DEF Numbered, D
<1>4. {l2[i].n : i \in D} = Numbered(l)
  BY <1>1, <1>2, <1>3
<1>5. CASE line.line \in {"c", "h"}
  <2>1. Lines(l2, "c") \cup Lines(l2, "h") = D \cup {Len(l) + 1}
    BY <1>1, <1>5
  <2>2. Numbered(l2) = {l2[i].n : i \in D \cup {Len(l) + 1}}
    BY <2>1 DEF Numbered
  <2>3. {l2[i].n : i \in D \cup {Len(l) + 1}} = {l2[i].n : i \in D} \cup {l2[Len(l) + 1].n}
    OBVIOUS
  <2>4. Numbered(l2) = Numbered(l) \cup {line.n}
    BY <1>1, <1>4, <2>2, <2>3
  <2>. QED BY <1>0, <1>2, <1>3, <1>5, <2>4
<1>6. CASE line.line \in {"o", "j"}
  <2>1. Numbered(l2) = Numbered(l)
    BY <1>1, <1>2, <1>3, <1>4, <1>6 DEF Numbered
  <2>. QED BY <1>0, <1>2, <1>3, <1>6, <2>1
<1>7. line.line \in {"c", "h", "o", "j"}
  BY DEF LedgerLine
<1>. QED BY <1>5, <1>6, <1>7

LEMMA TopGrows ==
    ASSUME NEW l \in Seq(LedgerLine), NEW line \in LedgerLine, NEW m \in Nat, IsTop(l, m)
    PROVE  /\ line.line \in {"c", "h"} /\ m <= line.n => IsTop(l \o <<line>>, line.n)
           /\ line.line \in {"o", "j"} \/ line.n <= m => IsTop(l \o <<line>>, m)
           /\ \E x \in Nat : IsTop(l \o <<line>>, x)
<1> DEFINE l2 == l \o <<line>>
<1>1. /\ line.line \in {"c", "h"} => Numbered(l2) = Numbered(l) \cup {line.n}
      /\ line.line \in {"o", "j"} => Numbered(l2) = Numbered(l)
      /\ Numbered(l) \subseteq Nat
  BY NumberedGrows
<1>2. line.line \in {"c", "h", "o", "j"} /\ line.n \in Nat
  BY DEF LedgerLine
<1> HIDE DEF l2
<1>3. line.line \in {"c", "h"} /\ m <= line.n => IsTop(l2, line.n)
  BY <1>1, <1>2 DEF IsTop
<1>4. line.line \in {"o", "j"} \/ line.n <= m => IsTop(l2, m)
  BY <1>1, <1>2 DEF IsTop
<1>. QED BY <1>2, <1>3, <1>4 DEF l2

-----------------------------------------------------------------------------
LEMMA RecordTyped ==
    ASSUME NEW S, NEW what \in S, NEW at \in Nat
    PROVE  Record(what, at) \in SUBSET [at : Nat, what : S] /\ Single(Record(what, at))
  BY DEF Record, Single

\* The judge a call starts.
LEMMA JudgeSpawned ==
    ASSUME ObserverTyped, NEW c \in Calls, Spawn(c)
    PROVE  \/ /\ marker' = {} /\ UNCHANGED <<judge, outlived>>
           \/ \E j \in Judges, k \in JudgeRecord :
                 /\ judge[j].pc = "idle" /\ judge' = [judge EXCEPT ![j] = k]
                 /\ k.pc = "read" /\ k.since = hook[c].seen /\ k.handed = hook[c].handed
                 /\ outlived' = (outlived \/ now - hook[c].seen >= InFlight)
                 /\ UNCHANGED marker
<1>1. CASE marker' = {} /\ UNCHANGED <<judge, outlived>>
  BY <1>1
<1>2. ASSUME NEW j \in Judges, judge[j].pc = "idle",
             judge' = [judge EXCEPT ![j] = [NoJudge EXCEPT !.pc = "read", !.since = hook[c].seen,
                                                           !.handed = hook[c].handed]]
      PROVE  \E k \in JudgeRecord : /\ judge' = [judge EXCEPT ![j] = k] /\ k.pc = "read"
                                    /\ k.since = hook[c].seen /\ k.handed = hook[c].handed
  <2> DEFINE k == [NoJudge EXCEPT !.pc = "read", !.since = hook[c].seen, !.handed = hook[c].handed]
  <2>1. hook[c].seen \in Nat /\ hook[c].handed \in Nat
    BY DEF ObserverTyped, HookRecord
  <2>2. k \in JudgeRecord /\ k.pc = "read" /\ k.since = hook[c].seen /\ k.handed = hook[c].handed
    BY <2>1 DEF JudgeRecord, NoJudge
  <2>. QED BY <1>2, <2>2
<1>3. \/ \E j \in Judges :
           /\ judge[j].pc = "idle"
           /\ judge' = [judge EXCEPT ![j] = [NoJudge EXCEPT !.pc = "read", !.since = hook[c].seen,
                                                            !.handed = hook[c].handed]]
           /\ outlived' = (outlived \/ now - hook[c].seen >= InFlight)
           /\ UNCHANGED marker
      \/ marker' = {} /\ UNCHANGED <<judge, outlived>>
  BY DEF Spawn
<1>. QED BY <1>1, <1>2, <1>3

\* What the client hears of a call, and when it runs one that was to be refused.
LEMMA HearsTo ==
    ASSUME ObserverTyped, NEW c \in Calls, NEW k \in HookRecord, HookBecame(c, k),
           hook[c].refused => hook[c].pc \in Gone
    PROVE  /\ k.refused => k.pc \in Gone
           /\ k.pc = "refused" => k.refused
           /\ k.refused => \/ k.pc \in {"answer", "refused"} \/ faults' > 0
                           \/ hook[c].refused /\ hook[c].pc \in {"post", "telling"}
<1>1. k.refused \in BOOLEAN
  BY DEF HookRecord
<1>2. CASE Ended(c, k)
  BY <1>2 DEF Ended, Gone
<1>3. CASE Printed(c, k)
  BY <1>1, <1>3 DEF Printed, Gone
<1>4. CASE Killed(c, k)
  <2>1. faults \in Nat /\ faults' = faults + 1
    BY <1>4, ObserverAssumption DEF Killed, Kill, Fault, ObserverTyped
  <2>. QED BY <1>4, <2>1 DEF Killed, Gone
<1>5. CASE Read(c, k) \/ Told(c, k)
  BY <1>5 DEF Read, Told, ReadReminder, TakeReminder, Still, AsIs, Gone
<1>6. CASE Begun(c, k)
  BY <1>6 DEF Begun
<1>7. CASE ~(Ended(c, k) \/ Printed(c, k) \/ Killed(c, k) \/ Read(c, k) \/ Told(c, k) \/ Begun(c, k))
  <2>1. k.refused = hook[c].refused /\ k.pc # "refused"
    BY <1>7 DEF HookBecame, Reminded, Appended, FoundNone, FoundOne, TookNone, TookOne,
       Halted, WentOn, WasDue, Briefed, Opened, HandedOver, Spawned, Still, AsIs
  <2>2. hook[c].pc \notin Gone
    BY <1>7 DEF HookBecame, Reminded, Appended, FoundNone, FoundOne, TookNone, TookOne,
       Halted, WentOn, WasDue, Briefed, Opened, HandedOver, Spawned, RemindHalt, AppendCall,
       ReadVerdict, TakeVerdict, RemindJudged, Due, WriteBrief, OpenMarker, MarkJudged, Spawn, Gone
  <2>. QED BY <2>1, <2>2
<1>. QED BY <1>2, <1>3, <1>4, <1>5, <1>6, <1>7

LEMMA HeardHook ==
    ASSUME ObserverTyped, ToldRight, NEW c \in Calls, NEW k \in HookRecord, HookBecame(c, k),
           hook' = [hook EXCEPT ![c] = k]
    PROVE  ToldRight'
<1>1. hook'[c] = k /\ \A d \in Calls \ {c} : hook'[d] = hook[d]
  BY DEF ObserverTyped
<1>2. faults > 0 => faults' > 0
  <2>1. faults \in Nat
    BY ObserverAssumption DEF ObserverTyped
  <2>2. Killed(c, k) => faults' = faults + 1
    BY DEF Killed, Kill, Fault
  <2>. QED BY <2>1, <2>2, HookTouches
<1>3. /\ k.refused => k.pc \in Gone
      /\ k.pc = "refused" => k.refused
      /\ k.refused => \/ k.pc \in {"answer", "refused"} \/ faults' > 0
                      \/ hook[c].refused /\ hook[c].pc \in {"post", "telling"}
  BY HearsTo DEF ToldRight
<1>4. ASSUME NEW d \in Calls
      PROVE  /\ hook'[d].pc = "refused" => hook'[d].refused
             /\ hook'[d].refused => hook'[d].pc \in Gone
                                    /\ (hook'[d].pc \in {"answer", "refused"} \/ faults' > 0)
  <2>1. CASE d = c
    BY <1>1, <1>2, <1>3, <2>1 DEF ToldRight
  <2>2. CASE d # c
    BY <1>1, <1>2, <2>2 DEF ToldRight
  <2>. QED BY <2>1, <2>2
<1>. QED BY <1>4 DEF ToldRight

\* What a call adds to the ledger.
LEMMA LedgerBecomes ==
    ASSUME ObserverTyped, NEW c \in Calls, NEW k \in HookRecord, HookBecame(c, k)
    PROVE  \/ UNCHANGED ledger
           \/ /\ Appended(c, k) /\ Line("c", k.number, k.kind, c) \in LedgerLine
              /\ \/ k.halt = NoClass /\ ledger' = ledger \o <<Line("c", k.number, k.kind, c)>>
                 \/ /\ k.halt # NoClass /\ Line("h", k.number, k.halt, c) \in LedgerLine
                    /\ ledger' = ledger \o <<Line("c", k.number, k.kind, c)>>
                                        \o <<Line("h", k.number, k.halt, c)>>
           \/ /\ HandedOver(c, k) /\ Line("j", k.handed, "judged", c) \in LedgerLine
              /\ ledger' = ledger \o <<Line("j", k.handed, "judged", c)>>
           \/ /\ Ended(c, k)
              /\ Line("o", hook[c].number, IF k.refused THEN "deny" ELSE "allow", c) \in LedgerLine
              /\ ledger' = ledger \o <<Line("o", hook[c].number, IF k.refused THEN "deny" ELSE "allow", c)>>
<1>1. hook[c] \in HookRecord
  BY DEF ObserverTyped
<1>2. \A n \in Nat : /\ \A kind \in Kinds : Line("c", n, kind, c) \in LedgerLine
                     /\ \A class \in Classes : Line("h", n, class, c) \in LedgerLine
                     /\ \A what \in {"deny", "allow"} : Line("o", n, what, c) \in LedgerLine
                     /\ Line("j", n, "judged", c) \in LedgerLine
  BY DEF Line, LedgerLine
<1>3. k.number \in Nat /\ k.kind \in Kinds /\ k.halt \in Classes \cup {NoClass} /\ k.handed \in Nat
  BY DEF HookRecord
<1>4. CASE Appended(c, k)
  <2>1. k.number = hook[c].number /\ k.kind = hook[c].kind /\ k.halt = hook[c].halt
    BY <1>4 DEF Appended, Still, AsIs
  <2>2. \/ k.halt = NoClass /\ ledger' = ledger \o <<Line("c", k.number, k.kind, c)>>
        \/ /\ k.halt # NoClass
           /\ ledger' = ledger \o <<Line("c", k.number, k.kind, c)>> \o <<Line("h", k.number, k.halt, c)>>
    BY <1>4, <2>1 DEF Appended, AppendCall
  <2>. QED BY <1>2, <1>3, <1>4, <2>2
<1>5. CASE HandedOver(c, k)
  <2>1. k.handed = hook[c].handed
    BY <1>5 DEF HandedOver, Still
  <2>2. ledger' = ledger \o <<Line("j", k.handed, "judged", c)>>
    BY <1>5, <2>1 DEF HandedOver, MarkJudged
  <2>. QED BY <1>2, <1>3, <1>5, <2>2
<1>6. CASE Ended(c, k)
  <2>1. hook[c].number \in Nat
    BY <1>1 DEF HookRecord
  <2>. QED BY <1>2, <1>6, <2>1 DEF Ended
<1>. QED BY <1>4, <1>5, <1>6, HookTouches

LEMMA TypedHook ==
    ASSUME ObserverTyped, NEW c \in Calls, NEW k \in HookRecord, HookBecame(c, k),
           hook' = [hook EXCEPT ![c] = k]
    PROVE  ObserverTyped'
<1>0. hook[c] \in HookRecord /\ (hook[c].pc = "taking" => hook[c].seen \in Judges)
  BY DEF ObserverTyped
<1>1. session' \in Sessions /\ faults' \in 0..session'.faults
  <2>1. session.faults \in Nat /\ faults \in 0..session.faults /\ session' = session
    BY ObserverAssumption, HookTouches DEF ObserverTyped
  <2>2. Killed(c, k) => faults' \in 0..session.faults
    BY <2>1 DEF Killed, Kill, Fault
  <2>. QED BY <2>1, <2>2, HookTouches DEF ObserverTyped
<1>2. now' \in Nat /\ brief' \in Nat
  <2>1. Briefed(c, k) => brief' \in Nat
    BY <1>0 DEF Briefed, WriteBrief, HookRecord
  <2>. QED BY <2>1, HookTouches DEF ObserverTyped
<1>3. ledger' \in Seq(LedgerLine) /\ \E m \in Nat : IsTop(ledger', m)
  <2>1. ASSUME NEW l \in Seq(LedgerLine), NEW m \in Nat, IsTop(l, m), NEW line \in LedgerLine
        PROVE  (l \o <<line>>) \in Seq(LedgerLine) /\ \E x \in Nat : IsTop(l \o <<line>>, x)
    BY <2>1, Longer, TopGrows
  <2>2. ledger \in Seq(LedgerLine) /\ \E m \in Nat : IsTop(ledger, m)
    BY DEF ObserverTyped
  <2>3. \A line \in LedgerLine : ledger' = ledger \o <<line>>
           => ledger' \in Seq(LedgerLine) /\ \E m \in Nat : IsTop(ledger', m)
    BY <2>1, <2>2
  <2>4. \A line, next \in LedgerLine : ledger' = ledger \o <<line>> \o <<next>>
           => ledger' \in Seq(LedgerLine) /\ \E m \in Nat : IsTop(ledger', m)
    BY <2>1, <2>2
  <2>5. UNCHANGED ledger => ledger' \in Seq(LedgerLine) /\ \E m \in Nat : IsTop(ledger', m)
    BY <2>2
  <2>. QED BY <2>3, <2>4, <2>5, LedgerBecomes
<1>4. now \in Nat
  BY DEF ObserverTyped
<1>5. reminder' \in SUBSET [at : Nat, what : Calls] /\ Single(reminder')
  <2>1. CASE Reminded(c, k) \/ Halted(c, k)
    BY <1>4, <2>1, RecordTyped DEF Reminded, Halted, RemindHalt, RemindJudged, SetReminder
  <2>2. CASE Told(c, k)
    BY <2>2 DEF Told, TakeReminder, Single
  <2>3. CASE UNCHANGED reminder
    BY <2>3 DEF ObserverTyped
  <2>. QED BY <2>1, <2>2, <2>3, HookTouches
<1>6. /\ verdict' \in SUBSET [at : Nat, what : Judges] /\ Single(verdict')
      /\ delivered' \in [Judges -> Nat] /\ withdrawn' \subseteq Judges
  <2>1. CASE TookNone(c, k)
    BY <2>1, HookTouches DEF TookNone, TakeVerdict, Single, ObserverTyped
  <2>2. CASE TookOne(c, k)
    <3>1. /\ verdict' = {} /\ hook[c].seen \in Judges
          /\ delivered' = [delivered EXCEPT ![hook[c].seen] = @ + 1]
      BY <1>0, <2>2 DEF TookOne, TakeVerdict
    <3>. QED BY <3>1, HookTouches DEF Single, ObserverTyped
  <2>3. CASE UNCHANGED <<verdict, delivered>>
    BY <2>3, HookTouches DEF ObserverTyped
  <2>. QED BY <2>1, <2>2, <2>3, HookTouches
<1>7. marker' \in SUBSET [at : Nat, what : Calls] /\ Single(marker')
  <2>1. CASE Opened(c, k)
    BY <1>4, <2>1, RecordTyped DEF Opened, OpenMarker
  <2>2. CASE Spawned(c, k)
    BY <2>2 DEF Spawned, Spawn, Single, ObserverTyped
  <2>3. CASE UNCHANGED marker
    BY <2>3 DEF ObserverTyped
  <2>. QED BY <2>1, <2>2, <2>3, HookTouches
<1>8. hook' \in [Calls -> HookRecord]
  BY DEF ObserverTyped
<1>9. \A d \in Calls : hook'[d].pc = "taking" => hook'[d].seen \in Judges
  <2>1. k.pc = "taking" => k.seen \in Judges
    BY HookTouches DEF FoundOne, ObserverTyped
  <2>. QED BY <2>1 DEF ObserverTyped
<1>10. judge' \in [Judges -> JudgeRecord] /\ outlived' \in BOOLEAN
  <2>1. CASE Spawned(c, k)
    BY <2>1, JudgeSpawned DEF Spawned, ObserverTyped
  <2>2. CASE UNCHANGED <<judge, outlived>>
    BY <2>2 DEF ObserverTyped
  <2>. QED BY <2>1, <2>2, HookTouches
<1>11. overlapped' \in BOOLEAN
  <2>1. CASE Begun(c, k)
    BY <2>1 DEF Begun, Begin
  <2>2. CASE UNCHANGED overlapped
    BY <2>2 DEF ObserverTyped
  <2>. QED BY <2>1, <2>2, HookTouches
<1>. QED BY <1>1, <1>2, <1>3, <1>5, <1>6, <1>7, <1>8, <1>9, <1>10, <1>11 DEF ObserverTyped

LEMMA TypedJudge ==
    ASSUME ObserverTyped, NEW j \in Judges, JudgeStep(j)
    PROVE  ObserverTyped'
<1>1. PICK k \in JudgeRecord : judge' = [judge EXCEPT ![j] = k] /\ (Reads(j, k) \/ Hires(j, k) \/ Stops(j, k))
  BY JudgeBecomes
<1>2. /\ UNCHANGED <<session, now, ledger, reminder, brief, hook, delivered, overlapped, outlived>>
      /\ faults' \in 0..session.faults
  BY JudgeBecomes
<1>3. judge' \in [Judges -> JudgeRecord]
  BY <1>1 DEF ObserverTyped
<1>4. /\ verdict' \in SUBSET [at : Nat, what : Judges] /\ Single(verdict')
      /\ withdrawn' \subseteq Judges
  <2>1. CASE Hires(j, k)
    <3>1. /\ verdict' = verdict \/ verdict' = {} \/ verdict' = Record(j, now)
          /\ withdrawn' = withdrawn \/ withdrawn' = withdrawn \cup {r.what : r \in verdict}
      BY <2>1 DEF Hires, Hire
    <3>2. verdict' \in SUBSET [at : Nat, what : Judges] /\ Single(verdict')
      <4>1. Record(j, now) \in SUBSET [at : Nat, what : Judges] /\ Single(Record(j, now))
        BY RecordTyped DEF ObserverTyped
      <4>2. verdict \in SUBSET [at : Nat, what : Judges] /\ Single(verdict) /\ Single({})
        BY DEF ObserverTyped, Single
      <4>. QED BY <3>1, <4>1, <4>2
    <3>3. {r.what : r \in verdict} \subseteq Judges
      BY DEF ObserverTyped
    <3>. QED BY <3>1, <3>2, <3>3 DEF ObserverTyped
  <2>2. CASE UNCHANGED <<verdict, withdrawn>>
    BY <2>2 DEF ObserverTyped
  <2>. QED BY <1>1, <2>1, <2>2 DEF Reads, Stops
<1>5. marker' \in SUBSET [at : Nat, what : Calls] /\ Single(marker')
  BY <1>1 DEF Reads, Hires, Stops, Single, ObserverTyped
<1>. QED BY <1>2, <1>3, <1>4, <1>5 DEF ObserverTyped

LEMMA TypedTick ==
    ASSUME ObserverTyped, ObserverTick
    PROVE  ObserverTyped'
  BY DEF ObserverTyped, ObserverTick, files, Single

LEMMA TypedInit == ObserverInit => ObserverTyped
<1>. SUFFICES ASSUME ObserverInit PROVE ObserverTyped
  OBVIOUS
<1>1. ledger \in Seq(LedgerLine) /\ IsTop(ledger, 0)
  BY DEF ObserverInit, IsTop, Numbered, Lines
<1>2. session \in Sessions /\ faults \in 0..session.faults
  BY ObserverAssumption DEF ObserverInit
<1>3. NoCall \in HookRecord /\ NoJudge \in JudgeRecord
  BY DEF NoCall, NoJudge, HookRecord, JudgeRecord, Kinds
<1>4. hook \in [Calls -> HookRecord] /\ judge \in [Judges -> JudgeRecord]
  BY <1>3 DEF ObserverInit
<1>5. \A c \in Calls : hook[c].pc = "idle"
  BY DEF ObserverInit, NoCall
<1>. QED BY <1>1, <1>2, <1>4, <1>5 DEF ObserverInit, ObserverTyped, Single

-----------------------------------------------------------------------------
(* Calls that follow each other, and what becomes of a halt. *)

LEMMA OthersAway ==
    ASSUME ObserverTyped, OneUnderWay, NEW c \in Calls, NEW k \in HookRecord, HookBecame(c, k),
           hook' = [hook EXCEPT ![c] = k], ~overlapped'
    PROVE  /\ ~overlapped
           /\ hook'[c] = k
           /\ \A d \in Calls \ {c} : hook'[d] = hook[d] /\ hook[d].pc \in {"idle", "done", "refused"}
<1>1. ~overlapped /\ \A d \in Calls \ {c} : ~UnderWay(d)
  <2>1. CASE Begun(c, k)
    BY <2>1 DEF Begun, Begin
  <2>2. CASE UNCHANGED overlapped /\ UnderWay(c)
    BY <2>2 DEF OneUnderWay
  <2>. QED BY <2>1, <2>2, HookTouches
<1>. QED BY <1>1 DEF UnderWay, ObserverTyped

LEMMA OneUnderWayHook ==
    ASSUME ObserverTyped, OneUnderWay, NEW c \in Calls, NEW k \in HookRecord, HookBecame(c, k),
           hook' = [hook EXCEPT ![c] = k]
    PROVE  OneUnderWay'
<1>. SUFFICES ASSUME ~overlapped', NEW d \in Calls, NEW e \in Calls, UnderWay(d)', UnderWay(e)'
              PROVE  d = e
  BY DEF OneUnderWay
<1>. QED BY OthersAway DEF UnderWay

LEMMA DeliveryHook ==
    ASSUME ObserverTyped, OneUnderWay, Delivery, NEW c \in Calls, NEW k \in HookRecord,
           HookBecame(c, k), hook' = [hook EXCEPT ![c] = k]
    PROVE  Delivery'
<1>. SUFFICES ASSUME ~overlapped' PROVE Delivery'
  BY DEF Delivery
<1>0. /\ hook'[c] = k
      /\ \A d \in Calls \ {c} : hook'[d] = hook[d] /\ hook[d].pc \in {"idle", "done", "refused"}
  BY OthersAway
<1>1. /\ \A j \in Judges : judge[j].pc \in {"idle", "read", "hire"} =>
           /\ delivered[j] = 0 /\ j \notin withdrawn
           /\ \A r \in verdict : r.what # j
           /\ \A d \in Calls : hook[d].pc = "taking" => hook[d].seen # j
      /\ \A r \in verdict : delivered[r.what] = 0 /\ r.what \in Judges
      /\ \A d \in Calls : hook[d].pc = "taking" => delivered[hook[d].seen] = 0
      /\ \A j \in Judges : delivered[j] <= 1
  BY OthersAway DEF Delivery, ObserverTyped
<1>2. UNCHANGED withdrawn
  BY HookTouches
<1>3. CASE FoundOne(c, k)
  <2>1. PICK r \in verdict : k.seen = r.what
    BY <1>3 DEF FoundOne
  <2>2. UNCHANGED <<verdict, delivered, judge>>
    BY <1>3 DEF FoundOne, ReadVerdict, files, auxiliary
  <2>3. \A d \in Calls : hook'[d].pc = "taking" => d = c
    BY <1>0
  <2>4. \A j \in Judges : judge[j].pc \in {"idle", "read", "hire"} => k.seen # j
    BY <1>1, <2>1
  <2>. QED BY <1>0, <1>1, <1>2, <2>1, <2>2, <2>3, <2>4 DEF Delivery
<1>4. \A d \in Calls : k.pc # "taking" => hook'[d].pc # "taking"
  BY <1>0
<1>5. CASE TookOne(c, k)
  <2>1. /\ verdict' = {} /\ hook[c].pc = "taking" /\ k.pc # "taking"
        /\ delivered' = [delivered EXCEPT ![hook[c].seen] = @ + 1]
    BY <1>5 DEF TookOne, TakeVerdict
  <2>2. UNCHANGED judge
    BY <1>5 DEF TookOne, TakeVerdict
  <2>3. /\ hook[c].seen \in Judges /\ delivered[hook[c].seen] = 0 /\ delivered \in [Judges -> Nat]
        /\ \A j \in Judges : judge[j].pc \in {"idle", "read", "hire"} => hook[c].seen # j
    BY <1>1, <2>1 DEF ObserverTyped
  <2>4. \A j \in Judges : delivered'[j] = IF j = hook[c].seen THEN 1 ELSE delivered[j]
    BY <2>1, <2>3
  <2>. QED BY <1>1, <1>2, <1>4, <2>1, <2>2, <2>3, <2>4 DEF Delivery
<1>6. CASE Spawned(c, k)
  <2>1. UNCHANGED <<verdict, delivered>> /\ k.pc # "taking"
    BY <1>6 DEF Spawned, Spawn
  <2>2. \A j \in Judges : judge'[j].pc \in {"idle", "read", "hire"} => judge[j].pc \in {"idle", "read", "hire"}
    BY <1>6, JudgeSpawned DEF Spawned, ObserverTyped
  <2>. QED BY <1>1, <1>2, <1>4, <2>1, <2>2 DEF Delivery
<1>7. CASE UNCHANGED <<verdict, delivered, judge>> /\ k.pc # "taking"
  BY <1>1, <1>2, <1>4, <1>7 DEF Delivery
<1>8. TookNone(c, k) => UNCHANGED <<verdict, delivered>>
  BY DEF TookNone, TakeVerdict
<1>. QED BY <1>3, <1>5, <1>6, <1>7, <1>8, HookTouches

LEMMA DeliveryJudge ==
    ASSUME ObserverTyped, Delivery, NEW j \in Judges, JudgeStep(j)
    PROVE  Delivery'
<1>. SUFFICES ASSUME ~overlapped' PROVE Delivery'
  BY DEF Delivery
<1>1. PICK k \in JudgeRecord : judge' = [judge EXCEPT ![j] = k] /\ (Reads(j, k) \/ Hires(j, k) \/ Stops(j, k))
  BY JudgeBecomes
<1>2. UNCHANGED <<hook, delivered, overlapped>>
  BY JudgeBecomes
<1>3. /\ \A i \in Judges : judge[i].pc \in {"idle", "read", "hire"} =>
           /\ delivered[i] = 0 /\ i \notin withdrawn
           /\ \A r \in verdict : r.what # i
           /\ \A d \in Calls : hook[d].pc = "taking" => hook[d].seen # i
      /\ \A r \in verdict : delivered[r.what] = 0
      /\ \A d \in Calls : hook[d].pc = "taking" => delivered[hook[d].seen] = 0
      /\ \A i \in Judges : delivered[i] <= 1
  BY <1>2 DEF Delivery
<1>4. \A i \in Judges : judge'[i] = IF i = j THEN k ELSE judge[i]
  BY <1>1 DEF ObserverTyped
<1>5. CASE Hires(j, k)
  <2>1. k.pc = "clear" /\ judge[j].pc = "hire"
    BY <1>5 DEF Hires, Hire
  <2>2. /\ verdict' = verdict \/ verdict' = {} \/ verdict' = Record(j, now)
        /\ withdrawn' = withdrawn \/ withdrawn' = withdrawn \cup {r.what : r \in verdict}
    BY <1>5 DEF Hires, Hire
  <2>3. \A r \in verdict' : r \in verdict \/ r.what = j
    BY <2>2 DEF Record
  <2>4. \A i \in withdrawn' : i \in withdrawn \/ \E r \in verdict : r.what = i
    BY <2>2
  <2>5. delivered[j] = 0
    BY <1>3, <2>1
  <2>6. \A r \in verdict' : delivered[r.what] = 0
    BY <1>3, <2>3, <2>5
  <2>7. \A i \in Judges : judge'[i].pc \in {"idle", "read", "hire"} => i # j /\ judge'[i] = judge[i]
    BY <1>4, <2>1
  <2>8. \A i \in Judges : judge'[i].pc \in {"idle", "read", "hire"} =>
           /\ delivered[i] = 0 /\ i \notin withdrawn'
           /\ \A r \in verdict' : r.what # i
           /\ \A d \in Calls : hook[d].pc = "taking" => hook[d].seen # i
    BY <1>3, <2>3, <2>4, <2>7
  <2>. QED BY <1>2, <1>3, <2>6, <2>8 DEF Delivery
<1>6. CASE Reads(j, k) \/ Stops(j, k)
  <2>1. UNCHANGED <<verdict, withdrawn>>
    BY <1>6 DEF Reads, Stops
  <2>2. \A i \in Judges : judge'[i].pc \in {"idle", "read", "hire"} => judge[i].pc \in {"idle", "read", "hire"}
    BY <1>4, <1>6, SMTT(40) DEF Reads, ReadBrief, Stops
  <2>. QED BY <1>2, <1>3, <2>1, <2>2 DEF Delivery
<1>. QED BY <1>1, <1>5, <1>6

-----------------------------------------------------------------------------
(* One judge at a time. *)

LEMMA CalmBefore ==
    ASSUME ObserverTyped, [ObserverNext]_observerVars, calm'
    PROVE  calm
  BY ZenonT(40) DEF ObserverTyped, calm, ObserverNext, HookStep, JudgeStep, observerVars, files, auxiliary,
         Begin, RemindHalt, AppendCall, ReadVerdict, TakeVerdict, RemindJudged, Due, WriteBrief,
         OpenMarker, MarkJudged, Spawn, End, Deliver, ReadReminder, TakeReminder, Kill,
         ReadBrief, Hire, DropMarker, JudgeDies, ObserverTick

\* A call goes on, and the judges and their files stay as they are.
LEMMA JudgingFrame ==
    ASSUME Judging, calm, calm', UNCHANGED <<judge, now, brief, marker, verdict, delivered, withdrawn>>,
           NEW c \in Calls, NEW k \in HookRecord, hook' = [hook EXCEPT ![c] = k],
           \A d \in Calls \ {c} : hook'[d] = hook[d] /\ hook[d].pc \in {"idle", "done", "refused"},
           hook'[c] = k,
           k.pc \notin {"brief", "mark", "handOver", "spawn", "taking"}
    PROVE  Judging'
<1>1. \A j \in Judges : JudgeFits(j)'
  BY DEF Judging, JudgeFits, Running
<1>2. \A d \in Calls : CallFitsJudge(d)'
  BY DEF CallFitsJudge
<1>. QED BY <1>1, <1>2 DEF Judging, Running

LEMMA JudgingHook ==
    ASSUME ObserverTyped, OneUnderWay, Delivery, Judging, NEW c \in Calls, NEW k \in HookRecord,
           HookBecame(c, k), hook' = [hook EXCEPT ![c] = k], calm' => calm
    PROVE  Judging'
<1>. SUFFICES ASSUME calm' PROVE Judging'
  BY DEF Judging
<1>0. /\ calm /\ hook'[c] = k
      /\ \A d \in Calls \ {c} : hook'[d] = hook[d] /\ hook[d].pc \in {"idle", "done", "refused"}
  BY OthersAway DEF calm
<1>1. /\ \A i, j \in Judges : Running(i) /\ Running(j) => i = j
      /\ \A j \in Judges : JudgeFits(j)
      /\ CallFitsJudge(c)
      /\ \A j \in withdrawn : delivered[j] = 0
      /\ \A r \in verdict : r.what \notin withdrawn
  BY <1>0 DEF Judging
<1>2. UNCHANGED <<now, withdrawn>>
  BY HookTouches
<1>3. \A d \in Calls \ {c} : CallFitsJudge(d)'
  BY <1>0 DEF CallFitsJudge
<1>4. CASE FoundOne(c, k)
  <2>1. UNCHANGED <<judge, brief, marker, verdict, delivered>> /\ k.pc = "taking" /\ k.seen \notin withdrawn
    BY <1>1, <1>4 DEF FoundOne, ReadVerdict, files, auxiliary
  <2>2. CallFitsJudge(c)'
    BY <1>0, <1>2, <2>1 DEF CallFitsJudge
  <2>3. \A j \in Judges : JudgeFits(j)'
    BY <1>1, <1>2, <2>1 DEF JudgeFits, Running
  <2>. QED BY <1>1, <1>2, <1>3, <2>1, <2>2, <2>3 DEF Judging, Running
<1>5. CASE TookOne(c, k)
  <2>1. /\ UNCHANGED <<judge, brief, marker>> /\ k.pc = "remindJudged" /\ verdict' = {}
        /\ delivered' = [delivered EXCEPT ![hook[c].seen] = @ + 1]
    BY <1>5 DEF TookOne, TakeVerdict
  <2>2. hook[c].seen \notin withdrawn
    BY <1>1, <1>5 DEF TookOne, TakeVerdict, CallFitsJudge
  <2>3. \A j \in withdrawn : delivered'[j] = delivered[j]
    BY <2>1, <2>2 DEF ObserverTyped
  <2>4. CallFitsJudge(c)'
    BY <1>0, <2>1 DEF CallFitsJudge
  <2>5. \A j \in Judges : JudgeFits(j)'
    BY <1>1, <1>2, <2>1 DEF JudgeFits, Running
  <2>. QED BY <1>1, <1>2, <1>3, <2>1, <2>3, <2>4, <2>5 DEF Judging, Running
<1>6. CASE WasDue(c, k)
  <2>1. UNCHANGED <<judge, brief, marker, verdict, delivered>> /\ k.pc = "brief" /\ JudgeIsDue
    BY <1>6 DEF WasDue, Due, files, auxiliary
  <2>2. ASSUME NEW j \in Judges, Running(j) PROVE FALSE
    <3>1. PICK d \in Calls : marker = Record(d, judge[j].since) /\ now - judge[j].since < InFlight
      BY <1>1, <2>2 DEF JudgeFits
    <3>2. [at |-> judge[j].since, what |-> d] \in Fresh(marker, InFlight, now)
      BY <3>1 DEF Record, Fresh
    <3>. QED BY <2>1, <3>2 DEF JudgeIsDue
  <2>3. CallFitsJudge(c)'
    BY <1>0, <2>1, <2>2 DEF CallFitsJudge, Running
  <2>4. \A j \in Judges : JudgeFits(j)'
    BY <1>1, <1>2, <2>1 DEF JudgeFits, Running
  <2>. QED BY <1>1, <1>2, <1>3, <2>1, <2>3, <2>4 DEF Judging, Running
<1>7. hook[c].pc \in {"brief", "mark", "handOver", "spawn"} =>
         \A j \in Judges : judge[j].pc \in {"idle", "done"}
  BY <1>1 DEF CallFitsJudge, Running
<1>8. CASE Briefed(c, k)
  <2>1. /\ UNCHANGED <<judge, marker, verdict, delivered>> /\ k.pc = "mark"
        /\ brief' = k.handed /\ hook[c].pc = "brief"
    BY <1>8 DEF Briefed, WriteBrief, Still, auxiliary
  <2>2. CallFitsJudge(c)'
    BY <1>0, <1>7, <2>1 DEF CallFitsJudge, Running
  <2>3. \A j \in Judges : JudgeFits(j)'
    BY <1>7, <2>1 DEF JudgeFits, Running
  <2>. QED BY <1>1, <1>2, <1>3, <2>1, <2>2, <2>3 DEF Judging, Running
<1>9. CASE Opened(c, k)
  <2>1. /\ UNCHANGED <<judge, brief, verdict, delivered>> /\ k.pc = "handOver" /\ k.handed = hook[c].handed
        /\ marker' = Record(c, k.seen) /\ hook[c].pc = "mark"
    BY <1>9 DEF Opened, OpenMarker, auxiliary
  <2>2. CallFitsJudge(c)'
    BY <1>0, <1>1, <1>7, <2>1 DEF CallFitsJudge, Running, Record
  <2>3. \A j \in Judges : JudgeFits(j)'
    BY <1>7, <2>1 DEF JudgeFits, Running
  <2>. QED BY <1>1, <1>2, <1>3, <2>1, <2>2, <2>3 DEF Judging, Running
<1>10. CASE HandedOver(c, k)
  <2>1. /\ UNCHANGED <<judge, brief, marker, verdict, delivered>> /\ k.pc = "spawn"
        /\ k.handed = hook[c].handed /\ k.seen = hook[c].seen /\ hook[c].pc = "handOver"
    BY <1>10 DEF HandedOver, MarkJudged, Still, auxiliary
  <2>2. CallFitsJudge(c)'
    BY <1>0, <1>1, <1>7, <2>1 DEF CallFitsJudge, Running, Record
  <2>3. \A j \in Judges : JudgeFits(j)'
    BY <1>7, <2>1 DEF JudgeFits, Running
  <2>. QED BY <1>1, <1>2, <1>3, <2>1, <2>2, <2>3 DEF Judging, Running
<1>11. CASE Spawned(c, k)
  <2>1. /\ UNCHANGED <<brief, verdict, delivered>> /\ k.pc = "rules" /\ hook[c].pc = "spawn" /\ Spawn(c)
    BY <1>11 DEF Spawned, Spawn
  <2>2. CallFitsJudge(c)'
    BY <1>0, <2>1 DEF CallFitsJudge
  <2>3. CASE marker' = {} /\ UNCHANGED judge
    <3>1. \A j \in Judges : JudgeFits(j)'
      BY <1>7, <2>1, <2>3 DEF JudgeFits, Running
    <3>. QED BY <1>1, <1>2, <1>3, <2>1, <2>2, <2>3, <3>1 DEF Judging, Running
  <2>4. ASSUME NEW j \in Judges, NEW new \in JudgeRecord, judge' = [judge EXCEPT ![j] = new],
               new.pc = "read", new.since = hook[c].seen, new.handed = hook[c].handed,
               outlived' = (outlived \/ now - hook[c].seen >= InFlight), UNCHANGED marker
        PROVE  Judging'
    <3>1. \A i \in Judges : judge'[i] = IF i = j THEN new ELSE judge[i]
      BY <2>4 DEF ObserverTyped
    <3>2. brief = hook[c].handed /\ marker = Record(c, hook[c].seen)
      BY <1>1, <2>1 DEF CallFitsJudge
    <3>3. now - hook[c].seen < InFlight
      <4>1. now \in Nat /\ hook[c].seen \in Nat /\ InFlight \in Nat
        BY ObserverAssumption DEF ObserverTyped, HookRecord
      <4>2. ~(now - hook[c].seen >= InFlight)
        BY <2>4 DEF calm
      <4>. QED BY <4>1, <4>2
    <3>4. \A i, l \in Judges : Running(i)' /\ Running(l)' => i = l
      BY <1>7, <2>1, <3>1 DEF Running
    <3>5. JudgeFits(j)'
      BY <1>2, <2>1, <2>4, <3>1, <3>2, <3>3 DEF JudgeFits, Record, Running
    <3>6. \A i \in Judges \ {j} : JudgeFits(i)'
      BY <1>7, <2>1, <3>1 DEF JudgeFits, Running
    <3>. QED BY <1>1, <1>2, <1>3, <2>1, <2>2, <3>4, <3>5, <3>6 DEF Judging
  <2>. QED BY <2>1, <2>3, <2>4, JudgeSpawned
<1>12. CASE UNCHANGED <<judge, brief, marker, verdict, delivered>>
            /\ k.pc \notin {"brief", "mark", "handOver", "spawn", "taking"}
  BY <1>0, <1>2, <1>12, JudgingFrame
<1>13. TookNone(c, k) => UNCHANGED <<verdict, delivered>>
  BY DEF TookNone, TakeVerdict
<1>14. \/ FoundOne(c, k) \/ TookOne(c, k) \/ WasDue(c, k) \/ Briefed(c, k) \/ Opened(c, k)
       \/ HandedOver(c, k) \/ Spawned(c, k)
       \/ k.pc \notin {"brief", "mark", "handOver", "spawn", "taking"}
  BY DEF HookBecame, Begun, Reminded, Appended, FoundNone, TookNone, Halted, WentOn, Ended, Printed, Read, Told, Killed
<1>. QED BY <1>4, <1>5, <1>6, <1>8, <1>9, <1>10, <1>11, <1>12, <1>13, <1>14, HookTouches

LEMMA JudgingJudge ==
    ASSUME ObserverTyped, Delivery, Judging, NEW j \in Judges, JudgeStep(j), calm' => calm
    PROVE  Judging'
<1>. SUFFICES ASSUME calm' PROVE Judging'
  BY DEF Judging
<1>1. PICK k \in JudgeRecord : judge' = [judge EXCEPT ![j] = k] /\ (Reads(j, k) \/ Hires(j, k) \/ Stops(j, k))
  BY JudgeBecomes
<1>2. UNCHANGED <<hook, now, brief, delivered>> /\ Running(j)
  BY JudgeBecomes
<1>3. /\ \A i \in Judges \ {j} : judge'[i] = judge[i] /\ judge[i].pc \in {"idle", "done"}
      /\ judge'[j] = k
      /\ JudgeFits(j)
      /\ \A c \in Calls : CallFitsJudge(c)
      /\ \A i \in withdrawn : delivered[i] = 0
      /\ \A r \in verdict : r.what \notin withdrawn
  <2>1. \A i \in Judges \ {j} : ~Running(i)
    BY <1>2 DEF Judging
  <2>. QED BY <1>1, <2>1 DEF Judging, ObserverTyped, Running
<1>4. \A i, l \in Judges : Running(i)' /\ Running(l)' => i = l
  BY <1>3 DEF Running
<1>5. \A i \in Judges \ {j} : JudgeFits(i)'
  BY <1>3 DEF JudgeFits, Running
<1>6. \A c \in Calls : /\ hook[c].pc \notin {"brief", "mark", "handOver", "spawn"}
                       /\ hook[c].pc = "taking" /\ judge[j].pc \in {"read", "hire"}
                            => hook[c].seen \notin withdrawn
  BY <1>2, <1>3 DEF CallFitsJudge
<1>7. CASE Reads(j, k)
  <2>1. JudgeFits(j)'
    BY <1>2, <1>3, <1>7 DEF Reads, ReadBrief, JudgeFits, Running
  <2>2. \A c \in Calls : CallFitsJudge(c)'
    BY <1>2, <1>6, <1>7 DEF Reads, ReadBrief, CallFitsJudge
  <2>. QED BY <1>2, <1>3, <1>4, <1>5, <1>7, <2>1, <2>2 DEF Reads, Judging
<1>8. CASE Hires(j, k)
  <2>1. k.pc = "clear" /\ judge[j].pc = "hire" /\ UNCHANGED marker
    BY <1>8 DEF Hires, Hire
  <2>2. \/ UNCHANGED <<verdict, withdrawn>>
        \/ verdict' = {} /\ withdrawn' = withdrawn \cup {r.what : r \in verdict}
        \/ verdict' = Record(j, now) /\ UNCHANGED withdrawn
    BY <1>8 DEF Hires, Hire
  <2>3. JudgeFits(j)'
    BY <1>2, <1>3, <1>8, <2>1 DEF Hires, JudgeFits, Running
  <2>4. \A i \in Judges : judge'[i].pc \notin {"read", "hire"}
    BY <1>3, <2>1
  <2>5. \A c \in Calls : CallFitsJudge(c)'
    <3>1. ASSUME NEW c \in Calls, hook[c].pc = "taking", hook[c].seen \in withdrawn' PROVE verdict' = {}
      BY <1>6, <2>1, <2>2, <3>1
    <3>. QED BY <1>2, <1>6, <2>4, <3>1 DEF CallFitsJudge
  <2>6. \A r \in verdict : delivered[r.what] = 0
    BY DEF Delivery, calm
  <2>7. j \notin withdrawn
    BY <2>1 DEF Delivery, calm
  <2>8. \A i \in withdrawn' : delivered[i] = 0
    BY <1>3, <2>2, <2>6
  <2>9. \A r \in verdict' : r.what \notin withdrawn'
    BY <1>3, <2>2, <2>7 DEF Record
  <2>. QED BY <1>2, <1>4, <1>5, <2>3, <2>5, <2>8, <2>9 DEF Judging
<1>9. CASE Stops(j, k)
  <2>1. JudgeFits(j)'
    BY <1>3, <1>9 DEF Stops, JudgeFits, Running
  <2>2. \A i \in Judges : judge'[i].pc \notin {"read", "hire"}
    BY <1>3, <1>9 DEF Stops
  <2>3. \A c \in Calls : CallFitsJudge(c)'
    BY <1>2, <1>3, <1>6, <1>9, <2>2 DEF Stops, CallFitsJudge
  <2>. QED BY <1>2, <1>3, <1>4, <1>5, <1>9, <2>1, <2>3 DEF Stops, Judging
<1>. QED BY <1>1, <1>7, <1>8, <1>9

LEMMA JudgingTick ==
    ASSUME ObserverTyped, Judging, ObserverTick, calm' => calm
    PROVE  Judging'
<1>. SUFFICES ASSUME calm' PROVE Judging'
  BY DEF Judging
<1>1. /\ now' = now + 1 /\ UNCHANGED <<files, hook, judge, delivered, withdrawn>>
      /\ outlived' = (outlived \/ \E j \in Judges : Running(j) /\ now' - judge[j].since >= InFlight)
  BY DEF ObserverTick
<1>2. \A j \in Judges : Running(j) => now' - judge[j].since < InFlight
  <2>1. \A j \in Judges : judge[j].since \in Nat
    BY DEF ObserverTyped, JudgeRecord
  <2>2. now' \in Nat /\ InFlight \in Nat
    BY <1>1, ObserverAssumption DEF ObserverTyped
  <2>3. \A j \in Judges : Running(j) => ~(now' - judge[j].since >= InFlight)
    BY <1>1 DEF calm
  <2>. QED BY <2>1, <2>2, <2>3
<1>3. \A j \in Judges : JudgeFits(j)'
  BY <1>1, <1>2 DEF Judging, JudgeFits, Running, files
<1>4. \A c \in Calls : CallFitsJudge(c)'
  BY <1>1 DEF Judging, CallFitsJudge, Running, files
<1>. QED BY <1>1, <1>3, <1>4 DEF Judging, Running, files

-----------------------------------------------------------------------------
(* The ledger. *)

\* The last halt of a class tells of all.
LEMMA NotRecently ==
    ASSUME NEW l \in Seq(LedgerLine), Growing(l, "h"), NEW class \in Classes,
           ~RecentlyHalted(l, class), Number(l) \in Nat
    PROVE  \A i \in Lines(l, "h") : l[i].what = class => Number(l) + 1 - l[i].n > Window
<1> DEFINE T == {h \in Lines(l, "h") : l[h].what = class}
<1>1. Len(l) \in Nat /\ DOMAIN l = 1..Len(l)
  OBVIOUS
<1>2. T \subseteq 1..Len(l) /\ \A h \in Lines(l, "h") : h \in Nat /\ l[h].n \in Nat
  BY <1>1, LinesTyped DEF Lines
<1>3. ASSUME NEW i \in Lines(l, "h"), l[i].what = class PROVE Number(l) + 1 - l[i].n > Window
  <2>1. T # {}
    BY <1>3
  <2>2. PICK h \in T : \A k \in T : k <= h
    <3> HIDE DEF T
    <3>. QED BY <1>1, <1>2, <2>1, GreatestNumber
  <2>3. ~(Number(l) - l[h].n < Window)
    BY <2>2 DEF RecentlyHalted
  <2>4. i <= h /\ l[i].n <= l[h].n
    BY <1>2, <1>3, <2>2 DEF Growing
  <2>5. l[i].n \in Nat /\ l[h].n \in Nat /\ Window \in Nat
    BY <1>2, <1>3, <2>2, ObserverAssumption
  <2>6. PICK a \in Nat, b \in Nat, n \in Nat : a = l[i].n /\ b = l[h].n /\ n = Number(l)
    BY <2>5
  <2>7. a <= b /\ ~(n - b < Window)
    BY <2>3, <2>4, <2>6
  <2>8. n + 1 - a > Window
    BY <2>5, <2>7
  <2>. QED BY <2>6, <2>8
<1>. QED BY <1>3

\* A call goes on, and the ledger stays as it is.
LEMMA GoesOnFits ==
    ASSUME NEW l \in Seq(LedgerLine), NEW hooks \in [Calls -> HookRecord], LedgerFits(l, hooks),
           NEW c \in Calls, NEW k \in HookRecord, k.refused = hooks[c].refused, k.refused => k.pc \in Gone,
           hooks[c].pc \notin {"idle", "remind", "append"} => k.pc \notin {"idle", "remind", "append"},
           k.pc \in Later => hooks[c].pc \in Later /\ k.number = hooks[c].number,
           Ahead(l, k)
    PROVE  LedgerFits(l, [hooks EXCEPT ![c] = k])
<1>0. PICK after : after = [hooks EXCEPT ![c] = k]
  OBVIOUS
<1>1. after[c] = k /\ \A d \in Calls \ {c} : after[d] = hooks[d]
  BY <1>0
<1>2. ASSUME NEW i \in Lines(l, "c") PROVE CallLine(l, after, i)
  <2>1. CallLine(l, hooks, i)
    BY DEF LedgerFits
  <2>2. CASE l[i].of = c
    BY <1>1, <2>1, <2>2 DEF CallLine
  <2>3. CASE l[i].of # c
    <3>1. after[l[i].of] = hooks[l[i].of]
      BY <1>1, <2>3, LinesTyped
    <3>. QED BY <2>1, <3>1 DEF CallLine
  <2>. QED BY <2>2, <2>3
<1>3. ASSUME NEW o \in Lines(l, "o") PROVE OutcomeLine(l, after, o)
  <2>1. OutcomeLine(l, hooks, o)
    BY DEF LedgerFits
  <2>2. after[l[o].of].refused = hooks[l[o].of].refused
    BY <1>1, LinesTyped
  <2>. QED BY <2>1, <2>2 DEF OutcomeLine
<1>4. ASSUME NEW d \in Calls PROVE InLedger(l, after[d], d)
  <2>1. InLedger(l, hooks[d], d)
    BY DEF LedgerFits
  <2>2. CASE d = c
    BY <1>1, <2>1, <2>2 DEF InLedger
  <2>3. CASE d # c
    BY <1>1, <2>1, <2>3
  <2>. QED BY <2>2, <2>3
<1>5. LedgerFits(l, after)
  BY <1>2, <1>3, <1>4 DEF LedgerFits
<1>. QED BY <1>0, <1>5

\* The ledger l2 is l and a last line.
LongerBy(l, line, l2, last) ==
    /\ last \in Nat /\ l2[last] = line
    /\ \A kind :
          /\ \A i \in Lines(l, kind) : i \in Lines(l2, kind) /\ l2[i] = l[i] /\ i < last
          /\ \A i \in Lines(l2, kind) : i \in Lines(l, kind) \/ (i = last /\ line.line = kind)
          /\ line.line = kind => last \in Lines(l2, kind)
          /\ line.line # kind => Lines(l2, kind) = Lines(l, kind)

LEMMA LongerLines ==
    ASSUME NEW l \in Seq(LedgerLine), NEW line \in LedgerLine
    PROVE  LongerBy(l, line, l \o <<line>>, Len(l) + 1)
<1>0. PICK l2 : l2 = l \o <<line>>
  OBVIOUS
<1>1. /\ Len(l) \in Nat /\ DOMAIN l = 1..Len(l)
      /\ \A i \in DOMAIN l : l2[i] = l[i]
      /\ l2[Len(l) + 1] = line
  BY <1>0, Longer
<1>2. ASSUME NEW kind
      PROVE  /\ \A i \in Lines(l, kind) : i \in Lines(l2, kind) /\ l2[i] = l[i] /\ i < Len(l) + 1
             /\ \A i \in Lines(l2, kind) : i \in Lines(l, kind) \/ (i = Len(l) + 1 /\ line.line = kind)
             /\ line.line = kind => Len(l) + 1 \in Lines(l2, kind)
             /\ line.line # kind => Lines(l2, kind) = Lines(l, kind)
  <2>1. Lines(l2, kind) = Lines(l, kind) \cup IF line.line = kind THEN {Len(l) + 1} ELSE {}
    BY <1>0, LinesGrow
  <2>2. Lines(l, kind) \subseteq 1..Len(l)
    BY <1>1 DEF Lines
  <2>. QED BY <1>1, <2>1, <2>2
<1>3. LongerBy(l, line, l2, Len(l) + 1)
  BY <1>1, <1>2 DEF LongerBy
<1>. QED BY <1>0, <1>3

\* A halt or the mark of a judge is added.
LEMMA NoteFits ==
    ASSUME NEW l \in Seq(LedgerLine), NEW hooks, LedgerFits(l, hooks), NEW line \in LedgerLine,
           line.line \in {"h", "j"},
           \A d \in Calls : hooks[d].pc \notin {"remind", "append"},
           line.line = "h" => \A i \in Lines(l, "h") :
              l[i].n < line.n /\ (l[i].what = line.what => line.n - l[i].n > Window)
    PROVE  LedgerFits(l \o <<line>>, hooks)
<1>0. PICK l2, last : l2 = l \o <<line>> /\ last = Len(l) + 1
  OBVIOUS
<1>00. LongerBy(l, line, l2, last)
  BY <1>0, LongerLines
<1>1. last \in Nat /\ l2[last] = line
  BY <1>00 DEF LongerBy
<1>2. /\ Lines(l2, "c") = Lines(l, "c") /\ \A i \in Lines(l, "c") : l2[i] = l[i]
      /\ Lines(l2, "o") = Lines(l, "o") /\ \A i \in Lines(l, "o") : l2[i] = l[i]
  BY <1>00 DEF LongerBy
<1>3. /\ \A i \in Lines(l, "h") : l2[i] = l[i] /\ i < last
      /\ \A i \in Lines(l2, "h") : i \in Lines(l, "h") \/ (i = last /\ line.line = "h")
  BY <1>00 DEF LongerBy
<1>4. Growing(l2, "c") /\ OnceEach(l2)
  BY <1>2 DEF LedgerFits, Growing, OnceEach
<1>5. Growing(l2, "h") /\ HaltsApart(l2)
  <2>1. ASSUME NEW i \in Lines(l2, "h"), NEW k \in Lines(l2, "h"), i < k
        PROVE  l2[i].n < l2[k].n /\ (l2[i].what = l2[k].what => l2[k].n - l2[i].n > Window)
    <3>0. i \in Lines(l, "h")
      <4>1. \A x \in Lines(l, "h") : x \in Nat
        BY LinesTyped
      <4>2. CASE i = last
        BY <1>1, <1>3, <2>1, <4>1, <4>2
      <4>. QED BY <1>3, <4>2
    <3>1. CASE k \in Lines(l, "h")
      BY <1>3, <2>1, <3>0, <3>1 DEF LedgerFits, Growing, HaltsApart
    <3>2. CASE k = last /\ line.line = "h"
      BY <1>1, <1>3, <3>0, <3>2
    <3>. QED BY <1>3, <3>1, <3>2
  <2>. QED BY <2>1 DEF Growing, HaltsApart
<1>6. \A i \in Lines(l2, "c") : CallLine(l2, hooks, i)
  BY <1>2 DEF LedgerFits, CallLine
<1>7. \A o \in Lines(l2, "o") : OutcomeLine(l2, hooks, o)
  BY <1>2 DEF LedgerFits, OutcomeLine
<1>8. \A d \in Calls : InLedger(l2, hooks[d], d)
  BY <1>2 DEF LedgerFits, InLedger, Ahead
<1>9. LedgerFits(l2, hooks)
  BY <1>4, <1>5, <1>6, <1>7, <1>8 DEF LedgerFits
<1>. QED BY <1>0, <1>9

\* A call enters the ledger.
LEMMA EntryFits ==
    ASSUME NEW l \in Seq(LedgerLine), NEW hooks \in [Calls -> HookRecord], LedgerFits(l, hooks),
           NEW c \in Calls, hooks[c].pc = "append",
           \A d \in Calls \ {c} : hooks[d].pc \in {"idle", "done", "refused"},
           NEW k \in HookRecord, k.number = hooks[c].number, k.pc \in {"tier2", "end"}, k.refused = FALSE,
           NEW line \in LedgerLine, line.line = "c", line.n = k.number, line.of = c
    PROVE  /\ LedgerFits(l \o <<line>>, [hooks EXCEPT ![c] = k])
           /\ Lines(l \o <<line>>, "h") = Lines(l, "h")
           /\ \A i \in Lines(l, "h") : (l \o <<line>>)[i] = l[i] /\ l[i].n < k.number
<1>0. PICK l2, last, after :
         l2 = l \o <<line>> /\ last = Len(l) + 1 /\ after = [hooks EXCEPT ![c] = k]
  OBVIOUS
<1>00. LongerBy(l, line, l2, last)
  BY <1>0, LongerLines
<1>1. last \in Nat /\ l2[last] = line
  BY <1>00 DEF LongerBy
<1>2. /\ Lines(l2, "h") = Lines(l, "h") /\ \A i \in Lines(l, "h") : l2[i] = l[i]
      /\ Lines(l2, "o") = Lines(l, "o") /\ \A i \in Lines(l, "o") : l2[i] = l[i]
  BY <1>00 DEF LongerBy
<1>3. /\ \A i \in Lines(l, "c") : l2[i] = l[i] /\ i < last /\ i \in Lines(l2, "c")
      /\ \A i \in Lines(l2, "c") : i \in Lines(l, "c") \/ i = last
      /\ last \in Lines(l2, "c")
  BY <1>00 DEF LongerBy
<1>4. /\ after[c] = k
      /\ \A d \in Calls \ {c} : after[d] = hooks[d] /\ hooks[d].pc \in {"idle", "done", "refused"}
  BY <1>0
<1>5. \A i \in Lines(l, "c") \cup Lines(l, "h") : l[i].n < k.number
  <2>1. IsTop(l, k.number - 1) /\ k.number \in Nat
    BY DEF LedgerFits, InLedger, Ahead, HookRecord
  <2>2. \A i \in Lines(l, "c") \cup Lines(l, "h") : l[i].n <= k.number - 1 /\ l[i].n \in Nat
    BY <2>1, LinesTyped DEF IsTop, Numbered
  <2>. QED BY <2>1, <2>2
<1>6. \A i \in Lines(l, "c") : l[i].of # c /\ i \in Nat /\ l[i].of \in Calls
  <2>1. \A i \in Lines(l, "c") : CallLine(l, hooks, i)
    BY DEF LedgerFits
  <2>. QED BY <2>1, LinesTyped DEF CallLine
<1>7. Growing(l2, "c")
  <2>1. ASSUME NEW i \in Lines(l2, "c"), NEW j \in Lines(l2, "c"), i < j PROVE l2[i].n < l2[j].n
    <3>1. i \in Lines(l, "c")
      <4>1. CASE i = last
        BY <1>1, <1>3, <1>6, <2>1, <4>1
      <4>. QED BY <1>3, <4>1
    <3>2. CASE j \in Lines(l, "c")
      BY <1>3, <2>1, <3>1, <3>2 DEF LedgerFits, Growing
    <3>3. CASE j = last
      BY <1>1, <1>3, <1>5, <3>1, <3>3
    <3>. QED BY <1>3, <3>2, <3>3
  <2>. QED BY <2>1 DEF Growing
<1>8. OnceEach(l2)
  <2>1. ASSUME NEW i \in Lines(l2, "c"), NEW j \in Lines(l2, "c"), l2[i].of = l2[j].of PROVE i = j
    <3>1. CASE i = last
      BY <1>1, <1>3, <1>6, <2>1, <3>1
    <3>2. CASE j = last
      <4>1. i \notin Lines(l, "c")
        BY <1>1, <1>3, <1>6, <2>1, <3>2
      <4>. QED BY <1>3, <3>2, <4>1
    <3>3. CASE i \in Lines(l, "c") /\ j \in Lines(l, "c")
      BY <1>3, <2>1, <3>3 DEF LedgerFits, OnceEach
    <3>. QED BY <1>3, <3>1, <3>2, <3>3
  <2>. QED BY <2>1 DEF OnceEach
<1>9. Growing(l2, "h") /\ HaltsApart(l2)
  BY <1>2 DEF LedgerFits, Growing, HaltsApart
<1>10. ASSUME NEW i \in Lines(l2, "c") PROVE CallLine(l2, after, i)
  <2>1. CASE i = last
    BY <1>1, <1>4, <2>1 DEF CallLine
  <2>2. CASE i \in Lines(l, "c")
    <3>1. CallLine(l, hooks, i) /\ l2[i] = l[i] /\ after[l[i].of] = hooks[l[i].of]
      BY <1>3, <1>4, <1>6, <2>2 DEF LedgerFits
    <3>. QED BY <1>2, <3>1 DEF CallLine
  <2>. QED BY <1>3, <2>1, <2>2
<1>11. ASSUME NEW o \in Lines(l2, "o") PROVE OutcomeLine(l2, after, o)
  <2>1. OutcomeLine(l, hooks, o) /\ l2[o] = l[o] /\ l[o].of \in Calls
    BY <1>2, LinesTyped DEF LedgerFits
  <2>2. l[o].what = "deny" => l[o].of # c
    <3>1. InLedger(l, hooks[c], c)
      BY DEF LedgerFits
    <3>2. ~hooks[c].refused
      BY <3>1 DEF InLedger, Gone
    <3>. QED BY <2>1, <3>2 DEF OutcomeLine
  <2>3. l[o].what = "deny" => after[l[o].of] = hooks[l[o].of]
    BY <1>4, <2>1, <2>2
  <2>. QED BY <1>3, <2>1, <2>3 DEF OutcomeLine
<1>12. ASSUME NEW d \in Calls PROVE InLedger(l2, after[d], d)
  <2>1. CASE d = c
    BY <1>1, <1>3, <1>4, <2>1 DEF InLedger, Ahead, Later
  <2>2. CASE d # c
    <3>1. InLedger(l, hooks[d], d) /\ after[d] = hooks[d] /\ hooks[d].pc \in {"idle", "done", "refused"}
      BY <1>4, <2>2 DEF LedgerFits
    <3>. QED BY <3>1 DEF InLedger, Ahead, Later
  <2>. QED BY <2>1, <2>2
<1>13. LedgerFits(l2, after)
  BY <1>7, <1>8, <1>9, <1>10, <1>11, <1>12 DEF LedgerFits
<1>. QED BY <1>0, <1>2, <1>5, <1>13

\* A call has its outcome.
LEMMA OutcomeFits ==
    ASSUME NEW l \in Seq(LedgerLine), NEW hooks \in [Calls -> HookRecord], LedgerFits(l, hooks),
           NEW c \in Calls, hooks[c].pc \in Later,
           \A d \in Calls \ {c} : hooks[d].pc \in {"idle", "done", "refused"},
           NEW k \in HookRecord, k.pc = "answer",
           NEW line \in LedgerLine, line.line = "o", line.n = hooks[c].number, line.of = c,
           line.what = IF k.refused THEN "deny" ELSE "allow"
    PROVE  LedgerFits(l \o <<line>>, [hooks EXCEPT ![c] = k])
<1>0. PICK l2, last, after :
         l2 = l \o <<line>> /\ last = Len(l) + 1 /\ after = [hooks EXCEPT ![c] = k]
  OBVIOUS
<1>00. LongerBy(l, line, l2, last)
  BY <1>0, LongerLines
<1>1. last \in Nat /\ l2[last] = line
  BY <1>00 DEF LongerBy
<1>2. /\ Lines(l2, "h") = Lines(l, "h") /\ \A i \in Lines(l, "h") : l2[i] = l[i]
      /\ Lines(l2, "c") = Lines(l, "c") /\ \A i \in Lines(l, "c") : l2[i] = l[i] /\ i < last
  BY <1>00 DEF LongerBy
<1>3. /\ \A i \in Lines(l, "o") : l2[i] = l[i] /\ i < last /\ i \in Lines(l2, "o")
      /\ \A i \in Lines(l2, "o") : i \in Lines(l, "o") \/ i = last
      /\ last \in Lines(l2, "o")
  BY <1>00 DEF LongerBy
<1>4. /\ after[c] = k /\ k.pc = "answer"
      /\ \A d \in Calls \ {c} : after[d] = hooks[d] /\ hooks[d].pc \in {"idle", "done", "refused"}
  BY <1>0
<1>5. Growing(l2, "c") /\ OnceEach(l2) /\ Growing(l2, "h") /\ HaltsApart(l2)
  BY <1>2 DEF LedgerFits, Growing, HaltsApart, OnceEach
<1>6. ASSUME NEW i \in Lines(l2, "c") PROVE CallLine(l2, after, i)
  <2>1. CallLine(l, hooks, i) /\ l2[i] = l[i] /\ l[i].of \in Calls /\ i < last
    BY <1>2, LinesTyped DEF LedgerFits
  <2>2. CASE l[i].of = c
    <3>1. l[i].n = hooks[c].number
      BY <2>1, <2>2 DEF CallLine
    <3>. QED BY <1>1, <1>3, <1>4, <2>1, <2>2, <3>1 DEF CallLine, Later
  <2>3. CASE l[i].of # c
    <3>1. after[l[i].of] = hooks[l[i].of]
      BY <1>4, <2>1, <2>3
    <3>. QED BY <1>3, <2>1, <3>1 DEF CallLine
  <2>. QED BY <2>2, <2>3
<1>7. ASSUME NEW o \in Lines(l2, "o") PROVE OutcomeLine(l2, after, o)
  <2>1. CASE o = last
    <3>1. PICK i \in Lines(l, "c") : l[i].of = c
      BY DEF LedgerFits, InLedger
    <3>2. l[i].n = hooks[c].number
      BY <3>1 DEF LedgerFits, CallLine
    <3>. QED BY <1>1, <1>2, <1>4, <2>1, <3>1, <3>2 DEF OutcomeLine
  <2>2. CASE o \in Lines(l, "o")
    <3>1. OutcomeLine(l, hooks, o) /\ l2[o] = l[o] /\ l[o].of \in Calls
      BY <1>3, <2>2, LinesTyped DEF LedgerFits
    <3>2. l[o].what = "deny" => l[o].of # c
      <4>1. InLedger(l, hooks[c], c)
        BY DEF LedgerFits
      <4>2. ~hooks[c].refused
        BY <4>1 DEF InLedger, Gone, Later
      <4>. QED BY <3>1, <4>2 DEF OutcomeLine
    <3>3. l[o].what = "deny" => after[l[o].of] = hooks[l[o].of]
      BY <1>4, <3>1, <3>2
    <3>. QED BY <1>2, <3>1, <3>3 DEF OutcomeLine
  <2>. QED BY <1>3, <2>1, <2>2
<1>8. ASSUME NEW d \in Calls PROVE InLedger(l2, after[d], d)
  <2>1. CASE d = c
    BY <1>4, <2>1 DEF InLedger, Ahead, Later, Gone
  <2>2. CASE d # c
    <3>1. InLedger(l, hooks[d], d) /\ after[d] = hooks[d] /\ hooks[d].pc \in {"idle", "done", "refused"}
      BY <1>4, <2>2 DEF LedgerFits
    <3>. QED BY <3>1 DEF InLedger, Ahead, Later
  <2>. QED BY <2>1, <2>2
<1>9. LedgerFits(l2, after)
  BY <1>5, <1>6, <1>7, <1>8 DEF LedgerFits
<1>. QED BY <1>0, <1>9

LEMMA LedgerHook ==
    ASSUME ObserverTyped, OneUnderWay, Ledger, NEW c \in Calls, NEW k \in HookRecord,
           HookBecame(c, k), hook' = [hook EXCEPT ![c] = k]
    PROVE  Ledger'
<1>. SUFFICES ASSUME ~overlapped' PROVE LedgerFits(ledger', hook')
  BY DEF Ledger
<1>0. /\ LedgerFits(ledger, hook) /\ hook'[c] = k
      /\ \A d \in Calls \ {c} : hook'[d] = hook[d] /\ hook[d].pc \in {"idle", "done", "refused"}
  BY OthersAway DEF Ledger
<1>1. /\ ledger \in Seq(LedgerLine) /\ hook \in [Calls -> HookRecord] /\ hook[c] \in HookRecord
      /\ Number(ledger) \in Nat /\ IsTop(ledger, Number(ledger))
  BY NumberTyped DEF ObserverTyped
<1>2. Ahead(ledger, hook[c]) /\ (hook[c].refused => hook[c].pc \in Gone)
  BY <1>0 DEF LedgerFits, InLedger
<1>3. CASE Begun(c, k)
  <2>1. /\ UNCHANGED ledger /\ hook[c].pc = "idle" /\ k.pc \in {"append", "remind"}
        /\ k.number = Number(ledger) + 1 /\ k.refused = FALSE
        /\ k.halt # NoClass => ~RecentlyHalted(ledger, k.halt)
    BY <1>3 DEF Begun, Begin, files
  <2>2. k.halt \in Classes \cup {NoClass}
    BY DEF HookRecord
  <2>3. ASSUME NEW i \in Lines(ledger, "h"), ledger[i].what = k.halt
        PROVE  k.number - ledger[i].n > Window
    <3>1. ledger[i].line = "h" /\ ledger[i] \in LedgerLine
      BY <1>1, LinesTyped DEF Lines
    <3>2. CASE k.halt = NoClass
      <4>1. NoClass \notin Kinds \cup Classes \cup {"deny", "allow", "judged"}
        BY DEF NoClass, Kinds, Classes
      <4>. QED BY <2>3, <3>1, <3>2, <4>1 DEF LedgerLine
    <3>3. CASE k.halt \in Classes
      <4>1. ~RecentlyHalted(ledger, k.halt)
        BY <2>1, <3>3 DEF NoClass, Classes
      <4>2. Growing(ledger, "h")
        BY <1>0 DEF LedgerFits
      <4>3. \A h \in Lines(ledger, "h") :
               ledger[h].what = k.halt => Number(ledger) + 1 - ledger[h].n > Window
        <5>1. PICK class \in Classes, n \in Nat : class = k.halt /\ n = Number(ledger)
          BY <1>1, <3>3
        <5>2. ledger \in Seq(LedgerLine) /\ ~RecentlyHalted(ledger, class) /\ Number(ledger) \in Nat
          BY <1>1, <4>1, <5>1
        <5>3. \A h \in Lines(ledger, "h") :
                 ledger[h].what = class => Number(ledger) + 1 - ledger[h].n > Window
          BY <4>2, <5>2, NotRecently
        <5>. QED BY <5>1, <5>3
      <4>4. Number(ledger) + 1 - ledger[i].n > Window
        BY <2>3, <4>3
      <4>5. k.number = Number(ledger) + 1
        BY <2>1
      <4>6. ledger[i].n \in Nat
        BY <3>1 DEF LedgerLine
      <4>7. PICK a \in Nat, n \in Nat : a = ledger[i].n /\ n = Number(ledger)
        BY <1>1, <4>6
      <4>8. n + 1 - a > Window
        BY <4>4, <4>7
      <4>9. k.number = n + 1
        BY <4>5, <4>7
      <4>10. k.number - a > Window
        BY <4>8, <4>9
      <4>. QED BY <4>7, <4>10
    <3>. QED BY <2>2, <3>2, <3>3
  <2>4. Ahead(ledger, k)
    <3>1. k.number - 1 = Number(ledger)
      BY <1>1, <2>1
    <3>. QED BY <1>1, <2>3, <3>1 DEF Ahead
  <2>5. LedgerFits(ledger, hook')
    <3>1. hook[c].refused = FALSE
      BY <1>1, <1>2, <2>1 DEF Gone, HookRecord
    <3>. QED BY <1>0, <1>1, <2>1, <2>4, <3>1, GoesOnFits DEF Later
  <2>. QED BY <2>1, <2>5
<1>4. CASE Appended(c, k)
  <2>1. /\ hook[c].pc = "append" /\ k.number = hook[c].number /\ k.halt = hook[c].halt
        /\ k.refused = FALSE /\ k.pc \in {"tier2", "end"}
    BY <1>1, <1>2, <1>4 DEF Appended, AppendCall, Still, AsIs, Gone, HookRecord
  <2>2. PICK line : line = Line("c", k.number, k.kind, c)
    OBVIOUS
  <2>3. line \in LedgerLine /\ line.line = "c" /\ line.n = k.number /\ line.of = c
    BY <2>2, <1>1 DEF Line, LedgerLine, HookRecord
  <2>4. PICK l2 : l2 = ledger \o <<line>>
    OBVIOUS
  <2>5. /\ LedgerFits(l2, hook')
        /\ Lines(l2, "h") = Lines(ledger, "h")
        /\ \A i \in Lines(ledger, "h") : l2[i] = ledger[i] /\ ledger[i].n < k.number
    <3>1. \A d \in Calls \ {c} : hook[d].pc \in {"idle", "done", "refused"}
      BY <1>0
    <3>2. /\ LedgerFits(ledger \o <<line>>, [hook EXCEPT ![c] = k])
          /\ Lines(ledger \o <<line>>, "h") = Lines(ledger, "h")
          /\ \A i \in Lines(ledger, "h") :
                (ledger \o <<line>>)[i] = ledger[i] /\ ledger[i].n < k.number
      BY <1>0, <1>1, <2>1, <2>3, <3>1, EntryFits, ZenonT(60)
    <3>. QED BY <2>4, <3>2, Zenon
  <2>6. CASE ledger' = ledger \o <<Line("c", k.number, k.kind, c)>>
    BY <2>2, <2>4, <2>5, <2>6
  <2>7. CASE /\ Line("h", k.number, k.halt, c) \in LedgerLine
             /\ ledger' = ledger \o <<Line("c", k.number, k.kind, c)>> \o <<Line("h", k.number, k.halt, c)>>
    <3>1. PICK next \in LedgerLine : next = Line("h", k.number, k.halt, c)
      BY <2>7
    <3>2. next.line = "h" /\ next.n = k.number /\ next.what = k.halt
      BY <3>1 DEF Line
    <3>3. l2 \in Seq(LedgerLine) /\ ledger' = l2 \o <<next>>
      <4>1. l2 \in Seq(LedgerLine)
        BY <1>1, <2>3, <2>4, Longer
      <4>2. ledger' = l2 \o <<next>>
        BY <2>2, <2>4, <2>7, <3>1
      <4>. QED BY <4>1, <4>2
    <3>4. \A i \in Lines(l2, "h") :
             l2[i].n < next.n /\ (l2[i].what = next.what => next.n - l2[i].n > Window)
      BY <1>2, <2>1, <2>5, <3>2 DEF Ahead
    <3>5. \A d \in Calls : hook'[d].pc \notin {"remind", "append"}
      BY <1>0, <2>1
    <3>6. PICK l3 : l3 = l2 \o <<next>>
      OBVIOUS
    <3>7. LedgerFits(l3, hook')
      BY <2>5, <3>2, <3>3, <3>4, <3>5, <3>6, NoteFits
    <3>. QED BY <3>3, <3>6, <3>7
  <2>8. k.halt = NoClass => ledger' = ledger \o <<Line("c", k.number, k.kind, c)>>
    <3>1. k.kind = hook[c].kind
      BY <1>4 DEF Appended, Still, AsIs
    <3>. QED BY <1>4, <2>1, <3>1 DEF Appended, AppendCall
  <2>9. k.halt # NoClass => Line("h", k.number, k.halt, c) \in LedgerLine
    BY <1>1 DEF Line, LedgerLine, HookRecord
  <2>10. k.halt # NoClass =>
           ledger' = ledger \o <<Line("c", k.number, k.kind, c)>> \o <<Line("h", k.number, k.halt, c)>>
    <3>1. k.kind = hook[c].kind
      BY <1>4 DEF Appended, Still, AsIs
    <3>. QED BY <1>4, <2>1, <3>1 DEF Appended, AppendCall
  <2>. QED BY <2>6, <2>7, <2>8, <2>9, <2>10
<1>5. CASE HandedOver(c, k)
  <2>1. /\ hook[c].pc = "handOver" /\ k.pc = "spawn" /\ k.number = hook[c].number
        /\ k.refused = FALSE /\ hook[c].refused = FALSE
    BY <1>1, <1>2, <1>5 DEF HandedOver, MarkJudged, Still, AsIs, Gone, HookRecord
  <2>2. PICK line \in LedgerLine : line.line = "j" /\ ledger' = ledger \o <<line>>
    <3>1. /\ Line("j", hook[c].handed, "judged", c) \in LedgerLine
          /\ Line("j", hook[c].handed, "judged", c).line = "j"
      BY <1>1 DEF Line, LedgerLine, HookRecord
    <3>. QED BY <1>5, <3>1 DEF HandedOver, MarkJudged
  <2>3. PICK l2 : l2 = ledger \o <<line>>
    OBVIOUS
  <2>4. \A d \in Calls : hook[d].pc \notin {"remind", "append"}
    BY <1>0, <2>1
  <2>5. LedgerFits(l2, hook)
    BY <1>0, <1>1, <2>2, <2>3, <2>4, NoteFits
  <2>6. LedgerFits(l2, hook')
    <3>1. Ahead(l2, k)
      BY <2>1 DEF Ahead
    <3>2. l2 \in Seq(LedgerLine)
      BY <1>1, <2>2, <2>3, Longer
    <3>. QED BY <1>1, <2>1, <2>5, <3>1, <3>2, GoesOnFits DEF Later
  <2>. QED BY <2>2, <2>3, <2>6
<1>6. CASE Ended(c, k)
  <2>1. hook[c].pc \in Later /\ k.pc = "answer"
    BY <1>6 DEF Ended, End, Later
  <2>2. PICK what \in {"deny", "allow"} : what = IF k.refused THEN "deny" ELSE "allow"
    OBVIOUS
  <2>3. PICK line : line = Line("o", hook[c].number, what, c)
    OBVIOUS
  <2>4. /\ line \in LedgerLine /\ line.line = "o" /\ line.n = hook[c].number /\ line.of = c
        /\ line.what = what
    BY <1>1, <2>3 DEF Line, LedgerLine, HookRecord
  <2>5. ledger' = ledger \o <<line>>
    BY <1>6, <2>2, <2>3 DEF Ended
  <2>6. PICK l2 : l2 = ledger \o <<line>>
    OBVIOUS
  <2>7. LedgerFits(l2, hook')
    BY <1>0, <1>1, <2>1, <2>2, <2>4, <2>6, OutcomeFits, ZenonT(60)
  <2>. QED BY <2>5, <2>6, <2>7
<1>7. CASE UNCHANGED ledger /\ ~Begun(c, k) /\ ~Appended(c, k) /\ ~HandedOver(c, k) /\ ~Ended(c, k)
  <2>1. hook[c].pc \notin {"idle", "done", "refused"}
    BY <1>7, HookTouches DEF UnderWay
  <2>2. k.refused = hook[c].refused
    BY <1>7 DEF HookBecame, Reminded, Appended, FoundNone, FoundOne, TookNone, TookOne,
       Halted, WentOn, WasDue, Briefed, Opened, HandedOver, Spawned, Ended, Printed, Read, Told, Killed,
       Still, AsIs
  <2>3. /\ hook[c].pc \notin {"remind", "append"} => k.pc \notin {"remind", "append"}
        /\ k.pc # "idle"
        /\ k.pc \in Later => hook[c].pc \in Later /\ k.number = hook[c].number
        /\ k.pc \in {"remind", "append"} => k.number = hook[c].number /\ k.halt = hook[c].halt
    <3>1. CASE Reminded(c, k)
      BY <3>1 DEF Reminded, RemindHalt, Still, AsIs, Later
    <3>2. CASE FoundNone(c, k) \/ FoundOne(c, k)
      BY <3>2 DEF FoundNone, FoundOne, ReadVerdict, Still, AsIs, Later
    <3>3. CASE TookNone(c, k) \/ TookOne(c, k)
      BY <3>3 DEF TookNone, TookOne, TakeVerdict, Still, AsIs, Later
    <3>4. CASE Halted(c, k)
      BY <3>4 DEF Halted, RemindJudged, Still, AsIs, Later
    <3>5. CASE WentOn(c, k) \/ WasDue(c, k)
      BY <3>5 DEF WentOn, WasDue, Due, Still, AsIs, Later
    <3>6. CASE Briefed(c, k)
      BY <3>6 DEF Briefed, WriteBrief, Still, AsIs, Later
    <3>7. CASE Opened(c, k)
      BY <3>7 DEF Opened, OpenMarker, AsIs, Later
    <3>8. CASE Spawned(c, k)
      BY <3>8 DEF Spawned, Spawn, Still, AsIs, Later
    <3>9. CASE Read(c, k) \/ Told(c, k)
      BY <3>9 DEF Read, Told, ReadReminder, TakeReminder, Later
    <3>10. CASE Killed(c, k)
      BY <3>10 DEF Killed, Later
    <3>11. CASE Printed(c, k)
      BY <3>11 DEF Printed, Later
    <3>. QED BY <1>7, <3>1, <3>2, <3>3, <3>4, <3>5, <3>6, <3>7, <3>8, <3>9, <3>10, <3>11 DEF HookBecame
  <2>4. Ahead(ledger, k)
    BY <1>2, <2>3 DEF Ahead
  <2>5. k.refused => k.pc \in Gone
    BY <1>2, HearsTo
  <2>. QED BY <1>0, <1>1, <1>7, <2>1, <2>2, <2>3, <2>4, <2>5, GoesOnFits
<1>. QED BY <1>3, <1>4, <1>5, <1>6, <1>7, HookTouches

-----------------------------------------------------------------------------
(* The invariant and what follows from it. *)

LEMMA OInvInit == ObserverInit => OInv
<1> SUFFICES ASSUME ObserverInit PROVE OInv
  OBVIOUS
<1>1. ObserverTyped
  BY TypedInit
<1>2. /\ ledger = <<>> /\ verdict = {} /\ marker = {} /\ withdrawn = {}
      /\ hook = [c \in Calls |-> NoCall] /\ judge = [j \in Judges |-> NoJudge]
      /\ delivered = [j \in Judges |-> 0]
  BY DEF ObserverInit
<1>3. /\ \A c \in Calls : hook[c].pc = "idle" /\ hook[c].refused = FALSE
      /\ \A j \in Judges : judge[j].pc = "idle" /\ delivered[j] = 0
  BY <1>2, Zenon DEF NoCall, NoJudge
<1>4. OneUnderWay /\ Delivery /\ Judging
  BY <1>2, <1>3 DEF OneUnderWay, UnderWay, Delivery, Judging, JudgeFits, CallFitsJudge, Running
<1>5. \A kind : Lines(<<>>, kind) = {}
  BY DEF Lines
<1>6. LedgerFits(<<>>, hook)
  BY <1>3, <1>5 DEF LedgerFits, Growing, HaltsApart, OnceEach, InLedger, Ahead, Later
<1>7. Ledger
  BY <1>2, <1>6 DEF Ledger
<1>8. ToldRight
  BY <1>3 DEF ToldRight
<1>. QED BY <1>1, <1>4, <1>7, <1>8 DEF OInv

LEMMA OInvNext == OInv /\ [ObserverNext]_observerVars => OInv'
<1> SUFFICES ASSUME OInv, [ObserverNext]_observerVars PROVE OInv'
  OBVIOUS
<1>1. ObserverTyped /\ OneUnderWay /\ Delivery /\ Judging /\ Ledger /\ ToldRight
  BY DEF OInv
<1>2. calm' => calm
  BY <1>1, CalmBefore
<1>3. ASSUME UNCHANGED <<hook, ledger, overlapped>> PROVE OneUnderWay' /\ Ledger'
  BY <1>1, <1>3 DEF OneUnderWay, UnderWay, Ledger
<1>30. ASSUME UNCHANGED hook, faults > 0 => faults' > 0 PROVE ToldRight'
  BY <1>1, <1>30 DEF ToldRight
<1>4. ASSUME NEW c \in Calls, HookStep(c) PROVE OInv'
  <2>1. PICK k \in HookRecord : hook' = [hook EXCEPT ![c] = k] /\ HookBecame(c, k)
    BY <1>1, <1>4, HookBecomes
  <2>2. ObserverTyped'
    BY <1>1, <2>1, TypedHook
  <2>3. OneUnderWay'
    BY <1>1, <2>1, OneUnderWayHook
  <2>4. Delivery'
    BY <1>1, <2>1, DeliveryHook
  <2>5. Judging'
    BY <1>1, <1>2, <2>1, JudgingHook
  <2>6. Ledger'
    BY <1>1, <2>1, LedgerHook
  <2>7. ToldRight'
    BY <1>1, <2>1, HeardHook
  <2>. QED BY <2>2, <2>3, <2>4, <2>5, <2>6, <2>7 DEF OInv
<1>5. ASSUME NEW j \in Judges, JudgeStep(j) PROVE OInv'
  <2>1. UNCHANGED <<hook, ledger, overlapped>>
    BY <1>1, <1>5, JudgeBecomes
  <2>2. ObserverTyped'
    BY <1>1, <1>5, TypedJudge
  <2>3. Delivery'
    BY <1>1, <1>5, DeliveryJudge
  <2>4. Judging'
    BY <1>1, <1>2, <1>5, JudgingJudge
  <2>5. ToldRight'
    <3>1. faults \in Nat
      BY <1>1, ObserverAssumption DEF ObserverTyped
    <3>2. faults' = faults \/ faults' = faults + 1
      BY <1>5 DEF JudgeStep, ReadBrief, Hire, DropMarker, JudgeDies, Fault
    <3>. QED BY <1>30, <2>1, <3>1, <3>2
  <2>. QED BY <1>3, <2>1, <2>2, <2>3, <2>4, <2>5 DEF OInv
<1>6. CASE ObserverTick
  <2>1. UNCHANGED <<hook, ledger, overlapped, judge, verdict, delivered, withdrawn>>
    BY <1>6 DEF ObserverTick, files
  <2>2. ObserverTyped'
    BY <1>1, <1>6, TypedTick
  <2>3. Delivery'
    BY <1>1, <2>1 DEF Delivery
  <2>4. Judging'
    BY <1>1, <1>2, <1>6, JudgingTick
  <2>5. ToldRight'
    BY <1>6, <1>30, <2>1 DEF ObserverTick
  <2>. QED BY <1>3, <2>1, <2>2, <2>3, <2>4, <2>5 DEF OInv
<1>7. CASE UNCHANGED observerVars
  BY <1>1, <1>7 DEF observerVars, files, auxiliary, OInv, ObserverTyped, Single, OneUnderWay, UnderWay,
     Delivery, Judging, JudgeFits, CallFitsJudge, Running, calm, Ledger, ToldRight
<1>. QED BY <1>4, <1>5, <1>6, <1>7 DEF ObserverNext

\* The invariant the properties of the observer rest on (watch.rs, judge.rs): who is
\* under way, what a verdict, a marker and a brief say of the judges and the calls,
\* and what every line of the ledger says of the call it is about.
THEOREM ObserverInvariant == ObserverSpec => []OInv
<1>. QED BY OInvInit, OInvNext, PTL DEF ObserverSpec

\* A set whose members are all equal has at most one.
LEMMA AtMostOne ==
    ASSUME NEW S, \A x, y \in S : x = y
    PROVE  IsFiniteSet(S) /\ Cardinality(S) <= 1
<1>1. CASE S = {}
  BY <1>1, FS_EmptySet
<1>2. CASE S # {}
  <2>1. PICK x : S = {x}
    BY <1>2
  <2>2. IsFiniteSet({x}) /\ Cardinality({x}) = 1
    BY FS_Singleton, Zenon
  <2>3. IsFiniteSet(S) /\ Cardinality(S) = 1
    BY <2>1, <2>2
  <2>. QED BY <2>3
<1>. QED BY <1>1, <1>2

\* The types of the observer's files and processes; a file holds one record at most
\* (handle::put replaces what is there).
THEOREM ObserverTypeCorrect == ObserverSpec => []ObserverTypeOK
<1>1. OInv => ObserverTypeOK
  <2> SUFFICES ASSUME ObserverTyped PROVE ObserverTypeOK
    BY DEF OInv
  <2>1. \A file \in {reminder, verdict, marker} : Cardinality(file) <= 1
    BY AtMostOne DEF ObserverTyped, Single
  <2>. QED BY <2>1 DEF ObserverTyped, ObserverTypeOK, LedgerLine, HookRecord, JudgeRecord
<1>. QED BY <1>1, ObserverInvariant, PTL

\* At most one judge runs and it judges the window it was started for, whatever was
\* killed, while calls follow each other and no judge outlives its marker (judge.rs).
THEOREM OneJudgeRuns == ObserverSpec => []OneJudge
<1>1. OInv => OneJudge
  <2> SUFFICES ASSUME Judging, calm PROVE OneJudge
    BY DEF OInv, OneJudge
  <2>1. Cardinality({j \in Judges : Running(j)}) <= 1
    BY AtMostOne DEF Judging
  <2>2. \A j \in Judges : judge[j].pc \in {"hire", "clear"} => judge[j].brief = judge[j].handed
    BY DEF Judging, JudgeFits
  <2>. QED BY <2>1, <2>2 DEF OneJudge
<1>. QED BY <1>1, ObserverInvariant, PTL

\* A judge's halt refuses one call at most, and none once a later judge withdrew it
\* (judge::take_halt, write_verdict).
THEOREM HaltsReachOneCall == ObserverSpec => []HaltsAreDelivered
<1>1. OInv => HaltsAreDelivered
  BY DEF OInv, Delivery, Judging, HaltsAreDelivered, DeliveredOnce, WithdrawnStaysWithdrawn
<1>. QED BY <1>1, ObserverInvariant, PTL

\* While calls follow each other, whatever is killed, the fold of the ledger holds
\* back the halts of a class for a window; it marks every call the client was told
\* to refuse, and no call but those whose guard decided to (watch.rs).
THEOREM LedgerTells == ObserverSpec => []LedgerIsTrue
<1>1. OInv => LedgerIsTrue
  <2> SUFFICES ASSUME ObserverTyped, ToldRight, LedgerFits(ledger, hook) PROVE
                   /\ HaltsApart(ledger)
                   /\ \A i \in Lines(ledger, "c") :
                         LET h == hook[ledger[i].of] IN
                         /\ h.pc = "refused" => Refused(ledger, i)
                         /\ Refused(ledger, i)
                              => h.refused /\ (h.pc \in {"answer", "refused"} \/ faults > 0)
    BY DEF OInv, Ledger, LedgerIsTrue, HaltsOncePerWindow, RefusedMarksTrue, HaltsApart
  <2>0. \A i \in Lines(ledger, "c") : i \in Nat /\ ledger[i].n \in Nat /\ ledger[i].of \in Calls
    BY LinesTyped DEF ObserverTyped
  <2>1. ASSUME NEW i \in Lines(ledger, "c"), Refused(ledger, i)
        PROVE  hook[ledger[i].of].refused
    <3>1. PICK o \in Lines(ledger, "o") : ledger[o].n = ledger[i].n /\ ledger[o].what = "deny"
      BY <2>1 DEF Refused
    <3>2. /\ hook[ledger[o].of].refused
          /\ \E k \in Lines(ledger, "c") : ledger[k].n = ledger[o].n /\ ledger[k].of = ledger[o].of
      BY <3>1 DEF LedgerFits, OutcomeLine
    <3>3. PICK k \in Lines(ledger, "c") : ledger[k].n = ledger[o].n /\ ledger[k].of = ledger[o].of
      BY <3>2
    <3>4. i = k
      BY <2>0, <3>1, <3>3 DEF LedgerFits, Growing
    <3>. QED BY <3>2, <3>3, <3>4
  <2>2. ASSUME NEW i \in Lines(ledger, "c"), hook[ledger[i].of].refused
        PROVE  Refused(ledger, i)
    <3>1. CallLine(ledger, hook, i)
      BY DEF LedgerFits
    <3>2. PICK o \in Lines(ledger, "o") :
             i < o /\ ledger[o].n = ledger[i].n /\ ledger[o].what = "deny"
      BY <2>2, <3>1 DEF CallLine
    <3>3. \A k \in Lines(ledger, "c") : i < k => ledger[k].n # ledger[i].n
      BY <2>0 DEF LedgerFits, Growing
    <3>. QED BY <3>2, <3>3 DEF Refused
  <2>3. HaltsApart(ledger)
    BY DEF LedgerFits
  <2>4. ASSUME NEW c \in Calls
        PROVE  /\ hook[c].pc = "refused" => hook[c].refused
               /\ hook[c].refused => hook[c].pc \in {"answer", "refused"} \/ faults > 0
    BY DEF ToldRight
  <2>. QED BY <2>0, <2>1, <2>2, <2>3, <2>4
<1>. QED BY <1>1, ObserverInvariant, PTL
=============================================================================
