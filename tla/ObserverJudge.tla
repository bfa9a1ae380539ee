----------------------------- MODULE ObserverJudge -----------------------------
(***************************************************************************)
(* The observer of the hook for one session (jawata-hook/src/watch.rs,     *)
(* judge.rs, and guard and tier_two of pipeline.rs). Every tool call runs  *)
(* a hook process before it (guard) and, if it is let through, one after   *)
(* it. The processes of sibling calls overlap, a client may kill one, and  *)
(* all they share is files: the ledger of calls, the marker of a judge in  *)
(* flight, its brief, the verdict it leaves, the reminder for a later call.*)
(* A judge is a detached process of its own.                               *)
(***************************************************************************)
EXTENDS RecordFile, Sequences, FiniteSets, FiniteSetsExt

CONSTANTS
    Every,          \* EVERY: calls between two judges
    Window,         \* WINDOW: calls in a window
    HabitThreshold, \* HABIT_THRESHOLD: declarations that make a habit
    InFlight,       \* IN_FLIGHT_SECS
    VerdictTtl,     \* VERDICT_TTL_SECS
    RecordTtl,      \* WINDOW_TTL_SECS, the lifetime of the reminder
    Sessions,       \* bound: the sessions looked at: calls in all, siblings at a
                    \* time, kinds of call, processes killed, time that passes
    MaxJudges       \* bound: judges started

\* A call as the rules see it: ordinary, a wait in the foreground, a declaration.
Kinds == {"plain", "wait", "declare"}

ASSUME ObserverAssumption ==
    /\ {Every, Window, InFlight, VerdictTtl, RecordTtl} \subseteq Nat \ {0}
    /\ {HabitThreshold, MaxJudges} \subseteq Nat
    /\ IsFiniteSet(Sessions) /\ Sessions \subseteq [calls : Nat, siblings : Nat, kinds : SUBSET Kinds,
                                             faults : Nat, time : Nat]

Calls  == 1..Max({s.calls : s \in Sessions})
Judges == 1..MaxJudges

VARIABLES
    session,    \* which session this is
    faults,     \* processes killed so far
    now,        \* the clock
    ledger,     \* the lines of <session>.ledger
    reminder,   \* the one-use files: {} or {a record}
    verdict,
    marker,
    brief,      \* the call number whose window is in <session>.brief
    hook,       \* the hook processes, by call
    judge,      \* the judges
    delivered,  \* auxiliary: how often each judge's halt was taken, to refuse a call
    withdrawn,  \* auxiliary: the judges whose halt a later Clear removed
    halts,      \* auxiliary: verdicts opened and used
    notes,      \* auxiliary: reminders opened and used
    overlapped, \* auxiliary: two calls have been under way at once
    outlived    \* auxiliary: a judge has lived longer than its marker

files == <<ledger, reminder, verdict, marker, brief>>
auxiliary == <<delivered, withdrawn, halts, notes, overlapped, outlived>>
observerVars == <<session, faults, now, files, hook, judge, auxiliary>>

-----------------------------------------------------------------------------
(* The ledger and what it folds to. `of' is the call a line is about,       *)
(* which the file does not say: it has only the number n.                   *)

Classes  == {"foreground-wait", "script-habit"}
NoClass  == "none"

Line(line, n, what, of) == [line |-> line, n |-> n, what |-> what, of |-> of]

Lines(l, kind) == {i \in DOMAIN l : l[i].line = kind}

Number(l) == Max({0} \cup {l[i].n : i \in Lines(l, "c") \cup Lines(l, "h")})
JudgedAt(l) == Max({0} \cup {l[i].n : i \in Lines(l, "j")})

\* The last Window - 1 calls.
RecentCalls(l) ==
    {i \in Lines(l, "c") : Cardinality({j \in Lines(l, "c") : j > i}) < Window - 1}

\* An outcome is about the last call of its number before it.
Refused(l, i) ==
    \E o \in Lines(l, "o") :
        /\ l[o].n = l[i].n /\ l[o].what = "deny" /\ i < o
        /\ \A k \in Lines(l, "c") : i < k /\ k < o => l[k].n # l[i].n

\* Mutant: a halt is forgotten one call early.
MutantForgetEarly(l, class) ==
    \E h \in Lines(l, "h") :
        /\ l[h].what = class
        /\ \A k \in Lines(l, "h") : l[k].what = class => k <= h
        /\ Number(l) - l[h].n < Window - 1

RecentlyHalted(l, class) ==
    \E h \in Lines(l, "h") :
        /\ l[h].what = class
        /\ \A k \in Lines(l, "h") : l[k].what = class => k <= h
        /\ Number(l) - l[h].n < Window

Habit(l) ==
    Cardinality({i \in RecentCalls(l) : l[i].what = "declare"}) >= HabitThreshold

Finding(l, kind) ==
    CASE kind = "wait"                   -> "foreground-wait"
      [] kind = "declare" /\ Habit(l)    -> "script-habit"
      [] OTHER                           -> NoClass

-----------------------------------------------------------------------------

\* "taking", "telling": a record was read and is about to be removed.
GuardPcs == {"remind", "append", "tier2", "taking", "remindJudged", "due",
             "brief", "mark", "handOver", "spawn", "rules", "end", "answer"}
PostPcs  == {"post", "telling"}

\* refused: what the guard decided; pc is "refused" once the client was told.
NoCall == [pc |-> "idle", kind |-> "plain", number |-> 0, halt |-> NoClass,
           seen |-> 0, handed |-> 0, refused |-> FALSE]

\* handed: the window the judge was started for; brief: the one it read.
NoJudge == [pc |-> "idle", since |-> 0, handed |-> 0, brief |-> 0]

ObserverTypeOK ==
    /\ now \in Nat /\ brief \in Nat
    /\ ledger \in Seq([line : {"c", "o", "h", "j"}, n : Nat,
                       what : Kinds \cup Classes \cup {"deny", "allow", "judged"}, of : Calls])
    /\ reminder \in SUBSET [at : Nat, what : Calls]
    /\ verdict \in SUBSET [at : Nat, what : Judges]
    /\ marker \in SUBSET [at : Nat, what : Calls]
    /\ \A file \in {reminder, verdict, marker} : Cardinality(file) <= 1
    /\ hook \in [Calls -> [pc : GuardPcs \cup PostPcs \cup {"idle", "done", "refused"}, kind : Kinds,
                           number : Nat, halt : Classes \cup {NoClass}, seen : Nat,
                           handed : Nat, refused : BOOLEAN]]
    /\ judge \in [Judges -> [pc : {"idle", "read", "hire", "clear", "done"},
                             since : Nat, handed : Nat, brief : Nat]]
    /\ session \in Sessions /\ faults \in 0..session.faults

ObserverInit ==
    /\ session \in Sessions /\ faults = 0
    /\ now = 0 /\ ledger = <<>> /\ brief = 0
    /\ reminder = {} /\ verdict = {} /\ marker = {}
    /\ hook = [c \in Calls |-> NoCall]
    /\ judge = [j \in Judges |-> NoJudge]
    /\ delivered = [j \in Judges |-> 0] /\ withdrawn = {}
    /\ halts = [opened |-> 0, used |-> 0] /\ notes = [opened |-> 0, used |-> 0]
    /\ overlapped = FALSE /\ outlived = FALSE

UnderWay(c) == hook[c].pc \notin {"idle", "done", "refused"}
Running(j)  == judge[j].pc \notin {"idle", "done"}

Goto(c, pc) == hook' = [hook EXCEPT ![c].pc = pc]

\* The guard is gone: the call runs, or the client was told not to run it.
Leave(c, pc) == hook' = [hook EXCEPT ![c] = [NoCall EXCEPT !.pc = pc, !.refused = hook[c].refused]]

Fault == faults < session.faults /\ faults' = faults + 1

\* Mutant: reminders are appended to the file.
MutantPileUp(c) ==
    /\ reminder' = reminder \cup {[at |-> now, what |-> c]}
    /\ notes' = [notes EXCEPT !.opened = @ + 1]

SetReminder(c) ==
    /\ reminder' = Record(c, now)
    /\ notes' = [notes EXCEPT !.opened = @ + 1]

-----------------------------------------------------------------------------
(* The guard of one call. *)

\* watch::begin up to the reminder: the window is read and the call judged.
Begin(c) ==
    /\ hook[c].pc = "idle"
    /\ \A d \in Calls : d < c => hook[d].pc # "idle"
    /\ c <= session.calls
    /\ Cardinality({d \in Calls : UnderWay(d)}) < session.siblings
    /\ \E kind \in session.kinds :
         LET finding == Finding(ledger, kind)
             halt == IF RecentlyHalted(ledger, finding) THEN NoClass ELSE finding
         IN  hook' = [hook EXCEPT ![c] =
                 [NoCall EXCEPT !.pc = IF halt = NoClass THEN "append" ELSE "remind",
                                !.kind = kind, !.halt = halt,
                                !.number = Number(ledger) + 1]]
    /\ overlapped' = (overlapped \/ \E d \in Calls : UnderWay(d))
    /\ UNCHANGED <<session, faults, now, files, judge, delivered, withdrawn, halts, notes, outlived>>

\* A first-tier halt leaves its reminder before the call is in the ledger.
RemindHalt(c) ==
    /\ hook[c].pc = "remind"
    /\ SetReminder(c)
    /\ Goto(c, "append")
    /\ UNCHANGED <<session, faults, now, ledger, verdict, marker, brief, judge, delivered, withdrawn,
                   halts, overlapped, outlived>>

\* The rest of watch::begin: the call, and the halt if there is one, in one write.
AppendCall(c) ==
    LET h == hook[c]
        call == <<Line("c", h.number, h.kind, c)>>
    IN  /\ h.pc = "append"
        /\ IF h.halt = NoClass
           THEN /\ ledger' = ledger \o call
                /\ Goto(c, "tier2")
           ELSE /\ ledger' = ledger \o call \o <<Line("h", h.number, h.halt, c)>>
                /\ Goto(c, "end")
        /\ UNCHANGED <<session, faults, now, reminder, verdict, marker, brief, judge, auxiliary>>

\* take_halt: the verdict is read, and removed in a later step.
ReadVerdict(c) ==
    /\ hook[c].pc = "tier2"
    /\ IF Fresh(verdict, VerdictTtl, now) = {}
       THEN Goto(c, "due")
       ELSE \E r \in verdict :
                hook' = [hook EXCEPT ![c].pc = "taking", ![c].seen = r.what]
    /\ UNCHANGED <<session, faults, now, files, judge, auxiliary>>

\* Mutant: what was read is delivered and the removal not asked for its outcome.
MutantDeliverWhatWasRead(c) ==
    /\ hook[c].pc = "taking"
    /\ Goto(c, "remindJudged")
    /\ delivered' = [delivered EXCEPT ![hook[c].seen] = @ + 1]
    /\ halts' = [halts EXCEPT !.used = @ + 1]
    /\ verdict' = {}
    /\ UNCHANGED <<session, faults, now, ledger, reminder, marker, brief, judge,
                   withdrawn, notes, overlapped, outlived>>

\* Mutant: delivering a verdict leaves it in place.
MutantPeekVerdict(c) ==
    /\ hook[c].pc = "taking"
    /\ Goto(c, "remindJudged")
    /\ delivered' = [delivered EXCEPT ![hook[c].seen] = @ + 1]
    /\ halts' = [halts EXCEPT !.used = @ + 1]
    /\ UNCHANGED <<session, faults, now, files, judge, withdrawn, notes, overlapped,
                   outlived>>

\* The removal decides: what was read is delivered only if a file was removed.
TakeVerdict(c) ==
    /\ hook[c].pc = "taking"
    /\ IF verdict = {}
       THEN Goto(c, "due") /\ UNCHANGED <<delivered, halts>>
       ELSE /\ Goto(c, "remindJudged")
            /\ delivered' = [delivered EXCEPT ![hook[c].seen] = @ + 1]
            /\ halts' = [halts EXCEPT !.used = @ + 1]
    /\ verdict' = {}
    /\ UNCHANGED <<session, faults, now, ledger, reminder, marker, brief, judge, withdrawn, notes,
                   overlapped, outlived>>

RemindJudged(c) ==
    /\ hook[c].pc = "remindJudged"
    /\ SetReminder(c)
    /\ Goto(c, "end")
    /\ UNCHANGED <<session, faults, now, ledger, verdict, marker, brief, judge, delivered, withdrawn,
                   halts, overlapped, outlived>>

\* Mutant: a judge in flight does not keep the next from starting.
MutantDueWhileJudging ==
    Number(ledger) # 0 /\ Number(ledger) - JudgedAt(ledger) >= Every

JudgeIsDue ==
    /\ Number(ledger) # 0
    /\ Number(ledger) - JudgedAt(ledger) >= Every
    /\ Fresh(marker, InFlight, now) = {}

\* The seat may be absent or switched off; else a due judge is started.
Due(c) ==
    /\ hook[c].pc = "due"
    /\ \/ Goto(c, "rules")
          \* the seat is off, or no judge is due
       \/ /\ JudgeIsDue
          /\ hook' = [hook EXCEPT ![c].pc = "brief", ![c].handed = Number(ledger)]
    /\ UNCHANGED <<session, faults, now, files, judge, auxiliary>>

WriteBrief(c) ==
    /\ hook[c].pc = "brief"
    /\ brief' = hook[c].handed
    /\ Goto(c, "mark")
    /\ UNCHANGED <<session, faults, now, ledger, reminder, verdict, marker, judge, auxiliary>>

OpenMarker(c) ==
    /\ hook[c].pc = "mark"
    /\ marker' = Record(c, now)
    /\ hook' = [hook EXCEPT ![c].pc = "handOver", ![c].seen = now]
    /\ UNCHANGED <<session, faults, now, ledger, reminder, verdict, brief, judge, auxiliary>>

MarkJudged(c) ==
    /\ hook[c].pc = "handOver"
    /\ ledger' = ledger \o <<Line("j", hook[c].handed, "judged", c)>>
    /\ Goto(c, "spawn")
    /\ UNCHANGED <<session, faults, now, reminder, verdict, marker, brief, judge, auxiliary>>

\* The judge is started, or cannot be and the marker is given up.
Spawn(c) ==
    /\ hook[c].pc = "spawn"
    /\ \/ \E j \in Judges :
             /\ judge[j].pc = "idle"
             /\ \A k \in Judges : k < j => judge[k].pc # "idle"
             /\ judge' = [judge EXCEPT ![j] =
                    [NoJudge EXCEPT !.pc = "read", !.since = hook[c].seen,
                                    !.handed = hook[c].handed]]
             /\ outlived' = (outlived \/ now - hook[c].seen >= InFlight)
             /\ UNCHANGED marker
       \/ marker' = {} /\ UNCHANGED <<judge, outlived>>
    /\ Goto(c, "rules")
    /\ UNCHANGED <<session, faults, now, ledger, reminder, verdict, brief, delivered,
                   withdrawn, halts, notes, overlapped>>

\* Mutant: the outcome carries the number the window had before the call.
MutantOffByOne(c) ==
    /\ hook[c].pc \in {"rules", "end"}
    /\ \E refused \in BOOLEAN :
         /\ hook[c].pc = "end" => refused
         /\ ledger' = ledger \o <<Line("o", hook[c].number - 1,
                                       IF refused THEN "deny" ELSE "allow", c)>>
         /\ hook' = [hook EXCEPT ![c].pc = "answer", ![c].refused = refused]
    /\ UNCHANGED <<session, faults, now, reminder, verdict, marker, brief, judge, auxiliary>>

\* guard_rules, whose decision is not this module's subject, and watch::end.
End(c) ==
    /\ hook[c].pc \in {"rules", "end"}
    /\ \E refused \in BOOLEAN :
         /\ hook[c].pc = "end" => refused
         /\ ledger' = ledger \o <<Line("o", hook[c].number,
                                       IF refused THEN "deny" ELSE "allow", c)>>
         /\ hook' = [hook EXCEPT ![c].pc = "answer", ![c].refused = refused]
    /\ UNCHANGED <<session, faults, now, reminder, verdict, marker, brief, judge, auxiliary>>

\* The answer is printed, as the last thing the process does.
Deliver(c) ==
    /\ hook[c].pc = "answer"
    /\ Leave(c, IF hook[c].refused THEN "refused" ELSE "post")
    /\ UNCHANGED <<session, faults, now, files, judge, auxiliary>>

\* take_reminder in the hook after the call.
ReadReminder(c) ==
    /\ hook[c].pc = "post"
    /\ Goto(c, IF Fresh(reminder, RecordTtl, now) = {} THEN "done" ELSE "telling")
    /\ UNCHANGED <<session, faults, now, files, judge, auxiliary>>

TakeReminder(c) ==
    /\ hook[c].pc = "telling"
    /\ notes' = [notes EXCEPT !.used = @ + IF reminder = {} THEN 0 ELSE 1]
    /\ reminder' = {}
    /\ Goto(c, "done")
    /\ UNCHANGED <<session, faults, now, ledger, verdict, marker, brief, judge, delivered, withdrawn,
                   halts, overlapped, outlived>>

\* The client's timeout or the hook's own watchdog ends the guard; the call goes
\* on without its answer, also when the ledger has it already.
Kill(c) ==
    /\ hook[c].pc \in GuardPcs
    /\ Leave(c, "post")
    /\ Fault
    /\ UNCHANGED <<session, now, files, judge, auxiliary>>

-----------------------------------------------------------------------------
(* A judge: judge::run. *)

JudgeDone(j) == judge' = [judge EXCEPT ![j] = [NoJudge EXCEPT !.pc = "done"]]

ReadBrief(j) ==
    /\ judge[j].pc = "read"
    /\ judge' = [judge EXCEPT ![j].pc = "hire", ![j].brief = brief]
    /\ UNCHANGED <<session, faults, now, files, hook, auxiliary>>

\* The hire answers, or not, and write_verdict.
Hire(j) ==
    /\ judge[j].pc = "hire"
    /\ judge' = [judge EXCEPT ![j].pc = "clear"]
    /\ \/ UNCHANGED <<verdict, halts, withdrawn>>
          \* no answer, or none that parses
       \/ /\ verdict' = {} /\ UNCHANGED halts
          /\ withdrawn' = withdrawn \cup {r.what : r \in verdict}
       \/ /\ verdict' = Record(j, now)
          /\ halts' = [halts EXCEPT !.opened = @ + 1]
          /\ UNCHANGED withdrawn
    /\ UNCHANGED <<session, faults, now, ledger, reminder, marker, brief, hook, delivered, notes,
                   overlapped, outlived>>

\* The marker is discarded, whoever opened it.
DropMarker(j) ==
    /\ judge[j].pc = "clear"
    /\ JudgeDone(j)
    /\ marker' = {}
    /\ UNCHANGED <<session, faults, now, ledger, reminder, verdict, brief, hook, auxiliary>>

JudgeDies(j) ==
    /\ judge[j].pc \in {"read", "hire", "clear"}
    /\ JudgeDone(j)
    /\ Fault
    /\ UNCHANGED <<session, now, files, hook, auxiliary>>

ObserverTick ==
    /\ now < session.time
    /\ now' = now + 1
    /\ outlived' = (outlived \/ \E j \in Judges : Running(j) /\ now' - judge[j].since >= InFlight)
    /\ UNCHANGED <<session, faults, files, hook, judge, delivered, withdrawn, halts, notes,
                   overlapped>>

-----------------------------------------------------------------------------

HookStep(c) ==
    \/ Begin(c) \/ RemindHalt(c) \/ AppendCall(c)
    \/ ReadVerdict(c) \/ TakeVerdict(c) \/ RemindJudged(c)
    \/ Due(c) \/ WriteBrief(c) \/ OpenMarker(c) \/ MarkJudged(c) \/ Spawn(c)
    \/ End(c) \/ Deliver(c) \/ ReadReminder(c) \/ TakeReminder(c) \/ Kill(c)

JudgeStep(j) == ReadBrief(j) \/ Hire(j) \/ DropMarker(j) \/ JudgeDies(j)

ObserverNext ==
    \/ \E c \in Calls : HookStep(c)
    \/ \E j \in Judges : JudgeStep(j)
    \/ ObserverTick

ObserverSpec == ObserverInit /\ [][ObserverNext]_observerVars
-----------------------------------------------------------------------------
(* Properties *)

calm == ~overlapped /\ ~outlived

\* "A judge started this long ago and not finished is presumed gone; another
\* may start" (judge.rs:31), and only then: while calls do not overlap and no
\* judge outlives its marker, at most one judge runs, whatever was killed, and
\* it judges the window it was started for ("the brief is a plain file with
\* one writer", judge.rs:22).
OneJudge ==
    calm => /\ Cardinality({j \in Judges : Running(j)}) <= 1
            /\ \A j \in Judges :
                 judge[j].pc \in {"hire", "clear"} => judge[j].brief = judge[j].handed

\* "It is delivered once" (judge.rs:268): no halt refuses two calls of a
\* session whose calls follow each other.
DeliveredOnce == ~overlapped => \A j \in Judges : delivered[j] <= 1

\* "A Clear removes any older halt" (judge.rs:258): a halt is not delivered
\* once a later judge has withdrawn it, although a hook may have read it before.
WithdrawnStaysWithdrawn == calm => \A j \in withdrawn : delivered[j] = 0

\* What a judge found reaches at most one call, and none once it is withdrawn.
HaltsAreDelivered == DeliveredOnce /\ WithdrawnStaysWithdrawn

\* "A finding halts only the FIRST time its class appears in a window"
\* (watch.rs:389): two halts of one class are a window of calls apart.
HaltsOncePerWindow ==
    ~overlapped =>
        \A h \in Lines(ledger, "h"), k \in Lines(ledger, "h") :
            h < k /\ ledger[h].what = ledger[k].what
                => ledger[k].n - ledger[h].n > Window

\* "those the guard refused marked as refused" (judge.rs:165): a call that the
\* client was told to refuse is marked in what a judge reads. A marked call is
\* one its guard decided to refuse, and it ran only if a process was killed: the
\* ledger has the decision before the client does.
RefusedMarksTrue ==
    ~overlapped =>
        \A i \in Lines(ledger, "c") :
            LET h == hook[ledger[i].of] IN
            /\ h.pc = "refused" => Refused(ledger, i)
            /\ Refused(ledger, i) => h.refused /\ (h.pc \in {"answer", "refused"} \/ faults > 0)

\* What the fold of the ledger decides, although its lines are written by one
\* process after another and any may be killed: which halts it holds back and
\* which calls it marks. Only of calls that follow each other: siblings may get
\* one number, and then the mark of one is read as another's.
LedgerIsTrue == HaltsOncePerWindow /\ RefusedMarksTrue

\* The verdict and the reminder keep the promise of a one-use record: even
\* among overlapping calls there are never more uses than records opened.
VerdictFile == INSTANCE OneUse WITH
    there <- verdict # {}, opened <- halts.opened, used <- halts.used
ReminderFile == INSTANCE OneUse WITH
    there <- reminder # {}, opened <- notes.opened, used <- notes.used
RecordsAreOneUse == VerdictFile!OneUseSpec /\ ReminderFile!OneUseSpec
=============================================================================
