------------------------------- MODULE StopGate -------------------------------
(***************************************************************************)
(* The stop gate of one session and its grant of autonomy (jawata-hook/src: *)
(* stop_gate of pipeline.rs, stop.rs, autonomy.rs).                        *)
(*                                                                         *)
(* When the agent wants to stop, a hook reads the transcript, asks the     *)
(* store, reads the session's counters and lets the turn end or holds it:  *)
(* a held agent is pushed on. `turn` is what read_turn makes of the window *)
(* that the last wake-up opened. Under a grant, with nothing armed that    *)
(* would wake the session, a judge must have called the stop RESERVED      *)
(* since the last push. Rule B and the rules about the store have ceilings *)
(* and files that count; the other holds have none, and only a client that *)
(* marks its retries gets past them.                                       *)
(***************************************************************************)
EXTENDS Integers

CONSTANTS
    Situations,        \* which clients and agents are looked at: Situation below
    MaxEmptyTurns,    \* autonomy.rs MAX_EMPTY_TURNS
    MaxReseed,        \* stop.rs MAX_RESEED_BOUNCES
    MaxJobs,          \* stop.rs MAX_JOB_BOUNCES
    Alarm             \* the refusals of an audit-fix loop

ASSUME StopAssumption ==
    /\ MaxEmptyTurns \in Nat /\ MaxReseed \in Nat /\ MaxJobs \in Nat /\ Alarm \in Nat
    /\ \A s \in Situations : s.marks \in BOOLEAN /\ s.silent \in BOOLEAN /\ s.full \in BOOLEAN

VARIABLES
    situation,  \* which client and agent this behaviour has
    agent,    \* "asleep" until something wakes the session, or "working"
    turn,     \* the window the agent is in, as read_turn reads it
    awaited,  \* the background work the transcript shows as pending
    over,     \* of it, what the machine shows as over: its file has the exit marker
    store,    \* what the store lacks: "story", "members"
    grant,    \* autonomy/<session>: {} or the number of empty turns in it
    reseed,   \* bounces/<session>.reseed
    jobs,     \* bounces/<session>.jobs
    carried,  \* bounces/<session>.refusals
    retry,    \* the client marks the next stop as a retry
    word,     \* auxiliary: the judge's first word since the last push
    asked,    \* auxiliary: a judge was sent to the background since then
    told,     \* auxiliary: the judge gave an instruction, nothing was done since
    streak,   \* auxiliary: the holds of an agent that does nothing, by rule
    lost      \* auxiliary: since then a counter was not written, or no verdict given

counters == <<grant, reseed, jobs, carried>>
watched  == <<word, asked, told, streak, lost>>
launched == <<awaited, over>>
stopVars == <<situation, agent, turn, launched, store, counters, retry, watched>>

-----------------------------------------------------------------------------

Words == {"none", "reserved", "resolvable"}

\* A situation: what the agent does, whether the client marks retries, whether
\* the store may fall silent and a counter fail to be written.
Situation(menu, marks, silent, full) ==
    [menu |-> menu, marks |-> marks, silent |-> silent, full |-> full]

UpTo(n, top) == IF n < top THEN n ELSE top

\* What would wake the session: a launch that neither the transcript nor the
\* machine shows as over.
Armed == awaited \ over

\* How often a rule should hold an agent that does nothing; "all" is of every
\* rule but the audit's alarm. Streaks are counted to one more.
Ceiling == [judge |-> MaxEmptyTurns + 1, story |-> MaxReseed, members |-> MaxJobs,
            all |-> MaxEmptyTurns + 1 + MaxReseed]
NoStreak == [rule \in DOMAIN Ceiling |-> 0]

\* Turn::default: a window no line has opened.
NewWindow == [human |-> FALSE, interrupted |-> FALSE, worked |-> FALSE,
              wrote |-> {}, calls |-> {}, verdict |-> "none", open |-> FALSE,
              refusals |-> 0, settled |-> FALSE]

Windows == [human : BOOLEAN, interrupted : BOOLEAN, worked : BOOLEAN,
            wrote : SUBSET {"story", "members"}, calls : SUBSET {"here", "behind"},
            verdict : Words, open : BOOLEAN, refusals : 0..Alarm, settled : BOOLEAN]

CountersTypeOK ==
    /\ grant \in {{}} \cup {{n} : n \in 0..MaxEmptyTurns}
    /\ reseed \in 0..MaxReseed /\ jobs \in 0..MaxJobs /\ carried \in 0..Alarm

SessionTypeOK ==
    /\ situation \in Situations /\ agent \in {"asleep", "working"}
    /\ awaited \subseteq {"job", "judge", "wakeup"} /\ over \subseteq awaited \ {"wakeup"}
    /\ store \subseteq {"story", "members"}
    /\ retry \in BOOLEAN /\ (retry => situation.marks)
    /\ word \in Words /\ asked \in BOOLEAN /\ told \in BOOLEAN

StopTypeOK == turn \in Windows /\ CountersTypeOK /\ SessionTypeOK

StopInit ==
    /\ situation \in Situations /\ agent = "asleep"
    /\ turn = NewWindow /\ awaited = {} /\ over = {} /\ store = {}
    /\ grant = {} /\ reseed = 0 /\ jobs = 0 /\ carried = 0 /\ retry = FALSE
    /\ word = "none" /\ asked = FALSE /\ told = FALSE
    /\ streak = NoStreak /\ lost = FALSE

\* A new attempt: nothing was asked of the judge in it yet.
NewAttempt == word' = "none" /\ asked' = FALSE

\* Somebody does something: no hold before it counts as one of an idle agent.
Stirred == streak' = NoStreak /\ lost' = FALSE

-----------------------------------------------------------------------------
(* What opens a window. *)

\* He types: the prompt hook reads a switch in it, and his line opens a window.
\* A wake-up that was scheduled is no longer waited for.
Prompt(switch) ==
    /\ agent' = "working" /\ turn' = [NewWindow EXCEPT !.human = TRUE]
    /\ awaited' = awaited \ {"wakeup"} /\ retry' = FALSE
    /\ grant' = CASE switch = "on"    -> {0}
                  [] switch = "off"   -> {}
                  [] switch = "plain" -> grant
    /\ NewAttempt /\ told' = FALSE /\ Stirred
    /\ UNCHANGED <<situation, over, store, reseed, jobs, carried>>

\* His Esc. The client may call the stop gate for that window, or never.
Interrupt ==
    /\ agent = "working"
    /\ turn' = [NewWindow EXCEPT !.human = TRUE, !.interrupted = TRUE]
    /\ awaited' = awaited \ {"wakeup"} /\ retry' = FALSE
    /\ NewAttempt /\ told' = FALSE /\ Stirred
    /\ UNCHANGED <<situation, agent, over, store, counters>>

\* Background work ends and its notification wakes the session. The window it
\* opens keeps an open instruction, and a verdict its text carries counts if
\* the judge was called in the attempt before.
Wake(what, answer) ==
    LET heard == what = "judge" /\ answer # "none" /\ "behind" \in turn.calls
    IN  /\ agent = "asleep" /\ what \in awaited
        /\ agent' = "working" /\ awaited' = awaited \ {what, "wakeup"} /\ over' = over \ {what}
        /\ retry' = FALSE
        /\ turn' = [NewWindow EXCEPT
                       !.open = IF heard THEN answer = "resolvable" ELSE turn.open,
                       !.calls = IF heard THEN {"behind"} ELSE {},
                       !.verdict = IF heard THEN answer ELSE "none"]
        /\ word' = IF what = "judge" /\ asked THEN answer ELSE "none"
        /\ told' = IF word' = "none" THEN told ELSE word' = "resolvable"
        /\ asked' = FALSE /\ Stirred
        /\ UNCHANGED <<situation, store, counters>>

\* Background work ends while the agent works: an attachment says so.
Finish(what) ==
    /\ agent = "working" /\ what \in awaited
    /\ awaited' = awaited \ {what} /\ over' = over \ {what}
    /\ UNCHANGED <<situation, agent, turn, store, counters, retry, watched>>

\* Background work is over and its file on the machine says so, before any
\* notification; or that file is cleaned up, and the transcript speaks alone.
Machine(what) ==
    /\ what \in awaited
    /\ over' = IF what \in over THEN over \ {what} ELSE over \cup {what}
    /\ UNCHANGED <<situation, agent, turn, awaited, store, counters, retry, watched>>

-----------------------------------------------------------------------------
(* What the agent does in a window. *)

Does(what) == agent = "working" /\ what \in situation.menu

\* A call of any tool but the judge and the communicator is work.
Worked == [turn EXCEPT !.worked = TRUE, !.open = FALSE]

Work ==
    /\ Does("work") /\ turn' = Worked
    /\ told' = FALSE /\ Stirred
    /\ UNCHANGED <<situation, agent, launched, store, counters, retry, word, asked>>

\* It writes a story the store has not loaded, or members nothing describes.
Author(what) ==
    /\ Does(what)
    /\ turn' = [Worked EXCEPT !.wrote = @ \cup {what}] /\ store' = store \cup {what}
    /\ told' = FALSE /\ Stirred
    /\ UNCHANGED <<situation, agent, launched, counters, retry, word, asked>>

\* It loads the story or records the jobs; the store may refuse.
Deposit(what) ==
    /\ Does(what) /\ what \in store
    /\ turn' = Worked /\ store' \in {store, store \ {what}}
    /\ told' = FALSE /\ Stirred
    /\ UNCHANGED <<situation, agent, launched, counters, retry, word, asked>>

\* It starts a background job or schedules a wake-up.
Launch(what) ==
    /\ Does(what) /\ what \notin awaited
    /\ turn' = Worked /\ awaited' = awaited \cup {what}
    /\ told' = FALSE /\ Stirred
    /\ UNCHANGED <<situation, agent, over, store, counters, retry, word, asked>>

\* Mutant: the judge is a tool like any other.
MutantJudgeIsWork(answer) ==
    LET first == turn.verdict = "none" /\ answer # "none"
    IN  /\ Does("judge")
        /\ turn' = [turn EXCEPT !.calls = @ \cup {"here"}, !.worked = TRUE,
                                !.verdict = IF first THEN answer ELSE @,
                                !.open = IF first THEN answer = "resolvable" ELSE @]
        /\ word' = IF word = "none" THEN answer ELSE word
        /\ told' = IF word = "none" /\ answer # "none" THEN answer = "resolvable" ELSE told
        /\ UNCHANGED <<situation, agent, launched, store, counters, retry, asked, streak, lost>>

\* It calls the judge and waits: the first verdict of an attempt is the one read.
Consult(answer) ==
    LET first == turn.verdict = "none" /\ answer # "none"
    IN  /\ Does("judge")
        /\ turn' = [turn EXCEPT !.calls = @ \cup {"here"},
                                !.verdict = IF first THEN answer ELSE @,
                                !.open = IF first THEN answer = "resolvable" ELSE @]
        /\ word' = IF word = "none" THEN answer ELSE word
        /\ told' = IF word = "none" /\ answer # "none" THEN answer = "resolvable" ELSE told
        /\ UNCHANGED <<situation, agent, launched, store, counters, retry, asked, streak, lost>>

SendJudge ==
    /\ Does("judge") /\ "judge" \notin awaited
    /\ turn' = [turn EXCEPT !.calls = @ \cup {"behind"}] /\ awaited' = awaited \cup {"judge"}
    /\ asked' = TRUE
    /\ UNCHANGED <<situation, agent, over, store, counters, retry, word, told, streak, lost>>

\* Its text reports an audit's refusal; or the audit's sign-off, or it runs the
\* architect's seat.
Relay ==
    /\ Does("audit")
    /\ \/ turn.refusals < Alarm /\ turn' = [turn EXCEPT !.refusals = @ + 1]
       \/ turn' = [turn EXCEPT !.settled = TRUE]
    /\ UNCHANGED <<situation, agent, launched, store, counters, retry, watched>>

-----------------------------------------------------------------------------
(* The stop. *)

\* rule_b_engaged: the grant asks for the judge.
Engaged(empty) ==
    /\ grant # {} /\ Armed = {} /\ ~turn.interrupted
    /\ empty < MaxEmptyTurns \/ turn.open \/ turn.verdict = "resolvable"

\* judge: the rule that holds the turn, or "none" when it may end.
HeldBy(empty, owes, refusals, poor) ==
    IF retry /\ "story" \notin owes /\ ~Engaged(empty) THEN "none"
    ELSE IF refusals >= Alarm THEN "audit"
    ELSE IF "story" \in owes THEN IF reseed >= MaxReseed THEN "none" ELSE "story"
    ELSE IF "members" \in owes THEN IF jobs >= MaxJobs THEN "none" ELSE "members"
    ELSE IF poor THEN "message"
    ELSE IF Engaged(empty) /\ turn.verdict # "reserved" THEN "judge"
    ELSE "none"

\* Mutant: the push does not end the attempt.
MutantPushKeepsTheWord == [turn EXCEPT !.worked = FALSE]

\* The push a held agent gets: what it asked the judge before is over.
Pushed == [turn EXCEPT !.worked = FALSE, !.calls = {}, !.verdict = "none"]

\* The count of refusals over the windows of one loop. It stops at the alarm:
\* beyond it no count is told from another.
Refusals ==
    IF turn.human \/ turn.settled THEN turn.refusals
    ELSE IF retry /\ turn.refusals < carried THEN carried
    ELSE IF retry THEN turn.refusals
    ELSE UpTo(carried + turn.refusals, Alarm)

\* The empty turns the grant has seen, and what note_turn makes of this one; his
\* interrupt ends the grant.
EmptyTurns == IF grant = {} THEN {0} ELSE grant

Noted(count, wrote) ==
    IF grant = {} \/ turn.interrupted THEN {}
    ELSE IF ~wrote THEN grant
    ELSE IF turn.worked THEN {0} ELSE {UpTo(count + 1, MaxEmptyTurns)}

\* The streak after one more hold.
StreakWith(held) ==
    [rule \in DOMAIN streak |->
        IF rule = held \/ (rule = "all" /\ held # "audit" /\ situation.marks)
        THEN UpTo(streak[rule] + 1, Ceiling[rule] + 1) ELSE streak[rule]]

\* stop_gate: the facts are gathered and the counters kept around the decision.
\* `poor`: a rule about the message objects; `owes`: what the store says this
\* window wrote and it lacks; `count`: the empty turns under the grant so far;
\* `wrote`: the counters could be written.
Stop(poor, owes, count, wrote) ==
    LET empty == IF wrote \/ grant = {} THEN count ELSE MaxEmptyTurns
        held  == HeldBy(empty, owes, Refusals, poor)
        anew  == turn.human \/ turn.settled
    IN  /\ agent = "working"
        /\ grant' = Noted(count, wrote)
        /\ carried' = IF Refusals = 0 THEN 0
                      ELSE IF wrote /\ (anew \/ ~retry) THEN Refusals ELSE carried
        /\ reseed' = IF "story" \notin owes THEN 0
                     ELSE IF wrote /\ held = "story" THEN reseed + 1 ELSE reseed
        /\ jobs' = IF "members" \notin owes THEN 0
                   ELSE IF wrote /\ held = "members" THEN jobs + 1 ELSE jobs
        /\ IF held = "none"
           THEN agent' = "asleep" /\ retry' = FALSE /\ UNCHANGED <<turn, word, asked>>
           ELSE turn' = Pushed /\ retry' = situation.marks /\ NewAttempt /\ UNCHANGED agent
        /\ streak' = IF held = "none" \/ told THEN NoStreak ELSE StreakWith(held)
        /\ lost' = (lost \/ ~wrote)
        /\ UNCHANGED <<situation, launched, store, told>>

\* The gate gives no verdict: it cannot read the payload or the transcript, or
\* its watchdog ends it while it waits for the store. The turn ends.
Unanswered ==
    /\ agent = "working" /\ agent' = "asleep" /\ retry' = FALSE
    /\ grant' \in {grant} \cup {Noted(count, TRUE) : count \in EmptyTurns}
    /\ streak' = NoStreak /\ lost' = TRUE
    /\ UNCHANGED <<situation, turn, launched, store, reseed, jobs, carried, word, asked, told>>

-----------------------------------------------------------------------------

\* What the store may say that the window wrote and it lacks. It is asked for
\* the story and for the members apart, and either call may go unanswered.
Owed == LET lacks == turn.wrote \cap store
        IN  IF situation.silent THEN SUBSET lacks ELSE {lacks}

StopNext ==
    \/ \E switch \in {"on", "off", "plain"} : Prompt(switch)
    \/ Interrupt
    \/ \E what \in {"job", "judge", "wakeup"}, answer \in Words : Wake(what, answer)
    \/ \E what \in {"job", "judge"} : Finish(what) \/ Machine(what)
    \/ Work \/ SendJudge \/ Relay
    \/ \E what \in {"story", "members"} : Author(what) \/ Deposit(what)
    \/ \E what \in {"job", "wakeup"} : Launch(what)
    \/ \E answer \in Words : Consult(answer)
    \/ \E poor \in {p \in BOOLEAN : p => "poor" \in situation.menu}, owes \in Owed,
          count \in EmptyTurns,
          wrote \in {w \in BOOLEAN : w \/ situation.full} :
            Stop(poor, owes, count, wrote)
    \/ Unanswered

StopSpec == StopInit /\ [][StopNext]_stopVars
-----------------------------------------------------------------------------
(* Properties *)

\* "Every stop under a live grant with nothing pending consults the judge"
\* (stop.rs:701): such a turn ends only on a RESERVED that the judge gave as
\* its first word since the last push. What the code excepts: his interrupt,
\* a session that was empty too often and holds no instruction, a counter that
\* cannot be written, a gate that gives no verdict, and a story or members held
\* as often as may be. Work that only the machine shows as over is not pending.
StopsAreJudged ==
    [][/\ agent = "working" /\ agent' = "asleep" /\ ~lost'
       /\ grant # {} /\ Armed = {} /\ ~turn.interrupted
       /\ grant # {MaxEmptyTurns} \/ told
       /\ reseed < MaxReseed /\ jobs < MaxJobs
       => word = "reserved"]_stopVars

\* "releasing a stuck one in two" (stop.rs:1341), and the ceilings of the other
\* rules. While an agent does nothing, however often it asks a judge that gives
\* no verdict: rule B holds it a bounded number of times, whatever the client,
\* the store and the other rules do in between. A store that answers whenever it
\* is asked has the turn held for a story, and for members, no more often than
\* their ceilings. And when the client marks its retries the holds of all rules
\* but the audit's alarm are bounded together, whatever the store leaves
\* unanswered. Nothing bounds an agent that sits on an instruction, the alarm
\* beside a story that is not loaded, and on clients that mark no retry the
\* alarm, the rules about the message and, with a store that answers now and
\* then, those about the store (StoryHoldsAreBounded).
NeverWedged ==
    /\ streak.judge <= Ceiling.judge
    /\ ~lost /\ ~situation.silent => /\ streak.story <= Ceiling.story
                                     /\ streak.members <= Ceiling.members
    /\ ~lost => streak.all <= Ceiling.all

\* "How many times a turn may be held for a story it wrote and never loaded in"
\* (stop.rs:113). The code forgets the count whenever the store gives no answer
\* (pipeline.rs:2183, 2196), as if nothing were owed.
StoryHoldsAreBounded == lost \/ streak.story <= Ceiling.story
=============================================================================
