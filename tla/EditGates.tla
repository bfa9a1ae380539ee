------------------------------- MODULE EditGates -------------------------------
(***************************************************************************)
(* The gates a write of Java passes in one session, and what a session     *)
(* declares to pass them (jawata-hook/src: guard_rules and dup_gate_in of  *)
(* pipeline.rs, editgate.rs, dupgate.rs, javawatch.rs, observer.rs).       *)
(*                                                                         *)
(* An edit is judged by two hook processes side by side: the guard asks    *)
(* whether a tool performs the edit (its shape), and then for an authoring *)
(* window; the recall hook asks whether the job is already done elsewhere  *)
(* (the nominee). Either may refuse. A refused agent declares, in a shell  *)
(* command: an exception opens one shaped edit of the tool it names, an    *)
(* answer opens one nominated write. A shell command that writes Java on   *)
(* its own is noticed afterwards, by the time its guard stamped.           *)
(***************************************************************************)
EXTENDS RecordFile, Sequences, FiniteSets, FiniteSetsExt

CONSTANTS
    Plans,      \* bound: the sessions looked at: calls in all, siblings at a
                \* time, the calls it chooses from, time that passes
    Ttl,        \* WINDOW_TTL_SECS
    NoNominee   \* duplicate_check nominates nothing

\* A call: the tools it declares a failure of (author) or whose work it does
\* (edit), the job nominated for it, and whether it is a new file or declares
\* jawata-fallback, which the edit gate lets through.
CallOf(kind, tools, nominee, free) ==
    [kind |-> kind, tools |-> tools, nominee |-> nominee, free |-> free]

\* Only an edit is nominated: dup_gate_in asks about the path an edit names.
ASSUME GatesAssumption ==
    /\ Ttl \in Nat \ {0}
    /\ \A p \in Plans : p.calls \in Nat /\ p.siblings \in Nat /\ p.time \in Nat
    /\ \A p \in Plans, m \in UNION {q.menu : q \in Plans} :
            /\ m.kind \in {"author", "answer", "bash", "edit"}
            /\ m.tools \in Seq(STRING)
            /\ m.kind # "edit" => m.nominee = NoNominee

Ids == 1..Max({p.calls : p \in Plans})

VARIABLES
    plan,      \* which session this is
    clock,
    window,    \* editgate/<session>: the authoring window
    once,      \* <session>.once: a declared tool failure
    pending,   \* <session>.dup-pending: the refusal that awaits an answer
    said,      \* <session>.dup-said: the answer
    stamp,     \* <session>.bash-start
    call,      \* the calls, with the progress of their hooks
    touched,   \* when each call last wrote Java: {} or {a time}
    misses,    \* the calls whose writes java-write-misses.log names
    refusals,  \* auxiliary: the jobs writes were refused about, in order
    answers,   \* auxiliary: the answers: the job, the refusal it follows
    uses,      \* auxiliary: exceptions used: by whom, which
    given,     \* auxiliary: answers used: by whom, which
    bare,      \* auxiliary: the calls that wrote Java outside a window
    crossed    \* auxiliary: two calls have been under way at once

gates == <<window, once, pending, said, stamp>>
history == <<refusals, answers, uses, given, bare, crossed>>
gatesVars == <<plan, clock, gates, call, touched, misses, history>>

-----------------------------------------------------------------------------

GuardSteps  == {"shape", "takeOnce", "window", "declare", "open", "peek", "say", "stamp"}
RecallSteps == {"ask", "takeSaid", "dropPending", "refuse"}
Verdicts    == {"idle", "allow", "deny"}

NoEdit == [what |-> CallOf("bash", <<>>, NoNominee, FALSE), guard |-> "idle", recall |-> "idle",
           at |-> "idle", pair |-> 1, seen |-> {}, heard |-> {}]

IsFile(file) == Cardinality(file) <= 1 /\ \A r \in file : r.at \in 0..clock

GatesTypeOK ==
    /\ plan \in Plans /\ clock \in Nat
    /\ IsFile(window) /\ IsFile(once) /\ IsFile(pending) /\ IsFile(said)
    /\ stamp \in SUBSET (0..clock) /\ Cardinality(stamp) <= 1
    /\ \A c \in Ids :
         /\ call[c].what \in plan.menu \cup {NoEdit.what}
         /\ call[c].guard \in GuardSteps \cup Verdicts
         /\ call[c].recall \in RecallSteps \cup Verdicts
         /\ call[c].at \in {"idle", "asked", "running", "after", "done", "refused"}
         /\ call[c].pair \in 1..(Len(call[c].what.tools) + 1)
    /\ touched \in [Ids -> SUBSET (0..clock)]
    /\ misses \subseteq Ids /\ bare \subseteq Ids /\ crossed \in BOOLEAN

GatesInit ==
    /\ plan \in Plans /\ clock = 0
    /\ window = {} /\ once = {} /\ pending = {} /\ said = {} /\ stamp = {}
    /\ call = [c \in Ids |-> NoEdit]
    /\ touched = [c \in Ids |-> {}] /\ misses = {}
    /\ refusals = <<>> /\ answers = <<>> /\ uses = {} /\ given = {}
    /\ bare = {} /\ crossed = FALSE

Asked(c) == call[c].at \in {"asked", "running", "after"}

Guard(c, step)  == call' = [call EXCEPT ![c].guard = step]
Recall(c, step) == call' = [call EXCEPT ![c].recall = step]

WindowIsOpen == Fresh(window, Ttl, clock) # {}

-----------------------------------------------------------------------------

\* The client is about to make a call, and runs its hooks.
Ask(c) ==
    /\ call[c].at = "idle"
    /\ c <= plan.calls /\ \A d \in Ids : d < c => call[d].at # "idle"
    /\ Cardinality({d \in Ids : Asked(d)}) < plan.siblings
    /\ \E what \in plan.menu :
         call' = [call EXCEPT ![c] =
             [NoEdit EXCEPT !.what = what, !.at = "asked",
                            !.guard = CASE what.kind = "author" -> "declare"
                                        [] what.kind = "answer" -> "peek"
                                        [] what.kind = "bash"   -> "stamp"
                                        [] what.kind = "edit"   -> "shape",
                            !.recall = IF what.nominee = NoNominee THEN "allow" ELSE "ask"]]
    /\ crossed' = (crossed \/ \E d \in Ids : Asked(d))
    /\ UNCHANGED <<plan, clock, gates, touched, misses, refusals, answers, uses, given, bare>>

\* jawata-author: an exception is recorded, and in any case the window opened.
Declare(c) ==
    /\ call[c].guard = "declare"
    /\ once' = IF call[c].what.tools = <<>> THEN once
               ELSE Record([tool |-> Head(call[c].what.tools), id |-> c], clock)
    /\ Guard(c, "open")
    /\ UNCHANGED <<plan, clock, window, pending, said, stamp, touched, misses, history>>

OpenWindow(c) ==
    /\ call[c].guard = "open"
    /\ window' = Record(c, clock)
    /\ Guard(c, "allow")
    /\ UNCHANGED <<plan, clock, once, pending, said, stamp, touched, misses, history>>

\* open_declaration: an answer is taken only while a refusal is pending.
PeekPending(c) ==
    LET p == Fresh(pending, Ttl, clock) IN
    /\ call[c].guard = "peek"
    /\ call' = [call EXCEPT ![c].guard = IF p = {} THEN "stamp" ELSE "say",
                            ![c].seen = {r.what : r \in p}]
    /\ UNCHANGED <<plan, clock, gates, touched, misses, history>>

Say(c) ==
    /\ call[c].guard = "say"
    /\ \E job \in call[c].seen :
         /\ said' = Record([job |-> job, id |-> Len(answers) + 1], clock)
         /\ answers' = answers \o <<[job |-> job, to |-> Len(refusals)]>>
    /\ Guard(c, "stamp")
    /\ UNCHANGED <<plan, clock, window, once, pending, stamp, touched, misses, refusals, uses,
                   given, bare, crossed>>

\* Any other command is stamped and judged; some rules refuse before the stamp.
Stamp(c) ==
    /\ call[c].guard = "stamp"
    /\ \/ stamp' = {clock} /\ \E verdict \in {"allow", "deny"} : Guard(c, verdict)
       \/ Guard(c, "deny") /\ UNCHANGED stamp
    /\ UNCHANGED <<plan, clock, window, once, pending, said, touched, misses, history>>

\* Mutant: an open window is enough for an edit a tool performs.
MutantWindowCoversShapes(c) ==
    LET what == call[c].what
        wanted == {r \in Fresh(once, Ttl, clock) : r.what.tool = what.tools[call[c].pair]}
    IN  /\ call[c].guard = "shape"
        /\ IF call[c].pair > Len(what.tools) \/ WindowIsOpen
           THEN Guard(c, "window")
           ELSE call' = [call EXCEPT ![c].guard = IF wanted = {} THEN "deny" ELSE "takeOnce",
                                     ![c].seen = {r.what.id : r \in wanted}]
        /\ UNCHANGED <<plan, clock, gates, touched, misses, history>>

\* take_exception for the next pair of texts a tool would produce.
ReadOnce(c) ==
    LET what == call[c].what
        wanted == {r \in Fresh(once, Ttl, clock) : r.what.tool = what.tools[call[c].pair]}
    IN  /\ call[c].guard = "shape"
        /\ IF call[c].pair > Len(what.tools)
           THEN Guard(c, "window")
           ELSE call' = [call EXCEPT ![c].guard = IF wanted = {} THEN "deny" ELSE "takeOnce",
                                     ![c].seen = {r.what.id : r \in wanted}]
        /\ UNCHANGED <<plan, clock, gates, touched, misses, history>>

\* Mutant: the exception is looked at and stays.
MutantPeekOnce(c) ==
    /\ call[c].guard = "takeOnce"
    /\ call' = [call EXCEPT ![c].guard = "shape", ![c].pair = @ + 1, ![c].seen = {}]
    /\ uses' = uses \cup {[by |-> c, pair |-> call[c].pair, id |-> id] : id \in call[c].seen}
    /\ UNCHANGED <<plan, clock, gates, touched, misses, refusals, answers, given, bare, crossed>>

TakeOnce(c) ==
    /\ call[c].guard = "takeOnce"
    /\ IF once = {}
       THEN Guard(c, "deny") /\ UNCHANGED uses
       ELSE /\ call' = [call EXCEPT ![c].guard = "shape", ![c].pair = @ + 1, ![c].seen = {}]
            /\ uses' = uses \cup {[by |-> c, pair |-> call[c].pair, id |-> id] : id \in call[c].seen}
    /\ once' = {}
    /\ UNCHANGED <<plan, clock, window, pending, said, stamp, touched, misses, refusals, answers,
                   given, bare, crossed>>

\* judge_edit.
JudgeEdit(c) ==
    /\ call[c].guard = "window"
    /\ Guard(c, IF call[c].what.free \/ WindowIsOpen THEN "allow" ELSE "deny")
    /\ UNCHANGED <<plan, clock, gates, touched, misses, history>>

-----------------------------------------------------------------------------
(* The recall hook of a nominated write. *)

ReadSaid(c) ==
    LET s == Fresh(said, Ttl, clock) IN
    /\ call[c].recall = "ask"
    /\ call' = [call EXCEPT ![c].recall = IF s = {} THEN "refuse" ELSE "takeSaid",
                            ![c].heard = {r.what.id : r \in s}]
    /\ UNCHANGED <<plan, clock, gates, touched, misses, history>>

TakeSaid(c) ==
    /\ call[c].recall = "takeSaid"
    /\ IF said = {}
       THEN Recall(c, "refuse") /\ UNCHANGED given
       ELSE /\ Recall(c, "dropPending")
            /\ given' = given \cup {[by |-> c, id |-> id] : id \in call[c].heard}
    /\ said' = {}
    /\ UNCHANGED <<plan, clock, window, once, pending, stamp, touched, misses, refusals, answers,
                   uses, bare, crossed>>

\* Mutant: an answered refusal stays pending.
MutantKeepPending(c) ==
    /\ call[c].recall = "dropPending"
    /\ Recall(c, "allow")
    /\ UNCHANGED <<plan, clock, gates, touched, misses, history>>

DropPending(c) ==
    /\ call[c].recall = "dropPending"
    /\ pending' = {}
    /\ Recall(c, "allow")
    /\ UNCHANGED <<plan, clock, window, once, said, stamp, touched, misses, history>>

\* note_refusal; in Block mode, the default, the write is held.
Refuse(c) ==
    /\ call[c].recall = "refuse"
    /\ pending' = Record(call[c].what.nominee, clock)
    /\ refusals' = refusals \o <<call[c].what.nominee>>
    /\ Recall(c, "deny")
    /\ UNCHANGED <<plan, clock, window, once, said, stamp, touched, misses, answers, uses, given,
                   bare, crossed>>

-----------------------------------------------------------------------------

\* Both hooks have answered: the call is made, or not.
Decide(c) ==
    /\ call[c].at = "asked"
    /\ call[c].guard \in {"allow", "deny"} /\ call[c].recall \in {"allow", "deny"}
    /\ LET made == call[c].guard = "allow" /\ call[c].recall = "allow"
       IN  call' = [call EXCEPT ![c].at = IF made THEN "running" ELSE "refused",
                                ![c].seen = {}, ![c].heard = {}]
    /\ UNCHANGED <<plan, clock, gates, touched, misses, history>>

\* The call runs: an edit, and a command its guard could not read, write Java.
Run(c) ==
    /\ call[c].at = "running"
    /\ call' = [call EXCEPT ![c].at = IF call[c].what.kind = "edit" THEN "done" ELSE "after"]
    /\ IF call[c].what.kind \in {"edit", "bash"}
       THEN /\ touched' = [touched EXCEPT ![c] = {clock}]
            /\ bare' = IF WindowIsOpen THEN bare ELSE bare \cup {c}
       ELSE UNCHANGED <<touched, bare>>
    /\ UNCHANGED <<plan, clock, gates, misses, refusals, answers, uses, given, crossed>>

\* java_files_changed_since, by the calls that changed them.
ChangedSince(since) == {d \in Ids : \E t \in touched[d] : t >= since}

\* Mutant: only what changed after the stamp's time counts.
MutantStrictlyAfter(c) ==
    /\ call[c].at = "after"
    /\ call' = [call EXCEPT ![c].at = "done"]
    /\ misses' = IF WindowIsOpen THEN misses
                 ELSE misses \cup {d \in Ids : \E t \in touched[d], s \in stamp : t > s}
    /\ UNCHANGED <<plan, clock, gates, touched, history>>

\* record_java_writes after a shell command: what changed since the stamp and
\* no window covers is a miss.
After(c) ==
    /\ call[c].at = "after"
    /\ call' = [call EXCEPT ![c].at = "done"]
    /\ misses' = IF WindowIsOpen THEN misses
                 ELSE misses \cup UNION {ChangedSince(s) : s \in stamp}
    /\ UNCHANGED <<plan, clock, gates, touched, history>>

GatesTick ==
    /\ clock < plan.time
    /\ clock' = clock + 1
    /\ UNCHANGED <<plan, gates, call, touched, misses, history>>

CallStep(c) ==
    \/ Ask(c) \/ Declare(c) \/ OpenWindow(c) \/ PeekPending(c) \/ Say(c) \/ Stamp(c)
    \/ ReadOnce(c) \/ TakeOnce(c) \/ JudgeEdit(c)
    \/ ReadSaid(c) \/ TakeSaid(c) \/ DropPending(c) \/ Refuse(c)
    \/ Decide(c) \/ Run(c) \/ After(c)

GatesNext == GatesTick \/ \E c \in Ids : CallStep(c)

GatesSpec == GatesInit /\ [][GatesNext]_gatesVars

-----------------------------------------------------------------------------
(* Properties *)

Made(c) == call[c].at \in {"running", "after", "done"}

\* "an edit that PERFORMS a refactoring a tool performs is refused by name -
\* inside an authoring window too" (pipeline.rs:452): every such pair of a made
\* edit used up a declaration that names its tool, whatever siblings did.
ShapedEditsAreCovered ==
    \A c \in Ids :
        Made(c) /\ call[c].what.kind = "edit" =>
            \A i \in DOMAIN call[c].what.tools :
                \E u \in uses :
                    /\ u.by = c /\ u.pair = i
                    /\ Head(call[u.id].what.tools) = call[c].what.tools[i]

\* "The declaration covers that one edit and no other" (editgate.rs:251), while
\* calls follow each other.
CoveredOnce == ~crossed => \A u \in uses, v \in uses : u.id = v.id => u = v

\* A declaration covers each edit it is needed for, and one only.
DeclarationsCover == ShapedEditsAreCovered /\ CoveredOnce

\* "bound to a refusal" (dupgate.rs:176): every nominated write that was let
\* through gave an answer to a refusal of its own, about the job refused there.
AnswersTheirRefusal ==
    ~crossed =>
        /\ \A c \in Ids :
             Made(c) /\ call[c].what.nominee # NoNominee => \E g \in given : g.by = c
        /\ \A g \in given :
             LET a == answers[g.id] IN a.to > 0 /\ a.job = refusals[a.to]
        /\ \A g \in given, k \in given : answers[g.id].to = answers[k.id].to => g = k

\* "convert a silent miss into a recorded one" (javawatch.rs:12): a command
\* that wrote Java outside a window is in the log when its hooks are done.
WritesAreNoticed ==
    \A c \in Ids : call[c].what.kind = "bash" /\ call[c].at = "done" /\ c \in bare => c \in misses
LoneWritesAreNoticed == ~crossed => WritesAreNoticed

\* "then make THIS edit - the declaration covers that one edit" (editgate.rs:250):
\* a declaration is not used up by an edit that is refused.
SpentOnAMadeEdit == \A u \in uses : call[u.by].at # "refused"
=============================================================================
