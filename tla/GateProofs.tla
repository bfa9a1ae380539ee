------------------------------- MODULE GateProofs -------------------------------
(***************************************************************************)
(* What is proved of the gates of the hook, for any plans, clients, agents *)
(* and ceilings.                                                           *)
(*                                                                         *)
(* The gates of edits let nothing pass that was not declared: GInv says    *)
(* what a call has read and still relies on, in general and while calls    *)
(* follow each other. CallBecomes says once what each action makes of its  *)
(* call, and the steps of each part of GInv build on that.                 *)
(*                                                                         *)
(* Under a grant no turn ends unjudged: what read_turn takes for the       *)
(* verdict of the attempt is the judge's first word since the last push,   *)
(* and the instruction it keeps open is one nothing was done about. The    *)
(* auxiliary variables say the latter of what happened, `turn` says it of  *)
(* the transcript.                                                         *)
(*                                                                         *)
(* The hook's modules share no file, so a step of the three side by side   *)
(* is a step or a stutter of each, and what holds of each holds together.  *)
(***************************************************************************)
EXTENDS MCHook, ObserverProofs

-----------------------------------------------------------------------------
(* The gates of edits. *)

Menu == UNION {p.menu : p \in Plans}
Jobs == {m.nominee : m \in Menu}

CallRecord == [what : Menu \cup {NoEdit.what}, guard : GuardSteps \cup Verdicts,
               recall : RecallSteps \cup Verdicts,
               at : {"idle", "asked", "running", "after", "done", "refused"},
               pair : Nat, seen : SUBSET (Ids \cup Jobs), heard : SUBSET Nat]

\* The types of the files, the calls and the history.
GatesTypes ==
    /\ plan \in Plans /\ clock \in Nat
    /\ window \in SUBSET [at : Nat, what : Ids]
    /\ once \in SUBSET [at : Nat, what : [tool : STRING, id : Ids]]
    /\ pending \in SUBSET [at : Nat, what : Jobs]
    /\ said \in SUBSET [at : Nat, what : [job : Jobs, id : Nat]]
    /\ stamp \in SUBSET Nat
    /\ call \in [Ids -> CallRecord]
    /\ touched \in [Ids -> SUBSET Nat] /\ misses \subseteq Ids /\ bare \subseteq Ids
    /\ refusals \in Seq(Jobs) /\ answers \in Seq([job : Jobs, to : Nat])
    /\ uses \in SUBSET [by : Ids, pair : Nat, id : Ids]
    /\ given \in SUBSET [by : Ids, id : Nat]
    /\ crossed \in BOOLEAN

\* What the guard of each kind of call goes through.
GuardsOf(kind) ==
    IF kind = "author" THEN {"declare", "open", "allow"}
    ELSE IF kind = "answer" THEN {"peek", "say", "stamp", "allow", "deny"}
    ELSE IF kind = "bash" THEN {"stamp", "allow", "deny"}
    ELSE {"shape", "takeOnce", "window", "allow", "deny"}

\* Where a call is.
CallControl(i) ==
    /\ i.at = "idle" => i.guard = "idle" /\ i.recall = "idle"
    /\ i.at # "idle" => /\ i.what \in Menu
                        /\ i.guard \in GuardsOf(i.what.kind)
                        /\ i.recall \in RecallSteps \cup {"allow", "deny"}
                        /\ i.what.nominee = NoNominee => i.recall = "allow"
    /\ i.at \notin {"idle", "asked"} => i.guard \in {"allow", "deny"}
                                        /\ i.recall \in {"allow", "deny"}
    /\ i.at \in {"running", "after", "done"} => i.guard = "allow" /\ i.recall = "allow"
    /\ i.guard = "say" => i.seen \subseteq Jobs
    /\ i.guard = "takeOnce" => i.seen \subseteq Ids

\* Only the named fields of a call differ.
KeptBut(i, j, fields) ==
    /\ "what" \notin fields => j.what = i.what
    /\ "guard" \notin fields => j.guard = i.guard
    /\ "recall" \notin fields => j.recall = i.recall
    /\ "at" \notin fields => j.at = i.at
    /\ "pair" \notin fields => j.pair = i.pair
    /\ "seen" \notin fields => j.seen = i.seen
    /\ "heard" \notin fields => j.heard = i.heard

\* What the fields of a call become in each action.
Asks(c, j) ==
    /\ Ask(c) /\ j.what \in plan.menu /\ j.at = "asked"
    /\ j.pair = 1 /\ j.seen = {} /\ j.heard = {}
    /\ j.what.kind = "author" => j.guard = "declare"
    /\ j.what.kind = "answer" => j.guard = "peek"
    /\ j.what.kind = "bash"   => j.guard = "stamp"
    /\ j.what.kind = "edit"   => j.guard = "shape"
    /\ j.recall = IF j.what.nominee = NoNominee THEN "allow" ELSE "ask"
Declares(c, j) == Declare(c) /\ j.guard = "open" /\ KeptBut(call[c], j, {"guard"})
Opens(c, j) == OpenWindow(c) /\ j.guard = "allow" /\ KeptBut(call[c], j, {"guard"})
Peeks(c, j) ==
    /\ PeekPending(c) /\ KeptBut(call[c], j, {"guard", "seen"})
    /\ j.seen = {r.what : r \in Fresh(pending, Ttl, clock)}
    /\ j.guard = IF j.seen = {} THEN "stamp" ELSE "say"
Says(c, j) == Say(c) /\ j.guard = "stamp" /\ KeptBut(call[c], j, {"guard"})
Stamps(c, j) ==
    /\ Stamp(c) /\ j.guard \in {"allow", "deny"} /\ KeptBut(call[c], j, {"guard"})
    /\ j.guard = "allow" => stamp' = {clock}
PassesShapes(c, j) ==
    /\ ReadOnce(c) /\ call[c].pair > Len(call[c].what.tools) /\ j.guard = "window"
    /\ KeptBut(call[c], j, {"guard"})
ReadsOnce(c, j) ==
    /\ ReadOnce(c) /\ call[c].pair <= Len(call[c].what.tools)
    /\ KeptBut(call[c], j, {"guard", "seen"})
    /\ j.seen = {r.what.id : r \in {s \in Fresh(once, Ttl, clock) :
                                      s.what.tool = call[c].what.tools[call[c].pair]}}
    /\ j.guard = IF j.seen = {} THEN "deny" ELSE "takeOnce"
MissesOnce(c, j) ==
    TakeOnce(c) /\ once = {} /\ j.guard = "deny" /\ KeptBut(call[c], j, {"guard"})
TakesOnce(c, j) ==
    /\ TakeOnce(c) /\ once # {} /\ j.guard = "shape" /\ j.pair = call[c].pair + 1 /\ j.seen = {}
    /\ KeptBut(call[c], j, {"guard", "pair", "seen"})
JudgesEdit(c, j) ==
    /\ JudgeEdit(c) /\ j.guard \in {"allow", "deny"} /\ KeptBut(call[c], j, {"guard"})
ReadsSaid(c, j) ==
    /\ ReadSaid(c) /\ KeptBut(call[c], j, {"recall", "heard"})
    /\ j.heard = {r.what.id : r \in Fresh(said, Ttl, clock)}
    /\ j.recall = IF j.heard = {} THEN "refuse" ELSE "takeSaid"
MissesSaid(c, j) ==
    TakeSaid(c) /\ said = {} /\ j.recall = "refuse" /\ KeptBut(call[c], j, {"recall"})
TakesSaid(c, j) ==
    TakeSaid(c) /\ said # {} /\ j.recall = "dropPending" /\ KeptBut(call[c], j, {"recall"})
Drops(c, j) == DropPending(c) /\ j.recall = "allow" /\ KeptBut(call[c], j, {"recall"})
Refuses(c, j) == Refuse(c) /\ j.recall = "deny" /\ KeptBut(call[c], j, {"recall"})
Decides(c, j) ==
    /\ Decide(c) /\ KeptBut(call[c], j, {"at", "seen", "heard"}) /\ j.seen = {} /\ j.heard = {}
    /\ j.at = IF call[c].guard = "allow" /\ call[c].recall = "allow" THEN "running" ELSE "refused"
Runs(c, j) ==
    /\ Run(c) /\ KeptBut(call[c], j, {"at"})
    /\ j.at = IF call[c].what.kind = "edit" THEN "done" ELSE "after"
Ends(c, j) == After(c) /\ j.at = "done" /\ KeptBut(call[c], j, {"at"})

\* One of these.
Became(c, j) ==
    \/ Asks(c, j) \/ Declares(c, j) \/ Opens(c, j) \/ Peeks(c, j) \/ Says(c, j) \/ Stamps(c, j)
    \/ PassesShapes(c, j) \/ ReadsOnce(c, j) \/ MissesOnce(c, j) \/ TakesOnce(c, j) \/ JudgesEdit(c, j)
    \/ ReadsSaid(c, j) \/ MissesSaid(c, j) \/ TakesSaid(c, j) \/ Drops(c, j) \/ Refuses(c, j)
    \/ Decides(c, j) \/ Runs(c, j) \/ Ends(c, j)

-----------------------------------------------------------------------------
(* The invariant. *)

\* A call that has declared a failure of the tool.
Declared(id, tool) ==
    /\ id \in Ids /\ call[id].at # "idle" /\ call[id].guard # "declare"
    /\ Head(call[id].what.tools) = tool

\* What a call has of declarations: each pair it is past used one of its tool, and
\* what it is about to remove declares the tool of the pair it is at.
Covered(c) ==
    LET i == call[c] IN
    /\ i.guard = "takeOnce" => /\ i.pair <= Len(i.what.tools) /\ i.seen # {}
                               /\ \A id \in i.seen : Declared(id, i.what.tools[i.pair])
    /\ \A n \in 1..(i.pair - 1) :
          \E u \in uses : /\ u.by = c /\ u.pair = n
                          /\ Head(call[u.id].what.tools) = i.what.tools[n]
    /\ i.what.kind = "edit" /\ i.guard \in {"window", "allow"} => i.pair > Len(i.what.tools)

Cover ==
    /\ \A r \in once : Declared(r.what.id, r.what.tool)
    /\ \A u \in uses : call[u.id].at # "idle" /\ call[u.id].guard # "declare"
    /\ \A c \in Ids : Covered(c)

\* Calls follow each other.
OneAsked == ~crossed => \A c, d \in Ids : Asked(c) /\ Asked(d) => c = d

\* A declaration in the file is not used, nor is one that is being removed.
Unused ==
    ~crossed =>
        /\ \A r \in once, u \in uses : r.what.id # u.id
        /\ \A c \in Ids : call[c].guard = "takeOnce" => call[c].seen \subseteq {r.what.id : r \in once}
        /\ \A u, v \in uses : u.id = v.id => u = v

\* The files hold the last refusal and the last answer, and what a call has heard
\* is an answer; a nominated write that passes has used one.
Heard(c) ==
    LET i == call[c] IN
    /\ i.heard \subseteq DOMAIN answers
    /\ i.recall = "takeSaid" => i.heard # {}
    /\ i.at # "idle" /\ i.what.nominee # NoNominee /\ i.recall \in {"dropPending", "allow"}
         => \E g \in given : g.by = c

Answered ==
    /\ \A r \in pending : refusals # <<>> /\ r.what = refusals[Len(refusals)]
    /\ \A r \in said : answers # <<>> /\ r.what.id = Len(answers)
    /\ \A g \in given : g.id \in DOMAIN answers
    /\ \A c \in Ids : Heard(c)

\* The refusal an answer follows.
To(id) == answers[id].to

\* A call that is about to answer, or to use an answer, acts on what still holds.
Current(c) ==
    LET i == call[c] IN
    /\ i.guard = "say" => /\ pending # {} /\ refusals # <<>>
                          /\ \A job \in i.seen : job = refusals[Len(refusals)]
    /\ i.recall = "takeSaid" => said # {} /\ \A id \in i.heard : id = Len(answers)

Bound ==
    ~crossed =>
        /\ \A n \in DOMAIN answers : To(n) \in DOMAIN refusals /\ answers[n].job = refusals[To(n)]
        /\ \A g, k \in given : To(g.id) = To(k.id) => g = k
        /\ said # {} => \A g \in given : To(g.id) # To(Len(answers))
        /\ pending # {} /\ (\E g \in given : To(g.id) = Len(refusals))
             => \E c \in Ids : call[c].recall = "dropPending"
        /\ \A c \in Ids : Current(c)

\* A command that wrote is after its stamp; one that wrote outside a window
\* finds no window and its own write when it ends.
Wrote(c) ==
    LET i == call[c] IN
    i.what.kind = "bash" =>
        /\ (i.at = "asked" /\ i.guard = "allow") \/ i.at \in {"running", "after"} => stamp # {}
        /\ i.at = "after" /\ c \in bare => /\ ~WindowIsOpen
                                           /\ \E t \in touched[c], s \in stamp : t >= s
        /\ i.at = "done" /\ c \in bare => c \in misses

Noticed ==
    /\ \A s \in stamp : s <= clock
    /\ \A c \in bare : call[c].at \in {"after", "done"}
    /\ ~crossed => \A c \in Ids : Wrote(c)

GInv == /\ GatesTypes /\ (\A c \in Ids : CallControl(call[c])) /\ Cover /\ OneAsked /\ Unused
        /\ Answered /\ Bound /\ Noticed

\* What the assumption says of any call that may be made.
LEMMA MenuTypes ==
    \A m \in Menu :
        /\ m.kind \in {"author", "answer", "bash", "edit"}
        /\ Len(m.tools) \in Nat /\ DOMAIN m.tools = 1..Len(m.tools)
        /\ m.tools # <<>> => Head(m.tools) \in STRING
        /\ m.kind # "edit" => m.nominee = NoNominee
<1>. SUFFICES ASSUME NEW m \in Menu
              PROVE  /\ m.kind \in {"author", "answer", "bash", "edit"}
                     /\ Len(m.tools) \in Nat /\ DOMAIN m.tools = 1..Len(m.tools)
                     /\ m.tools # <<>> => Head(m.tools) \in STRING
                     /\ m.kind # "edit" => m.nominee = NoNominee
  OBVIOUS
<1>1. PICK p \in Plans : m \in p.menu
  BY DEF Menu
<1>2. m \in UNION {q.menu : q \in Plans}
  BY <1>1
<1>3. /\ m.kind \in {"author", "answer", "bash", "edit"} /\ m.tools \in Seq(STRING)
      /\ m.kind # "edit" => m.nominee = NoNominee
  BY <1>1, <1>2, GatesAssumption
<1>. QED BY <1>3

\* A step of a call changes its own fields, as its action says.
LEMMA CallBecomes ==
    ASSUME GatesTypes, NEW c \in Ids, CallStep(c)
    PROVE  \E j : call' = [call EXCEPT ![c] = j] /\ Became(c, j)
<1> DEFINE i == call[c]
<1>0. i \in CallRecord /\ call \in [Ids -> CallRecord]
  BY DEF GatesTypes
<1>1. CASE Ask(c)
  <2>1. PICK what \in plan.menu :
           call' = [call EXCEPT ![c] =
             [NoEdit EXCEPT !.what = what, !.at = "asked",
                            !.guard = CASE what.kind = "author" -> "declare"
                                        [] what.kind = "answer" -> "peek"
                                        [] what.kind = "bash"   -> "stamp"
                                        [] what.kind = "edit"   -> "shape",
                            !.recall = IF what.nominee = NoNominee THEN "allow" ELSE "ask"]]
    BY <1>1 DEF Ask
  <2>2. PICK g, r : /\ g = (CASE what.kind = "author" -> "declare"
                              [] what.kind = "answer" -> "peek"
                              [] what.kind = "bash"   -> "stamp"
                              [] what.kind = "edit"   -> "shape")
                    /\ r = IF what.nominee = NoNominee THEN "allow" ELSE "ask"
    OBVIOUS
  <2>6. /\ what.kind = "author" => g = "declare"
        /\ what.kind = "answer" => g = "peek"
        /\ what.kind = "bash"   => g = "stamp"
        /\ what.kind = "edit"   => g = "shape"
    BY <2>2
  <2> DEFINE j == [NoEdit EXCEPT !.what = what, !.at = "asked", !.guard = g, !.recall = r]
  <2>3. call' = [call EXCEPT ![c] = j]
    BY <2>1, <2>2
  <2>4. /\ j.what = what /\ j.at = "asked" /\ j.guard = g /\ j.recall = r
        /\ j.pair = 1 /\ j.seen = {} /\ j.heard = {}
    BY DEF NoEdit
  <2> HIDE DEF j
  <2>5. Became(c, j)
    BY <1>1, <2>1, <2>2, <2>4, <2>6 DEF Became, Asks
  <2>. QED BY <2>3, <2>5
<1>2. ASSUME NEW g, Guard(c, g)
      PROVE  \E j : call' = [call EXCEPT ![c] = j] /\ j.guard = g /\ KeptBut(i, j, {"guard"})
  <2> DEFINE j == [i EXCEPT !.guard = g]
  <2>1. call' = [call EXCEPT ![c] = j] /\ j.guard = g /\ KeptBut(i, j, {"guard"})
    BY <1>0, <1>2 DEF Guard, KeptBut, CallRecord
  <2>. QED BY <2>1
<1>3. ASSUME NEW g, NEW s, call' = [call EXCEPT ![c].guard = g, ![c].seen = s]
      PROVE  \E j : /\ call' = [call EXCEPT ![c] = j] /\ j.guard = g /\ j.seen = s
                    /\ KeptBut(i, j, {"guard", "seen"})
  <2> DEFINE j == [i EXCEPT !.guard = g, !.seen = s]
  <2>1. call' = [call EXCEPT ![c] = j] /\ j.guard = g /\ j.seen = s
        /\ KeptBut(i, j, {"guard", "seen"})
    BY <1>0, <1>3 DEF KeptBut, CallRecord
  <2>. QED BY <2>1
<1>4. ASSUME NEW g, Recall(c, g)
      PROVE  \E j : call' = [call EXCEPT ![c] = j] /\ j.recall = g /\ KeptBut(i, j, {"recall"})
  <2> DEFINE j == [i EXCEPT !.recall = g]
  <2>1. call' = [call EXCEPT ![c] = j] /\ j.recall = g /\ KeptBut(i, j, {"recall"})
    BY <1>0, <1>4 DEF Recall, KeptBut, CallRecord
  <2>. QED BY <2>1
<1>5. ASSUME NEW g, call' = [call EXCEPT ![c].at = g]
      PROVE  \E j : call' = [call EXCEPT ![c] = j] /\ j.at = g /\ KeptBut(i, j, {"at"})
  <2> DEFINE j == [i EXCEPT !.at = g]
  <2>1. call' = [call EXCEPT ![c] = j] /\ j.at = g /\ KeptBut(i, j, {"at"})
    BY <1>0, <1>5 DEF KeptBut, CallRecord
  <2>. QED BY <2>1
<1>6. CASE Declare(c)
  <2>1. Guard(c, "open")
    BY <1>6 DEF Declare
  <2>. QED BY <1>2, <1>6, <2>1 DEF Became, Declares
<1>7. CASE OpenWindow(c)
  <2>1. Guard(c, "allow")
    BY <1>7 DEF OpenWindow
  <2>. QED BY <1>2, <1>7, <2>1 DEF Became, Opens
<1>8. CASE PeekPending(c)
  <2>2. PICK ids, g : /\ ids = {r.what : r \in Fresh(pending, Ttl, clock)}
                      /\ g = IF ids = {} THEN "stamp" ELSE "say"
    OBVIOUS
  <2>4. Fresh(pending, Ttl, clock) = {} <=> ids = {}
    BY <2>2
  <2>1. call' = [call EXCEPT ![c].guard = g, ![c].seen = ids]
    BY <1>8, <2>2, <2>4 DEF PeekPending
  <2>3. PICK j : /\ call' = [call EXCEPT ![c] = j] /\ j.guard = g /\ j.seen = ids
                 /\ KeptBut(i, j, {"guard", "seen"})
    BY <1>3, <2>1, <2>2, ZenonT(60)
  <2>. QED BY <1>8, <2>2, <2>3, Zenon DEF Became, Peeks
<1>9. CASE Say(c)
  <2>1. Guard(c, "stamp")
    BY <1>9 DEF Say
  <2>. QED BY <1>2, <1>9, <2>1 DEF Became, Says
<1>10. CASE Stamp(c)
  <2>1. PICK g \in {"allow", "deny"} : Guard(c, g) /\ (g = "allow" => stamp' = {clock})
    BY <1>10 DEF Stamp
  <2>2. PICK j : call' = [call EXCEPT ![c] = j] /\ j.guard = g /\ KeptBut(i, j, {"guard"})
    BY <1>2, <2>1
  <2>. QED BY <1>10, <2>1, <2>2, Zenon DEF Became, Stamps
<1>11. CASE ReadOnce(c)
  <2>1. CASE i.pair > Len(i.what.tools)
    <3>1. Guard(c, "window")
      BY <1>11, <2>1 DEF ReadOnce
    <3>. QED BY <1>2, <1>11, <2>1, <3>1 DEF Became, PassesShapes
  <2>2. CASE ~(i.pair > Len(i.what.tools))
    <3>1. PICK wanted : wanted = {r \in Fresh(once, Ttl, clock) :
                                     r.what.tool = i.what.tools[i.pair]}
      OBVIOUS
    <3>2. call' = [call EXCEPT ![c].guard = IF wanted = {} THEN "deny" ELSE "takeOnce",
                               ![c].seen = {r.what.id : r \in wanted}]
      BY <1>11, <2>2, <3>1 DEF ReadOnce
    <3>3. wanted = {} <=> {r.what.id : r \in wanted} = {}
      OBVIOUS
    <3>4. i.pair <= Len(i.what.tools)
      <4>1. Len(i.what.tools) \in Nat
        BY <1>0, MenuTypes DEF CallRecord, NoEdit, CallOf
      <4>2. i.pair \in Nat
        BY <1>0 DEF CallRecord
      <4>. QED BY <2>2, <4>1, <4>2
    <3>5. PICK g, ids : /\ ids = {r.what.id : r \in wanted}
                        /\ g = IF ids = {} THEN "deny" ELSE "takeOnce"
      OBVIOUS
    <3>6. call' = [call EXCEPT ![c].guard = g, ![c].seen = ids]
      BY <3>2, <3>3, <3>5
    <3>7. PICK j : /\ call' = [call EXCEPT ![c] = j] /\ j.guard = g /\ j.seen = ids
                   /\ KeptBut(i, j, {"guard", "seen"})
      BY <1>3, <3>6
    <3>8. ids = {r.what.id : r \in {s \in Fresh(once, Ttl, clock) :
                                          s.what.tool = i.what.tools[i.pair]}}
      BY <3>1, <3>5
    <3>. QED BY <1>11, <3>4, <3>5, <3>7, <3>8, Zenon DEF Became, ReadsOnce
  <2>. QED BY <2>1, <2>2
<1>12. CASE TakeOnce(c)
  <2>1. CASE once = {}
    <3>1. Guard(c, "deny")
      BY <1>12, <2>1 DEF TakeOnce
    <3>. QED BY <1>2, <1>12, <2>1, <3>1 DEF Became, MissesOnce
  <2>2. CASE once # {}
    <3>1. call' = [call EXCEPT ![c].guard = "shape", ![c].pair = @ + 1, ![c].seen = {}]
      BY <1>12, <2>2 DEF TakeOnce
    <3> DEFINE j == [i EXCEPT !.guard = "shape", !.pair = @ + 1, !.seen = {}]
    <3>2. /\ call' = [call EXCEPT ![c] = j] /\ j.guard = "shape" /\ j.pair = i.pair + 1
          /\ j.seen = {} /\ KeptBut(i, j, {"guard", "pair", "seen"})
      BY <1>0, <3>1 DEF KeptBut, CallRecord
    <3> HIDE DEF j
    <3>. QED BY <1>12, <2>2, <3>2 DEF Became, TakesOnce
  <2>. QED BY <2>1, <2>2
<1>13. CASE JudgeEdit(c)
  <2>1. PICK g \in {"allow", "deny"} : Guard(c, g)
    BY <1>13 DEF JudgeEdit
  <2>. QED BY <1>2, <1>13, <2>1 DEF Became, JudgesEdit
<1>14. CASE ReadSaid(c)
  <2>1. PICK s : s = Fresh(said, Ttl, clock)
    OBVIOUS
  <2>2. PICK h : h = {r.what.id : r \in s}
    OBVIOUS
  <2>3. call' = [call EXCEPT ![c].recall = IF h = {} THEN "refuse" ELSE "takeSaid",
                             ![c].heard = h]
    <3>1. s = {} <=> h = {}
      BY <2>2
    <3>. QED BY <1>14, <2>1, <2>2, <3>1 DEF ReadSaid
  <2>4. PICK g : g = IF h = {} THEN "refuse" ELSE "takeSaid"
    OBVIOUS
  <2> DEFINE j == [i EXCEPT !.recall = g, !.heard = h]
  <2>5. /\ call' = [call EXCEPT ![c] = j] /\ j.recall = g /\ j.heard = h
        /\ KeptBut(i, j, {"recall", "heard"})
    BY <1>0, <2>3, <2>4 DEF KeptBut, CallRecord
  <2> HIDE DEF j
  <2>. QED BY <1>14, <2>1, <2>2, <2>4, <2>5 DEF Became, ReadsSaid
<1>15. CASE TakeSaid(c)
  <2>1. CASE said = {}
    <3>1. Recall(c, "refuse")
      BY <1>15, <2>1 DEF TakeSaid
    <3>. QED BY <1>4, <1>15, <2>1, <3>1 DEF Became, MissesSaid
  <2>2. CASE said # {}
    <3>1. Recall(c, "dropPending")
      BY <1>15, <2>2 DEF TakeSaid
    <3>. QED BY <1>4, <1>15, <2>2, <3>1 DEF Became, TakesSaid
  <2>. QED BY <2>1, <2>2
<1>16. CASE DropPending(c)
  <2>1. Recall(c, "allow")
    BY <1>16 DEF DropPending
  <2>. QED BY <1>4, <1>16, <2>1 DEF Became, Drops
<1>17. CASE Refuse(c)
  <2>1. Recall(c, "deny")
    BY <1>17 DEF Refuse
  <2>. QED BY <1>4, <1>17, <2>1 DEF Became, Refuses
<1>18. CASE Decide(c)
  <2>1. PICK a : a = IF i.guard = "allow" /\ i.recall = "allow" THEN "running" ELSE "refused"
    OBVIOUS
  <2>2. call' = [call EXCEPT ![c].at = a, ![c].seen = {}, ![c].heard = {}]
    BY <1>18, <2>1 DEF Decide
  <2> DEFINE j == [i EXCEPT !.at = a, !.seen = {}, !.heard = {}]
  <2>3. /\ call' = [call EXCEPT ![c] = j] /\ j.at = a /\ j.seen = {} /\ j.heard = {}
        /\ KeptBut(i, j, {"at", "seen", "heard"})
    BY <1>0, <2>2 DEF KeptBut, CallRecord
  <2> HIDE DEF j
  <2>. QED BY <1>18, <2>1, <2>3 DEF Became, Decides
<1>19. CASE Run(c)
  <2>1. PICK a : a = IF i.what.kind = "edit" THEN "done" ELSE "after"
    OBVIOUS
  <2>2. call' = [call EXCEPT ![c].at = a]
    BY <1>19, <2>1 DEF Run
  <2>3. PICK j : call' = [call EXCEPT ![c] = j] /\ j.at = a /\ KeptBut(i, j, {"at"})
    BY <1>5, <2>2
  <2>4. Runs(c, j)
    BY <1>19, <2>1, <2>3 DEF Runs
  <2>. QED BY <2>3, <2>4, Zenon DEF Became
<1>20. CASE After(c)
  <2>1. call' = [call EXCEPT ![c].at = "done"]
    BY <1>20 DEF After
  <2>. QED BY <1>5, <1>20, <2>1 DEF Became, Ends
<1>. QED BY <1>1, <1>6, <1>7, <1>8, <1>9, <1>10, <1>11, <1>12, <1>13, <1>14, <1>15, <1>16, <1>17,
           <1>18, <1>19, <1>20 DEF CallStep

-----------------------------------------------------------------------------
(* Types. *)

\* At the start nothing is recorded and no call is made.
LEMMA GatesTypesInit == GatesInit => GatesTypes
<1>. SUFFICES ASSUME GatesInit PROVE GatesTypes
  OBVIOUS
<1>1. NoEdit \in CallRecord
  BY DEF NoEdit, CallRecord, GuardSteps, RecallSteps, Verdicts
<1>2. call \in [Ids -> CallRecord] /\ touched \in [Ids -> SUBSET Nat]
  BY <1>1 DEF GatesInit
<1>3. refusals \in Seq(Jobs) /\ answers \in Seq([job : Jobs, to : Nat])
  BY DEF GatesInit
<1>. QED BY <1>2, <1>3 DEF GatesInit, GatesTypes

\* Each action writes what the files and the history may hold.
LEMMA GatesTypesStep ==
    ASSUME GatesTypes, NEW c \in Ids, CallControl(call[c]), CallStep(c)
    PROVE  GatesTypes'
<1> DEFINE i == call[c]
<1>0. i \in CallRecord /\ call \in [Ids -> CallRecord]
  BY DEF GatesTypes
<1>1. ASSUME NEW g \in GuardSteps \cup Verdicts, Guard(c, g)
      PROVE  call' \in [Ids -> CallRecord]
  BY <1>0, <1>1 DEF Guard, CallRecord
<1>2. ASSUME NEW g \in RecallSteps \cup Verdicts, Recall(c, g)
      PROVE  call' \in [Ids -> CallRecord]
  BY <1>0, <1>2 DEF Recall, CallRecord
<1>3. \A what : Record(what, clock) = {[at |-> clock, what |-> what]}
  BY DEF Record
<1>20. /\ i.at # "idle" => i.what \in Menu /\ i.guard \in GuardsOf(i.what.kind)
       /\ i.at = "idle" => i.guard = "idle" /\ i.recall = "idle"
       /\ i.guard = "say" => i.seen \subseteq Jobs
       /\ i.guard = "takeOnce" => i.seen \subseteq Ids
  BY DEF CallControl
<1>21. plan.menu \subseteq Menu
  BY DEF Menu, GatesTypes
<1>4. CASE Ask(c)
  <2>1. PICK what, g, r :
           /\ what \in plan.menu
           /\ call' = [call EXCEPT ![c] =
                         [NoEdit EXCEPT !.what = what, !.at = "asked", !.guard = g, !.recall = r]]
           /\ g = (CASE what.kind = "author" -> "declare"
                     [] what.kind = "answer" -> "peek"
                     [] what.kind = "bash"   -> "stamp"
                     [] what.kind = "edit"   -> "shape")
           /\ r = IF what.nominee = NoNominee THEN "allow" ELSE "ask"
    BY <1>4 DEF Ask
  <2>8. what \in Menu
    BY <1>21, <2>1, Zenon
  <2>2. what.kind \in {"author", "answer", "bash", "edit"} /\ what \in Menu
    BY <2>8, MenuTypes
  <2>3. g \in {"declare", "peek", "stamp", "shape"}
    <3>1. /\ what.kind = "author" => g = "declare"
          /\ what.kind = "answer" => g = "peek"
          /\ what.kind = "bash"   => g = "stamp"
          /\ what.kind = "edit"   => g = "shape"
      BY <2>1
    <3>. QED BY <2>2, <3>1
  <2>4. r \in {"allow", "ask"}
    BY <2>1
  <2>5. [NoEdit EXCEPT !.what = what, !.at = "asked", !.guard = g, !.recall = r] \in CallRecord
    BY <2>2, <2>3, <2>4 DEF NoEdit, CallRecord, GuardSteps, RecallSteps, Verdicts
  <2>6. call' \in [Ids -> CallRecord]
    <3>1. PICK j \in CallRecord : call' = [call EXCEPT ![c] = j]
      BY <2>1, <2>5
    <3>. QED BY <1>0, <3>1
  <2>7. crossed' \in BOOLEAN
    BY <1>4 DEF Ask, GatesTypes
  <2>. QED BY <1>4, <2>6, <2>7 DEF Ask, GatesTypes, gates
<1>5. CASE Declare(c)
  <2>1. once' \in SUBSET [at : Nat, what : [tool : STRING, id : Ids]]
    <3>1. CASE i.what.tools = <<>>
      BY <1>5, <3>1 DEF Declare, GatesTypes
    <3>2. CASE i.what.tools # <<>>
      <4>1. i.what \in Menu
        BY <1>0, <1>5, <1>20 DEF Declare
      <4>2. Head(i.what.tools) \in STRING
        BY <3>2, <4>1, MenuTypes
      <4>3. once' = {[at |-> clock, what |-> [tool |-> Head(i.what.tools), id |-> c]]}
        BY <1>5, <3>2 DEF Declare, Record
      <4>. QED BY <4>2, <4>3 DEF GatesTypes
    <3>. QED BY <3>1, <3>2
  <2>2. call' \in [Ids -> CallRecord]
    BY <1>1, <1>5 DEF Declare, GuardSteps
  <2>. QED BY <1>5, <2>1, <2>2 DEF Declare, GatesTypes, history
<1>6. CASE OpenWindow(c)
  <2>1. call' \in [Ids -> CallRecord]
    BY <1>1, <1>6 DEF OpenWindow, Verdicts
  <2>. QED BY <1>3, <1>6, <2>1 DEF OpenWindow, GatesTypes, history
<1>7. CASE PeekPending(c)
  <2>1. {r.what : r \in Fresh(pending, Ttl, clock)} \subseteq Jobs
    BY DEF Fresh, GatesTypes
  <2>2. call' \in [Ids -> CallRecord]
    BY <1>0, <1>7, <2>1 DEF PeekPending, CallRecord, GuardSteps
  <2>. QED BY <1>7, <2>2 DEF PeekPending, GatesTypes, gates, history
<1>8. CASE Say(c)
  <2>1. call' \in [Ids -> CallRecord]
    BY <1>1, <1>8 DEF Say, GuardSteps
  <2>2. PICK job \in i.seen : /\ said' = Record([job |-> job, id |-> Len(answers) + 1], clock)
                              /\ answers' = answers \o <<[job |-> job, to |-> Len(refusals)]>>
    BY <1>8 DEF Say
  <2>3. job \in Jobs
    BY <1>8, <1>20, <2>2 DEF Say
  <2>4. said' \in SUBSET [at : Nat, what : [job : Jobs, id : Nat]]
    BY <1>3, <2>2, <2>3 DEF GatesTypes
  <2>5. answers' \in Seq([job : Jobs, to : Nat])
    BY <2>2, <2>3 DEF GatesTypes
  <2>. QED BY <1>8, <2>1, <2>4, <2>5 DEF Say, GatesTypes
<1>9. CASE Stamp(c)
  <2>1. call' \in [Ids -> CallRecord]
    BY <1>1, <1>9 DEF Stamp, Verdicts
  <2>. QED BY <1>9, <2>1 DEF Stamp, GatesTypes, history
<1>10. CASE ReadOnce(c)
  <2>1. {r.what.id : r \in {s \in Fresh(once, Ttl, clock) :
                              s.what.tool = call[c].what.tools[call[c].pair]}} \subseteq Ids
    BY DEF Fresh, GatesTypes
  <2>2. call' \in [Ids -> CallRecord]
    BY <1>0, <1>1, <1>10, <2>1 DEF ReadOnce, CallRecord, GuardSteps, Verdicts
  <2>. QED BY <1>10, <2>2 DEF ReadOnce, GatesTypes, gates, history
<1>11. CASE TakeOnce(c)
  <2>1. call' \in [Ids -> CallRecord]
    BY <1>0, <1>1, <1>11 DEF TakeOnce, CallRecord, GuardSteps, Verdicts
  <2>2. uses' \in SUBSET [by : Ids, pair : Nat, id : Ids]
    <3>1. i.seen \subseteq Ids /\ i.pair \in Nat
      BY <1>0, <1>11, <1>20 DEF TakeOnce, CallRecord
    <3>. QED BY <1>11, <3>1 DEF TakeOnce, GatesTypes
  <2>. QED BY <1>11, <2>1, <2>2 DEF TakeOnce, GatesTypes
<1>12. CASE JudgeEdit(c)
  <2>1. call' \in [Ids -> CallRecord]
    BY <1>1, <1>12 DEF JudgeEdit, Verdicts
  <2>. QED BY <1>12, <2>1 DEF JudgeEdit, GatesTypes, gates, history
<1>13. CASE ReadSaid(c)
  <2>1. {r.what.id : r \in Fresh(said, Ttl, clock)} \subseteq Nat
    BY DEF Fresh, GatesTypes
  <2>2. call' \in [Ids -> CallRecord]
    BY <1>0, <1>13, <2>1 DEF ReadSaid, CallRecord, RecallSteps
  <2>. QED BY <1>13, <2>2 DEF ReadSaid, GatesTypes, gates, history
<1>14. CASE TakeSaid(c)
  <2>1. call' \in [Ids -> CallRecord]
    BY <1>2, <1>14 DEF TakeSaid, RecallSteps
  <2>2. given' \in SUBSET [by : Ids, id : Nat]
    BY <1>0, <1>14 DEF TakeSaid, GatesTypes, CallRecord
  <2>. QED BY <1>14, <2>1, <2>2 DEF TakeSaid, GatesTypes
<1>15. CASE DropPending(c)
  <2>1. call' \in [Ids -> CallRecord]
    BY <1>2, <1>15 DEF DropPending, Verdicts
  <2>. QED BY <1>15, <2>1 DEF DropPending, GatesTypes, history
<1>16. CASE Refuse(c)
  <2>1. call' \in [Ids -> CallRecord]
    BY <1>2, <1>16 DEF Refuse, Verdicts
  <2>2. i.what.nominee \in Jobs
    BY <1>16, <1>20 DEF Refuse, Jobs
  <2>. QED BY <1>3, <1>16, <2>1, <2>2 DEF Refuse, GatesTypes
<1>17. CASE Decide(c)
  <2>1. call' \in [Ids -> CallRecord]
    BY <1>0, <1>17 DEF Decide, CallRecord
  <2>. QED BY <1>17, <2>1 DEF Decide, GatesTypes, gates, history
<1>18. CASE Run(c)
  <2>1. call' \in [Ids -> CallRecord]
    BY <1>0, <1>18 DEF Run, CallRecord
  <2>2. touched' \in [Ids -> SUBSET Nat] /\ bare' \subseteq Ids
    <3>1. \/ touched' = [touched EXCEPT ![c] = {clock}] /\ bare' \in {bare, bare \cup {c}}
          \/ touched' = touched /\ bare' = bare
      BY <1>18, Zenon DEF Run
    <3>2. touched \in [Ids -> SUBSET Nat] /\ bare \subseteq Ids /\ {clock} \in SUBSET Nat
      BY DEF GatesTypes
    <3>. QED BY <3>1, <3>2
  <2>3. UNCHANGED <<plan, clock, gates, misses, refusals, answers, uses, given, crossed>>
    BY <1>18 DEF Run
  <2>. QED BY <2>1, <2>2, <2>3 DEF GatesTypes, gates
<1>19. CASE After(c)
  <2>1. call' \in [Ids -> CallRecord]
    BY <1>0, <1>19 DEF After, CallRecord
  <2>2. misses' \subseteq Ids
    BY <1>19 DEF After, GatesTypes, ChangedSince
  <2>. QED BY <1>19, <2>1, <2>2 DEF After, GatesTypes, gates, history
<1>. QED BY <1>4, <1>5, <1>6, <1>7, <1>8, <1>9, <1>10, <1>11, <1>12, <1>13, <1>14, <1>15, <1>16, <1>17,
           <1>18, <1>19 DEF CallStep

-----------------------------------------------------------------------------
(* Where calls are. *)

\* The call that takes a step is the one that changes.
LEMMA CallAt ==
    ASSUME GatesTypes, NEW c \in Ids, NEW j, call' = [call EXCEPT ![c] = j]
    PROVE  call'[c] = j /\ \A d \in Ids : d # c => call'[d] = call[d]
  BY DEF GatesTypes

\* A call goes through the steps of its kind.
LEMMA ControlStep ==
    ASSUME GatesTypes, NEW c \in Ids, CallControl(call[c]), NEW j, Became(c, j)
    PROVE  CallControl(j)
<1>0. PICK i : i = call[c]
  OBVIOUS
<1>1. CallControl(i) /\ plan.menu \subseteq Menu
  BY <1>0 DEF GatesTypes, Menu
<1>2. CASE Asks(c, j)
  <2>1. j.what \in Menu /\ j.what.kind \in {"author", "answer", "bash", "edit"}
    BY <1>1, <1>2, MenuTypes DEF Asks
  <2>. QED BY <1>2, <2>1 DEF Asks, CallControl, GuardsOf, RecallSteps
<1>3. CASE Declares(c, j)
  <2>1. i.guard = "declare"
    BY <1>0, <1>3 DEF Declares, Declare
  <2>. QED BY <1>0, <1>1, <1>3, <2>1 DEF Declares, CallControl, KeptBut, GuardsOf, RecallSteps
<1>4. CASE Opens(c, j)
  <2>1. i.guard = "open"
    BY <1>0, <1>4 DEF Opens, OpenWindow
  <2>. QED BY <1>0, <1>1, <1>4, <2>1 DEF Opens, CallControl, KeptBut, GuardsOf, RecallSteps
<1>5. CASE Peeks(c, j)
  <2>1. i.guard = "peek"
    BY <1>0, <1>5 DEF Peeks, PeekPending
  <2>2. j.seen \subseteq Jobs
    BY <1>5 DEF Peeks, Fresh, GatesTypes
  <2>. QED BY <1>0, <1>1, <1>5, <2>1, <2>2 DEF Peeks, CallControl, KeptBut, GuardsOf, RecallSteps
<1>6. CASE Says(c, j)
  <2>1. i.guard = "say"
    BY <1>0, <1>6 DEF Says, Say
  <2>. QED BY <1>0, <1>1, <1>6, <2>1 DEF Says, CallControl, KeptBut, GuardsOf, RecallSteps
<1>7. CASE Stamps(c, j)
  <2>1. i.guard = "stamp"
    BY <1>0, <1>7 DEF Stamps, Stamp
  <2>. QED BY <1>0, <1>1, <1>7, <2>1 DEF Stamps, CallControl, KeptBut, GuardsOf, RecallSteps
<1>8. CASE PassesShapes(c, j)
  <2>1. i.guard = "shape"
    BY <1>0, <1>8 DEF PassesShapes, ReadOnce
  <2>. QED BY <1>0, <1>1, <1>8, <2>1 DEF PassesShapes, CallControl, KeptBut, GuardsOf, RecallSteps
<1>9. CASE ReadsOnce(c, j)
  <2>1. i.guard = "shape"
    BY <1>0, <1>9 DEF ReadsOnce, ReadOnce
  <2>2. j.seen \subseteq Ids
    BY <1>9 DEF ReadsOnce, Fresh, GatesTypes
  <2>. QED BY <1>0, <1>1, <1>9, <2>1, <2>2 DEF ReadsOnce, CallControl, KeptBut, GuardsOf, RecallSteps
<1>10. CASE MissesOnce(c, j)
  <2>1. i.guard = "takeOnce"
    BY <1>0, <1>10 DEF MissesOnce, TakeOnce
  <2>. QED BY <1>0, <1>1, <1>10, <2>1 DEF MissesOnce, CallControl, KeptBut, GuardsOf, RecallSteps
<1>11. CASE TakesOnce(c, j)
  <2>1. i.guard = "takeOnce"
    BY <1>0, <1>11 DEF TakesOnce, TakeOnce
  <2>. QED BY <1>0, <1>1, <1>11, <2>1 DEF TakesOnce, CallControl, KeptBut, GuardsOf, RecallSteps
<1>12. CASE JudgesEdit(c, j)
  <2>1. i.guard = "window"
    BY <1>0, <1>12 DEF JudgesEdit, JudgeEdit
  <2>. QED BY <1>0, <1>1, <1>12, <2>1 DEF JudgesEdit, CallControl, KeptBut, GuardsOf, RecallSteps
<1>13. CASE ReadsSaid(c, j)
  <2>1. i.recall = "ask"
    BY <1>0, <1>13 DEF ReadsSaid, ReadSaid
  <2>. QED BY <1>0, <1>1, <1>13, <2>1 DEF ReadsSaid, CallControl, KeptBut, GuardsOf, RecallSteps
<1>14. CASE MissesSaid(c, j)
  <2>1. i.recall = "takeSaid"
    BY <1>0, <1>14 DEF MissesSaid, TakeSaid
  <2>. QED BY <1>0, <1>1, <1>14, <2>1 DEF MissesSaid, CallControl, KeptBut, GuardsOf, RecallSteps
<1>15. CASE TakesSaid(c, j)
  <2>1. i.recall = "takeSaid"
    BY <1>0, <1>15 DEF TakesSaid, TakeSaid
  <2>. QED BY <1>0, <1>1, <1>15, <2>1 DEF TakesSaid, CallControl, KeptBut, GuardsOf, RecallSteps
<1>16. CASE Drops(c, j)
  <2>1. i.recall = "dropPending"
    BY <1>0, <1>16 DEF Drops, DropPending
  <2>. QED BY <1>0, <1>1, <1>16, <2>1 DEF Drops, CallControl, KeptBut, GuardsOf, RecallSteps
<1>17. CASE Refuses(c, j)
  <2>1. i.recall = "refuse"
    BY <1>0, <1>17 DEF Refuses, Refuse
  <2>. QED BY <1>0, <1>1, <1>17, <2>1 DEF Refuses, CallControl, KeptBut, GuardsOf, RecallSteps
<1>18. CASE Decides(c, j)
  <2>1. i.at = "asked" /\ i.guard \in {"allow", "deny"} /\ i.recall \in {"allow", "deny"}
    BY <1>0, <1>18 DEF Decides, Decide
  <2>. QED BY <1>0, <1>1, <1>18, <2>1 DEF Decides, CallControl, KeptBut, GuardsOf
<1>19. CASE Runs(c, j)
  <2>1. i.at = "running"
    BY <1>0, <1>19 DEF Runs, Run
  <2>. QED BY <1>0, <1>1, <1>19, <2>1 DEF Runs, CallControl, KeptBut
<1>20. CASE Ends(c, j)
  <2>1. i.at = "after"
    BY <1>0, <1>20 DEF Ends, After
  <2>. QED BY <1>0, <1>1, <1>20, <2>1 DEF Ends, CallControl, KeptBut
<1>. QED BY <1>2, <1>3, <1>4, <1>5, <1>6, <1>7, <1>8, <1>9, <1>10, <1>11, <1>12, <1>13, <1>14,
            <1>15, <1>16, <1>17, <1>18, <1>19, <1>20 DEF Became

-----------------------------------------------------------------------------
(* Declarations. *)

\* A step keeps what was declared and what the other calls have of it, unless it
\* gives a call that was made another content.
LEMMA CoverKept ==
    ASSUME GatesTypes, Cover, NEW c \in Ids, NEW j, call' = [call EXCEPT ![c] = j],
           call[c].at # "idle" => /\ j.what = call[c].what /\ j.at # "idle"
                                  /\ j.guard = "declare" => call[c].guard = "declare",
           uses \subseteq uses'
    PROVE  /\ \A id, tool : Declared(id, tool) => Declared(id, tool)'
           /\ \A u \in uses : call'[u.id].at # "idle" /\ call'[u.id].guard # "declare"
           /\ \A u \in uses : call'[u.id].what = call[u.id].what
           /\ \A d \in Ids : d # c => Covered(d)'
<1>1. call'[c] = j /\ \A d \in Ids : d # c => call'[d] = call[d]
  BY CallAt
<1>2. ASSUME NEW id, NEW tool, Declared(id, tool)
      PROVE  Declared(id, tool)'
  BY <1>1, <1>2 DEF Declared
<1>3. ASSUME NEW u \in uses
      PROVE  /\ call'[u.id].at # "idle" /\ call'[u.id].guard # "declare"
             /\ call'[u.id].what = call[u.id].what
  <2>1. u.id \in Ids /\ call[u.id].at # "idle" /\ call[u.id].guard # "declare"
    BY DEF Cover, GatesTypes
  <2>. QED BY <1>1, <2>1
<1>4. ASSUME NEW d \in Ids, d # c
      PROVE  Covered(d)'
  <2>1. call'[d] = call[d] /\ Covered(d)
    BY <1>1, <1>4 DEF Cover
  <2>2. \A n \in 1..(call[d].pair - 1) :
          \E u \in uses' : /\ u.by = d /\ u.pair = n
                           /\ Head(call'[u.id].what.tools) = call[d].what.tools[n]
    BY <1>3, <2>1 DEF Covered
  <2>. QED BY <1>2, <2>1, <2>2 DEF Covered
<1>. QED BY <1>2, <1>3, <1>4

\* A step that neither declares nor uses, nor starts to.
LEMMA CoverFrame ==
    ASSUME GatesTypes, Cover, NEW c \in Ids, NEW j, call' = [call EXCEPT ![c] = j],
           call[c].at # "idle", j.what = call[c].what, j.at # "idle", j.pair = call[c].pair,
           j.guard = "declare" => call[c].guard = "declare",
           j.guard = "takeOnce" => call[c].guard = "takeOnce" /\ j.seen = call[c].seen,
           j.what.kind = "edit" /\ j.guard \in {"window", "allow"}
              => call[c].guard \in {"window", "allow"} \/ j.pair > Len(j.what.tools),
           once' \subseteq once, uses' = uses
    PROVE  Cover'
<1>1. call'[c] = j
  BY CallAt
<1>2. /\ \A id, tool : Declared(id, tool) => Declared(id, tool)'
      /\ \A u \in uses : call'[u.id].at # "idle" /\ call'[u.id].guard # "declare"
      /\ \A u \in uses : call'[u.id].what = call[u.id].what
      /\ \A d \in Ids : d # c => Covered(d)'
  BY CoverKept
<1>3. Covered(c)'
  <2>1. Covered(c)
    BY DEF Cover
  <2>2. j.guard = "takeOnce" => /\ j.pair <= Len(j.what.tools) /\ j.seen # {}
                                /\ \A id \in j.seen : Declared(id, j.what.tools[j.pair])'
    BY <1>2, <2>1 DEF Covered
  <2>3. \A n \in 1..(j.pair - 1) :
          \E u \in uses' : /\ u.by = c /\ u.pair = n
                           /\ Head(call'[u.id].what.tools) = j.what.tools[n]
    BY <1>2, <2>1 DEF Covered
  <2>4. j.what.kind = "edit" /\ j.guard \in {"window", "allow"} => j.pair > Len(j.what.tools)
    BY <2>1 DEF Covered
  <2>. QED BY <1>1, <2>2, <2>3, <2>4 DEF Covered
<1>4. \A r \in once' : Declared(r.what.id, r.what.tool)'
  BY <1>2 DEF Cover
<1>. QED BY <1>2, <1>3, <1>4 DEF Cover

\* A pair of texts is passed by a use of a declaration of its tool.
LEMMA CoverStep ==
    ASSUME GatesTypes, Cover, NEW c \in Ids, CallControl(call[c]), NEW j,
           call' = [call EXCEPT ![c] = j], Became(c, j)
    PROVE  Cover'
<1>1. call'[c] = j
  BY CallAt
<1>0. CallControl(call[c])
  OBVIOUS
<1>2. CASE Asks(c, j)
  <2>1. /\ call[c].at = "idle" /\ UNCHANGED <<once, uses>>
        /\ j.at = "asked" /\ j.pair = 1 /\ j.guard \in {"declare", "peek", "stamp", "shape"}
    <3>1. j.what.kind \in {"author", "answer", "bash", "edit"}
      BY <1>2, MenuTypes DEF Asks, GatesTypes, Menu
    <3>. QED BY <1>2, <3>1 DEF Asks, Ask, gates
  <2>2. /\ \A id, tool : Declared(id, tool) => Declared(id, tool)'
        /\ \A u \in uses : call'[u.id].at # "idle" /\ call'[u.id].guard # "declare"
        /\ \A d \in Ids : d # c => Covered(d)'
    BY <2>1, CoverKept
  <2>3. Covered(c)'
    BY <1>1, <2>1 DEF Covered
  <2>. QED BY <2>1, <2>2, <2>3 DEF Cover
<1>3. CASE Declares(c, j)
  <2>1. /\ call[c].at # "idle" /\ j.guard = "open" /\ KeptBut(call[c], j, {"guard"}) /\ uses' = uses
        /\ once' \in {once, {[at |-> clock,
                             what |-> [tool |-> Head(call[c].what.tools), id |-> c]]}}
    BY <1>0, <1>3 DEF Declares, Declare, history, CallControl, Record
  <2>2. /\ j.what = call[c].what /\ j.at = call[c].at /\ j.pair = call[c].pair
    BY <2>1 DEF KeptBut
  <2>3. CASE once' = once
    BY <2>1, <2>2, <2>3, CoverFrame
  <2>4. CASE once' = {[at |-> clock, what |-> [tool |-> Head(call[c].what.tools), id |-> c]]}
    <3>1. /\ \A u \in uses : call'[u.id].at # "idle" /\ call'[u.id].guard # "declare"
          /\ \A u \in uses : call'[u.id].what = call[u.id].what
          /\ \A d \in Ids : d # c => Covered(d)'
      BY <2>1, <2>2, CoverKept
    <3>2. \A r \in once' : Declared(r.what.id, r.what.tool)'
      BY <1>1, <2>1, <2>2, <2>4 DEF Declared
    <3>3. Covered(c)'
      <4>1. Covered(c)
        BY DEF Cover
      <4>2. \A n \in 1..(j.pair - 1) :
              \E u \in uses' : /\ u.by = c /\ u.pair = n
                               /\ Head(call'[u.id].what.tools) = j.what.tools[n]
        BY <2>1, <2>2, <3>1, <4>1 DEF Covered
      <4>. QED BY <1>1, <2>1, <4>2 DEF Covered
    <3>. QED BY <2>1, <3>1, <3>2, <3>3 DEF Cover
  <2>. QED BY <2>1, <2>3, <2>4
<1>4. CASE ReadsOnce(c, j)
  <2>1. /\ call[c].at # "idle" /\ KeptBut(call[c], j, {"guard", "seen"})
        /\ uses' = uses /\ once' = once /\ j.pair <= Len(j.what.tools)
        /\ j.guard \in {"deny", "takeOnce"}
    BY <1>0, <1>4 DEF ReadsOnce, ReadOnce, history, gates, CallControl, KeptBut
  <2>2. j.what = call[c].what /\ j.at = call[c].at /\ j.pair = call[c].pair
    BY <2>1 DEF KeptBut
  <2>3. j.guard = "takeOnce" => j.seen # {}
    BY <1>4 DEF ReadsOnce
  <2>4. /\ \A id, tool : Declared(id, tool) => Declared(id, tool)'
        /\ \A u \in uses : call'[u.id].at # "idle" /\ call'[u.id].guard # "declare"
        /\ \A u \in uses : call'[u.id].what = call[u.id].what
        /\ \A d \in Ids : d # c => Covered(d)'
    BY <2>1, <2>2, CoverKept
  <2>5. \A id \in j.seen : Declared(id, j.what.tools[j.pair])
    <3>1. \A id \in j.seen : \E r \in once : r.what.id = id /\ r.what.tool = j.what.tools[j.pair]
      BY <1>4, <2>2 DEF ReadsOnce, Fresh
    <3>. QED BY <3>1 DEF Cover
  <2>6. Covered(c)'
    <3>1. Covered(c)
      BY DEF Cover
    <3>2. \A n \in 1..(j.pair - 1) :
            \E u \in uses' : /\ u.by = c /\ u.pair = n
                             /\ Head(call'[u.id].what.tools) = j.what.tools[n]
      BY <2>1, <2>2, <2>4, <3>1 DEF Covered
    <3>3. \A id \in j.seen : Declared(id, j.what.tools[j.pair])'
      BY <2>4, <2>5
    <3>. QED BY <1>1, <2>1, <2>3, <3>2, <3>3 DEF Covered
  <2>7. \A r \in once' : Declared(r.what.id, r.what.tool)'
    BY <2>1, <2>4 DEF Cover
  <2>. QED BY <2>1, <2>4, <2>6, <2>7 DEF Cover
<1>5. CASE TakesOnce(c, j)
  <2>1. /\ call[c].guard = "takeOnce" /\ KeptBut(call[c], j, {"guard", "pair", "seen"}) /\ once' = {}
        /\ uses' = uses \cup {[by |-> c, pair |-> call[c].pair, id |-> id] : id \in call[c].seen}
        /\ j.guard = "shape" /\ j.pair = call[c].pair + 1
    BY <1>5 DEF TakesOnce, TakeOnce
  <2>2. j.what = call[c].what /\ j.at = call[c].at /\ call[c].at # "idle"
    BY <1>0, <2>1 DEF KeptBut, CallControl
  <2>3. /\ \A id, tool : Declared(id, tool) => Declared(id, tool)'
        /\ \A u \in uses : call'[u.id].at # "idle" /\ call'[u.id].guard # "declare"
        /\ \A u \in uses : call'[u.id].what = call[u.id].what
        /\ \A d \in Ids : d # c => Covered(d)'
    BY <2>1, <2>2, CoverKept
  <2>8. PICK i : i = call[c]
    OBVIOUS
  <2>9. /\ i.seen # {} /\ i.pair \in Nat
        /\ \A id \in i.seen : Declared(id, i.what.tools[i.pair])
    BY <2>1, <2>8 DEF Cover, Covered, GatesTypes, CallRecord
  <2>4. /\ i.seen # {} /\ i.pair \in Nat
        /\ \A id \in i.seen : Declared(id, i.what.tools[i.pair])'
    BY <2>3, <2>9
  <2>5. \A u \in uses' : call'[u.id].at # "idle" /\ call'[u.id].guard # "declare"
    BY <2>1, <2>3, <2>4, <2>8 DEF Declared
  <2>6. ASSUME NEW n \in 1..(j.pair - 1)
        PROVE  \E u \in uses' : /\ u.by = c /\ u.pair = n
                                /\ Head(call'[u.id].what.tools) = j.what.tools[n]
    <3>1. CASE n = call[c].pair
      <4>1. PICK id \in i.seen : Head(call'[id].what.tools) = j.what.tools[n]
        BY <2>2, <2>4, <2>8, <3>1 DEF Declared
      <4>2. [by |-> c, pair |-> n, id |-> id] \in uses'
        BY <2>1, <2>8, <3>1
      <4>. QED BY <4>1, <4>2
    <3>2. CASE n # call[c].pair
      <4>1. n \in 1..(call[c].pair - 1)
        BY <2>1, <2>4, <2>8, <3>2
      <4>. QED BY <2>1, <2>2, <2>3, <4>1 DEF Cover, Covered
    <3>. QED BY <3>1, <3>2
  <2>7. Covered(c)'
    BY <1>1, <2>1, <2>6 DEF Covered
  <2>. QED BY <2>1, <2>3, <2>5, <2>7 DEF Cover
<1>6. CASE Opens(c, j)
  <2>1. /\ call[c].at # "idle" /\ j.what = call[c].what /\ j.at # "idle" /\ j.pair = call[c].pair
        /\ j.guard = "declare" => call[c].guard = "declare"
        /\ j.guard = "takeOnce" => call[c].guard = "takeOnce" /\ j.seen = call[c].seen
        /\ j.what.kind = "edit" /\ j.guard \in {"window", "allow"}
             => call[c].guard \in {"window", "allow"} \/ j.pair > Len(j.what.tools)
    BY <1>0, <1>6 DEF Opens, OpenWindow, KeptBut, CallControl, GuardsOf
  <2>2. once' \subseteq once /\ uses' = uses
    BY <1>6 DEF Opens, OpenWindow, gates, history
  <2>. QED BY <2>1, <2>2, CoverFrame
<1>7. CASE Peeks(c, j)
  <2>1. /\ call[c].at # "idle" /\ j.what = call[c].what /\ j.at # "idle" /\ j.pair = call[c].pair
        /\ j.guard = "declare" => call[c].guard = "declare"
        /\ j.guard = "takeOnce" => call[c].guard = "takeOnce" /\ j.seen = call[c].seen
        /\ j.what.kind = "edit" /\ j.guard \in {"window", "allow"}
             => call[c].guard \in {"window", "allow"} \/ j.pair > Len(j.what.tools)
    BY <1>0, <1>7 DEF Peeks, PeekPending, KeptBut, CallControl, GuardsOf
  <2>2. once' \subseteq once /\ uses' = uses
    BY <1>7 DEF Peeks, PeekPending, gates, history
  <2>. QED BY <2>1, <2>2, CoverFrame
<1>8. CASE Says(c, j)
  <2>1. /\ call[c].at # "idle" /\ j.what = call[c].what /\ j.at # "idle" /\ j.pair = call[c].pair
        /\ j.guard = "declare" => call[c].guard = "declare"
        /\ j.guard = "takeOnce" => call[c].guard = "takeOnce" /\ j.seen = call[c].seen
        /\ j.what.kind = "edit" /\ j.guard \in {"window", "allow"}
             => call[c].guard \in {"window", "allow"} \/ j.pair > Len(j.what.tools)
    BY <1>0, <1>8 DEF Says, Say, KeptBut, CallControl, GuardsOf
  <2>2. once' \subseteq once /\ uses' = uses
    BY <1>8 DEF Says, Say, gates, history
  <2>. QED BY <2>1, <2>2, CoverFrame
<1>9. CASE Stamps(c, j)
  <2>1. /\ call[c].at # "idle" /\ j.what = call[c].what /\ j.at # "idle" /\ j.pair = call[c].pair
        /\ j.guard = "declare" => call[c].guard = "declare"
        /\ j.guard = "takeOnce" => call[c].guard = "takeOnce" /\ j.seen = call[c].seen
        /\ j.what.kind = "edit" /\ j.guard \in {"window", "allow"}
             => call[c].guard \in {"window", "allow"} \/ j.pair > Len(j.what.tools)
    BY <1>0, <1>9 DEF Stamps, Stamp, KeptBut, CallControl, GuardsOf
  <2>2. once' \subseteq once /\ uses' = uses
    BY <1>9 DEF Stamps, Stamp, gates, history
  <2>. QED BY <2>1, <2>2, CoverFrame
<1>10. CASE PassesShapes(c, j)
  <2>1. /\ call[c].at # "idle" /\ j.what = call[c].what /\ j.at # "idle" /\ j.pair = call[c].pair
        /\ j.guard = "declare" => call[c].guard = "declare"
        /\ j.guard = "takeOnce" => call[c].guard = "takeOnce" /\ j.seen = call[c].seen
        /\ j.what.kind = "edit" /\ j.guard \in {"window", "allow"}
             => call[c].guard \in {"window", "allow"} \/ j.pair > Len(j.what.tools)
    BY <1>0, <1>10 DEF PassesShapes, ReadOnce, KeptBut, CallControl, GuardsOf
  <2>2. once' \subseteq once /\ uses' = uses
    BY <1>10 DEF PassesShapes, ReadOnce, gates, history
  <2>. QED BY <2>1, <2>2, CoverFrame
<1>11. CASE MissesOnce(c, j)
  <2>1. /\ call[c].at # "idle" /\ j.what = call[c].what /\ j.at # "idle" /\ j.pair = call[c].pair
        /\ j.guard = "declare" => call[c].guard = "declare"
        /\ j.guard = "takeOnce" => call[c].guard = "takeOnce" /\ j.seen = call[c].seen
        /\ j.what.kind = "edit" /\ j.guard \in {"window", "allow"}
             => call[c].guard \in {"window", "allow"} \/ j.pair > Len(j.what.tools)
    BY <1>0, <1>11 DEF MissesOnce, TakeOnce, KeptBut, CallControl, GuardsOf
  <2>2. once' \subseteq once /\ uses' = uses
    BY <1>11 DEF MissesOnce, TakeOnce, gates, history
  <2>. QED BY <2>1, <2>2, CoverFrame
<1>12. CASE JudgesEdit(c, j)
  <2>1. /\ call[c].at # "idle" /\ j.what = call[c].what /\ j.at # "idle" /\ j.pair = call[c].pair
        /\ j.guard = "declare" => call[c].guard = "declare"
        /\ j.guard = "takeOnce" => call[c].guard = "takeOnce" /\ j.seen = call[c].seen
        /\ j.what.kind = "edit" /\ j.guard \in {"window", "allow"}
             => call[c].guard \in {"window", "allow"} \/ j.pair > Len(j.what.tools)
    BY <1>0, <1>12 DEF JudgesEdit, JudgeEdit, KeptBut, CallControl, GuardsOf
  <2>2. once' \subseteq once /\ uses' = uses
    BY <1>12 DEF JudgesEdit, JudgeEdit, gates, history
  <2>. QED BY <2>1, <2>2, CoverFrame
<1>13. CASE ReadsSaid(c, j)
  <2>1. /\ call[c].at # "idle" /\ j.what = call[c].what /\ j.at # "idle" /\ j.pair = call[c].pair
        /\ j.guard = "declare" => call[c].guard = "declare"
        /\ j.guard = "takeOnce" => call[c].guard = "takeOnce" /\ j.seen = call[c].seen
        /\ j.what.kind = "edit" /\ j.guard \in {"window", "allow"}
             => call[c].guard \in {"window", "allow"} \/ j.pair > Len(j.what.tools)
    BY <1>0, <1>13 DEF ReadsSaid, ReadSaid, KeptBut, CallControl, GuardsOf
  <2>2. once' \subseteq once /\ uses' = uses
    BY <1>13 DEF ReadsSaid, ReadSaid, gates, history
  <2>. QED BY <2>1, <2>2, CoverFrame
<1>14. CASE MissesSaid(c, j)
  <2>1. /\ call[c].at # "idle" /\ j.what = call[c].what /\ j.at # "idle" /\ j.pair = call[c].pair
        /\ j.guard = "declare" => call[c].guard = "declare"
        /\ j.guard = "takeOnce" => call[c].guard = "takeOnce" /\ j.seen = call[c].seen
        /\ j.what.kind = "edit" /\ j.guard \in {"window", "allow"}
             => call[c].guard \in {"window", "allow"} \/ j.pair > Len(j.what.tools)
    BY <1>0, <1>14 DEF MissesSaid, TakeSaid, KeptBut, CallControl, GuardsOf
  <2>2. once' \subseteq once /\ uses' = uses
    BY <1>14 DEF MissesSaid, TakeSaid, gates, history
  <2>. QED BY <2>1, <2>2, CoverFrame
<1>15. CASE TakesSaid(c, j)
  <2>1. /\ call[c].at # "idle" /\ j.what = call[c].what /\ j.at # "idle" /\ j.pair = call[c].pair
        /\ j.guard = "declare" => call[c].guard = "declare"
        /\ j.guard = "takeOnce" => call[c].guard = "takeOnce" /\ j.seen = call[c].seen
        /\ j.what.kind = "edit" /\ j.guard \in {"window", "allow"}
             => call[c].guard \in {"window", "allow"} \/ j.pair > Len(j.what.tools)
    BY <1>0, <1>15 DEF TakesSaid, TakeSaid, KeptBut, CallControl, GuardsOf
  <2>2. once' \subseteq once /\ uses' = uses
    BY <1>15 DEF TakesSaid, TakeSaid, gates, history
  <2>. QED BY <2>1, <2>2, CoverFrame
<1>16. CASE Drops(c, j)
  <2>1. /\ call[c].at # "idle" /\ j.what = call[c].what /\ j.at # "idle" /\ j.pair = call[c].pair
        /\ j.guard = "declare" => call[c].guard = "declare"
        /\ j.guard = "takeOnce" => call[c].guard = "takeOnce" /\ j.seen = call[c].seen
        /\ j.what.kind = "edit" /\ j.guard \in {"window", "allow"}
             => call[c].guard \in {"window", "allow"} \/ j.pair > Len(j.what.tools)
    BY <1>0, <1>16 DEF Drops, DropPending, KeptBut, CallControl, GuardsOf
  <2>2. once' \subseteq once /\ uses' = uses
    BY <1>16 DEF Drops, DropPending, gates, history
  <2>. QED BY <2>1, <2>2, CoverFrame
<1>17. CASE Refuses(c, j)
  <2>1. /\ call[c].at # "idle" /\ j.what = call[c].what /\ j.at # "idle" /\ j.pair = call[c].pair
        /\ j.guard = "declare" => call[c].guard = "declare"
        /\ j.guard = "takeOnce" => call[c].guard = "takeOnce" /\ j.seen = call[c].seen
        /\ j.what.kind = "edit" /\ j.guard \in {"window", "allow"}
             => call[c].guard \in {"window", "allow"} \/ j.pair > Len(j.what.tools)
    BY <1>0, <1>17 DEF Refuses, Refuse, KeptBut, CallControl, GuardsOf
  <2>2. once' \subseteq once /\ uses' = uses
    BY <1>17 DEF Refuses, Refuse, gates, history
  <2>. QED BY <2>1, <2>2, CoverFrame
<1>18. CASE Decides(c, j)
  <2>1. /\ call[c].at # "idle" /\ j.what = call[c].what /\ j.at # "idle" /\ j.pair = call[c].pair
        /\ j.guard = "declare" => call[c].guard = "declare"
        /\ j.guard = "takeOnce" => call[c].guard = "takeOnce" /\ j.seen = call[c].seen
        /\ j.what.kind = "edit" /\ j.guard \in {"window", "allow"}
             => call[c].guard \in {"window", "allow"} \/ j.pair > Len(j.what.tools)
    BY <1>0, <1>18 DEF Decides, Decide, KeptBut, CallControl, GuardsOf
  <2>2. once' \subseteq once /\ uses' = uses
    BY <1>18 DEF Decides, Decide, gates, history
  <2>. QED BY <2>1, <2>2, CoverFrame
<1>19. CASE Runs(c, j)
  <2>1. /\ call[c].at # "idle" /\ j.what = call[c].what /\ j.at # "idle" /\ j.pair = call[c].pair
        /\ j.guard = "declare" => call[c].guard = "declare"
        /\ j.guard = "takeOnce" => call[c].guard = "takeOnce" /\ j.seen = call[c].seen
        /\ j.what.kind = "edit" /\ j.guard \in {"window", "allow"}
             => call[c].guard \in {"window", "allow"} \/ j.pair > Len(j.what.tools)
    BY <1>0, <1>19 DEF Runs, Run, KeptBut, CallControl, GuardsOf
  <2>2. once' \subseteq once /\ uses' = uses
    BY <1>19 DEF Runs, Run, gates, history
  <2>. QED BY <2>1, <2>2, CoverFrame
<1>20. CASE Ends(c, j)
  <2>1. /\ call[c].at # "idle" /\ j.what = call[c].what /\ j.at # "idle" /\ j.pair = call[c].pair
        /\ j.guard = "declare" => call[c].guard = "declare"
        /\ j.guard = "takeOnce" => call[c].guard = "takeOnce" /\ j.seen = call[c].seen
        /\ j.what.kind = "edit" /\ j.guard \in {"window", "allow"}
             => call[c].guard \in {"window", "allow"} \/ j.pair > Len(j.what.tools)
    BY <1>0, <1>20 DEF Ends, After, KeptBut, CallControl, GuardsOf
  <2>2. once' \subseteq once /\ uses' = uses
    BY <1>20 DEF Ends, After, gates, history
  <2>. QED BY <2>1, <2>2, CoverFrame
<1>. QED BY <1>2, <1>3, <1>4, <1>5, <1>6, <1>7, <1>8, <1>9, <1>10, <1>11, <1>12, <1>13, <1>14,
            <1>15, <1>16, <1>17, <1>18, <1>19, <1>20 DEF Became

-----------------------------------------------------------------------------
(* Calls that follow each other. *)

\* Any step but the first is one of a call under way, which stays the call it is.
LEMMA CallGoesOn ==
    ASSUME NEW c \in Ids, CallControl(call[c]), NEW j, Became(c, j), ~Asks(c, j)
    PROVE  /\ Asked(c) /\ crossed' = crossed
           /\ j.what = call[c].what /\ j.at # "idle"
<1>0. CallControl(call[c])
  OBVIOUS
<1>1. CASE Declares(c, j)
  BY <1>0, <1>1 DEF Declares, Declare, KeptBut, CallControl, Asked, history
<1>2. CASE Opens(c, j)
  BY <1>0, <1>2 DEF Opens, OpenWindow, KeptBut, CallControl, Asked, history
<1>3. CASE Peeks(c, j)
  BY <1>0, <1>3 DEF Peeks, PeekPending, KeptBut, CallControl, Asked, history
<1>4. CASE Says(c, j)
  BY <1>0, <1>4 DEF Says, Say, KeptBut, CallControl, Asked, history
<1>5. CASE Stamps(c, j)
  BY <1>0, <1>5 DEF Stamps, Stamp, KeptBut, CallControl, Asked, history
<1>6. CASE PassesShapes(c, j)
  BY <1>0, <1>6 DEF PassesShapes, ReadOnce, KeptBut, CallControl, Asked, history
<1>7. CASE ReadsOnce(c, j)
  BY <1>0, <1>7 DEF ReadsOnce, ReadOnce, KeptBut, CallControl, Asked, history
<1>8. CASE MissesOnce(c, j)
  BY <1>0, <1>8 DEF MissesOnce, TakeOnce, KeptBut, CallControl, Asked, history
<1>9. CASE TakesOnce(c, j)
  BY <1>0, <1>9 DEF TakesOnce, TakeOnce, KeptBut, CallControl, Asked, history
<1>10. CASE JudgesEdit(c, j)
  BY <1>0, <1>10 DEF JudgesEdit, JudgeEdit, KeptBut, CallControl, Asked, history
<1>11. CASE ReadsSaid(c, j)
  BY <1>0, <1>11 DEF ReadsSaid, ReadSaid, KeptBut, CallControl, Asked, history
<1>12. CASE MissesSaid(c, j)
  BY <1>0, <1>12 DEF MissesSaid, TakeSaid, KeptBut, CallControl, Asked, history
<1>13. CASE TakesSaid(c, j)
  BY <1>0, <1>13 DEF TakesSaid, TakeSaid, KeptBut, CallControl, Asked, history
<1>14. CASE Drops(c, j)
  BY <1>0, <1>14 DEF Drops, DropPending, KeptBut, CallControl, Asked, history
<1>15. CASE Refuses(c, j)
  BY <1>0, <1>15 DEF Refuses, Refuse, KeptBut, CallControl, Asked, history
<1>16. CASE Decides(c, j)
  BY <1>0, <1>16 DEF Decides, Decide, KeptBut, CallControl, Asked, history
<1>17. CASE Runs(c, j)
  BY <1>0, <1>17 DEF Runs, Run, KeptBut, CallControl, Asked, history
<1>18. CASE Ends(c, j)
  BY <1>0, <1>18 DEF Ends, After, KeptBut, CallControl, Asked, history
<1>. QED BY <1>1, <1>2, <1>3, <1>4, <1>5, <1>6, <1>7, <1>8, <1>9, <1>10, <1>11, <1>12, <1>13,
            <1>14, <1>15, <1>16, <1>17, <1>18 DEF Became

\* A second call begins only where calls have crossed.
LEMMA AskedStep ==
    ASSUME GatesTypes, OneAsked, NEW c \in Ids, CallControl(call[c]), NEW j,
           call' = [call EXCEPT ![c] = j], Became(c, j)
    PROVE  OneAsked'
<1>1. call'[c] = j /\ \A d \in Ids : d # c => call'[d] = call[d]
  BY CallAt
<1>2. CASE Asks(c, j)
  <2>1. crossed' = (crossed \/ \E d \in Ids : Asked(d))
    BY <1>2 DEF Asks, Ask
  <2>. QED BY <1>1, <2>1 DEF OneAsked, Asked
<1>3. CASE ~Asks(c, j)
  <2>1. Asked(c) /\ crossed' = crossed
    BY <1>3, CallGoesOn
  <2>2. \A d \in Ids : Asked(d)' => Asked(d)
    BY <1>1, <2>1 DEF Asked
  <2>. QED BY <2>1, <2>2 DEF OneAsked
<1>. QED BY <1>2, <1>3

\* While calls follow each other, the one that takes a step is the only one
\* whose guard is at work.
LEMMA OthersRest ==
    ASSUME GatesTypes, OneAsked, \A d \in Ids : CallControl(call[d]), ~crossed,
           NEW c \in Ids, Asked(c)
    PROVE  \A d \in Ids : d # c => /\ call[d].guard \in {"idle", "allow", "deny"}
                                   /\ call[d].recall \in {"idle", "allow", "deny"}
                                   /\ call[d].at \in {"idle", "done", "refused"}
  BY DEF OneAsked, Asked, CallControl, GatesTypes, CallRecord

\* Between a read of a declaration and its removal nobody else removes it.
LEMMA UnusedStep ==
    ASSUME GatesTypes, \A d \in Ids : CallControl(call[d]), Cover, OneAsked, Unused,
           NEW c \in Ids, NEW j, call' = [call EXCEPT ![c] = j], Became(c, j)
    PROVE  Unused'
<1>. SUFFICES ASSUME ~crossed'
              PROVE  /\ \A r \in once', u \in uses' : r.what.id # u.id
                     /\ \A d \in Ids : call'[d].guard = "takeOnce"
                                         => call'[d].seen \subseteq {r.what.id : r \in once'}
                     /\ \A u, v \in uses' : u.id = v.id => u = v
  BY DEF Unused
<1>1. call'[c] = j /\ \A d \in Ids : d # c => call'[d] = call[d]
  BY CallAt
<1>2. CASE Asks(c, j)
  <2>1. /\ UNCHANGED <<once, uses>> /\ ~crossed
        /\ j.guard \in {"declare", "peek", "stamp", "shape"}
    <3>1. j.what.kind \in {"author", "answer", "bash", "edit"}
      BY <1>2, MenuTypes DEF Asks, GatesTypes, Menu
    <3>. QED BY <1>2, <3>1 DEF Asks, Ask, gates
  <2>. QED BY <1>1, <2>1 DEF Unused
<1>3. CASE ~Asks(c, j)
  <2>0. Asked(c) /\ ~crossed
    BY <1>3, CallGoesOn
  <2>1. \A d \in Ids : d # c => call'[d].guard # "takeOnce"
    BY <1>1, <2>0, OthersRest
  <2>2. /\ \A r \in once, u \in uses : r.what.id # u.id
        /\ call[c].guard = "takeOnce" => call[c].seen \subseteq {r.what.id : r \in once}
        /\ \A u, v \in uses : u.id = v.id => u = v
    BY <2>0 DEF Unused
  <2>3. ASSUME once' \subseteq once, uses' = uses,
               j.guard = "takeOnce" => j.seen \subseteq {r.what.id : r \in once'}
        PROVE  /\ \A r \in once', u \in uses' : r.what.id # u.id
               /\ \A d \in Ids : call'[d].guard = "takeOnce"
                                   => call'[d].seen \subseteq {r.what.id : r \in once'}
               /\ \A u, v \in uses' : u.id = v.id => u = v
    BY <1>1, <2>1, <2>2, <2>3
  <2>4. CASE Declares(c, j)
    <3>1. /\ uses' = uses /\ j.guard = "open" /\ call[c].guard = "declare"
          /\ \A r \in once' : r \in once \/ r.what.id = c
      BY <2>4 DEF Declares, Declare, history, Record
    <3>2. \A u \in uses : u.id # c
      BY <3>1 DEF Cover
    <3>. QED BY <1>1, <2>1, <2>2, <3>1, <3>2
  <2>5. CASE ReadsOnce(c, j)
    <3>1. once' = once /\ uses' = uses
      BY <2>5 DEF ReadsOnce, ReadOnce, gates, history
    <3>2. j.seen \subseteq {r.what.id : r \in once}
      BY <2>5 DEF ReadsOnce, Fresh
    <3>. QED BY <2>3, <3>1, <3>2
  <2>6. CASE TakesOnce(c, j)
    <3>1. /\ call[c].guard = "takeOnce" /\ once' = {} /\ j.guard = "shape"
          /\ uses' = uses \cup {[by |-> c, pair |-> call[c].pair, id |-> id] : id \in call[c].seen}
      BY <2>6 DEF TakesOnce, TakeOnce
    <3>2. \A id \in call[c].seen, u \in uses : u.id # id
      BY <2>2, <3>1
    <3>3. \A u, v \in uses' : u.id = v.id => u = v
      BY <2>2, <3>1, <3>2
    <3>. QED BY <1>1, <2>1, <3>1, <3>3
  <2>7. CASE MissesOnce(c, j)
    <3>1. once' \subseteq once /\ uses' = uses /\ j.guard = "deny"
      BY <2>7 DEF MissesOnce, TakeOnce
    <3>. QED BY <2>3, <3>1
  <2>8. CASE Opens(c, j)
    <3>1. /\ once' = once /\ uses' = uses
          /\ j.guard = "takeOnce" => call[c].guard = "takeOnce" /\ j.seen = call[c].seen
      BY <2>8 DEF Opens, OpenWindow, KeptBut, gates, history
    <3>. QED BY <2>2, <2>3, <3>1
  <2>9. CASE Peeks(c, j)
    <3>1. /\ once' = once /\ uses' = uses
          /\ j.guard = "takeOnce" => call[c].guard = "takeOnce" /\ j.seen = call[c].seen
      BY <2>9 DEF Peeks, PeekPending, KeptBut, gates, history
    <3>. QED BY <2>2, <2>3, <3>1
  <2>10. CASE Says(c, j)
    <3>1. /\ once' = once /\ uses' = uses
          /\ j.guard = "takeOnce" => call[c].guard = "takeOnce" /\ j.seen = call[c].seen
      BY <2>10 DEF Says, Say, KeptBut, gates, history
    <3>. QED BY <2>2, <2>3, <3>1
  <2>11. CASE Stamps(c, j)
    <3>1. /\ once' = once /\ uses' = uses
          /\ j.guard = "takeOnce" => call[c].guard = "takeOnce" /\ j.seen = call[c].seen
      BY <2>11 DEF Stamps, Stamp, KeptBut, gates, history
    <3>. QED BY <2>2, <2>3, <3>1
  <2>12. CASE PassesShapes(c, j)
    <3>1. /\ once' = once /\ uses' = uses
          /\ j.guard = "takeOnce" => call[c].guard = "takeOnce" /\ j.seen = call[c].seen
      BY <2>12 DEF PassesShapes, ReadOnce, KeptBut, gates, history
    <3>. QED BY <2>2, <2>3, <3>1
  <2>13. CASE JudgesEdit(c, j)
    <3>1. /\ once' = once /\ uses' = uses
          /\ j.guard = "takeOnce" => call[c].guard = "takeOnce" /\ j.seen = call[c].seen
      BY <2>13 DEF JudgesEdit, JudgeEdit, KeptBut, gates, history
    <3>. QED BY <2>2, <2>3, <3>1
  <2>14. CASE ReadsSaid(c, j)
    <3>1. /\ once' = once /\ uses' = uses
          /\ j.guard = "takeOnce" => call[c].guard = "takeOnce" /\ j.seen = call[c].seen
      BY <2>14 DEF ReadsSaid, ReadSaid, KeptBut, gates, history
    <3>. QED BY <2>2, <2>3, <3>1
  <2>15. CASE MissesSaid(c, j)
    <3>1. /\ once' = once /\ uses' = uses
          /\ j.guard = "takeOnce" => call[c].guard = "takeOnce" /\ j.seen = call[c].seen
      BY <2>15 DEF MissesSaid, TakeSaid, KeptBut, gates, history
    <3>. QED BY <2>2, <2>3, <3>1
  <2>16. CASE TakesSaid(c, j)
    <3>1. /\ once' = once /\ uses' = uses
          /\ j.guard = "takeOnce" => call[c].guard = "takeOnce" /\ j.seen = call[c].seen
      BY <2>16 DEF TakesSaid, TakeSaid, KeptBut, gates, history
    <3>. QED BY <2>2, <2>3, <3>1
  <2>17. CASE Drops(c, j)
    <3>1. /\ once' = once /\ uses' = uses
          /\ j.guard = "takeOnce" => call[c].guard = "takeOnce" /\ j.seen = call[c].seen
      BY <2>17 DEF Drops, DropPending, KeptBut, gates, history
    <3>. QED BY <2>2, <2>3, <3>1
  <2>18. CASE Refuses(c, j)
    <3>1. /\ once' = once /\ uses' = uses
          /\ j.guard = "takeOnce" => call[c].guard = "takeOnce" /\ j.seen = call[c].seen
      BY <2>18 DEF Refuses, Refuse, KeptBut, gates, history
    <3>. QED BY <2>2, <2>3, <3>1
  <2>19. CASE Decides(c, j)
    <3>1. /\ once' = once /\ uses' = uses
          /\ j.guard = "takeOnce" => call[c].guard = "takeOnce" /\ j.seen = call[c].seen
      BY <2>19 DEF Decides, Decide, KeptBut, gates, history
    <3>. QED BY <2>2, <2>3, <3>1
  <2>20. CASE Runs(c, j)
    <3>1. /\ once' = once /\ uses' = uses
          /\ j.guard = "takeOnce" => call[c].guard = "takeOnce" /\ j.seen = call[c].seen
      BY <2>20 DEF Runs, Run, KeptBut, gates, history
    <3>. QED BY <2>2, <2>3, <3>1
  <2>21. CASE Ends(c, j)
    <3>1. /\ once' = once /\ uses' = uses
          /\ j.guard = "takeOnce" => call[c].guard = "takeOnce" /\ j.seen = call[c].seen
      BY <2>21 DEF Ends, After, KeptBut, gates, history
    <3>. QED BY <2>2, <2>3, <3>1
  <2>. QED BY <1>3, <2>4, <2>5, <2>6, <2>7, <2>8, <2>9, <2>10, <2>11, <2>12, <2>13, <2>14,
              <2>15, <2>16, <2>17, <2>18, <2>19, <2>20, <2>21 DEF Became
<1>. QED BY <1>2, <1>3

-----------------------------------------------------------------------------
(* Answers. *)

\* What was heard stays an answer, what was used stays used.
LEMMA HeardKept ==
    ASSUME GatesTypes, Answered, NEW c \in Ids, NEW j, call' = [call EXCEPT ![c] = j],
           DOMAIN answers \subseteq DOMAIN answers', given \subseteq given',
           j.heard \subseteq DOMAIN answers', j.recall = "takeSaid" => j.heard # {},
           j.at # "idle" /\ j.what.nominee # NoNominee /\ j.recall \in {"dropPending", "allow"}
             => \E g \in given' : g.by = c
    PROVE  \A d \in Ids : Heard(d)'
<1>1. call'[c] = j /\ \A d \in Ids : d # c => call'[d] = call[d]
  BY CallAt
<1>2. Heard(c)'
  BY <1>1 DEF Heard
<1>3. ASSUME NEW d \in Ids, d # c
      PROVE  Heard(d)'
  <2>1. call'[d] = call[d] /\ Heard(d)
    BY <1>1, <1>3 DEF Answered
  <2>. QED BY <2>1 DEF Heard
<1>. QED BY <1>2, <1>3

\* The files hold the last refusal and the last answer.
LEMMA AnsweredStep ==
    ASSUME GatesTypes, Answered, NEW c \in Ids, CallControl(call[c]), NEW j,
           call' = [call EXCEPT ![c] = j], Became(c, j)
    PROVE  Answered'
<1>0. /\ CallControl(call[c]) /\ Heard(c)
      /\ answers \in Seq([job : Jobs, to : Nat]) /\ refusals \in Seq(Jobs)
  BY DEF Answered, GatesTypes
<1>1. ASSUME UNCHANGED <<pending, refusals, said, answers, given>>, \A d \in Ids : Heard(d)'
      PROVE  Answered'
  BY <1>1 DEF Answered
<1>2. CASE Asks(c, j)
  <2>1. UNCHANGED <<pending, refusals, said, answers, given>>
    BY <1>2 DEF Asks, Ask, gates
  <2>2. /\ j.heard = {} /\ j.recall # "takeSaid"
        /\ j.what.nominee # NoNominee => j.recall \notin {"dropPending", "allow"}
    BY <1>2 DEF Asks
  <2>3. \A d \in Ids : Heard(d)'
    BY <2>1, <2>2, HeardKept
  <2>. QED BY <1>1, <2>1, <2>3
<1>3. CASE Says(c, j)
  <2>1. PICK job : /\ said' = {[at |-> clock, what |-> [job |-> job, id |-> Len(answers) + 1]]}
                   /\ answers' = answers \o <<[job |-> job, to |-> Len(refusals)]>>
    BY <1>3 DEF Says, Say, Record
  <2>2. UNCHANGED <<pending, refusals, given>>
    BY <1>3 DEF Says, Say
  <2>3. Len(answers') = Len(answers) + 1 /\ DOMAIN answers' = 1..(Len(answers) + 1)
    BY <1>0, <2>1
  <2>4. /\ j.heard = call[c].heard /\ j.recall = call[c].recall /\ j.what = call[c].what
        /\ j.at = call[c].at
    BY <1>3 DEF Says, KeptBut
  <2>5. DOMAIN answers \subseteq DOMAIN answers' /\ answers' # <<>>
    BY <1>0, <2>1, <2>3
  <2>6. \A d \in Ids : Heard(d)'
    BY <1>0, <2>2, <2>4, <2>5, HeardKept DEF Heard
  <2>7. \A r \in said' : r.what.id = Len(answers')
    BY <2>1, <2>3
  <2>. QED BY <2>2, <2>5, <2>6, <2>7 DEF Answered
<1>4. CASE ReadsSaid(c, j)
  <2>1. UNCHANGED <<pending, refusals, said, answers, given>>
    BY <1>4 DEF ReadsSaid, ReadSaid, gates, history
  <2>2. j.recall \in {"refuse", "takeSaid"} /\ (j.recall = "takeSaid" => j.heard # {})
    BY <1>4 DEF ReadsSaid
  <2>3. j.heard \subseteq DOMAIN answers
    <3>1. \A r \in said : r.what.id \in DOMAIN answers
      BY <1>0 DEF Answered
    <3>. QED BY <1>4, <3>1 DEF ReadsSaid, Fresh
  <2>4. \A d \in Ids : Heard(d)'
    BY <2>1, <2>2, <2>3, HeardKept
  <2>. QED BY <1>1, <2>1, <2>4
<1>5. CASE TakesSaid(c, j)
  <2>1. /\ UNCHANGED <<pending, refusals, answers>> /\ said' = {} /\ call[c].recall = "takeSaid"
        /\ given' = given \cup {[by |-> c, id |-> id] : id \in call[c].heard}
    BY <1>5 DEF TakesSaid, TakeSaid
  <2>2. j.heard = call[c].heard /\ j.recall = "dropPending"
    BY <1>5 DEF TakesSaid, KeptBut
  <2>3. call[c].heard # {} /\ call[c].heard \subseteq DOMAIN answers
    BY <1>0, <2>1 DEF Heard
  <2>4. \E g \in given' : g.by = c
    <3>1. PICK id : id \in call[c].heard
      BY <2>3
    <3>2. [by |-> c, id |-> id] \in given'
      BY <2>1, <3>1
    <3>. QED BY <3>2
  <2>5. \A d \in Ids : Heard(d)'
    BY <2>1, <2>2, <2>3, <2>4, HeardKept
  <2>6. \A g \in given' : g.id \in DOMAIN answers
    BY <2>1, <2>3 DEF Answered
  <2>. QED BY <2>1, <2>5, <2>6 DEF Answered
<1>6. CASE MissesSaid(c, j)
  <2>1. UNCHANGED <<pending, refusals, answers, given>> /\ said' = {}
    BY <1>6 DEF MissesSaid, TakeSaid
  <2>2. j.heard = call[c].heard /\ j.recall = "refuse"
    BY <1>6 DEF MissesSaid, KeptBut
  <2>3. \A d \in Ids : Heard(d)'
    BY <1>0, <2>1, <2>2, HeardKept DEF Heard
  <2>. QED BY <2>1, <2>3 DEF Answered
<1>7. CASE Drops(c, j)
  <2>1. UNCHANGED <<refusals, said, answers, given>> /\ pending' = {} /\ call[c].recall = "dropPending"
    BY <1>7 DEF Drops, DropPending, history
  <2>2. j.heard = call[c].heard /\ j.recall = "allow" /\ j.what = call[c].what /\ j.at = call[c].at
    BY <1>7 DEF Drops, KeptBut
  <2>3. \A d \in Ids : Heard(d)'
    BY <1>0, <2>1, <2>2, HeardKept DEF Heard
  <2>. QED BY <2>1, <2>3 DEF Answered
<1>8. CASE Refuses(c, j)
  <2>1. PICK job : /\ pending' = {[at |-> clock, what |-> job]}
                   /\ refusals' = refusals \o <<job>> /\ job = call[c].what.nominee
    BY <1>8 DEF Refuses, Refuse, Record
  <2>2. UNCHANGED <<said, answers, given>> /\ call[c].recall = "refuse"
    BY <1>8 DEF Refuses, Refuse
  <2>3. j.heard = call[c].heard /\ j.recall = "deny"
    BY <1>8 DEF Refuses, KeptBut
  <2>4. \A d \in Ids : Heard(d)'
    BY <1>0, <2>2, <2>3, HeardKept DEF Heard
  <2>5. job \in Jobs
    BY <1>0, <2>1, <2>2 DEF CallControl, Jobs
  <2>6. refusals' # <<>> /\ refusals'[Len(refusals')] = job
    BY <1>0, <2>1, <2>5
  <2>. QED BY <2>1, <2>2, <2>4, <2>6 DEF Answered
<1>9. CASE Decides(c, j)
  <2>1. UNCHANGED <<pending, refusals, said, answers, given>> /\ call[c].at = "asked"
    BY <1>9 DEF Decides, Decide, gates, history
  <2>2. j.heard = {} /\ j.recall = call[c].recall /\ j.recall # "takeSaid" /\ j.what = call[c].what
    BY <1>9 DEF Decides, Decide, KeptBut
  <2>3. \A d \in Ids : Heard(d)'
    BY <1>0, <2>1, <2>2, HeardKept DEF Heard
  <2>. QED BY <1>1, <2>1, <2>3
<1>10. ASSUME UNCHANGED <<pending, refusals, said, answers, given>>, call[c].at # "idle",
              j.heard = call[c].heard, j.recall = call[c].recall, j.what = call[c].what
       PROVE  Answered'
  <2>1. \A d \in Ids : Heard(d)'
    BY <1>0, <1>10, HeardKept DEF Heard
  <2>. QED BY <1>1, <1>10, <2>1
<1>11. CASE Declares(c, j)
  <2>1. UNCHANGED <<pending, refusals, said, answers, given>> /\ call[c].at # "idle"
    BY <1>0, <1>11 DEF Declares, Declare, gates, history, CallControl
  <2>2. j.heard = call[c].heard /\ j.recall = call[c].recall /\ j.what = call[c].what
    BY <1>11 DEF Declares, KeptBut
  <2>. QED BY <1>10, <2>1, <2>2
<1>12. CASE Opens(c, j)
  <2>1. UNCHANGED <<pending, refusals, said, answers, given>> /\ call[c].at # "idle"
    BY <1>0, <1>12 DEF Opens, OpenWindow, gates, history, CallControl
  <2>2. j.heard = call[c].heard /\ j.recall = call[c].recall /\ j.what = call[c].what
    BY <1>12 DEF Opens, KeptBut
  <2>. QED BY <1>10, <2>1, <2>2
<1>13. CASE Peeks(c, j)
  <2>1. UNCHANGED <<pending, refusals, said, answers, given>> /\ call[c].at # "idle"
    BY <1>0, <1>13 DEF Peeks, PeekPending, gates, history, CallControl
  <2>2. j.heard = call[c].heard /\ j.recall = call[c].recall /\ j.what = call[c].what
    BY <1>13 DEF Peeks, KeptBut
  <2>. QED BY <1>10, <2>1, <2>2
<1>14. CASE Stamps(c, j)
  <2>1. UNCHANGED <<pending, refusals, said, answers, given>> /\ call[c].at # "idle"
    BY <1>0, <1>14 DEF Stamps, Stamp, gates, history, CallControl
  <2>2. j.heard = call[c].heard /\ j.recall = call[c].recall /\ j.what = call[c].what
    BY <1>14 DEF Stamps, KeptBut
  <2>. QED BY <1>10, <2>1, <2>2
<1>15. CASE PassesShapes(c, j)
  <2>1. UNCHANGED <<pending, refusals, said, answers, given>> /\ call[c].at # "idle"
    BY <1>0, <1>15 DEF PassesShapes, ReadOnce, gates, history, CallControl
  <2>2. j.heard = call[c].heard /\ j.recall = call[c].recall /\ j.what = call[c].what
    BY <1>15 DEF PassesShapes, KeptBut
  <2>. QED BY <1>10, <2>1, <2>2
<1>16. CASE ReadsOnce(c, j)
  <2>1. UNCHANGED <<pending, refusals, said, answers, given>> /\ call[c].at # "idle"
    BY <1>0, <1>16 DEF ReadsOnce, ReadOnce, gates, history, CallControl
  <2>2. j.heard = call[c].heard /\ j.recall = call[c].recall /\ j.what = call[c].what
    BY <1>16 DEF ReadsOnce, KeptBut
  <2>. QED BY <1>10, <2>1, <2>2
<1>17. CASE MissesOnce(c, j)
  <2>1. UNCHANGED <<pending, refusals, said, answers, given>> /\ call[c].at # "idle"
    BY <1>0, <1>17 DEF MissesOnce, TakeOnce, gates, history, CallControl
  <2>2. j.heard = call[c].heard /\ j.recall = call[c].recall /\ j.what = call[c].what
    BY <1>17 DEF MissesOnce, KeptBut
  <2>. QED BY <1>10, <2>1, <2>2
<1>18. CASE TakesOnce(c, j)
  <2>1. UNCHANGED <<pending, refusals, said, answers, given>> /\ call[c].at # "idle"
    BY <1>0, <1>18 DEF TakesOnce, TakeOnce, gates, history, CallControl
  <2>2. j.heard = call[c].heard /\ j.recall = call[c].recall /\ j.what = call[c].what
    BY <1>18 DEF TakesOnce, KeptBut
  <2>. QED BY <1>10, <2>1, <2>2
<1>19. CASE JudgesEdit(c, j)
  <2>1. UNCHANGED <<pending, refusals, said, answers, given>> /\ call[c].at # "idle"
    BY <1>0, <1>19 DEF JudgesEdit, JudgeEdit, gates, history, CallControl
  <2>2. j.heard = call[c].heard /\ j.recall = call[c].recall /\ j.what = call[c].what
    BY <1>19 DEF JudgesEdit, KeptBut
  <2>. QED BY <1>10, <2>1, <2>2
<1>20. CASE Runs(c, j)
  <2>1. UNCHANGED <<pending, refusals, said, answers, given>> /\ call[c].at # "idle"
    BY <1>0, <1>20 DEF Runs, Run, gates, history, CallControl
  <2>2. j.heard = call[c].heard /\ j.recall = call[c].recall /\ j.what = call[c].what
    BY <1>20 DEF Runs, KeptBut
  <2>. QED BY <1>10, <2>1, <2>2
<1>21. CASE Ends(c, j)
  <2>1. UNCHANGED <<pending, refusals, said, answers, given>> /\ call[c].at # "idle"
    BY <1>0, <1>21 DEF Ends, After, gates, history, CallControl
  <2>2. j.heard = call[c].heard /\ j.recall = call[c].recall /\ j.what = call[c].what
    BY <1>21 DEF Ends, KeptBut
  <2>. QED BY <1>10, <2>1, <2>2
<1>. QED BY <1>2, <1>3, <1>4, <1>5, <1>6, <1>7, <1>8, <1>9, <1>11, <1>12, <1>13, <1>14, <1>15,
            <1>16, <1>17, <1>18, <1>19, <1>20, <1>21 DEF Became

\* An answer is about the refusal that was pending, and is used once.
LEMMA BoundStep ==
    ASSUME GatesTypes, \A d \in Ids : CallControl(call[d]), OneAsked, Answered, Bound,
           NEW c \in Ids, NEW j, call' = [call EXCEPT ![c] = j], Became(c, j)
    PROVE  Bound'
<1> DEFINE
      Parts ==
        /\ \A n \in DOMAIN answers : To(n) \in DOMAIN refusals /\ answers[n].job = refusals[To(n)]
        /\ \A g, k \in given : To(g.id) = To(k.id) => g = k
        /\ said # {} => \A g \in given : To(g.id) # To(Len(answers))
        /\ pending # {} /\ (\E g \in given : To(g.id) = Len(refusals))
             => \E d \in Ids : call[d].recall = "dropPending"
        /\ \A d \in Ids : Current(d)
<1>. SUFFICES ASSUME ~crossed' PROVE Parts'
  BY DEF Bound
<1>1. call'[c] = j /\ \A d \in Ids : d # c => call'[d] = call[d]
  BY CallAt
<1>0. /\ CallControl(call[c]) /\ answers \in Seq([job : Jobs, to : Nat]) /\ refusals \in Seq(Jobs)
      /\ \A g \in given : g.id \in DOMAIN answers
      /\ \A r \in said : answers # <<>> /\ r.what.id = Len(answers)
      /\ \A r \in pending : refusals # <<>> /\ r.what = refusals[Len(refusals)]
  BY DEF GatesTypes, Answered
<1>2. CASE Asks(c, j)
  <2>1. /\ UNCHANGED <<pending, refusals, said, answers, given>> /\ ~crossed /\ call[c].at = "idle"
        /\ j.guard # "say" /\ j.recall # "takeSaid"
    <3>1. j.what.kind \in {"author", "answer", "bash", "edit"}
      BY <1>2, MenuTypes DEF Asks, GatesTypes, Menu
    <3>. QED BY <1>2, <3>1 DEF Asks, Ask, gates
  <2>2. Parts
    BY <2>1 DEF Bound
  <2>3. \A d \in Ids : Current(d)'
    BY <1>1, <2>1, <2>2 DEF Current
  <2>4. pending' # {} /\ (\E g \in given' : To(g.id)' = Len(refusals'))
             => \E d \in Ids : call'[d].recall = "dropPending"
    BY <1>0, <1>1, <2>1, <2>2 DEF CallControl, To
  <2>. QED BY <2>1, <2>2, <2>3, <2>4 DEF To
<1>3. CASE ~Asks(c, j)
  <2>1. Asked(c) /\ ~crossed
    BY <1>3, CallGoesOn
  <2>2. Parts
    BY <2>1 DEF Bound
  <2>3. \A d \in Ids : d # c => /\ call[d].guard \in {"idle", "allow", "deny"}
                                /\ call[d].recall \in {"idle", "allow", "deny"}
    BY <2>1, OthersRest
  <2>4. \A d \in Ids : d # c => Current(d)'
    BY <1>1, <2>3 DEF Current
  <2> HIDE DEF Parts
  <2>5. ASSUME UNCHANGED <<answers, refusals, said, pending, given>>,
               j.guard = "say" => call[c].guard = "say" /\ j.seen = call[c].seen,
               j.recall = "takeSaid" => call[c].recall = "takeSaid" /\ j.heard = call[c].heard,
               call[c].recall = "dropPending" => j.recall = "dropPending"
        PROVE  Parts'
    <3>1. Current(c)'
      <4>1. Current(c)
        BY <2>2 DEF Parts
      <4>. QED BY <1>1, <2>5, <4>1 DEF Current
    <3>2. \A d \in Ids : call[d].recall = "dropPending" => call'[d].recall = "dropPending"
      BY <1>1, <2>5
    <3>3. pending' # {} /\ (\E g \in given' : To(g.id)' = Len(refusals'))
             => \E d \in Ids : call'[d].recall = "dropPending"
      BY <2>2, <2>5, <3>2 DEF Parts, To
    <3>4. \A d \in Ids : Current(d)'
      BY <2>4, <3>1
    <3>. QED BY <2>2, <2>5, <3>3, <3>4 DEF Parts, To
  <2>6. CASE Says(c, j)
    <3>1. PICK job \in call[c].seen :
             /\ said' = {[at |-> clock, what |-> [job |-> job, id |-> Len(answers) + 1]]}
             /\ answers' = answers \o <<[job |-> job, to |-> Len(refusals)]>>
      BY <2>6 DEF Says, Say, Record
    <3>2. /\ UNCHANGED <<pending, refusals, given>> /\ call[c].guard = "say"
          /\ j.guard = "stamp" /\ j.recall = call[c].recall
      BY <2>6 DEF Says, Say, KeptBut
    <3>3. /\ pending # {} /\ refusals # <<>> /\ job = refusals[Len(refusals)]
      BY <2>2, <3>1, <3>2 DEF Parts, Current
    <3>4. call[c].recall = "allow"
      <4>1. call[c].what \in Menu /\ call[c].what.kind # "edit"
        BY <1>0, <3>2 DEF CallControl, GuardsOf
      <4>. QED BY <1>0, <3>2, <4>1, MenuTypes DEF CallControl
    <3>5. Len(answers) \in Nat /\ Len(refusals) \in DOMAIN refusals
      BY <1>0, <3>3
    <3>6. /\ Len(answers') = Len(answers) + 1
          /\ DOMAIN answers' = DOMAIN answers \cup {Len(answers) + 1}
          /\ \A n \in DOMAIN answers : answers'[n] = answers[n] /\ n # Len(answers) + 1
          /\ answers'[Len(answers) + 1] = [job |-> job, to |-> Len(refusals)]
      <4>1. [job |-> job, to |-> Len(refusals)] \in [job : Jobs, to : Nat]
        BY <1>0, <3>3, <3>5
      <4>. QED BY <1>0, <3>1, <4>1
    <3>7. \A g \in given : To(g.id) # Len(refusals)
      BY <2>2, <2>3, <3>3, <3>4 DEF Parts
    <3>8. \A g \in given : To(g.id)' = To(g.id)
      BY <1>0, <3>6 DEF To
    <3>9. \A n \in DOMAIN answers' : To(n)' \in DOMAIN refusals' /\ answers'[n].job = refusals'[To(n)']
      BY <2>2, <3>2, <3>3, <3>5, <3>6 DEF Parts, To
    <3>10. \A g, k \in given' : To(g.id)' = To(k.id)' => g = k
      BY <2>2, <3>2, <3>8 DEF Parts
    <3>11. \A g \in given' : To(g.id)' # To(Len(answers))'
      BY <3>2, <3>6, <3>7, <3>8 DEF To
    <3>12. ~(\E g \in given' : To(g.id)' = Len(refusals'))
      BY <3>2, <3>7, <3>8
    <3>13. \A d \in Ids : Current(d)'
      BY <1>1, <2>4, <3>2, <3>4 DEF Current
    <3>. QED BY <3>9, <3>10, <3>11, <3>12, <3>13 DEF Parts
  <2>7. CASE Peeks(c, j)
    <3>1. /\ UNCHANGED <<answers, refusals, said, pending, given>>
          /\ j.recall = call[c].recall /\ j.heard = call[c].heard
          /\ j.guard = "say" => j.seen # {}
          /\ j.seen \subseteq {r.what : r \in pending}
      BY <2>7 DEF Peeks, PeekPending, KeptBut, Fresh, gates, history
    <3>2. j.guard = "say" => /\ pending # {} /\ refusals # <<>>
                             /\ \A job \in j.seen : job = refusals[Len(refusals)]
      BY <1>0, <3>1
    <3>3. Current(c)'
      <4>1. Current(c)
        BY <2>2 DEF Parts
      <4>. QED BY <1>1, <3>1, <3>2, <4>1 DEF Current
    <3>4. \A d \in Ids : Current(d)'
      BY <2>4, <3>3
    <3>5. \A d \in Ids : call[d].recall = "dropPending" => call'[d].recall = "dropPending"
      BY <1>1, <3>1
    <3>. QED BY <2>2, <3>1, <3>4, <3>5 DEF Parts, To
  <2>8. CASE ReadsSaid(c, j)
    <3>1. /\ UNCHANGED <<answers, refusals, said, pending, given>> /\ call[c].recall = "ask"
          /\ j.guard = call[c].guard /\ j.seen = call[c].seen
          /\ j.recall = "takeSaid" => j.heard # {}
          /\ j.heard \subseteq {r.what.id : r \in said}
      BY <2>8 DEF ReadsSaid, ReadSaid, KeptBut, Fresh, gates, history
    <3>2. j.recall = "takeSaid" => said # {} /\ \A id \in j.heard : id = Len(answers)
      BY <1>0, <3>1
    <3>3. Current(c)'
      <4>1. Current(c)
        BY <2>2 DEF Parts
      <4>. QED BY <1>1, <3>1, <3>2, <4>1 DEF Current
    <3>4. \A d \in Ids : Current(d)'
      BY <2>4, <3>3
    <3>5. \A d \in Ids : call[d].recall = "dropPending" => call'[d].recall = "dropPending"
      BY <1>1, <3>1
    <3>. QED BY <2>2, <3>1, <3>4, <3>5 DEF Parts, To
  <2>9. CASE TakesSaid(c, j)
    <3>1. /\ UNCHANGED <<answers, refusals, pending>> /\ call[c].recall = "takeSaid" /\ said' = {}
          /\ given' = given \cup {[by |-> c, id |-> id] : id \in call[c].heard} /\ said # {}
          /\ j.guard = call[c].guard /\ j.seen = call[c].seen /\ j.recall = "dropPending"
      BY <2>9 DEF TakesSaid, TakeSaid, KeptBut
    <3>2. \A id \in call[c].heard : id = Len(answers)
      BY <2>2, <3>1 DEF Parts, Current
    <3>3. \A g \in given : To(g.id) # To(Len(answers))
      BY <2>2, <3>1 DEF Parts
    <3>4. \A g \in given' : g \in given \/ g = [by |-> c, id |-> Len(answers)]
      BY <3>1, <3>2
    <3>5. \A g, k \in given' : To(g.id)' = To(k.id)' => g = k
      BY <2>2, <3>1, <3>3, <3>4 DEF Parts, To
    <3>6. Current(c)'
      <4>1. Current(c)
        BY <2>2 DEF Parts
      <4>. QED BY <1>1, <3>1, <4>1 DEF Current
    <3>7. \A d \in Ids : Current(d)'
      BY <2>4, <3>6
    <3>8. \E d \in Ids : call'[d].recall = "dropPending"
      BY <1>1, <3>1
    <3>. QED BY <2>2, <3>1, <3>5, <3>7, <3>8 DEF Parts, To
  <2>10. CASE MissesSaid(c, j)
    <3>1. /\ UNCHANGED <<answers, refusals, pending, said, given>> /\ call[c].recall = "takeSaid"
          /\ j.guard = call[c].guard /\ j.seen = call[c].seen /\ j.recall = "refuse"
      BY <2>10 DEF MissesSaid, TakeSaid, KeptBut
    <3>. QED BY <2>5, <3>1
  <2>11. CASE Drops(c, j)
    <3>1. /\ UNCHANGED <<answers, refusals, said, given>> /\ pending' = {}
          /\ call[c].recall = "dropPending" /\ j.recall = "allow"
          /\ j.guard = call[c].guard /\ j.what = call[c].what
      BY <2>11 DEF Drops, DropPending, KeptBut, history
    <3>2. j.guard # "say"
      <4>1. call[c].what \in Menu /\ call[c].what.nominee # NoNominee
            /\ call[c].guard \in GuardsOf(call[c].what.kind)
        BY <1>0, <3>1 DEF CallControl
      <4>2. call[c].what.kind = "edit"
        BY <4>1, MenuTypes
      <4>. QED BY <3>1, <4>1, <4>2 DEF GuardsOf
    <3>3. \A d \in Ids : Current(d)'
      BY <1>1, <2>4, <3>1, <3>2 DEF Current
    <3>. QED BY <2>2, <3>1, <3>3 DEF Parts, To
  <2>12. CASE Refuses(c, j)
    <3>1. /\ UNCHANGED <<answers, said, given>> /\ call[c].recall = "refuse" /\ j.recall = "deny"
          /\ refusals' = refusals \o <<call[c].what.nominee>>
          /\ j.guard = call[c].guard /\ j.what = call[c].what
      BY <2>12 DEF Refuses, Refuse, KeptBut
    <3>2. call[c].what \in Menu /\ call[c].what.nominee # NoNominee
          /\ call[c].guard \in GuardsOf(call[c].what.kind)
      BY <1>0, <3>1 DEF CallControl
    <3>3. j.guard # "say"
      <4>1. call[c].what.kind = "edit"
        BY <3>2, MenuTypes
      <4>. QED BY <3>1, <3>2, <4>1 DEF GuardsOf
    <3>4. call[c].what.nominee \in Jobs /\ Len(refusals) \in Nat
      BY <1>0, <3>2 DEF Jobs
    <3>5. /\ Len(refusals') = Len(refusals) + 1 /\ DOMAIN refusals \subseteq DOMAIN refusals'
          /\ \A n \in DOMAIN refusals : refusals'[n] = refusals[n] /\ n # Len(refusals) + 1
      BY <1>0, <3>1, <3>4
    <3>6. \A n \in DOMAIN answers' : To(n)' \in DOMAIN refusals' /\ answers'[n].job = refusals'[To(n)']
      BY <2>2, <3>1, <3>5 DEF Parts, To
    <3>7. ~(\E g \in given' : To(g.id)' = Len(refusals'))
      BY <1>0, <2>2, <3>1, <3>5 DEF Parts, To
    <3>8. \A d \in Ids : Current(d)'
      BY <1>1, <2>4, <3>1, <3>3 DEF Current
    <3>. QED BY <2>2, <3>1, <3>6, <3>7, <3>8 DEF Parts, To
  <2>13. CASE Declares(c, j)
    <3>1. UNCHANGED <<answers, refusals, said, pending, given>>
      BY <2>13 DEF Declares, Declare, gates, history
    <3>2. /\ j.guard = "say" => call[c].guard = "say" /\ j.seen = call[c].seen
          /\ j.recall = "takeSaid" => call[c].recall = "takeSaid" /\ j.heard = call[c].heard
          /\ call[c].recall = "dropPending" => j.recall = "dropPending"
      BY <2>13 DEF Declares, Declare, KeptBut
    <3>. QED BY <2>5, <3>1, <3>2
  <2>14. CASE Opens(c, j)
    <3>1. UNCHANGED <<answers, refusals, said, pending, given>>
      BY <2>14 DEF Opens, OpenWindow, gates, history
    <3>2. /\ j.guard = "say" => call[c].guard = "say" /\ j.seen = call[c].seen
          /\ j.recall = "takeSaid" => call[c].recall = "takeSaid" /\ j.heard = call[c].heard
          /\ call[c].recall = "dropPending" => j.recall = "dropPending"
      BY <2>14 DEF Opens, OpenWindow, KeptBut
    <3>. QED BY <2>5, <3>1, <3>2
  <2>15. CASE Stamps(c, j)
    <3>1. UNCHANGED <<answers, refusals, said, pending, given>>
      BY <2>15 DEF Stamps, Stamp, gates, history
    <3>2. /\ j.guard = "say" => call[c].guard = "say" /\ j.seen = call[c].seen
          /\ j.recall = "takeSaid" => call[c].recall = "takeSaid" /\ j.heard = call[c].heard
          /\ call[c].recall = "dropPending" => j.recall = "dropPending"
      BY <2>15 DEF Stamps, Stamp, KeptBut
    <3>. QED BY <2>5, <3>1, <3>2
  <2>16. CASE PassesShapes(c, j)
    <3>1. UNCHANGED <<answers, refusals, said, pending, given>>
      BY <2>16 DEF PassesShapes, ReadOnce, gates, history
    <3>2. /\ j.guard = "say" => call[c].guard = "say" /\ j.seen = call[c].seen
          /\ j.recall = "takeSaid" => call[c].recall = "takeSaid" /\ j.heard = call[c].heard
          /\ call[c].recall = "dropPending" => j.recall = "dropPending"
      BY <2>16 DEF PassesShapes, ReadOnce, KeptBut
    <3>. QED BY <2>5, <3>1, <3>2
  <2>17. CASE ReadsOnce(c, j)
    <3>1. UNCHANGED <<answers, refusals, said, pending, given>>
      BY <2>17 DEF ReadsOnce, ReadOnce, gates, history
    <3>2. /\ j.guard = "say" => call[c].guard = "say" /\ j.seen = call[c].seen
          /\ j.recall = "takeSaid" => call[c].recall = "takeSaid" /\ j.heard = call[c].heard
          /\ call[c].recall = "dropPending" => j.recall = "dropPending"
      BY <2>17 DEF ReadsOnce, ReadOnce, KeptBut
    <3>. QED BY <2>5, <3>1, <3>2
  <2>18. CASE MissesOnce(c, j)
    <3>1. UNCHANGED <<answers, refusals, said, pending, given>>
      BY <2>18 DEF MissesOnce, TakeOnce, gates, history
    <3>2. /\ j.guard = "say" => call[c].guard = "say" /\ j.seen = call[c].seen
          /\ j.recall = "takeSaid" => call[c].recall = "takeSaid" /\ j.heard = call[c].heard
          /\ call[c].recall = "dropPending" => j.recall = "dropPending"
      BY <2>18 DEF MissesOnce, TakeOnce, KeptBut
    <3>. QED BY <2>5, <3>1, <3>2
  <2>19. CASE TakesOnce(c, j)
    <3>1. UNCHANGED <<answers, refusals, said, pending, given>>
      BY <2>19 DEF TakesOnce, TakeOnce, gates, history
    <3>2. /\ j.guard = "say" => call[c].guard = "say" /\ j.seen = call[c].seen
          /\ j.recall = "takeSaid" => call[c].recall = "takeSaid" /\ j.heard = call[c].heard
          /\ call[c].recall = "dropPending" => j.recall = "dropPending"
      BY <2>19 DEF TakesOnce, TakeOnce, KeptBut
    <3>. QED BY <2>5, <3>1, <3>2
  <2>20. CASE JudgesEdit(c, j)
    <3>1. UNCHANGED <<answers, refusals, said, pending, given>>
      BY <2>20 DEF JudgesEdit, JudgeEdit, gates, history
    <3>2. /\ j.guard = "say" => call[c].guard = "say" /\ j.seen = call[c].seen
          /\ j.recall = "takeSaid" => call[c].recall = "takeSaid" /\ j.heard = call[c].heard
          /\ call[c].recall = "dropPending" => j.recall = "dropPending"
      BY <2>20 DEF JudgesEdit, JudgeEdit, KeptBut
    <3>. QED BY <2>5, <3>1, <3>2
  <2>21. CASE Decides(c, j)
    <3>1. UNCHANGED <<answers, refusals, said, pending, given>>
      BY <2>21 DEF Decides, Decide, gates, history
    <3>2. /\ j.guard = "say" => call[c].guard = "say" /\ j.seen = call[c].seen
          /\ j.recall = "takeSaid" => call[c].recall = "takeSaid" /\ j.heard = call[c].heard
          /\ call[c].recall = "dropPending" => j.recall = "dropPending"
      BY <2>21 DEF Decides, Decide, KeptBut
    <3>. QED BY <2>5, <3>1, <3>2
  <2>22. CASE Runs(c, j)
    <3>1. UNCHANGED <<answers, refusals, said, pending, given>>
      BY <2>22 DEF Runs, Run, gates, history
    <3>2. /\ j.guard = "say" => call[c].guard = "say" /\ j.seen = call[c].seen
          /\ j.recall = "takeSaid" => call[c].recall = "takeSaid" /\ j.heard = call[c].heard
          /\ call[c].recall = "dropPending" => j.recall = "dropPending"
      BY <2>22 DEF Runs, Run, KeptBut
    <3>. QED BY <2>5, <3>1, <3>2
  <2>23. CASE Ends(c, j)
    <3>1. UNCHANGED <<answers, refusals, said, pending, given>>
      BY <2>23 DEF Ends, After, gates, history
    <3>2. /\ j.guard = "say" => call[c].guard = "say" /\ j.seen = call[c].seen
          /\ j.recall = "takeSaid" => call[c].recall = "takeSaid" /\ j.heard = call[c].heard
          /\ call[c].recall = "dropPending" => j.recall = "dropPending"
      BY <2>23 DEF Ends, After, KeptBut
    <3>. QED BY <2>5, <3>1, <3>2
  <2>30. Parts'
    BY <1>3, <2>6, <2>7, <2>8, <2>9, <2>10, <2>11, <2>12, <2>13, <2>14, <2>15, <2>16, <2>17,
       <2>18, <2>19, <2>20, <2>21, <2>22, <2>23 DEF Became
  <2>. QED BY <2>30 DEF Parts
<1>. QED BY <1>2, <1>3

-----------------------------------------------------------------------------
(* Writes of commands. *)

\* A step of a call that is still asked, which neither stamps nor lets a command
\* pass.
LEMMA NoticedFrame ==
    ASSUME GatesTypes, \A d \in Ids : CallControl(call[d]), OneAsked, Noticed,
           NEW c \in Ids, NEW j, call' = [call EXCEPT ![c] = j],
           call[c].at = "asked", j.at = "asked", j.what = call[c].what,
           j.what.kind = "bash" /\ j.guard = "allow" => call[c].guard = "allow",
           UNCHANGED <<stamp, clock, bare, misses, crossed>>
    PROVE  Noticed'
<1>1. call'[c] = j /\ \A d \in Ids : d # c => call'[d] = call[d]
  BY CallAt
<1>2. \A d \in bare' : call'[d].at \in {"after", "done"}
  BY <1>1 DEF Noticed, GatesTypes
<1>3. ASSUME ~crossed
      PROVE  \A d \in Ids : Wrote(d)'
  <2>1. \A d \in Ids : Wrote(d)
    BY <1>3 DEF Noticed
  <2>2. \A d \in Ids : d # c => call[d].at \in {"idle", "done", "refused"}
    BY <1>3, OthersRest DEF Asked
  <2>3. ASSUME NEW d \in Ids, d # c
        PROVE  Wrote(d)'
    <3>1. call'[d] = call[d] /\ call[d].at \in {"idle", "done", "refused"} /\ Wrote(d)
      BY <1>1, <2>1, <2>2, <2>3
    <3>. QED BY <3>1 DEF Wrote
  <2>4. Wrote(c)'
    <3>1. Wrote(c)
      BY <2>1
    <3>. QED BY <1>1, <3>1 DEF Wrote
  <2>. QED BY <2>3, <2>4
<1>. QED BY <1>2, <1>3 DEF Noticed

\* A command is stamped before it runs, and looks back to its stamp when it ends.
LEMMA NoticedStep ==
    ASSUME GatesTypes, \A d \in Ids : CallControl(call[d]), OneAsked, Noticed,
           NEW c \in Ids, NEW j, call' = [call EXCEPT ![c] = j], Became(c, j)
    PROVE  Noticed'
<1>1. call'[c] = j /\ \A d \in Ids : d # c => call'[d] = call[d]
  BY CallAt
<1>0. /\ CallControl(call[c]) /\ clock \in Nat /\ stamp \subseteq Nat /\ bare \subseteq Ids
      /\ touched \in [Ids -> SUBSET Nat] /\ \A s \in stamp : s <= clock
      /\ \A d \in bare : call[d].at \in {"after", "done"}
      /\ ~crossed => \A d \in Ids : Wrote(d)
  BY DEF GatesTypes, Noticed
<1>2. CASE Asks(c, j)
  <2>1. /\ UNCHANGED <<window, stamp, clock, bare, misses, touched>> /\ call[c].at = "idle"
        /\ ~crossed' => ~crossed
        /\ j.at = "asked" /\ j.guard # "allow"
    <3>1. j.what.kind \in {"author", "answer", "bash", "edit"}
      BY <1>2, MenuTypes DEF Asks, GatesTypes, Menu
    <3>. QED BY <1>2, <3>1 DEF Asks, Ask, gates
  <2>2. \A d \in bare' : call'[d].at \in {"after", "done"}
    BY <1>0, <1>1, <2>1
  <2>3. ASSUME ~crossed', NEW d \in Ids
        PROVE  Wrote(d)'
    <3>1. CASE d = c
      BY <1>1, <2>1, <3>1 DEF Wrote
    <3>2. CASE d # c
      <4>1. call'[d] = call[d] /\ Wrote(d)
        BY <1>0, <1>1, <2>1, <2>3, <3>2
      <4>. QED BY <2>1, <4>1 DEF Wrote, WindowIsOpen
    <3>. QED BY <3>1, <3>2
  <2>. QED BY <1>0, <2>1, <2>2, <2>3 DEF Noticed
<1>3. ASSUME ~Asks(c, j), ~crossed'
      PROVE  /\ Wrote(c)
             /\ \A d \in Ids : d # c => /\ call'[d] = call[d] /\ Wrote(d)
                                        /\ call[d].at \in {"idle", "done", "refused"}
  <2>1. Asked(c) /\ ~crossed
    BY <1>3, CallGoesOn
  <2>. QED BY <1>0, <1>1, <2>1, OthersRest
<1>4. CASE Stamps(c, j)
  <2>1. /\ UNCHANGED <<bare, misses, crossed, clock>> /\ stamp' \in {stamp, {clock}}
        /\ call[c].at = "asked" /\ j.at = "asked"
        /\ j.guard = "allow" => stamp' = {clock}
    BY <1>0, <1>4 DEF Stamps, Stamp, KeptBut, history, CallControl
  <2>2. \A d \in bare' : call'[d].at \in {"after", "done"}
    BY <1>0, <1>1, <2>1
  <2>3. ASSUME ~crossed', NEW d \in Ids
        PROVE  Wrote(d)'
    <3>0. ~Asks(c, j)
      BY <1>4 DEF Asks, Ask, Stamps, Stamp, CallControl
    <3>1. CASE d = c
      BY <1>1, <2>1, <3>1 DEF Wrote
    <3>2. CASE d # c
      BY <1>3, <2>1, <2>3, <3>0, <3>2 DEF Wrote
    <3>. QED BY <3>1, <3>2
  <2>. QED BY <1>0, <2>1, <2>2, <2>3 DEF Noticed
<1>5. CASE Decides(c, j)
  <2>1. /\ UNCHANGED <<bare, misses, crossed, clock, stamp>>
        /\ call[c].at = "asked" /\ j.what = call[c].what
        /\ j.at = "running" => call[c].guard = "allow"
        /\ j.at \in {"running", "refused"}
    BY <1>5 DEF Decides, Decide, KeptBut, gates, history
  <2>2. \A d \in bare' : call'[d].at \in {"after", "done"}
    BY <1>0, <1>1, <2>1
  <2>3. ASSUME ~crossed', NEW d \in Ids
        PROVE  Wrote(d)'
    <3>0. ~Asks(c, j)
      BY <2>1 DEF Asks, Ask
    <3>1. CASE d = c
      <4>1. Wrote(c)
        BY <1>3, <2>3, <3>0
      <4>. QED BY <1>1, <2>1, <3>1, <4>1 DEF Wrote
    <3>2. CASE d # c
      BY <1>3, <2>1, <2>3, <3>0, <3>2 DEF Wrote
    <3>. QED BY <3>1, <3>2
  <2>. QED BY <1>0, <2>1, <2>2, <2>3 DEF Noticed
<1>6. CASE Runs(c, j)
  <2>1. /\ UNCHANGED <<window, misses, crossed, clock, stamp>>
        /\ call[c].at = "running" /\ j.what = call[c].what /\ j.at \in {"done", "after"}
        /\ j.what.kind = "bash" => j.at = "after" /\ touched' = [touched EXCEPT ![c] = {clock}]
        /\ bare' \in {bare, bare \cup {c}} /\ (WindowIsOpen => bare' = bare)
    BY <1>6 DEF Runs, Run, KeptBut, gates
  <2>2. \A d \in bare' : call'[d].at \in {"after", "done"}
    BY <1>0, <1>1, <2>1
  <2>3. ASSUME ~crossed', NEW d \in Ids
        PROVE  Wrote(d)'
    <3>0. ~Asks(c, j)
      BY <2>1 DEF Asks, Ask
    <3>1. CASE d = c
      <4>1. Wrote(c)
        BY <1>3, <2>3, <3>0
      <4>2. SUFFICES ASSUME j.what.kind = "bash"
                     PROVE  /\ stamp' # {}
                            /\ c \in bare' => /\ ~WindowIsOpen'
                                              /\ \E t \in touched'[c], s \in stamp' : t >= s
        BY <1>1, <2>1, <3>1 DEF Wrote
      <4>3. stamp # {}
        BY <2>1, <4>1, <4>2 DEF Wrote
      <4>4. c \in bare' => ~WindowIsOpen
        BY <1>0, <2>1
      <4>5. WindowIsOpen' = WindowIsOpen
        BY <2>1 DEF WindowIsOpen
      <4>6. \E t \in touched'[c], s \in stamp' : t >= s
        <5>1. touched'[c] = {clock}
          BY <1>0, <2>1, <4>2
        <5>2. PICK s \in stamp : TRUE
          BY <4>3
        <5>. QED BY <1>0, <2>1, <5>1, <5>2
      <4>. QED BY <2>1, <4>3, <4>4, <4>5, <4>6
    <3>2. CASE d # c
      BY <1>3, <2>1, <2>3, <3>0, <3>2 DEF Wrote
    <3>. QED BY <3>1, <3>2
  <2>. QED BY <1>0, <2>1, <2>2, <2>3 DEF Noticed
<1>7. CASE Ends(c, j)
  <2>1. /\ UNCHANGED <<bare, crossed, clock, stamp>>
        /\ call[c].at = "after" /\ j.what = call[c].what /\ j.at = "done"
        /\ misses' = IF WindowIsOpen THEN misses ELSE misses \cup UNION {ChangedSince(s) : s \in stamp}
    BY <1>7 DEF Ends, After, KeptBut, gates, history
  <2>2. \A d \in bare' : call'[d].at \in {"after", "done"}
    BY <1>0, <1>1, <2>1
  <2>3. ASSUME ~crossed', NEW d \in Ids
        PROVE  Wrote(d)'
    <3>0. ~Asks(c, j)
      BY <2>1 DEF Asks, Ask
    <3>1. CASE d = c
      <4>1. Wrote(c)
        BY <1>3, <2>3, <3>0
      <4>2. SUFFICES ASSUME j.what.kind = "bash", c \in bare'
                     PROVE  c \in misses'
        BY <1>1, <2>1, <3>1 DEF Wrote
      <4>3. ~WindowIsOpen /\ \E t \in touched[c], s \in stamp : t >= s
        BY <2>1, <4>1, <4>2 DEF Wrote
      <4>4. PICK s \in stamp : c \in ChangedSince(s)
        BY <4>3 DEF ChangedSince
      <4>. QED BY <2>1, <4>3, <4>4
    <3>2. CASE d # c
      BY <1>3, <2>1, <2>3, <3>0, <3>2 DEF Wrote
    <3>. QED BY <3>1, <3>2
  <2>. QED BY <1>0, <2>1, <2>2, <2>3 DEF Noticed
<1>8. CASE Declares(c, j)
  <2>1. UNCHANGED <<stamp, clock, bare, misses, crossed>>
    BY <1>8 DEF Declares, Declare, gates, history
  <2>2. /\ call[c].at = "asked" /\ j.at = "asked" /\ j.what = call[c].what
        /\ j.what.kind = "bash" /\ j.guard = "allow" => call[c].guard = "allow"
    BY <1>0, <1>8 DEF Declares, Declare, KeptBut, CallControl, GuardsOf, GatesTypes, CallRecord
  <2>. QED BY <2>1, <2>2, NoticedFrame
<1>9. CASE Opens(c, j)
  <2>1. UNCHANGED <<stamp, clock, bare, misses, crossed>>
    BY <1>9 DEF Opens, OpenWindow, gates, history
  <2>2. /\ call[c].at = "asked" /\ j.at = "asked" /\ j.what = call[c].what
        /\ j.what.kind = "bash" /\ j.guard = "allow" => call[c].guard = "allow"
    BY <1>0, <1>9 DEF Opens, OpenWindow, KeptBut, CallControl, GuardsOf, GatesTypes, CallRecord
  <2>. QED BY <2>1, <2>2, NoticedFrame
<1>10. CASE Peeks(c, j)
  <2>1. UNCHANGED <<stamp, clock, bare, misses, crossed>>
    BY <1>10 DEF Peeks, PeekPending, gates, history
  <2>2. /\ call[c].at = "asked" /\ j.at = "asked" /\ j.what = call[c].what
        /\ j.what.kind = "bash" /\ j.guard = "allow" => call[c].guard = "allow"
    BY <1>0, <1>10 DEF Peeks, PeekPending, KeptBut, CallControl, GuardsOf, GatesTypes, CallRecord
  <2>. QED BY <2>1, <2>2, NoticedFrame
<1>11. CASE Says(c, j)
  <2>1. UNCHANGED <<stamp, clock, bare, misses, crossed>>
    BY <1>11 DEF Says, Say, gates, history
  <2>2. /\ call[c].at = "asked" /\ j.at = "asked" /\ j.what = call[c].what
        /\ j.what.kind = "bash" /\ j.guard = "allow" => call[c].guard = "allow"
    BY <1>0, <1>11 DEF Says, Say, KeptBut, CallControl, GuardsOf, GatesTypes, CallRecord
  <2>. QED BY <2>1, <2>2, NoticedFrame
<1>12. CASE PassesShapes(c, j)
  <2>1. UNCHANGED <<stamp, clock, bare, misses, crossed>>
    BY <1>12 DEF PassesShapes, ReadOnce, gates, history
  <2>2. /\ call[c].at = "asked" /\ j.at = "asked" /\ j.what = call[c].what
        /\ j.what.kind = "bash" /\ j.guard = "allow" => call[c].guard = "allow"
    BY <1>0, <1>12 DEF PassesShapes, ReadOnce, KeptBut, CallControl, GuardsOf, GatesTypes, CallRecord
  <2>. QED BY <2>1, <2>2, NoticedFrame
<1>13. CASE ReadsOnce(c, j)
  <2>1. UNCHANGED <<stamp, clock, bare, misses, crossed>>
    BY <1>13 DEF ReadsOnce, ReadOnce, gates, history
  <2>2. /\ call[c].at = "asked" /\ j.at = "asked" /\ j.what = call[c].what
        /\ j.what.kind = "bash" /\ j.guard = "allow" => call[c].guard = "allow"
    BY <1>0, <1>13 DEF ReadsOnce, ReadOnce, KeptBut, CallControl, GuardsOf, GatesTypes, CallRecord
  <2>. QED BY <2>1, <2>2, NoticedFrame
<1>14. CASE MissesOnce(c, j)
  <2>1. UNCHANGED <<stamp, clock, bare, misses, crossed>>
    BY <1>14 DEF MissesOnce, TakeOnce, gates, history
  <2>2. /\ call[c].at = "asked" /\ j.at = "asked" /\ j.what = call[c].what
        /\ j.what.kind = "bash" /\ j.guard = "allow" => call[c].guard = "allow"
    BY <1>0, <1>14 DEF MissesOnce, TakeOnce, KeptBut, CallControl, GuardsOf, GatesTypes, CallRecord
  <2>. QED BY <2>1, <2>2, NoticedFrame
<1>15. CASE TakesOnce(c, j)
  <2>1. UNCHANGED <<stamp, clock, bare, misses, crossed>>
    BY <1>15 DEF TakesOnce, TakeOnce, gates, history
  <2>2. /\ call[c].at = "asked" /\ j.at = "asked" /\ j.what = call[c].what
        /\ j.what.kind = "bash" /\ j.guard = "allow" => call[c].guard = "allow"
    BY <1>0, <1>15 DEF TakesOnce, TakeOnce, KeptBut, CallControl, GuardsOf, GatesTypes, CallRecord
  <2>. QED BY <2>1, <2>2, NoticedFrame
<1>16. CASE JudgesEdit(c, j)
  <2>1. UNCHANGED <<stamp, clock, bare, misses, crossed>>
    BY <1>16 DEF JudgesEdit, JudgeEdit, gates, history
  <2>2. /\ call[c].at = "asked" /\ j.at = "asked" /\ j.what = call[c].what
        /\ j.what.kind = "bash" /\ j.guard = "allow" => call[c].guard = "allow"
    BY <1>0, <1>16 DEF JudgesEdit, JudgeEdit, KeptBut, CallControl, GuardsOf, GatesTypes, CallRecord
  <2>. QED BY <2>1, <2>2, NoticedFrame
<1>17. CASE ReadsSaid(c, j)
  <2>1. UNCHANGED <<stamp, clock, bare, misses, crossed>>
    BY <1>17 DEF ReadsSaid, ReadSaid, gates, history
  <2>2. /\ call[c].at = "asked" /\ j.at = "asked" /\ j.what = call[c].what
        /\ j.what.kind = "bash" /\ j.guard = "allow" => call[c].guard = "allow"
    BY <1>0, <1>17 DEF ReadsSaid, ReadSaid, KeptBut, CallControl, GuardsOf, GatesTypes, CallRecord
  <2>. QED BY <2>1, <2>2, NoticedFrame
<1>18. CASE MissesSaid(c, j)
  <2>1. UNCHANGED <<stamp, clock, bare, misses, crossed>>
    BY <1>18 DEF MissesSaid, TakeSaid, gates, history
  <2>2. /\ call[c].at = "asked" /\ j.at = "asked" /\ j.what = call[c].what
        /\ j.what.kind = "bash" /\ j.guard = "allow" => call[c].guard = "allow"
    BY <1>0, <1>18 DEF MissesSaid, TakeSaid, KeptBut, CallControl, GuardsOf, GatesTypes, CallRecord
  <2>. QED BY <2>1, <2>2, NoticedFrame
<1>19. CASE TakesSaid(c, j)
  <2>1. UNCHANGED <<stamp, clock, bare, misses, crossed>>
    BY <1>19 DEF TakesSaid, TakeSaid, gates, history
  <2>2. /\ call[c].at = "asked" /\ j.at = "asked" /\ j.what = call[c].what
        /\ j.what.kind = "bash" /\ j.guard = "allow" => call[c].guard = "allow"
    BY <1>0, <1>19 DEF TakesSaid, TakeSaid, KeptBut, CallControl, GuardsOf, GatesTypes, CallRecord
  <2>. QED BY <2>1, <2>2, NoticedFrame
<1>20. CASE Drops(c, j)
  <2>1. UNCHANGED <<stamp, clock, bare, misses, crossed>>
    BY <1>20 DEF Drops, DropPending, gates, history
  <2>2. /\ call[c].at = "asked" /\ j.at = "asked" /\ j.what = call[c].what
        /\ j.what.kind = "bash" /\ j.guard = "allow" => call[c].guard = "allow"
    BY <1>0, <1>20 DEF Drops, DropPending, KeptBut, CallControl, GuardsOf, GatesTypes, CallRecord
  <2>. QED BY <2>1, <2>2, NoticedFrame
<1>21. CASE Refuses(c, j)
  <2>1. UNCHANGED <<stamp, clock, bare, misses, crossed>>
    BY <1>21 DEF Refuses, Refuse, gates, history
  <2>2. /\ call[c].at = "asked" /\ j.at = "asked" /\ j.what = call[c].what
        /\ j.what.kind = "bash" /\ j.guard = "allow" => call[c].guard = "allow"
    BY <1>0, <1>21 DEF Refuses, Refuse, KeptBut, CallControl, GuardsOf, GatesTypes, CallRecord
  <2>. QED BY <2>1, <2>2, NoticedFrame
<1>. QED BY <1>2, <1>4, <1>5, <1>6, <1>7, <1>8, <1>9, <1>10, <1>11, <1>12, <1>13, <1>14, <1>15,
            <1>16, <1>17, <1>18, <1>19, <1>20, <1>21 DEF Became

-----------------------------------------------------------------------------
\* The invariant holds before any call.
LEMMA GInvInit == GatesInit => GInv
<1>. SUFFICES ASSUME GatesInit PROVE GInv
  OBVIOUS
<1>1. /\ \A c \in Ids : call[c] = NoEdit
      /\ once = {} /\ pending = {} /\ said = {} /\ stamp = {} /\ uses = {} /\ given = {} /\ bare = {}
      /\ answers = <<>> /\ ~crossed
  BY DEF GatesInit
<1>2. /\ NoEdit.guard = "idle" /\ NoEdit.recall = "idle" /\ NoEdit.at = "idle" /\ NoEdit.pair = 1
      /\ NoEdit.heard = {} /\ NoEdit.what.kind = "bash"
  BY DEF NoEdit, CallOf
<1>3. \A c \in Ids : CallControl(call[c])
  BY <1>1, <1>2 DEF CallControl
<1>4. Cover
  BY <1>1, <1>2 DEF Cover, Covered
<1>5. OneAsked /\ Unused
  BY <1>1, <1>2 DEF OneAsked, Asked, Unused
<1>6. Answered
  BY <1>1, <1>2 DEF Answered, Heard
<1>7. Bound
  BY <1>1, <1>2 DEF Bound, Current
<1>8. Noticed
  BY <1>1, <1>2 DEF Noticed, Wrote
<1>. QED BY <1>3, <1>4, <1>5, <1>6, <1>7, <1>8, GatesTypesInit DEF GInv

\* Time makes records stale, and no window open.
LEMMA GInvTick ==
    ASSUME GInv, GatesTick
    PROVE  GInv'
<1>1. /\ clock' = clock + 1
      /\ UNCHANGED <<plan, window, once, pending, said, stamp, call, touched, misses, refusals, answers,
                     uses, given, bare, crossed>>
  BY DEF GatesTick, gates, history
<1>2. GatesTypes'
  BY <1>1 DEF GInv, GatesTypes
<1>3. (\A c \in Ids : CallControl(call[c]))' /\ Cover' /\ OneAsked' /\ Unused'
  BY <1>1 DEF GInv, Cover, Covered, Declared, OneAsked, Asked, Unused
<1>4. Answered' /\ Bound'
  BY <1>1 DEF GInv, Answered, Heard, Bound, Current, To
<1>5. Noticed'
  <2>1. clock \in Nat /\ stamp \subseteq Nat /\ Ttl \in Nat /\ window \in SUBSET [at : Nat, what : Ids]
    BY GatesAssumption DEF GInv, GatesTypes
  <2>2. ~WindowIsOpen => ~WindowIsOpen'
    <3>1. \A r \in window : (clock + 1) - r.at < Ttl => clock - r.at < Ttl
      BY <2>1
    <3>2. Fresh(window, Ttl, clock + 1) \subseteq Fresh(window, Ttl, clock)
      BY <3>1 DEF Fresh
    <3>3. WindowIsOpen' => Fresh(window, Ttl, clock + 1) # {}
      BY <1>1, Zenon DEF WindowIsOpen, Fresh
    <3>. QED BY <3>2, <3>3, Zenon DEF WindowIsOpen
  <2>3. \A s \in stamp : s <= clock + 1
    BY <2>1 DEF GInv, Noticed
  <2>4. \A c \in Ids : Wrote(c) => Wrote(c)'
    BY <1>1, <2>2 DEF Wrote
  <2>. QED BY <1>1, <2>3, <2>4 DEF GInv, Noticed
<1>. QED BY <1>2, <1>3, <1>4, <1>5 DEF GInv

\* Every step keeps the invariant.
LEMMA GInvStep ==
    ASSUME GInv, [GatesNext]_gatesVars
    PROVE  GInv'
<1>1. CASE GatesTick
  BY <1>1, GInvTick
<1>2. ASSUME NEW c \in Ids, CallStep(c)
      PROVE  GInv'
  <2>0. /\ GatesTypes /\ (\A d \in Ids : CallControl(call[d])) /\ Cover /\ OneAsked /\ Unused
        /\ Answered /\ Bound /\ Noticed
    BY DEF GInv
  <2>1. PICK j : call' = [call EXCEPT ![c] = j] /\ Became(c, j)
    BY <1>2, <2>0, CallBecomes
  <2>2. GatesTypes'
    BY <1>2, <2>0, GatesTypesStep
  <2>3. \A d \in Ids : CallControl(call'[d])
    BY <2>0, <2>1, CallAt, ControlStep
  <2>4. Cover' /\ OneAsked' /\ Unused'
    BY <2>0, <2>1, CoverStep, AskedStep, UnusedStep
  <2>5. Answered' /\ Bound' /\ Noticed'
    BY <2>0, <2>1, AnsweredStep, BoundStep, NoticedStep
  <2>. QED BY <2>2, <2>3, <2>4, <2>5 DEF GInv
<1>3. CASE UNCHANGED gatesVars
  <2>1. UNCHANGED <<plan, clock, window, once, pending, said, stamp, call, touched, misses, refusals,
                    answers, uses, given, bare, crossed>>
    BY <1>3 DEF gatesVars, gates, history
  <2>2. GatesTypes' /\ (\A c \in Ids : CallControl(call[c]))' /\ Cover' /\ OneAsked' /\ Unused'
    BY <2>1 DEF GInv, GatesTypes, Cover, Covered, Declared, OneAsked, Asked, Unused
  <2>3. Answered' /\ Bound' /\ Noticed'
    BY <2>1 DEF GInv, Answered, Heard, Bound, Current, To, Noticed, Wrote, WindowIsOpen
  <2>. QED BY <2>2, <2>3 DEF GInv
<1>. QED BY <1>1, <1>2, <1>3 DEF GatesNext

\* The inductive invariant of the gates.
THEOREM GatesInvariant == GatesSpec => []GInv
<1>. QED BY GInvInit, GInvStep, PTL DEF GatesSpec

\* Every pair of texts of a made edit that a tool would have produced used up a
\* declaration of that tool's failure; and while calls follow each other, a
\* declaration covers one of them and no other.
THEOREM DeclarationsAreNeeded == GatesSpec => []DeclarationsCover
<1>1. GInv => ShapedEditsAreCovered
  <2>. SUFFICES ASSUME GInv, NEW c \in Ids, Made(c), call[c].what.kind = "edit",
                       NEW i \in DOMAIN call[c].what.tools
                PROVE  \E u \in uses : /\ u.by = c /\ u.pair = i
                                       /\ Head(call[u.id].what.tools) = call[c].what.tools[i]
    BY DEF ShapedEditsAreCovered
  <2>1. call[c].guard = "allow" /\ call[c].what \in Menu /\ call[c].pair \in Nat /\ Covered(c)
    BY DEF GInv, Made, CallControl, Cover, GatesTypes, CallRecord
  <2>2. Len(call[c].what.tools) \in Nat /\ i \in 1..Len(call[c].what.tools)
    BY <2>1, MenuTypes
  <2>3. i \in 1..(call[c].pair - 1)
    BY <2>1, <2>2 DEF Covered
  <2>. QED BY <2>1, <2>3 DEF Covered
<1>2. GInv => CoveredOnce
  BY DEF GInv, Unused, CoveredOnce
<1>. QED BY <1>1, <1>2, GatesInvariant, PTL DEF DeclarationsCover

\* While calls follow each other, every nominated write that is let through used an
\* answer, to a refusal no other write answered, about the job refused there.
THEOREM AnswersAreBound == GatesSpec => []AnswersTheirRefusal
<1>1. GInv => AnswersTheirRefusal
  <2>. SUFFICES ASSUME GInv, ~crossed
                PROVE  /\ \A c \in Ids : Made(c) /\ call[c].what.nominee # NoNominee
                                           => \E g \in given : g.by = c
                       /\ \A g \in given : answers[g.id].to > 0
                                           /\ answers[g.id].job = refusals[answers[g.id].to]
                       /\ \A g, k \in given : answers[g.id].to = answers[k.id].to => g = k
    BY DEF AnswersTheirRefusal
  <2>1. \A c \in Ids : Made(c) /\ call[c].what.nominee # NoNominee => \E g \in given : g.by = c
    BY DEF GInv, Made, CallControl, Answered, Heard
  <2>2. \A g \in given : answers[g.id].to \in DOMAIN refusals
                         /\ answers[g.id].job = refusals[answers[g.id].to]
    BY DEF GInv, Answered, Bound, To
  <2>3. \A n \in DOMAIN refusals : n > 0
    BY DEF GInv, GatesTypes
  <2>4. \A g, k \in given : answers[g.id].to = answers[k.id].to => g = k
    BY DEF GInv, Bound, To
  <2>. QED BY <2>1, <2>2, <2>3, <2>4
<1>. QED BY <1>1, GatesInvariant, PTL

\* While calls follow each other, a command that wrote Java outside a window is in
\* the log of misses when its hooks are done.
THEOREM WritesAreLogged == GatesSpec => []LoneWritesAreNoticed
<1>1. GInv => LoneWritesAreNoticed
  BY DEF GInv, Noticed, Wrote, LoneWritesAreNoticed, WritesAreNoticed
<1>. QED BY <1>1, GatesInvariant, PTL

-----------------------------------------------------------------------------
(* The gate of turns. *)

\* A judge sent to the background is asked in this attempt exactly while the
\* window holds its call and its answer is still awaited.
AskedIsRead ==
    /\ asked => "behind" \in turn.calls
    /\ "behind" \in turn.calls /\ "judge" \in awaited => asked

\* The transcript is read as it happened.
ReadIsHeard == turn.verdict = word /\ turn.open = told

StopInv == StopTypeOK /\ AskedIsRead /\ ReadIsHeard

LEMMA UpToType ==
    ASSUME NEW n \in Nat, NEW top \in Nat
    PROVE  UpTo(n, top) \in 0..top
  BY SMTT(40) DEF UpTo

\* The windows that his line, his interrupt and a notification open.
LEMMA FreshWindows ==
    /\ [NewWindow EXCEPT !.human = TRUE] \in Windows
    /\ [NewWindow EXCEPT !.human = TRUE, !.interrupted = TRUE] \in Windows
    /\ \A open \in BOOLEAN, calls \in SUBSET {"here", "behind"}, heard \in Words :
         [NewWindow EXCEPT !.open = open, !.calls = calls, !.verdict = heard] \in Windows
  <1>1. 0 \in 0..Alarm
    BY StopAssumption
  <1> QED
    BY <1>1 DEF NewWindow, Windows, Words

LEMMA InitStopInv == StopInit => StopInv
  <1> SUFFICES ASSUME StopInit PROVE StopInv
    OBVIOUS
  <1> USE StopAssumption DEF StopInit, NewWindow, Words
  <1>1. turn \in Windows /\ CountersTypeOK /\ SessionTypeOK
    <2>1. turn \in Windows
      BY DEF Windows
    <2>2. CountersTypeOK
      BY DEF CountersTypeOK
    <2>3. SessionTypeOK
      BY DEF SessionTypeOK
    <2> QED
      BY <2>1, <2>2, <2>3
  <1>2. AskedIsRead /\ ReadIsHeard
    BY DEF AskedIsRead, ReadIsHeard
  <1> QED
    BY <1>1, <1>2 DEF StopInv, StopTypeOK

\* What wakes the session keeps the invariant.
LEMMA WindowsKeepStopInv ==
    ASSUME StopInv,
           \/ \E switch \in {"on", "off", "plain"} : Prompt(switch)
           \/ Interrupt
           \/ \E what \in {"job", "judge", "wakeup"}, answer \in Words : Wake(what, answer)
           \/ \E what \in {"job", "judge"} : Finish(what) \/ Machine(what)
    PROVE  StopInv'
  <1> USE StopAssumption DEF StopInv, Words
  <1>1. CASE \E switch \in {"on", "off", "plain"} : Prompt(switch)
    <2> PICK switch \in {"on", "off", "plain"} : Prompt(switch)
      BY <1>1
    <2> USE DEF Prompt, NewAttempt
    <2>1. StopTypeOK'
      <3>1. turn' \in Windows
        BY FreshWindows
      <3>2. CountersTypeOK'
        BY DEF StopTypeOK, CountersTypeOK
      <3>3. SessionTypeOK'
        BY DEF StopTypeOK, SessionTypeOK
      <3> QED
        BY <3>1, <3>2, <3>3, SMTT(40) DEF StopTypeOK
    <2>2. AskedIsRead' /\ ReadIsHeard'
      BY DEF NewWindow, AskedIsRead, ReadIsHeard
    <2> QED
      BY <2>1, <2>2
  <1>2. CASE Interrupt
    <2> USE <1>2 DEF Interrupt, NewAttempt, counters
    <2>1. StopTypeOK'
      <3>1. turn' \in Windows
        BY FreshWindows
      <3>2. CountersTypeOK'
        BY DEF StopTypeOK, CountersTypeOK
      <3>3. SessionTypeOK'
        BY DEF StopTypeOK, SessionTypeOK
      <3> QED
        BY <3>1, <3>2, <3>3, SMTT(40) DEF StopTypeOK
    <2>2. AskedIsRead' /\ ReadIsHeard'
      BY DEF NewWindow, AskedIsRead, ReadIsHeard
    <2> QED
      BY <2>1, <2>2
  <1>3. CASE \E what \in {"job", "judge", "wakeup"}, answer \in Words : Wake(what, answer)
    <2> PICK what \in {"job", "judge", "wakeup"}, answer \in Words : Wake(what, answer)
      BY <1>3
    <2> USE DEF Wake, counters
    <2>1. StopTypeOK'
      <3>1. turn' \in Windows
        <4> DEFINE heard == what = "judge" /\ answer # "none" /\ "behind" \in turn.calls
        <4>1. (IF heard THEN answer = "resolvable" ELSE turn.open) \in BOOLEAN
          BY DEF StopTypeOK, Windows
        <4>2. (IF heard THEN {"behind"} ELSE {}) \in SUBSET {"here", "behind"}
          OBVIOUS
        <4>3. (IF heard THEN answer ELSE "none") \in Words
          OBVIOUS
        <4> HIDE DEF Words
        <4> QED
          BY <4>1, <4>2, <4>3, FreshWindows
      <3>2. CountersTypeOK'
        BY DEF StopTypeOK, CountersTypeOK
      <3>3. SessionTypeOK'
        BY DEF StopTypeOK, SessionTypeOK
      <3> QED
        BY <3>1, <3>2, <3>3 DEF StopTypeOK
    <2>2. AskedIsRead'
      BY DEF NewWindow, AskedIsRead
    <2>3. ReadIsHeard'
      BY DEF NewWindow, AskedIsRead, ReadIsHeard, StopTypeOK, Windows, SessionTypeOK
    <2> QED
      BY <2>1, <2>2, <2>3
  <1>4. CASE \E what \in {"job", "judge"} : Finish(what) \/ Machine(what)
    <2> PICK what \in {"job", "judge"} : Finish(what) \/ Machine(what)
      BY <1>4
    <2>1. /\ awaited' \subseteq awaited /\ over' \subseteq awaited' \ {"wakeup"}
          /\ UNCHANGED <<situation, agent, turn, store, counters, retry, watched>>
      BY DEF Finish, Machine, StopTypeOK, SessionTypeOK
    <2> QED
      BY <2>1 DEF StopTypeOK, CountersTypeOK, SessionTypeOK, AskedIsRead, ReadIsHeard,
                  counters, watched
  <1> QED
    BY <1>1, <1>2, <1>3, <1>4

\* So does what the agent does.
LEMMA DeedsKeepStopInv ==
    ASSUME StopInv,
           \/ Work \/ SendJudge \/ Relay
           \/ \E what \in {"story", "members"} : Author(what) \/ Deposit(what)
           \/ \E what \in {"job", "wakeup"} : Launch(what)
           \/ \E answer \in Words : Consult(answer)
    PROVE  StopInv'
  <1> USE StopAssumption DEF StopInv, Words, Does, Worked, counters, watched, launched
  <1>1. CASE Work
    <2>1. StopTypeOK'
      <3>1. turn' \in Windows
        BY <1>1 DEF Work, StopTypeOK, Windows
      <3>2. CountersTypeOK'
        BY <1>1 DEF Work, StopTypeOK, CountersTypeOK
      <3>3. SessionTypeOK'
        BY <1>1 DEF Work, StopTypeOK, SessionTypeOK
      <3> QED
        BY <3>1, <3>2, <3>3 DEF StopTypeOK
    <2>2. AskedIsRead' /\ ReadIsHeard'
      BY <1>1 DEF Work, StopTypeOK, Windows, SessionTypeOK, AskedIsRead, ReadIsHeard
    <2> QED
      BY <2>1, <2>2
  <1>2. CASE SendJudge
    <2>1. StopTypeOK'
      <3>1. turn' \in Windows
        BY <1>2 DEF SendJudge, StopTypeOK, Windows
      <3>2. CountersTypeOK'
        BY <1>2 DEF SendJudge, StopTypeOK, CountersTypeOK
      <3>3. SessionTypeOK'
        BY <1>2 DEF SendJudge, StopTypeOK, SessionTypeOK
      <3> QED
        BY <3>1, <3>2, <3>3 DEF StopTypeOK
    <2>2. AskedIsRead' /\ ReadIsHeard'
      BY <1>2 DEF SendJudge, StopTypeOK, Windows, SessionTypeOK, AskedIsRead, ReadIsHeard
    <2> QED
      BY <2>1, <2>2
  <1>3. CASE Relay
    <2>1. StopTypeOK'
      <3>1. turn' \in Windows
        <4>1. turn \in Windows
          BY DEF StopTypeOK
        <4>2. CASE turn.refusals < Alarm /\ turn' = [turn EXCEPT !.refusals = @ + 1]
          <5>1. turn.refusals + 1 \in 0..Alarm
            BY <4>1, <4>2 DEF Windows
          <5> QED
            BY <4>1, <4>2, <5>1 DEF Windows
        <4>3. CASE turn' = [turn EXCEPT !.settled = TRUE]
          BY <4>1, <4>3 DEF Windows
        <4> QED
          BY <1>3, <4>2, <4>3 DEF Relay
      <3>2. CountersTypeOK'
        BY <1>3 DEF Relay, StopTypeOK, CountersTypeOK
      <3>3. SessionTypeOK'
        BY <1>3 DEF Relay, StopTypeOK, SessionTypeOK
      <3> QED
        BY <3>1, <3>2, <3>3 DEF StopTypeOK
    <2>2. AskedIsRead' /\ ReadIsHeard'
      BY <1>3 DEF Relay, StopTypeOK, Windows, SessionTypeOK, AskedIsRead, ReadIsHeard
    <2> QED
      BY <2>1, <2>2
  <1>4. CASE \E what \in {"story", "members"} : Author(what) \/ Deposit(what)
    <2> PICK what \in {"story", "members"} : Author(what) \/ Deposit(what)
      BY <1>4
    <2>1. /\ \E wrote \in SUBSET {"story", "members"} :
               turn' = [turn EXCEPT !.worked = TRUE, !.open = FALSE, !.wrote = wrote]
          /\ store' \in SUBSET {"story", "members"} /\ told' = FALSE
          /\ UNCHANGED <<situation, agent, awaited, over, grant, reseed, jobs, carried,
                         retry, word, asked>>
      <3>1. turn \in Windows /\ store \in SUBSET {"story", "members"}
        BY DEF StopTypeOK, SessionTypeOK
      <3>2. CASE Author(what)
        <4>1. turn.wrote \cup {what} \in SUBSET {"story", "members"}
          BY <3>1 DEF Windows
        <4>2. turn' = [turn EXCEPT !.worked = TRUE, !.open = FALSE, !.wrote = @ \cup {what}]
          BY <3>1, <3>2 DEF Author, Windows
        <4> QED
          BY <3>1, <3>2, <4>1, <4>2 DEF Author
      <3>3. CASE Deposit(what)
        <4>1. turn' = [turn EXCEPT !.worked = TRUE, !.open = FALSE, !.wrote = @]
          BY <3>1, <3>3 DEF Deposit, Windows
        <4>2. turn.wrote \in SUBSET {"story", "members"}
          BY <3>1 DEF Windows
        <4>3. store' \in SUBSET {"story", "members"}
          BY <3>1, <3>3 DEF Deposit
        <4> QED
          BY <3>3, <4>1, <4>2, <4>3 DEF Deposit
      <3> QED
        BY <3>2, <3>3
    <2>2. turn' \in Windows
      BY <2>1, ZenonT(60) DEF StopTypeOK, Windows
    <2>3. CountersTypeOK' /\ SessionTypeOK'
      BY <2>1 DEF StopTypeOK, CountersTypeOK, SessionTypeOK
    <2>4. AskedIsRead' /\ ReadIsHeard'
      <3>1. turn'.calls = turn.calls /\ turn'.verdict = turn.verdict /\ turn'.open = FALSE
        BY <2>1 DEF StopTypeOK, Windows
      <3> QED
        BY <2>1, <3>1 DEF AskedIsRead, ReadIsHeard
    <2> QED
      BY <2>2, <2>3, <2>4 DEF StopTypeOK
  <1>5. CASE \E what \in {"job", "wakeup"} : Launch(what)
    <2> PICK what \in {"job", "wakeup"} : Launch(what)
      BY <1>5
    <2>1. StopTypeOK'
      <3>1. turn' \in Windows
        BY DEF Launch, StopTypeOK, Windows
      <3>2. CountersTypeOK'
        BY DEF Launch, StopTypeOK, CountersTypeOK
      <3>3. SessionTypeOK'
        BY DEF Launch, StopTypeOK, SessionTypeOK
      <3> QED
        BY <3>1, <3>2, <3>3 DEF StopTypeOK
    <2>2. AskedIsRead' /\ ReadIsHeard'
      BY DEF Launch, StopTypeOK, Windows, SessionTypeOK, AskedIsRead, ReadIsHeard
    <2> QED
      BY <2>1, <2>2
  <1>6. CASE \E answer \in Words : Consult(answer)
    <2> PICK answer \in Words : Consult(answer)
      BY <1>6
    <2>1. StopTypeOK'
      <3>1. turn' \in Windows
        BY ZenonT(60) DEF Consult, StopTypeOK, Windows
      <3>2. CountersTypeOK'
        BY DEF Consult, StopTypeOK, CountersTypeOK
      <3>3. SessionTypeOK'
        BY DEF Consult, StopTypeOK, SessionTypeOK
      <3> QED
        BY <3>1, <3>2, <3>3 DEF StopTypeOK
    <2>2. AskedIsRead'
      BY DEF Consult, StopTypeOK, Windows, SessionTypeOK, AskedIsRead
    <2>3. ReadIsHeard'
      BY DEF Consult, StopTypeOK, Windows, SessionTypeOK, ReadIsHeard
    <2> QED
      BY <2>1, <2>2, <2>3
  <1> QED
    BY <1>1, <1>2, <1>3, <1>4, <1>5, <1>6

\* The empty turns stay within their bound.
LEMMA NotedType ==
    ASSUME StopTypeOK, NEW count \in EmptyTurns, NEW wrote \in BOOLEAN
    PROVE  /\ count \in 0..MaxEmptyTurns
           /\ Noted(count, wrote) \in {{}} \cup {{n} : n \in 0..MaxEmptyTurns}
  <1> USE StopAssumption
  <1>1. count \in 0..MaxEmptyTurns
    BY DEF StopTypeOK, CountersTypeOK, EmptyTurns
  <1>2. UpTo(count + 1, MaxEmptyTurns) \in 0..MaxEmptyTurns
    BY <1>1, UpToType, SMTT(40)
  <1>3. \/ Noted(count, wrote) = {} \/ Noted(count, wrote) = grant
        \/ Noted(count, wrote) = {0} \/ Noted(count, wrote) = {UpTo(count + 1, MaxEmptyTurns)}
    BY Zenon DEF Noted
  <1> QED
    BY <1>1, <1>2, <1>3 DEF StopTypeOK, CountersTypeOK

\* And so does a stop, held or not.
LEMMA StopsKeepStopInv ==
    ASSUME StopInv, NEW poor \in BOOLEAN, NEW owes \in SUBSET {"story", "members"},
           NEW count \in EmptyTurns, NEW wrote \in BOOLEAN,
           Stop(poor, owes, count, wrote)
    PROVE  StopInv'
  <1> USE StopAssumption DEF StopInv, Words
  <1> DEFINE empty == IF wrote \/ grant = {} THEN count ELSE MaxEmptyTurns
             held  == HeldBy(empty, owes, Refusals, poor)
  <1>2. grant' \in {{}} \cup {{n} : n \in 0..MaxEmptyTurns}
    BY NotedType DEF Stop
  <1>3. carried' \in 0..Alarm
    <2>1. Refusals \in 0..Alarm
      <3>1. turn.refusals \in 0..Alarm /\ carried \in 0..Alarm
        BY DEF StopTypeOK, Windows, CountersTypeOK
      <3>2. UpTo(carried + turn.refusals, Alarm) \in 0..Alarm
        <4>1. carried + turn.refusals \in Nat
          BY <3>1
        <4> QED
          BY <4>1, UpToType
      <3> QED
        BY <3>1, <3>2 DEF Refusals
    <2> QED
      BY <2>1 DEF Stop, StopTypeOK, CountersTypeOK
  <1>4. reseed' \in 0..MaxReseed
    <2>1. held = "story" => reseed < MaxReseed
      BY DEF HeldBy, StopTypeOK, CountersTypeOK
    <2>2. \/ reseed' = 0 \/ reseed' = reseed
          \/ held = "story" /\ reseed' = reseed + 1
      BY DEF Stop
    <2> QED
      BY <2>1, <2>2 DEF StopTypeOK, CountersTypeOK
  <1>5. jobs' \in 0..MaxJobs
    <2>1. held = "members" => jobs < MaxJobs
      BY DEF HeldBy, StopTypeOK, CountersTypeOK
    <2>2. \/ jobs' = 0 \/ jobs' = jobs
          \/ held = "members" /\ jobs' = jobs + 1
      BY DEF Stop
    <2> QED
      BY <2>1, <2>2 DEF StopTypeOK, CountersTypeOK
  <1>6. CASE held = "none"
    <2>1. /\ agent' = "asleep" /\ retry' = FALSE
          /\ UNCHANGED <<situation, turn, awaited, over, store, word, asked, told>>
      BY <1>6 DEF Stop, launched
    <2>2. StopTypeOK'
      <3>1. turn' \in Windows /\ CountersTypeOK'
        BY <2>1, <1>2, <1>3, <1>4, <1>5 DEF StopTypeOK, CountersTypeOK
      <3>2. SessionTypeOK'
        BY <2>1 DEF StopTypeOK, SessionTypeOK
      <3> QED
        BY <3>1, <3>2 DEF StopTypeOK
    <2> QED
      BY <2>1, <2>2 DEF AskedIsRead, ReadIsHeard
  <1>7. CASE held # "none"
    <2>1. /\ turn' = Pushed /\ retry' = situation.marks /\ word' = "none" /\ asked' = FALSE
          /\ UNCHANGED <<situation, agent, awaited, over, store, told>>
      BY <1>7 DEF Stop, NewAttempt, launched
    <2>2. StopTypeOK'
      <3>1. turn' \in Windows
        BY <2>1 DEF StopTypeOK, Windows, Pushed
      <3>2. CountersTypeOK'
        BY <1>2, <1>3, <1>4, <1>5 DEF CountersTypeOK
      <3>3. SessionTypeOK'
        BY <2>1 DEF StopTypeOK, SessionTypeOK
      <3> QED
        BY <3>1, <3>2, <3>3 DEF StopTypeOK
    <2>3. AskedIsRead' /\ ReadIsHeard'
      BY <2>1 DEF AskedIsRead, ReadIsHeard, Pushed, StopTypeOK, Windows
    <2> QED
      BY <2>2, <2>3
  <1> QED
    BY <1>6, <1>7

\* Or one that the gate has no word for.
LEMMA UnansweredKeepsStopInv == StopInv /\ Unanswered => StopInv'
  <1> SUFFICES ASSUME StopInv, Unanswered PROVE StopInv'
    OBVIOUS
  <1>1. /\ agent' = "asleep" /\ retry' = FALSE
        /\ UNCHANGED <<situation, turn, awaited, over, store, reseed, jobs, carried,
                       word, asked, told>>
    BY DEF Unanswered, launched
  <1>2. grant' \in {{}} \cup {{n} : n \in 0..MaxEmptyTurns}
    <2>1. \/ grant' = grant \/ \E count \in EmptyTurns : grant' = Noted(count, TRUE)
      BY Zenon DEF Unanswered
    <2> QED
      BY <2>1, NotedType DEF StopInv, StopTypeOK, CountersTypeOK
  <1>3. StopTypeOK'
    <2>1. turn' \in Windows /\ CountersTypeOK'
      BY <1>1, <1>2 DEF StopInv, StopTypeOK, CountersTypeOK
    <2>2. SessionTypeOK'
      BY <1>1 DEF StopInv, StopTypeOK, SessionTypeOK
    <2> QED
      BY <2>1, <2>2 DEF StopTypeOK
  <1> QED
    BY <1>1, <1>3 DEF StopInv, AskedIsRead, ReadIsHeard

LEMMA StopChoices ==
    ASSUME StopTypeOK, NEW poor \in {p \in BOOLEAN : p => "poor" \in situation.menu},
           NEW owes \in Owed, NEW wrote \in {w \in BOOLEAN : w \/ situation.full}
    PROVE  poor \in BOOLEAN /\ owes \in SUBSET {"story", "members"} /\ wrote \in BOOLEAN
  <1>1. poor \in BOOLEAN
    OBVIOUS
  <1>2. owes \in SUBSET {"story", "members"}
    BY DEF Owed, StopTypeOK, Windows
  <1>3. wrote \in BOOLEAN
    OBVIOUS
  <1> QED
    BY <1>1, <1>2, <1>3

LEMMA NextStopInv == StopInv /\ [StopNext]_stopVars => StopInv'
  <1> SUFFICES ASSUME StopInv, [StopNext]_stopVars PROVE StopInv'
    OBVIOUS
  <1>1. CASE \E poor \in {p \in BOOLEAN : p => "poor" \in situation.menu}, owes \in Owed,
                count \in EmptyTurns,
          wrote \in {w \in BOOLEAN : w \/ situation.full} :
                  Stop(poor, owes, count, wrote)
    <2> PICK poor \in {p \in BOOLEAN : p => "poor" \in situation.menu}, owes \in Owed,
             count \in EmptyTurns,
          wrote \in {w \in BOOLEAN : w \/ situation.full} :
               Stop(poor, owes, count, wrote)
      BY <1>1
    <2>1. poor \in BOOLEAN /\ owes \in SUBSET {"story", "members"} /\ wrote \in BOOLEAN
      BY StopChoices DEF StopInv
    <2> QED
      BY <2>1, StopsKeepStopInv
  <1>2. CASE UNCHANGED stopVars
    BY <1>2 DEF stopVars, counters, watched, launched, StopInv, StopTypeOK, Windows, CountersTypeOK,
                SessionTypeOK, AskedIsRead, ReadIsHeard
  <1> QED
    BY <1>1, <1>2, WindowsKeepStopInv, DeedsKeepStopInv, UnansweredKeepsStopInv DEF StopNext

\* The records of the stop gate are what its readers expect, for every client.
THEOREM StopGateTypeCorrect == StopSpec => []StopTypeOK
  <1>1. StopInv => StopTypeOK
    BY DEF StopInv
  <1> QED
    BY <1>1, InitStopInv, NextStopInv, PTL DEF StopSpec

\* A turn that ends under the grant ended by a stop that nothing held, and the
\* last rule asks for the judge's word.
LEMMA ReleaseIsJudged ==
    ASSUME StopInv, NEW poor \in BOOLEAN, NEW owes \in SUBSET {"story", "members"},
           NEW count \in EmptyTurns, NEW wrote \in BOOLEAN,
           Stop(poor, owes, count, wrote), agent' = "asleep", ~lost',
           grant # {}, Armed = {}, ~turn.interrupted,
           grant # {MaxEmptyTurns} \/ told, reseed < MaxReseed, jobs < MaxJobs
    PROVE  word = "reserved"
  <1> USE StopAssumption
  <1> DEFINE empty == IF wrote \/ grant = {} THEN count ELSE MaxEmptyTurns
  <1>1. wrote /\ empty = count
    BY DEF Stop
  <1>2. Engaged(empty)
    <2>1. count < MaxEmptyTurns \/ turn.open
      BY DEF StopInv, StopTypeOK, CountersTypeOK, ReadIsHeard, EmptyTurns
    <2> QED
      BY <1>1, <2>1 DEF Engaged
  <1>3. HeldBy(empty, owes, Refusals, poor) = "none"
    <2>1. agent = "working" /\ (HeldBy(empty, owes, Refusals, poor) # "none" => agent' = agent)
      BY DEF Stop
    <2> QED
      BY <2>1
  <1>4. turn.verdict = "reserved"
    BY <1>2, <1>3 DEF HeldBy, StopInv, StopTypeOK, CountersTypeOK
  <1> QED
    BY <1>4 DEF StopInv, ReadIsHeard

\* "Every stop under a live grant with nothing pending consults the judge"
\* (stop.rs:701), but for the exceptions that StopsAreJudged names.
THEOREM GrantedStopsAreJudged == StopSpec => StopsAreJudged
  <1> DEFINE Judged ==
        /\ agent = "working" /\ agent' = "asleep" /\ ~lost'
        /\ grant # {} /\ Armed = {} /\ ~turn.interrupted
        /\ grant # {MaxEmptyTurns} \/ told
        /\ reseed < MaxReseed /\ jobs < MaxJobs
        => word = "reserved"
  <1>1. StopInv /\ [StopNext]_stopVars => [Judged]_stopVars
    <2> SUFFICES ASSUME StopInv, StopNext, agent = "working", agent' = "asleep", ~lost',
                        grant # {}, Armed = {}, ~turn.interrupted,
                        grant # {MaxEmptyTurns} \/ told, reseed < MaxReseed, jobs < MaxJobs
                 PROVE  word = "reserved"
      OBVIOUS
    <2>1. \E poor \in {p \in BOOLEAN : p => "poor" \in situation.menu}, owes \in Owed,
             count \in EmptyTurns,
          wrote \in {w \in BOOLEAN : w \/ situation.full} :
               Stop(poor, owes, count, wrote)
      BY DEF StopNext, Prompt, Interrupt, Wake, Finish, Machine, Work, SendJudge, Relay, Author,
             Deposit, Launch, Consult, Unanswered
    <2> PICK poor \in {p \in BOOLEAN : p => "poor" \in situation.menu}, owes \in Owed,
             count \in EmptyTurns,
          wrote \in {w \in BOOLEAN : w \/ situation.full} :
               Stop(poor, owes, count, wrote)
      BY <2>1
    <2>2. poor \in BOOLEAN /\ owes \in SUBSET {"story", "members"} /\ wrote \in BOOLEAN
      BY StopChoices DEF StopInv
    <2> QED
      BY <2>2, ReleaseIsJudged
  <1> QED
    BY <1>1, InitStopInv, NextStopInv, PTL DEF StopSpec, StopsAreJudged
-----------------------------------------------------------------------------
(* An idle agent is held a bounded number of times. Every hold is an empty  *)
(* turn under the grant, so rule B ends, whatever holds the turn in between. *)
(* The count of a story is not forgotten while the store says it is owed.    *)
(* And a client that marks its retries is past the valve when rule B has     *)
(* ended, unless a story is owed: then every hold but the alarm's counts it. *)

Rules == {"judge", "story", "members", "all"}

\* A streak is of an idle agent, and rule B counts none when he interrupted.
IdleInv ==
    /\ streak \in [Rules -> Nat] /\ lost \in BOOLEAN
    /\ turn.worked => streak = NoStreak
    /\ turn.interrupted /\ grant # {} => streak = NoStreak
    /\ turn.verdict = "resolvable" => turn.open \/ turn.worked

\* Rule B has no more pushes than there were empty turns.
PushInv == /\ grant = {} => streak["judge"] = 0
           /\ \A c \in grant : streak["judge"] <= c + 1

\* What a store that always answers had the turn held for is still owed.
StoreInv ==
    lost \/ situation.silent \/
       /\ streak["story"] <= reseed /\ streak["members"] <= jobs
       /\ streak["story"] > 0 => "story" \in turn.wrote \cap store
       /\ streak["members"] > 0 => "members" \in turn.wrote \cap store

\* Where retries are marked, the holds are the empty turns and then the story's.
AllInv ==
    lost \/
       /\ streak["all"] > 0 => retry
       /\ grant = {} => streak["all"] <= 1 + reseed
       /\ \A c \in grant : c < MaxEmptyTurns => streak["all"] <= c + 1
       /\ streak["all"] <= MaxEmptyTurns + 1 + reseed

WedgeInv == IdleInv /\ PushInv /\ StoreInv /\ AllInv

LEMMA StreakStarts == NoStreak \in [Rules -> Nat] /\ \A rule \in Rules : NoStreak[rule] = 0
  <1>1. DOMAIN Ceiling = Rules
    BY DEF Ceiling, Rules
  <1> QED
    BY <1>1 DEF NoStreak

\* Where a streak starts anew there is nothing to count.
LEMMA NoStreakKeeps ==
    ASSUME StopTypeOK', streak' = NoStreak, lost' \in BOOLEAN,
           turn'.verdict = "resolvable" => turn'.open \/ turn'.worked
    PROVE  WedgeInv'
  <1>1. /\ streak'["judge"] = 0 /\ streak'["story"] = 0
        /\ streak'["members"] = 0 /\ streak'["all"] = 0
    BY StreakStarts DEF Rules
  <1>2. /\ MaxEmptyTurns \in Nat /\ reseed' \in Nat /\ jobs' \in Nat
        /\ \A c \in grant' : c \in Nat
    BY StopAssumption DEF StopTypeOK, CountersTypeOK
  <1>3. IdleInv'
    BY StreakStarts DEF IdleInv
  <1>4. PushInv'
    BY <1>1, <1>2 DEF PushInv
  <1>5. StoreInv'
    BY <1>1, <1>2 DEF StoreInv
  <1>6. AllInv'
    <2>1. ~(0 > 0) /\ \A f, top \in Nat : 0 <= 1 + f /\ 0 <= top + 1 + f
      OBVIOUS
    <2>2. 0 <= 1 + reseed' /\ 0 <= MaxEmptyTurns + 1 + reseed'
      BY <1>2, <2>1, Zenon
    <2>3. \A c \in Nat : 0 <= c + 1
      OBVIOUS
    <2>4. \A c \in grant' : 0 <= c + 1
      BY <1>2, <2>3, Zenon
    <2> QED
      BY <1>1, <2>1, <2>2, <2>4, Zenon DEF AllInv
  <1> QED
    BY <1>3, <1>4, <1>5, <1>6 DEF WedgeInv

\* What nobody is held for: the same streak, the same counters.
LEMMA SameStreakKeeps ==
    ASSUME WedgeInv,
           UNCHANGED <<streak, lost, grant, reseed, jobs, store, situation, retry>>,
           turn'.worked = turn.worked, turn'.interrupted = turn.interrupted,
           turn'.wrote = turn.wrote,
           turn'.verdict = "resolvable" => turn'.open \/ turn'.worked
    PROVE  WedgeInv'
  BY DEF WedgeInv, IdleInv, PushInv, StoreInv, AllInv

LEMMA OthersKeepWedgeInv ==
    ASSUME StopInv, StopInv', WedgeInv,
           \/ \E switch \in {"on", "off", "plain"} : Prompt(switch)
           \/ Interrupt
           \/ \E what \in {"job", "judge", "wakeup"}, answer \in Words : Wake(what, answer)
           \/ \E what \in {"job", "judge"} : Finish(what) \/ Machine(what)
           \/ Work \/ SendJudge \/ Relay
           \/ \E what \in {"story", "members"} : Author(what) \/ Deposit(what)
           \/ \E what \in {"job", "wakeup"} : Launch(what)
           \/ \E answer \in Words : Consult(answer)
           \/ Unanswered
    PROVE  WedgeInv'
  <1> USE DEF counters, watched, launched
  <1>1. turn \in Windows /\ lost \in BOOLEAN
    BY DEF StopInv, StopTypeOK, WedgeInv, IdleInv
  <1>2. turn.verdict = "resolvable" => turn.open \/ turn.worked
    BY DEF WedgeInv, IdleInv
  <1>3. ASSUME streak' = NoStreak, lost' \in BOOLEAN,
               turn'.verdict = "resolvable" => turn'.open \/ turn'.worked
        PROVE  WedgeInv'
    <2>1. StopTypeOK'
      BY DEF StopInv
    <2> QED
      BY <1>3, <2>1, NoStreakKeeps
  <1>4. CASE (\E switch \in {"on", "off", "plain"} : Prompt(switch)) \/ Interrupt
    BY <1>3, <1>4 DEF Prompt, Interrupt, NewWindow, Stirred
  <1>5. CASE \E what \in {"job", "judge", "wakeup"}, answer \in Words : Wake(what, answer)
    <2> PICK what \in {"job", "judge", "wakeup"}, answer \in Words : Wake(what, answer)
      BY <1>5
    <2>1. turn'.verdict = "resolvable" => turn'.open
      BY DEF Wake, NewWindow
    <2> QED
      BY <2>1, <1>3 DEF Wake, Stirred
  <1>6. CASE Work \/ (\E what \in {"story", "members"} : Author(what) \/ Deposit(what))
             \/ (\E what \in {"job", "wakeup"} : Launch(what))
    <2>1. turn'.worked
      BY <1>1, <1>6 DEF Work, Author, Deposit, Launch, Worked, Windows
    <2>2. streak' = NoStreak /\ lost' = FALSE
      BY <1>6 DEF Work, Author, Deposit, Launch, Stirred
    <2> QED
      BY <2>1, <2>2, <1>3
  <1>7. CASE (\E what \in {"job", "judge"} : Finish(what) \/ Machine(what)) \/ SendJudge \/ Relay
    <2>1. /\ UNCHANGED <<streak, lost, grant, reseed, jobs, store, situation, retry>>
          /\ turn'.worked = turn.worked /\ turn'.interrupted = turn.interrupted
          /\ turn'.wrote = turn.wrote /\ turn'.verdict = turn.verdict /\ turn'.open = turn.open
      BY <1>1, <1>7 DEF Finish, Machine, SendJudge, Relay, Windows
    <2> QED
      BY <1>2, <2>1, SameStreakKeeps
  <1>8. CASE \E answer \in Words : Consult(answer)
    <2> PICK answer \in Words : Consult(answer)
      BY <1>8
    <2>1. /\ UNCHANGED <<streak, lost, grant, reseed, jobs, store, situation, retry>>
          /\ turn'.worked = turn.worked /\ turn'.interrupted = turn.interrupted
          /\ turn'.wrote = turn.wrote
      BY <1>1 DEF Consult, Windows
    <2>2. turn'.verdict = "resolvable" => turn'.open \/ turn'.worked
      BY <1>1, <1>2 DEF Consult, Windows
    <2> QED
      BY <2>1, <2>2, SameStreakKeeps
  <1>9. CASE Unanswered
    BY <1>2, <1>3, <1>9 DEF Unanswered
  <1> QED
    BY <1>4, <1>5, <1>6, <1>7, <1>8, <1>9

LEMMA UpToBound ==
    ASSUME NEW n \in Nat, NEW top \in Nat
    PROVE  UpTo(n, top) <= n /\ UpTo(n, top) \in Nat
  BY DEF UpTo

\* A hold is counted once by its rule, and once among all.
LEMMA StreakCounts ==
    ASSUME streak \in [Rules -> Nat], NEW held
    PROVE  /\ StreakWith(held) \in [Rules -> Nat]
           /\ \A rule \in Rules :
                /\ StreakWith(held)[rule] <= streak[rule] + 1
                /\ ~(rule = held \/ (rule = "all" /\ held # "audit" /\ situation.marks))
                     => StreakWith(held)[rule] = streak[rule]
  <1>1. \A rule \in Rules : Ceiling[rule] + 1 \in Nat
    BY StopAssumption DEF Ceiling, Rules
  <1>2. ASSUME NEW rule \in Rules
        PROVE  /\ streak[rule] + 1 \in Nat
               /\ UpTo(streak[rule] + 1, Ceiling[rule] + 1) \in Nat
               /\ UpTo(streak[rule] + 1, Ceiling[rule] + 1) <= streak[rule] + 1
    <2> PICK n \in Nat, top \in Nat : n = streak[rule] + 1 /\ top = Ceiling[rule] + 1
      BY <1>1
    <2>1. UpTo(n, top) <= n /\ UpTo(n, top) \in Nat
      BY UpToBound
    <2> QED
      BY <2>1, Zenon
  <1>3. DOMAIN streak = Rules
    OBVIOUS
  <1> QED
    BY <1>2, <1>3 DEF StreakWith

\* What holds an idle agent: rule B while empty turns are left, and on a retry
\* nothing but a story when none are.
LEMMA HoldsAreFew ==
    ASSUME StopInv, WedgeInv, NEW poor \in BOOLEAN, NEW owes \in SUBSET {"story", "members"},
           NEW count \in EmptyTurns, NEW wrote \in BOOLEAN, ~told, ~turn.worked,
           NEW empty, empty = IF wrote \/ grant = {} THEN count ELSE MaxEmptyTurns,
           NEW held, held = HeldBy(empty, owes, Refusals, poor), held # "none"
    PROVE  /\ held = "judge" => grant = {count} /\ wrote /\ count < MaxEmptyTurns
           /\ retry => \/ grant = {count} /\ wrote /\ count < MaxEmptyTurns
                       \/ "story" \in owes /\ held \in {"audit", "story"}
  <1> USE StopAssumption
  <1>1. turn.open = FALSE /\ turn.verdict # "resolvable"
    BY DEF WedgeInv, IdleInv, StopInv, ReadIsHeard
  <1>2. Engaged(empty) => grant = {count} /\ wrote /\ count < MaxEmptyTurns
    <2>1. grant # {} => grant = {count}
      BY DEF StopInv, StopTypeOK, CountersTypeOK, EmptyTurns
    <2>2. count \in 0..MaxEmptyTurns
      BY NotedType DEF StopInv
    <2>3. Engaged(empty) => grant # {} /\ empty < MaxEmptyTurns
      BY <1>1 DEF Engaged
    <2> QED
      BY <2>1, <2>2, <2>3
  <1>3. held = "judge" => Engaged(empty)
    BY Zenon DEF HeldBy
  <1>4. retry => "story" \in owes \/ Engaged(empty)
    BY Zenon DEF HeldBy
  <1>5. "story" \in owes => held \in {"audit", "story"}
    BY DEF HeldBy
  <1> QED
    BY <1>2, <1>3, <1>4, <1>5, Zenon

\* What a hold does to the counters and the window.
HeldStep(held, owes, count, wrote) ==
    /\ streak' = StreakWith(held) /\ turn' = Pushed /\ retry' = situation.marks
    /\ store' = store /\ situation' = situation /\ lost' = (lost \/ ~wrote)
    /\ reseed' = IF "story" \notin owes THEN 0
                 ELSE IF wrote /\ held = "story" THEN reseed + 1 ELSE reseed
    /\ jobs' = IF "members" \notin owes THEN 0
               ELSE IF wrote /\ held = "members" THEN jobs + 1 ELSE jobs
    /\ grant' = Noted(count, wrote)

LEMMA HoldKeepsPushInv ==
    ASSUME StopInv, WedgeInv, NEW owes, NEW count \in EmptyTurns, NEW wrote \in BOOLEAN,
           NEW held, HeldStep(held, owes, count, wrote),
           held = "judge" => grant # {} /\ ~turn.interrupted,
           ~turn.worked /\ held = "judge" => grant = {count} /\ wrote /\ count < MaxEmptyTurns
    PROVE  PushInv'
  <1> USE StopAssumption
  <1> DEFINE before == streak["judge"]
             after  == streak'["judge"]
  <1>1. /\ before \in Nat /\ after \in Nat /\ after <= before + 1
        /\ held # "judge" => after = before
    BY StreakCounts DEF HeldStep, WedgeInv, IdleInv, Rules
  <1>2. /\ count \in 0..MaxEmptyTurns /\ (grant # {} => grant = {count})
        /\ turn.worked \in BOOLEAN /\ turn.interrupted \in BOOLEAN
    BY NotedType DEF StopInv, StopTypeOK, CountersTypeOK, EmptyTurns, Windows
  <1>3. /\ grant = {} => before = 0
        /\ \A c \in grant : before <= c + 1
        /\ turn.worked \/ (turn.interrupted /\ grant # {}) => before = 0
    BY StreakStarts DEF WedgeInv, PushInv, IdleInv, Rules
  <1>4. grant' = IF grant = {} \/ turn.interrupted THEN {}
                 ELSE IF ~wrote THEN grant
                 ELSE IF turn.worked THEN {0} ELSE {UpTo(count + 1, MaxEmptyTurns)}
    BY Zenon DEF HeldStep, Noted
  <1> HIDE DEF before, after
  <1>5. /\ grant' = {} => after = 0
        /\ \A c \in grant' : after <= c + 1
    <2>1. CASE grant = {} \/ turn.interrupted
      BY <1>1, <1>2, <1>3, <1>4, <2>1
    <2>2. CASE ~(grant = {} \/ turn.interrupted) /\ turn.worked
      <3>1. after <= 1 /\ grant' # {} /\ \A c \in grant' : c \in Nat
        BY <1>1, <1>2, <1>3, <1>4, <2>2
      <3> QED
        BY <1>1, <3>1
    <2>3. CASE ~(grant = {} \/ turn.interrupted) /\ ~turn.worked /\ ~wrote
      BY <1>1, <1>2, <1>3, <1>4, <2>3
    <2>4. CASE ~(grant = {} \/ turn.interrupted) /\ ~turn.worked /\ wrote
      <3>1. grant' = {UpTo(count + 1, MaxEmptyTurns)} /\ before <= count + 1
        BY <1>2, <1>3, <1>4, <2>4
      <3>2. CASE held = "judge"
        BY <1>1, <1>2, <2>4, <3>1, <3>2 DEF UpTo
      <3>3. CASE held # "judge"
        BY <1>1, <1>2, <3>1, <3>3 DEF UpTo
      <3> QED
        BY <3>2, <3>3
    <2> QED
      BY <1>2, <2>1, <2>2, <2>3, <2>4
  <1> QED
    BY <1>5 DEF PushInv, after

LEMMA HoldKeepsStoreInv ==
    ASSUME StopInv, WedgeInv, NEW owes \in Owed, NEW count \in EmptyTurns, NEW wrote \in BOOLEAN,
           NEW held, HeldStep(held, owes, count, wrote),
           held = "story" => "story" \in owes, held = "members" => "members" \in owes
    PROVE  StoreInv'
  <1> SUFFICES ASSUME ~lost', ~situation'.silent PROVE StoreInv'
    BY DEF StoreInv
  <1>1. wrote /\ ~lost /\ ~situation.silent /\ owes = turn.wrote \cap store
    BY DEF HeldStep, Owed, WedgeInv, IdleInv
  <1>2. /\ streak["story"] \in Nat /\ streak["members"] \in Nat
        /\ streak'["story"] \in Nat /\ streak'["members"] \in Nat
        /\ streak'["story"] <= streak["story"] + 1 /\ streak'["members"] <= streak["members"] + 1
        /\ held # "story" => streak'["story"] = streak["story"]
        /\ held # "members" => streak'["members"] = streak["members"]
    BY StreakCounts DEF HeldStep, WedgeInv, IdleInv, Rules
  <1>3. /\ streak["story"] <= reseed /\ streak["members"] <= jobs
        /\ streak["story"] > 0 => "story" \in owes
        /\ streak["members"] > 0 => "members" \in owes
    BY <1>1 DEF WedgeInv, StoreInv
  <1>4. turn'.wrote \cap store' = owes
    BY <1>1 DEF HeldStep, Pushed, StopInv, StopTypeOK, Windows
  <1>5. reseed \in Nat /\ jobs \in Nat
    BY StopAssumption DEF StopInv, StopTypeOK, CountersTypeOK
  <1>6. streak'["story"] <= reseed' /\ (streak'["story"] > 0 => "story" \in owes)
    BY <1>1, <1>2, <1>3, <1>5 DEF HeldStep
  <1>7. streak'["members"] <= jobs' /\ (streak'["members"] > 0 => "members" \in owes)
    BY <1>1, <1>2, <1>3, <1>5 DEF HeldStep
  <1> QED
    BY <1>4, <1>6, <1>7 DEF StoreInv

\* How one more hold adds up: `b` holds become `a`, the story's counter goes
\* from `e` to `f`, and the grant has seen `n` of `top` empty turns.
FirstHold(a, f, top) == a <= 1 + f /\ a <= top + 1 + f /\ \A c \in Nat : a <= c + 1

LEMMA FirstHolds ==
    ASSUME NEW a \in Nat, NEW b \in Nat, NEW f \in Nat, NEW top \in Nat, a <= b + 1, b = 0
    PROVE  FirstHold(a, f, top)
  BY DEF FirstHold

EarlyHold(a, b, f, n, top) ==
    b <= n + 1 /\ n < top => a <= (n + 1) + 1 /\ a <= top + 1 + f

LEMMA EarlyHolds ==
    ASSUME NEW a \in Nat, NEW b \in Nat, NEW f \in Nat, NEW n \in Nat, NEW top \in Nat,
           a <= b + 1
    PROVE  EarlyHold(a, b, f, n, top)
  BY DEF EarlyHold

LateHold(a, b, e, f, top) ==
    (a = b /\ f = e) \/ f = e + 1
      => /\ b <= 1 + e => a <= 1 + f
         /\ b <= top + 1 + e => a <= top + 1 + f

LEMMA LateHolds ==
    ASSUME NEW a \in Nat, NEW b \in Nat, NEW e \in Nat, NEW f \in Nat, NEW top \in Nat,
           a <= b + 1
    PROVE  LateHold(a, b, e, f, top)
  BY DEF LateHold

LEMMA HoldKeepsAllInv ==
    ASSUME StopInv, StopInv', WedgeInv, NEW owes \in SUBSET {"story", "members"},
           NEW count \in EmptyTurns, NEW wrote \in BOOLEAN,
           NEW held, held # "all", HeldStep(held, owes, count, wrote),
           ~turn.worked /\ retry => \/ grant = {count} /\ wrote /\ count < MaxEmptyTurns
                                    \/ "story" \in owes /\ held \in {"audit", "story"}
    PROVE  AllInv'
  <1> USE StopAssumption
  <1> SUFFICES ASSUME ~lost' PROVE AllInv'
    BY DEF AllInv
  <1> DEFINE before == streak["all"]
             after  == streak'["all"]
  <1>1. wrote /\ ~lost
    BY DEF HeldStep, WedgeInv, IdleInv
  <1>2. /\ before \in Nat /\ after \in Nat /\ after <= before + 1
        /\ held = "audit" \/ ~situation.marks => after = before
    <2>1. /\ StreakWith(held)["all"] <= before + 1 /\ StreakWith(held)["all"] \in Nat /\ before \in Nat
          /\ ~("all" = held \/ ("all" = "all" /\ held # "audit" /\ situation.marks))
               => StreakWith(held)["all"] = before
      BY StreakCounts DEF WedgeInv, IdleInv, Rules
    <2>2. after = StreakWith(held)["all"] /\ held # "all"
      BY DEF HeldStep
    <2> QED
      BY <2>1, <2>2
  <1>3. /\ count \in 0..MaxEmptyTurns /\ (grant # {} => grant = {count})
        /\ turn.worked \in BOOLEAN /\ turn.interrupted \in BOOLEAN
        /\ reseed \in Nat /\ reseed' \in Nat /\ \A c \in grant' : c \in Nat
    BY NotedType DEF StopInv, StopTypeOK, CountersTypeOK, EmptyTurns, Windows
  <1>4. /\ before > 0 => retry /\ ~turn.worked /\ ~(turn.interrupted /\ grant # {})
        /\ grant = {} => before <= 1 + reseed
        /\ \A c \in grant : c < MaxEmptyTurns => before <= c + 1
        /\ before <= MaxEmptyTurns + 1 + reseed
    BY <1>1, StreakStarts DEF WedgeInv, AllInv, IdleInv, Rules
  <1>5. grant' = IF grant = {} \/ turn.interrupted THEN {}
                 ELSE IF turn.worked THEN {0} ELSE {UpTo(count + 1, MaxEmptyTurns)}
    BY <1>1, Zenon DEF HeldStep, Noted
  <1>6. after > 0 => retry'
    <2>1. retry' = situation.marks
      BY DEF HeldStep
    <2>2. before > 0 => situation.marks
      BY <1>4 DEF StopInv, StopTypeOK, SessionTypeOK
    <2> QED
      BY <1>2, <2>1, <2>2
  <1> PICK b \in Nat, a \in Nat, e \in Nat, f \in Nat, n \in Nat, top \in Nat :
         b = before /\ a = after /\ e = reseed /\ f = reseed' /\ n = count /\ top = MaxEmptyTurns
    BY <1>2, <1>3
  <1> HIDE DEF before, after
  <1>7. /\ a <= b + 1 /\ (held = "audit" => a = b) /\ n <= top
        /\ b > 0 => retry /\ ~turn.worked /\ ~(turn.interrupted /\ grant # {})
        /\ grant = {} => b <= 1 + e
        /\ grant = {n} /\ n < top => b <= n + 1
        /\ b <= top + 1 + e
        /\ (grant # {} => grant = {n}) /\ \A c \in grant' : c \in Nat
        /\ grant' = IF grant = {} \/ turn.interrupted THEN {}
                    ELSE IF turn.worked THEN {0} ELSE {UpTo(n + 1, top)}
    <2>1. n \in 0..top
      BY <1>3, Zenon
    <2>2. n \in grant /\ n < top => b <= n + 1
      BY <1>4, Zenon
    <2>3. n <= top
      BY <2>1
    <2> QED
      BY <1>2, <1>3, <1>4, <1>5, <2>2, <2>3, Zenon
  <1>s. /\ b = 0 => FirstHold(a, f, top)
        /\ EarlyHold(a, b, f, n, top) /\ LateHold(a, b, e, f, top)
    <2>1. a <= b + 1
      BY <1>7, Zenon
    <2> QED
      BY <2>1, FirstHolds, EarlyHolds, LateHolds, Zenon
  <1>8. /\ grant' = {} => a <= 1 + f
        /\ \A c \in grant' : c < top => a <= c + 1
        /\ a <= top + 1 + f
    <2>1. CASE b = 0
      <3>1. a <= 1 + f /\ a <= top + 1 + f /\ \A c \in Nat : a <= c + 1
        BY <1>s, <2>1, Zenon DEF FirstHold
      <3> QED
        BY <1>7, <3>1, Zenon
    <2>2. CASE b > 0 /\ grant = {n} /\ n < top
      <3>1. b <= n + 1
        BY <1>7, <2>2
      <3>2. ~turn.worked /\ ~turn.interrupted
        BY <1>7, <2>2
      <3>3. grant' = {n + 1}
        <4>1. UpTo(n + 1, top) = n + 1
          BY <2>2 DEF UpTo
        <4> QED
          BY <1>7, <2>2, <3>2, <4>1, Zenon
      <3>4. a <= (n + 1) + 1 /\ a <= top + 1 + f
        BY <1>s, <2>2, <3>1, Zenon DEF EarlyHold
      <3> QED
        BY <3>3, <3>4, Zenon
    <2>3. CASE b > 0 /\ ~(grant = {n} /\ n < top)
      <3>1. "story" \in owes /\ held \in {"audit", "story"}
        BY <1>7, <1>1, <2>3
      <3>2. (a = b /\ f = e) \/ f = e + 1
        <4>1. CASE held = "audit"
          BY <1>7, <3>1, <4>1, Zenon DEF HeldStep
        <4>2. CASE held = "story"
          <5>1. f = e + 1
            BY <1>1, <3>1, <4>2, Zenon DEF HeldStep
          <5> QED
            BY <1>7, <5>1, Zenon
        <4> QED
          BY <3>1, <4>1, <4>2
      <3>3. b <= top + 1 + e
        BY <1>7, Zenon
      <3>4. a <= top + 1 + f
        BY <1>s, <3>2, <3>3, Zenon DEF LateHold
      <3>5. CASE grant = {}
        <4>1. grant' = {} /\ b <= 1 + e
          BY <1>7, <3>5, Zenon
        <4>2. a <= 1 + f
          BY <1>s, <3>2, <4>1, Zenon DEF LateHold
        <4> QED
          BY <3>4, <4>1, <4>2, Zenon
      <3>6. CASE grant # {}
        <4>1. grant = {n} /\ n = top /\ ~turn.worked /\ ~turn.interrupted
          <5>1. grant = {n} /\ n <= top
            BY <1>7, <3>6
          <5>2. n = top
            BY <2>3, <5>1
          <5> QED
            BY <1>7, <2>3, <3>6, <5>1, <5>2, Zenon
        <4>2. UpTo(n + 1, top) = top /\ ~(top < top)
          BY <4>1 DEF UpTo
        <4>3. grant' = {top}
          BY <1>7, <3>6, <4>1, <4>2, Zenon
        <4> QED
          BY <3>4, <4>2, <4>3, Zenon
      <3> QED
        BY <3>5, <3>6
    <2>4. b = 0 \/ b > 0
      OBVIOUS
    <2> QED
      BY <2>1, <2>2, <2>3, <2>4, Zenon
  <1>9. /\ streak'["all"] = a /\ reseed' = f /\ MaxEmptyTurns = top
    BY Zenon DEF after, before
  <1>10. /\ grant' = {} => streak'["all"] <= 1 + reseed'
         /\ \A c \in grant' : c < MaxEmptyTurns => streak'["all"] <= c + 1
         /\ streak'["all"] <= MaxEmptyTurns + 1 + reseed'
    BY <1>8, <1>9
  <1>11. streak'["all"] > 0 => retry'
    BY <1>6, Zenon DEF after
  <1> QED
    BY <1>10, <1>11, Zenon DEF AllInv

LEMMA StopsKeepWedgeInv ==
    ASSUME StopInv, StopInv', WedgeInv, NEW poor \in BOOLEAN, NEW owes \in Owed,
           owes \in SUBSET {"story", "members"}, NEW count \in EmptyTurns, NEW wrote \in BOOLEAN,
           Stop(poor, owes, count, wrote)
    PROVE  WedgeInv'
  <1> DEFINE empty == IF wrote \/ grant = {} THEN count ELSE MaxEmptyTurns
             held  == HeldBy(empty, owes, Refusals, poor)
  <1>1. CASE held # "none" /\ ~told
    <2>1. HeldStep(held, owes, count, wrote)
      BY <1>1, Zenon DEF Stop, HeldStep
    <2>2. /\ held = "story" => "story" \in owes
          /\ held = "members" => "members" \in owes
          /\ held = "judge" => grant # {} /\ ~turn.interrupted
          /\ held # "all"
      BY DEF HeldBy, Engaged
    <2>3. /\ ~turn.worked /\ held = "judge" => grant = {count} /\ wrote /\ count < MaxEmptyTurns
          /\ ~turn.worked /\ retry => \/ grant = {count} /\ wrote /\ count < MaxEmptyTurns
                                      \/ "story" \in owes /\ held \in {"audit", "story"}
      BY <1>1, HoldsAreFew
    <2>4. PushInv' /\ StoreInv' /\ AllInv'
      <3> HIDE DEF held
      <3> QED
        BY <2>1, <2>2, <2>3, HoldKeepsPushInv, HoldKeepsStoreInv, HoldKeepsAllInv
    <2>5. IdleInv'
      <3>1. streak' \in [Rules -> Nat] /\ lost' \in BOOLEAN
        BY <2>1, StreakCounts DEF HeldStep, WedgeInv, IdleInv
      <3>2. /\ turn'.worked = FALSE /\ turn'.interrupted = turn.interrupted
            /\ turn'.verdict = "none"
        BY <2>1 DEF HeldStep, Pushed, StopInv, StopTypeOK, Windows
      <3>3. turn.interrupted => grant' = {}
        BY <2>1 DEF HeldStep, Noted
      <3> QED
        BY <3>1, <3>2, <3>3 DEF IdleInv
    <2> QED
      BY <2>4, <2>5 DEF WedgeInv
  <1>2. CASE ~(held # "none" /\ ~told)
    <2>1. streak' = NoStreak /\ lost' = (lost \/ ~wrote)
      BY <1>2 DEF Stop
    <2>2. turn' = turn \/ turn' = Pushed
      BY DEF Stop
    <2>3. turn'.verdict = "resolvable" => turn'.open \/ turn'.worked
      BY <2>2 DEF WedgeInv, IdleInv, Pushed, StopInv, StopTypeOK, Windows
    <2>4. StopTypeOK' /\ lost' \in BOOLEAN
      BY <2>1 DEF StopInv, WedgeInv, IdleInv
    <2> QED
      BY <2>1, <2>3, <2>4, NoStreakKeeps
  <1> QED
    BY <1>1, <1>2

\* An idle agent is held a bounded number of times in a row (stop.rs:1341): by
\* rule B for every client and store, by the store's rules where the store
\* answers, and by all rules but the alarm where the client marks its retries.
THEOREM IdleAgentsAreReleased == StopSpec => []NeverWedged
  <1>1. StopInit => StopInv /\ WedgeInv
    <2> SUFFICES ASSUME StopInit PROVE WedgeInv
      BY InitStopInv
    <2>1. streak = NoStreak /\ grant = {} /\ reseed = 0 /\ jobs = 0
      BY DEF StopInit
    <2>2. IdleInv
      BY StreakStarts DEF StopInit, IdleInv, NewWindow
    <2> QED
      BY <2>1, <2>2, StreakStarts, StopAssumption
      DEF WedgeInv, PushInv, StoreInv, AllInv, Rules
  <1>2. StopInv /\ WedgeInv /\ [StopNext]_stopVars => (StopInv /\ WedgeInv)'
    <2> SUFFICES ASSUME StopInv, WedgeInv, [StopNext]_stopVars PROVE WedgeInv'
      BY NextStopInv
    <2>1. StopInv'
      BY NextStopInv
    <2>2. CASE \E poor \in {p \in BOOLEAN : p => "poor" \in situation.menu}, owes \in Owed,
                  count \in EmptyTurns, wrote \in {w \in BOOLEAN : w \/ situation.full} :
                    Stop(poor, owes, count, wrote)
      <3> PICK poor \in {p \in BOOLEAN : p => "poor" \in situation.menu}, owes \in Owed,
               count \in EmptyTurns, wrote \in {w \in BOOLEAN : w \/ situation.full} :
                 Stop(poor, owes, count, wrote)
        BY <2>2
      <3>1. poor \in BOOLEAN /\ owes \in SUBSET {"story", "members"} /\ wrote \in BOOLEAN
        BY StopChoices DEF StopInv
      <3> QED
        BY <2>1, <3>1, StopsKeepWedgeInv
    <2>3. CASE UNCHANGED stopVars
      BY <2>3, SameStreakKeeps DEF stopVars, counters, watched, WedgeInv, IdleInv
    <2> QED
      BY <2>1, <2>2, <2>3, OthersKeepWedgeInv DEF StopNext
  <1>3. StopInv /\ WedgeInv => NeverWedged
    <2> SUFFICES ASSUME StopInv, WedgeInv PROVE NeverWedged
      OBVIOUS
    <2>1. /\ MaxEmptyTurns \in Nat /\ MaxReseed \in Nat /\ MaxJobs \in Nat
          /\ reseed \in 0..MaxReseed /\ jobs \in 0..MaxJobs
          /\ grant = {} \/ \E n \in 0..MaxEmptyTurns : grant = {n}
          /\ \A rule \in Rules : streak[rule] \in Nat
      BY StopAssumption DEF WedgeInv, IdleInv, StopInv, StopTypeOK, CountersTypeOK
    <2>2. /\ Ceiling.judge = MaxEmptyTurns + 1 /\ Ceiling.story = MaxReseed
          /\ Ceiling.members = MaxJobs /\ Ceiling.all = MaxEmptyTurns + 1 + MaxReseed
      BY DEF Ceiling
    <2>3. streak["judge"] <= MaxEmptyTurns + 1
      BY <2>1 DEF WedgeInv, PushInv, Rules
    <2>4. ~lost /\ ~situation.silent => streak["story"] <= MaxReseed /\ streak["members"] <= MaxJobs
      BY <2>1 DEF WedgeInv, StoreInv, Rules
    <2>5. ~lost => streak["all"] <= MaxEmptyTurns + 1 + MaxReseed
      BY <2>1 DEF WedgeInv, AllInv, Rules
    <2> QED
      BY <2>2, <2>3, <2>4, <2>5 DEF NeverWedged
  <1> QED
    BY <1>1, <1>2, <1>3, PTL DEF StopSpec

-----------------------------------------------------------------------------
(* Types of the gates. *)

\* A record's file holds one record at most, of a time that has been.
OneRecord(file) == file = {} \/ \E r : file = {r} /\ r.at \in 0..clock

FilesHold ==
    /\ OneRecord(window) /\ OneRecord(once) /\ OneRecord(pending) /\ OneRecord(said)
    /\ stamp = {} \/ \E s \in 0..clock : stamp = {s}
    /\ \A c \in Ids : touched[c] \subseteq 0..clock

\* A call is one of the session's, and no pair of it is looked at twice.
CallsFit ==
    \A c \in Ids : /\ call[c].what \in plan.menu \cup {NoEdit.what}
                   /\ call[c].pair \in 1..(Len(call[c].what.tools) + 1)

LEMMA RecordsHold ==
    ASSUME clock \in Nat, clock' = clock, NEW file, NEW next, OneRecord(file),
           next \in {file, {}} \/ \E x : next = Record(x, clock)
    PROVE  OneRecord(next)'
<1>1. clock \in 0..clock
  OBVIOUS
<1>2. CASE next \in {file, {}}
  BY <1>2 DEF OneRecord
<1>3. ASSUME NEW x, next = Record(x, clock) PROVE OneRecord(next)'
  BY <1>1, <1>3 DEF OneRecord, Record
<1>. QED BY <1>2, <1>3

\* What each call's step makes of the files.
LEMMA FilesBecome ==
    ASSUME NEW c \in Ids, CallStep(c)
    PROVE  /\ UNCHANGED <<plan, clock>>
           /\ window' \in {window, {}} \/ \E x : window' = Record(x, clock)
           /\ once' \in {once, {}} \/ \E x : once' = Record(x, clock)
           /\ pending' \in {pending, {}} \/ \E x : pending' = Record(x, clock)
           /\ said' \in {said, {}} \/ \E x : said' = Record(x, clock)
           /\ stamp' \in {stamp, {clock}}
           /\ touched' = touched \/ touched' = [touched EXCEPT ![c] = {clock}]
<1> DEFINE Goal ==
           /\ UNCHANGED <<plan, clock>>
           /\ window' \in {window, {}} \/ \E x : window' = Record(x, clock)
           /\ once' \in {once, {}} \/ \E x : once' = Record(x, clock)
           /\ pending' \in {pending, {}} \/ \E x : pending' = Record(x, clock)
           /\ said' \in {said, {}} \/ \E x : said' = Record(x, clock)
           /\ stamp' \in {stamp, {clock}}
           /\ touched' = touched \/ touched' = [touched EXCEPT ![c] = {clock}]
<1>1. CASE Ask(c) \/ PeekPending(c) \/ ReadOnce(c) \/ JudgeEdit(c) \/ ReadSaid(c) \/ Decide(c) \/ After(c)
  BY <1>1 DEF Ask, PeekPending, ReadOnce, JudgeEdit, ReadSaid, Decide, After, gates
<1>2. CASE Declare(c)
  BY <1>2 DEF Declare
<1>3. CASE OpenWindow(c)
  BY <1>3 DEF OpenWindow
<1>4. CASE Say(c)
  BY <1>4 DEF Say
<1>5. CASE Stamp(c)
  BY <1>5 DEF Stamp
<1>6. CASE TakeOnce(c)
  BY <1>6 DEF TakeOnce
<1>7. CASE TakeSaid(c)
  BY <1>7 DEF TakeSaid
<1>8. CASE DropPending(c)
  BY <1>8 DEF DropPending
<1>9. CASE Refuse(c)
  BY <1>9 DEF Refuse
<1>10. CASE Run(c)
  BY <1>10 DEF Run, gates
<1> HIDE DEF Goal
<1>. QED BY <1>1, <1>2, <1>3, <1>4, <1>5, <1>6, <1>7, <1>8, <1>9, <1>10, ZenonT(60) DEF CallStep, Goal

LEMMA FilesHoldStep ==
    ASSUME GatesTypes, FilesHold, NEW c \in Ids, CallStep(c)
    PROVE  FilesHold'
<1>0. clock \in Nat /\ clock \in 0..clock
  BY DEF GatesTypes
<1>1. UNCHANGED clock
  BY FilesBecome
<1>2. OneRecord(window)' /\ OneRecord(once)' /\ OneRecord(pending)' /\ OneRecord(said)'
  <2>1. PICK f, g, h, k : f = window' /\ g = once' /\ h = pending' /\ k = said'
    OBVIOUS
  <2>2. PICK a, b, d, e : a = window /\ b = once /\ d = pending /\ e = said
    OBVIOUS
  <2>3. OneRecord(a) /\ OneRecord(b) /\ OneRecord(d) /\ OneRecord(e)
    BY <2>2 DEF FilesHold
  <2>4. /\ f \in {a, {}} \/ \E x : f = Record(x, clock)
        /\ g \in {b, {}} \/ \E x : g = Record(x, clock)
        /\ h \in {d, {}} \/ \E x : h = Record(x, clock)
        /\ k \in {e, {}} \/ \E x : k = Record(x, clock)
    BY <2>1, <2>2, FilesBecome
  <2>5. OneRecord(f)' /\ OneRecord(g)' /\ OneRecord(h)' /\ OneRecord(k)'
    BY <1>0, <1>1, <2>3, <2>4, RecordsHold
  <2>. QED BY <2>1, <2>5 DEF OneRecord
<1>3. stamp' = {} \/ \E s \in 0..clock' : stamp' = {s}
  BY <1>0, <1>1, FilesBecome DEF FilesHold
<1>4. \A d \in Ids : touched'[d] \subseteq 0..clock'
  <2>1. touched' = touched \/ touched' = [touched EXCEPT ![c] = {clock}]
    BY FilesBecome
  <2>2. touched = [d \in Ids |-> touched[d]]
    BY DEF GatesTypes
  <2>. QED BY <1>0, <1>1, <2>1, <2>2 DEF FilesHold
<1>. QED BY <1>2, <1>3, <1>4 DEF FilesHold

LEMMA CallsFitStep ==
    ASSUME GInv, CallsFit, NEW c \in Ids, CallStep(c)
    PROVE  CallsFit'
<1> DEFINE i == call[c]
<1>0. GatesTypes /\ Covered(c) /\ UNCHANGED plan
  BY FilesBecome DEF GInv, Cover
<1>1. PICK j : call' = [call EXCEPT ![c] = j] /\ Became(c, j)
  BY <1>0, CallBecomes
<1>2. \A d \in Ids : call'[d] = IF d = c THEN j ELSE call[d]
  BY <1>0, <1>1 DEF GatesTypes
<1>3. /\ j.what \in plan.menu \cup {NoEdit.what}
      /\ j.pair \in 1..(Len(j.what.tools) + 1)
  <2>0. i.what \in plan.menu \cup {NoEdit.what} /\ i.pair \in 1..(Len(i.what.tools) + 1)
    BY DEF CallsFit
  <2>1. CASE Asks(c, j)
    <3>1. j.what \in plan.menu /\ j.pair = 1 /\ plan \in Plans
      BY <1>0, <2>1 DEF Asks, GatesTypes
    <3>2. Len(j.what.tools) \in Nat
      BY <3>1, MenuTypes DEF Menu
    <3>. QED BY <3>1, <3>2
  <2>2. CASE TakesOnce(c, j)
    <3>1. j.what = i.what /\ j.pair = i.pair + 1 /\ i.guard = "takeOnce"
      BY <2>2 DEF TakesOnce, TakeOnce, KeptBut
    <3>2. i.pair <= Len(i.what.tools)
      BY <1>0, <3>1 DEF Covered
    <3>3. Len(i.what.tools) \in Nat
      <4>1. i.what \in Menu \/ i.what = NoEdit.what
        BY <1>0 DEF GatesTypes, CallRecord
      <4>2. NoEdit.what.tools = <<>>
        BY DEF NoEdit, CallOf
      <4>. QED BY <4>1, <4>2, MenuTypes
    <3>. QED BY <2>0, <3>1, <3>2, <3>3
  <2>3. CASE ~Asks(c, j) /\ ~TakesOnce(c, j)
    <3>1. j.what = i.what /\ j.pair = i.pair
      BY <1>1, <2>3 DEF Became, KeptBut, Declares, Opens, Peeks, Says, Stamps, PassesShapes, ReadsOnce, MissesOnce,
         JudgesEdit, ReadsSaid, MissesSaid, TakesSaid, Drops, Refuses, Decides, Runs, Ends
    <3>. QED BY <2>0, <3>1
  <2>. QED BY <2>1, <2>2, <2>3
<1>. QED BY <1>0, <1>2, <1>3 DEF CallsFit

LEMMA GatesFitStep ==
    ASSUME GInv, FilesHold, CallsFit, [GatesNext]_gatesVars
    PROVE  FilesHold' /\ CallsFit'
<1>0. GatesTypes
  BY DEF GInv
<1>1. ASSUME NEW c \in Ids, CallStep(c) PROVE FilesHold' /\ CallsFit'
  BY <1>0, <1>1, FilesHoldStep, CallsFitStep
<1>2. CASE GatesTick
  <2>1. clock \in Nat /\ clock' = clock + 1 /\ UNCHANGED <<plan, window, once, pending, said, stamp, call, touched>>
    BY <1>0, <1>2 DEF GatesTick, GatesTypes, gates
  <2>2. 0..clock \subseteq 0..clock'
    BY <2>1
  <2>. QED BY <2>1, <2>2 DEF FilesHold, OneRecord, CallsFit
<1>3. CASE UNCHANGED gatesVars
  BY <1>3 DEF gatesVars, gates, FilesHold, OneRecord, CallsFit
<1>. QED BY <1>1, <1>2, <1>3 DEF GatesNext

LEMMA GatesFitInit == GatesInit => FilesHold /\ CallsFit
<1> SUFFICES ASSUME GatesInit PROVE FilesHold /\ CallsFit
  OBVIOUS
<1>1. NoEdit.what.tools = <<>> /\ NoEdit.pair = 1
  BY DEF NoEdit, CallOf
<1>. QED BY <1>1 DEF GatesInit, FilesHold, OneRecord, CallsFit

LEMMA GatesTypesOK ==
    ASSUME GInv, FilesHold, CallsFit
    PROVE  GatesTypeOK
<1>0. GatesTypes
  BY DEF GInv
<1>1. \A x : Cardinality({x}) = 1
  BY FS_Singleton, Zenon
<1>2. Cardinality({}) = 0
  BY FS_EmptySet
<1>3. ASSUME NEW file, OneRecord(file) PROVE IsFile(file)
  <2>1. CASE file = {}
    BY <1>2, <2>1 DEF IsFile
  <2>2. ASSUME NEW r, file = {r}, r.at \in 0..clock PROVE IsFile(file)
    <3>1. Cardinality(file) = 1
      BY <1>1, <2>2
    <3>2. \A x \in file : x.at \in 0..clock
      BY <2>2
    <3>. QED BY <3>1, <3>2 DEF IsFile
  <2>. QED BY <1>3, <2>1, <2>2 DEF OneRecord
<1>4. IsFile(window) /\ IsFile(once) /\ IsFile(pending) /\ IsFile(said)
  BY <1>3 DEF FilesHold
<1>5. stamp \in SUBSET (0..clock) /\ Cardinality(stamp) <= 1
  BY <1>1, <1>2 DEF FilesHold
<1>6. touched \in [Ids -> SUBSET (0..clock)]
  BY <1>0 DEF GatesTypes, FilesHold
<1>7. ASSUME NEW c \in Ids
      PROVE  /\ call[c].what \in plan.menu \cup {NoEdit.what}
             /\ call[c].guard \in GuardSteps \cup Verdicts
             /\ call[c].recall \in RecallSteps \cup Verdicts
             /\ call[c].at \in {"idle", "asked", "running", "after", "done", "refused"}
             /\ call[c].pair \in 1..(Len(call[c].what.tools) + 1)
  <2>1. call[c] \in CallRecord
    BY <1>0 DEF GatesTypes
  <2>. QED BY <2>1 DEF CallRecord, CallsFit
<1>8. plan \in Plans /\ clock \in Nat /\ misses \subseteq Ids /\ bare \subseteq Ids
  BY <1>0 DEF GatesTypes
<1>9. crossed \in BOOLEAN
  BY <1>0, Zenon DEF GatesTypes
<1>. QED BY <1>4, <1>5, <1>6, <1>7, <1>8, <1>9, Zenon DEF GatesTypeOK

\* What the gates keep in their files is what their readers expect: each record's
\* file holds one record at most, of a time that has been (oneshot.rs, editgate.rs,
\* dupgate.rs), and a call never looks past its last pair of texts.
THEOREM GatesTypeCorrect == GatesSpec => []GatesTypeOK
<1>1. GatesInit => GInv /\ FilesHold /\ CallsFit
  BY GInvInit, GatesFitInit
<1>2. GInv /\ FilesHold /\ CallsFit /\ [GatesNext]_gatesVars => (GInv /\ FilesHold /\ CallsFit)'
  BY GInvStep, GatesFitStep
<1>3. GInv /\ FilesHold /\ CallsFit => GatesTypeOK
  BY GatesTypesOK
<1>. QED BY <1>1, <1>2, <1>3, PTL DEF GatesSpec

-----------------------------------------------------------------------------
(* The hook's modules side by side. *)

\* The files of the observer, the gates of edits and the stop gate are what their
\* readers expect, in each part the runs look at.
THEOREM HookTypeCorrect == HookSpec => []HookTypeOK
<1>1. HookInit => ObserverInit /\ GatesInit /\ StopInit
  BY DEF HookInit
<1>2. [HookNext]_<<observerVars, gatesVars, stopVars, part>>
        => [ObserverNext]_observerVars /\ [GatesNext]_gatesVars /\ [StopNext]_stopVars
  BY DEF HookNext
<1>3. ObserverTypeOK /\ GatesTypeOK /\ StopTypeOK => HookTypeOK
  BY DEF HookTypeOK
<1>4. HookSpec => ObserverSpec /\ GatesSpec /\ StopSpec
  BY <1>1, <1>2, PTL DEF HookSpec, ObserverSpec, GatesSpec, StopSpec
<1>. QED BY <1>3, <1>4, ObserverTypeCorrect, GatesTypeCorrect, StopGateTypeCorrect, PTL
=============================================================================
