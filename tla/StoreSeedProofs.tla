--------------------------- MODULE StoreSeedProofs ---------------------------
(* For any number of threads, residents, stores and engine builds: the        *)
(* ledger of StoreSeed lets one request at a time load a store, loses no      *)
(* claim and remembers no failure.                                            *)
EXTENDS StoreSeed, TLAPS

\* A store has one claimer: why releasing it gives up nobody else's claim.
OneClaim ==
    \A t, u \in Claimers : seeds[t].store = seeds[u].store => t = u

\* A request that will record its key has seen the load under that key succeed.
SuccessIsReal ==
    \A t \in Seeders :
        seeds[t].pc = "record" \/ (seeds[t].pc = "release" /\ seeds[t].answer) =>
            loadedBy[Key(t)] # {}

IInv == TypeOK /\ ClaimsAreHeld /\ OneClaim /\ SuccessIsReal /\ SeededWasLoaded

\* A request's key is one of the ledger.
LEMMA KeyType ==
    ASSUME NEW t \in Seeders, seeds[t] \in Seed
    PROVE  Key(t) \in Keys
  BY DEF Seed, Keys, Key

\* A request that has not been made is a request all the same.
LEMMA NoSeedType == NoSeed \in Seed /\ NoSeed.pc = "done"
  BY StoreSeedAssumption DEF NoSeed, Seed, Pcs, Triggers, Outcomes

\* The empty ledger satisfies the invariant.
LEMMA InitIInv == Init => IInv
<1>. SUFFICES ASSUME Init PROVE IInv
  OBVIOUS
<1>1. TypeOK
  BY NoSeedType, StoreSeedAssumption DEF Init, TypeOK, Keys
<1>2. Claimers = {}
  BY NoSeedType DEF Init, Claimers
<1>3. SuccessIsReal
  BY NoSeedType DEF Init, SuccessIsReal
<1>. QED BY <1>1, <1>2, <1>3 DEF Init, IInv, ClaimsAreHeld, OneClaim, SeededWasLoaded

\* A request that is not and does not become a claimer, and records nothing,
\* leaves the ledger's invariant alone.
LEMMA SeedFrame ==
    ASSUME IInv, NEW t \in Seeders, NEW s \in Seed, seeds' = [seeds EXCEPT ![t] = s],
           seeds[t].pc \notin {"load", "release"}, s.pc \notin {"load", "release", "record"},
           UNCHANGED <<inFlight, seeded, loadedBy>>
    PROVE  ClaimsAreHeld' /\ OneClaim' /\ SuccessIsReal' /\ SeededWasLoaded'
<1>1. /\ \A u \in Seeders \ {t} : seeds'[u] = seeds[u]
      /\ seeds'[t] = s /\ t \notin Claimers
  BY DEF IInv, TypeOK, Claimers
<1>2. Claimers' = Claimers /\ \A u \in Claimers : seeds'[u] = seeds[u]
  BY <1>1 DEF Claimers
<1>3. ClaimsAreHeld' /\ OneClaim'
  BY <1>2 DEF IInv, ClaimsAreHeld, OneClaim
<1>4. SuccessIsReal'
  BY <1>1 DEF IInv, SuccessIsReal, Key
<1>. QED BY <1>3, <1>4 DEF IInv, SeededWasLoaded

\* A new request, from whichever of its three occasions.
LEMMA AskIInv ==
    ASSUME IInv, NEW t \in Seeders, NEW r \in Residents, NEW trigger \in Triggers,
           NEW engine \in Jars \cup {NoJar}, NEW build \in Builds,
           Ask(t, r, trigger, engine, build), UNCHANGED <<inFlight, seeded, loadedBy>>
    PROVE  /\ seeds' \in [Seeders -> Seed] /\ budget' \in [asks : Nat, updates : Nat, restarts : Nat]
           /\ ClaimsAreHeld' /\ OneClaim' /\ SuccessIsReal' /\ SeededWasLoaded'
<1> DEFINE s == [pc |-> "stats", trigger |-> trigger, resident |-> r, store |-> StoreOf[r],
                 engine |-> engine, build |-> build, answer |-> FALSE, outcome |-> "none"]
<1>1. s \in Seed
  BY StoreSeedAssumption DEF Seed, Pcs, Outcomes
<1>2. seeds' = [seeds EXCEPT ![t] = s] /\ seeds[t].pc = "done"
  BY DEF Ask
<1>3. ClaimsAreHeld' /\ OneClaim' /\ SuccessIsReal' /\ SeededWasLoaded'
  BY <1>1, <1>2, SeedFrame
<1>4. budget' \in [asks : Nat, updates : Nat, restarts : Nat]
  BY DEF Ask, IInv, TypeOK
<1>. QED BY <1>1, <1>2, <1>3, <1>4 DEF IInv, TypeOK

\* A request that moves on keeps its type, its store and its engine.
LEMMA SeedMoves ==
    ASSUME NEW q \in Seed, NEW pc \in Pcs
    PROVE  LET s == [q EXCEPT !.pc = pc]
           IN  s \in Seed /\ s.pc = pc /\ s.store = q.store /\ s.engine = q.engine
  BY DEF Seed

\* So does one that ends.
LEMMA SeedEnds ==
    ASSUME NEW q \in Seed, NEW outcome \in Outcomes
    PROVE  LET s == [q EXCEPT !.pc = "done", !.outcome = outcome]
           IN  s \in Seed /\ s.pc = "done" /\ s.store = q.store
  BY DEF Seed, Pcs

\* And one whose load has ended.
LEMMA SeedAnswered ==
    ASSUME NEW q \in Seed, NEW ok \in BOOLEAN
    PROVE  LET s == [q EXCEPT !.pc = "release", !.answer = ok]
           IN  /\ s \in Seed /\ s.pc = "release" /\ s.answer = ok
               /\ s.store = q.store /\ s.engine = q.engine
  BY DEF Seed, Pcs

\* Every step of a request keeps the invariant.
LEMMA StepIInv ==
    ASSUME IInv, NEW t \in Seeders, Step(t)
    PROVE  IInv'
<1>0. seeds[t] \in Seed /\ seeds \in [Seeders -> Seed]
  BY DEF IInv, TypeOK
<1>1. CASE Stats(t) \/ CheckSeeded(t)
  <2>1. \E s \in Seed : /\ seeds' = [seeds EXCEPT ![t] = s]
                        /\ s.pc \notin {"load", "release", "record"}
    <3>1. \/ Finish(t, "Failed") \/ Finish(t, "NoSubstrate") \/ Finish(t, "AlreadySeeded")
          \/ Goto(t, "check") \/ Goto(t, "claim")
      BY <1>1 DEF Stats, CheckSeeded
    <3>2. ASSUME NEW o \in Outcomes, Finish(t, o)
          PROVE  \E s \in Seed : seeds' = [seeds EXCEPT ![t] = s] /\ s.pc = "done"
      BY <1>0, <3>2, SeedEnds DEF Finish
    <3>3. ASSUME NEW pc \in Pcs, Goto(t, pc)
          PROVE  \E s \in Seed : seeds' = [seeds EXCEPT ![t] = s] /\ s.pc = pc
      BY <1>0, <3>3, SeedMoves, ZenonT(60) DEF Goto
    <3>. QED BY <3>1, <3>2, <3>3 DEF Outcomes, Pcs
  <2>2. seeds[t].pc \notin {"load", "release"} /\ UNCHANGED <<inFlight, seeded, loadedBy>>
    BY <1>1 DEF Stats, CheckSeeded
  <2>3. ClaimsAreHeld' /\ OneClaim' /\ SuccessIsReal' /\ SeededWasLoaded'
    BY <2>1, <2>2, SeedFrame
  <2>4. seeds' \in [Seeders -> Seed]
    BY <1>0, <2>1
  <2>5. TypeOK'
    BY <1>1, <2>4 DEF Stats, CheckSeeded, IInv, TypeOK
  <2>. QED BY <2>3, <2>5 DEF IInv
<1>2. CASE Claim(t) /\ seeds[t].store \in inFlight
  <2> DEFINE s == [seeds[t] EXCEPT !.pc = "done", !.outcome = "InFlight"]
  <2>1. s \in Seed /\ s.pc = "done"
    BY <1>0, SeedEnds DEF Outcomes
  <2>2. /\ seeds' = [seeds EXCEPT ![t] = s] /\ seeds[t].pc = "claim"
        /\ UNCHANGED <<installed, runs, managed, inFlight, seeded, loadedBy, budget>>
    BY <1>2 DEF Claim, Finish
  <2>3. ClaimsAreHeld' /\ OneClaim' /\ SuccessIsReal' /\ SeededWasLoaded'
    BY <2>1, <2>2, SeedFrame
  <2>4. TypeOK'
    BY <1>0, <2>1, <2>2 DEF IInv, TypeOK
  <2>. QED BY <2>3, <2>4 DEF IInv
<1>3. CASE Claim(t) /\ seeds[t].store \notin inFlight
  <2> DEFINE s == [seeds[t] EXCEPT !.pc = "load"]
  <2>1. s \in Seed /\ s.pc = "load" /\ s.store = seeds[t].store
    BY <1>0, SeedMoves DEF Pcs
  <2>2. /\ seeds' = [seeds EXCEPT ![t] = s]
        /\ inFlight' = inFlight \cup {seeds[t].store}
        /\ UNCHANGED <<installed, runs, managed, seeded, loadedBy, budget>>
    BY <1>3 DEF Claim, Goto, Finish
  <2>3. seeds'[t] = s /\ \A u \in Seeders \ {t} : seeds'[u] = seeds[u]
    BY <1>0, <2>2
  <2>4. Claimers' = Claimers \cup {t} /\ \A u \in Claimers \ {t} : seeds'[u] = seeds[u]
    BY <2>1, <2>3 DEF Claimers
  <2>5. \A u \in Claimers : seeds[u].store # seeds[t].store
    BY <1>3 DEF IInv, ClaimsAreHeld
  <2>6. ClaimsAreHeld' /\ OneClaim'
    BY <2>1, <2>2, <2>3, <2>4, <2>5 DEF IInv, ClaimsAreHeld, OneClaim
  <2>7. SuccessIsReal' /\ SeededWasLoaded'
    BY <2>1, <2>2, <2>3 DEF IInv, SuccessIsReal, SeededWasLoaded, Key
  <2>8. TypeOK'
    BY <1>0, <2>1, <2>2 DEF IInv, TypeOK, Seed
  <2>. QED BY <2>6, <2>7, <2>8 DEF IInv
<1>4. CASE Load(t)
  <2>1. PICK ok \in BOOLEAN :
          /\ seeds' = [seeds EXCEPT ![t] = [seeds[t] EXCEPT !.pc = "release", !.answer = ok]]
          /\ \/ ~ok /\ UNCHANGED loadedBy
             \/ ok /\ FillStore(t)
    BY <1>4 DEF Load, Answered
  <2> DEFINE s == [seeds[t] EXCEPT !.pc = "release", !.answer = ok]
  <2>2. /\ s \in Seed /\ s.pc = "release" /\ s.answer = ok
        /\ s.store = seeds[t].store /\ s.engine = seeds[t].engine
        /\ s.store \in Stores /\ seeds[t].resident \in Residents /\ Key(t) \in Keys
    BY <1>0, SeedAnswered, KeyType DEF Seed
  <2>3. seeds[t].pc = "load" /\ UNCHANGED <<installed, runs, managed, inFlight, seeded, budget>>
    BY <1>4 DEF Load
  <2>4. seeds'[t] = s /\ \A u \in Seeders \ {t} : seeds'[u] = seeds[u]
    BY <1>0, <2>1
  <2>5. Claimers' = Claimers /\ \A u \in Seeders : seeds'[u].store = seeds[u].store
    BY <2>2, <2>3, <2>4 DEF Claimers
  <2>6. ClaimsAreHeld' /\ OneClaim'
    BY <2>3, <2>5 DEF IInv, ClaimsAreHeld, OneClaim, Claimers
  <2>7. loadedBy \in [Keys -> SUBSET Builds] /\ loadedBy' \in [Keys -> SUBSET Builds]
    BY <2>1, <2>2 DEF IInv, TypeOK, FillStore
  <2>8. /\ \A key \in Keys : loadedBy[key] # {} => loadedBy'[key] # {}
        /\ ok => loadedBy'[Key(t)] # {}
    BY <2>1, <2>2, <2>7 DEF FillStore
  <2>9. SuccessIsReal' /\ SeededWasLoaded'
    <3>1. \A u \in Seeders : Key(u) \in Keys
      BY <1>0, KeyType
    <3>2. ASSUME NEW u \in Seeders,
                 seeds'[u].pc = "record" \/ (seeds'[u].pc = "release" /\ seeds'[u].answer)
          PROVE  loadedBy'[Key(u)'] # {}
      <4>1. CASE u = t
        <5>1. Key(u)' = Key(t)
          BY <2>2, <2>4, <4>1 DEF Key
        <5>. QED BY <2>2, <2>4, <2>8, <3>2, <4>1, <5>1
      <4>2. CASE u # t
        <5>1. seeds'[u] = seeds[u] /\ loadedBy[Key(u)] # {}
          BY <2>4, <3>2, <4>2 DEF IInv, SuccessIsReal
        <5>2. Key(u)' = Key(u)
          BY <5>1 DEF Key
        <5>. QED BY <2>8, <3>1, <5>1, <5>2
      <4>. QED BY <4>1, <4>2
    <3>3. SeededWasLoaded'
      BY <2>3, <2>8 DEF IInv, SeededWasLoaded, TypeOK
    <3>. QED BY <3>2, <3>3 DEF SuccessIsReal
  <2>10. seeds' \in [Seeders -> Seed]
    BY <1>0, <2>1, <2>2
  <2>11. TypeOK'
    BY <2>3, <2>7, <2>10 DEF IInv, TypeOK
  <2>. QED BY <2>6, <2>9, <2>11 DEF IInv
<1>5. CASE Release(t)
  <2>1. PICK s \in Seed :
          /\ seeds' = [seeds EXCEPT ![t] = s] /\ s.pc \in {"done", "record"}
          /\ s.pc = "record" => /\ seeds[t].answer
                               /\ s.store = seeds[t].store /\ s.engine = seeds[t].engine
    <3>1. CASE seeds[t].answer
      <4> DEFINE s == [seeds[t] EXCEPT !.pc = "record"]
      <4>1. /\ s \in Seed /\ s.pc = "record"
            /\ s.store = seeds[t].store /\ s.engine = seeds[t].engine
        BY <1>0, SeedMoves DEF Pcs
      <4>. QED BY <1>5, <3>1, <4>1 DEF Release, Goto
    <3>2. CASE ~seeds[t].answer
      <4> DEFINE s == [seeds[t] EXCEPT !.pc = "done", !.outcome = "Failed"]
      <4>1. s \in Seed /\ s.pc = "done" /\ s.store = seeds[t].store
        BY <1>0, SeedEnds DEF Outcomes
      <4>. QED BY <1>5, <3>2, <4>1 DEF Release, Finish
    <3>. QED BY <3>1, <3>2
  <2>2. /\ seeds[t].pc = "release" /\ inFlight' = inFlight \ {seeds[t].store}
        /\ UNCHANGED <<installed, runs, managed, seeded, loadedBy, budget>>
    BY <1>5 DEF Release
  <2>3. seeds'[t] = s /\ \A u \in Seeders \ {t} : seeds'[u] = seeds[u]
    BY <1>0, <2>1
  <2>4. t \in Claimers /\ Claimers' = Claimers \ {t}
    BY <2>1, <2>2, <2>3 DEF Claimers
  <2>5. \A u \in Claimers \ {t} : seeds[u].store # seeds[t].store /\ seeds'[u] = seeds[u]
    BY <2>3, <2>4 DEF IInv, OneClaim, Claimers
  <2>6. ClaimsAreHeld' /\ OneClaim'
    BY <2>2, <2>4, <2>5 DEF IInv, ClaimsAreHeld, OneClaim
  <2>7. SuccessIsReal' /\ SeededWasLoaded'
    BY <2>1, <2>2, <2>3 DEF IInv, SuccessIsReal, SeededWasLoaded, Key
  <2>8. seeds' \in [Seeders -> Seed]
    BY <1>0, <2>1
  <2>9. TypeOK'
    BY <2>2, <2>8 DEF IInv, TypeOK
  <2>. QED BY <2>6, <2>7, <2>9 DEF IInv
<1>6. CASE Record(t)
  <2> DEFINE s == [seeds[t] EXCEPT !.pc = "done", !.outcome = "Loaded"]
  <2>1. s \in Seed /\ s.pc = "done"
    BY <1>0, SeedEnds DEF Outcomes
  <2>2. /\ seeds' = [seeds EXCEPT ![t] = s] /\ seeds[t].pc = "record"
        /\ seeded' = seeded \cup {Key(t)}
        /\ UNCHANGED <<installed, runs, managed, inFlight, loadedBy, budget>>
    BY <1>6 DEF Record, Finish
  <2>3. seeds'[t] = s /\ \A u \in Seeders \ {t} : seeds'[u] = seeds[u]
    BY <1>0, <2>2
  <2>4. Claimers' = Claimers /\ \A u \in Claimers : seeds'[u] = seeds[u]
    BY <2>1, <2>2, <2>3 DEF Claimers
  <2>5. ClaimsAreHeld' /\ OneClaim'
    BY <2>2, <2>4 DEF IInv, ClaimsAreHeld, OneClaim
  <2>6. SuccessIsReal'
    BY <2>1, <2>2, <2>3 DEF IInv, SuccessIsReal, Key
  <2>7. loadedBy[Key(t)] # {} /\ Key(t) \in Keys
    BY <1>0, <2>2, KeyType DEF IInv, SuccessIsReal
  <2>8. SeededWasLoaded' /\ seeded' \subseteq Keys
    BY <2>2, <2>7 DEF IInv, SeededWasLoaded, TypeOK
  <2>9. seeds' \in [Seeders -> Seed]
    BY <1>0, <2>1, <2>2
  <2>10. TypeOK'
    BY <2>2, <2>8, <2>9 DEF IInv, TypeOK
  <2>. QED BY <2>5, <2>6, <2>8, <2>10, SMTT(40) DEF IInv
<1>. QED BY <1>1, <1>2, <1>3, <1>4, <1>5, <1>6 DEF Step, Claim

\* Requests that begin, updates and restarts keep it too.
LEMMA NextIInv == IInv /\ [Next]_vars => IInv'
<1>. SUFFICES ASSUME IInv, [Next]_vars PROVE IInv'
  OBVIOUS
<1>1. CASE \E t \in Seeders : Step(t)
  BY <1>1, StepIInv
<1>2. CASE \E t \in Seeders, r \in Residents : ComeUp(t, r)
  <2>1. PICK t \in Seeders, r \in Residents : ComeUp(t, r)
    BY <1>2
  <2>2. installed \in Builds /\ JarOf[installed] \in Jars
    BY StoreSeedAssumption DEF IInv, TypeOK
  <2>3. /\ Ask(t, r, "EngineReady", JarOf[installed], installed)
        /\ UNCHANGED <<inFlight, seeded, loadedBy, installed>>
        /\ managed' = managed \cup {r} /\ runs' = [runs EXCEPT ![r] = installed]
    BY <2>1 DEF ComeUp, Announce
  <2>4. /\ seeds' \in [Seeders -> Seed] /\ budget' \in [asks : Nat, updates : Nat, restarts : Nat]
        /\ ClaimsAreHeld' /\ OneClaim' /\ SuccessIsReal' /\ SeededWasLoaded'
    BY <2>2, <2>3, AskIInv DEF Triggers
  <2>. QED BY <2>2, <2>3, <2>4 DEF IInv, TypeOK
<1>3. CASE \E t \in Seeders, r \in Residents : Adopt(t, r)
  <2>1. PICK t \in Seeders, r \in Residents : Adopt(t, r)
    BY <1>3
  <2>2. runs[r] \in Builds /\ JarOf[installed] \in Jars
    BY <2>1, StoreSeedAssumption DEF IInv, TypeOK, Adopt
  <2>3. /\ Ask(t, r, "EngineReady", JarOf[installed], runs[r])
        /\ UNCHANGED <<inFlight, seeded, loadedBy, installed, runs>>
        /\ managed' = managed \cup {r}
    BY <2>1 DEF Adopt, Announce
  <2>4. /\ seeds' \in [Seeders -> Seed] /\ budget' \in [asks : Nat, updates : Nat, restarts : Nat]
        /\ ClaimsAreHeld' /\ OneClaim' /\ SuccessIsReal' /\ SeededWasLoaded'
    BY <2>2, <2>3, AskIInv DEF Triggers
  <2>. QED BY <2>3, <2>4 DEF IInv, TypeOK
<1>4. CASE \E t \in Seeders, r \in Residents : Deploy(t, r)
  <2>1. PICK t \in Seeders, r \in Residents : Deploy(t, r)
    BY <1>4
  <2>2. runs[r] \in Builds
    BY <2>1 DEF IInv, TypeOK, Deploy
  <2>3. /\ Ask(t, r, "Deploy", NoJar, runs[r])
        /\ UNCHANGED <<inFlight, seeded, loadedBy, installed, runs, managed>>
    BY <2>1 DEF Deploy
  <2>4. /\ seeds' \in [Seeders -> Seed] /\ budget' \in [asks : Nat, updates : Nat, restarts : Nat]
        /\ ClaimsAreHeld' /\ OneClaim' /\ SuccessIsReal' /\ SeededWasLoaded'
    BY <2>2, <2>3, AskIInv DEF Triggers
  <2>. QED BY <2>3, <2>4 DEF IInv, TypeOK
<1>5. CASE \E b \in Builds : Update(b)
  <2>1. TypeOK'
    BY <1>5 DEF Update, IInv, TypeOK
  <2>2. UNCHANGED <<inFlight, seeded, loadedBy, seeds>>
    BY <1>5 DEF Update
  <2>. QED BY <2>1, <2>2
           DEF IInv, ClaimsAreHeld, OneClaim, SuccessIsReal, SeededWasLoaded, Claimers, Key
<1>6. CASE StudioRestart
  <2>1. TypeOK'
    BY <1>6, NoSeedType DEF StudioRestart, IInv, TypeOK
  <2>2. Claimers' = {}
    BY <1>6, NoSeedType DEF StudioRestart, Claimers
  <2>3. SuccessIsReal'
    BY <1>6, NoSeedType DEF StudioRestart, SuccessIsReal
  <2>. QED BY <1>6, <2>1, <2>2, <2>3
           DEF StudioRestart, IInv, ClaimsAreHeld, OneClaim, SeededWasLoaded
<1>7. CASE UNCHANGED vars
  BY <1>7 DEF vars, IInv, TypeOK, ClaimsAreHeld, OneClaim, SuccessIsReal, SeededWasLoaded,
              Claimers, Key
<1>. QED BY <1>1, <1>2, <1>3, <1>4, <1>5, <1>6, <1>7 DEF Next

\* The inductive invariant of the ledger holds in every reachable state.
THEOREM LedgerIInv == Spec => []IInv
  BY InitIInv, NextIInv, PTL DEF Spec

\* seed: a store is claimed exactly while a request loads it, for any number of
\* requests, residents and stores.
THEOREM ClaimsHeld == Spec => []ClaimsAreHeld
<1>1. IInv => ClaimsAreHeld
  BY DEF IInv
<1>. QED BY <1>1, LedgerIInv, PTL

\* seed: two requests never load the same store at once.
THEOREM LoadsExclusive == Spec => []OneLoadAtATime
<1>1. IInv => OneLoadAtATime
  BY DEF IInv, OneClaim, OneLoadAtATime, Claimers
<1>. QED BY <1>1, LedgerIInv, PTL

\* seed: what the ledger remembers was loaded under that very key, with success,
\* since Studio started.
THEOREM FailuresForgotten == Spec => []SeededWasLoaded
<1>1. IInv => SeededWasLoaded
  BY DEF IInv
<1>. QED BY <1>1, LedgerIInv, PTL

\* The ledger, the requests and the builds keep their types, for any number of each.
THEOREM SeedTypeCorrect == Spec => []TypeOK
<1>1. IInv => TypeOK
  BY DEF IInv
<1>. QED BY <1>1, LedgerIInv, PTL
=============================================================================
