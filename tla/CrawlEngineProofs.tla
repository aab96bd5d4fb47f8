------------------------- MODULE CrawlEngineProofs -------------------------
(***************************************************************************)
(* Proofs about CrawlEngine: its type invariant, that active_workers is    *)
(* the number of handlers running, that the counters agree with the pages, *)
(* that the limit is passed by at most one page per further worker, and    *)
(* that every URL is in exactly one place, for all sites, filters, workers *)
(* and limits.                                                             *)
(***************************************************************************)
EXTENDS CrawlEngine, Integers, FiniteSetTheorems, SequenceTheorems, TLAPS

\* How many workers are at one of the steps S.
Number(f, S) == Cardinality({v \in Workers : f[v] \in S})

\* A worker between its look at the limit and the count of its page.
CommittedSteps == {"pop", "popped", "process", "scrape", "wait"}
\* A worker whose page is counted and not yet collected.
CountedSteps == {"links", "push"}
TargetSteps == {"popped", "process", "scrape", "wait", "links", "push"}

\* The inductive invariant.
HasTarget == \A w \in Workers : at[w] \in TargetSteps => target[w] \in Targets
Committed ==
    stats.crawled + Number(at, CommittedSteps) <= Limit + Cardinality(Workers) - 1
Counted ==
    /\ stats.crawled = Len(pages) + Number(at, CountedSteps)
    /\ stats.crawled = stats.succeeded + stats.failed + stats.blocked
DoneJoined == Done => AllJoined
EngineInv ==
    TypeOK /\ HasTarget /\ ActiveCounts /\ Committed /\ Counted /\ DoneJoined

-----------------------------------------------------------------------------
\* The number at the steps S is a natural number, at most that of the workers.
LEMMA NumberFacts ==
  ASSUME NEW f \in [Workers -> Steps], NEW S
  PROVE  Number(f, S) \in Nat /\ Number(f, S) <= Cardinality(Workers)
BY EngineAssumption, FS_CardinalityType, FS_Subset DEF Number

\* One worker moves: the number at the steps S changes by at most one.
LEMMA MoveFacts ==
  ASSUME NEW f \in [Workers -> Steps], NEW w \in Workers, NEW step \in Steps, NEW S
  PROVE  LET g == [f EXCEPT ![w] = step] IN
         /\ f[w] \in S <=> step \in S => Number(g, S) = Number(f, S)
         /\ f[w] \in S /\ step \notin S => Number(g, S) = Number(f, S) - 1
         /\ f[w] \notin S /\ step \in S => Number(g, S) = Number(f, S) + 1
<1> DEFINE g == [f EXCEPT ![w] = step]
           old == {v \in Workers : f[v] \in S}
           new == {v \in Workers : g[v] \in S}
<1>1. g[w] = step /\ \A v \in Workers : v # w => g[v] = f[v]
  OBVIOUS
<1> HIDE DEF g
<1>2. IsFiniteSet(old)
  BY EngineAssumption, FS_Subset
<1>3. ASSUME f[w] \in S <=> step \in S PROVE new = old
  BY <1>1, <1>3
<1>4. ASSUME f[w] \in S, step \notin S PROVE Cardinality(new) = Cardinality(old) - 1
  <2>1. new = old \ {w} /\ w \in old
    BY <1>1, <1>4
  <2>2. Cardinality(old \ {w}) = Cardinality(old) - 1
    BY <1>2, <2>1, FS_RemoveElement
  <2> QED BY <2>1, <2>2
<1>5. ASSUME f[w] \notin S, step \in S PROVE Cardinality(new) = Cardinality(old) + 1
  <2>1. new = old \cup {w} /\ w \notin old
    BY <1>1, <1>5
  <2>2. Cardinality(old \cup {w}) = Cardinality(old) + 1
    BY <1>2, <2>1, FS_AddElement
  <2> QED BY <2>1, <2>2
<1> QED BY <1>3, <1>4, <1>5 DEF Number, g

\* What a worker's move from one step to another does to the invariant's parts
\* that speak of steps.
LEMMA GotoFacts ==
  ASSUME TypeOK, NEW w \in Workers, NEW step \in Steps, Goto(w, step)
  PROVE  /\ at' \in [Workers -> Steps]
         /\ at'[w] = step /\ \A v \in Workers : v # w => at'[v] = at[v]
         /\ \A S : /\ Number(at, S) \in Nat /\ Number(at', S) \in Nat
                   /\ Number(at', S) = IF at[w] \in S
                                       THEN IF step \in S THEN Number(at, S)
                                            ELSE Number(at, S) - 1
                                       ELSE IF step \in S THEN Number(at, S) + 1
                                            ELSE Number(at, S)
<1>1. at \in [Workers -> Steps] /\ at' = [at EXCEPT ![w] = step]
  BY DEF TypeOK, Goto
<1>2. at' \in [Workers -> Steps] /\ at'[w] = step /\ \A v \in Workers : v # w => at'[v] = at[v]
  BY <1>1
<1>3. ASSUME NEW S
      PROVE  /\ Number(at, S) \in Nat /\ Number(at', S) \in Nat
             /\ Number(at', S) = IF at[w] \in S
                                 THEN IF step \in S THEN Number(at, S)
                                      ELSE Number(at, S) - 1
                                 ELSE IF step \in S THEN Number(at, S) + 1
                                      ELSE Number(at, S)
  <2>1. Number(at, S) \in Nat /\ Number(at', S) \in Nat
    BY <1>1, <1>2, NumberFacts
  <2>2. CASE at[w] \in S <=> step \in S
    BY <1>1, <2>1, <2>2, MoveFacts
  <2>3. CASE at[w] \in S /\ step \notin S
    BY <1>1, <2>1, <2>3, MoveFacts
  <2>4. CASE at[w] \notin S /\ step \in S
    BY <1>1, <2>1, <2>4, MoveFacts
  <2> QED BY <2>2, <2>3, <2>4
<1> QED BY <1>2, <1>3

\* Adding one to a counter leaves the others alone.
LEMMA OneMore ==
  ASSUME NEW s \in Counters, NEW field \in {"crawled", "succeeded", "failed", "blocked", "queued"}
  PROVE  LET r == [s EXCEPT ![field] = @ + 1] IN
         /\ r \in Counters
         /\ r[field] = s[field] + 1
         /\ \A g \in {"crawled", "succeeded", "failed", "blocked", "queued"} :
               s[g] \in Nat /\ (g # field => r[g] = s[g])
<1>1. CASE field = "crawled"
  BY <1>1 DEF Counters
<1>2. CASE field = "succeeded"
  BY <1>2 DEF Counters
<1>3. CASE field = "failed"
  BY <1>3 DEF Counters
<1>4. CASE field = "blocked"
  BY <1>4 DEF Counters
<1>5. CASE field = "queued"
  BY <1>5 DEF Counters
<1> QED BY <1>1, <1>2, <1>3, <1>4, <1>5

\* Offering a URL touches the frontier, the deduplicator and the queued counter.
LEMMA OfferFacts ==
  ASSUME TypeOK, NEW u \in Urls, NEW depth \in Nat, Offer(u, depth)
  PROVE  /\ frontier' \in Seq(Targets) /\ visited' \subseteq Urls /\ refused' \subseteq Urls
         /\ stats' \in Counters
         /\ stats'.crawled = stats.crawled /\ stats'.succeeded = stats.succeeded
         /\ stats'.failed = stats.failed /\ stats'.blocked = stats.blocked
<1>1. [url |-> u, depth |-> depth] \in Targets
  BY DEF Targets
<1>2. CASE Allowed(u, depth) /\ Len(frontier) < FrontierCapacity
  <2>1. /\ frontier' = Append(frontier, [url |-> u, depth |-> depth])
        /\ stats' = [stats EXCEPT !.queued = @ + 1]
        /\ visited' = visited \cup {u} /\ refused' = refused
    BY <1>2 DEF Offer
  <2>2. frontier' \in Seq(Targets)
    BY <1>1, <2>1, AppendProperties DEF TypeOK
  <2>3. /\ stats' \in Counters
        /\ stats'.crawled = stats.crawled /\ stats'.succeeded = stats.succeeded
        /\ stats'.failed = stats.failed /\ stats'.blocked = stats.blocked
    <3>1. stats \in Counters
      BY DEF TypeOK
    <3> QED BY <2>1, <3>1, OneMore
  <2>4. visited' \subseteq Urls /\ refused' \subseteq Urls
    BY <2>1 DEF TypeOK
  <2> QED BY <2>2, <2>3, <2>4
<1>3. CASE Allowed(u, depth) /\ ~(Len(frontier) < FrontierCapacity)
  BY <1>3 DEF Offer, TypeOK
<1>4. CASE ~Allowed(u, depth)
  BY <1>4 DEF Offer, TypeOK
<1> QED BY <1>2, <1>3, <1>4

\* A page that is counted is counted under one outcome.
LEMMA CountFacts ==
  ASSUME TypeOK, NEW sort \in {"succeeded", "failed", "blocked"}, Count(sort)
  PROVE  /\ stats' \in Counters
         /\ stats'.crawled = stats.crawled + 1
         /\ stats'.succeeded + stats'.failed + stats'.blocked =
               stats.succeeded + stats.failed + stats.blocked + 1
<1> DEFINE once == [stats EXCEPT !.crawled = @ + 1]
<1>1. stats \in Counters
  BY DEF TypeOK
<1>2. /\ once \in Counters
      /\ once.crawled = stats.crawled + 1 /\ once.succeeded = stats.succeeded
      /\ once.failed = stats.failed /\ once.blocked = stats.blocked
  BY <1>1, OneMore
<1>3. stats' = [once EXCEPT ![sort] = @ + 1]
  BY <1>1 DEF Count, Counters
<1> HIDE DEF once
<1>4. stats' \in Counters
  BY <1>2, <1>3, OneMore
<1>5. /\ stats.succeeded \in Nat /\ stats.failed \in Nat /\ stats.blocked \in Nat
  BY <1>1 DEF Counters
<1>6. CASE sort = "succeeded"
  BY <1>2, <1>3, <1>5, <1>6 DEF Counters
<1>7. CASE sort = "failed"
  BY <1>2, <1>3, <1>5, <1>7 DEF Counters
<1>8. CASE sort = "blocked"
  BY <1>2, <1>3, <1>5, <1>8 DEF Counters
<1> QED BY <1>4, <1>6, <1>7, <1>8

\* Nobody is in a handler and nothing is counted when the tasks are spawned.
LEMMA EngineInit == Init => EngineInv
<1> SUFFICES ASSUME Init PROVE EngineInv
  OBVIOUS
<1>1. \A S : "loop" \notin S => Number(at, S) = 0
  <2> SUFFICES ASSUME NEW S, "loop" \notin S PROVE Number(at, S) = 0
    OBVIOUS
  <2>1. {v \in Workers : at[v] \in S} = {}
    BY DEF Init
  <2> QED BY <2>1, FS_EmptySet DEF Number
<1>2. Cardinality(Workers) \in Nat \ {0}
  BY EngineAssumption, FS_CardinalityType, FS_EmptySet
<1>3. TypeOK
  <2>1. Seed \in Urls /\ <<[url |-> Seed, depth |-> 0]>> \in Seq(Targets) /\ <<>> \in Seq(Urls)
    BY EngineAssumption DEF Targets
  <2>2. frontier \in Seq(Targets) /\ pages \in Seq(Urls) /\ visited \subseteq Urls
    BY <2>1 DEF Init
  <2>3. stats \in Counters
    BY DEF Init, Counters
  <2>4. /\ at \in [Workers -> Steps] /\ target \in [Workers -> Targets \cup {NoTarget}]
        /\ tries \in [Workers -> 0 .. MaxRetries] /\ todo \in [Workers -> SUBSET Urls]
    BY EngineAssumption DEF Init, Steps
  <2> QED BY <2>2, <2>3, <2>4 DEF Init, TypeOK
<1>4. HasTarget /\ DoneJoined
  BY DEF Init, HasTarget, TargetSteps, DoneJoined, Done
<1>5. ActiveCounts
  <2>1. Number(at, HandlerSteps) = 0
    BY <1>1 DEF HandlerSteps
  <2> QED BY <2>1 DEF Init, ActiveCounts, Number
<1>6. Committed
  BY <1>1, <1>2, EngineAssumption DEF Init, Committed, CommittedSteps
<1>7. Counted
  BY <1>1 DEF Init, Counted, CountedSteps
<1> QED BY <1>3, <1>4, <1>5, <1>6, <1>7 DEF EngineInv

\* By how much a worker's move changes the number at the steps S.
Delta(w, step, S) ==
    (IF step \in S THEN 1 ELSE 0) - (IF at[w] \in S THEN 1 ELSE 0)

\* A worker that moves from one step to another keeps the invariant when it
\* changes the counters by what Delta says.
LEMMA WorkerStep ==
  ASSUME EngineInv, TypeOK', NEW w \in Workers, NEW step \in Steps, Goto(w, step),
         at[w] # "exit", monitor' = monitor,
         \A v \in Workers : v # w => target'[v] = target[v],
         step \in TargetSteps => target'[w] \in Targets,
         active' = active + Delta(w, step, HandlerSteps),
         \/ stats'.crawled + Delta(w, step, CommittedSteps) <= stats.crawled
         \/ stats'.crawled < Limit,
         stats'.crawled + Len(pages) =
            stats.crawled + Len(pages') + Delta(w, step, CountedSteps),
         stats'.crawled = stats'.succeeded + stats'.failed + stats'.blocked
  PROVE  EngineInv'
<1> USE DEF EngineInv
<1>1. TypeOK /\ Limit \in Nat
  BY EngineAssumption
<1>2. /\ at' \in [Workers -> Steps]
      /\ at'[w] = step /\ \A v \in Workers : v # w => at'[v] = at[v]
      /\ \A S : /\ Number(at, S) \in Nat /\ Number(at', S) \in Nat
                /\ Number(at', S) = Number(at, S) + Delta(w, step, S)
                /\ Delta(w, step, S) \in -1 .. 1
  <2>1. ASSUME NEW S
        PROVE  /\ Number(at, S) \in Nat /\ Number(at', S) \in Nat
               /\ Number(at', S) = Number(at, S) + Delta(w, step, S)
               /\ Delta(w, step, S) \in -1 .. 1
    BY <1>1, GotoFacts DEF Delta
  <2> QED BY <1>1, <2>1, GotoFacts
<1>3. /\ stats.crawled \in Nat /\ stats'.crawled \in Nat /\ active \in Nat
      /\ Len(pages) \in Nat /\ Len(pages') \in Nat
  <2>1. stats \in Counters /\ stats' \in Counters /\ pages \in Seq(Urls) /\ pages' \in Seq(Urls)
    BY <1>1 DEF TypeOK
  <2> QED BY <1>1, <2>1, LenProperties DEF Counters, TypeOK
<1>4. HasTarget'
  BY <1>2 DEF HasTarget
<1>5. ActiveCounts'
  BY <1>2, <1>3 DEF ActiveCounts, Number
<1>6. Committed'
  <2>1. Cardinality(Workers) \in Nat /\ Number(at', CommittedSteps) <= Cardinality(Workers)
    BY <1>2, NumberFacts, EngineAssumption, FS_CardinalityType
  <2> DEFINE d == Delta(w, step, CommittedSteps)
             n == Number(at, CommittedSteps)
             m == Number(at', CommittedSteps)
  <2>2. n \in Nat /\ m \in Nat /\ m = n + d /\ d \in -1 .. 1
    BY <1>2
  <2>3. stats.crawled + n <= Limit + Cardinality(Workers) - 1
    BY DEF Committed
  <2> HIDE DEF d, n, m
  <2>4. stats'.crawled < Limit \/ stats'.crawled + d <= stats.crawled
    BY DEF d
  <2>5. m <= Cardinality(Workers)
    BY <2>1 DEF m
  <2> SUFFICES stats'.crawled + m <= Limit + Cardinality(Workers) - 1
    BY DEF Committed, m
  <2>6. CASE stats'.crawled < Limit
    BY <1>1, <1>3, <2>1, <2>2, <2>5, <2>6
  <2>7. CASE stats'.crawled + d <= stats.crawled
    <3> DEFINE c == stats.crawled
               e == stats'.crawled
    <3>1. c \in Nat /\ e \in Nat /\ e + d <= c
      BY <1>3, <2>7
    <3>2. c + n <= Limit + Cardinality(Workers) - 1
      BY <2>3
    <3> HIDE DEF c, e
    <3>3. e + m <= c + n
      BY <2>2, <3>1
    <3>4. e + m <= Limit + Cardinality(Workers) - 1
      BY <1>1, <2>1, <2>2, <3>1, <3>2, <3>3
    <3> QED BY <3>4 DEF e
  <2> QED BY <2>4, <2>6, <2>7
<1>7. Counted'
  <2> DEFINE d == Delta(w, step, CountedSteps)
             n == Number(at, CountedSteps)
             m == Number(at', CountedSteps)
  <2>1. n \in Nat /\ m = n + d /\ d \in -1 .. 1
    BY <1>2
  <2>2. stats.crawled = Len(pages) + n
    BY DEF Counted
  <2>3. stats'.crawled + Len(pages) = stats.crawled + Len(pages') + d
    OBVIOUS
  <2> HIDE DEF d, n, m
  <2>4. stats'.crawled = Len(pages') + m
    BY <1>3, <2>1, <2>2, <2>3
  <2> QED BY <2>4 DEF Counted, m
<1>8. DoneJoined'
  BY <1>1 DEF DoneJoined, Done, AllJoined
<1> QED BY <1>4, <1>5, <1>6, <1>7, <1>8

\* A step of the sitemap task, of the monitor or of the caller.
LEMMA OtherStep ==
  ASSUME EngineInv, TypeOK', UNCHANGED <<at, target, active, pages>>,
         stats'.crawled = stats.crawled, stats'.succeeded = stats.succeeded,
         stats'.failed = stats.failed, stats'.blocked = stats.blocked,
         Done' => AllJoined
  PROVE  EngineInv'
<1>1. HasTarget' /\ DoneJoined'
  BY DEF EngineInv, HasTarget, DoneJoined, AllJoined
<1>2. ActiveCounts' /\ Committed' /\ Counted'
  BY DEF EngineInv, ActiveCounts, Committed, Counted, Number
<1> QED BY <1>1, <1>2 DEF EngineInv

-----------------------------------------------------------------------------
\* The step from each place in the loop and the handler: one lemma for the
\* types, then the invariant.
LEMMA TypeStepOfWorker ==
  ASSUME EngineInv, NEW w \in Workers, Work(w)
  PROVE  TypeOK'
<1>1. TypeOK /\ HasTarget
  BY DEF EngineInv
<1>2. \A step \in Steps : Goto(w, step) => at' \in [Workers -> Steps]
  BY <1>1, GotoFacts
<1>3. Steps = {"loop", "pop", "popped", "process", "scrape", "wait", "links", "push",
               "leave", "none", "empty", "idle", "exit"}
  BY DEF Steps
<1>4. CASE Exit(w) \/ Check(w) \/ LookActive(w) \/ LookEmpty(w) \/ DeclareFinished(w)
  <2>1. at' \in [Workers -> Steps]
    BY <1>2, <1>3, <1>4 DEF Exit, Check, LookActive, LookEmpty, DeclareFinished
  <2>2. finished' \in BOOLEAN
    BY <1>1, <1>4 DEF Exit, Check, LookActive, LookEmpty, DeclareFinished, TypeOK
  <2> QED
    BY <1>1, <1>4, <2>1, <2>2
    DEF Exit, Check, LookActive, LookEmpty, DeclareFinished, TypeOK, worker, sitemapTask
<1>5. CASE TryPop(w)
  <2>1. at' \in [Workers -> Steps]
    BY <1>2, <1>3, <1>5 DEF TryPop
  <2>2. frontier' \in Seq(Targets) /\ target' \in [Workers -> Targets \cup {NoTarget}]
    <3>1. CASE frontier = <<>>
      BY <1>1, <1>5, <3>1 DEF TryPop, TypeOK
    <3>2. CASE frontier # <<>>
      <4>1. Head(frontier) \in Targets /\ Tail(frontier) \in Seq(Targets)
        BY <1>1, <3>2, HeadTailProperties DEF TypeOK
      <4> QED BY <1>1, <1>5, <3>2, <4>1 DEF TryPop, TypeOK
    <3> QED BY <3>1, <3>2
  <2> QED BY <1>1, <1>5, <2>1, <2>2 DEF TryPop, TypeOK, sitemapTask
<1>6. CASE Enter(w)
  <2>1. at' \in [Workers -> Steps] /\ target[w] \in Targets
    BY <1>1, <1>2, <1>3, <1>6 DEF Enter, Drop, HasTarget, TargetSteps
  <2>2. target[w].url \in Urls
    BY <2>1 DEF Targets
  <2>3. dropped' \subseteq Urls /\ target' \in [Workers -> Targets \cup {NoTarget}]
    BY <1>1, <1>6, <2>2 DEF Enter, Drop, TypeOK
  <2>4. active' \in Nat /\ tries' \in [Workers -> 0 .. MaxRetries]
    BY <1>1, <1>6, EngineAssumption DEF Enter, TypeOK
  <2> QED BY <1>1, <1>6, <2>1, <2>3, <2>4 DEF Enter, TypeOK, sitemapTask
<1>7. CASE Leave(w)
  <2>1. at' \in [Workers -> Steps]
    BY <1>2, <1>3, <1>7 DEF Leave
  <2>2. active' \in Nat
    <3>1. Number(at, HandlerSteps) - 1 \in Nat
      <4> DEFINE old == {v \in Workers : at[v] \in HandlerSteps}
      <4>1. IsFiniteSet(old) /\ w \in old
        BY <1>7, EngineAssumption, FS_Subset DEF Leave, HandlerSteps
      <4>2. Cardinality(old) \in Nat /\ Cardinality(old) # 0
        BY <4>1, FS_CardinalityType, FS_EmptySet
      <4> QED BY <4>2 DEF Number
    <3>2. active = Number(at, HandlerSteps)
      BY DEF EngineInv, ActiveCounts, Number
    <3> QED BY <1>7, <3>1, <3>2 DEF Leave, OneLess
  <2> QED BY <1>1, <1>7, <2>1, <2>2 DEF Leave, TypeOK, sitemapTask
<1>8. CASE GiveUp(w)
  <2>1. at' \in [Workers -> Steps] /\ target[w] \in Targets
    BY <1>1, <1>2, <1>3, <1>8 DEF GiveUp, Drop, HasTarget, TargetSteps
  <2>2. target[w].url \in Urls
    BY <2>1 DEF Targets
  <2>3. dropped' \subseteq Urls /\ target' \in [Workers -> Targets \cup {NoTarget}]
    BY <1>1, <1>8, <2>2 DEF GiveUp, Drop, TypeOK
  <2> QED BY <1>1, <1>8, <2>1, <2>3 DEF GiveUp, TypeOK, sitemapTask
<1>9. CASE RobotsBlock(w) \/ ScrapeErr(w)
  <2>1. at' \in [Workers -> Steps]
    BY <1>2, <1>3, <1>9 DEF RobotsBlock, ScrapeErr
  <2>2. stats' \in Counters
    BY <1>1, <1>9, CountFacts DEF RobotsBlock, ScrapeErr
  <2> QED BY <1>1, <1>9, <2>1, <2>2 DEF RobotsBlock, ScrapeErr, TypeOK, sitemapTask
<1>10. CASE BeginScrape(w) \/ Retry(w) \/ LinksDone(w)
  <2>1. at' \in [Workers -> Steps]
    BY <1>2, <1>3, <1>10 DEF BeginScrape, Retry, LinksDone
  <2> QED BY <1>1, <1>10, <2>1 DEF BeginScrape, Retry, LinksDone, TypeOK, sitemapTask
<1>11. CASE ScrapeAgain(w)
  <2>1. at' \in [Workers -> Steps]
    BY <1>2, <1>3, <1>11 DEF ScrapeAgain
  <2>2. tries' \in [Workers -> 0 .. MaxRetries]
    BY <1>1, <1>11, EngineAssumption DEF ScrapeAgain, RetryLeft, TypeOK
  <2> QED BY <1>1, <1>11, <2>1, <2>2 DEF ScrapeAgain, TypeOK, sitemapTask
<1>12. CASE ScrapeOk(w)
  <2>1. at' \in [Workers -> Steps] /\ target[w] \in Targets
    BY <1>1, <1>2, <1>3, <1>12 DEF ScrapeOk, HasTarget, TargetSteps
  <2>2. todo' \in [Workers -> SUBSET Urls]
    <3>1. Links[target[w].url] \subseteq Urls
      BY <2>1, EngineAssumption DEF Targets
    <3> QED BY <1>1, <1>12, <3>1 DEF ScrapeOk, TypeOK
  <2>3. stats' \in Counters
    BY <1>1, <1>12, CountFacts DEF ScrapeOk
  <2> QED BY <1>1, <1>12, <2>1, <2>2, <2>3 DEF ScrapeOk, TypeOK, sitemapTask
<1>13. CASE OfferLink(w)
  <2>1. PICK u \in todo[w] :
           /\ todo' = [todo EXCEPT ![w] = @ \ {u}]
           /\ Offer(u, target[w].depth + 1)
    BY <1>13 DEF OfferLink
  <2>2. u \in Urls /\ target[w] \in Targets
    BY <1>1, <1>13 DEF TypeOK, OfferLink, HasTarget, TargetSteps
  <2>3. target[w].depth + 1 \in Nat
    BY <2>2 DEF Targets
  <2>4. /\ frontier' \in Seq(Targets) /\ visited' \subseteq Urls /\ refused' \subseteq Urls
        /\ stats' \in Counters
    BY <1>1, <2>1, <2>2, <2>3, OfferFacts
  <2>5. todo' \in [Workers -> SUBSET Urls]
    BY <1>1, <2>1 DEF TypeOK
  <2> QED BY <1>1, <1>13, <2>4, <2>5 DEF OfferLink, TypeOK, sitemapTask
<1>14. CASE PushPage(w)
  <2>1. at' \in [Workers -> Steps] /\ target[w] \in Targets
    BY <1>1, <1>2, <1>3, <1>14 DEF PushPage, HasTarget, TargetSteps
  <2>2. pages' \in Seq(Urls)
    <3>1. target[w].url \in Urls
      BY <2>1 DEF Targets
    <3> QED BY <1>1, <1>14, <3>1, AppendProperties DEF PushPage, TypeOK
  <2>3. target' \in [Workers -> Targets \cup {NoTarget}]
    BY <1>1, <1>14 DEF PushPage, TypeOK
  <2> QED BY <1>1, <1>14, <2>1, <2>2, <2>3 DEF PushPage, TypeOK, sitemapTask
<1> QED
  BY <1>4, <1>5, <1>6, <1>7, <1>8, <1>9, <1>10, <1>11, <1>12, <1>13, <1>14 DEF Work

\* Every step of a worker is such a move: one case per action.
LEMMA InvStepOfWorker ==
  ASSUME EngineInv, NEW w \in Workers, Work(w)
  PROVE  EngineInv'
<1> USE DEF CommittedSteps, CountedSteps, TargetSteps, HandlerSteps, Delta
<1>1. TypeOK /\ TypeOK' /\ HasTarget
  BY TypeStepOfWorker DEF EngineInv
<1>2. /\ stats.crawled = stats.succeeded + stats.failed + stats.blocked
      /\ stats.crawled \in Nat /\ stats'.crawled \in Nat /\ active \in Nat /\ Limit \in Nat
      /\ Len(pages) \in Nat
  <2>1. stats \in Counters /\ stats' \in Counters /\ pages \in Seq(Urls)
    BY <1>1 DEF TypeOK
  <2> QED BY <1>1, <2>1, EngineAssumption, LenProperties DEF Counters, TypeOK, EngineInv, Counted
<1>3. target \in [Workers -> Targets \cup {NoTarget}]
  BY <1>1 DEF TypeOK
<1>4. ASSUME Exit(w) PROVE EngineInv'
  <2>1. Goto(w, "exit") /\ "exit" \in Steps
    BY <1>4 DEF Exit, Steps
  <2> QED BY <1>1, <1>2, <1>4, <2>1, WorkerStep DEF Exit
<1>5. ASSUME Check(w) PROVE EngineInv'
  <2>1. CASE LimitReached
    <3>1. Goto(w, "exit") /\ "exit" \in Steps
      BY <1>5, <2>1 DEF Check, Steps
    <3> QED BY <1>1, <1>2, <1>5, <3>1, WorkerStep DEF Check
  <2>2. CASE ~LimitReached
    <3>1. Goto(w, "pop") /\ "pop" \in Steps /\ stats.crawled < Limit
      BY <1>2, <1>5, <2>2 DEF Check, Steps, LimitReached
    <3> QED BY <1>1, <1>2, <1>5, <3>1, WorkerStep DEF Check
  <2> QED BY <2>1, <2>2
<1>6. ASSUME TryPop(w) PROVE EngineInv'
  <2>1. CASE frontier = <<>>
    <3>1. Goto(w, "none") /\ "none" \in Steps /\ target' = target
      BY <1>6, <2>1 DEF TryPop, Steps
    <3> QED BY <1>1, <1>2, <1>6, <3>1, WorkerStep DEF TryPop
  <2>2. CASE frontier # <<>>
    <3>1. Goto(w, "popped") /\ "popped" \in Steps
      BY <1>6, <2>2 DEF TryPop, Steps
    <3>2. target'[w] \in Targets /\ \A v \in Workers : v # w => target'[v] = target[v]
      <4>1. Head(frontier) \in Targets
        BY <1>1, <2>2, HeadTailProperties DEF TypeOK
      <4> QED BY <1>3, <1>6, <2>2, <4>1 DEF TryPop
    <3> QED BY <1>1, <1>2, <1>6, <3>1, <3>2, WorkerStep DEF TryPop
  <2> QED BY <2>1, <2>2
<1>7. ASSUME Enter(w) PROVE EngineInv'
  <2>1. CASE cancelled
    <3>1. Goto(w, "leave") /\ "leave" \in Steps
      BY <1>7, <2>1 DEF Enter, Drop, Steps
    <3>2. \A v \in Workers : v # w => target'[v] = target[v]
      BY <1>3, <1>7, <2>1 DEF Enter, Drop
    <3> QED BY <1>1, <1>2, <1>7, <3>1, <3>2, WorkerStep DEF Enter
  <2>2. CASE ~cancelled
    <3>1. Goto(w, "process") /\ "process" \in Steps
      BY <1>7, <2>2 DEF Enter, Steps
    <3>2. target' = target /\ target[w] \in Targets
      BY <1>1, <1>7, <2>2 DEF Enter, HasTarget
    <3> QED BY <1>1, <1>2, <1>7, <3>1, <3>2, WorkerStep DEF Enter
  <2> QED BY <2>1, <2>2
<1>8. ASSUME Leave(w) PROVE EngineInv'
  <2>1. Goto(w, "loop") /\ "loop" \in Steps
    BY <1>8 DEF Leave, Steps
  <2> QED BY <1>1, <1>2, <1>8, <2>1, WorkerStep DEF Leave, OneLess
<1>9. ASSUME LookActive(w) PROVE EngineInv'
  <2>1. PICK step \in {"empty", "loop"} : Goto(w, step)
    BY <1>9 DEF LookActive
  <2>2. step \in Steps
    BY DEF Steps
  <2> QED BY <1>1, <1>2, <1>9, <2>1, <2>2, WorkerStep DEF LookActive
<1>10. ASSUME LookEmpty(w) PROVE EngineInv'
  <2>1. PICK step \in {"idle", "loop"} : Goto(w, step)
    BY <1>10 DEF LookEmpty
  <2>2. step \in Steps
    BY DEF Steps
  <2> QED BY <1>1, <1>2, <1>10, <2>1, <2>2, WorkerStep DEF LookEmpty
<1>11. ASSUME DeclareFinished(w) PROVE EngineInv'
  <2>1. PICK step \in {"exit", "loop"} : Goto(w, step)
    BY <1>11 DEF DeclareFinished
  <2>2. step \in Steps
    BY DEF Steps
  <2> QED BY <1>1, <1>2, <1>11, <2>1, <2>2, WorkerStep DEF DeclareFinished
<1>12. ASSUME GiveUp(w) PROVE EngineInv'
  <2>1. Goto(w, "leave") /\ "leave" \in Steps
    BY <1>12 DEF GiveUp, Drop, Steps
  <2>2. \A v \in Workers : v # w => target'[v] = target[v]
    BY <1>3, <1>12 DEF GiveUp, Drop
  <2> QED BY <1>1, <1>2, <1>12, <2>1, <2>2, WorkerStep DEF GiveUp
<1>13. ASSUME RobotsBlock(w) \/ ScrapeErr(w) PROVE EngineInv'
  <2>1. Goto(w, "push") /\ "push" \in Steps /\ target' = target /\ target[w] \in Targets
    BY <1>1, <1>13 DEF RobotsBlock, ScrapeErr, Steps, HasTarget
  <2>2. /\ stats'.crawled = stats.crawled + 1
        /\ stats'.crawled = stats'.succeeded + stats'.failed + stats'.blocked
    BY <1>1, <1>2, <1>13, CountFacts DEF RobotsBlock, ScrapeErr
  <2>3. at[w] \in {"process", "scrape"} /\ UNCHANGED <<active, pages, monitor>>
    BY <1>13 DEF RobotsBlock, ScrapeErr
  <2> QED BY <1>1, <1>2, <2>1, <2>2, <2>3, WorkerStep
<1>14. ASSUME BeginScrape(w) \/ Retry(w) \/ LinksDone(w) \/ ScrapeAgain(w) PROVE EngineInv'
  <2>1. PICK step \in {"scrape", "push", "wait"} :
          /\ Goto(w, step)
          /\ step = "push" <=> at[w] = "links"
          /\ at[w] \in {"process", "wait", "links", "scrape"}
    BY <1>14 DEF BeginScrape, Retry, LinksDone, ScrapeAgain
  <2>2. step \in Steps
    BY DEF Steps
  <2>3. UNCHANGED <<target, active, stats, pages, monitor>> /\ target[w] \in Targets
    BY <1>1, <1>14, <2>1 DEF BeginScrape, Retry, LinksDone, ScrapeAgain, HasTarget
  <2> QED BY <1>1, <1>2, <2>1, <2>2, <2>3, WorkerStep
<1>15. ASSUME ScrapeOk(w) PROVE EngineInv'
  <2>1. Goto(w, "links") /\ "links" \in Steps /\ target' = target /\ target[w] \in Targets
    BY <1>1, <1>15 DEF ScrapeOk, Steps, HasTarget
  <2>2. /\ stats'.crawled = stats.crawled + 1
        /\ stats'.crawled = stats'.succeeded + stats'.failed + stats'.blocked
    BY <1>1, <1>2, <1>15, CountFacts DEF ScrapeOk
  <2> QED BY <1>1, <1>2, <1>15, <2>1, <2>2, WorkerStep DEF ScrapeOk
<1>16. ASSUME OfferLink(w) PROVE EngineInv'
  <2>1. PICK u \in todo[w] : Offer(u, target[w].depth + 1)
    BY <1>16 DEF OfferLink
  <2>2. u \in Urls /\ target[w] \in Targets
    BY <1>1, <1>16 DEF TypeOK, OfferLink, HasTarget
  <2>3. target[w].depth + 1 \in Nat
    BY <2>2 DEF Targets
  <2>4. /\ stats'.crawled = stats.crawled /\ stats'.succeeded = stats.succeeded
        /\ stats'.failed = stats.failed /\ stats'.blocked = stats.blocked
    BY <1>1, <2>1, <2>2, <2>3, OfferFacts
  <2> QED BY <1>1, <1>16, <2>4, OtherStep DEF OfferLink, EngineInv, DoneJoined, Done
<1>17. ASSUME PushPage(w) PROVE EngineInv'
  <2>1. Goto(w, "leave") /\ "leave" \in Steps
    BY <1>17 DEF PushPage, Steps
  <2>2. \A v \in Workers : v # w => target'[v] = target[v]
    BY <1>3, <1>17 DEF PushPage
  <2>3. Len(pages') = Len(pages) + 1
    <3>1. target[w] \in Targets /\ pages \in Seq(Urls)
      BY <1>1, <1>17 DEF PushPage, HasTarget, TypeOK
    <3>2. target[w].url \in Urls
      BY <3>1 DEF Targets
    <3>3. Len(Append(pages, target[w].url)) = Len(pages) + 1
      BY <3>1, <3>2, AppendProperties
    <3> QED BY <1>17, <3>3 DEF PushPage
  <2> QED BY <1>1, <1>2, <1>17, <2>1, <2>2, <2>3, WorkerStep DEF PushPage
<1> QED
  BY <1>4, <1>5, <1>6, <1>7, <1>8, <1>9, <1>10, <1>11, <1>12, <1>13, <1>14, <1>15, <1>16,
     <1>17 DEF Work

\* The sitemap task, the monitor and the caller leave the workers alone.
LEMMA InvStepOfOthers ==
  ASSUME EngineInv, Sitemap \/ Monitor \/ StopWaiting(TRUE) \/ Cancel
  PROVE  EngineInv'
<1>1. TypeOK /\ DoneJoined
  BY DEF EngineInv
<1>2. ASSUME SitemapFetched \/ SitemapEnd PROVE EngineInv'
  <2>1. TypeOK'
    BY <1>1, <1>2, EngineAssumption DEF SitemapFetched, SitemapEnd, TypeOK, worker
  <2> QED BY <1>1, <1>2, <2>1, OtherStep DEF SitemapFetched, SitemapEnd, worker, DoneJoined, Done
<1>3. ASSUME SitemapPush PROVE EngineInv'
  <2>1. PICK u \in mapTodo : mapTodo' = mapTodo \ {u} /\ Offer(u, 1)
    BY <1>3 DEF SitemapPush
  <2>2. u \in Urls /\ 1 \in Nat
    BY <1>1 DEF TypeOK
  <2>3. /\ frontier' \in Seq(Targets) /\ visited' \subseteq Urls /\ refused' \subseteq Urls
        /\ stats' \in Counters
        /\ stats'.crawled = stats.crawled /\ stats'.succeeded = stats.succeeded
        /\ stats'.failed = stats.failed /\ stats'.blocked = stats.blocked
    BY <1>1, <2>1, <2>2, OfferFacts
  <2>4. TypeOK'
    BY <1>1, <1>3, <2>1, <2>3 DEF SitemapPush, TypeOK, worker
  <2> QED BY <1>1, <1>3, <2>3, <2>4, OtherStep DEF SitemapPush, worker, DoneJoined, Done
<1>4. ASSUME StopWaiting(TRUE) \/ StopWaiting(FALSE) PROVE EngineInv'
  <2>1. TypeOK' /\ ~Done'
    BY <1>1, <1>4 DEF StopWaiting, TypeOK, worker, sitemapTask, Done
  <2> QED BY <1>4, <2>1, OtherStep DEF StopWaiting, worker
<1>5. ASSUME Conclude PROVE EngineInv'
  <2>1. TypeOK' /\ AllJoined
    BY <1>1, <1>5 DEF Conclude, TypeOK, worker, sitemapTask
  <2> QED BY <1>5, <2>1, OtherStep DEF Conclude, worker
<1>6. ASSUME Cancel PROVE EngineInv'
  <2>1. TypeOK'
    BY <1>1, <1>6 DEF Cancel, TypeOK, worker, sitemapTask
  <2> QED BY <1>1, <1>6, <2>1, OtherStep DEF Cancel, worker, DoneJoined, Done
<1> QED BY <1>2, <1>3, <1>4, <1>5, <1>6 DEF Sitemap, Monitor

\* A stuttering step keeps the invariant.
LEMMA EngineStutter == EngineInv /\ UNCHANGED vars => EngineInv'
<1> SUFFICES ASSUME EngineInv, UNCHANGED vars PROVE EngineInv'
  OBVIOUS
<1>1. TypeOK'
  BY DEF EngineInv, TypeOK, vars, worker, sitemapTask
<1> QED BY <1>1, OtherStep DEF vars, worker, sitemapTask, EngineInv, DoneJoined, Done

\* The inductive invariant holds in every reachable state.
THEOREM EngineInvariant == Spec => []EngineInv
<1>1. Init => EngineInv
  BY EngineInit
<1>2. EngineInv /\ [Next]_vars => EngineInv'
  BY InvStepOfWorker, InvStepOfOthers, EngineStutter DEF Next
<1> QED BY <1>1, <1>2, PTL DEF Spec

-----------------------------------------------------------------------------
\* The crawl's variables keep their types; in particular active_workers, which
\* the code decrements without a look, never passes below zero.
THEOREM EngineTypeCorrect == Spec => []TypeOK
BY EngineInvariant, PTL DEF EngineInv

\* active_workers is the number of handlers running, in every state.
THEOREM ActiveCountsAlways == Spec => []ActiveCounts
BY EngineInvariant, PTL DEF EngineInv

\* The limit is passed by at most one page per worker but the first.
THEOREM OvershootAlways == Spec => []OvershootBounded
<1>1. EngineInv => OvershootBounded
  <2> SUFFICES ASSUME EngineInv PROVE OvershootBounded
    OBVIOUS
  <2>1. /\ at \in [Workers -> Steps] /\ stats.crawled \in Nat
        /\ Limit \in Nat /\ Cardinality(Workers) \in Nat
    BY EngineAssumption, FS_CardinalityType DEF EngineInv, TypeOK, Counters
  <2>2. Number(at, CommittedSteps) \in Nat
    BY <2>1, NumberFacts
  <2> QED BY <2>1, <2>2 DEF EngineInv, Committed, OvershootBounded
<1> QED BY <1>1, EngineInvariant, PTL

\* When the crawl has concluded every counted page is in the list, and the
\* counters of the outcomes add up: a worker that counted has also collected,
\* because the monitor joins the workers first.
THEOREM CountersMatchAlways == Spec => []CountersMatchPages
<1>1. EngineInv => CountersMatchPages
  <2> SUFFICES ASSUME EngineInv, Done
               PROVE  /\ stats.crawled = Len(pages)
                      /\ stats.crawled = stats.succeeded + stats.failed + stats.blocked
    BY DEF CountersMatchPages
  <2>1. Number(at, CountedSteps) = 0
    <3>1. {v \in Workers : at[v] \in CountedSteps} = {}
      BY DEF EngineInv, DoneJoined, AllJoined, CountedSteps
    <3> QED BY <3>1, FS_EmptySet DEF Number
  <2>2. Len(pages) \in Nat
    BY LenProperties DEF EngineInv, TypeOK
  <2> QED BY <2>1, <2>2 DEF EngineInv, Counted
<1> QED BY <1>1, EngineInvariant, PTL

-----------------------------------------------------------------------------
\* A worker between its pop and the end of its handler's target.
Loaded == {w \in Workers : target[w] # NoTarget}
OnlyWhileHandled == \A w \in Workers : target[w] # NoTarget => at[w] \in TargetSteps

\* The invariant of the places a URL may be at.
OnceInv == OnlyWhileHandled /\ IsFiniteSet(visited) /\ EveryUrlOnce

-----------------------------------------------------------------------------
\* A set is no larger than one it is the image of.
LEMMA ImageBound ==
  ASSUME NEW S, IsFiniteSet(S), NEW R, NEW f \in [S -> R], \A y \in R : \E x \in S : f[x] = y
  PROVE  IsFiniteSet(R) /\ Cardinality(R) \in Nat /\ Cardinality(R) <= Cardinality(S)
<1>1. f \in Surjection(S, R)
  BY DEF Surjection
<1> QED BY <1>1, FS_Surjection, FS_CardinalityType

\* There are n numbers from 1 to n.
LEMMA CountTo ==
  ASSUME NEW n \in Nat
  PROVE  IsFiniteSet(1..n) /\ Cardinality(1..n) = n
<1>1. IsFiniteSet(1..n) /\ Cardinality(1..n) = IF 1 > n THEN 0 ELSE n - 1 + 1
  BY FS_Interval
<1> QED BY <1>1

\* A union has at most as many elements as its parts together.
LEMMA UnionBound ==
  ASSUME NEW A, NEW B, IsFiniteSet(A), IsFiniteSet(B)
  PROVE  /\ IsFiniteSet(A \cup B) /\ Cardinality(A \cup B) \in Nat
         /\ Cardinality(A) \in Nat /\ Cardinality(B) \in Nat
         /\ Cardinality(A \cup B) <= Cardinality(A) + Cardinality(B)
<1>1. IsFiniteSet(A \cup B) /\ Cardinality(A \cup B) = Cardinality(A) + Cardinality(B) - Cardinality(A \cap B)
  BY FS_Union
<1>2. IsFiniteSet(A \cap B)
  BY FS_Subset
<1>3. /\ Cardinality(A) \in Nat /\ Cardinality(B) \in Nat /\ Cardinality(A \cap B) \in Nat
      /\ Cardinality(A \cup B) \in Nat
  BY <1>1, <1>2, FS_CardinalityType
<1> QED BY <1>1, <1>3

-----------------------------------------------------------------------------
\* What the places hold.
LEMMA PlaceFacts ==
  ASSUME TypeOK, HasTarget, OnceInv
  PROVE  /\ IsFiniteSet(Loaded) /\ Cardinality(Loaded) \in Nat /\ Len(frontier) \in Nat /\ Len(pages) \in Nat
         /\ \A w \in Loaded : target[w] \in Targets
         /\ IsFiniteSet(Pending) /\ Cardinality(Pending) <= Len(frontier)
         /\ IsFiniteSet(InHand) /\ Cardinality(InHand) <= Cardinality(Loaded)
         /\ IsFiniteSet(Range(pages)) /\ Cardinality(Range(pages)) <= Len(pages)
         /\ IsFiniteSet(refused) /\ IsFiniteSet(dropped)
         /\ Cardinality(refused) \in Nat /\ Cardinality(dropped) \in Nat /\ Cardinality(visited) \in Nat
<1>1. IsFiniteSet(Loaded) /\ Cardinality(Loaded) \in Nat
  BY EngineAssumption, FS_Subset, FS_CardinalityType DEF Loaded
<1>2. /\ Len(frontier) \in Nat /\ DOMAIN frontier = 1..Len(frontier) /\ frontier \in [1..Len(frontier) -> Targets]
      /\ Len(pages) \in Nat /\ DOMAIN pages = 1..Len(pages) /\ pages \in [1..Len(pages) -> Urls]
  BY LenProperties DEF TypeOK
<1>3. \A w \in Loaded : target[w] \in Targets
  BY DEF OnceInv, OnlyWhileHandled, HasTarget, Loaded
<1>4. /\ IsFiniteSet(1..Len(frontier)) /\ Cardinality(1..Len(frontier)) = Len(frontier)
      /\ IsFiniteSet(1..Len(pages)) /\ Cardinality(1..Len(pages)) = Len(pages)
  BY <1>2, CountTo
<1>5. IsFiniteSet(Pending) /\ Cardinality(Pending) <= Len(frontier)
  <2> DEFINE f == [i \in 1..Len(frontier) |-> frontier[i].url]
  <2>1. f \in [1..Len(frontier) -> Pending] /\ \A y \in Pending : \E i \in 1..Len(frontier) : f[i] = y
    BY <1>2 DEF Pending
  <2> HIDE DEF f
  <2> QED BY <1>4, <2>1, ImageBound
<1>6. IsFiniteSet(InHand) /\ Cardinality(InHand) <= Cardinality(Loaded)
  <2> DEFINE f == [w \in Loaded |-> target[w].url]
  <2>1. f \in [Loaded -> InHand] /\ \A y \in InHand : \E w \in Loaded : f[w] = y
    BY DEF InHand, Loaded
  <2> HIDE DEF f
  <2> QED BY <1>1, <2>1, ImageBound
<1>7. IsFiniteSet(Range(pages)) /\ Cardinality(Range(pages)) <= Len(pages)
  <2>1. /\ pages \in [1..Len(pages) -> Range(pages)]
        /\ \A y \in Range(pages) : \E i \in 1..Len(pages) : pages[i] = y
    BY <1>2 DEF Range
  <2> QED BY <1>4, <2>1, ImageBound
<1>8. refused \subseteq visited /\ dropped \subseteq visited /\ IsFiniteSet(visited)
  BY DEF OnceInv, EveryUrlOnce
<1>9. IsFiniteSet(refused) /\ IsFiniteSet(dropped)
  BY <1>8, FS_Subset
<1> QED BY <1>1, <1>2, <1>3, <1>5, <1>6, <1>7, <1>8, <1>9, FS_CardinalityType

\* No target is no target.
LEMMA NoTargetFact == NoTarget \notin Targets
<1> SUFFICES ASSUME NoTarget \in Targets PROVE FALSE
  OBVIOUS
<1>1. DOMAIN NoTarget = {"url", "depth"}
  BY DEF Targets
<1>2. DOMAIN NoTarget = {}
  BY DEF NoTarget
<1> QED BY <1>1, <1>2

\* A target at the end of the frontier: its URL is one more that waits.
LEMMA PendingAppend ==
  ASSUME TypeOK, NEW t \in Targets, frontier' = Append(frontier, t)
  PROVE  Len(frontier') = Len(frontier) + 1 /\ Pending' = Pending \cup {t.url}
<1>1. /\ Len(frontier) \in Nat /\ DOMAIN frontier = 1 .. Len(frontier)
      /\ frontier' \in Seq(Targets) /\ Len(frontier') = Len(frontier) + 1
      /\ \A i \in 1 .. Len(frontier) : frontier'[i] = frontier[i]
      /\ frontier'[Len(frontier) + 1] = t
  BY AppendProperties, LenProperties DEF TypeOK
<1>2. DOMAIN frontier' = 1 .. (Len(frontier) + 1)
  BY <1>1, LenProperties
<1>3. DOMAIN frontier' = (DOMAIN frontier) \cup {Len(frontier) + 1}
  BY <1>1, <1>2
<1>4. \A x : x \in Pending' <=> \E i \in DOMAIN frontier' : x = frontier'[i].url
  BY DEF Pending
<1>5. \A x : x \in Pending <=> \E i \in DOMAIN frontier : x = frontier[i].url
  BY DEF Pending
<1>6. \A x : x \in Pending' <=> x \in Pending \cup {t.url}
  BY <1>1, <1>3, <1>4, <1>5
<1> QED BY <1>1, <1>6

\* The head leaves the frontier: its URL and those that still wait are those
\* that waited.
LEMMA PendingPop ==
  ASSUME TypeOK, frontier # <<>>, frontier' = Tail(frontier)
  PROVE  /\ Head(frontier) \in Targets /\ Len(frontier) = Len(frontier') + 1 /\ Len(frontier') \in Nat
         /\ Pending = Pending' \cup {Head(frontier).url}
<1>1. /\ Len(frontier) \in Nat /\ DOMAIN frontier = 1 .. Len(frontier)
      /\ frontier' \in Seq(Targets) /\ Len(frontier') = Len(frontier) - 1 /\ Len(frontier') \in Nat
      /\ Head(frontier) = frontier[1] /\ Head(frontier) \in Targets /\ 1 \in 1 .. Len(frontier)
      /\ \A i \in 1 .. (Len(frontier) - 1) : frontier'[i] = frontier[i + 1]
  BY HeadTailProperties, LenProperties, EmptySeq DEF TypeOK
<1>2. DOMAIN frontier' = 1 .. (Len(frontier) - 1)
  BY <1>1, LenProperties
<1>3. \A x : x \in Pending' <=> \E i \in DOMAIN frontier' : x = frontier'[i].url
  BY DEF Pending
<1>4. \A x : x \in Pending <=> \E i \in DOMAIN frontier : x = frontier[i].url
  BY DEF Pending
<1>5. ASSUME NEW x \in Pending' PROVE x \in Pending
  <2>1. PICK i \in 1 .. (Len(frontier) - 1) : x = frontier[i + 1].url
    BY <1>1, <1>2, <1>3, <1>5
  <2>2. i + 1 \in DOMAIN frontier
    BY <1>1, <2>1
  <2> QED BY <1>4, <2>1, <2>2
<1>6. ASSUME NEW x \in Pending, x # Head(frontier).url PROVE x \in Pending'
  <2>1. PICK i \in 1 .. Len(frontier) : x = frontier[i].url
    BY <1>1, <1>4, <1>6
  <2>2. i # 1
    BY <1>1, <1>6, <2>1
  <2>3. i - 1 \in 1 .. (Len(frontier) - 1) /\ (i - 1) + 1 = i
    BY <1>1, <2>1, <2>2
  <2>4. i - 1 \in DOMAIN frontier' /\ frontier'[i - 1] = frontier[i]
    BY <1>1, <1>2, <2>3
  <2> QED BY <1>3, <2>1, <2>4
<1>7. Head(frontier).url \in Pending
  BY <1>1, <1>4
<1> QED BY <1>1, <1>5, <1>6, <1>7

\* A step that moves no URL.
LEMMA OnceUnmoved ==
  ASSUME OnceInv, UNCHANGED <<frontier, visited, pages, target, refused, dropped>>, OnlyWhileHandled'
  PROVE  OnceInv'
BY DEF OnceInv, EveryUrlOnce, Pending, InHand

\* An offered URL is known already, or it joins the frontier or the refused ones.
LEMMA OnceOffer ==
  ASSUME TypeOK, HasTarget, OnceInv, NEW u \in Urls, NEW depth \in Nat, Offer(u, depth),
         UNCHANGED <<pages, target, dropped, at>>
  PROVE  OnceInv'
<1>1. CASE ~Allowed(u, depth)
  BY <1>1, OnceUnmoved DEF Offer, OnceInv, OnlyWhileHandled
<1>2. CASE Allowed(u, depth)
  <2> DEFINE t == [url |-> u, depth |-> depth]
  <2>1. /\ visited' = visited \cup {u} /\ u \notin visited
        /\ \/ frontier' = Append(frontier, t) /\ refused' = refused
           \/ frontier' = frontier /\ refused' = refused \cup {u}
    BY <1>2 DEF Offer, Allowed
  <2>2. /\ IsFiniteSet(visited) /\ u \notin refused
        /\ visited = Pending \cup InHand \cup Range(pages) \cup refused \cup dropped
        /\ Cardinality(visited) = Len(frontier) + Cardinality(Loaded) + Len(pages)
                                    + Cardinality(refused) + Cardinality(dropped)
    BY <2>1 DEF OnceInv, EveryUrlOnce, Loaded
  <2>3. /\ Cardinality(Loaded) \in Nat /\ Len(frontier) \in Nat /\ Len(pages) \in Nat
        /\ IsFiniteSet(refused) /\ Cardinality(refused) \in Nat /\ Cardinality(dropped) \in Nat
    BY PlaceFacts
  <2>4. IsFiniteSet(visited') /\ Cardinality(visited') = Cardinality(visited) + 1
    BY <2>1, <2>2, FS_AddElement
  <2>5. InHand' = InHand /\ Loaded' = Loaded /\ Range(pages)' = Range(pages) /\ OnlyWhileHandled'
    BY DEF InHand, Loaded, OnlyWhileHandled, OnceInv
  <2>6. CASE frontier' = Append(frontier, t) /\ refused' = refused
    <3>1. Len(frontier') = Len(frontier) + 1 /\ Pending' = Pending \cup {u}
      <4>1. t \in Targets /\ t.url = u
        BY DEF Targets
      <4> HIDE DEF t
      <4> QED BY <2>6, <4>1, PendingAppend
    <3>2. visited' = Pending' \cup InHand' \cup Range(pages)' \cup refused' \cup dropped'
      BY <2>1, <2>2, <2>5, <2>6, <3>1
    <3>3. Cardinality(visited') = Len(frontier') + Cardinality(Loaded') + Len(pages')
                                    + Cardinality(refused') + Cardinality(dropped')
      BY <2>2, <2>3, <2>4, <2>5, <2>6, <3>1
    <3> QED BY <2>4, <2>5, <3>2, <3>3 DEF OnceInv, EveryUrlOnce, Loaded
  <2>7. CASE frontier' = frontier /\ refused' = refused \cup {u}
    <3>1. Cardinality(refused') = Cardinality(refused) + 1
      BY <2>2, <2>3, <2>7, FS_AddElement
    <3>2. visited' = Pending' \cup InHand' \cup Range(pages)' \cup refused' \cup dropped'
      BY <2>1, <2>2, <2>5, <2>7 DEF Pending
    <3>3. Cardinality(visited') = Len(frontier') + Cardinality(Loaded') + Len(pages')
                                    + Cardinality(refused') + Cardinality(dropped')
      BY <2>2, <2>3, <2>4, <2>5, <2>7, <3>1
    <3> QED BY <2>4, <2>5, <3>2, <3>3 DEF OnceInv, EveryUrlOnce, Loaded
  <2> QED BY <2>1, <2>6, <2>7
<1> QED BY <1>1, <1>2

\* What the worker w holds: with it, the others hold what they held.
LEMMA HandFacts ==
  ASSUME TypeOK, HasTarget, OnceInv, NEW w \in Workers, OnlyWhileHandled',
         NEW x, target' = [target EXCEPT ![w] = x]
  PROVE  /\ target[w] = NoTarget /\ x \in Targets =>
               /\ Cardinality(Loaded') = Cardinality(Loaded) + 1
               /\ InHand' = InHand \cup {x.url}
         /\ target[w] # NoTarget /\ x = NoTarget =>
               /\ Cardinality(Loaded) = Cardinality(Loaded') + 1 /\ Cardinality(Loaded') \in Nat
               /\ InHand = InHand' \cup {target[w].url}
<1>1. target'[w] = x /\ \A v \in Workers : v # w => target'[v] = target[v]
  BY DEF TypeOK
<1>2. IsFiniteSet(Loaded) /\ Cardinality(Loaded) \in Nat
  BY PlaceFacts
<1>3. ASSUME target[w] = NoTarget, x \in Targets
      PROVE  /\ Cardinality(Loaded') = Cardinality(Loaded) + 1
             /\ InHand' = InHand \cup {x.url}
  <2>1. Loaded' = Loaded \cup {w} /\ w \notin Loaded
    BY <1>1, <1>3, NoTargetFact DEF Loaded
  <2>2. Cardinality(Loaded \cup {w}) = Cardinality(Loaded) + 1
    BY <1>2, <2>1, FS_AddElement
  <2>3. InHand = {target[v].url : v \in Loaded} /\ InHand' = {target'[v].url : v \in Loaded'}
    BY DEF InHand, Loaded
  <2>4. \A v \in Loaded : target'[v] = target[v]
    BY <1>1, <2>1 DEF Loaded
  <2>5. InHand' = InHand \cup {x.url}
    BY <1>1, <2>1, <2>3, <2>4
  <2> QED BY <2>1, <2>2, <2>5
<1>4. ASSUME target[w] # NoTarget, x = NoTarget
      PROVE  /\ Cardinality(Loaded) = Cardinality(Loaded') + 1 /\ Cardinality(Loaded') \in Nat
             /\ InHand = InHand' \cup {target[w].url}
  <2>1. Loaded' = Loaded \ {w} /\ w \in Loaded
    BY <1>1, <1>4 DEF Loaded
  <2>2. /\ IsFiniteSet(Loaded \ {w}) /\ Cardinality(Loaded \ {w}) = Cardinality(Loaded) - 1
        /\ Cardinality(Loaded \ {w}) \in Nat
    BY <1>2, <2>1, FS_RemoveElement, FS_CardinalityType
  <2>3. InHand = {target[v].url : v \in Loaded} /\ InHand' = {target'[v].url : v \in Loaded'}
    BY DEF InHand, Loaded
  <2>4. \A v \in Loaded' : target'[v] = target[v]
    BY <1>1, <2>1 DEF Loaded
  <2>5. InHand = InHand' \cup {target[w].url}
    BY <1>1, <2>1, <2>3, <2>4
  <2> QED BY <1>2, <2>1, <2>2, <2>5
<1> QED BY <1>3, <1>4

\* The head of the frontier passes to the worker.
LEMMA OncePop ==
  ASSUME TypeOK, HasTarget, OnceInv, NEW w \in Workers, target[w] = NoTarget, frontier # <<>>,
         frontier' = Tail(frontier), target' = [target EXCEPT ![w] = Head(frontier)],
         UNCHANGED <<visited, pages, refused, dropped>>, OnlyWhileHandled'
  PROVE  OnceInv'
<1>1. /\ Head(frontier) \in Targets /\ Len(frontier) = Len(frontier') + 1 /\ Len(frontier') \in Nat
      /\ Pending = Pending' \cup {Head(frontier).url}
  BY PendingPop
<1>2. Cardinality(Loaded') = Cardinality(Loaded) + 1 /\ InHand' = InHand \cup {Head(frontier).url}
  BY <1>1, HandFacts
<1>3. /\ IsFiniteSet(visited)
      /\ visited = Pending \cup InHand \cup Range(pages) \cup refused \cup dropped
      /\ Cardinality(visited) = Len(frontier) + Cardinality(Loaded) + Len(pages)
                                  + Cardinality(refused) + Cardinality(dropped)
  BY DEF OnceInv, EveryUrlOnce, Loaded
<1>4. /\ Cardinality(Loaded) \in Nat /\ Len(frontier) \in Nat /\ Len(pages) \in Nat
      /\ Cardinality(refused) \in Nat /\ Cardinality(dropped) \in Nat
  BY PlaceFacts
<1>5. visited' = Pending' \cup InHand' \cup Range(pages)' \cup refused' \cup dropped'
  BY <1>1, <1>2, <1>3
<1>6. Cardinality(visited') = Len(frontier') + Cardinality(Loaded') + Len(pages')
                                + Cardinality(refused') + Cardinality(dropped')
  BY <1>1, <1>2, <1>3, <1>4
<1> QED BY <1>3, <1>5, <1>6 DEF OnceInv, EveryUrlOnce, Loaded

\* A URL in a worker's hands was not given up before: the places together hold
\* no more URLs than their sizes say, and would hold one less.
LEMMA NotGivenUpYet ==
  ASSUME TypeOK, HasTarget, OnceInv, NEW u \in InHand
  PROVE  u \notin dropped
<1> SUFFICES ASSUME u \in dropped PROVE FALSE
  OBVIOUS
<1> DEFINE F == dropped \ {u}
           Two == Pending \cup InHand
           Three == Two \cup Range(pages)
           Four == Three \cup refused
<1>1. /\ IsFiniteSet(Pending) /\ Cardinality(Pending) <= Len(frontier)
      /\ IsFiniteSet(InHand) /\ Cardinality(InHand) <= Cardinality(Loaded)
      /\ IsFiniteSet(Range(pages)) /\ Cardinality(Range(pages)) <= Len(pages)
      /\ IsFiniteSet(refused) /\ IsFiniteSet(dropped)
      /\ Cardinality(Loaded) \in Nat /\ Len(frontier) \in Nat /\ Len(pages) \in Nat
      /\ Cardinality(dropped) \in Nat
  BY PlaceFacts
<1>2. /\ visited = Pending \cup InHand \cup Range(pages) \cup refused \cup dropped
      /\ Cardinality(visited) = Len(frontier) + Cardinality(Loaded) + Len(pages)
                                  + Cardinality(refused) + Cardinality(dropped)
  BY DEF OnceInv, EveryUrlOnce, Loaded
<1>3. visited = Four \cup F
  BY <1>2
<1>4. IsFiniteSet(F) /\ Cardinality(F) = Cardinality(dropped) - 1
  BY <1>1, FS_RemoveElement
<1>5. /\ IsFiniteSet(Two) /\ Cardinality(Two) \in Nat
      /\ Cardinality(Pending) \in Nat /\ Cardinality(InHand) \in Nat
      /\ Cardinality(Two) <= Cardinality(Pending) + Cardinality(InHand)
  BY <1>1, UnionBound
<1> HIDE DEF F, Two
<1>6. /\ IsFiniteSet(Three) /\ Cardinality(Three) \in Nat /\ Cardinality(Range(pages)) \in Nat
      /\ Cardinality(Three) <= Cardinality(Two) + Cardinality(Range(pages))
  BY <1>1, <1>5, UnionBound
<1> HIDE DEF Three
<1>7. /\ IsFiniteSet(Four) /\ Cardinality(Four) \in Nat /\ Cardinality(refused) \in Nat
      /\ Cardinality(Four) <= Cardinality(Three) + Cardinality(refused)
  BY <1>1, <1>6, UnionBound
<1> HIDE DEF Four
<1>8. /\ Cardinality(visited) \in Nat /\ Cardinality(F) \in Nat
      /\ Cardinality(visited) <= Cardinality(Four) + Cardinality(F)
  BY <1>3, <1>4, <1>7, UnionBound
<1> DEFINE k == Cardinality(visited)
           four == Cardinality(Four)
           three == Cardinality(Three)
           two == Cardinality(Two)
           p == Cardinality(Pending)
           h == Cardinality(InHand)
           g == Cardinality(Range(pages))
           r == Cardinality(refused)
           d == Cardinality(dropped)
           f == Cardinality(F)
           n == Len(frontier)
           l == Cardinality(Loaded)
           m == Len(pages)
<1>9. /\ k \in Nat /\ four \in Nat /\ three \in Nat /\ two \in Nat /\ p \in Nat /\ h \in Nat
      /\ g \in Nat /\ r \in Nat /\ d \in Nat /\ f \in Nat /\ n \in Nat /\ l \in Nat /\ m \in Nat
      /\ k <= four + f /\ four <= three + r /\ three <= two + g /\ two <= p + h
      /\ p <= n /\ h <= l /\ g <= m /\ f = d - 1 /\ k = n + l + m + r + d
  BY <1>1, <1>2, <1>4, <1>5, <1>6, <1>7, <1>8
<1> HIDE DEF k, four, three, two, p, h, g, r, d, f, n, l, m
<1> QED BY <1>9

\* A worker's target is given up: its URL was not given up before.
LEMMA OnceDrop ==
  ASSUME TypeOK, HasTarget, OnceInv, NEW w \in Workers, target[w] # NoTarget, Drop(w),
         UNCHANGED <<frontier, visited, pages, refused>>, OnlyWhileHandled'
  PROVE  OnceInv'
<1> DEFINE u == target[w].url
<1>1. /\ Cardinality(Loaded) = Cardinality(Loaded') + 1 /\ Cardinality(Loaded') \in Nat
      /\ InHand = InHand' \cup {u}
  BY HandFacts DEF Drop
<1>2. /\ IsFiniteSet(visited)
      /\ visited = Pending \cup InHand \cup Range(pages) \cup refused \cup dropped
      /\ Cardinality(visited) = Len(frontier) + Cardinality(Loaded) + Len(pages)
                                  + Cardinality(refused) + Cardinality(dropped)
  BY DEF OnceInv, EveryUrlOnce, Loaded
<1>3. /\ Cardinality(Loaded) \in Nat /\ Len(frontier) \in Nat /\ Len(pages) \in Nat
      /\ IsFiniteSet(Pending) /\ Cardinality(Pending) <= Len(frontier)
      /\ IsFiniteSet(InHand) /\ Cardinality(InHand) <= Cardinality(Loaded)
      /\ IsFiniteSet(Range(pages)) /\ Cardinality(Range(pages)) <= Len(pages)
      /\ IsFiniteSet(refused) /\ IsFiniteSet(dropped)
      /\ Cardinality(refused) \in Nat /\ Cardinality(dropped) \in Nat
  BY PlaceFacts
<1>4. u \notin dropped
  BY <1>1, NotGivenUpYet
<1>5. dropped' = dropped \cup {u} /\ Cardinality(dropped \cup {u}) = Cardinality(dropped) + 1
  BY <1>3, <1>4, FS_AddElement DEF Drop
<1>6. visited' = Pending' \cup InHand' \cup Range(pages)' \cup refused' \cup dropped'
  BY <1>1, <1>2, <1>5 DEF Pending
<1>7. Cardinality(visited') = Len(frontier') + Cardinality(Loaded') + Len(pages')
                                + Cardinality(refused') + Cardinality(dropped')
  BY <1>1, <1>2, <1>3, <1>5
<1> QED BY <1>2, <1>6, <1>7 DEF OnceInv, EveryUrlOnce, Loaded

\* A worker's page joins the list.
LEMMA OncePush ==
  ASSUME TypeOK, HasTarget, OnceInv, NEW w \in Workers, target[w] \in Targets,
         pages' = Append(pages, target[w].url), target' = [target EXCEPT ![w] = NoTarget],
         UNCHANGED <<frontier, visited, refused, dropped>>, OnlyWhileHandled'
  PROVE  OnceInv'
<1> DEFINE u == target[w].url
<1>1. /\ Cardinality(Loaded) = Cardinality(Loaded') + 1 /\ Cardinality(Loaded') \in Nat
      /\ InHand = InHand' \cup {u}
  BY HandFacts, NoTargetFact
<1>2. /\ IsFiniteSet(visited)
      /\ visited = Pending \cup InHand \cup Range(pages) \cup refused \cup dropped
      /\ Cardinality(visited) = Len(frontier) + Cardinality(Loaded) + Len(pages)
                                  + Cardinality(refused) + Cardinality(dropped)
  BY DEF OnceInv, EveryUrlOnce, Loaded
<1>3. /\ Cardinality(Loaded) \in Nat /\ Len(frontier) \in Nat /\ Len(pages) \in Nat
      /\ Cardinality(refused) \in Nat /\ Cardinality(dropped) \in Nat
  BY PlaceFacts
<1>4. Len(pages') = Len(pages) + 1 /\ Range(pages') = Range(pages) \cup {u}
  <2>1. u \in Urls /\ pages \in Seq(Urls)
    BY DEF Targets, TypeOK
  <2> HIDE DEF u
  <2>2. /\ Len(Append(pages, u)) = Len(pages) + 1 /\ Append(pages, u) \in Seq(Urls)
        /\ \A i \in 1 .. Len(pages) : Append(pages, u)[i] = pages[i]
        /\ Append(pages, u)[Len(pages) + 1] = u
    BY <2>1, AppendProperties
  <2>3. /\ DOMAIN pages = 1 .. Len(pages) /\ DOMAIN Append(pages, u) = 1 .. (Len(pages) + 1)
        /\ Len(pages) \in Nat
    BY <2>1, <2>2, LenProperties
  <2>4. DOMAIN Append(pages, u) = (DOMAIN pages) \cup {Len(pages) + 1}
    BY <2>3
  <2>5. Range(Append(pages, u)) = Range(pages) \cup {u}
    BY <2>2, <2>3, <2>4 DEF Range
  <2>6. pages' = Append(pages, u)
    BY DEF u
  <2> QED BY <2>2, <2>5, <2>6
<1>5. visited' = Pending' \cup InHand' \cup Range(pages') \cup refused' \cup dropped'
  BY <1>1, <1>2, <1>4 DEF Pending
<1>6. Cardinality(visited') = Len(frontier') + Cardinality(Loaded') + Len(pages')
                                + Cardinality(refused') + Cardinality(dropped')
  BY <1>1, <1>2, <1>3, <1>4
<1> QED BY <1>2, <1>5, <1>6 DEF OnceInv, EveryUrlOnce, Loaded

\* A worker moves: it goes without a target, or to a step at which it has one.
LEMMA OnlyStep ==
  ASSUME TypeOK, OnceInv, NEW w \in Workers, NEW step \in Steps, Goto(w, step),
         \A v \in Workers : v # w => target'[v] = target[v],
         target'[w] # NoTarget => step \in TargetSteps
  PROVE  OnlyWhileHandled'
BY GotoFacts DEF OnceInv, OnlyWhileHandled

\* A worker moves, and no URL does.
LEMMA OnceGoto ==
  ASSUME TypeOK, OnceInv, NEW w \in Workers, NEW step \in Steps, Goto(w, step),
         at[w] \in TargetSteps => step \in TargetSteps,
         UNCHANGED <<frontier, visited, pages, target, refused, dropped>>
  PROVE  OnceInv'
<1>1. target'[w] # NoTarget => step \in TargetSteps
  BY DEF OnceInv, OnlyWhileHandled
<1> QED BY <1>1, OnlyStep, OnceUnmoved

\* At first the seed waits, and nothing else is known.
LEMMA OnceInit == Init => OnceInv
<1> SUFFICES ASSUME Init PROVE OnceInv
  OBVIOUS
<1> DEFINE seed == [url |-> Seed, depth |-> 0]
<1>1. /\ frontier = <<seed>> /\ visited = {Seed} /\ pages = <<>> /\ refused = {} /\ dropped = {}
      /\ target = [w \in Workers |-> NoTarget]
  BY DEF Init
<1>2. OnlyWhileHandled /\ {w \in Workers : target[w] # NoTarget} = {} /\ InHand = {}
  BY <1>1 DEF OnlyWhileHandled, InHand
<1>3. Len(frontier) = 1 /\ Pending = {Seed}
  <2>1. seed.url = Seed
    OBVIOUS
  <2> HIDE DEF seed
  <2>2. Len(frontier) = 1 /\ DOMAIN frontier = {1} /\ frontier[1] = seed
    BY <1>1
  <2> QED BY <2>1, <2>2 DEF Pending
<1>4. Len(pages) = 0 /\ Range(pages) = {}
  BY <1>1 DEF Range
<1>5. IsFiniteSet(visited) /\ Cardinality(visited) = 1 /\ Cardinality({}) = 0
  BY <1>1, FS_Singleton, FS_EmptySet
<1>6. visited = Pending \cup InHand \cup Range(pages) \cup refused \cup dropped
  BY <1>1, <1>2, <1>3, <1>4
<1>7. /\ Cardinality({w \in Workers : target[w] # NoTarget}) = 0
      /\ Cardinality(refused) = 0 /\ Cardinality(dropped) = 0
  BY <1>1, <1>2, <1>5
<1>8. Cardinality(visited) =
          Len(frontier) + Cardinality({w \in Workers : target[w] # NoTarget}) + Len(pages)
            + Cardinality(refused) + Cardinality(dropped)
  BY <1>3, <1>4, <1>5, <1>7
<1> QED BY <1>2, <1>5, <1>6, <1>8 DEF OnceInv, EveryUrlOnce

\* Every step of a worker: one case per way a URL moves.
LEMMA OnceStepOfWorker ==
  ASSUME EngineInv, OnceInv, NEW w \in Workers, Work(w)
  PROVE  OnceInv'
<1>1. TypeOK /\ HasTarget
  BY DEF EngineInv
<1>2. target \in [Workers -> Targets \cup {NoTarget}]
  BY <1>1 DEF TypeOK
<1>3. at[w] \notin TargetSteps => target[w] = NoTarget
  BY DEF OnceInv, OnlyWhileHandled
<1>4. CASE Exit(w) \/ Check(w) \/ Leave(w) \/ LookActive(w) \/ LookEmpty(w) \/ DeclareFinished(w)
  <2>1. PICK step \in {"exit", "pop", "loop", "empty", "idle"} :
          Goto(w, step) /\ at[w] \in {"loop", "leave", "none", "empty", "idle"}
    BY <1>4 DEF Exit, Check, Leave, LookActive, LookEmpty, DeclareFinished
  <2>2. step \in Steps /\ at[w] \notin TargetSteps
    BY <2>1 DEF Steps, TargetSteps
  <2>3. UNCHANGED <<frontier, visited, pages, target, refused, dropped>>
    BY <1>4 DEF Exit, Check, Leave, LookActive, LookEmpty, DeclareFinished
  <2> QED BY <1>1, <2>1, <2>2, <2>3, OnceGoto
<1>5. CASE TryPop(w)
  <2>1. CASE frontier = <<>>
    <3>1. Goto(w, "none") /\ "none" \in Steps /\ at[w] \notin TargetSteps
      BY <1>5, <2>1 DEF TryPop, Steps, TargetSteps
    <3>2. UNCHANGED <<frontier, visited, pages, target, refused, dropped>>
      BY <1>5, <2>1 DEF TryPop
    <3> QED BY <1>1, <3>1, <3>2, OnceGoto
  <2>2. CASE frontier # <<>>
    <3>1. Goto(w, "popped") /\ "popped" \in Steps /\ "popped" \in TargetSteps /\ at[w] \notin TargetSteps
      BY <1>5, <2>2 DEF TryPop, Steps, TargetSteps
    <3>2. frontier' = Tail(frontier) /\ target' = [target EXCEPT ![w] = Head(frontier)]
      BY <1>5, <2>2 DEF TryPop
    <3>3. OnlyWhileHandled'
      BY <1>1, <1>2, <3>1, <3>2, OnlyStep
    <3>4. UNCHANGED <<visited, pages, refused, dropped>>
      BY <1>5 DEF TryPop
    <3> QED BY <1>1, <1>3, <2>2, <3>1, <3>2, <3>3, <3>4, OncePop
  <2> QED BY <2>1, <2>2
<1>6. CASE (Enter(w) /\ cancelled) \/ GiveUp(w)
  <2>1. Drop(w) /\ at[w] \in TargetSteps
    BY <1>6 DEF Enter, GiveUp, TargetSteps
  <2>2. UNCHANGED <<frontier, visited, pages, refused>>
    BY <1>6 DEF Enter, GiveUp
  <2>3. target[w] # NoTarget
    BY <1>1, <2>1, NoTargetFact DEF HasTarget
  <2>4. Goto(w, "leave") /\ "leave" \in Steps /\ target' = [target EXCEPT ![w] = NoTarget]
    BY <2>1 DEF Drop, Steps
  <2>5. OnlyWhileHandled'
    BY <1>1, <1>2, <2>4, OnlyStep
  <2> QED BY <1>1, <2>1, <2>2, <2>3, <2>5, OnceDrop
<1>7. CASE \/ Enter(w) /\ ~cancelled
           \/ RobotsBlock(w) \/ BeginScrape(w) \/ ScrapeAgain(w) \/ Retry(w) \/ ScrapeOk(w)
           \/ ScrapeErr(w) \/ LinksDone(w)
  <2>1. PICK step \in {"process", "push", "scrape", "wait", "links"} : Goto(w, step)
    BY <1>7 DEF Enter, RobotsBlock, BeginScrape, ScrapeAgain, Retry, ScrapeOk, ScrapeErr, LinksDone
  <2>2. step \in Steps /\ step \in TargetSteps
    BY DEF Steps, TargetSteps
  <2>3. UNCHANGED <<frontier, visited, pages, target, refused, dropped>>
    BY <1>7 DEF Enter, RobotsBlock, BeginScrape, ScrapeAgain, Retry, ScrapeOk, ScrapeErr, LinksDone
  <2> QED BY <1>1, <2>1, <2>2, <2>3, OnceGoto
<1>8. CASE OfferLink(w)
  <2>1. PICK u \in todo[w] : Offer(u, target[w].depth + 1)
    BY <1>8 DEF OfferLink
  <2>2. u \in Urls /\ target[w] \in Targets
    BY <1>1, <1>8 DEF TypeOK, OfferLink, HasTarget, TargetSteps
  <2>3. target[w].depth + 1 \in Nat
    BY <2>2 DEF Targets
  <2>4. UNCHANGED <<pages, target, dropped, at>>
    BY <1>8 DEF OfferLink
  <2> QED BY <1>1, <2>1, <2>2, <2>3, <2>4, OnceOffer
<1>9. CASE PushPage(w)
  <2>1. /\ pages' = Append(pages, target[w].url) /\ target' = [target EXCEPT ![w] = NoTarget]
        /\ UNCHANGED <<frontier, visited, refused, dropped>>
    BY <1>9 DEF PushPage
  <2>2. Goto(w, "leave") /\ "leave" \in Steps /\ target[w] \in Targets
    BY <1>1, <1>9 DEF PushPage, Steps, HasTarget, TargetSteps
  <2>3. OnlyWhileHandled'
    BY <1>1, <1>2, <2>1, <2>2, OnlyStep
  <2> QED BY <1>1, <2>1, <2>2, <2>3, OncePush
<1> QED BY <1>4, <1>5, <1>6, <1>7, <1>8, <1>9 DEF Work

\* The sitemap task offers URLs; the monitor and the caller move none.
LEMMA OnceStepOfOthers ==
  ASSUME EngineInv, OnceInv, Sitemap \/ Monitor \/ StopWaiting(TRUE) \/ Cancel \/ UNCHANGED vars
  PROVE  OnceInv'
<1>1. TypeOK /\ HasTarget
  BY DEF EngineInv
<1>2. CASE SitemapPush
  <2>1. PICK u \in mapTodo : Offer(u, 1)
    BY <1>2 DEF SitemapPush
  <2>2. u \in Urls /\ 1 \in Nat
    BY <1>1 DEF TypeOK
  <2>3. UNCHANGED <<pages, target, dropped, at>>
    BY <1>2 DEF SitemapPush, worker
  <2> QED BY <1>1, <2>1, <2>2, <2>3, OnceOffer
<1>3. CASE ~SitemapPush
  <2>1. UNCHANGED <<frontier, visited, pages, target, refused, dropped, at>>
    BY <1>3 DEF Sitemap, Monitor, SitemapFetched, SitemapEnd, StopWaiting, Conclude, Cancel, vars, worker
  <2>2. OnlyWhileHandled'
    BY <2>1 DEF OnceInv, OnlyWhileHandled
  <2> QED BY <2>1, <2>2, OnceUnmoved
<1> QED BY <1>2, <1>3

\* Every URL the deduplicator took is in exactly one place, in every state: none
\* is crawled twice, and none is lost but by a full frontier or a cancellation.
THEOREM EveryUrlOnceAlways == Spec => []EveryUrlOnce
<1>1. Init => OnceInv
  BY OnceInit
<1>2. EngineInv /\ OnceInv /\ [Next]_vars => OnceInv'
  BY OnceStepOfWorker, OnceStepOfOthers DEF Next
<1>3. OnceInv => EveryUrlOnce
  BY DEF OnceInv
<1> QED BY <1>1, <1>2, <1>3, EngineInvariant, PTL DEF Spec
=============================================================================
