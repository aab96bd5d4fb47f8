--------------------------- MODULE AgentJobProofs ---------------------------
(***************************************************************************)
(* Proofs about AgentJob: the job stays within its budget whatever loops   *)
(* its addresses come through, and what its answer cites is evidence of    *)
(* pages it scraped, for all sets of addresses and passages, every request *)
(* and every budget.                                                       *)
(***************************************************************************)
EXTENDS AgentJob, Integers, FiniteSetTheorems, SequenceTheorems, WellFoundedInduction, TLAPS

Statuses == {"nothing", "Queued", "Planning", "Researching", "Evaluating",
             "Synthesizing", "Validating", "Completed", "Paused", "Cancelled"}
Subgoal  == [urls : Seq(Urls), queries : Nat]
Item     == [url : Urls, text : Passages]
Loops    == {"targets", "links", "moreLinks"}

\* The executor's place and what is left of its loops.
LoopInv ==
    /\ pc \in Pcs /\ back \in Loops \cup {"none"} /\ (pc = "scraping" => back \in Loops)
    /\ plan \in Seq(Subgoal) /\ subgoal \in 0..Len(plan) /\ (pc \in {"queued", "planning"} => subgoal = 0)
    /\ targets \in Seq(Urls) /\ links \in Seq(Urls) /\ Len(links) <= 3
    /\ queries \in Nat /\ calls \in Nat
    /\ request \in Requests

\* A round is under way in the loop of the follow-ups, and there are no more
\* than MaxRounds of them.
RoundInv ==
    /\ round \in 1..MaxRounds + 1
    /\ pc \in {"calls", "followups", "moreLinks"} \/ (pc = "scraping" /\ back = "moreLinks")
          => round <= MaxRounds

StatusInv == {telling, status} \subseteq Statuses

\* A page is scraped once, when it is marked as visited, and counted then.
StoreInv ==
    /\ visited \subseteq Urls /\ IsFiniteSet(visited)
    /\ url \in Urls \cup {NoUrl} /\ (pc = "scraping") = (url # NoUrl)
    /\ pc = "scraping" => url \in visited
    /\ scraped = [u \in Urls |-> IF u \in visited THEN 1 ELSE 0]
    /\ evidence \in Seq(Item)
    /\ \A i, j \in Ids : evidence[i].text = evidence[j].text => i = j
    /\ \A i \in Ids : evidence[i].url \in visited

\* The work done is not more than the counters say, nor than the budget.
BudgetInv ==
    /\ {pages, steps, searches, searched} \subseteq Nat
    /\ Cardinality(visited) <= pages /\ Cardinality(visited) <= MaxPages
    /\ searched <= searches /\ searched <= MaxSearches

\* An answer is given at the end, when the evidence changes no more.
AnswerInv ==
    result # NoResult =>
        /\ pc \in {"filing", "ended"}
        /\ result.status = "Completed" =>
              /\ result.citations \subseteq Ids
              /\ result.claims \subseteq result.citations
              /\ evidence # <<>> => result.citations # {}

AgentInv == LoopInv /\ RoundInv /\ StatusInv /\ StoreInv /\ BudgetInv /\ AnswerInv

-----------------------------------------------------------------------------
\* A set of naturals has a least element: the provers' form of induction.
LEMMA LeastElement ==
  ASSUME NEW T, T \subseteq Nat, T # {}
  PROVE  \E n \in T : \A m \in T : n <= m
<1> DEFINE Less == OpToRel(<, Nat)
<1>1. IsWellFoundedOn(Less, Nat)
  BY NatLessThanWellFounded
<1>2. \A m, n \in Nat : m < n => <<m, n>> \in Less
  BY DEF OpToRel
<1> HIDE DEF Less
<1>3. PICK n \in T : \A m \in T : ~(<<m, n>> \in Less)
  BY <1>1, WFMin
<1>4. \A m \in T : ~(m < n)
  BY <1>2, <1>3
<1> QED BY <1>3, <1>4

\* The queries of a plan add up to a natural number.
LEMMA AllQueriesType ==
  ASSUME NEW p \in Seq(Subgoal)
  PROVE  AllQueries(p) \in Nat
<1> DEFINE Body(f) == [i \in 0..Len(p) |-> IF i = 0 THEN 0 ELSE f[i-1] + p[i].queries]
           Upto(n, f) == f \in [0..n -> Nat] /\ f[0] = 0 /\ \A i \in 1..n : f[i] = f[i-1] + p[i].queries
           Bad == {n \in 0..Len(p) : ~ \E f : Upto(n, f)}
<1>1. Len(p) \in Nat /\ \A i \in 1..Len(p) : p[i].queries \in Nat
  <2>1. \A i \in 1..Len(p) : p[i] \in Subgoal
    BY ElementOfSeq
  <2> QED BY <2>1, LenProperties DEF Subgoal
<1>2. Bad = {}
  <2> SUFFICES ASSUME Bad # {} PROVE FALSE
    OBVIOUS
  <2>1. Bad \subseteq Nat /\ \A n : n \in Bad <=> n \in 0..Len(p) /\ ~ \E f : Upto(n, f)
    BY <1>1
  <2>2. PICK n \in Bad : \A m \in Bad : n <= m
    BY <2>1, LeastElement
  <2>3. Upto(0, [i \in 0..0 |-> 0])
    OBVIOUS
  <2>4. ASSUME NEW f, n # 0, Upto(n - 1, f)
        PROVE  Upto(n, [i \in 0..n |-> IF i = n THEN f[n - 1] + p[n].queries ELSE f[i]])
    <3> DEFINE g == [i \in 0..n |-> IF i = n THEN f[n - 1] + p[n].queries ELSE f[i]]
    <3>0. n \in Nat /\ n # 0 /\ n \in 1..Len(p)
      BY <2>1, <2>2, <2>4, <1>1
    <3>1. /\ f[n - 1] \in Nat /\ p[n].queries \in Nat /\ \A i \in 0..(n-1) : f[i] \in Nat
          /\ f[0] = 0 /\ \A i \in 1..(n-1) : f[i] = f[i-1] + p[i].queries
      <4>1. f \in [0..(n-1) -> Nat] /\ n - 1 \in 0..(n-1)
        BY <2>4, <3>0
      <4> QED BY <1>1, <2>4, <3>0, <4>1
    <3>2. g \in [0..n -> Nat]
      <4>1. \A i \in 0..n : i # n => i \in 0..(n-1)
        BY <3>0
      <4>2. f[n - 1] + p[n].queries \in Nat
        BY <3>1
      <4>3. \A i \in 0..n : (IF i = n THEN f[n - 1] + p[n].queries ELSE f[i]) \in Nat
        BY <3>1, <4>1, <4>2
      <4> QED BY <4>3
    <3>3. g[0] = 0
      BY <3>0, <3>1
    <3>4. ASSUME NEW i \in 1..n PROVE g[i] = g[i-1] + p[i].queries
      <4>1. i - 1 \in 0..n /\ i \in 0..n /\ i - 1 # n /\ i \in Int /\ (i # n => i \in 1..(n-1))
        BY <3>0
      <4>2. g[i-1] = f[i-1]
        BY <4>1
      <4>3. CASE i = n
        BY <4>1, <4>2, <4>3
      <4>4. CASE i # n
        BY <3>1, <4>1, <4>2, <4>4
      <4> QED BY <4>3, <4>4
    <3> QED BY <3>2, <3>3, <3>4
  <2> HIDE DEF Bad, Upto
  <2>5. n # 0
    BY <2>1, <2>2, <2>3
  <2>6. n - 1 \in 0..Len(p) /\ n - 1 < n
    BY <1>1, <2>1, <2>2, <2>5
  <2>7. n - 1 \notin Bad
    BY <2>1, <2>2, <2>6
  <2> QED BY <2>1, <2>2, <2>4, <2>5, <2>6, <2>7
<1>3. PICK h : Upto(Len(p), h)
  BY <1>1, <1>2
<1>4. h = Body(h)
  <2>1. h \in [0..Len(p) -> Nat] /\ Body(h) \in [0..Len(p) -> Nat]
    BY <1>1, <1>3
  <2>2. \A i \in 0..Len(p) : h[i] = Body(h)[i]
    BY <1>1, <1>3
  <2> QED BY <2>1, <2>2
<1> DEFINE g == CHOOSE f : f = Body(f)
<1>5. g = Body(g)
  BY <1>4
<1>6. \A i \in 0..Len(p) : g[i] \in Nat
  <2> DEFINE Odd == {i \in 0..Len(p) : g[i] \notin Nat}
  <2>1. \A i \in 0..Len(p) : g[i] = IF i = 0 THEN 0 ELSE g[i-1] + p[i].queries
    BY <1>5
  <2> HIDE DEF g
  <2> SUFFICES ASSUME Odd # {} PROVE FALSE
    OBVIOUS
  <2>2. Odd \subseteq Nat /\ \A n : n \in Odd <=> n \in 0..Len(p) /\ g[n] \notin Nat
    BY <1>1
  <2> HIDE DEF Odd
  <2>3. PICK n \in Odd : \A m \in Odd : n <= m
    BY <2>2, LeastElement
  <2>4. n \in 0..Len(p) /\ g[n] \notin Nat
    BY <2>2, <2>3
  <2>5. n # 0
    BY <2>1, <2>4
  <2>6. n \in 1..Len(p) /\ n - 1 \in 0..Len(p) /\ n - 1 < n
    BY <1>1, <2>4, <2>5
  <2>7. g[n - 1] \in Nat
    BY <1>1, <2>2, <2>3, <2>6
  <2>8. g[n] = g[n - 1] + p[n].queries /\ p[n].queries \in Nat
    BY <1>1, <2>1, <2>4, <2>5, <2>6
  <2> QED BY <2>4, <2>7, <2>8
<1>7. AllQueries(p) = g[Len(p)]
  BY DEF AllQueries
<1> QED BY <1>1, <1>6, <1>7

\* Every plan is a sequence of subgoals.
LEMMA PlansType ==
  ASSUME NEW r \in Requests, NEW p \in Plans(r)
  PROVE  p \in Seq(Subgoal)
<1>1. \A n \in Nat : Sub(<<>>, n) \in Subgoal
  BY EmptySeq DEF Subgoal, Sub
<1>2. Idle \in Subgoal
  BY <1>1 DEF Idle
<1> DEFINE S(n) == Sub(<<>>, n)
<1>3. S(0) \in Subgoal /\ S(1) \in Subgoal /\ S(2) \in Subgoal /\ S(3) \in Subgoal
  BY <1>1
<1>4. CASE p = DirectPlan(r)
  <2>1. r.urls \in Seq(Urls)
    BY AgentAssumption
  <2>2. \A u \in Urls : Sub(<<u>>, 0) \in Subgoal
    BY DEF Subgoal, Sub
  <2> DEFINE Given == [i \in DOMAIN r.urls |-> Sub(<<r.urls[i]>>, 0)]
  <2>3. Given \in Seq(Subgoal)
    <3>1. Len(r.urls) \in Nat /\ DOMAIN r.urls = 1..Len(r.urls)
      BY <2>1, LenProperties
    <3>2. \A i \in 1..Len(r.urls) : r.urls[i] \in Urls
      BY <2>1, ElementOfSeq
    <3>3. \A i \in 1..Len(r.urls) : Sub(<<r.urls[i]>>, 0) \in Subgoal
      BY <2>2, <3>2
    <3>4. Given \in [1..Len(r.urls) -> Subgoal]
      BY <3>1, <3>3
    <3> HIDE DEF Given
    <3> QED BY <3>1, <3>4
  <2>4. <<Idle, Idle>> \in Seq(Subgoal)
    BY <1>2
  <2> HIDE DEF Given
  <2>5. Given \o <<Idle, Idle>> \in Seq(Subgoal)
    BY <2>3, <2>4, ConcatProperties
  <2> QED BY <1>4, <2>5 DEF DirectPlan, Given
<1>5. CASE p = ComparisonPlan(r) /\ r.entities >= 2
  <2> DEFINE Each == [i \in 1..r.entities |-> S(2)]
  <2>1. r.entities \in Nat
    BY AgentAssumption
  <2>2. Each \in [1..r.entities -> Subgoal]
    BY <1>3
  <2> HIDE DEF Each
  <2>3. Each \in Seq(Subgoal)
    BY <2>1, <2>2
  <2>4. <<S(1)>> \in Seq(Subgoal)
    BY <1>3
  <2>5. Each \o <<S(1)>> \in Seq(Subgoal)
    BY <2>3, <2>4, ConcatProperties
  <2> QED BY <1>5, <2>5 DEF ComparisonPlan, Each
<1>6. /\ <<S(1), Idle, Idle>> \in Seq(Subgoal) /\ <<S(1), Idle, Idle, Idle>> \in Seq(Subgoal)
      /\ <<S(3), Idle, Idle, Idle>> \in Seq(Subgoal) /\ \A m, n \in 0..1 : <<S(m), S(n)>> \in Seq(Subgoal)
  BY <1>1, <1>2
<1>7. \/ p = DirectPlan(r) \/ p = ComparisonPlan(r) \/ p \in {SitePlan, StructuredPlan, MonitoringPlan, GeneralPlan}
      \/ p \in LlmPlans
  BY AgentAssumption DEF Plans
<1>8. CASE p = ComparisonPlan(r) /\ ~(r.entities >= 2)
  BY <1>6, <1>8 DEF ComparisonPlan
<1>9. CASE p \in {SitePlan, StructuredPlan, MonitoringPlan, GeneralPlan}
  <2>1. {SitePlan, StructuredPlan, MonitoringPlan, GeneralPlan} \subseteq Seq(Subgoal)
    BY <1>6 DEF SitePlan, StructuredPlan, MonitoringPlan, GeneralPlan
  <2> QED BY <1>9, <2>1
<1>10. CASE p \in LlmPlans
  <2>1. PICK m, n \in 0..1 : p = <<S(m), S(n)>>
    BY <1>10 DEF LlmPlans
  <2> QED BY <1>6, <2>1
<1> QED BY <1>4, <1>5, <1>7, <1>8, <1>9, <1>10

\* A round asks for a natural number of follow-ups.
LEMMA FollowUpsType ==
  ASSUME plan \in Seq(Subgoal), request \in Requests
  PROVE  FollowUps \in Nat
<1>1. IsFiniteSet(Missing)
  <2>1. request.schema \subseteq Fields /\ IsFiniteSet(Fields)
    BY AgentAssumption
  <2>2. IsFiniteSet(request.schema) /\ Missing \subseteq request.schema
    BY <2>1, FS_Subset DEF Missing
  <2> QED BY <2>2, FS_Subset
<1>2. Cardinality(Missing) \in Nat
  BY <1>1, FS_CardinalityType
<1>3. AllQueries(plan) \in Nat
  BY AllQueriesType
<1> QED BY <1>2, <1>3 DEF FollowUps

\* What a search answers, cut to its first links.
LEMMA TakeType ==
  ASSUME NEW found \in Answers, NEW n \in {2, 3}
  PROVE  Take(found, n) \in Seq(Urls) /\ Len(Take(found, n)) <= 3
<1>1. PICK k \in 0..MaxResults : found \in [1..k -> Urls]
  BY DEF Answers
<1>2. k \in Nat
  BY AgentAssumption
<1>3. found \in Seq(Urls) /\ Len(found) = k
  BY <1>1, <1>2
<1> DEFINE m == IF Len(found) < n THEN Len(found) ELSE n
<1>4. m \in Nat /\ m <= k /\ m <= 3
  BY <1>2, <1>3
<1>5. \A i \in 1..m : found[i] \in Urls
  BY <1>1, <1>2, <1>4
<1> HIDE DEF m
<1>6. SubSeq(found, 1, m) \in Seq(Urls) /\ Len(SubSeq(found, 1, m)) = IF 1 <= m THEN m - 1 + 1 ELSE 0
  BY <1>4, <1>5, SubSeqProperties
<1> QED BY <1>4, <1>6 DEF Take, m

\* Citing what is stored: at least once, if anything is.
LEMMA CitationsType ==
  ASSUME evidence \in Seq(Item), NEW cited, NEW claimed, NEW cites \in Citations(cited, claimed)
  PROVE  cites \subseteq Ids /\ Grounded(claimed) \subseteq cites /\ (evidence # <<>> => cites # {})
<1>1. CASE Grounded(cited \cup claimed) # {}
  BY <1>1 DEF Citations, Grounded
<1>2. CASE Grounded(cited \cup claimed) = {}
  <2>1. cites \in Best(5) /\ Grounded(claimed) = {}
    BY <1>2 DEF Citations, Grounded
  <2>2. cites \subseteq Ids /\ Cardinality(cites) = IF Cardinality(Ids) < 5 THEN Cardinality(Ids) ELSE 5
    BY <2>1 DEF Best
  <2>3. ASSUME evidence # <<>> PROVE cites # {}
    <3>1. Len(evidence) \in Nat \ {0} /\ Ids = 1..Len(evidence)
      BY <2>3, EmptySeq, LenProperties DEF Ids
    <3>2. Cardinality(Ids) = Len(evidence)
      BY <3>1, FS_Interval
    <3>3. Cardinality(cites) # 0
      BY <2>2, <3>1, <3>2
    <3> QED BY <3>3, FS_EmptySet
  <2> QED BY <2>1, <2>2, <2>3
<1> QED BY <1>1, <1>2

-----------------------------------------------------------------------------
\* The invariants hold when the job is filed.
LEMMA InitInv == Init => AgentInv
<1> SUFFICES ASSUME Init PROVE AgentInv
  OBVIOUS
<1>0. {MaxRounds, MaxPages, MaxSearches} \subseteq Nat
  BY AgentAssumption
<1>1. LoopInv
  BY EmptySeq DEF Init, LoopInv, Pcs, Loops
<1>2. RoundInv /\ StatusInv
  BY <1>0 DEF Init, RoundInv, StatusInv, Statuses
<1>3. StoreInv
  <2>1. Ids = {} /\ evidence \in Seq(Item)
    BY EmptySeq DEF Init, Ids
  <2> QED BY <2>1, FS_EmptySet, AgentAssumption DEF Init, StoreInv
<1>4. BudgetInv
  BY <1>0, FS_EmptySet DEF Init, BudgetInv
<1>5. AnswerInv
  BY DEF Init, AnswerInv
<1> QED BY <1>1, <1>2, <1>3, <1>4, <1>5 DEF AgentInv

\* The client's calls and the deadline touch the flags, the status, and the clock.
LEMMA ClientStep ==
  ASSUME AgentInv, Client \/ Deadline
  PROVE  AgentInv'
<1>1. UNCHANGED <<plan, pc, result, loops, budget, store, request, done>>
  BY DEF Client, Deadline, Pause, Resume, Cancel, Ask, WriteStatus, door
<1>2. {telling', status'} \subseteq Statuses
  <2>1. {telling, status} \subseteq Statuses
    BY DEF AgentInv, StatusInv
  <2> QED BY <2>1 DEF Client, Deadline, Pause, Resume, Cancel, Ask, WriteStatus, flags, Statuses
<1>3. LoopInv' /\ RoundInv' /\ BudgetInv'
  BY <1>1 DEF AgentInv, LoopInv, RoundInv, BudgetInv, loops, budget, store, done
<1>4. StoreInv' /\ AnswerInv'
  BY <1>1 DEF AgentInv, StoreInv, AnswerInv, Ids, loops, store, done
<1> QED BY <1>2, <1>3, <1>4 DEF AgentInv, StatusInv

\* A step of the executor that neither stores nor counts anything.
LEMMA PhaseStep ==
  ASSUME AgentInv, StartPlanning \/ CreatePlan \/ StartEvaluating \/ Evaluate \/ SearchReturns
                   \/ FollowUpReturns \/ Synthesize \/ Decide \/ File
  PROVE  AgentInv'
<1>1. UNCHANGED <<budget, store, done, request, url, telling, round, subgoal, targets, queries, back>>
  BY DEF StartPlanning, CreatePlan, StartEvaluating, Evaluate, SearchReturns, FollowUpReturns,
         Synthesize, Decide, File, loops, flags, door
<1>2. BudgetInv'
  BY <1>1 DEF AgentInv, BudgetInv, budget, store, done
<1>3. status' \in Statuses /\ telling' \in Statuses
  BY <1>1 DEF AgentInv, StatusInv, Statuses, StartPlanning, CreatePlan, StartEvaluating, Evaluate, SearchReturns,
              FollowUpReturns, Synthesize, Decide, File, flags
<1>4. pc # "scraping" /\ pc' # "scraping" /\ pc' \in Pcs /\ pc' \notin {"queued"}
  BY DEF Pcs, StartPlanning, CreatePlan, StartEvaluating, Evaluate, SearchReturns, FollowUpReturns,
         Synthesize, Decide, File
<1>5. StoreInv'
  BY <1>1, <1>4 DEF AgentInv, StoreInv, Ids, store, done
<1>6. AnswerInv'
  <2>1. CASE UNCHANGED result /\ (pc \in {"filing", "ended"} => pc' \in {"filing", "ended"})
    BY <1>1, <2>1 DEF AgentInv, AnswerInv, Ids, store
  <2>2. CASE pc' = "filing" /\ result' = Outcome("Cancelled", {}, {})
    BY <2>2 DEF AnswerInv, Outcome
  <2> QED BY <2>1, <2>2 DEF StartPlanning, CreatePlan, StartEvaluating, Evaluate, SearchReturns,
        FollowUpReturns, Synthesize, Decide, File, loops
<1>7. RoundInv'
  BY <1>1, <1>4 DEF AgentInv, RoundInv, StartPlanning, CreatePlan, StartEvaluating, Evaluate, SearchReturns,
        FollowUpReturns, Synthesize, Decide, File
<1>8. LoopInv'
  <2>1. links' \in Seq(Urls) /\ Len(links') <= 3
    BY TakeType DEF AgentInv, LoopInv, StartPlanning, CreatePlan, StartEvaluating, Evaluate, SearchReturns,
         FollowUpReturns, Synthesize, Decide, File, loops
  <2>2. calls' \in Nat
    BY FollowUpsType DEF AgentInv, LoopInv, StartPlanning, CreatePlan, StartEvaluating, Evaluate, SearchReturns,
         FollowUpReturns, Synthesize, Decide, File, loops
  <2>3. plan' \in Seq(Subgoal) /\ subgoal \in 0..Len(plan')
    <3>1. CASE CreatePlan
      <4>1. plan' \in Seq(Subgoal) /\ subgoal = 0
        BY <3>1, PlansType DEF AgentInv, LoopInv, CreatePlan
      <4>2. Len(plan') \in Nat
        BY <4>1, LenProperties
      <4> QED BY <4>1, <4>2
    <3>2. CASE ~CreatePlan
      BY <3>2 DEF AgentInv, LoopInv, StartPlanning, StartEvaluating, Evaluate, SearchReturns,
         FollowUpReturns, Synthesize, Decide, File
    <3> QED BY <3>1, <3>2
  <2>4. pc' = "planning" => subgoal = 0
    BY DEF AgentInv, LoopInv, StartPlanning, CreatePlan, StartEvaluating, Evaluate, SearchReturns,
       FollowUpReturns, Synthesize, Decide, File
  <2> QED BY <1>1, <1>4, <2>1, <2>2, <2>3, <2>4 DEF AgentInv, LoopInv
<1> QED BY <1>1, <1>2, <1>3, <1>5, <1>6, <1>7, <1>8 DEF AgentInv, StatusInv

\* What a call of the budget grants is within its limit, and counted.
LEMMA ChargedFacts ==
  ASSUME NEW count \in Nat, NEW limit \in Nat
  PROVE  /\ Charged(count, limit).count \in Nat /\ count <= Charged(count, limit).count
         /\ Charged(count, limit).granted => count < limit /\ Charged(count, limit).count = count + 1
<1>1. Charged(count, limit).count = (IF late THEN count ELSE count + 1)
  BY DEF Charged
<1>2. Charged(count, limit).granted => ~late /\ count < limit
  BY DEF Charged
<1> HIDE DEF Charged
<1>3. /\ Charged(count, limit).count \in Nat /\ count <= Charged(count, limit).count
      /\ ~late => Charged(count, limit).count = count + 1
  BY <1>1
<1> QED BY <1>2, <1>3

\* A visit marks a page, makes its scrape and counts it, or does none of them.
LEMMA VisitStep ==
  ASSUME AgentInv, NEW from \in Loops, NEW u \in Urls, pc = from, Visit(u, from),
         UNCHANGED <<steps, searches, searched, evidence>>
  PROVE  /\ StoreInv' /\ BudgetInv' /\ back' \in Loops \cup {"none"} /\ (pc' = "scraping" => back' \in Loops)
         /\ \/ pc' = "scraping" /\ back' = from
            \/ pc' = from /\ pc' # "scraping"
<1> DEFINE page == Charged(pages, MaxPages)
           go == u \notin visited /\ page.granted
<1>1. /\ visited \subseteq Urls /\ IsFiniteSet(visited) /\ {pages, steps, searches, searched} \subseteq Nat
      /\ Cardinality(visited) <= pages /\ Cardinality(visited) <= MaxPages
      /\ scraped = [v \in Urls |-> IF v \in visited THEN 1 ELSE 0]
      /\ evidence \in Seq(Item) /\ \A i \in Ids : evidence[i].url \in visited
      /\ \A i, j \in Ids : evidence[i].text = evidence[j].text => i = j
      /\ searched <= searches /\ searched <= MaxSearches
  BY DEF AgentInv, StoreInv, BudgetInv
<1>2. MaxPages \in Nat /\ NoUrl \notin Urls /\ from # "scraping"
  BY AgentAssumption DEF Loops
<1>3. Cardinality(visited) \in Nat
  BY <1>1, FS_CardinalityType
<1>4. /\ page.count \in Nat /\ pages <= page.count
      /\ page.granted => pages < MaxPages /\ page.count = pages + 1
  BY <1>1, <1>2, ChargedFacts
<1>5. /\ pages' = IF u \in visited THEN pages ELSE page.count
      /\ visited' = IF go THEN visited \cup {u} ELSE visited
      /\ scraped' = IF go THEN [scraped EXCEPT ![u] = @ + 1] ELSE scraped
      /\ url' = IF go THEN u ELSE NoUrl
      /\ back' = IF go THEN from ELSE "none"
      /\ pc' = IF go THEN "scraping" ELSE from
  BY DEF Visit
<1> HIDE DEF page
<1>6. CASE go
  <2>1. IsFiniteSet(visited') /\ Cardinality(visited') = Cardinality(visited) + 1
    BY <1>1, <1>5, <1>6, FS_AddElement
  <2>2. scraped' = [v \in Urls |-> IF v \in visited' THEN 1 ELSE 0]
    BY <1>1, <1>5, <1>6
  <2>3. StoreInv'
    BY <1>1, <1>2, <1>5, <1>6, <2>1, <2>2 DEF StoreInv, Ids
  <2>4. BudgetInv'
    <3>1. pages' \in Nat /\ Cardinality(visited') <= pages' /\ Cardinality(visited') <= MaxPages
      BY <1>1, <1>2, <1>3, <1>4, <1>5, <1>6, <2>1
    <3> QED BY <1>1, <3>1 DEF BudgetInv
  <2> QED BY <1>5, <1>6, <2>3, <2>4
<1>7. CASE ~go
  <2>1. StoreInv'
    BY <1>1, <1>2, <1>5, <1>7 DEF StoreInv, Ids
  <2>2. BudgetInv'
    <3>1. pages' \in Nat /\ pages <= pages'
      BY <1>1, <1>4, <1>5
    <3> QED BY <1>1, <1>2, <1>3, <1>5, <1>7, <3>1 DEF BudgetInv
  <2> QED BY <1>2, <1>5, <1>7, <2>1, <2>2
<1> QED BY <1>6, <1>7

\* The three loops over addresses: the next one, or the end of the loop.
LEMMA LoopStep ==
  ASSUME AgentInv, NextTarget \/ NextLink \/ NextMoreLink
  PROVE  AgentInv'
<1>1. UNCHANGED <<plan, status, result, subgoal, queries, calls, round, request, telling>>
      /\ UNCHANGED <<steps, searches, searched, evidence>>
  BY DEF NextTarget, NextLink, NextMoreLink, flags, door
<1>2. targets \in Seq(Urls) /\ links \in Seq(Urls) /\ Len(links) <= 3 /\ result = NoResult
  <2>1. pc \notin {"filing", "ended"}
    BY DEF NextTarget, NextLink, NextMoreLink
  <2> QED BY <2>1 DEF AgentInv, LoopInv, AnswerInv
<1>3. targets' \in Seq(Urls) /\ links' \in Seq(Urls) /\ Len(links') <= 3
  <2>1. \A q \in Seq(Urls) : q # <<>> => Tail(q) \in Seq(Urls) /\ Len(Tail(q)) = Len(q) - 1 /\ Len(q) \in Nat
    BY HeadTailProperties, LenProperties
  <2>2. <<>> \in Seq(Urls) /\ Len(<<>>) = 0
    BY EmptySeq
  <2>3. targets' \in {targets, <<>>} \/ (targets # <<>> /\ targets' = Tail(targets))
    BY DEF NextTarget, NextLink, NextMoreLink
  <2>4. links' \in {links, <<>>} \/ (links # <<>> /\ links' = Tail(links))
    BY DEF NextTarget, NextLink, NextMoreLink
  <2>5. targets' \in Seq(Urls)
    BY <1>2, <2>1, <2>2, <2>3
  <2>6. links' \in Seq(Urls) /\ Len(links') <= 3
    <3>1. CASE links' = Tail(links) /\ links # <<>>
      <4>1. /\ Tail(links) \in Seq(Urls) /\ Len(Tail(links)) = Len(links) - 1 /\ Len(links) \in Nat
            /\ Len(links) <= 3
        BY <1>2, <2>1, <3>1
      <4> DEFINE n == Len(links)
                 m == Len(Tail(links))
      <4>2. m = n - 1 /\ n \in Nat /\ n <= 3
        BY <4>1
      <4> HIDE DEF n, m
      <4>3. m <= 3
        BY <4>2
      <4> QED BY <3>1, <4>1, <4>3 DEF m
    <3>2. CASE links' = links
      BY <1>2, <3>2
    <3>3. CASE links' = <<>>
      BY <2>2, <3>3
    <3> QED BY <2>4, <3>1, <3>2, <3>3
  <2> QED BY <2>5, <2>6
<1>4. /\ StoreInv' /\ BudgetInv' /\ back' \in Loops \cup {"none"} /\ (pc' = "scraping" => back' \in Loops)
      /\ \/ pc' = "scraping" /\ back' = pc
         \/ pc' = pc
         \/ pc' = "queries" \/ (pc = "moreLinks" /\ pc' = "calls")
  <2>1. CASE \E from \in Loops, u \in Urls : pc = from /\ Visit(u, from)
    BY <1>1, <2>1, VisitStep
  <2>2. CASE /\ pc' = "queries" \/ (pc = "moreLinks" /\ pc' = "calls")
             /\ UNCHANGED <<pages, visited, scraped, url, back>>
    <3>1. pc # "scraping" /\ pc' # "scraping"
      BY <2>2 DEF NextTarget, NextLink, NextMoreLink
    <3>2. StoreInv' /\ BudgetInv'
      BY <1>1, <2>2, <3>1 DEF AgentInv, StoreInv, BudgetInv, Ids
    <3> QED BY <2>2, <3>1, <3>2 DEF AgentInv, LoopInv
  <2>3. \/ \E from \in Loops, u \in Urls : pc = from /\ Visit(u, from)
        \/ /\ pc' = "queries" \/ (pc = "moreLinks" /\ pc' = "calls")
           /\ UNCHANGED <<pages, visited, scraped, url, back>>
    <3>1. \A q \in Seq(Urls) : q # <<>> => Head(q) \in Urls
      BY HeadTailProperties
    <3> QED BY <1>2, <3>1 DEF NextTarget, NextLink, NextMoreLink, Loops
  <2> QED BY <2>1, <2>2, <2>3
<1>5. pc \in Loops
  BY DEF NextTarget, NextLink, NextMoreLink, Loops
<1>6. LoopInv'
  BY <1>1, <1>3, <1>4, <1>5 DEF AgentInv, LoopInv, Pcs, Loops
<1>7. RoundInv'
  BY <1>1, <1>4, <1>5 DEF AgentInv, RoundInv, Loops
<1>8. StatusInv' /\ AnswerInv'
  BY <1>1, <1>2 DEF AgentInv, StatusInv, AnswerInv
<1> QED BY <1>4, <1>6, <1>7, <1>8 DEF AgentInv

\* The calls of the budget for a subgoal, a query and a follow-up.
LEMMA ChargeStep ==
  ASSUME AgentInv, NextSubgoal \/ NextQuery \/ NextCall
  PROVE  AgentInv'
<1>1. UNCHANGED <<plan, status, result, links, back, url, pages, store, scraped, request, telling>>
  BY DEF NextSubgoal, NextQuery, NextCall, flags, door, done
<1>2. pc \notin {"filing", "ended", "scraping"} /\ result = NoResult
  BY DEF AgentInv, AnswerInv, NextSubgoal, NextQuery, NextCall
<1>3. pc' \in {"targets", "researched", "searching", "subgoal", "followups", "evaluating"}
  BY DEF NextSubgoal, NextQuery, NextCall
<1>4. /\ {pages, steps, searches, searched} \subseteq Nat /\ searched <= searches /\ searched <= MaxSearches
      /\ MaxSearches \in Nat /\ MaxSteps \in Nat
  BY AgentAssumption DEF AgentInv, BudgetInv
<1>5. StoreInv'
  BY <1>1, <1>2, <1>3 DEF AgentInv, StoreInv, Ids, store
<1>6. BudgetInv'
  <2> DEFINE query == Charged(searches, MaxSearches)
             step == Charged(steps, MaxSteps)
  <2>1. /\ query.count \in Nat /\ searches <= query.count /\ step.count \in Nat
        /\ query.granted => searches < MaxSearches /\ query.count = searches + 1
    BY <1>4, ChargedFacts
  <2>2. /\ steps' \in {steps, step.count} /\ searches' \in {searches, query.count}
        /\ \/ searched' = searched
           \/ searched' = searched + 1 /\ query.granted /\ searches' = query.count
    BY DEF NextSubgoal, NextQuery, NextCall, done
  <2> HIDE DEF query, step
  <2>3. /\ {steps', searches', searched'} \subseteq Nat /\ searched' <= searches' /\ searched' <= MaxSearches
    <3>1. CASE searched' = searched
      BY <1>4, <2>1, <2>2, <3>1
    <3>2. CASE searched' = searched + 1 /\ query.granted /\ searches' = query.count
      BY <1>4, <2>1, <2>2, <3>2
    <3> QED BY <2>2, <3>1, <3>2
  <2> QED BY <1>1, <2>3 DEF AgentInv, BudgetInv, store
<1>7. LoopInv'
  <2>1. /\ plan \in Seq(Subgoal) /\ subgoal \in 0..Len(plan) /\ Len(plan) \in Nat
        /\ targets \in Seq(Urls) /\ queries \in Nat /\ calls \in Nat
    BY LenProperties DEF AgentInv, LoopInv
  <2>2. subgoal < Len(plan) => plan[subgoal + 1] \in Subgoal /\ subgoal + 1 \in 0..Len(plan)
    BY <2>1, ElementOfSeq
  <2>3. targets' \in Seq(Urls) /\ queries' \in Nat /\ calls' \in Nat /\ subgoal' \in 0..Len(plan)
    <3>1. CASE NextSubgoal
      BY <3>1, <2>1, <2>2, EmptySeq DEF NextSubgoal, Subgoal
    <3>2. CASE NextQuery
      <4>1. UNCHANGED <<targets, calls, subgoal>> /\ (queries' = 0 \/ (queries > 0 /\ queries' = queries - 1))
        BY <3>2 DEF NextQuery
      <4> QED BY <2>1, <4>1
    <3>3. CASE NextCall
      <4>1. UNCHANGED <<targets, queries, subgoal>> /\ (calls' = 0 \/ (calls > 0 /\ calls' = calls - 1))
        BY <3>3 DEF NextCall
      <4> QED BY <2>1, <4>1
    <3> QED BY <3>1, <3>2, <3>3
  <2>4. pc' \in Pcs /\ pc' \notin {"queued", "planning", "scraping"}
    BY <1>3 DEF Pcs
  <2> QED BY <1>1, <2>3, <2>4 DEF AgentInv, LoopInv
<1>8. RoundInv'
  <2>1. CASE NextCall
    <3>1. round \in 1..MaxRounds /\ MaxRounds \in Nat
      BY <2>1, AgentAssumption DEF AgentInv, RoundInv, NextCall
    <3>2. \/ round' = round /\ pc' = "followups"
          \/ round' = round + 1 /\ pc' = "evaluating"
      BY <2>1 DEF NextCall
    <3> QED BY <3>1, <3>2 DEF RoundInv
  <2>2. CASE NextSubgoal \/ NextQuery
    <3>1. round' = round /\ pc' \in {"targets", "researched", "searching", "subgoal"}
      BY <2>2 DEF NextSubgoal, NextQuery
    <3> QED BY <3>1 DEF AgentInv, RoundInv
  <2> QED BY <2>1, <2>2
<1>9. StatusInv' /\ AnswerInv'
  BY <1>1, <1>2 DEF AgentInv, StatusInv, AnswerInv
<1> QED BY <1>5, <1>6, <1>7, <1>8, <1>9 DEF AgentInv

\* A passage is stored unless its text is there already; the page it is from
\* is the one being scraped.
LEMMA PassageStep ==
  ASSUME AgentInv, FindPassage
  PROVE  AgentInv'
<1>1. /\ pc = "scraping" /\ UNCHANGED <<plan, pc, status, result, loops, budget, visited, request, telling, done>>
      /\ \E t \in Holds[url] : evidence' = Insert(url, t)
  BY DEF FindPassage, flags, door
<1>2. /\ evidence \in Seq(Item) /\ url \in visited /\ visited \subseteq Urls
      /\ \A i, j \in Ids : evidence[i].text = evidence[j].text => i = j
      /\ \A i \in Ids : evidence[i].url \in visited
  BY <1>1 DEF AgentInv, StoreInv
<1>3. PICK t \in Holds[url] : evidence' = Insert(url, t)
  BY <1>1
<1>4. [url |-> url, text |-> t] \in Item
  BY <1>2, AgentAssumption DEF Item
<1>5. /\ evidence' \in Seq(Item)
      /\ \A i, j \in DOMAIN evidence' : evidence'[i].text = evidence'[j].text => i = j
      /\ \A i \in DOMAIN evidence' : evidence'[i].url \in visited
  <2>1. CASE t \in Hashes
    BY <1>2, <1>3, <2>1 DEF Insert, Ids
  <2>2. CASE t \notin Hashes
    <3> DEFINE item == [url |-> url, text |-> t]
    <3>1. evidence' = Append(evidence, item) /\ item.url = url /\ item.text = t /\ item \in Item
      BY <1>3, <1>4, <2>2 DEF Insert
    <3>2. \A i \in Ids : evidence[i].text # item.text
      BY <2>2 DEF Hashes
    <3> HIDE DEF item
    <3>3. /\ evidence' \in Seq(Item) /\ Len(evidence) \in Nat /\ Ids = 1..Len(evidence)
          /\ DOMAIN evidence' = 1..(Len(evidence) + 1)
          /\ \A i \in 1..Len(evidence) : evidence'[i] = evidence[i]
          /\ evidence'[Len(evidence) + 1] = item
      BY <1>2, <3>1, AppendProperties, LenProperties DEF Ids
    <3>4. \A i \in DOMAIN evidence' : i = Len(evidence) + 1 \/ i \in Ids
      BY <3>3
    <3> QED BY <1>2, <3>1, <3>2, <3>3, <3>4
  <2> QED BY <2>1, <2>2
<1>6. StoreInv'
  BY <1>1, <1>5 DEF AgentInv, StoreInv, Ids, loops, done
<1>7. LoopInv' /\ RoundInv' /\ StatusInv' /\ BudgetInv' /\ AnswerInv'
  <2>1. result = NoResult
    BY <1>1 DEF AgentInv, AnswerInv
  <2> QED BY <1>1, <2>1 DEF AgentInv, LoopInv, RoundInv, StatusInv, BudgetInv, AnswerInv, loops, budget, done
<1> QED BY <1>6, <1>7 DEF AgentInv

\* The scrape is over, and its loop goes on.
LEMMA ScrapeEndsStep ==
  ASSUME AgentInv, ScrapeEnds
  PROVE  AgentInv'
<1>1. /\ pc = "scraping" /\ pc' = back /\ back' = "none" /\ url' = NoUrl /\ back \in Loops
      /\ UNCHANGED <<plan, status, result, subgoal, targets, queries, links, calls, round,
                     budget, store, request, telling, done>>
  BY DEF AgentInv, LoopInv, ScrapeEnds, flags, door
<1>2. pc' # "scraping" /\ pc' \in Pcs /\ pc' \notin {"queued", "planning"}
  BY <1>1 DEF Loops, Pcs
<1>3. LoopInv'
  BY <1>1, <1>2 DEF AgentInv, LoopInv
<1>4. StoreInv'
  BY <1>1, <1>2 DEF AgentInv, StoreInv, Ids, store, done
<1>5. RoundInv'
  BY <1>1 DEF AgentInv, RoundInv, Loops
<1>6. BudgetInv'
  BY <1>1 DEF AgentInv, BudgetInv, budget, store, done
<1>7. StatusInv' /\ AnswerInv'
  BY <1>1 DEF AgentInv, StatusInv, AnswerInv
<1> QED BY <1>3, <1>4, <1>5, <1>6, <1>7 DEF AgentInv

\* The answer cites what is stored.
LEMMA ValidateStep ==
  ASSUME AgentInv, Validate
  PROVE  AgentInv'
<1>1. /\ pc = "validating" /\ pc' = "filing" /\ status' = "Completed"
      /\ UNCHANGED <<plan, loops, budget, store, request, telling, done>>
  BY DEF Validate, flags, door
<1>2. PICK draft \in Drafts : \E cites \in Citations(draft[1], draft[2]) :
         result' = Outcome("Completed", cites, Grounded(draft[2]))
  BY DEF Validate
<1>3. PICK cites \in Citations(draft[1], draft[2]) : result' = Outcome("Completed", cites, Grounded(draft[2]))
  BY <1>2
<1>4. cites \subseteq Ids /\ Grounded(draft[2]) \subseteq cites /\ (evidence # <<>> => cites # {})
  BY CitationsType DEF AgentInv, StoreInv
<1>5. AnswerInv'
  BY <1>1, <1>3, <1>4 DEF AnswerInv, Outcome, Ids, store
<1>6. StatusInv'
  BY <1>1 DEF AgentInv, StatusInv, Statuses
<1>7. LoopInv' /\ RoundInv' /\ BudgetInv'
  BY <1>1 DEF AgentInv, LoopInv, RoundInv, BudgetInv, Pcs, loops, budget, store, done
<1>8. StoreInv'
  BY <1>1 DEF AgentInv, StoreInv, Ids, loops, store, done
<1> QED BY <1>5, <1>6, <1>7, <1>8 DEF AgentInv

\* A stuttering step.
LEMMA StutterStep ==
  ASSUME AgentInv, UNCHANGED vars
  PROVE  AgentInv'
BY DEF vars, loops, budget, store, flags, door, done, AgentInv, LoopInv, RoundInv, StatusInv, StoreInv,
       BudgetInv, AnswerInv, Ids

-----------------------------------------------------------------------------
\* The inductive invariant: loops, rounds, statuses, store, budget and answer
\* hang together in every reachable state.
THEOREM AgentInvariant == Spec => []AgentInv
<1>1. AgentInv /\ [Next]_vars => AgentInv'
  <2> SUFFICES ASSUME AgentInv, [Next]_vars PROVE AgentInv'
    OBVIOUS
  <2>1. CASE Executor
    BY <2>1, PhaseStep, LoopStep, ChargeStep, PassageStep, ScrapeEndsStep, ValidateStep DEF Executor
  <2> QED BY <2>1, ClientStep, StutterStep DEF Next
<1> QED BY InitInv, <1>1, PTL DEF Spec

\* No page is scraped and no passage stored twice, and neither the scrapes nor
\* the searches pass the budget, though its counters do
\* (src/src/agent/budgets.rs, executor.rs, evidence.rs).
THEOREM WorkWithinBudgetAlways == Spec => []WorkWithinBudget
<1>1. AgentInv => WorkWithinBudget
  <2> SUFFICES ASSUME AgentInv PROVE WorkWithinBudget
    OBVIOUS
  <2>1. TypeOK
    BY DEF AgentInv, LoopInv, RoundInv, StatusInv, StoreInv, TypeOK, Loops, Subgoal, Item, Statuses
  <2>2. \A u \in Urls : scraped[u] = IF u \in visited THEN 1 ELSE 0
    BY DEF AgentInv, StoreInv
  <2>3. {u \in Urls : scraped[u] # 0} = visited
    BY <2>2 DEF AgentInv, StoreInv
  <2> QED BY <2>1, <2>2, <2>3 DEF AgentInv, BudgetInv, WorkWithinBudget
<1> QED BY <1>1, AgentInvariant, PTL

\* What a finished answer cites is evidence of pages this job scraped; its
\* claims are among its citations, and evidence never goes without a citation
\* (src/src/agent/citations.rs).
THEOREM CitationsGroundedAlways == Spec => []CitationsGrounded
<1>1. AgentInv => CitationsGrounded
  <2> SUFFICES ASSUME AgentInv, result # NoResult, result.status = "Completed"
               PROVE  /\ result.citations \subseteq Ids
                      /\ result.claims \subseteq result.citations
                      /\ evidence # <<>> => result.citations # {}
                      /\ \A i \in result.citations : scraped[evidence[i].url] = 1
    BY DEF CitationsGrounded
  <2>1. /\ result.citations \subseteq Ids /\ result.claims \subseteq result.citations
        /\ evidence # <<>> => result.citations # {}
    BY DEF AgentInv, AnswerInv
  <2>2. \A i \in Ids : evidence[i].url \in visited /\ visited \subseteq Urls
    BY DEF AgentInv, StoreInv
  <2>3. \A u \in visited : scraped[u] = 1
    BY DEF AgentInv, StoreInv
  <2> QED BY <2>1, <2>2, <2>3
<1> QED BY <1>1, AgentInvariant, PTL
=============================================================================
