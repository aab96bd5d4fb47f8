------------------------- MODULE CoordinatorProofs -------------------------
(***************************************************************************)
(* Proofs about Coordinator: its type invariant with the depth limit, that *)
(* a task is accepted by the queue at most once, and that what is marked   *)
(* completed was earned, for all sets of jobs, URLs and handlers, all link *)
(* graphs, and any number of failed fetches and lost leases.               *)
(***************************************************************************)
EXTENDS Coordinator, TLAPS

SlotRecord == [at : Steps, task : Tasks \cup {NoTask}, todo : SUBSET Urls,
               found : Urls \cup {NoUrl}]

\* A task that is anywhere was accepted: in the queue, or in a handler.
Listed == \A t \in Tasks : place[t] # "new" => enqueues[t] >= 1
Holding == \A w \in Workers : slot[w].at # "idle" =>
              slot[w].task \in Tasks /\ enqueues[slot[w].task] >= 1

\* The frontier decides who enqueues a link.  Accepted links are known to it;
\* a link in a handler's hand is known to it and not yet accepted, and is in
\* no other handler's hand.
LinkOf(w) == LinkTask(JobOf(slot[w].task), slot[w].found)
AcceptedKnown == \A j \in Jobs, u \in Urls :
                    enqueues[LinkTask(j, u)] >= 1 => u \in frontier[j]
InHand == \A w \in Workers : slot[w].found # NoUrl =>
             /\ slot[w].at = "links"
             /\ slot[w].found \in frontier[JobOf(slot[w].task)]
             /\ enqueues[LinkOf(w)] = 0
InOneHand == \A v, w \in Workers :
                slot[v].found # NoUrl /\ slot[w].found # NoUrl /\ v # w => LinkOf(v) # LinkOf(w)
SeedOnce == \A j \in Jobs : submission[j] # "accepted" => enqueues[SeedTask(j)] = 0
OnceInv == Listed /\ Holding /\ AcceptedKnown /\ InHand /\ InOneHand /\ SeedOnce /\ EnqueuedOnce

\* A handler with links left to follow processes a page above the limit.
Below == \A w \in Workers : slot[w].at = "links" =>
            \/ slot[w].todo = {} /\ slot[w].found = NoUrl
            \/ depth[slot[w].task] < MaxDepth
            \/ type[JobOf(slot[w].task)] = "Map"

\* What is marked finished was tried; a crawl's seed that went past the fetch
\* has its page stored.
Tried == \A j \in Jobs :
            /\ taskStatus[j] \in {"Completed", "Failed"} => j \in tried
            /\ finishing = j => j \in tried
            /\ jobStatus[j] = "Completed" => j \in tried
PastFetch == \A w \in Workers : LET t == slot[w].task IN
                slot[w].at \in {"links", "ack", "completed"} /\ IsSeedOf(t, "Crawl") =>
                   <<JobOf(t), UrlOf(t)>> \in results
SeedStored == \A j \in Jobs : type[j] = "Crawl" /\ taskStatus[j] = "Completed" =>
                 <<j, Seed[j]>> \in results
EarnedInv == Tried /\ PastFetch /\ SeedStored

CoordInv == TypeOK /\ OnceInv /\ Below /\ EarnedInv

-----------------------------------------------------------------------------
\* How tasks are named.
LEMMA TaskFacts ==
  /\ \A j \in Jobs : /\ SeedTask(j) \in Tasks /\ JobOf(SeedTask(j)) = j
                     /\ UrlOf(SeedTask(j)) = Seed[j]
  /\ \A j \in Jobs, u \in Urls : /\ LinkTask(j, u) \in Tasks /\ JobOf(LinkTask(j, u)) = j
  /\ \A t \in Tasks : JobOf(t) \in Jobs /\ UrlOf(t) \in Urls
  /\ \A i, j \in Jobs, u \in Urls : SeedTask(i) # LinkTask(j, u)
  /\ \A i, j \in Jobs : SeedTask(i) = SeedTask(j) => i = j
  /\ \A i, j \in Jobs, u, v \in Urls : LinkTask(i, u) = LinkTask(j, v) => i = j /\ u = v
<1>1. \A j \in Jobs : /\ SeedTask(j) \in Tasks /\ JobOf(SeedTask(j)) = j
                      /\ UrlOf(SeedTask(j)) = Seed[j]
  BY DEF Tasks, SeedTask, JobOf, UrlOf
<1>2. \A j \in Jobs, u \in Urls : LinkTask(j, u) \in Tasks /\ JobOf(LinkTask(j, u)) = j
  BY DEF Tasks, LinkTask, JobOf
<1>3. \A t \in Tasks : JobOf(t) \in Jobs /\ UrlOf(t) \in Urls
  BY CoordinatorAssumption DEF Tasks, SeedTask, LinkTask, JobOf, UrlOf
<1>4. \A i, j \in Jobs, u \in Urls : SeedTask(i) # LinkTask(j, u)
  BY DEF SeedTask, LinkTask
<1>5. \A i, j \in Jobs : SeedTask(i) = SeedTask(j) => i = j
  BY DEF SeedTask
<1>6. \A i, j \in Jobs, u, v \in Urls : LinkTask(i, u) = LinkTask(j, v) => i = j /\ u = v
  BY DEF LinkTask
<1> QED BY <1>1, <1>2, <1>3, <1>4, <1>5, <1>6

\* Every task is a seed or a link of a job.
LEMMA TaskCases ==
  ASSUME NEW t \in Tasks
  PROVE  (\E j \in Jobs : t = SeedTask(j)) \/ (\E j \in Jobs, u \in Urls : t = LinkTask(j, u))
BY DEF Tasks

\* The invariant holds before anything is submitted.
LEMMA CoordInit == Init => CoordInv
<1> SUFFICES ASSUME Init PROVE CoordInv
  OBVIOUS
<1>1. slot \in [Workers -> SlotRecord] /\ \A w \in Workers : slot[w] = Idle
  BY DEF Init, Idle, SlotRecord, Steps
<1>2. Queue!TypeOK /\ \A t \in Tasks : place[t] = "new"
  BY DEF Init, Queue!Init, Queue!TypeOK, Queue!Places
<1>3. TypeOK
  BY <1>1, <1>2, CoordinatorAssumption DEF Init, TypeOK, SlotRecord
<1>4. OnceInv
  BY <1>1, <1>2, TaskFacts DEF Init, Idle, OnceInv, Listed, Holding, AcceptedKnown, InHand,
     InOneHand, SeedOnce, EnqueuedOnce
<1>5. Below /\ EarnedInv
  BY <1>1, CoordinatorAssumption DEF Init, Idle, Below, EarnedInv, Tried, PastFetch, SeedStored
<1> QED BY <1>3, <1>4, <1>5 DEF CoordInv

-----------------------------------------------------------------------------
\* A move of the queue takes a task along an edge of the ledger.
LEMMA MoveFacts ==
  ASSUME Queue!TypeOK, NEW t \in Tasks, NEW to, Queue!Move(t, to)
  PROVE  /\ Queue!TypeOK' /\ place[t] # to
         /\ place'[t] = to /\ \A s \in Tasks : s # t => place'[s] = place[s]
         /\ to # "waiting" => place[t] # "new"
BY DEF Queue!Move, Queue!TypeOK, Queue!Moves, Queue!Places

\* The steps of submit_job before the enqueue, of the operator, and of the
\* loop: no task is accepted, and a status becomes Completed only by CompleteJob.
LEMMA StatusStep ==
  ASSUME CoordInv, type' = type, NEW j \in Jobs,
         \/ CreateJob(j) \/ StoreSeed(j) \/ Pause(j) \/ Resume(j) \/ Cancel(j)
         \/ ListRunning \/ CheckJob(j) \/ CompleteJob(j)
  PROVE  CoordInv'
<1> USE DEF CoordInv
<1>1. UNCHANGED <<queueVars, frontier, results, slot, tried, failures, expiries>>
  BY DEF CreateJob, StoreSeed, Pause, Resume, Cancel, SetStatus, ListRunning, CheckJob,
     CompleteJob, boundVars
<1>2. /\ submission' \in [Jobs -> {"new", "created", "stored", "accepted", "rejected"}]
      /\ \A i \in Jobs : submission'[i] # "accepted" => submission[i] # "accepted"
  BY DEF CreateJob, StoreSeed, Pause, Resume, Cancel, SetStatus, ListRunning, CheckJob,
     CompleteJob, TypeOK
<1>3. /\ jobStatus' \in [Jobs -> {"none", "Queued", "Running", "Paused", "Cancelled", "Completed"}]
      /\ \A i \in Jobs : jobStatus'[i] = "Completed" => jobStatus[i] = "Completed" \/ finishing = i
  BY DEF CreateJob, StoreSeed, Pause, Resume, Cancel, SetStatus, ListRunning, CheckJob,
     CompleteJob, storeVars, TypeOK
<1>4. /\ taskStatus' \in [Jobs -> {"none", "Queued", "Running", "Completed", "Failed"}]
      /\ \A i \in Jobs : taskStatus'[i] \in {"Completed", "Failed"} => taskStatus'[i] = taskStatus[i]
  BY DEF CreateJob, StoreSeed, Pause, Resume, Cancel, SetStatus, ListRunning, CheckJob,
     CompleteJob, storeVars, TypeOK
<1>5. /\ toCheck' \subseteq Jobs /\ finishing' \in Jobs \cup {NoJob}
      /\ \A i \in Jobs : finishing' = i => finishing = i \/ AllFinished(i)
  BY CoordinatorAssumption DEF CreateJob, StoreSeed, Pause, Resume, Cancel, SetStatus, ListRunning,
     CheckJob, CompleteJob, loopVars, TypeOK
<1>6. TypeOK'
  BY <1>1, <1>2, <1>3, <1>4, <1>5 DEF TypeOK, queueVars, Queue!TypeOK
<1>7. OnceInv'
  BY <1>1, <1>2 DEF queueVars, OnceInv, Listed, Holding, AcceptedKnown, InHand, InOneHand,
     LinkOf, SeedOnce, EnqueuedOnce
<1>8. Below'
  BY <1>1 DEF queueVars, Below
<1>9. Tried'
  BY <1>1, <1>3, <1>4, <1>5 DEF EarnedInv, Tried, AllFinished
<1>10. PastFetch' /\ SeedStored'
  BY <1>1, <1>4 DEF EarnedInv, PastFetch, SeedStored, IsSeedOf
<1> QED BY <1>6, <1>7, <1>8, <1>9, <1>10 DEF EarnedInv

\* A lease runs out, or a task is pushed back: the task was accepted before.
LEMMA QueueStep ==
  ASSUME CoordInv, type' = type, NEW t \in Tasks, Expire(t) \/ Requeue(t)
  PROVE  CoordInv'
<1> USE DEF CoordInv
<1>1. UNCHANGED <<submission, storeVars, depth, enqueues, refused, frontier, results, slot,
                  loopVars, tried, failures>>
  BY DEF Expire, Requeue, boundVars
<1>2. /\ Queue!TypeOK' /\ place[t] # "new"
      /\ \A s \in Tasks : s # t => place'[s] = place[s]
  BY MoveFacts DEF Expire, Requeue, TypeOK
<1>3. /\ holder' \in [Tasks -> Workers \cup {NoWorker}]
      /\ expiries' \in [Tasks -> 0 .. MaxExpiries]
  BY CoordinatorAssumption DEF Expire, Requeue, boundVars, TypeOK
<1>4. TypeOK'
  BY <1>1, <1>2, <1>3 DEF TypeOK, storeVars, loopVars
<1>5. OnceInv'
  BY <1>1, <1>2 DEF OnceInv, Listed, Holding, AcceptedKnown, InHand, InOneHand, LinkOf,
     SeedOnce, EnqueuedOnce
<1>6. Below' /\ EarnedInv'
  BY <1>1 DEF storeVars, loopVars, Below, EarnedInv, Tried, PastFetch, SeedStored, IsSeedOf
<1> QED BY <1>4, <1>5, <1>6

\* An enqueue of a task that was never accepted: refused, or accepted once and
\* given its depth.
LEMMA EnqueueFacts ==
  ASSUME TypeOK, NEW t \in Tasks, NEW d \in Nat, Enqueue(t, d), enqueues[t] = 0
  PROVE  /\ Queue!TypeOK' /\ refused' \subseteq Tasks
         /\ holder' = holder /\ enqueues' \in [Tasks -> Nat] /\ depth' \in [Tasks -> Nat]
         /\ \A s \in Tasks : s # t => /\ enqueues'[s] = enqueues[s] /\ depth'[s] = depth[s]
                                      /\ place'[s] = place[s]
         /\ \/ enqueues'[t] = 1 /\ depth'[t] = d /\ NumWaiting < Capacity
            \/ UNCHANGED <<enqueues, depth, place>> /\ ~(NumWaiting < Capacity)
BY DEF Enqueue, TypeOK, Queue!TypeOK, Queue!Places

\* The seed is enqueued once per submission.
LEMMA SeedStep ==
  ASSUME CoordInv, type' = type, NEW j \in Jobs, EnqueueSeed(j)
  PROVE  CoordInv'
<1> USE DEF CoordInv
<1> DEFINE t == SeedTask(j)
<1>1. t \in Tasks /\ enqueues[t] = 0 /\ submission[j] = "stored"
  BY TaskFacts DEF EnqueueSeed, OnceInv, SeedOnce
<1>2. UNCHANGED <<storeVars, frontier, results, slot, loopVars, boundVars>>
  BY DEF EnqueueSeed
<1>3. /\ Queue!TypeOK' /\ refused' \subseteq Tasks
      /\ holder' = holder /\ enqueues' \in [Tasks -> Nat] /\ depth' \in [Tasks -> Nat]
      /\ \A s \in Tasks : s # t => /\ enqueues'[s] = enqueues[s] /\ depth'[s] = depth[s]
                                   /\ place'[s] = place[s]
      /\ \/ enqueues'[t] = 1 /\ depth'[t] = 0 /\ NumWaiting < Capacity
         \/ UNCHANGED <<enqueues, depth, place>> /\ ~(NumWaiting < Capacity)
  BY <1>1, EnqueueFacts DEF EnqueueSeed
<1>4. /\ submission' \in [Jobs -> {"new", "created", "stored", "accepted", "rejected"}]
      /\ \A i \in Jobs : i # j => submission'[i] = submission[i]
      /\ submission'[j] # "accepted" => ~(NumWaiting < Capacity)
  BY DEF EnqueueSeed, TypeOK
<1>5. TypeOK'
  <2>1. \A s \in Tasks : depth'[s] <= MaxDepth \/ type'[JobOf(s)] = "Map"
    BY <1>1, <1>3, CoordinatorAssumption DEF TypeOK
  <2> QED BY <1>2, <1>3, <1>4, <2>1 DEF TypeOK, storeVars, loopVars, boundVars
<1>6. \A w \in Workers : slot[w].at # "idle" => slot[w].task # t
  BY <1>1 DEF OnceInv, Holding
<1>7. \A i \in Jobs, u \in Urls : enqueues'[LinkTask(i, u)] = enqueues[LinkTask(i, u)]
  BY <1>3, TaskFacts
<1>8. Listed' /\ Holding' /\ EnqueuedOnce'
  BY <1>1, <1>2, <1>3, <1>6 DEF OnceInv, Listed, Holding, EnqueuedOnce
<1>9. AcceptedKnown'
  BY <1>2, <1>7 DEF OnceInv, AcceptedKnown
<1>10. InHand' /\ InOneHand'
  <2>1. ASSUME NEW w \in Workers, slot[w].found # NoUrl
        PROVE  LinkOf(w)' = LinkOf(w) /\ enqueues'[LinkOf(w)] = enqueues[LinkOf(w)]
    <3>1. slot[w].task \in Tasks /\ slot[w].found \in Urls
      BY <2>1 DEF OnceInv, InHand, Holding, TypeOK
    <3> QED BY <1>2, <1>7, <3>1, TaskFacts DEF LinkOf
  <2> QED BY <1>2, <2>1 DEF OnceInv, InHand, InOneHand, LinkOf
<1>11. SeedOnce'
  <2> SUFFICES ASSUME NEW i \in Jobs, submission'[i] # "accepted"
               PROVE  enqueues'[SeedTask(i)] = 0
    BY DEF SeedOnce
  <2>1. CASE i = j
    BY <1>1, <1>3, <1>4, <2>1
  <2>2. CASE i # j
    BY <1>3, <1>4, <2>2, TaskFacts DEF OnceInv, SeedOnce
  <2> QED BY <2>1, <2>2
<1>12. Below'
  BY <1>2, <1>3, <1>6 DEF OnceInv, Holding, Below
<1>13. EarnedInv'
  BY <1>2 DEF storeVars, loopVars, boundVars, EarnedInv, Tried, PastFetch, SeedStored, IsSeedOf
<1> QED BY <1>5, <1>8, <1>9, <1>10, <1>11, <1>12, <1>13 DEF OnceInv

-----------------------------------------------------------------------------
\* One handler's slot takes the value r.
LEMMA SlotFacts ==
  ASSUME TypeOK, NEW w \in Workers, NEW r \in SlotRecord, slot' = [slot EXCEPT ![w] = r]
  PROVE  /\ slot' \in [Workers -> SlotRecord] /\ slot'[w] = r
         /\ \A v \in Workers : v # w => slot'[v] = slot[v]
BY DEF TypeOK, SlotRecord

\* A handler goes on to another step.
LEMMA GotoFacts ==
  ASSUME TypeOK, NEW w \in Workers, NEW step \in Steps, Goto(w, step)
  PROVE  /\ slot' \in [Workers -> SlotRecord]
         /\ slot'[w].at = step /\ slot'[w].task = slot[w].task
         /\ slot'[w].todo = slot[w].todo /\ slot'[w].found = slot[w].found
         /\ \A v \in Workers : v # w => slot'[v] = slot[v]
<1> DEFINE r == [slot[w] EXCEPT !.at = step]
<1>1. slot[w] \in SlotRecord
  BY DEF TypeOK, SlotRecord
<1>2. /\ r \in SlotRecord /\ r.at = step /\ r.task = slot[w].task
      /\ r.todo = slot[w].todo /\ r.found = slot[w].found
  BY <1>1 DEF SlotRecord
<1>3. slot' = [slot EXCEPT ![w] = r]
  BY DEF Goto
<1> HIDE DEF r
<1> QED BY <1>2, <1>3, SlotFacts

\* A step of a handler that has no link in its hand, before or after, and
\* accepts no task.
LEMMA QuietOnce ==
  ASSUME TypeOK, OnceInv, NEW w \in Workers, UNCHANGED <<submission, enqueues, frontier>>,
         \A v \in Workers : v # w => slot'[v] = slot[v],
         slot'[w].found = NoUrl,
         slot'[w].at # "idle" => slot'[w].task \in Tasks /\ enqueues[slot'[w].task] >= 1,
         \A t \in Tasks : place'[t] # "new" => place[t] # "new"
  PROVE  OnceInv'
<1>1. Listed' /\ AcceptedKnown' /\ SeedOnce' /\ EnqueuedOnce'
  BY DEF OnceInv, Listed, AcceptedKnown, SeedOnce, EnqueuedOnce
<1>2. Holding'
  BY DEF OnceInv, Holding
<1>3. \A v \in Workers : slot'[v].found # NoUrl => v # w /\ LinkOf(v)' = LinkOf(v)
  BY DEF LinkOf
<1>4. InHand' /\ InOneHand'
  BY <1>3 DEF OnceInv, InHand, InOneHand
<1> QED BY <1>1, <1>2, <1>4 DEF OnceInv

\* A handler outside the links has none in its hand.
LEMMA EmptyHand ==
  ASSUME CoordInv, NEW w \in Workers, slot[w].at # "links"
  PROVE  slot[w].found = NoUrl
BY DEF CoordInv, OnceInv, InHand

\* A handler that is handed a task: it was accepted.
LEMMA ReserveStep ==
  ASSUME CoordInv, type' = type, NEW w \in Workers, Reserve(w)
  PROVE  CoordInv'
<1> USE DEF CoordInv
<1> PICK t \in Tasks : /\ Queue!Move(t, "leased") /\ holder' = [holder EXCEPT ![t] = w]
                       /\ slot' = [slot EXCEPT ![w] = [Idle EXCEPT !.at = "start", !.task = t]]
  BY DEF Reserve
<1>1. PICK r \in SlotRecord : /\ slot' = [slot EXCEPT ![w] = r]
                              /\ r.at = "start" /\ r.task = t /\ r.found = NoUrl
  <2> DEFINE q == [Idle EXCEPT !.at = "start"]
             r == [q EXCEPT !.task = t]
  <2>1. Idle \in SlotRecord /\ Idle.found = NoUrl
    BY DEF Idle, SlotRecord, Steps
  <2>2. q \in SlotRecord /\ q.at = "start" /\ q.found = NoUrl
    BY <2>1 DEF SlotRecord, Steps
  <2>3. slot' = [slot EXCEPT ![w] = r]
    OBVIOUS
  <2> HIDE DEF q
  <2>4. r \in SlotRecord /\ r.at = "start" /\ r.task = t /\ r.found = NoUrl
    BY <2>2 DEF SlotRecord
  <2> HIDE DEF r
  <2> QED BY <2>3, <2>4
<1>2. /\ slot' \in [Workers -> SlotRecord] /\ slot'[w] = r
      /\ \A v \in Workers : v # w => slot'[v] = slot[v]
  BY <1>1, SlotFacts
<1>3. UNCHANGED <<submission, storeVars, depth, enqueues, refused, frontier, results,
                  loopVars, boundVars>>
  BY DEF Reserve
<1>4. /\ Queue!TypeOK' /\ place[t] # "new" /\ \A s \in Tasks : s # t => place'[s] = place[s]
  BY MoveFacts DEF TypeOK
<1>5. TypeOK'
  BY <1>2, <1>3, <1>4 DEF TypeOK, storeVars, loopVars, boundVars, SlotRecord
<1>6. OnceInv'
  <2>1. enqueues[t] >= 1 /\ \A s \in Tasks : place'[s] # "new" => place[s] # "new"
    BY <1>4 DEF OnceInv, Listed
  <2>2. slot'[w].found = NoUrl /\ slot'[w].task = t
    BY <1>1, <1>2
  <2> QED BY <1>2, <1>3, <2>1, <2>2, QuietOnce
<1>7. Below' /\ EarnedInv'
  BY <1>1, <1>2, <1>3 DEF storeVars, loopVars, boundVars, Below, EarnedInv, Tried, PastFetch,
     SeedStored, IsSeedOf
<1> QED BY <1>5, <1>6, <1>7

\* The task's status is written, for a seed only.
LEMMA StatusFacts ==
  ASSUME TypeOK, NEW t \in Tasks, NEW s \in {"Running", "Completed", "Failed"}, SetTaskStatus(t, s)
  PROVE  /\ taskStatus' \in [Jobs -> {"none", "Queued", "Running", "Completed", "Failed"}]
         /\ \A j \in Jobs : \/ taskStatus'[j] = taskStatus[j]
                            \/ t = SeedTask(j) /\ taskStatus'[j] = s
BY TaskFacts DEF SetTaskStatus, TypeOK

\* Start, and the errors of a fetch: nothing but the handler and the seed's
\* status change.
LEMMA StartStep ==
  ASSUME CoordInv, type' = type, NEW w \in Workers, Start(w) \/ FetchFails(w)
  PROVE  CoordInv'
<1> USE DEF CoordInv
<1> DEFINE t == slot[w].task
<1>1. slot[w].at \in {"start", "fetch"} /\ slot[w].found = NoUrl
  BY EmptyHand DEF Start, FetchFails
<1>2. t \in Tasks /\ enqueues[t] >= 1
  BY <1>1 DEF OnceInv, Holding
<1>3. PICK step \in {"ack", "fetch", "fail"} :
        Goto(w, step) /\ (step = "ack" => IsSeedOf(t, "Search"))
  BY DEF Start, FetchFails, AfterError
<1>4. /\ slot' \in [Workers -> SlotRecord]
      /\ slot'[w].at = step /\ slot'[w].task = t
      /\ slot'[w].todo = slot[w].todo /\ slot'[w].found = slot[w].found
      /\ \A v \in Workers : v # w => slot'[v] = slot[v]
  BY <1>3, GotoFacts DEF Steps
<1>5. UNCHANGED <<submission, jobStatus, queueVars, frontier, results, loopVars, tried, expiries>>
  BY DEF Start, FetchFails, storeVars, boundVars
<1>6. /\ taskStatus' \in [Jobs -> {"none", "Queued", "Running", "Completed", "Failed"}]
      /\ \A j \in Jobs : taskStatus'[j] = taskStatus[j] \/ taskStatus'[j] = "Running"
  BY <1>2, StatusFacts DEF Start, FetchFails, storeVars, TypeOK
<1>7. failures' \in [Tasks -> 0 .. MaxFailures]
  BY <1>2, CoordinatorAssumption DEF Start, FetchFails, boundVars, TypeOK
<1>8. TypeOK'
  BY <1>4, <1>5, <1>6, <1>7 DEF TypeOK, queueVars, loopVars, SlotRecord, Queue!TypeOK
<1>9. OnceInv'
  BY <1>1, <1>2, <1>4, <1>5, QuietOnce DEF queueVars
<1>10. Below' /\ Tried' /\ SeedStored'
  BY <1>3, <1>4, <1>5, <1>6 DEF queueVars, loopVars, Below, EarnedInv, Tried, SeedStored
<1>11. PastFetch'
  BY <1>3, <1>4, <1>5 DEF EarnedInv, PastFetch, IsSeedOf
<1> QED BY <1>8, <1>9, <1>10, <1>11 DEF EarnedInv

\* A page is stored and its links listed, or a sitemap's URLs are.
LEMMA FetchStep ==
  ASSUME CoordInv, type' = type, NEW w \in Workers, Fetch(w) \/ FetchSitemap(w)
  PROVE  CoordInv'
<1> USE DEF CoordInv
<1> DEFINE t == slot[w].task
<1>1. slot[w].at = "fetch" /\ slot[w].found = NoUrl
  BY EmptyHand DEF Fetch, FetchSitemap
<1>2. t \in Tasks /\ enqueues[t] >= 1 /\ JobOf(t) \in Jobs /\ UrlOf(t) \in Urls
  BY <1>1, TaskFacts DEF OnceInv, Holding
<1>3. PICK us \in SUBSET Urls :
        /\ slot' = [slot EXCEPT ![w].at = "links", ![w].todo = us]
        /\ us = {} \/ depth[t] < MaxDepth \/ type[JobOf(t)] = "Map"
  <2>1. CASE Fetch(w)
    <3>1. Followed(t) \in SUBSET Urls /\ (Followed(t) = {} \/ depth[t] < MaxDepth)
      BY <1>2, CoordinatorAssumption DEF Followed
    <3> QED BY <2>1, <3>1 DEF Fetch
  <2>2. CASE FetchSitemap(w)
    <3>1. SitemapUrls[JobOf(t)] \in SUBSET Urls /\ type[JobOf(t)] = "Map"
      BY <1>2, <2>2, CoordinatorAssumption DEF FetchSitemap, IsSeedOf
    <3> QED BY <2>2, <3>1 DEF FetchSitemap
  <2> QED BY <2>1, <2>2
<1>4. PICK r \in SlotRecord : /\ slot' = [slot EXCEPT ![w] = r]
                              /\ r.at = "links" /\ r.task = t /\ r.todo = us /\ r.found = NoUrl
  <2> DEFINE q == [slot[w] EXCEPT !.at = "links"]
             r == [q EXCEPT !.todo = us]
  <2>1. slot \in [Workers -> SlotRecord] /\ slot[w] \in SlotRecord
    BY DEF TypeOK, SlotRecord
  <2>2. q \in SlotRecord /\ q.at = "links" /\ q.task = t /\ q.found = NoUrl
    BY <1>1, <2>1 DEF SlotRecord, Steps
  <2>3. slot' = [slot EXCEPT ![w] = r]
    BY <1>3, <2>1
  <2> HIDE DEF q
  <2>4. r \in SlotRecord /\ r.at = "links" /\ r.task = t /\ r.todo = us /\ r.found = NoUrl
    BY <2>2 DEF SlotRecord
  <2> HIDE DEF r
  <2> QED BY <2>3, <2>4
<1>5. /\ slot' \in [Workers -> SlotRecord] /\ slot'[w] = r
      /\ \A v \in Workers : v # w => slot'[v] = slot[v]
  BY <1>4, SlotFacts
<1>6. UNCHANGED <<submission, storeVars, queueVars, frontier, loopVars, boundVars>>
  BY DEF Fetch, FetchSitemap
<1>7. /\ results \subseteq results' /\ results' \subseteq Jobs \X Urls
      /\ ~IsSeedOf(t, "Map") => <<JobOf(t), UrlOf(t)>> \in results'
  BY <1>2 DEF Fetch, FetchSitemap, TypeOK
<1>8. TypeOK'
  BY <1>5, <1>6, <1>7 DEF TypeOK, storeVars, queueVars, loopVars, boundVars, SlotRecord, Queue!TypeOK
<1>9. OnceInv'
  BY <1>2, <1>4, <1>5, <1>6, QuietOnce DEF queueVars
<1>10. Below'
  <2>1. us = {} \/ depth'[t] < MaxDepth \/ type'[JobOf(t)] = "Map"
    BY <1>3, <1>6 DEF queueVars
  <2>2. slot'[w].task = t /\ slot'[w].todo = us /\ slot'[w].found = NoUrl
    BY <1>4, <1>5
  <2>3. \A v \in Workers : v # w => depth'[slot'[v].task] = depth[slot[v].task]
    BY <1>5, <1>6 DEF queueVars
  <2> QED BY <1>5, <2>1, <2>2, <2>3 DEF Below
<1>11. Tried' /\ SeedStored'
  BY <1>6, <1>7 DEF storeVars, loopVars, boundVars, EarnedInv, Tried, SeedStored
<1>12. PastFetch'
  BY <1>4, <1>5, <1>7 DEF EarnedInv, PastFetch, IsSeedOf
<1> QED BY <1>8, <1>9, <1>10, <1>11, <1>12 DEF EarnedInv

\* A link is looked up in the frontier and entered: found by the first only.
LEMMA DiscoverStep ==
  ASSUME CoordInv, type' = type, NEW w \in Workers, Discover(w)
  PROVE  CoordInv'
<1> USE DEF CoordInv
<1> DEFINE t == slot[w].task
           j == JobOf(t)
<1>1. slot[w].at = "links" /\ slot[w].found = NoUrl
  BY DEF Discover
<1>2. t \in Tasks /\ enqueues[t] >= 1 /\ j \in Jobs
  BY <1>1, TaskFacts DEF OnceInv, Holding
<1>3. PICK u \in slot[w].todo :
        /\ slot' = [slot EXCEPT ![w].todo = @ \ {u}, ![w].found = IF Known(j, u) THEN NoUrl ELSE u]
        /\ frontier' = [frontier EXCEPT ![j] = @ \cup {u}]
  BY DEF Discover
<1> DEFINE f == IF Known(j, u) THEN NoUrl ELSE u
<1>4. slot \in [Workers -> SlotRecord] /\ slot[w] \in SlotRecord /\ u \in Urls
  BY DEF TypeOK, SlotRecord
<1>5. PICK r \in SlotRecord : /\ slot' = [slot EXCEPT ![w] = r]
                              /\ r.at = "links" /\ r.task = t /\ r.found = f
  <2> DEFINE q == [slot[w] EXCEPT !.todo = @ \ {u}]
             r == [q EXCEPT !.found = f]
  <2>1. q \in SlotRecord /\ q.at = "links" /\ q.task = t
    BY <1>1, <1>4 DEF SlotRecord
  <2>2. slot' = [slot EXCEPT ![w] = r]
    BY <1>3, <1>4
  <2>3. f \in Urls \cup {NoUrl}
    BY <1>4
  <2> HIDE DEF q, f
  <2>4. r \in SlotRecord /\ r.at = "links" /\ r.task = t /\ r.found = f
    BY <2>1, <2>3 DEF SlotRecord
  <2> HIDE DEF r
  <2> QED BY <2>2, <2>4
<1>6. /\ slot' \in [Workers -> SlotRecord] /\ slot'[w] = r
      /\ \A v \in Workers : v # w => slot'[v] = slot[v]
  BY <1>5, SlotFacts
<1>7. UNCHANGED <<submission, storeVars, queueVars, results, loopVars, boundVars>>
  BY DEF Discover
<1>8. /\ frontier' \in [Jobs -> SUBSET Urls] /\ u \in frontier'[j]
      /\ \A i \in Jobs : frontier[i] \subseteq frontier'[i]
  BY <1>2, <1>3, <1>4 DEF TypeOK
<1>9. TypeOK'
  BY <1>6, <1>7, <1>8 DEF TypeOK, storeVars, queueVars, loopVars, boundVars, SlotRecord, Queue!TypeOK
<1>10. Listed' /\ Holding' /\ SeedOnce' /\ EnqueuedOnce'
  BY <1>2, <1>5, <1>6, <1>7 DEF queueVars, OnceInv, Listed, Holding, SeedOnce, EnqueuedOnce
<1>11. AcceptedKnown'
  BY <1>7, <1>8 DEF queueVars, OnceInv, AcceptedKnown
<1>12. \A v \in Workers : v # w => LinkOf(v)' = LinkOf(v)
  BY <1>6 DEF LinkOf
<1>13. ASSUME f # NoUrl
       PROVE  /\ LinkOf(w)' = LinkTask(j, u) /\ u \notin frontier[j]
              /\ enqueues[LinkTask(j, u)] = 0
  <2>1. LinkOf(w)' = LinkTask(j, u) /\ u \notin frontier[j]
    BY <1>5, <1>6, <1>13 DEF LinkOf, Known
  <2>2. enqueues[LinkTask(j, u)] \in Nat
    BY <1>2, <1>4, TaskFacts DEF TypeOK
  <2> QED BY <1>2, <1>4, <2>1, <2>2 DEF OnceInv, AcceptedKnown
<1>14. \A v \in Workers : v # w /\ slot[v].found # NoUrl =>
          /\ JobOf(slot[v].task) \in Jobs /\ slot[v].found \in Urls
          /\ slot[v].found \in frontier[JobOf(slot[v].task)]
  BY TaskFacts DEF OnceInv, Holding, InHand, TypeOK
<1>15. InHand'
  <2>1. CASE f = NoUrl
    BY <1>5, <1>6, <1>7, <1>8, <1>12, <1>14, <2>1 DEF queueVars, OnceInv, InHand
  <2>2. CASE f # NoUrl
    BY <1>5, <1>6, <1>7, <1>8, <1>12, <1>13, <1>14, <2>2 DEF queueVars, OnceInv, InHand
  <2> QED BY <2>1, <2>2
<1>16. InOneHand'
  <2>1. ASSUME NEW v \in Workers, v # w, slot[v].found # NoUrl, f # NoUrl
        PROVE  LinkOf(v) # LinkTask(j, u)
    BY <1>2, <1>4, <1>13, <1>14, <2>1, TaskFacts DEF LinkOf
  <2> QED BY <1>5, <1>6, <1>12, <1>13, <2>1 DEF OnceInv, InOneHand
<1>17. Below'
  <2>1. depth[t] < MaxDepth \/ type[j] = "Map"
    BY <1>1, <1>4 DEF Below
  <2> QED BY <1>5, <1>6, <1>7, <2>1 DEF queueVars, Below
<1>18. EarnedInv'
  BY <1>1, <1>5, <1>6, <1>7 DEF storeVars, loopVars, boundVars, EarnedInv, Tried, PastFetch,
     SeedStored, IsSeedOf
<1> QED BY <1>9, <1>10, <1>11, <1>15, <1>16, <1>17, <1>18 DEF OnceInv

\* The link in the hand is enqueued, below the limit but for sitemaps.
LEMMA EnqueueLinkStep ==
  ASSUME CoordInv, type' = type, NEW w \in Workers, EnqueueLink(w)
  PROVE  CoordInv'
<1> USE DEF CoordInv
<1> DEFINE t == slot[w].task
           l == LinkOf(w)
           d == depth[t] + 1
<1>1. slot[w].at = "links" /\ slot[w].found # NoUrl
  BY DEF EnqueueLink
<1>2. /\ t \in Tasks /\ enqueues[t] >= 1 /\ JobOf(t) \in Jobs /\ slot[w].found \in Urls
      /\ l \in Tasks /\ enqueues[l] = 0 /\ JobOf(l) = JobOf(t)
      /\ slot[w].found \in frontier[JobOf(t)]
  BY <1>1, TaskFacts DEF OnceInv, Holding, InHand, LinkOf, TypeOK
<1>3. d \in Nat /\ (d <= MaxDepth \/ type[JobOf(t)] = "Map")
  BY <1>1, <1>2, CoordinatorAssumption DEF Below, TypeOK
<1>4. /\ Queue!TypeOK' /\ refused' \subseteq Tasks
      /\ holder' = holder /\ enqueues' \in [Tasks -> Nat] /\ depth' \in [Tasks -> Nat]
      /\ \A s \in Tasks : s # l => /\ enqueues'[s] = enqueues[s] /\ depth'[s] = depth[s]
                                   /\ place'[s] = place[s]
      /\ \/ enqueues'[l] = 1 /\ depth'[l] = d /\ NumWaiting < Capacity
         \/ UNCHANGED <<enqueues, depth, place>> /\ ~(NumWaiting < Capacity)
  <2>1. Enqueue(l, d)
    BY DEF EnqueueLink, LinkOf
  <2> HIDE DEF l, d
  <2> QED BY <1>2, <1>3, <2>1, EnqueueFacts
<1>5. PICK r \in SlotRecord : /\ slot' = [slot EXCEPT ![w] = r]
                              /\ r.at = "links" /\ r.task = t /\ r.found = NoUrl
  <2> DEFINE r == [slot[w] EXCEPT !.found = NoUrl]
  <2>1. slot \in [Workers -> SlotRecord] /\ slot[w] \in SlotRecord
    BY DEF TypeOK, SlotRecord
  <2>2. r \in SlotRecord /\ r.at = "links" /\ r.task = t /\ r.found = NoUrl
    BY <1>1, <2>1 DEF SlotRecord
  <2>3. slot' = [slot EXCEPT ![w] = r]
    BY DEF EnqueueLink
  <2> HIDE DEF r
  <2> QED BY <2>2, <2>3
<1>6. /\ slot' \in [Workers -> SlotRecord] /\ slot'[w] = r
      /\ \A v \in Workers : v # w => slot'[v] = slot[v]
  BY <1>5, SlotFacts
<1>7. UNCHANGED <<submission, storeVars, frontier, results, loopVars, boundVars>>
  BY DEF EnqueueLink
<1>8. TypeOK'
  <2>1. \A s \in Tasks : depth'[s] <= MaxDepth \/ type'[JobOf(s)] = "Map"
    BY <1>2, <1>3, <1>4 DEF TypeOK
  <2> QED BY <1>4, <1>6, <1>7, <2>1 DEF TypeOK, storeVars, loopVars, boundVars, SlotRecord
<1>9. \A v \in Workers : slot[v].at # "idle" => slot[v].task \in Tasks /\ slot[v].task # l
  BY <1>2 DEF OnceInv, Holding
<1>10. Listed' /\ EnqueuedOnce'
  BY <1>2, <1>4 DEF OnceInv, Listed, EnqueuedOnce
<1>11. Holding'
  <2>1. \A v \in Workers : slot[v].at # "idle" => enqueues'[slot[v].task] = enqueues[slot[v].task]
    BY <1>4, <1>9
  <2> QED BY <1>1, <1>2, <1>5, <1>6, <2>1 DEF OnceInv, Holding
<1>12. AcceptedKnown'
  <2> SUFFICES ASSUME NEW i \in Jobs, NEW u \in Urls, enqueues'[LinkTask(i, u)] >= 1
               PROVE  u \in frontier[i]
    BY <1>7 DEF AcceptedKnown
  <2>1. CASE LinkTask(i, u) = l
    BY <1>2, <2>1, TaskFacts DEF LinkOf
  <2>2. CASE LinkTask(i, u) # l
    BY <1>4, <2>2, TaskFacts DEF OnceInv, AcceptedKnown
  <2> QED BY <2>1, <2>2
<1>13. \A v \in Workers : slot'[v].found # NoUrl =>
          v # w /\ LinkOf(v)' = LinkOf(v) /\ enqueues'[LinkOf(v)] = enqueues[LinkOf(v)]
  <2> SUFFICES ASSUME NEW v \in Workers, slot'[v].found # NoUrl
               PROVE  v # w /\ LinkOf(v)' = LinkOf(v) /\ enqueues'[LinkOf(v)] = enqueues[LinkOf(v)]
    OBVIOUS
  <2>1. v # w /\ slot'[v] = slot[v] /\ LinkOf(v)' = LinkOf(v)
    BY <1>5, <1>6 DEF LinkOf
  <2>2. LinkOf(v) # l
    BY <1>1, <2>1 DEF OnceInv, InOneHand
  <2>3. LinkOf(v) \in Tasks
    BY <2>1, TaskFacts DEF OnceInv, InHand, Holding, LinkOf, TypeOK
  <2> QED BY <1>4, <2>1, <2>2, <2>3
<1>14. InHand' /\ InOneHand'
  BY <1>6, <1>7, <1>13 DEF OnceInv, InHand, InOneHand
<1>15. SeedOnce'
  <2>1. \A i \in Jobs : SeedTask(i) \in Tasks /\ SeedTask(i) # l
    BY <1>2, TaskFacts DEF LinkOf
  <2>2. \A i \in Jobs : enqueues'[SeedTask(i)] = enqueues[SeedTask(i)]
    BY <1>4, <2>1
  <2> QED BY <1>7, <2>2 DEF OnceInv, SeedOnce
<1>16. Below'
  <2>1. \A v \in Workers : slot[v].at = "links" => depth'[slot[v].task] = depth[slot[v].task]
    BY <1>4, <1>9
  <2>2. depth[t] < MaxDepth \/ type[JobOf(t)] = "Map"
    BY <1>1 DEF Below
  <2> QED BY <1>1, <1>5, <1>6, <2>1, <2>2 DEF Below
<1>17. EarnedInv'
  BY <1>1, <1>5, <1>6, <1>7 DEF storeVars, loopVars, boundVars, EarnedInv, Tried, PastFetch,
     SeedStored, IsSeedOf
<1> QED
  BY <1>8, <1>10, <1>11, <1>12, <1>14, <1>15, <1>16, <1>17 DEF OnceInv

\* The links are done, and the lease is given back: it may be gone already.
LEMMA EndStep ==
  ASSUME CoordInv, type' = type, NEW w \in Workers, LinksDone(w) \/ EndLease(w)
  PROVE  CoordInv'
<1> USE DEF CoordInv
<1> DEFINE t == slot[w].task
<1>1. slot[w].at \in {"links", "ack", "fail"} /\ slot[w].found = NoUrl
  BY EmptyHand DEF LinksDone, EndLease
<1>2. t \in Tasks /\ enqueues[t] >= 1
  BY <1>1 DEF OnceInv, Holding
<1>3. PICK step \in {"ack", "completed", "failed"} :
        /\ Goto(w, step)
        /\ step \in {"ack", "completed"} => slot[w].at \in {"links", "ack"}
  BY DEF LinksDone, EndLease
<1>4. /\ slot' \in [Workers -> SlotRecord]
      /\ slot'[w].at = step /\ slot'[w].task = t
      /\ slot'[w].todo = slot[w].todo /\ slot'[w].found = slot[w].found
      /\ \A v \in Workers : v # w => slot'[v] = slot[v]
  BY <1>3, GotoFacts DEF Steps
<1>5. UNCHANGED <<submission, storeVars, depth, enqueues, refused, frontier, results,
                  loopVars, boundVars>>
  BY DEF LinksDone, EndLease, queueVars
<1>6. /\ Queue!TypeOK' /\ holder' \in [Tasks -> Workers \cup {NoWorker}]
      /\ \A s \in Tasks : place'[s] # "new" => place[s] # "new"
  <2>1. CASE UNCHANGED <<place, holder>>
    BY <2>1 DEF TypeOK, Queue!TypeOK
  <2>2. ASSUME NEW to \in {"done", "returning"}, Queue!Move(t, to),
               holder' = [holder EXCEPT ![t] = NoWorker]
        PROVE  /\ Queue!TypeOK' /\ holder' \in [Tasks -> Workers \cup {NoWorker}]
               /\ \A s \in Tasks : place'[s] # "new" => place[s] # "new"
    <3>1. Queue!TypeOK' /\ place[t] # "new" /\ \A s \in Tasks : s # t => place'[s] = place[s]
      BY <1>2, <2>2, MoveFacts DEF TypeOK
    <3> QED BY <2>2, <3>1 DEF TypeOK
  <2> QED BY <2>1, <2>2 DEF LinksDone, EndLease, Release, queueVars
<1>7. TypeOK'
  BY <1>4, <1>5, <1>6 DEF TypeOK, storeVars, loopVars, boundVars, SlotRecord
<1>8. OnceInv'
  BY <1>1, <1>2, <1>4, <1>5, <1>6, QuietOnce
<1>9. Below' /\ Tried' /\ SeedStored'
  BY <1>3, <1>4, <1>5 DEF storeVars, loopVars, boundVars, Below, EarnedInv, Tried, SeedStored
<1>10. PastFetch'
  BY <1>3, <1>4, <1>5 DEF EarnedInv, PastFetch, IsSeedOf
<1> QED BY <1>7, <1>8, <1>9, <1>10 DEF EarnedInv

\* The status of the task is written, and the handler is free again.
LEMMA FinishStep ==
  ASSUME CoordInv, type' = type, NEW w \in Workers, Finish(w)
  PROVE  CoordInv'
<1> USE DEF CoordInv
<1> DEFINE t == slot[w].task
<1>1. slot[w].at \in {"completed", "failed"}
  BY DEF Finish
<1>2. t \in Tasks /\ JobOf(t) \in Jobs
  BY <1>1, TaskFacts DEF OnceInv, Holding
<1>3. /\ slot' \in [Workers -> SlotRecord] /\ slot'[w] = Idle
      /\ \A v \in Workers : v # w => slot'[v] = slot[v]
  <2>1. Idle \in SlotRecord
    BY DEF Idle, SlotRecord, Steps
  <2> QED BY <2>1, SlotFacts DEF Finish
<1>4. UNCHANGED <<submission, jobStatus, queueVars, frontier, results, loopVars, failures, expiries>>
  BY DEF Finish
<1>5. /\ tried' \subseteq Jobs /\ tried \subseteq tried'
      /\ t = SeedTask(JobOf(t)) => JobOf(t) \in tried'
  BY <1>2 DEF Finish, TypeOK
<1>6. PICK s \in {"Completed", "Failed"} :
        SetTaskStatus(t, s) /\ (s = "Completed" => slot[w].at = "completed")
  BY DEF Finish
<1>7. /\ taskStatus' \in [Jobs -> {"none", "Queued", "Running", "Completed", "Failed"}]
      /\ \A j \in Jobs : \/ taskStatus'[j] = taskStatus[j]
                         \/ t = SeedTask(j) /\ taskStatus'[j] = s
  BY <1>2, <1>6, StatusFacts
<1>8. TypeOK'
  BY <1>3, <1>4, <1>5, <1>7 DEF TypeOK, queueVars, loopVars, SlotRecord, Queue!TypeOK
<1>9. OnceInv'
  BY <1>3, <1>4, QuietOnce DEF queueVars, Idle
<1>10. Below' /\ PastFetch'
  BY <1>3, <1>4 DEF queueVars, Idle, Below, EarnedInv, PastFetch, IsSeedOf
<1>11. Tried'
  BY <1>4, <1>5, <1>7, TaskFacts DEF loopVars, EarnedInv, Tried
<1>12. SeedStored'
  <2> SUFFICES ASSUME NEW j \in Jobs, type[j] = "Crawl", taskStatus'[j] = "Completed"
               PROVE  <<j, Seed[j]>> \in results
    BY <1>4 DEF SeedStored
  <2>1. CASE taskStatus'[j] = taskStatus[j]
    BY <2>1 DEF EarnedInv, SeedStored
  <2>2. CASE t = SeedTask(j) /\ taskStatus'[j] = s
    <3>1. slot[w].at = "completed" /\ JobOf(t) = j /\ UrlOf(t) = Seed[j]
      BY <1>6, <2>2, TaskFacts
    <3> QED BY <2>2, <3>1 DEF EarnedInv, PastFetch, IsSeedOf
  <2> QED BY <1>7, <2>1, <2>2
<1> QED BY <1>8, <1>9, <1>10, <1>11, <1>12 DEF EarnedInv

-----------------------------------------------------------------------------
\* The inductive invariant holds in every reachable state.
THEOREM CoordInvariant == Spec => []CoordInv
<1>1. Init => CoordInv
  BY CoordInit
<1>2. CoordInv /\ [Next]_vars => CoordInv'
  <2> SUFFICES ASSUME CoordInv, [Next]_vars PROVE CoordInv'
    OBVIOUS
  <2>1. ASSUME UNCHANGED vars PROVE CoordInv'
    <3> USE <2>1 DEF CoordInv, vars, state
    <3>1. TypeOK'
      BY DEF TypeOK, Queue!TypeOK
    <3>2. OnceInv' /\ Below'
      BY DEF OnceInv, Listed, Holding, AcceptedKnown, InHand, InOneHand, LinkOf, SeedOnce,
         EnqueuedOnce, Below
    <3>3. EarnedInv'
      BY DEF EarnedInv, Tried, PastFetch, SeedStored, IsSeedOf
    <3> QED BY <3>1, <3>2, <3>3
  <2>2. CASE Next
    <3> type' = type
      BY <2>2 DEF Next
    <3>1. ASSUME NEW j \in Jobs, Submit(j) \/ Pause(j) \/ Resume(j) \/ Cancel(j) PROVE CoordInv'
      BY <3>1, StatusStep, SeedStep DEF Submit
    <3>2. ASSUME NEW w \in Workers, Reserve(w) \/ Handle(w) PROVE CoordInv'
      BY <3>2, ReserveStep, StartStep, FetchStep, DiscoverStep, EnqueueLinkStep, EndStep,
         FinishStep DEF Handle
    <3>3. ASSUME NEW t \in Tasks, Expire(t) \/ Requeue(t) PROVE CoordInv'
      BY <3>3, QueueStep
    <3>4. ASSUME Loop PROVE CoordInv'
      <4>1. CASE \E j \in Jobs : CheckJob(j) \/ CompleteJob(j)
        BY <4>1, StatusStep
      <4>2. CASE ListRunning /\ Jobs # {}
        BY <4>2, StatusStep
      <4>3. CASE ListRunning /\ Jobs = {}
        <5>1. toCheck' = toCheck /\ UNCHANGED vars
          BY <4>3 DEF ListRunning, vars, state, storeVars, queueVars, loopVars, boundVars
        <5> QED BY <5>1, <2>1
      <4> QED BY <3>4, <4>1, <4>2, <4>3 DEF Loop
    <3> QED BY <2>2, <3>1, <3>2, <3>3, <3>4 DEF Next
  <2> QED BY <2>1, <2>2
<1> QED BY <1>1, <1>2, PTL DEF Spec

\* The type invariant, and with it the depth limit: no task of a job that is
\* not a map job goes deeper than default_max_depth (runtime.rs 276-296).
THEOREM CoordTypeCorrect == Spec => []TypeOK
<1>1. CoordInv => TypeOK
  BY DEF CoordInv
<1> QED BY <1>1, CoordInvariant, PTL

\* However many handlers find a link at once, and however often a page is
\* processed again, its task is accepted at most once (frontier.rs 53-67).
THEOREM EnqueuedOnceAlways == Spec => []EnqueuedOnce
<1>1. CoordInv => EnqueuedOnce
  BY DEF CoordInv, OnceInv
<1> QED BY <1>1, CoordInvariant, PTL

\* A job is completed only when its seed was tried, and a crawl's seed only
\* when its page is stored (scheduler.rs 211-227, runtime.rs 197-215).
THEOREM CompletedIsEarnedAlways == Spec => []CompletedIsEarned
<1>1. CoordInv => CompletedIsEarned
  BY DEF CoordInv, EarnedInv, Tried, SeedStored, CompletedIsEarned
<1> QED BY <1>1, CoordInvariant, PTL
=============================================================================
