---------------------------- MODULE Coordinator ----------------------------
(***************************************************************************)
(* Distributed jobs end to end: JobScheduler (coordinator/scheduler.rs),   *)
(* the metadata store (store/memory.rs), the per-job frontier              *)
(* (coordinator/frontier.rs) and the handlers of WorkerRuntime             *)
(* (worker/runtime.rs).  The task queue between them is TaskLedger, which  *)
(* TaskQueue implements; of its order and times only the fact that a lease *)
(* may run out under a slow handler matters here.                          *)
(*                                                                         *)
(* Each .await of submit_job, process_lease and run_scheduler_loop that    *)
(* reads or writes shared state is a step.  A task is named by its job,    *)
(* its URL and whether it is the seed or a discovered link; links of a     *)
(* page are visited in any order.                                          *)
(***************************************************************************)
EXTENDS Naturals, FiniteSets

CONSTANTS Jobs, Urls, Workers,
          Types,         \* the types of job a client may submit
          Seed,          \* [Jobs -> Urls], the url of the submitted config
          Links,         \* [Urls -> SUBSET Urls], the first 50 links of a page
          SitemapUrls,   \* [Jobs -> SUBSET Urls], what the seed's sitemap lists
          MaxDepth,      \* default_max_depth
          Capacity,      \* the queue's max_capacity
          MaxFailures,   \* bound: fetches that fail, per task
          MaxExpiries,   \* bound: leases that run out, per task
          NoTask, NoUrl, NoWorker, NoJob

JobTypes == {"Crawl", "Map", "Search"}
SeedTask(j) == <<j, Seed[j], "seed">>
LinkTask(j, u) == <<j, u, "link">>
Tasks == {SeedTask(j) : j \in Jobs} \cup {LinkTask(j, u) : j \in Jobs, u \in Urls}
JobOf(t) == t[1]
UrlOf(t) == t[2]

ASSUME CoordinatorAssumption ==
    /\ Types \subseteq JobTypes /\ Seed \in [Jobs -> Urls]
    /\ Links \in [Urls -> SUBSET Urls] /\ SitemapUrls \in [Jobs -> SUBSET Urls]
    /\ {MaxDepth, Capacity, MaxFailures, MaxExpiries} \subseteq Nat
    /\ NoTask \notin Tasks /\ NoUrl \notin Urls /\ NoWorker \notin Workers /\ NoJob \notin Jobs

VARIABLES
    type,        \* [Jobs -> JobTypes], what each client submits
    submission,  \* [Jobs -> how far submit_job is]
    jobStatus,   \* [Jobs -> JobStatus or "none"], the store's jobs
    taskStatus,  \* [Jobs -> TaskStatus or "none"]: only seeds are stored
    place,       \* [Tasks -> Places], the queue as TaskLedger sees it
    holder,      \* [Tasks -> Workers or NoWorker], who has the active lease
    depth,       \* [Tasks -> Nat], the depth in the payload
    frontier,    \* [Jobs -> SUBSET Urls], the known URL hashes
    results,     \* SUBSET (Jobs \X Urls), pages in the result store
    slot,        \* [Workers -> what the handler is doing]
    toCheck,     \* running jobs the scheduler loop has still to check
    finishing,   \* the job it found finished, or NoJob
    \* outside the program
    enqueues,    \* [Tasks -> Nat], accepted enqueues of the task
    refused,     \* tasks a full queue refused
    tried,       \* seeds whose processing ended at least once
    failures, expiries

\* The type never changes: the fairness below is about the rest.
state == <<submission, jobStatus, taskStatus, place, holder, depth, frontier, results,
          slot, toCheck, finishing, enqueues, refused, tried, failures, expiries>>
vars == <<type, state>>
storeVars == <<jobStatus, taskStatus>>
queueVars == <<place, holder, depth, enqueues, refused>>
loopVars == <<toCheck, finishing>>
boundVars == <<tried, failures, expiries>>

Queue == INSTANCE TaskLedger WITH Tasks <- Tasks, place <- place

Steps == {"idle", "start", "fetch", "links", "ack", "completed", "fail", "failed"}
Idle == [at |-> "idle", task |-> NoTask, todo |-> {}, found |-> NoUrl]
NumWaiting == Cardinality({t \in Tasks : place[t] = "waiting"})

TypeOK ==
    /\ submission \in [Jobs -> {"new", "created", "stored", "accepted", "rejected"}]
    /\ jobStatus \in [Jobs -> {"none", "Queued", "Running", "Paused", "Cancelled", "Completed"}]
    /\ taskStatus \in [Jobs -> {"none", "Queued", "Running", "Completed", "Failed"}]
    /\ Queue!TypeOK
    /\ holder \in [Tasks -> Workers \cup {NoWorker}]
    /\ depth \in [Tasks -> Nat]
    /\ \A t \in Tasks : depth[t] <= MaxDepth \/ type[JobOf(t)] = "Map"
    /\ frontier \in [Jobs -> SUBSET Urls]
    /\ results \subseteq Jobs \X Urls
    /\ slot \in [Workers -> [at : Steps, task : Tasks \cup {NoTask},
                             todo : SUBSET Urls, found : Urls \cup {NoUrl}]]
    /\ toCheck \subseteq Jobs /\ finishing \in Jobs \cup {NoJob}
    /\ enqueues \in [Tasks -> Nat] /\ refused \subseteq Tasks /\ tried \subseteq Jobs
    /\ failures \in [Tasks -> 0 .. MaxFailures] /\ expiries \in [Tasks -> 0 .. MaxExpiries]

Init ==
    /\ type \in [Jobs -> Types]
    /\ submission = [j \in Jobs |-> "new"]
    /\ jobStatus = [j \in Jobs |-> "none"] /\ taskStatus = [j \in Jobs |-> "none"]
    /\ Queue!Init
    /\ holder = [t \in Tasks |-> NoWorker] /\ depth = [t \in Tasks |-> 0]
    /\ frontier = [j \in Jobs |-> {}] /\ results = {}
    /\ slot = [w \in Workers |-> Idle]
    /\ toCheck = {} /\ finishing = NoJob
    /\ enqueues = [t \in Tasks |-> 0] /\ refused = {} /\ tried = {}
    /\ failures = [t \in Tasks |-> 0] /\ expiries = [t \in Tasks |-> 0]

-----------------------------------------------------------------------------
\* submit_job: create_job, then store_task and enqueue of the seed.  A full
\* queue makes it fail and leaves the job and its task in the store.
CreateJob(j) ==
    /\ submission[j] = "new"
    /\ submission' = [submission EXCEPT ![j] = "created"]
    /\ jobStatus' = [jobStatus EXCEPT ![j] = "Queued"]
    /\ UNCHANGED <<taskStatus, queueVars, frontier, results, slot, loopVars, boundVars>>

StoreSeed(j) ==
    /\ submission[j] = "created"
    /\ submission' = [submission EXCEPT ![j] = "stored"]
    /\ taskStatus' = [taskStatus EXCEPT ![j] = "Queued"]
    /\ UNCHANGED <<jobStatus, queueVars, frontier, results, slot, loopVars, boundVars>>

\* enqueue: refused when the queue is at its capacity.
Enqueue(t, d) ==
    /\ UNCHANGED holder
    /\ IF NumWaiting < Capacity
       THEN /\ place' = [place EXCEPT ![t] = "waiting"]
            /\ depth' = [depth EXCEPT ![t] = d]
            /\ enqueues' = [enqueues EXCEPT ![t] = @ + 1]
            /\ UNCHANGED refused
       ELSE refused' = refused \cup {t} /\ UNCHANGED <<place, depth, enqueues>>

EnqueueSeed(j) ==
    /\ submission[j] = "stored"
    /\ submission' = [submission EXCEPT ![j] = IF NumWaiting < Capacity THEN "accepted"
                                                                       ELSE "rejected"]
    /\ Enqueue(SeedTask(j), 0)
    /\ UNCHANGED <<storeVars, frontier, results, slot, loopVars, boundVars>>

\* pause_job, resume_job and cancel_job write the status whatever it was; the
\* job's tasks are not touched.
SetStatus(j, s) ==
    /\ jobStatus[j] # "none"
    /\ jobStatus' = [jobStatus EXCEPT ![j] = s]
    /\ UNCHANGED <<submission, taskStatus, queueVars, frontier, results, slot, loopVars, boundVars>>
Pause(j) == SetStatus(j, "Paused")
Resume(j) == SetStatus(j, "Running")
Cancel(j) == SetStatus(j, "Cancelled")

-----------------------------------------------------------------------------
\* The queue as the handlers and the scheduler loop see it.
Reserve(w) ==
    /\ slot[w].at = "idle"
    /\ \E t \in Tasks :
          /\ Queue!Move(t, "leased")
          /\ holder' = [holder EXCEPT ![t] = w]
          /\ slot' = [slot EXCEPT ![w] = [Idle EXCEPT !.at = "start", !.task = t]]
    /\ UNCHANGED <<submission, storeVars, depth, enqueues, refused, frontier, results,
                   loopVars, boundVars>>

\* The lease of a slow handler runs out and reclaim_stale_leases takes the task.
Expire(t) ==
    /\ expiries[t] < MaxExpiries
    /\ place[t] = "leased"
    /\ Queue!Move(t, "returning")
    /\ holder' = [holder EXCEPT ![t] = NoWorker]
    /\ expiries' = [expiries EXCEPT ![t] = @ + 1]
    /\ UNCHANGED <<submission, storeVars, depth, enqueues, refused, frontier, results,
                   slot, loopVars, tried, failures>>

\* The push_front of a retried or reclaimed task; no capacity check.
Requeue(t) ==
    /\ place[t] = "returning"
    /\ Queue!Move(t, "waiting")
    /\ UNCHANGED <<submission, storeVars, holder, depth, enqueues, refused, frontier,
                   results, slot, loopVars, boundVars>>

\* ack and fail of the handler's lease, without effect when it is gone.  fail
\* always retries: the lease's attempt is 1 and max_attempts is 5.
Release(w, to) ==
    LET t == slot[w].task IN
    IF holder[t] = w
    THEN Queue!Move(t, to) /\ holder' = [holder EXCEPT ![t] = NoWorker]
    ELSE UNCHANGED <<place, holder>>

-----------------------------------------------------------------------------
\* process_lease.  update_task_status fails, ignored, for a task that was never
\* stored: every task but the seeds.
Goto(w, step) == slot' = [slot EXCEPT ![w].at = step]
SetTaskStatus(t, s) ==
    taskStatus' = IF t = SeedTask(JobOf(t)) THEN [taskStatus EXCEPT ![JobOf(t)] = s]
                                            ELSE taskStatus
IsSeedOf(t, kind) == t = SeedTask(JobOf(t)) /\ type[JobOf(t)] = kind

Start(w) ==
    LET t == slot[w].task IN
    /\ slot[w].at = "start"
    /\ SetTaskStatus(t, "Running")
    /\ Goto(w, IF IsSeedOf(t, "Search") THEN "ack" ELSE "fetch")
    /\ UNCHANGED <<submission, jobStatus, queueVars, frontier, results, loopVars, boundVars>>

\* handle_fetch_task up to results.put: the page is stored, and its links are
\* followed below the depth limit.
\* (variants: up to and including the limit; links that do not parse are kept)
FollowedUnparsed(t) == IF depth[t] < MaxDepth THEN Links[UrlOf(t)] \cup {NoUrl} ELSE {}
FollowedDeeper(t) == IF depth[t] <= MaxDepth THEN Links[UrlOf(t)] ELSE {}
Followed(t) == IF depth[t] < MaxDepth THEN Links[UrlOf(t)] ELSE {}

Fetch(w) ==
    LET t == slot[w].task IN
    /\ slot[w].at = "fetch" /\ ~IsSeedOf(t, "Map")
    /\ results' = results \cup {<<JobOf(t), UrlOf(t)>>}
    /\ slot' = [slot EXCEPT ![w].at = "links", ![w].todo = Followed(t)]
    /\ UNCHANGED <<submission, storeVars, queueVars, frontier, loopVars, boundVars>>

\* An error of the handler is a failure of the task.  (variant: it is swallowed)
ErrorSwallowed == "ack"
AfterError == "fail"

FetchFails(w) ==
    LET t == slot[w].task IN
    /\ slot[w].at = "fetch" /\ ~IsSeedOf(t, "Map")
    /\ failures[t] < MaxFailures
    /\ failures' = [failures EXCEPT ![t] = @ + 1]
    /\ Goto(w, AfterError)
    /\ UNCHANGED <<submission, storeVars, queueVars, frontier, results, loopVars, tried, expiries>>

\* handle_sitemap_task; a sitemap that cannot be fetched or parsed lists nothing.
FetchSitemap(w) ==
    LET t == slot[w].task IN
    /\ slot[w].at = "fetch" /\ IsSeedOf(t, "Map")
    /\ \E us \in {{}, SitemapUrls[JobOf(t)]} :
          slot' = [slot EXCEPT ![w].at = "links", ![w].todo = us]
    /\ UNCHANGED <<submission, storeVars, queueVars, frontier, results, loopVars, boundVars>>

\* insert_discovered: the first to insert the URL goes on to enqueue it.
\* (variant: known URLs are not looked up)
KnowsNothing(j, u) == FALSE
Known(j, u) == u \in frontier[j]

Discover(w) ==
    LET j == JobOf(slot[w].task) IN
    /\ slot[w].at = "links" /\ slot[w].found = NoUrl
    /\ \E u \in slot[w].todo :
          /\ slot' = [slot EXCEPT ![w].todo = @ \ {u},
                                  ![w].found = IF Known(j, u) THEN NoUrl ELSE u]
          /\ frontier' = [frontier EXCEPT ![j] = @ \cup {u}]
    /\ UNCHANGED <<submission, storeVars, queueVars, results, loopVars, boundVars>>

\* The enqueue of a discovered link; a refusal is ignored.
EnqueueLink(w) ==
    LET t == slot[w].task IN
    /\ slot[w].at = "links" /\ slot[w].found # NoUrl
    /\ Enqueue(LinkTask(JobOf(t), slot[w].found), depth[t] + 1)
    /\ slot' = [slot EXCEPT ![w].found = NoUrl]
    /\ UNCHANGED <<submission, storeVars, frontier, results, loopVars, boundVars>>

LinksDone(w) ==
    /\ slot[w].at = "links" /\ slot[w].found = NoUrl /\ slot[w].todo = {}
    /\ Goto(w, "ack")
    /\ UNCHANGED <<submission, storeVars, queueVars, frontier, results, loopVars, boundVars>>

\* The four ends of process_lease: ack then Completed, or fail then Failed.
EndLease(w) ==
    /\ \/ slot[w].at = "ack" /\ Release(w, "done") /\ Goto(w, "completed")
       \/ slot[w].at = "fail" /\ Release(w, "returning") /\ Goto(w, "failed")
    /\ UNCHANGED <<submission, storeVars, depth, enqueues, refused, frontier, results,
                   loopVars, boundVars>>

Finish(w) ==
    LET t == slot[w].task IN
    /\ \/ slot[w].at = "completed" /\ SetTaskStatus(t, "Completed")
       \/ slot[w].at = "failed" /\ SetTaskStatus(t, "Failed")
    /\ tried' = IF t = SeedTask(JobOf(t)) THEN tried \cup {JobOf(t)} ELSE tried
    /\ slot' = [slot EXCEPT ![w] = Idle]
    /\ UNCHANGED <<submission, jobStatus, queueVars, frontier, results, loopVars,
                   failures, expiries>>

-----------------------------------------------------------------------------
\* run_scheduler_loop: list the running jobs, then look at the stored tasks of
\* each, and complete the job in a later step, whatever it has become.
ListRunning ==
    /\ toCheck = {} /\ finishing = NoJob
    /\ toCheck' = {j \in Jobs : jobStatus[j] = "Running"}
    /\ UNCHANGED <<submission, storeVars, queueVars, frontier, results, slot, finishing, boundVars>>

\* No stored task is Queued, Leased or Running, and there is one.
\* (variant: a job without stored tasks is finished)
NoneActive(j) == taskStatus[j] \notin {"Queued", "Running"}
AllFinished(j) == taskStatus[j] \in {"Completed", "Failed"}

CheckJob(j) ==
    /\ j \in toCheck /\ finishing = NoJob
    /\ toCheck' = toCheck \ {j}
    /\ finishing' = IF AllFinished(j) THEN j ELSE NoJob
    /\ UNCHANGED <<submission, storeVars, queueVars, frontier, results, slot, boundVars>>

CompleteJob(j) ==
    /\ finishing = j
    /\ jobStatus' = [jobStatus EXCEPT ![j] = "Completed"]
    /\ finishing' = NoJob
    /\ UNCHANGED <<submission, taskStatus, queueVars, frontier, results, slot, toCheck, boundVars>>

-----------------------------------------------------------------------------
Submit(j) == CreateJob(j) \/ StoreSeed(j) \/ EnqueueSeed(j)
Handle(w) ==
    \/ Start(w) \/ Fetch(w) \/ FetchFails(w) \/ FetchSitemap(w)
    \/ Discover(w) \/ EnqueueLink(w) \/ LinksDone(w) \/ EndLease(w) \/ Finish(w)
Loop == ListRunning \/ \E j \in Jobs : CheckJob(j) \/ CompleteJob(j)

Next ==
    /\ \/ \E j \in Jobs : Submit(j) \/ Pause(j) \/ Resume(j) \/ Cancel(j)
       \/ \E w \in Workers : Reserve(w) \/ Handle(w)
       \/ \E t \in Tasks : Expire(t) \/ Requeue(t)
       \/ Loop
    /\ UNCHANGED type

Spec == Init /\ [][Next]_vars

\* submit_job runs to its end, workers keep reserving and process what they
\* have.  Nothing makes a client act, a fetch fail, a lease run out or the
\* scheduler loop run; a fetch that may fail succeeds in the end (MaxFailures).
Fairness ==
    /\ \A j \in Jobs : WF_state(StoreSeed(j) \/ EnqueueSeed(j))
    /\ \A w \in Workers : WF_state(Reserve(w)) /\ WF_state(Handle(w))
    /\ \A t \in Tasks : WF_state(Requeue(t))
FairSpec == Spec /\ Fairness

-----------------------------------------------------------------------------
\* However many handlers find a link at once, and however often an expired
\* lease makes a page be processed again, its task is accepted at most once
\* per job (frontier.rs 53-67, runtime.rs 276-296).
EnqueuedOnce == \A t \in Tasks : enqueues[t] <= 1

\* A job is completed only when its seed was processed to an end: not while
\* submit_job is still storing it, whatever pauses, resumes and expiries do
\* (scheduler.rs 211-227).  And a crawl's seed is marked Completed only once its
\* page is stored, although a stale handler may be rewriting the status
\* (runtime.rs 197-215).
CompletedIsEarned ==
    \A j \in Jobs :
       /\ jobStatus[j] = "Completed" => j \in tried
       /\ type[j] = "Crawl" /\ taskStatus[j] = "Completed" => <<j, Seed[j]>> \in results

\* At-least-once: a URL the frontier knows is fetched in spite of failures and
\* lost leases, unless a full queue refused it (runtime.rs 277-293).
KnownIsFetched ==
    \A j \in Jobs, u \in Urls :
       u \in frontier[j] ~> <<j, u>> \in results \/ LinkTask(j, u) \in refused

\* "All tasks finished for this job -> mark completed" (scheduler.rs:221).
CompletedIsFinished ==
    \A j \in Jobs : jobStatus[j] = "Completed" =>
       \A t \in Tasks : JobOf(t) = j => place[t] \notin {"waiting", "leased", "returning"}
=============================================================================
