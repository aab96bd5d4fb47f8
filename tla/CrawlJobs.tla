----------------------------- MODULE CrawlJobs -----------------------------
(***************************************************************************)
(* Background crawl jobs: CrawlJob (src/src/crawl/job.rs), the JobStore    *)
(* that keeps them (job_store.rs) and the handlers of POST, GET and DELETE *)
(* /v1/crawl (api/crawl_routes.rs).                                        *)
(*                                                                         *)
(* Requests run on several threads.  create_and_spawn_job takes no lock:   *)
(* its clean-up, capacity check, eviction and insertion are steps.  A job  *)
(* keeps its status, its completion time and its result under three locks; *)
(* the task of the job holds on to each until it has written all of them,  *)
(* a request looks at them one after the other.                            *)
(*                                                                         *)
(* The crawl itself is CrawlEngine.tla: here it ends, by itself or because *)
(* of the cancel token, or fails before it starts.                         *)
(***************************************************************************)
EXTENDS Naturals, Sequences, SequencesExt

CONSTANTS Jobs,       \* job ids, a fresh one for each crawl
          Creators,   \* concurrent POST requests
          Clients,    \* clients that poll: one GET request at a time each
          MaxStored,  \* max_stored_jobs
          NoJob

ASSUME JobsAssumption == MaxStored \in Nat /\ NoJob \notin Jobs

VARIABLES
    started,    \* the jobs ever created, oldest first
    store,      \* the jobs in the map
    creator,    \* [Creators -> what the POST request is doing]
    task,       \* [Jobs -> where the spawned task is]
    cancelled,  \* jobs whose token is cancelled
    outcome,    \* [Jobs -> what execute_crawl returned]
    status, completedAt, result,  \* the three locked fields
    client,     \* [Clients -> what the GET request has read]
    seen        \* [Clients -> [Jobs -> status of the last snapshot]], outside the program

jobVars == <<task, cancelled, outcome, status, completedAt, result>>
vars == <<started, store, creator, jobVars, client, seen>>

Over == {"Completed", "Cancelled", "Failed"}
Statuses == {"Queued", "Running"} \cup Over
Idle == [at |-> "idle", victim |-> NoJob]
NoRequest == [at |-> "idle", job |-> NoJob, status |-> "Queued", completed |-> FALSE]

TypeOK ==
    /\ started \in Seq(Jobs) /\ store \subseteq Jobs /\ cancelled \subseteq Jobs
    /\ creator \in [Creators -> [at : {"idle", "check", "evict", "remove", "insert"},
                                 victim : Jobs \cup {NoJob}]]
    /\ task \in [Jobs -> {"none", "spawned", "crawling", "ended", "stamp", "store", "over"}]
    /\ outcome \in [Jobs -> Over \cup {"none"}]
    /\ status \in [Jobs -> Statuses] /\ completedAt \in [Jobs -> BOOLEAN]
    /\ result \in [Jobs -> Over \cup {"none"}]
    /\ client \in [Clients -> [at : {"idle", "status", "completed", "result"},
                               job : Jobs \cup {NoJob}, status : Statuses, completed : BOOLEAN]]
    /\ seen \in [Clients -> [Jobs -> Statuses]]

Init ==
    /\ started = <<>> /\ store = {} /\ cancelled = {}
    /\ creator = [c \in Creators |-> Idle]
    /\ task = [j \in Jobs |-> "none"] /\ outcome = [j \in Jobs |-> "none"]
    /\ status = [j \in Jobs |-> "Queued"] /\ completedAt = [j \in Jobs |-> FALSE]
    /\ result = [j \in Jobs |-> "none"]
    /\ client = [p \in Clients |-> NoRequest]
    /\ seen = [p \in Clients |-> [j \in Jobs |-> "Queued"]]

-----------------------------------------------------------------------------
\* create_and_spawn_job.  cleanup_expired removes every job started longer ago
\* than the retention time, whatever it is doing: the oldest ones, any number.
CleanUp(c) ==
    /\ creator[c].at = "idle" /\ \E j \in Jobs : task[j] = "none"
    /\ \E n \in 0 .. Len(started) :
          store' = store \ ToSet(SubSeq(started, 1, n))
    /\ creator' = [creator EXCEPT ![c].at = "check"]
    /\ UNCHANGED <<started, jobVars, client, seen>>

Full == Cardinality(store) >= MaxStored

CheckCapacity(c) ==
    /\ creator[c].at = "check"
    /\ creator' = [creator EXCEPT ![c].at = IF Full THEN "evict" ELSE "insert"]
    /\ UNCHANGED <<started, store, jobVars, client, seen>>

\* evict_oldest_completed: find the oldest job; without one the store is full.
Oldest == {j \in store : \E n \in DOMAIN started :
             started[n] = j /\ \A m \in 1 .. n - 1 : started[m] \notin store}

FindVictim(c) ==
    /\ creator[c].at = "evict"
    /\ \/ \E j \in Oldest : creator' = [creator EXCEPT ![c] = [at |-> "remove", victim |-> j]]
       \/ store = {} /\ creator' = [creator EXCEPT ![c] = Idle]
    /\ UNCHANGED <<started, store, jobVars, client, seen>>

Evict(c) ==
    /\ creator[c].at = "remove"
    /\ store' = store \ {creator[c].victim}
    /\ creator' = [creator EXCEPT ![c] = [at |-> "insert", victim |-> NoJob]]
    /\ UNCHANGED <<started, jobVars, client, seen>>

Insert(c) ==
    /\ creator[c].at = "insert"
    /\ \E j \in Jobs :
          /\ task[j] = "none"
          /\ started' = Append(started, j) /\ store' = store \cup {j}
          /\ task' = [task EXCEPT ![j] = "spawned"]
    /\ creator' = [creator EXCEPT ![c] = Idle]
    /\ UNCHANGED <<cancelled, outcome, status, completedAt, result, client, seen>>

\* DELETE /v1/crawl/{id}; a job that is not stored is not found.
\* (variant: the request writes the status as well)
CancelMarked(j) ==
    /\ j \in store
    /\ cancelled' = cancelled \cup {j} /\ status' = [status EXCEPT ![j] = "Cancelled"]
    /\ UNCHANGED <<started, store, creator, task, outcome, completedAt, result, client, seen>>
CancelJob(j) ==
    /\ j \in store
    /\ cancelled' = cancelled \cup {j}
    /\ UNCHANGED <<started, store, creator, task, outcome, status, completedAt, result,
                   client, seen>>

DeleteJob(j) ==
    /\ j \in store
    /\ cancelled' = cancelled \cup {j} /\ store' = store \ {j}
    /\ UNCHANGED <<started, creator, task, outcome, status, completedAt, result, client, seen>>

-----------------------------------------------------------------------------
\* spawn_execution: the task of a job.
Run(j) ==
    /\ task[j] = "spawned"
    /\ status' = [status EXCEPT ![j] = "Running"]
    /\ task' = [task EXCEPT ![j] = "crawling"]
    /\ UNCHANGED <<started, store, creator, cancelled, outcome, completedAt, result, client, seen>>

\* (variant: an error of execute_crawl is not looked at)
ErrorIgnored(o) == IF o = "Failed" THEN "over" ELSE "ended"
AfterCrawl(o) == "ended"

\* execute_crawl returns: with what its last look at the token says, or with an
\* error about the seed.
EndCrawl(j) ==
    /\ task[j] = "crawling"
    /\ \E o \in {IF j \in cancelled THEN "Cancelled" ELSE "Completed", "Failed"} :
          /\ outcome' = [outcome EXCEPT ![j] = o]
          /\ task' = [task EXCEPT ![j] = AfterCrawl(o)]
    /\ UNCHANGED <<started, store, creator, cancelled, status, completedAt, result, client, seen>>

\* The three fields are written in turn, and all locks are let go at the end.
WriteStatus(j) ==
    /\ task[j] = "ended"
    /\ status' = [status EXCEPT ![j] = outcome[j]]
    /\ task' = [task EXCEPT ![j] = "stamp"]
    /\ UNCHANGED <<started, store, creator, cancelled, outcome, completedAt, result, client, seen>>

WriteCompletedAt(j) ==
    /\ task[j] = "stamp"
    /\ completedAt' = [completedAt EXCEPT ![j] = TRUE]
    /\ task' = [task EXCEPT ![j] = IF outcome[j] = "Failed" THEN "over" ELSE "store"]
    /\ UNCHANGED <<started, store, creator, cancelled, outcome, status, result, client, seen>>

WriteResult(j) ==
    /\ task[j] = "store"
    /\ result' = [result EXCEPT ![j] = outcome[j]]
    /\ task' = [task EXCEPT ![j] = "over"]
    /\ UNCHANGED <<started, store, creator, cancelled, outcome, status, completedAt, client, seen>>

\* (variant: each lock is let go as soon as its field is written)
StatusNeverHeld(j) == FALSE
StatusHeld(j) == task[j] \in {"stamp", "store"}
CompletedAtHeld(j) == task[j] = "store"

-----------------------------------------------------------------------------
\* GET /v1/crawl/{id}: to_result_snapshot of a stored job.
GetJob(p) ==
    /\ client[p].at = "idle"
    /\ \E j \in store :
          client' = [client EXCEPT ![p] = [NoRequest EXCEPT !.at = "status", !.job = j]]
    /\ UNCHANGED <<started, store, creator, jobVars, seen>>

ReadStatus(p) ==
    LET j == client[p].job IN
    /\ client[p].at = "status" /\ ~StatusHeld(j)
    /\ client' = [client EXCEPT ![p].at = "completed", ![p].status = status[j]]
    /\ UNCHANGED <<started, store, creator, jobVars, seen>>

ReadCompletedAt(p) ==
    LET j == client[p].job IN
    /\ client[p].at = "completed" /\ ~CompletedAtHeld(j)
    /\ client' = [client EXCEPT ![p].at = "result", ![p].completed = completedAt[j]]
    /\ UNCHANGED <<started, store, creator, jobVars, seen>>

\* The result when there is one, else what was read of the job in progress.
\* (variant: the result is taken whether there is one or not)
ResultTaken(p) == result[client[p].job]
Snapshot(p) ==
    IF result[client[p].job] # "none" THEN result[client[p].job] ELSE client[p].status

ReadResult(p) ==
    LET j == client[p].job IN
    /\ client[p].at = "result"
    /\ seen' = [seen EXCEPT ![p][j] = Snapshot(p)]
    /\ client' = [client EXCEPT ![p] = NoRequest]
    /\ UNCHANGED <<started, store, creator, jobVars>>

-----------------------------------------------------------------------------
Create(c) == CleanUp(c) \/ CheckCapacity(c) \/ FindVictim(c) \/ Evict(c) \/ Insert(c)
Task(j) ==
    Run(j) \/ EndCrawl(j) \/ WriteStatus(j) \/ WriteCompletedAt(j) \/ WriteResult(j)
Poll(p) == GetJob(p) \/ ReadStatus(p) \/ ReadCompletedAt(p) \/ ReadResult(p)

Next ==
    \/ \E c \in Creators : Create(c)
    \/ \E j \in Jobs : CancelJob(j) \/ DeleteJob(j) \/ Task(j)
    \/ \E p \in Clients : Poll(p)

Spec == Init /\ [][Next]_vars

\* Spawned tasks run and a crawl ends (CrawlEngine!Concludes); a request that
\* has begun goes on.  Clients are not made to begin one.
Fairness ==
    /\ \A j \in Jobs : WF_vars(Task(j))
    /\ \A p \in Clients : WF_vars(ReadStatus(p) \/ ReadCompletedAt(p) \/ ReadResult(p))
    /\ \A c \in Creators : WF_vars(CheckCapacity(c) \/ FindVictim(c) \/ Evict(c) \/ Insert(c))
FairSpec == Spec /\ Fairness

-----------------------------------------------------------------------------
Rank(s) == IF s = "Queued" THEN 0 ELSE IF s = "Running" THEN 1 ELSE 2

\* A snapshot that says Completed or Cancelled carries the result and its
\* pages, and one that says Failed its completion time, although status, time
\* and result are read under different locks (job.rs 59-77, 84-93).
SnapshotWhole ==
    \A p \in Clients : client[p].at = "result" =>
       /\ client[p].status \in {"Completed", "Cancelled"} => result[client[p].job] = client[p].status
       /\ client[p].status = "Failed" => client[p].completed

\* What a polling client sees of a job only advances, and never changes once
\* it is an end (job.rs 84-103).
SeenAdvances ==
    [][\A p \in Clients, j \in Jobs :
         seen'[p][j] # seen[p][j] => Rank(seen'[p][j]) > Rank(seen[p][j])]_vars

\* Every job that was accepted comes to an end, also one that was evicted,
\* deleted or cancelled meanwhile; and it is not waiting on its pollers
\* (job.rs 43-81).
AcceptedEnds == \A j \in Jobs : task[j] = "spawned" ~> task[j] = "over" /\ status[j] \in Over
=============================================================================
