----------------------------- MODULE TaskQueue -----------------------------
(***************************************************************************)
(* The in-memory task queue of the distributed crawler,                    *)
(* src/src/distributed/queue/memory.rs (MemoryTaskQueue; RedisTaskQueue    *)
(* delegates every call to it).  Handlers of worker processes, the         *)
(* reclaiming loop of the scheduler and an operator reviving dead letters  *)
(* call it concurrently.                                                   *)
(*                                                                         *)
(* Atomicity.  The code between two points where a call may wait (the lock *)
(* of `queues`, an .await) or look a lease up again is one step: enqueue   *)
(* and reserve hold the lock throughout; retry, fail, reclaim_stale_leases *)
(* and dlq_retry do not, and are several steps each.                       *)
(*                                                                         *)
(* Data.  The deques of all (type, priority) keys are kept in one sequence *)
(* `queue`: the deque of a key is its subsequence of the tasks with that   *)
(* key, so that push_back appends and push_front prepends.  Time is what   *)
(* remains of it: a lease whose ttl is 0 has expired, a task whose         *)
(* availableIn is 0 is available; Tick is the passing of a unit.           *)
(***************************************************************************)
EXTENDS Naturals, Sequences, FiniteSets, Functions

CONSTANTS Tasks,          \* the tasks clients create (a fresh uuid each)
          Workers,        \* handlers: one spawned process_lease each
          LeaseIds,       \* lease ids; a new lease takes one nobody knows
          TypeOf,         \* [Tasks -> TaskTypes]
          PriorityOf,     \* [Tasks -> DOMAIN PriorityRank]
          WorkerTypeOf,   \* [Workers -> worker types]
          MaxAttempts,    \* [Tasks -> positive max_attempts of the task]
          MaxCapacity,    \* max_capacity of the queue
          LeaseDuration,  \* what reserve and heartbeat grant
          Delays,         \* delays a caller of retry may ask for
          FailDelay,      \* the 5 seconds fail asks retry for
          MaxFailures,    \* bound: no revival once failedCount reaches it
          Reclaimer,      \* the loop calling reclaim_stale_leases
          NoTask, NoLease \* "none" values

TaskTypes == {"HttpFetch", "BrowserRender", "DocumentParse", "Extract",
              "SitemapParse", "Search", "IndexChunk", "EmbedChunk", "AgentTask"}

\* The two arrays reserve scans, in their order.
PriorityRank == [Critical |-> 0, High |-> 1, Normal |-> 2, Low |-> 3]
ScanRank == [HttpFetch |-> 0, BrowserRender |-> 1, DocumentParse |-> 2,
             Extract |-> 3, SitemapParse |-> 4, Search |-> 5]

\* WorkerType::can_handle
CanHandle(wt, tt) ==
    \/ wt = "General"
    \/ wt = "Http" /\ tt \in {"HttpFetch", "SitemapParse", "Search"}
    \/ <<wt, tt>> \in {<<"Browser", "BrowserRender">>, <<"Document", "DocumentParse">>,
                       <<"Extraction", "Extract">>, <<"Indexing", "IndexChunk">>,
                       <<"Embedding", "EmbedChunk">>, <<"Agent", "AgentTask">>}

Carriers == Workers \cup {Reclaimer}

ASSUME QueueAssumption ==
    /\ TypeOf \in [Tasks -> TaskTypes]
    /\ PriorityOf \in [Tasks -> DOMAIN PriorityRank]
    /\ MaxAttempts \in [Tasks -> Nat \ {0}]
    /\ MaxCapacity \in Nat /\ LeaseDuration \in Nat
    /\ Delays \subseteq Nat /\ FailDelay \in Nat /\ MaxFailures \in Nat
    /\ Reclaimer \notin Workers
    /\ NoTask \notin Tasks
    /\ NoLease \notin LeaseIds

VARIABLES
    queue,          \* the waiting tasks of every key, see above
    availableIn,    \* [Tasks -> Nat] time until the task's available_at
    activeLeases,   \* lease id -> [task, attempt, ttl], a partial function
    dlq,            \* tasks with a dead-letter record
    completedCount, failedCount,
    \* calls in progress
    handling,       \* the lease a worker's handler holds, or NoLease
    failing,        \* what a fail() that looked its lease up has decided
    hand,           \* the task a carrier removed and has still to push back
    expired,        \* the keys the reclaimer collected and has not visited
    reviving,       \* tasks a dlq_retry has removed from dlq
    \* outside the queue
    fresh,          \* tasks no enqueue has accepted yet
    done,           \* acknowledged tasks
    lost            \* tasks a dlq_retry removed and could not enqueue

calls == <<handling, failing, hand, expired, reviving>>
vars == <<queue, availableIn, activeLeases, dlq, completedCount, failedCount,
          handling, failing, hand, expired, reviving, fresh, done, lost>>

Lease == [task : Tasks, attempt : Nat, ttl : Nat]

\* The type invariant.
TypeOK ==
    /\ queue \in Seq(Tasks)
    /\ availableIn \in [Tasks -> Nat]
    /\ DOMAIN activeLeases \subseteq LeaseIds
    /\ activeLeases \in [DOMAIN activeLeases -> Lease]
    /\ dlq \subseteq Tasks
    /\ completedCount \in Nat /\ failedCount \in Nat
    /\ handling \in [Workers -> LeaseIds \cup {NoLease}]
    /\ failing \in [Workers -> {"no", "retry", "bury"}]
    /\ hand \in [Carriers -> Tasks \cup {NoTask}]
    /\ expired \subseteq LeaseIds
    /\ reviving \subseteq Tasks
    /\ fresh \subseteq Tasks /\ done \subseteq Tasks /\ lost \subseteq Tasks

Init ==
    /\ queue = <<>>
    /\ availableIn = [t \in Tasks |-> 0]
    /\ activeLeases = [l \in {} |-> [task |-> NoTask, attempt |-> 0, ttl |-> 0]]
    /\ dlq = {}
    /\ completedCount = 0 /\ failedCount = 0
    /\ handling = [w \in Workers |-> NoLease]
    /\ failing = [w \in Workers |-> "no"]
    /\ hand = [c \in Carriers |-> NoTask]
    /\ expired = {} /\ reviving = {}
    /\ fresh = Tasks /\ done = {} /\ lost = {}

-----------------------------------------------------------------------------
\* Leases

Active(l) == l \in DOMAIN activeLeases
Leased == {activeLeases[l].task : l \in DOMAIN activeLeases}

\* (variant: the lease is read, not removed)
KeptLease(l) == activeLeases
WithoutLease(l) == [k \in DOMAIN activeLeases \ {l} |-> activeLeases[k]]
KnownLeases == DOMAIN activeLeases \cup Range(handling) \cup expired

\* (variant: a lease that just ran out still counts as running)
NeverExpired(l) == activeLeases[l].ttl < 0
Expired(l) == activeLeases[l].ttl = 0

\* (variant: the carrier does not look whether its removal found a task)
AnyHand(c) == TRUE
HasTask(c) == hand[c] # NoTask

Idle(w) == handling[w] = NoLease /\ ~HasTask(w)

-----------------------------------------------------------------------------
\* enqueue: the lock, the capacity check over all deques, push_back.  A full
\* queue changes nothing: the caller keeps the task.
Enqueue(t) ==
    /\ t \in fresh
    /\ Len(queue) < MaxCapacity
    /\ queue' = Append(queue, t)
    /\ fresh' = fresh \ {t}
    /\ UNCHANGED <<availableIn, activeLeases, dlq, completedCount, failedCount,
                   calls, done, lost>>

\* The position reserve stops at: by priority, then by type, then the first
\* available task of that deque.
Candidates(w) ==
    {i \in DOMAIN queue : /\ TypeOf[queue[i]] \in DOMAIN ScanRank
                          /\ CanHandle(WorkerTypeOf[w], TypeOf[queue[i]])
                          /\ availableIn[queue[i]] = 0}
KeyRank(t) == 6 * PriorityRank[PriorityOf[t]] + ScanRank[TypeOf[t]]
\* (variant: the deque is scanned from its back)
PrecedesFromBack(i, j) ==
    \/ KeyRank(queue[i]) < KeyRank(queue[j])
    \/ KeyRank(queue[i]) = KeyRank(queue[j]) /\ i >= j
Precedes(i, j) ==
    \/ KeyRank(queue[i]) < KeyRank(queue[j])
    \/ KeyRank(queue[i]) = KeyRank(queue[j]) /\ i <= j
IsNext(w, i) == i \in Candidates(w) /\ \A j \in Candidates(w) : Precedes(i, j)

\* The number of the attempt a new lease starts: reserve writes the literal 1.
FirstAttempt == 1

\* (variant: everything up to the position is drained)
DrainTo(s, i) == SubSeq(s, i + 1, Len(s))
Without(s, i) == SubSeq(s, 1, i - 1) \o SubSeq(s, i + 1, Len(s))

Reserve(w) ==
    /\ Idle(w)
    /\ \E i \in DOMAIN queue, l \in LeaseIds \ KnownLeases :
          /\ IsNext(w, i)
          /\ queue' = Without(queue, i)
          /\ activeLeases' =
                [k \in DOMAIN activeLeases \cup {l} |->
                   IF k = l THEN [task |-> queue[i], attempt |-> FirstAttempt,
                                  ttl |-> LeaseDuration]
                   ELSE activeLeases[k]]
          /\ handling' = [handling EXCEPT ![w] = l]
    /\ UNCHANGED <<availableIn, dlq, completedCount, failedCount, failing, hand,
                   expired, reviving, fresh, done, lost>>

\* heartbeat of a lease that is still active (Ok(true)); Ok(false) changes nothing.
Heartbeat(w) ==
    /\ failing[w] = "no" /\ Active(handling[w])
    /\ activeLeases' = [activeLeases EXCEPT ![handling[w]].ttl = LeaseDuration]
    /\ UNCHANGED <<queue, availableIn, dlq, completedCount, failedCount, calls,
                   fresh, done, lost>>

\* ack: counts a completion when the lease was still there, and is Ok(())
\* in both cases.
Ack(w) ==
    LET l == handling[w] IN
    /\ l # NoLease /\ failing[w] = "no"
    /\ handling' = [handling EXCEPT ![w] = NoLease]
    /\ IF Active(l)
       THEN /\ activeLeases' = WithoutLease(l)
            /\ completedCount' = completedCount + 1
            /\ done' = done \cup {activeLeases[l].task}
       ELSE UNCHANGED <<activeLeases, completedCount, done>>
    /\ UNCHANGED <<queue, availableIn, dlq, failedCount, failing, hand, expired,
                   reviving, fresh, lost>>

\* The dead-letter half of retry and of fail.
Bury(w, t) ==
    /\ dlq' = dlq \cup {t}
    /\ failedCount' = failedCount + 1
    /\ UNCHANGED <<availableIn, hand>>

\* retry, called by a handler or by its fail: removes the lease, then buries
\* the task or goes for the lock of the queues with the task in hand.
Retry(w, delay) ==
    LET l == handling[w]
        t == activeLeases[l].task
    IN
    /\ l # NoLease
    /\ \/ failing[w] = "no" /\ delay \in Delays
       \/ failing[w] = "retry" /\ delay = FailDelay
    /\ handling' = [handling EXCEPT ![w] = NoLease]
    /\ failing' = [failing EXCEPT ![w] = "no"]
    /\ IF Active(l)
       THEN /\ activeLeases' = WithoutLease(l)
            /\ IF activeLeases[l].attempt + 1 > MaxAttempts[t]
               THEN Bury(w, t)
               ELSE /\ availableIn' = [availableIn EXCEPT
                                         ![t] = IF delay > 1 THEN delay ELSE 1]
                    /\ hand' = [hand EXCEPT ![w] = t]
                    /\ UNCHANGED <<dlq, failedCount>>
       ELSE UNCHANGED <<activeLeases, availableIn, hand, dlq, failedCount>>
    /\ UNCHANGED <<queue, completedCount, expired, reviving, fresh, done, lost>>

\* fail, first step: look the lease up and decide; LeaseExpired if it is gone.
FailLookup(w, retryable) ==
    LET l == handling[w] IN
    /\ l # NoLease /\ failing[w] = "no"
    /\ IF Active(l)
       THEN /\ failing' = [failing EXCEPT ![w] =
                  IF /\ retryable
                     /\ activeLeases[l].attempt < MaxAttempts[activeLeases[l].task]
                  THEN "retry" ELSE "bury"]
            /\ UNCHANGED handling
       ELSE /\ handling' = [handling EXCEPT ![w] = NoLease]
            /\ UNCHANGED failing
    /\ UNCHANGED <<queue, availableIn, activeLeases, dlq, completedCount,
                   failedCount, hand, expired, reviving, fresh, done, lost>>

\* fail, second step when it does not retry: remove the lease and bury the task.
FailBury(w) ==
    LET l == handling[w] IN
    /\ failing[w] = "bury"
    /\ handling' = [handling EXCEPT ![w] = NoLease]
    /\ failing' = [failing EXCEPT ![w] = "no"]
    /\ IF Active(l)
       THEN activeLeases' = WithoutLease(l) /\ Bury(w, activeLeases[l].task)
       ELSE UNCHANGED <<activeLeases, availableIn, hand, dlq, failedCount>>
    /\ UNCHANGED <<queue, completedCount, expired, reviving, fresh, done, lost>>

\* The end of retry and of one round of reclaim_stale_leases: the lock is
\* obtained and the task pushed to the front, whatever the capacity.
Requeue(c) ==
    /\ HasTask(c)
    /\ queue' = <<hand[c]>> \o queue
    /\ hand' = [hand EXCEPT ![c] = NoTask]
    /\ UNCHANGED <<availableIn, activeLeases, dlq, completedCount, failedCount,
                   handling, failing, expired, reviving, fresh, done, lost>>

\* The handler panics: its lease stays in the table until it is reclaimed.
Abandon(w) ==
    /\ handling[w] # NoLease /\ failing[w] = "no"
    /\ handling' = [handling EXCEPT ![w] = NoLease]
    /\ UNCHANGED <<queue, availableIn, activeLeases, dlq, completedCount,
                   failedCount, failing, hand, expired, reviving, fresh, done, lost>>

\* reclaim_stale_leases: collect the expired keys, then remove and requeue
\* them one by one; a lease is not looked at again before it is removed.
ReclaimScan ==
    /\ expired = {} /\ ~HasTask(Reclaimer)
    /\ expired' = {l \in DOMAIN activeLeases : Expired(l)}
    /\ UNCHANGED <<queue, availableIn, activeLeases, dlq, completedCount,
                   failedCount, handling, failing, hand, reviving, fresh, done, lost>>

ReclaimTake(l) ==
    /\ l \in expired /\ ~HasTask(Reclaimer)
    /\ expired' = expired \ {l}
    /\ IF Active(l)
       THEN /\ activeLeases' = WithoutLease(l)
            /\ hand' = [hand EXCEPT ![Reclaimer] = activeLeases[l].task]
       ELSE UNCHANGED <<activeLeases, hand>>
    /\ UNCHANGED <<queue, availableIn, dlq, completedCount, failedCount, handling,
                   failing, reviving, fresh, done, lost>>

\* dlq_retry: remove the record, then enqueue; a full queue loses the task.
DlqRemove(t) ==
    /\ t \in dlq
    /\ failedCount < MaxFailures
    /\ dlq' = dlq \ {t}
    /\ reviving' = reviving \cup {t}
    /\ UNCHANGED <<queue, availableIn, activeLeases, completedCount, failedCount,
                   handling, failing, hand, expired, fresh, done, lost>>

DlqEnqueue(t) ==
    /\ t \in reviving
    /\ reviving' = reviving \ {t}
    /\ IF Len(queue) < MaxCapacity
       THEN /\ queue' = Append(queue, t)
            /\ availableIn' = [availableIn EXCEPT ![t] = 0]
            /\ UNCHANGED lost
       ELSE lost' = lost \cup {t} /\ UNCHANGED <<queue, availableIn>>
    /\ UNCHANGED <<activeLeases, dlq, completedCount, failedCount, handling,
                   failing, hand, expired, fresh, done>>

\* A unit of time passes.
Tick ==
    /\ \/ \E t \in Tasks : availableIn[t] > 0
       \/ \E l \in DOMAIN activeLeases : activeLeases[l].ttl > 0
    /\ availableIn' = [t \in Tasks |-> IF availableIn[t] > 0 THEN availableIn[t] - 1 ELSE 0]
    /\ activeLeases' =
          [l \in DOMAIN activeLeases |->
             [activeLeases[l] EXCEPT !.ttl = IF @ > 0 THEN @ - 1 ELSE 0]]
    /\ UNCHANGED <<queue, dlq, completedCount, failedCount, calls, fresh, done, lost>>

-----------------------------------------------------------------------------
Handler(w) ==
    \/ Reserve(w) \/ Heartbeat(w) \/ Ack(w) \/ FailBury(w) \/ Abandon(w)
    \/ \E delay \in Delays \cup {FailDelay} : Retry(w, delay)
    \/ \E retryable \in BOOLEAN : FailLookup(w, retryable)

Next ==
    \/ \E t \in Tasks : Enqueue(t) \/ DlqRemove(t) \/ DlqEnqueue(t)
    \/ \E w \in Workers : Handler(w)
    \/ \E c \in Carriers : Requeue(c)
    \/ ReclaimScan
    \/ \E l \in LeaseIds : ReclaimTake(l)
    \/ Tick

Spec == Init /\ [][Next]_vars

\* Time passes.  Nothing is assumed of handlers, of clients, or of a loop that
\* reclaims leases: no code of the repository starts one.
Fairness == WF_vars(Tick)

FairSpec == Spec /\ Fairness

\* What run_scheduler_loop would do if some caller ran it (scheduler.rs
\* 196-204): scan again and again, and bring every scan to its end.
LoopRuns ==
    /\ WF_vars(ReclaimScan)
    /\ \A l \in LeaseIds : WF_vars(ReclaimTake(l))
    /\ WF_vars(Requeue(Reclaimer))

-----------------------------------------------------------------------------
Held == {hand[c] : c \in {d \in Carriers : hand[d] # NoTask}}

\* No task is in two places: no task waits twice, leases name distinct tasks,
\* carriers carry distinct tasks, a handler that carries one has given up its
\* lease, and the places exclude each other.  The removals of ack, retry, fail
\* and reclaim race for the same lease; only the one that finds it may go on
\* with its task (memory.rs 142-255).
LeasesDistinct ==
    \A k, l \in DOMAIN activeLeases :
       activeLeases[k].task = activeLeases[l].task => k = l
HandsDistinct ==
    \A c, d \in Carriers : hand[c] = hand[d] /\ hand[c] # NoTask => c = d
HandsFree == \A w \in Workers : hand[w] # NoTask => handling[w] = NoLease
PlacesDisjoint ==
    /\ fresh \cap (Range(queue) \cup Leased \cup Held \cup dlq \cup reviving \cup done \cup lost) = {}
    /\ Range(queue) \cap (Leased \cup Held \cup dlq \cup reviving \cup done \cup lost) = {}
    /\ Leased \cap (Held \cup dlq \cup reviving \cup done \cup lost) = {}
    /\ Held \cap (dlq \cup reviving \cup done \cup lost) = {}
    /\ dlq \cap (reviving \cup done \cup lost) = {}
    /\ reviving \cap (done \cup lost) = {}
    /\ done \cap lost = {}
OnePlace ==
    IsInjective(queue) /\ LeasesDistinct /\ HandsDistinct /\ HandsFree /\ PlacesDisjoint

\* Provided some caller runs the reclaiming loop, a task whose handler is gone
\* is not gone with it: the lease runs out and the loop puts the task back,
\* whatever handlers and operators do meanwhile (memory.rs 232-255).
AbandonedTaskReturns ==
    LoopRuns =>
       \A t \in Tasks :
          (\E l \in DOMAIN activeLeases : /\ activeLeases[l].task = t
                                          /\ l \notin Range(handling))
            ~> t \in Range(queue)

-----------------------------------------------------------------------------
\* What a client may rely on: the life of a task, TaskLedger.tla.
place == [t \in Tasks |->
            CASE t \in fresh        -> "new"
              [] t \in Range(queue) -> "waiting"
              [] t \in Leased       -> "leased"
              [] t \in Held         -> "returning"
              [] t \in dlq          -> "dead"
              [] t \in reviving     -> "reviving"
              [] t \in done         -> "done"
              [] OTHER              -> "lost"]

Ledger == INSTANCE TaskLedger WITH Tasks <- Tasks, place <- place

\* Every step of the queue moves at most one task along the ledger's edges;
\* the map's and the deques' own races never show.
ImplementsLedger == Ledger!Spec
=============================================================================
