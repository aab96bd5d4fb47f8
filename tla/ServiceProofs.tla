--------------------------- MODULE ServiceProofs ---------------------------
(***************************************************************************)
(* Proofs about the services that requests call.  CrawlJobs: its type      *)
(* invariant, that the snapshot of a job is whole although its three       *)
(* fields are read under different locks, and that what a client sees of a *)
(* job only advances, for all sets of jobs and requests and every size of  *)
(* the store.  SiteMap: that maps and searches are sound and maps complete *)
(* and that the cache keeps its bound, for all sites, requests, calls and  *)
(* limits.                                                                 *)
(***************************************************************************)
EXTENDS CrawlJobs, SiteMap, FiniteSetTheorems, SequenceTheorems, WellFoundedInduction, TLAPS

\* What the task of a job has written, step by step.
EndedWith(j) == task[j] \in {"ended", "stamp", "store", "over"} => outcome[j] \in Over
StatusWritten(j) ==
    /\ task[j] \in {"stamp", "store", "over"} => status[j] = outcome[j]
    /\ status[j] \in Over => task[j] \in {"stamp", "store", "over"}
TimeWritten(j) == task[j] \in {"store", "over"} => completedAt[j]
ResultWritten(j) ==
    /\ task[j] = "over" /\ outcome[j] # "Failed" => result[j] = outcome[j]
    /\ task[j] = "store" => outcome[j] # "Failed"
TaskInv == \A j \in Jobs : EndedWith(j) /\ StatusWritten(j) /\ TimeWritten(j) /\ ResultWritten(j)

\* A request that has read a final status has read it of a job that is over:
\* it could not have taken the lock before.
ReadsOver(p) ==
    LET j == client[p].job IN
    client[p].at \in {"completed", "result"} /\ client[p].status \in Over =>
       task[j] = "over" /\ outcome[j] = client[p].status
ReadsTime(p) ==
    client[p].at = "result" /\ client[p].status = "Failed" => client[p].completed
HasJob(p) == client[p].at # "idle" => client[p].job \in Jobs
ClientInv == \A p \in Clients : HasJob(p) /\ ReadsOver(p) /\ ReadsTime(p)

JobsInv == TypeOK /\ TaskInv /\ ClientInv

ClientRecord == [at : {"idle", "status", "completed", "result"},
                 job : Jobs \cup {NoJob}, status : Statuses, completed : BOOLEAN]

-----------------------------------------------------------------------------
\* The type invariant and the others hold when the program starts.
LEMMA InitInv == Init => JobsInv
<1> SUFFICES ASSUME Init PROVE JobsInv
  OBVIOUS
<1>1. TypeOK
  BY DEF Init, TypeOK, Idle, NoRequest, Statuses, Over
<1>2. TaskInv
  BY DEF Init, TaskInv, EndedWith, StatusWritten, TimeWritten, ResultWritten, Over
<1>3. ClientInv
  BY DEF Init, ClientInv, HasJob, ReadsOver, ReadsTime, NoRequest
<1> QED BY <1>1, <1>2, <1>3 DEF JobsInv

\* A POST request changes neither a job that runs nor what a client has read;
\* its insertion spawns the task of a job that had none.
LEMMA CreateStep ==
  ASSUME JobsInv, NEW c \in Creators, Create(c)
  PROVE  JobsInv'
<1> USE DEF JobsInv
<1>1. CASE Insert(c)
  <2>1. TypeOK'
    BY <1>1, AppendProperties DEF Insert, TypeOK, Idle
  <2>2. TaskInv'
    BY <1>1 DEF Insert, TypeOK, TaskInv, EndedWith, StatusWritten, TimeWritten, ResultWritten
  <2>3. ClientInv'
    BY <1>1 DEF Insert, TypeOK, ClientInv, HasJob, ReadsOver, ReadsTime
  <2> QED BY <2>1, <2>2, <2>3
<1>2. CASE CleanUp(c) \/ CheckCapacity(c) \/ FindVictim(c) \/ Evict(c)
  <2>1. UNCHANGED <<started, jobVars, client, seen>>
    BY <1>2 DEF CleanUp, CheckCapacity, FindVictim, Evict
  <2>2. store' \subseteq Jobs
    BY <1>2 DEF CleanUp, CheckCapacity, FindVictim, Evict, TypeOK
  <2>3. creator' \in [Creators -> [at : {"idle", "check", "evict", "remove", "insert"},
                                   victim : Jobs \cup {NoJob}]]
    <3> DEFINE Record == [at : {"idle", "check", "evict", "remove", "insert"},
                          victim : Jobs \cup {NoJob}]
    <3>1. creator \in [Creators -> Record] /\ creator[c] \in Record
      BY DEF TypeOK
    <3>2. ASSUME NEW step \in {"idle", "check", "evict", "remove", "insert"}
          PROVE  [creator EXCEPT ![c].at = step] \in [Creators -> Record]
      <4>1. [creator[c] EXCEPT !.at = step] \in Record
        BY <3>1
      <4> QED BY <3>1, <4>1
    <3>3. ASSUME NEW r \in Record PROVE [creator EXCEPT ![c] = r] \in [Creators -> Record]
      BY <3>1
    <3>4. Oldest \subseteq Jobs /\ Idle \in Record
      BY DEF Oldest, TypeOK, Idle
    <3>5. CASE CleanUp(c)
      BY <3>2, <3>5 DEF CleanUp
    <3>6. CASE CheckCapacity(c)
      BY <3>2, <3>6 DEF CheckCapacity
    <3>7. CASE FindVictim(c)
      BY <3>3, <3>4, <3>7 DEF FindVictim
    <3>8. CASE Evict(c)
      BY <3>3, <3>8 DEF Evict
    <3> QED BY <1>2, <3>5, <3>6, <3>7, <3>8
  <2>4. TypeOK'
    BY <2>1, <2>2, <2>3 DEF TypeOK, jobVars
  <2> QED
    BY <2>1, <2>4 DEF jobVars, TaskInv, EndedWith, StatusWritten, TimeWritten, ResultWritten,
       ClientInv, HasJob, ReadsOver, ReadsTime
<1> QED BY <1>1, <1>2 DEF Create

\* DELETE requests change the token and the store only.
LEMMA CancelStep ==
  ASSUME JobsInv, NEW j \in Jobs, CancelJob(j) \/ DeleteJob(j)
  PROVE  JobsInv'
BY DEF CancelJob, DeleteJob, JobsInv, TypeOK, TaskInv, EndedWith, StatusWritten, TimeWritten,
   ResultWritten, ClientInv, HasJob, ReadsOver, ReadsTime

\* A step of the task of a job: a client that has read an end has read it of a
\* job whose task takes no further step.
LEMMA TaskStep ==
  ASSUME JobsInv, NEW j \in Jobs, Task(j)
  PROVE  JobsInv'
<1> USE DEF JobsInv
<1>1. TypeOK'
  <2>1. CASE Run(j)
    BY <2>1 DEF Run, TypeOK, Statuses
  <2>2. CASE EndCrawl(j)
    BY <2>2 DEF EndCrawl, AfterCrawl, TypeOK, Over
  <2>3. CASE WriteStatus(j)
    BY <2>3 DEF WriteStatus, TypeOK, TaskInv, EndedWith, Statuses
  <2>4. CASE WriteCompletedAt(j)
    BY <2>4 DEF WriteCompletedAt, TypeOK
  <2>5. CASE WriteResult(j)
    BY <2>5 DEF WriteResult, TypeOK
  <2> QED BY <2>1, <2>2, <2>3, <2>4, <2>5 DEF Task
<1>2. \A i \in Jobs : i # j => /\ task'[i] = task[i] /\ outcome'[i] = outcome[i]
                              /\ status'[i] = status[i] /\ completedAt'[i] = completedAt[i]
                              /\ result'[i] = result[i]
  BY DEF Task, Run, EndCrawl, WriteStatus, WriteCompletedAt, WriteResult, TypeOK
<1>3. EndedWith(j)' /\ StatusWritten(j)' /\ TimeWritten(j)' /\ ResultWritten(j)'
  <2> USE DEF TypeOK, TaskInv, EndedWith, StatusWritten, TimeWritten, ResultWritten
  <2>1. CASE Run(j)
    BY <2>1 DEF Run, Over
  <2>2. CASE EndCrawl(j)
    BY <2>2 DEF EndCrawl, AfterCrawl, Over
  <2>3. CASE WriteStatus(j)
    BY <2>3 DEF WriteStatus
  <2>4. CASE WriteCompletedAt(j)
    BY <2>4 DEF WriteCompletedAt
  <2>5. CASE WriteResult(j)
    BY <2>5 DEF WriteResult
  <2> QED BY <2>1, <2>2, <2>3, <2>4, <2>5 DEF Task
<1>4. TaskInv'
  BY <1>2, <1>3 DEF TaskInv, EndedWith, StatusWritten, TimeWritten, ResultWritten
<1>5. client' = client
  BY DEF Task, Run, EndCrawl, WriteStatus, WriteCompletedAt, WriteResult
<1>6. task[j] # "over"
  BY DEF Task, Run, EndCrawl, WriteStatus, WriteCompletedAt, WriteResult
<1>7. ClientInv'
  BY <1>2, <1>5, <1>6 DEF ClientInv, HasJob, ReadsOver, ReadsTime
<1> QED BY <1>1, <1>4, <1>7

\* A step of a GET request.  The status is read when no writer holds it, so a
\* final one is read after the last of the three writes.
LEMMA PollStep ==
  ASSUME JobsInv, NEW p \in Clients, Poll(p)
  PROVE  JobsInv'
<1> USE DEF JobsInv
<1>1. UNCHANGED <<started, store, creator, jobVars>>
  BY DEF Poll, GetJob, ReadStatus, ReadCompletedAt, ReadResult
<1>2. TaskInv'
  BY <1>1 DEF jobVars, TaskInv, EndedWith, StatusWritten, TimeWritten, ResultWritten
<1>3. client \in [Clients -> ClientRecord] /\ client[p] \in ClientRecord
  BY DEF TypeOK, ClientRecord
<1>4. /\ client'[p] \in ClientRecord /\ client' = [client EXCEPT ![p] = client'[p]]
      /\ HasJob(p)' /\ ReadsOver(p)' /\ ReadsTime(p)'
  <2>1. CASE GetJob(p)
    <3>1. PICK j \in store :
             client' = [client EXCEPT ![p] = [NoRequest EXCEPT !.at = "status", !.job = j]]
      BY <2>1 DEF GetJob
    <3>2. client'[p] = [at |-> "status", job |-> j, status |-> "Queued", completed |-> FALSE]
      BY <1>3, <3>1 DEF NoRequest
    <3>3. j \in Jobs
      BY DEF TypeOK
    <3>4. client'[p] \in ClientRecord /\ client' = [client EXCEPT ![p] = client'[p]]
      BY <1>3, <3>1, <3>2, <3>3 DEF ClientRecord, Statuses
    <3> QED
      BY <3>2, <3>3, <3>4 DEF HasJob, ReadsOver, ReadsTime
  <2>2. CASE ReadStatus(p)
    <3> DEFINE j == client[p].job
    <3>1. client[p].at = "status" /\ ~StatusHeld(j) /\ j \in Jobs
      BY <2>2 DEF ReadStatus, ClientInv, HasJob
    <3>2. client'[p] = [client[p] EXCEPT !.at = "completed", !.status = status[j]]
      BY <1>3, <2>2 DEF ReadStatus
    <3>3. status[j] \in Statuses
      BY <3>1 DEF TypeOK
    <3>4. client'[p] \in ClientRecord /\ client' = [client EXCEPT ![p] = client'[p]]
      BY <1>3, <2>2, <3>2, <3>3 DEF ReadStatus, ClientRecord
    <3>5. client'[p].at = "completed" /\ client'[p].job = j /\ client'[p].status = status[j]
      BY <1>3, <3>2 DEF ClientRecord
    <3>6. status[j] \in Over => task[j] = "over" /\ outcome[j] = status[j]
      BY <3>1 DEF StatusHeld, TaskInv, StatusWritten
    <3> QED
      BY <1>1, <3>1, <3>4, <3>5, <3>6 DEF jobVars, HasJob, ReadsOver, ReadsTime
  <2>3. CASE ReadCompletedAt(p)
    <3> DEFINE j == client[p].job
    <3>1. client[p].at = "completed" /\ j \in Jobs
      BY <2>3 DEF ReadCompletedAt, ClientInv, HasJob
    <3>2. client'[p] = [client[p] EXCEPT !.at = "result", !.completed = completedAt[j]]
      BY <1>3, <2>3 DEF ReadCompletedAt
    <3>3. completedAt[j] \in BOOLEAN
      BY <3>1 DEF TypeOK
    <3>4. client'[p] \in ClientRecord /\ client' = [client EXCEPT ![p] = client'[p]]
      BY <1>3, <2>3, <3>2, <3>3 DEF ReadCompletedAt, ClientRecord
    <3>5. /\ client'[p].at = "result" /\ client'[p].job = j
          /\ client'[p].status = client[p].status /\ client'[p].completed = completedAt[j]
      BY <1>3, <3>2 DEF ClientRecord
    <3>6. client[p].status \in Over => task[j] = "over" /\ outcome[j] = client[p].status
      BY <3>1 DEF ClientInv, ReadsOver
    <3>7. client[p].status = "Failed" => completedAt[j]
      BY <3>1, <3>6 DEF TaskInv, TimeWritten, Over
    <3> QED
      BY <1>1, <3>1, <3>4, <3>5, <3>6, <3>7 DEF jobVars, HasJob, ReadsOver, ReadsTime
  <2>4. CASE ReadResult(p)
    <3>1. client' = [client EXCEPT ![p] = NoRequest]
      BY <2>4 DEF ReadResult
    <3>2. client'[p] = NoRequest /\ NoRequest \in ClientRecord
      BY <1>3, <3>1 DEF NoRequest, ClientRecord, Statuses
    <3> QED
      BY <1>3, <3>1, <3>2 DEF NoRequest, HasJob, ReadsOver, ReadsTime
  <2> QED BY <2>1, <2>2, <2>3, <2>4 DEF Poll
<1>5. \A q \in Clients : q # p => client'[q] = client[q]
  BY <1>3, <1>4
<1>6. ClientInv'
  BY <1>1, <1>4, <1>5 DEF jobVars, ClientInv, HasJob, ReadsOver, ReadsTime
<1>7. seen' \in [Clients -> [Jobs -> Statuses]]
  <2>1. CASE ReadResult(p)
    <3> DEFINE j == client[p].job
    <3>1. client[p].at = "result" /\ j \in Jobs
      BY <2>1 DEF ReadResult, ClientInv, HasJob
    <3>2. Snapshot(p) \in Statuses
      BY <1>3, <3>1 DEF Snapshot, TypeOK, ClientRecord, Statuses
    <3>3. seen' = [seen EXCEPT ![p] = [seen[p] EXCEPT ![j] = Snapshot(p)]]
      BY <2>1 DEF ReadResult
    <3>4. seen[p] \in [Jobs -> Statuses]
      BY DEF TypeOK
    <3>5. [seen[p] EXCEPT ![j] = Snapshot(p)] \in [Jobs -> Statuses]
      BY <3>2, <3>4
    <3> QED BY <3>3, <3>5 DEF TypeOK
  <2>2. CASE ~ReadResult(p)
    BY <2>2 DEF Poll, GetJob, ReadStatus, ReadCompletedAt, TypeOK
  <2> QED BY <2>1, <2>2
<1>8. TypeOK'
  BY <1>1, <1>3, <1>4, <1>7 DEF TypeOK, jobVars, ClientRecord
<1> QED BY <1>2, <1>6, <1>8

-----------------------------------------------------------------------------
\* The inductive invariant holds in every reachable state.
THEOREM JobsInvariant == Spec => []JobsInv
<1>1. Init => JobsInv
  BY InitInv
<1>2. JobsInv /\ [Next]_vars => JobsInv'
  <2> SUFFICES ASSUME JobsInv, [Next]_vars PROVE JobsInv'
    OBVIOUS
  <2>1. CASE Next
    <3>1. ASSUME NEW c \in Creators, Create(c) PROVE JobsInv'
      BY <3>1, CreateStep
    <3>2. ASSUME NEW j \in Jobs, CancelJob(j) \/ DeleteJob(j) PROVE JobsInv'
      BY <3>2, CancelStep
    <3>3. ASSUME NEW j \in Jobs, Task(j) PROVE JobsInv'
      BY <3>3, TaskStep
    <3>4. ASSUME NEW p \in Clients, Poll(p) PROVE JobsInv'
      BY <3>4, PollStep
    <3> QED BY <2>1, <3>1, <3>2, <3>3, <3>4 DEF Next
  <2>2. CASE UNCHANGED vars
    BY <2>2 DEF vars, jobVars, JobsInv, TypeOK, TaskInv, EndedWith, StatusWritten, TimeWritten,
       ResultWritten, ClientInv, HasJob, ReadsOver, ReadsTime
  <2> QED BY <2>1, <2>2
<1> QED BY <1>1, <1>2, PTL DEF Spec

\* Every variable keeps its type (the type invariant of CrawlJobs).
THEOREM JobsTypeCorrect == Spec => []TypeOK
<1>1. JobsInv => TypeOK
  BY DEF JobsInv
<1> QED BY <1>1, JobsInvariant, PTL

\* A snapshot that reports an end carries what belongs to that end (job.rs
\* 59-77, 84-93), for any number of clients that poll while jobs end, are
\* cancelled, evicted and deleted.
THEOREM SnapshotWholeAlways == Spec => []SnapshotWhole
<1>1. JobsInv => SnapshotWhole
  <2> SUFFICES ASSUME JobsInv, NEW p \in Clients, client[p].at = "result"
               PROVE  /\ client[p].status \in {"Completed", "Cancelled"} =>
                            result[client[p].job] = client[p].status
                      /\ client[p].status = "Failed" => client[p].completed
    BY DEF SnapshotWhole
  <2>1. client[p].job \in Jobs /\ ReadsOver(p) /\ ReadsTime(p)
    BY DEF JobsInv, ClientInv, HasJob
  <2> QED BY <2>1 DEF JobsInv, ReadsOver, ReadsTime, TaskInv, ResultWritten, Over
<1> QED BY <1>1, JobsInvariant, PTL

-----------------------------------------------------------------------------
\* What a client has seen of a job, or reads of it, does not run ahead of the
\* job; what it reads does not fall behind what it has seen.
ResultLast == \A j \in Jobs : result[j] # "none" => task[j] = "over" /\ result[j] = outcome[j]
NotAhead(s, j) ==
    /\ s = "Running" => status[j] # "Queued"
    /\ s \in Over => task[j] = "over" /\ outcome[j] = s
NotBehind(p) ==
    LET j == client[p].job IN
    client[p].at \in {"completed", "result"} =>
       /\ client[p].status = "Running" => status[j] # "Queued"
       /\ seen[p][j] = "Running" => client[p].status # "Queued"
       /\ seen[p][j] \in Over => client[p].status = seen[p][j]
SeenInv ==
    ResultLast /\ \A p \in Clients : NotBehind(p) /\ \A j \in Jobs : NotAhead(seen[p][j], j)

\* A step that lets jobs only go on, and no client.
LEMMA SeenKept ==
  ASSUME JobsInv, SeenInv, UNCHANGED <<client, seen>>,
         \A j \in Jobs :
            /\ status[j] # "Queued" => status'[j] # "Queued"
            /\ task[j] = "over" => task'[j] = "over" /\ outcome'[j] = outcome[j]
            /\ result'[j] # "none" => task'[j] = "over" /\ result'[j] = outcome'[j]
  PROVE  SeenInv'
<1>1. ResultLast'
  BY DEF ResultLast
<1>2. ASSUME NEW p \in Clients PROVE NotBehind(p)'
  <2>1. client[p].at \in {"completed", "result"} => client[p].job \in Jobs
    BY DEF JobsInv, ClientInv, HasJob
  <2> QED BY <2>1 DEF SeenInv, NotBehind
<1>3. ASSUME NEW p \in Clients, NEW j \in Jobs PROVE NotAhead(seen[p][j], j)'
  BY DEF SeenInv, NotAhead
<1> QED BY <1>1, <1>2, <1>3 DEF SeenInv

\* The task of a job.
LEMMA SeenTaskStep ==
  ASSUME JobsInv, SeenInv, NEW i \in Jobs, Task(i)
  PROVE  SeenInv'
<1>1. /\ status \in [Jobs -> Statuses] /\ outcome \in [Jobs -> Over \cup {"none"}]
      /\ task \in [Jobs -> {"none", "spawned", "crawling", "ended", "stamp", "store", "over"}]
      /\ result \in [Jobs -> Over \cup {"none"}] /\ ResultLast /\ TaskInv
  BY DEF JobsInv, SeenInv, TypeOK
<1>2. UNCHANGED <<client, seen>> /\ task[i] # "over"
  BY DEF Task, Run, EndCrawl, WriteStatus, WriteCompletedAt, WriteResult
<1>3. ASSUME NEW j \in Jobs, j # i
      PROVE  status'[j] = status[j] /\ task'[j] = task[j] /\ outcome'[j] = outcome[j] /\ result'[j] = result[j]
  BY <1>1, <1>3 DEF Task, Run, EndCrawl, WriteStatus, WriteCompletedAt, WriteResult
<1>4. status[i] # "Queued" => status'[i] # "Queued"
  BY <1>1 DEF Task, Run, EndCrawl, WriteStatus, WriteCompletedAt, WriteResult, TaskInv, EndedWith, Over
<1>5. result'[i] # "none" => task'[i] = "over" /\ result'[i] = outcome'[i]
  BY <1>1, <1>2 DEF Task, Run, EndCrawl, WriteStatus, WriteCompletedAt, WriteResult, ResultLast
<1>6. \A j \in Jobs :
         /\ status[j] # "Queued" => status'[j] # "Queued"
         /\ task[j] = "over" => task'[j] = "over" /\ outcome'[j] = outcome[j]
         /\ result'[j] # "none" => task'[j] = "over" /\ result'[j] = outcome'[j]
  BY <1>1, <1>2, <1>3, <1>4, <1>5 DEF ResultLast
<1> QED BY <1>2, <1>6, SeenKept

\* A POST or DELETE request: a job's task is spawned at most.
LEMMA SeenRequestStep ==
  ASSUME JobsInv, SeenInv,
         \/ \E c \in Creators : Create(c)
         \/ \E j \in Jobs : CancelJob(j) \/ DeleteJob(j)
         \/ UNCHANGED vars
  PROVE  SeenInv'
<1>1. /\ task \in [Jobs -> {"none", "spawned", "crawling", "ended", "stamp", "store", "over"}]
      /\ ResultLast
  BY DEF JobsInv, SeenInv, TypeOK
<1>2. UNCHANGED <<client, seen, status, outcome, result>>
  BY DEF Create, CleanUp, CheckCapacity, FindVictim, Evict, Insert, CancelJob, DeleteJob, vars, jobVars
<1>3. \A j \in Jobs : task[j] = "over" => task'[j] = "over"
  BY <1>1 DEF Create, CleanUp, CheckCapacity, FindVictim, Evict, Insert, CancelJob, DeleteJob, vars, jobVars
<1>4. \A j \in Jobs :
         /\ status[j] # "Queued" => status'[j] # "Queued"
         /\ task[j] = "over" => task'[j] = "over" /\ outcome'[j] = outcome[j]
         /\ result'[j] # "none" => task'[j] = "over" /\ result'[j] = outcome'[j]
  BY <1>1, <1>2, <1>3 DEF ResultLast
<1> QED BY <1>2, <1>4, SeenKept

\* A snapshot that is taken is not behind the one before, nor ahead of the job.
LEMMA SnapshotFacts ==
  ASSUME JobsInv, SeenInv, NEW p \in Clients, client[p].at = "result"
  PROVE  LET j == client[p].job IN
         /\ j \in Jobs /\ seen[p][j] \in Statuses /\ Snapshot(p) \in Statuses
         /\ NotAhead(Snapshot(p), j)
         /\ Snapshot(p) # seen[p][j] => Rank(Snapshot(p)) > Rank(seen[p][j])
<1> DEFINE j == client[p].job
<1>1. /\ j \in Jobs /\ client[p].status \in Statuses /\ seen[p][j] \in Statuses
      /\ result[j] \in Over \cup {"none"} /\ status[j] \in Statuses
  <2>1. j \in Jobs
    BY DEF JobsInv, ClientInv, HasJob
  <2>2. client[p] \in ClientRecord
    BY DEF JobsInv, TypeOK, ClientRecord
  <2>3. client[p].status \in Statuses
    BY <2>2 DEF ClientRecord
  <2> QED BY <2>1, <2>3 DEF JobsInv, TypeOK
<1>2. ReadsOver(p) /\ NotBehind(p) /\ NotAhead(seen[p][j], j) /\ ResultLast /\ StatusWritten(j)
  BY <1>1 DEF JobsInv, ClientInv, TaskInv, SeenInv
<1> HIDE DEF j
<1>3. CASE result[j] # "none"
  <2>1. Snapshot(p) = result[j] /\ result[j] \in Over /\ task[j] = "over" /\ result[j] = outcome[j]
    BY <1>1, <1>2, <1>3 DEF Snapshot, ResultLast, j
  <2>2. seen[p][j] \in Over => seen[p][j] = result[j]
    BY <1>2, <2>1 DEF NotAhead
  <2>3. Snapshot(p) \in Statuses /\ NotAhead(Snapshot(p), j)
    BY <2>1 DEF NotAhead, Statuses, Over
  <2>4. Snapshot(p) # seen[p][j] => Rank(Snapshot(p)) > Rank(seen[p][j])
    BY <1>1, <2>1, <2>2 DEF Rank, Statuses, Over
  <2> QED BY <1>1, <2>3, <2>4 DEF j
<1>4. CASE result[j] = "none"
  <2>1. Snapshot(p) = client[p].status
    BY <1>4 DEF Snapshot, j
  <2>2. /\ client[p].status \in Over => task[j] = "over" /\ outcome[j] = client[p].status
        /\ client[p].status = "Running" => status[j] # "Queued"
        /\ seen[p][j] = "Running" => client[p].status # "Queued"
        /\ seen[p][j] \in Over => client[p].status = seen[p][j]
    BY <1>2 DEF ReadsOver, NotBehind, j
  <2>3. NotAhead(Snapshot(p), j)
    BY <2>1, <2>2 DEF NotAhead
  <2>4. Snapshot(p) # seen[p][j] => Rank(Snapshot(p)) > Rank(seen[p][j])
    BY <1>1, <2>1, <2>2 DEF Rank, Statuses, Over
  <2> QED BY <1>1, <2>1, <2>3, <2>4 DEF j
<1> QED BY <1>3, <1>4

\* A GET request.
LEMMA SeenPollStep ==
  ASSUME JobsInv, SeenInv, NEW p \in Clients, Poll(p)
  PROVE  SeenInv'
<1>1. UNCHANGED jobVars /\ ResultLast' /\ client \in [Clients -> ClientRecord]
  BY DEF Poll, GetJob, ReadStatus, ReadCompletedAt, ReadResult, SeenInv, ResultLast, jobVars,
     JobsInv, TypeOK, ClientRecord
<1>2. \A q \in Clients : q # p => client'[q] = client[q]
  BY <1>1 DEF Poll, GetJob, ReadStatus, ReadCompletedAt, ReadResult
<1>3. seen \in [Clients -> [Jobs -> Statuses]]
  BY DEF JobsInv, TypeOK
<1>4. CASE GetJob(p) \/ ReadStatus(p) \/ ReadCompletedAt(p)
  <2>1. seen' = seen
    BY <1>4 DEF GetJob, ReadStatus, ReadCompletedAt
  <2>2. ASSUME NEW q \in Clients, NEW j \in Jobs PROVE NotAhead(seen[q][j], j)'
    BY <1>1, <2>1 DEF NotAhead, SeenInv, jobVars
  <2>3. ASSUME NEW q \in Clients PROVE NotBehind(q)'
    <3>1. CASE q # p
      BY <1>1, <1>2, <2>1, <3>1 DEF NotBehind, SeenInv, jobVars
    <3>2. CASE q = p /\ GetJob(p)
      BY <1>1, <3>2 DEF NotBehind, GetJob, NoRequest
    <3>3. CASE q = p /\ ReadStatus(p)
      <4> DEFINE j == client[p].job
      <4>1. /\ client'[p].job = j /\ client'[p].status = status[j] /\ j \in Jobs
            /\ status[j] \in Statuses /\ seen[p][j] \in Statuses
        BY <1>1, <1>3, <3>3 DEF ReadStatus, JobsInv, ClientInv, HasJob, ClientRecord, TypeOK
      <4>2. NotAhead(seen[p][j], j) /\ StatusWritten(j)
        BY <4>1 DEF SeenInv, JobsInv, TaskInv
      <4>3. /\ status[j] = "Running" => status[j] # "Queued"
            /\ seen[p][j] = "Running" => status[j] # "Queued"
            /\ seen[p][j] \in Over => status[j] = seen[p][j]
        BY <4>2 DEF NotAhead, StatusWritten
      <4> QED BY <1>1, <2>1, <3>3, <4>1, <4>3 DEF NotBehind, jobVars
    <3>4. CASE q = p /\ ReadCompletedAt(p)
      <4>1. /\ client'[p].job = client[p].job /\ client'[p].status = client[p].status
            /\ client[p].at = "completed"
        BY <1>1, <3>4 DEF ReadCompletedAt, ClientRecord
      <4> QED BY <1>1, <2>1, <3>4, <4>1 DEF NotBehind, SeenInv, jobVars
    <3> QED BY <1>4, <3>1, <3>2, <3>3, <3>4
  <2> QED BY <1>1, <2>2, <2>3 DEF SeenInv
<1>5. CASE ReadResult(p)
  <2> DEFINE i == client[p].job
  <2>1. i \in Jobs /\ NotAhead(Snapshot(p), i) /\ Snapshot(p) \in Statuses
    BY <1>5, SnapshotFacts DEF ReadResult
  <2>2. /\ seen'[p][i] = Snapshot(p) /\ \A j \in Jobs : j # i => seen'[p][j] = seen[p][j]
        /\ \A q \in Clients : q # p => seen'[q] = seen[q]
    BY <1>3, <1>5, <2>1 DEF ReadResult
  <2> HIDE DEF i
  <2>3. ASSUME NEW q \in Clients, NEW j \in Jobs PROVE NotAhead(seen[q][j], j)'
    <3>1. CASE q = p /\ j = i
      BY <1>1, <2>1, <2>2, <3>1 DEF NotAhead, jobVars
    <3>2. CASE q # p \/ j # i
      <4>1. seen'[q][j] = seen[q][j]
        BY <2>2, <3>2
      <4> QED BY <1>1, <4>1 DEF NotAhead, SeenInv, jobVars
    <3> QED BY <3>1, <3>2
  <2>4. ASSUME NEW q \in Clients PROVE NotBehind(q)'
    <3>1. CASE q # p
      BY <1>1, <1>2, <2>2, <3>1 DEF NotBehind, SeenInv, jobVars
    <3>2. CASE q = p
      BY <1>1, <1>5, <3>2 DEF NotBehind, ReadResult, NoRequest
    <3> QED BY <3>1, <3>2
  <2> QED BY <1>1, <2>3, <2>4 DEF SeenInv
<1> QED BY <1>4, <1>5 DEF Poll

\* What a polling client sees of a job only advances, and never changes once it
\* is an end (job.rs 84-103), whatever the number of clients, and whether the
\* snapshot is made of the result or of the fields of the job in progress.
THEOREM SeenAdvancesAlways == Spec => SeenAdvances
<1> DEFINE Advance == \A p \in Clients, j \in Jobs :
                         seen'[p][j] # seen[p][j] => Rank(seen'[p][j]) > Rank(seen[p][j])
<1>1. Init => SeenInv
  BY DEF Init, SeenInv, ResultLast, NotBehind, NotAhead, NoRequest, Over
<1>2. JobsInv /\ SeenInv /\ [Next]_vars => SeenInv'
  BY SeenTaskStep, SeenRequestStep, SeenPollStep DEF Next
<1>3. JobsInv /\ SeenInv /\ [Next]_vars => [Advance]_vars
  <2> SUFFICES ASSUME JobsInv, SeenInv, Next, NEW p \in Clients, NEW j \in Jobs, seen'[p][j] # seen[p][j]
               PROVE  Rank(seen'[p][j]) > Rank(seen[p][j])
    BY DEF vars
  <2>1. seen \in [Clients -> [Jobs -> Statuses]]
    BY DEF JobsInv, TypeOK
  <2>2. PICK q \in Clients : ReadResult(q)
    BY DEF Next, Create, CleanUp, CheckCapacity, FindVictim, Evict, Insert, CancelJob, DeleteJob,
       Task, Run, EndCrawl, WriteStatus, WriteCompletedAt, WriteResult,
       Poll, GetJob, ReadStatus, ReadCompletedAt
  <2>3. /\ client[q].job \in Jobs
        /\ Snapshot(q) # seen[q][client[q].job] => Rank(Snapshot(q)) > Rank(seen[q][client[q].job])
    BY <2>2, SnapshotFacts DEF ReadResult
  <2>4. q = p /\ j = client[q].job /\ seen'[p][j] = Snapshot(q)
    BY <2>1, <2>2, <2>3 DEF ReadResult
  <2> QED BY <2>3, <2>4
<1> HIDE DEF Advance
<1>4. Spec => [][Advance]_vars
  BY <1>1, <1>2, <1>3, JobsInvariant, PTL DEF Spec
<1> QED BY <1>4 DEF Advance, SeenAdvances

-----------------------------------------------------------------------------
(***************************************************************************)
(* SiteMap.  The recursive functions of the model are followed step by     *)
(* step: a lemma for each says that it has a value for every n and stays   *)
(* in a set that its steps do not leave.  Then the invariant of the walk   *)
(* over the pages (Exploring), the end of the walk (Concluded), ranking    *)
(* and filtering, and the steps of the calls, which share the cache.       *)
(***************************************************************************)

\* A set of naturals has a least element: the provers' form of induction.
LEMMA LeastElement ==
  ASSUME NEW T, T \subseteq Nat, T # {}
  PROVE  \E n \in T : \A m \in T : n <= m
<1> DEFINE Less == OpToRel(<, Nat)
<1>1. IsWellFoundedOn(Less, Nat)
  BY NatLessThanWellFounded
<1>2. \A m, n \in Nat : m < n => <<m, n>> \in Less
  BY DEF OpToRel
<1> HIDE DEF Less
<1>3. PICK n \in T : \A m \in T : ~(<<m, n>> \in Less)
  BY <1>1, WFMin
<1>4. \A m \in T : ~(m < n)
  BY <1>2, <1>3
<1> QED BY <1>3, <1>4

\* Induction up to N: a set that holds 0 and with each number the next has all.
LEMMA Climb ==
  ASSUME NEW N \in Nat, NEW S, 0 \in S, \A k \in 1 .. N : k - 1 \in S => k \in S
  PROVE  \A k \in 0 .. N : k \in S
<1> DEFINE T == {k \in 0 .. N : k \notin S}
<1> SUFFICES ASSUME T # {} PROVE FALSE
  OBVIOUS
<1>0. T \subseteq Nat
  OBVIOUS
<1>1. PICK k \in T : \A m \in T : k <= m
  <2> HIDE DEF T
  <2> QED BY <1>0, LeastElement
<1>2. k \in 1 .. N /\ k - 1 \in 0 .. N /\ ~(k <= k - 1)
  BY <1>1
<1> QED BY <1>1, <1>2

Iterates(g, N, U, base, F) ==
    g \in [0 .. N -> U] /\ g[0] = base /\ \A k \in 1 .. N : g[k] = F[k][g[k - 1]]

\* A step F leads from each value of U to one of U: there is the sequence of the
\* values it leads to from the first.
LEMMA Recursion ==
  ASSUME NEW N \in Nat, NEW U, NEW base \in U, NEW F \in [1 .. N -> [U -> U]]
  PROVE  \E g : Iterates(g, N, U, base, F)
<1> DEFINE Upto(g, n) == g \in [0 .. n -> U] /\ g[0] = base /\ \A k \in 1 .. n : g[k] = F[k][g[k - 1]]
           S == {n \in 0 .. N : \E g : Upto(g, n)}
<1>1. 0 \in S
  <2>1. Upto([k \in 0 .. 0 |-> base], 0)
    OBVIOUS
  <2> HIDE DEF Upto
  <2> QED BY <2>1
<1>2. ASSUME NEW n \in 1 .. N, n - 1 \in S PROVE n \in S
  <2>1. PICK g : Upto(g, n - 1)
    BY <1>2
  <2> DEFINE h == [k \in 0 .. n |-> IF k < n THEN g[k] ELSE F[n][g[n - 1]]]
  <2>2. g[n - 1] \in U /\ F[n][g[n - 1]] \in U
    BY <2>1
  <2>3. h \in [0 .. n -> U] /\ h[0] = base
    BY <2>1, <2>2
  <2>4. ASSUME NEW k \in 1 .. n PROVE h[k] = F[k][h[k - 1]]
    <3>1. h[k - 1] = g[k - 1]
      OBVIOUS
    <3>2. CASE k < n
      <4>1. k \in 1 .. n - 1
        BY <3>2
      <4> QED BY <2>1, <3>1, <3>2, <4>1
    <3>3. CASE k = n
      BY <3>1, <3>3
    <3> QED BY <3>2, <3>3
  <2>5. Upto(h, n)
    BY <2>3, <2>4
  <2> HIDE DEF h, Upto
  <2> QED BY <2>5
<1>3. \A n \in 0 .. N : n \in S
  <2> HIDE DEF S
  <2> QED BY <1>1, <1>2, Climb
<1>4. N \in 0 .. N
  OBVIOUS
<1>5. PICK g : Upto(g, N)
  BY <1>3, <1>4
<1> QED BY <1>5 DEF Iterates

\* Sequences and the places in them.
LEMMA Places ==
  ASSUME NEW T, NEW s \in Seq(T)
  PROVE  /\ Len(s) \in Nat /\ DOMAIN s = 1 .. Len(s) /\ \A i \in DOMAIN s : s[i] \in T
         /\ (s = << >> <=> Len(s) = 0)
<1>1. Len(s) \in Nat /\ DOMAIN s = 1 .. Len(s) /\ \A i \in DOMAIN s : s[i] \in T
  BY LenProperties, ElementOfSeq
<1>2. s = << >> <=> Len(s) = 0
  BY EmptySeq
<1> QED BY <1>1, <1>2

-----------------------------------------------------------------------------
\* Each recursion of the model leads from step to step, and stays in a set that
\* its steps do not leave.
Choosing(f, kind, tags, n) ==
    f = [k \in 0 .. n |-> IF k = 0 THEN << >> ELSE (IF tags[k].kind = kind THEN Append(f[k - 1], k) ELSE f[k - 1])]
ChoosingRun(kind, tags, n) == CHOOSE f : Choosing(f, kind, tags, n)

\* Of.
LEMMA OfSteps ==
  ASSUME NEW kind, NEW tags, NEW n, NEW U, n \in Nat, << >> \in U,
         \A x \in U : \A k \in 1 .. n : (IF tags[k].kind = kind THEN Append(x, k) ELSE x) \in U
  PROVE  LET f == ChoosingRun(kind, tags, n) IN
         /\ f \in [0 .. n -> U] /\ f[0] = << >> /\ Of(kind, tags, n) = f[n]
         /\ \A k \in 1 .. n : f[k] = (IF tags[k].kind = kind THEN Append(f[k - 1], k) ELSE f[k - 1])
<1> DEFINE N == n
           base == << >>
           F == [k \in 1 .. N |-> [x \in U |-> (IF tags[k].kind = kind THEN Append(x, k) ELSE x)]]
           f == ChoosingRun(kind, tags, n)
<1>1. N \in Nat /\ base \in U /\ F \in [1 .. N -> [U -> U]]
  OBVIOUS
<1>2. \A k \in 1 .. N : \A x \in U : F[k][x] = (IF tags[k].kind = kind THEN Append(x, k) ELSE x)
  OBVIOUS
<1>3. Of(kind, tags, n) = f[N]
  BY DEF Of, ChoosingRun, Choosing
<1> HIDE DEF F, f
<1>4. PICK g : Iterates(g, N, U, base, F)
  <2> HIDE DEF N, base
  <2> QED BY <1>1, Recursion
<1>5. g \in [0 .. N -> U] /\ g[0] = base /\ \A k \in 1 .. N : g[k] = F[k][g[k - 1]]
  BY <1>4 DEF Iterates
<1>6. ASSUME NEW k \in 1 .. N PROVE g[k - 1] \in U /\ g[k] = (IF tags[k].kind = kind THEN Append(g[k - 1], k) ELSE g[k - 1])
  <2> HIDE DEF N, base
  <2>1. k - 1 \in 0 .. N
    BY <1>1
  <2>2. g[k - 1] \in U
    BY <1>5, <2>1
  <2> QED BY <1>2, <1>5, <2>2
<1>7. \E h : Choosing(h, kind, tags, n)
  <2>1. g = [k \in 0 .. N |-> IF k = 0 THEN base ELSE (IF tags[k].kind = kind THEN Append(g[k - 1], k) ELSE g[k - 1])]
    <3> HIDE DEF N, base
    <3>1. \A k \in 0 .. N : k # 0 => k \in 1 .. N
      BY <1>1
    <3> QED BY <1>5, <1>6, <3>1
  <2> QED BY <2>1 DEF Choosing
<1>8. f = [k \in 0 .. N |-> IF k = 0 THEN base ELSE (IF tags[k].kind = kind THEN Append(f[k - 1], k) ELSE f[k - 1])]
  BY <1>7 DEF f, ChoosingRun, Choosing
<1>9. f[0] = base /\ \A k \in 1 .. N : f[k] = (IF tags[k].kind = kind THEN Append(f[k - 1], k) ELSE f[k - 1])
  <2> HIDE DEF N, base
  <2>1. 0 \in 0 .. N /\ \A k \in 1 .. N : k \in 0 .. N /\ k # 0
    BY <1>1
  <2> QED BY <1>8, <2>1
<1>10. \A k \in 0 .. N : f[k] \in U
  <2> DEFINE S == {k \in 0 .. N : f[k] \in U}
  <2>1. 0 \in S
    <3> HIDE DEF N, base
    <3> QED BY <1>1, <1>9
  <2>2. ASSUME NEW k \in 1 .. N, k - 1 \in S PROVE k \in S
    <3>1. f[k - 1] \in U /\ k \in 0 .. N
      BY <1>1, <2>2
    <3> QED BY <1>9, <3>1
  <2>3. \A k \in 0 .. N : k \in S
    <3> HIDE DEF S, N
    <3> QED BY <1>1, <2>1, <2>2, Climb
  <2> QED BY <2>3
<1>11. f \in [0 .. N -> U]
  BY <1>8, <1>10
<1> HIDE DEF f
<1> QED BY <1>3, <1>9, <1>11 DEF f

Entering(f, s, urls, r) ==
    f = [n \in 0 .. Len(urls) |-> IF n = 0 THEN s ELSE Entered(f[n - 1], urls[n], r)]
EnteringRun(s, urls, r) == CHOOSE f : Entering(f, s, urls, r)

\* EnteredAll.
LEMMA EnteredSteps ==
  ASSUME NEW s, NEW urls, NEW r, NEW U, Len(urls) \in Nat, s \in U,
         \A x \in U : \A k \in 1 .. Len(urls) : Entered(x, urls[k], r) \in U
  PROVE  LET f == EnteringRun(s, urls, r) IN
         /\ f \in [0 .. Len(urls) -> U] /\ f[0] = s /\ EnteredAll(s, urls, r) = f[Len(urls)]
         /\ \A k \in 1 .. Len(urls) : f[k] = Entered(f[k - 1], urls[k], r)
<1> DEFINE N == Len(urls)
           base == s
           F == [k \in 1 .. N |-> [x \in U |-> Entered(x, urls[k], r)]]
           f == EnteringRun(s, urls, r)
<1>1. N \in Nat /\ base \in U /\ F \in [1 .. N -> [U -> U]]
  OBVIOUS
<1>2. \A k \in 1 .. N : \A x \in U : F[k][x] = Entered(x, urls[k], r)
  OBVIOUS
<1>3. EnteredAll(s, urls, r) = f[N]
  BY DEF EnteredAll, EnteringRun, Entering
<1> HIDE DEF F, f
<1>4. PICK g : Iterates(g, N, U, base, F)
  <2> HIDE DEF N, base
  <2> QED BY <1>1, Recursion
<1>5. g \in [0 .. N -> U] /\ g[0] = base /\ \A k \in 1 .. N : g[k] = F[k][g[k - 1]]
  BY <1>4 DEF Iterates
<1>6. ASSUME NEW k \in 1 .. N PROVE g[k - 1] \in U /\ g[k] = Entered(g[k - 1], urls[k], r)
  <2> HIDE DEF N, base
  <2>1. k - 1 \in 0 .. N
    BY <1>1
  <2>2. g[k - 1] \in U
    BY <1>5, <2>1
  <2> QED BY <1>2, <1>5, <2>2
<1>7. \E h : Entering(h, s, urls, r)
  <2>1. g = [n \in 0 .. N |-> IF n = 0 THEN base ELSE Entered(g[n - 1], urls[n], r)]
    <3> HIDE DEF N, base
    <3>1. \A k \in 0 .. N : k # 0 => k \in 1 .. N
      BY <1>1
    <3> QED BY <1>5, <1>6, <3>1
  <2> QED BY <2>1 DEF Entering
<1>8. f = [n \in 0 .. N |-> IF n = 0 THEN base ELSE Entered(f[n - 1], urls[n], r)]
  BY <1>7 DEF f, EnteringRun, Entering
<1>9. f[0] = base /\ \A k \in 1 .. N : f[k] = Entered(f[k - 1], urls[k], r)
  <2> HIDE DEF N, base
  <2>1. 0 \in 0 .. N /\ \A k \in 1 .. N : k \in 0 .. N /\ k # 0
    BY <1>1
  <2> QED BY <1>8, <2>1
<1>10. \A k \in 0 .. N : f[k] \in U
  <2> DEFINE S == {k \in 0 .. N : f[k] \in U}
  <2>1. 0 \in S
    <3> HIDE DEF N, base
    <3> QED BY <1>1, <1>9
  <2>2. ASSUME NEW k \in 1 .. N, k - 1 \in S PROVE k \in S
    <3>1. f[k - 1] \in U /\ k \in 0 .. N
      BY <1>1, <2>2
    <3> QED BY <1>9, <3>1
  <2>3. \A k \in 0 .. N : k \in S
    <3> HIDE DEF S, N
    <3> QED BY <1>1, <2>1, <2>2, Climb
  <2> QED BY <2>3
<1>11. f \in [0 .. N -> U]
  BY <1>8, <1>10
<1> HIDE DEF f
<1> QED BY <1>3, <1>9, <1>11 DEF f

Following(f, s, links, r, depth) ==
    f = [n \in 0 .. Len(links) |-> IF n = 0 THEN s ELSE Followed(f[n - 1], links[n], r, depth)]
FollowingRun(s, links, r, depth) == CHOOSE f : Following(f, s, links, r, depth)

\* FollowedAll.
LEMMA FollowedSteps ==
  ASSUME NEW s, NEW links, NEW r, NEW depth, NEW U, Len(links) \in Nat, s \in U,
         \A x \in U : \A k \in 1 .. Len(links) : Followed(x, links[k], r, depth) \in U
  PROVE  LET f == FollowingRun(s, links, r, depth) IN
         /\ f \in [0 .. Len(links) -> U] /\ f[0] = s /\ FollowedAll(s, links, r, depth) = f[Len(links)]
         /\ \A k \in 1 .. Len(links) : f[k] = Followed(f[k - 1], links[k], r, depth)
<1> DEFINE N == Len(links)
           base == s
           F == [k \in 1 .. N |-> [x \in U |-> Followed(x, links[k], r, depth)]]
           f == FollowingRun(s, links, r, depth)
<1>1. N \in Nat /\ base \in U /\ F \in [1 .. N -> [U -> U]]
  OBVIOUS
<1>2. \A k \in 1 .. N : \A x \in U : F[k][x] = Followed(x, links[k], r, depth)
  OBVIOUS
<1>3. FollowedAll(s, links, r, depth) = f[N]
  BY DEF FollowedAll, FollowingRun, Following
<1> HIDE DEF F, f
<1>4. PICK g : Iterates(g, N, U, base, F)
  <2> HIDE DEF N, base
  <2> QED BY <1>1, Recursion
<1>5. g \in [0 .. N -> U] /\ g[0] = base /\ \A k \in 1 .. N : g[k] = F[k][g[k - 1]]
  BY <1>4 DEF Iterates
<1>6. ASSUME NEW k \in 1 .. N PROVE g[k - 1] \in U /\ g[k] = Followed(g[k - 1], links[k], r, depth)
  <2> HIDE DEF N, base
  <2>1. k - 1 \in 0 .. N
    BY <1>1
  <2>2. g[k - 1] \in U
    BY <1>5, <2>1
  <2> QED BY <1>2, <1>5, <2>2
<1>7. \E h : Following(h, s, links, r, depth)
  <2>1. g = [n \in 0 .. N |-> IF n = 0 THEN base ELSE Followed(g[n - 1], links[n], r, depth)]
    <3> HIDE DEF N, base
    <3>1. \A k \in 0 .. N : k # 0 => k \in 1 .. N
      BY <1>1
    <3> QED BY <1>5, <1>6, <3>1
  <2> QED BY <2>1 DEF Following
<1>8. f = [n \in 0 .. N |-> IF n = 0 THEN base ELSE Followed(f[n - 1], links[n], r, depth)]
  BY <1>7 DEF f, FollowingRun, Following
<1>9. f[0] = base /\ \A k \in 1 .. N : f[k] = Followed(f[k - 1], links[k], r, depth)
  <2> HIDE DEF N, base
  <2>1. 0 \in 0 .. N /\ \A k \in 1 .. N : k \in 0 .. N /\ k # 0
    BY <1>1
  <2> QED BY <1>8, <2>1
<1>10. \A k \in 0 .. N : f[k] \in U
  <2> DEFINE S == {k \in 0 .. N : f[k] \in U}
  <2>1. 0 \in S
    <3> HIDE DEF N, base
    <3> QED BY <1>1, <1>9
  <2>2. ASSUME NEW k \in 1 .. N, k - 1 \in S PROVE k \in S
    <3>1. f[k - 1] \in U /\ k \in 0 .. N
      BY <1>1, <2>2
    <3> QED BY <1>9, <3>1
  <2>3. \A k \in 0 .. N : k \in S
    <3> HIDE DEF S, N
    <3> QED BY <1>1, <2>1, <2>2, Climb
  <2> QED BY <2>3
<1>11. f \in [0 .. N -> U]
  BY <1>8, <1>10
<1> HIDE DEF f
<1> QED BY <1>3, <1>9, <1>11 DEF f

Taking(f, s, batch, ok, r) ==
    f = [n \in 0 .. Len(batch) |-> IF n = 0 THEN s ELSE (IF ok[n] THEN Taken(f[n - 1], batch[n], r) ELSE f[n - 1])]
TakingRun(s, batch, ok, r) == CHOOSE f : Taking(f, s, batch, ok, r)

\* TakenAll.
LEMMA TakenSteps ==
  ASSUME NEW s, NEW batch, NEW ok, NEW r, NEW U, Len(batch) \in Nat, s \in U,
         \A x \in U : \A k \in 1 .. Len(batch) : (IF ok[k] THEN Taken(x, batch[k], r) ELSE x) \in U
  PROVE  LET f == TakingRun(s, batch, ok, r) IN
         /\ f \in [0 .. Len(batch) -> U] /\ f[0] = s /\ TakenAll(s, batch, ok, r) = f[Len(batch)]
         /\ \A k \in 1 .. Len(batch) : f[k] = (IF ok[k] THEN Taken(f[k - 1], batch[k], r) ELSE f[k - 1])
<1> DEFINE N == Len(batch)
           base == s
           F == [k \in 1 .. N |-> [x \in U |-> (IF ok[k] THEN Taken(x, batch[k], r) ELSE x)]]
           f == TakingRun(s, batch, ok, r)
<1>1. N \in Nat /\ base \in U /\ F \in [1 .. N -> [U -> U]]
  OBVIOUS
<1>2. \A k \in 1 .. N : \A x \in U : F[k][x] = (IF ok[k] THEN Taken(x, batch[k], r) ELSE x)
  OBVIOUS
<1>3. TakenAll(s, batch, ok, r) = f[N]
  BY DEF TakenAll, TakingRun, Taking
<1> HIDE DEF F, f
<1>4. PICK g : Iterates(g, N, U, base, F)
  <2> HIDE DEF N, base
  <2> QED BY <1>1, Recursion
<1>5. g \in [0 .. N -> U] /\ g[0] = base /\ \A k \in 1 .. N : g[k] = F[k][g[k - 1]]
  BY <1>4 DEF Iterates
<1>6. ASSUME NEW k \in 1 .. N PROVE g[k - 1] \in U /\ g[k] = (IF ok[k] THEN Taken(g[k - 1], batch[k], r) ELSE g[k - 1])
  <2> HIDE DEF N, base
  <2>1. k - 1 \in 0 .. N
    BY <1>1
  <2>2. g[k - 1] \in U
    BY <1>5, <2>1
  <2> QED BY <1>2, <1>5, <2>2
<1>7. \E h : Taking(h, s, batch, ok, r)
  <2>1. g = [n \in 0 .. N |-> IF n = 0 THEN base ELSE (IF ok[n] THEN Taken(g[n - 1], batch[n], r) ELSE g[n - 1])]
    <3> HIDE DEF N, base
    <3>1. \A k \in 0 .. N : k # 0 => k \in 1 .. N
      BY <1>1
    <3> QED BY <1>5, <1>6, <3>1
  <2> QED BY <2>1 DEF Taking
<1>8. f = [n \in 0 .. N |-> IF n = 0 THEN base ELSE (IF ok[n] THEN Taken(f[n - 1], batch[n], r) ELSE f[n - 1])]
  BY <1>7 DEF f, TakingRun, Taking
<1>9. f[0] = base /\ \A k \in 1 .. N : f[k] = (IF ok[k] THEN Taken(f[k - 1], batch[k], r) ELSE f[k - 1])
  <2> HIDE DEF N, base
  <2>1. 0 \in 0 .. N /\ \A k \in 1 .. N : k \in 0 .. N /\ k # 0
    BY <1>1
  <2> QED BY <1>8, <2>1
<1>10. \A k \in 0 .. N : f[k] \in U
  <2> DEFINE S == {k \in 0 .. N : f[k] \in U}
  <2>1. 0 \in S
    <3> HIDE DEF N, base
    <3> QED BY <1>1, <1>9
  <2>2. ASSUME NEW k \in 1 .. N, k - 1 \in S PROVE k \in S
    <3>1. f[k - 1] \in U /\ k \in 0 .. N
      BY <1>1, <2>2
    <3> QED BY <1>9, <3>1
  <2>3. \A k \in 0 .. N : k \in S
    <3> HIDE DEF S, N
    <3> QED BY <1>1, <2>1, <2>2, Climb
  <2> QED BY <2>3
<1>11. f \in [0 .. N -> U]
  BY <1>8, <1>10
<1> HIDE DEF f
<1> QED BY <1>3, <1>9, <1>11 DEF f

Totalling(f, l, tokens) ==
    f = [n \in 0 .. Len(tokens) |-> IF n = 0 THEN 0 ELSE (f[n - 1] + Points(l, tokens[n]))]
TotallingRun(l, tokens) == CHOOSE f : Totalling(f, l, tokens)

\* Total.
LEMMA TotalSteps ==
  ASSUME NEW l, NEW tokens, NEW U, Len(tokens) \in Nat, 0 \in U,
         \A x \in U : \A k \in 1 .. Len(tokens) : (x + Points(l, tokens[k])) \in U
  PROVE  LET f == TotallingRun(l, tokens) IN
         /\ f \in [0 .. Len(tokens) -> U] /\ f[0] = 0 /\ Total(l, tokens) = f[Len(tokens)]
         /\ \A k \in 1 .. Len(tokens) : f[k] = (f[k - 1] + Points(l, tokens[k]))
<1> DEFINE N == Len(tokens)
           base == 0
           F == [k \in 1 .. N |-> [x \in U |-> (x + Points(l, tokens[k]))]]
           f == TotallingRun(l, tokens)
<1>1. N \in Nat /\ base \in U /\ F \in [1 .. N -> [U -> U]]
  OBVIOUS
<1>2. \A k \in 1 .. N : \A x \in U : F[k][x] = (x + Points(l, tokens[k]))
  OBVIOUS
<1>3. Total(l, tokens) = f[N]
  BY DEF Total, TotallingRun, Totalling
<1> HIDE DEF F, f
<1>4. PICK g : Iterates(g, N, U, base, F)
  <2> HIDE DEF N, base
  <2> QED BY <1>1, Recursion
<1>5. g \in [0 .. N -> U] /\ g[0] = base /\ \A k \in 1 .. N : g[k] = F[k][g[k - 1]]
  BY <1>4 DEF Iterates
<1>6. ASSUME NEW k \in 1 .. N PROVE g[k - 1] \in U /\ g[k] = (g[k - 1] + Points(l, tokens[k]))
  <2> HIDE DEF N, base
  <2>1. k - 1 \in 0 .. N
    BY <1>1
  <2>2. g[k - 1] \in U
    BY <1>5, <2>1
  <2> QED BY <1>2, <1>5, <2>2
<1>7. \E h : Totalling(h, l, tokens)
  <2>1. g = [n \in 0 .. N |-> IF n = 0 THEN base ELSE (g[n - 1] + Points(l, tokens[n]))]
    <3> HIDE DEF N, base
    <3>1. \A k \in 0 .. N : k # 0 => k \in 1 .. N
      BY <1>1
    <3> QED BY <1>5, <1>6, <3>1
  <2> QED BY <2>1 DEF Totalling
<1>8. f = [n \in 0 .. N |-> IF n = 0 THEN base ELSE (f[n - 1] + Points(l, tokens[n]))]
  BY <1>7 DEF f, TotallingRun, Totalling
<1>9. f[0] = base /\ \A k \in 1 .. N : f[k] = (f[k - 1] + Points(l, tokens[k]))
  <2> HIDE DEF N, base
  <2>1. 0 \in 0 .. N /\ \A k \in 1 .. N : k \in 0 .. N /\ k # 0
    BY <1>1
  <2> QED BY <1>8, <2>1
<1>10. \A k \in 0 .. N : f[k] \in U
  <2> DEFINE S == {k \in 0 .. N : f[k] \in U}
  <2>1. 0 \in S
    <3> HIDE DEF N, base
    <3> QED BY <1>1, <1>9
  <2>2. ASSUME NEW k \in 1 .. N, k - 1 \in S PROVE k \in S
    <3>1. f[k - 1] \in U /\ k \in 0 .. N
      BY <1>1, <2>2
    <3> QED BY <1>9, <3>1
  <2>3. \A k \in 0 .. N : k \in S
    <3> HIDE DEF S, N
    <3> QED BY <1>1, <2>1, <2>2, Climb
  <2> QED BY <2>3
<1>11. f \in [0 .. N -> U]
  BY <1>8, <1>10
<1> HIDE DEF f
<1> QED BY <1>3, <1>9, <1>11 DEF f

Ranking(f, links, tokens) ==
    f = [n \in 0 .. Len(links) |-> IF n = 0 THEN << >> ELSE RankedIn(f[n - 1], Scored(links[n], tokens))]
RankingRun(links, tokens) == CHOOSE f : Ranking(f, links, tokens)

\* Ranked.
LEMMA RankedSteps ==
  ASSUME NEW links, NEW tokens, tokens \notin {Nothing, << >>}, NEW U, Len(links) \in Nat, << >> \in U,
         \A x \in U : \A k \in 1 .. Len(links) : RankedIn(x, Scored(links[k], tokens)) \in U
  PROVE  LET f == RankingRun(links, tokens) IN
         /\ f \in [0 .. Len(links) -> U] /\ f[0] = << >> /\ Ranked(links, tokens) = f[Len(links)]
         /\ \A k \in 1 .. Len(links) : f[k] = RankedIn(f[k - 1], Scored(links[k], tokens))
<1> DEFINE N == Len(links)
           base == << >>
           F == [k \in 1 .. N |-> [x \in U |-> RankedIn(x, Scored(links[k], tokens))]]
           f == RankingRun(links, tokens)
<1>1. N \in Nat /\ base \in U /\ F \in [1 .. N -> [U -> U]]
  OBVIOUS
<1>2. \A k \in 1 .. N : \A x \in U : F[k][x] = RankedIn(x, Scored(links[k], tokens))
  OBVIOUS
<1>3. Ranked(links, tokens) = f[N]
  BY DEF Ranked, RankingRun, Ranking
<1> HIDE DEF F, f
<1>4. PICK g : Iterates(g, N, U, base, F)
  <2> HIDE DEF N, base
  <2> QED BY <1>1, Recursion
<1>5. g \in [0 .. N -> U] /\ g[0] = base /\ \A k \in 1 .. N : g[k] = F[k][g[k - 1]]
  BY <1>4 DEF Iterates
<1>6. ASSUME NEW k \in 1 .. N PROVE g[k - 1] \in U /\ g[k] = RankedIn(g[k - 1], Scored(links[k], tokens))
  <2> HIDE DEF N, base
  <2>1. k - 1 \in 0 .. N
    BY <1>1
  <2>2. g[k - 1] \in U
    BY <1>5, <2>1
  <2> QED BY <1>2, <1>5, <2>2
<1>7. \E h : Ranking(h, links, tokens)
  <2>1. g = [n \in 0 .. N |-> IF n = 0 THEN base ELSE RankedIn(g[n - 1], Scored(links[n], tokens))]
    <3> HIDE DEF N, base
    <3>1. \A k \in 0 .. N : k # 0 => k \in 1 .. N
      BY <1>1
    <3> QED BY <1>5, <1>6, <3>1
  <2> QED BY <2>1 DEF Ranking
<1>8. f = [n \in 0 .. N |-> IF n = 0 THEN base ELSE RankedIn(f[n - 1], Scored(links[n], tokens))]
  BY <1>7 DEF f, RankingRun, Ranking
<1>9. f[0] = base /\ \A k \in 1 .. N : f[k] = RankedIn(f[k - 1], Scored(links[k], tokens))
  <2> HIDE DEF N, base
  <2>1. 0 \in 0 .. N /\ \A k \in 1 .. N : k \in 0 .. N /\ k # 0
    BY <1>1
  <2> QED BY <1>8, <2>1
<1>10. \A k \in 0 .. N : f[k] \in U
  <2> DEFINE S == {k \in 0 .. N : f[k] \in U}
  <2>1. 0 \in S
    <3> HIDE DEF N, base
    <3> QED BY <1>1, <1>9
  <2>2. ASSUME NEW k \in 1 .. N, k - 1 \in S PROVE k \in S
    <3>1. f[k - 1] \in U /\ k \in 0 .. N
      BY <1>1, <2>2
    <3> QED BY <1>9, <3>1
  <2>3. \A k \in 0 .. N : k \in S
    <3> HIDE DEF S, N
    <3> QED BY <1>1, <2>1, <2>2, Climb
  <2> QED BY <2>3
<1>11. f \in [0 .. N -> U]
  BY <1>8, <1>10
<1> HIDE DEF f
<1> QED BY <1>3, <1>9, <1>11 DEF f

Keeping(f, links, r) ==
    f = [n \in 0 .. Len(links) |-> IF n = 0 THEN << >> ELSE Kept(f[n - 1], links[n], r)]
KeepingRun(links, r) == CHOOSE f : Keeping(f, links, r)

\* Results.
LEMMA KeptSteps ==
  ASSUME NEW links, NEW r, NEW U, Len(links) \in Nat, << >> \in U,
         \A x \in U : \A k \in 1 .. Len(links) : Kept(x, links[k], r) \in U
  PROVE  LET f == KeepingRun(links, r) IN
         /\ f \in [0 .. Len(links) -> U] /\ f[0] = << >> /\ Results(links, r) = First(Clamped(r.limit), f[Len(links)])
         /\ \A k \in 1 .. Len(links) : f[k] = Kept(f[k - 1], links[k], r)
<1> DEFINE N == Len(links)
           base == << >>
           F == [k \in 1 .. N |-> [x \in U |-> Kept(x, links[k], r)]]
           f == KeepingRun(links, r)
<1>1. N \in Nat /\ base \in U /\ F \in [1 .. N -> [U -> U]]
  OBVIOUS
<1>2. \A k \in 1 .. N : \A x \in U : F[k][x] = Kept(x, links[k], r)
  OBVIOUS
<1>3. Results(links, r) = First(Clamped(r.limit), f[N])
  BY DEF Results, KeepingRun, Keeping
<1> HIDE DEF F, f
<1>4. PICK g : Iterates(g, N, U, base, F)
  <2> HIDE DEF N, base
  <2> QED BY <1>1, Recursion
<1>5. g \in [0 .. N -> U] /\ g[0] = base /\ \A k \in 1 .. N : g[k] = F[k][g[k - 1]]
  BY <1>4 DEF Iterates
<1>6. ASSUME NEW k \in 1 .. N PROVE g[k - 1] \in U /\ g[k] = Kept(g[k - 1], links[k], r)
  <2> HIDE DEF N, base
  <2>1. k - 1 \in 0 .. N
    BY <1>1
  <2>2. g[k - 1] \in U
    BY <1>5, <2>1
  <2> QED BY <1>2, <1>5, <2>2
<1>7. \E h : Keeping(h, links, r)
  <2>1. g = [n \in 0 .. N |-> IF n = 0 THEN base ELSE Kept(g[n - 1], links[n], r)]
    <3> HIDE DEF N, base
    <3>1. \A k \in 0 .. N : k # 0 => k \in 1 .. N
      BY <1>1
    <3> QED BY <1>5, <1>6, <3>1
  <2> QED BY <2>1 DEF Keeping
<1>8. f = [n \in 0 .. N |-> IF n = 0 THEN base ELSE Kept(f[n - 1], links[n], r)]
  BY <1>7 DEF f, KeepingRun, Keeping
<1>9. f[0] = base /\ \A k \in 1 .. N : f[k] = Kept(f[k - 1], links[k], r)
  <2> HIDE DEF N, base
  <2>1. 0 \in 0 .. N /\ \A k \in 1 .. N : k \in 0 .. N /\ k # 0
    BY <1>1
  <2> QED BY <1>8, <2>1
<1>10. \A k \in 0 .. N : f[k] \in U
  <2> DEFINE S == {k \in 0 .. N : f[k] \in U}
  <2>1. 0 \in S
    <3> HIDE DEF N, base
    <3> QED BY <1>1, <1>9
  <2>2. ASSUME NEW k \in 1 .. N, k - 1 \in S PROVE k \in S
    <3>1. f[k - 1] \in U /\ k \in 0 .. N
      BY <1>1, <2>2
    <3> QED BY <1>9, <3>1
  <2>3. \A k \in 0 .. N : k \in S
    <3> HIDE DEF S, N
    <3> QED BY <1>1, <2>1, <2>2, Climb
  <2> QED BY <2>3
<1>11. f \in [0 .. N -> U]
  BY <1>8, <1>10
<1> HIDE DEF f
<1> QED BY <1>3, <1>9, <1>11 DEF f

Leading(f, r, pages) ==
    f = [n \in 0 .. r.depth |-> IF n = 0 THEN {r.url} ELSE LinkedFrom(f[n - 1], r, pages)]
LeadingRun(r, pages) == CHOOSE f : Leading(f, r, pages)

\* Away.
LEMMA AwaySteps ==
  ASSUME NEW r, NEW pages, NEW U, r.depth \in Nat, {r.url} \in U,
         \A x \in U : \A k \in 1 .. r.depth : LinkedFrom(x, r, pages) \in U
  PROVE  LET f == LeadingRun(r, pages) IN
         /\ f \in [0 .. r.depth -> U] /\ f[0] = {r.url} /\ Away(r, pages) = f
         /\ \A k \in 1 .. r.depth : f[k] = LinkedFrom(f[k - 1], r, pages)
<1> DEFINE N == r.depth
           base == {r.url}
           F == [k \in 1 .. N |-> [x \in U |-> LinkedFrom(x, r, pages)]]
           f == LeadingRun(r, pages)
<1>1. N \in Nat /\ base \in U /\ F \in [1 .. N -> [U -> U]]
  OBVIOUS
<1>2. \A k \in 1 .. N : \A x \in U : F[k][x] = LinkedFrom(x, r, pages)
  OBVIOUS
<1>3. Away(r, pages) = f
  BY DEF Away, LeadingRun, Leading
<1> HIDE DEF F, f
<1>4. PICK g : Iterates(g, N, U, base, F)
  <2> HIDE DEF N, base
  <2> QED BY <1>1, Recursion
<1>5. g \in [0 .. N -> U] /\ g[0] = base /\ \A k \in 1 .. N : g[k] = F[k][g[k - 1]]
  BY <1>4 DEF Iterates
<1>6. ASSUME NEW k \in 1 .. N PROVE g[k - 1] \in U /\ g[k] = LinkedFrom(g[k - 1], r, pages)
  <2> HIDE DEF N, base
  <2>1. k - 1 \in 0 .. N
    BY <1>1
  <2>2. g[k - 1] \in U
    BY <1>5, <2>1
  <2> QED BY <1>2, <1>5, <2>2
<1>7. \E h : Leading(h, r, pages)
  <2>1. g = [n \in 0 .. N |-> IF n = 0 THEN base ELSE LinkedFrom(g[n - 1], r, pages)]
    <3> HIDE DEF N, base
    <3>1. \A k \in 0 .. N : k # 0 => k \in 1 .. N
      BY <1>1
    <3> QED BY <1>5, <1>6, <3>1
  <2> QED BY <2>1 DEF Leading
<1>8. f = [n \in 0 .. N |-> IF n = 0 THEN base ELSE LinkedFrom(f[n - 1], r, pages)]
  BY <1>7 DEF f, LeadingRun, Leading
<1>9. f[0] = base /\ \A k \in 1 .. N : f[k] = LinkedFrom(f[k - 1], r, pages)
  <2> HIDE DEF N, base
  <2>1. 0 \in 0 .. N /\ \A k \in 1 .. N : k \in 0 .. N /\ k # 0
    BY <1>1
  <2> QED BY <1>8, <2>1
<1>10. \A k \in 0 .. N : f[k] \in U
  <2> DEFINE S == {k \in 0 .. N : f[k] \in U}
  <2>1. 0 \in S
    <3> HIDE DEF N, base
    <3> QED BY <1>1, <1>9
  <2>2. ASSUME NEW k \in 1 .. N, k - 1 \in S PROVE k \in S
    <3>1. f[k - 1] \in U /\ k \in 0 .. N
      BY <1>1, <2>2
    <3> QED BY <1>9, <3>1
  <2>3. \A k \in 0 .. N : k \in S
    <3> HIDE DEF S, N
    <3> QED BY <1>1, <2>1, <2>2, Climb
  <2> QED BY <2>3
<1>11. f \in [0 .. N -> U]
  BY <1>8, <1>10
<1> HIDE DEF f
<1> QED BY <1>3, <1>9, <1>11 DEF f

-----------------------------------------------------------------------------
\* What is asked of the map service, and the addresses it meets.
IsMap(r) ==
    /\ r.url \in Addresses /\ r.limit \in Nat /\ r.depth \in Nat
    /\ r.search \in Seq(DOMAIN Fit) \cup {Nothing}

\* A normal form is one of its own, and as allowed as its address.
LEMMA NormalForm ==
  ASSUME NEW u \in Addresses, NEW r
  PROVE  /\ Normalised(u, r) \in Addresses
         /\ Normalised(Normalised(u, r), r) = Normalised(u, r)
         /\ Allowed(Normalised(u, r), r) <=> Allowed(u, r)
<1> DEFINE n == Normalised(u, r)
<1>1. /\ Normal \in [Addresses -> Addresses] /\ Bare \in [Addresses -> Addresses]
      /\ Normal[Normal[u]] = Normal[u] /\ Bare[Bare[u]] = Bare[u]
      /\ HostOf[Normal[u]] = HostOf[u] /\ HostOf[Bare[u]] = HostOf[u]
      /\ PathOf[Normal[u]] = PathOf[u] /\ PathOf[Bare[u]] = PathOf[u]
  BY AddressesAssumption
<1>2. n \in Addresses /\ Normalised(n, r) = n /\ HostOf[n] = HostOf[u] /\ PathOf[n] = PathOf[u]
  BY <1>1 DEF Normalised
<1> HIDE DEF n
<1>3. Allowed(n, r) <=> Allowed(u, r)
  BY <1>2 DEF Allowed
<1> QED BY <1>2, <1>3 DEF n

\* The first elements of a sequence.
LEMMA FirstFacts ==
  ASSUME NEW T, NEW s \in Seq(T), NEW n \in Nat
  PROVE  /\ First(n, s) \in Seq(T) /\ Len(First(n, s)) = IF Len(s) < n THEN Len(s) ELSE n
         /\ DOMAIN First(n, s) = 1 .. Len(First(n, s)) /\ Len(s) \in Nat
         /\ \A i \in DOMAIN First(n, s) : i \in DOMAIN s /\ First(n, s)[i] = s[i]
<1> DEFINE m == IF Len(s) < n THEN Len(s) ELSE n
<1>1. Len(s) \in Nat /\ DOMAIN s = 1 .. Len(s)
  BY Places
<1>2. m \in Nat /\ m <= Len(s) /\ First(n, s) = SubSeq(s, 1, m)
  BY <1>1 DEF First
<1> HIDE DEF m
<1>3. /\ SubSeq(s, 1, m) \in Seq(T) /\ Len(SubSeq(s, 1, m)) = m
      /\ \A i \in 1 .. m : SubSeq(s, 1, m)[i] = s[i]
  <2>1. \A i \in 1 .. m : s[i] \in T
    BY <1>1, <1>2, Places
  <2>2. /\ SubSeq(s, 1, m) \in Seq(T)
        /\ Len(SubSeq(s, 1, m)) = IF 1 <= m THEN m - 1 + 1 ELSE 0
        /\ \A i \in 1 .. m - 1 + 1 : SubSeq(s, 1, m)[i] = s[1 + i - 1]
    BY <1>2, <2>1, SubSeqProperties
  <2>3. Len(SubSeq(s, 1, m)) = m
    BY <1>2, <2>2
  <2>4. ASSUME NEW i \in 1 .. m PROVE SubSeq(s, 1, m)[i] = s[i]
    <3>1. i \in 1 .. m - 1 + 1 /\ 1 + i - 1 = i
      BY <1>2
    <3> QED BY <2>2, <3>1
  <2> QED BY <2>2, <2>3, <2>4
<1>4. DOMAIN First(n, s) = 1 .. m
  BY <1>2, <1>3, Places
<1>5. \A i \in 1 .. m : i \in DOMAIN s
  BY <1>1, <1>2
<1> QED BY <1>1, <1>2, <1>3, <1>4, <1>5 DEF m

\* The links of a page are addresses.
LEMMA PageLinksFacts ==
  ASSUME NEW u \in DOMAIN LinksOf
  PROVE  /\ PageLinks(u) \in Seq(Addresses) /\ Len(PageLinks(u)) \in Nat
         /\ \A k \in 1 .. Len(PageLinks(u)) : PageLinks(u)[k] \in Addresses
         /\ Range(PageLinks(u)) = {PageLinks(u)[k] : k \in 1 .. Len(PageLinks(u))}
<1> DEFINE links == First(MaxLinks, LinksOf[u])
<1>1. LinksOf[u] \in Seq(Addresses) /\ MaxLinks \in Nat
  BY PagesAssumption, BoundsAssumption
<1>2. links \in Seq(Addresses)
  BY <1>1, FirstFacts
<1>3. /\ Len(links) \in Nat /\ DOMAIN links = 1 .. Len(links)
      /\ \A i \in DOMAIN links : links[i] \in Addresses
  BY <1>2, Places
<1>4. Normal \in [Addresses -> Addresses]
  BY AddressesAssumption
<1>5. PageLinks(u) = [i \in DOMAIN links |-> Normal[links[i]]]
  BY DEF PageLinks
<1> HIDE DEF links
<1>6. PageLinks(u) \in [1 .. Len(links) -> Addresses]
  BY <1>3, <1>4, <1>5
<1>7. PageLinks(u) \in Seq(Addresses)
  BY <1>3, <1>6, IsASeq
<1>8. /\ Len(PageLinks(u)) \in Nat /\ DOMAIN PageLinks(u) = 1 .. Len(PageLinks(u))
      /\ \A i \in DOMAIN PageLinks(u) : PageLinks(u)[i] \in Addresses
  BY <1>7, Places
<1> QED BY <1>7, <1>8 DEF Range

-----------------------------------------------------------------------------
\* What is so many links away.
Reads(pages) == \A t \in pages : t.ok => t.url \in DOMAIN LinksOf

Reaches(u, l, t, us, r) ==
    t.ok /\ t.url \in us /\ l \in Range(PageLinks(t.url)) /\ u = Normalised(l, r) /\ Allowed(u, r)

\* An address is linked if a page that answered has a link with that form.
LEMMA LinkedFromFacts ==
  ASSUME NEW us, NEW r, NEW pages, NEW u
  PROVE  u \in LinkedFrom(us, r, pages) <=> \E t \in pages : \E l : Reaches(u, l, t, us, r)
<1> DEFINE answered == {t.url : t \in {t \in pages : t.ok /\ t.url \in us}}
           linked == UNION {{Normalised(l, r) : l \in Range(PageLinks(p))} : p \in answered}
<1>1. LinkedFrom(us, r, pages) = {v \in linked : Allowed(v, r)}
  BY DEF LinkedFrom
<1>2. ASSUME u \in LinkedFrom(us, r, pages) PROVE \E t \in pages : \E l : Reaches(u, l, t, us, r)
  <2>1. PICK p \in answered : u \in {Normalised(l, r) : l \in Range(PageLinks(p))}
    BY <1>1, <1>2
  <2>2. PICK l \in Range(PageLinks(p)) : u = Normalised(l, r)
    BY <2>1
  <2>3. PICK t \in pages : t.ok /\ t.url \in us /\ p = t.url
    BY <2>1
  <2>4. Allowed(u, r)
    BY <1>1, <1>2
  <2> QED BY <2>2, <2>3, <2>4 DEF Reaches
<1>3. ASSUME NEW t \in pages, NEW l, Reaches(u, l, t, us, r) PROVE u \in LinkedFrom(us, r, pages)
  <2>1. t.url \in answered
    BY <1>3 DEF Reaches
  <2>2. u \in {Normalised(m, r) : m \in Range(PageLinks(t.url))} /\ Allowed(u, r)
    BY <1>3 DEF Reaches
  <2>3. u \in linked
    <3> HIDE DEF answered
    <3> QED BY <2>1, <2>2
  <2> QED BY <1>1, <2>2, <2>3
<1> QED BY <1>2, <1>3

\* What is linked is an address.
LEMMA LinkedFromIn ==
  ASSUME NEW us, NEW r, NEW pages, Reads(pages)
  PROVE  LinkedFrom(us, r, pages) \subseteq Addresses
<1> SUFFICES ASSUME NEW u \in LinkedFrom(us, r, pages) PROVE u \in Addresses
  OBVIOUS
<1>0. PICK t \in pages : \E l : Reaches(u, l, t, us, r)
  BY LinkedFromFacts
<1>1. PICK l : Reaches(u, l, t, us, r)
  BY <1>0
<1>2. t.url \in DOMAIN LinksOf /\ l \in Range(PageLinks(t.url)) /\ u = Normalised(l, r)
  BY <1>1 DEF Reads, Reaches
<1>3. l \in Addresses
  BY <1>2, PageLinksFacts
<1> QED BY <1>2, <1>3, NormalForm

\* The levels: the address of the request, then what each links to.
LEMMA AwayFacts ==
  ASSUME NEW r, IsMap(r), NEW pages, Reads(pages)
  PROVE  /\ Away(r, pages)[0] = {r.url}
         /\ \A n \in 1 .. r.depth : Away(r, pages)[n] = LinkedFrom(Away(r, pages)[n - 1], r, pages)
         /\ \A n \in 0 .. r.depth : Away(r, pages)[n] \subseteq Addresses
<1> DEFINE U == SUBSET Addresses
           f == LeadingRun(r, pages)
<1>1. r.depth \in Nat /\ {r.url} \in U
  BY DEF IsMap
<1>2. \A x \in U : \A k \in 1 .. r.depth : LinkedFrom(x, r, pages) \in U
  BY LinkedFromIn
<1> HIDE DEF U
<1>3. /\ f \in [0 .. r.depth -> U] /\ f[0] = {r.url} /\ Away(r, pages) = f
      /\ \A k \in 1 .. r.depth : f[k] = LinkedFrom(f[k - 1], r, pages)
  BY <1>1, <1>2, AwaySteps
<1> HIDE DEF f
<1>4. \A n \in 0 .. r.depth : f[n] \in U
  BY <1>3
<1> QED BY <1>3, <1>4 DEF U

\* With more pages read no less is so many links away.
LEMMA AwayGrows ==
  ASSUME NEW r, IsMap(r), NEW pages, NEW more, pages \subseteq more, Reads(more)
  PROVE  \A n \in 0 .. r.depth : Away(r, pages)[n] \subseteq Away(r, more)[n]
<1> DEFINE S == {n \in 0 .. r.depth : Away(r, pages)[n] \subseteq Away(r, more)[n]}
<1>1. Reads(pages) /\ r.depth \in Nat
  BY DEF Reads, IsMap
<1>2. 0 \in S
  BY <1>1, AwayFacts
<1>3. ASSUME NEW n \in 1 .. r.depth, n - 1 \in S PROVE n \in S
  <2>1. n \in 0 .. r.depth
    BY <1>1
  <2>2. /\ Away(r, pages)[n] = LinkedFrom(Away(r, pages)[n - 1], r, pages)
        /\ Away(r, more)[n] = LinkedFrom(Away(r, more)[n - 1], r, more)
    BY <1>1, AwayFacts
  <2>3. Away(r, pages)[n - 1] \subseteq Away(r, more)[n - 1]
    BY <1>3
  <2>4. ASSUME NEW u \in Away(r, pages)[n] PROVE u \in Away(r, more)[n]
    <3>0. PICK t \in pages : \E l : Reaches(u, l, t, Away(r, pages)[n - 1], r)
      BY <2>2, LinkedFromFacts
    <3>1. PICK l : Reaches(u, l, t, Away(r, pages)[n - 1], r)
      BY <3>0
    <3>2. t \in more /\ Reaches(u, l, t, Away(r, more)[n - 1], r)
      BY <2>3, <3>1 DEF Reaches
    <3> QED BY <2>2, <3>2, LinkedFromFacts
  <2> QED BY <2>1, <2>4
<1>4. \A n \in 0 .. r.depth : n \in S
  <2> HIDE DEF S
  <2> QED BY <1>1, <1>2, <1>3, Climb
<1> QED BY <1>4

-----------------------------------------------------------------------------
\* Lists of links.
LEMMA LinkFacts ==
  ASSUME NEW u \in Addresses, NEW source \in Sources, NEW read \in BOOLEAN
  PROVE  /\ Link(u, source, read) \in Links /\ Link(u, source, read).url = u
         /\ Link(u, source, read).source = source
  BY DEF Link, Links

\* The empty list.
LEMMA NoLinks ==
  ASSUME NEW T
  PROVE  << >> \in Seq(T) /\ Distinct(<< >>) /\ Urls(<< >>) = {} /\ DOMAIN << >> = {}
<1>1. << >> \in Seq(T) /\ DOMAIN << >> = {}
  <2>1. << >> \in Seq(T) /\ Len(<< >>) = 0
    BY EmptySeq
  <2> QED BY <2>1, Places
<1> QED BY <1>1 DEF Distinct, Urls

\* A list with one more link.
LEMMA AppendLink ==
  ASSUME NEW T, NEW f \in Seq(T), NEW l \in T
  PROVE  /\ Append(f, l) \in Seq(T) /\ Len(Append(f, l)) = Len(f) + 1 /\ Len(f) \in Nat
         /\ DOMAIN Append(f, l) = DOMAIN f \cup {Len(f) + 1} /\ Len(f) + 1 \notin DOMAIN f
         /\ \A i \in DOMAIN f : Append(f, l)[i] = f[i]
         /\ Append(f, l)[Len(f) + 1] = l
         /\ Urls(Append(f, l)) = Urls(f) \cup {l.url}
         /\ Distinct(f) /\ l.url \notin Urls(f) => Distinct(Append(f, l))
<1> DEFINE g == Append(f, l)
           n == Len(f)
<1>1. n \in Nat /\ DOMAIN f = 1 .. n
  BY Places
<1>2. g \in Seq(T) /\ Len(g) = n + 1 /\ g[n + 1] = l /\ \A i \in 1 .. n : g[i] = f[i]
  BY AppendProperties
<1>3. DOMAIN g = 1 .. n + 1
  <2> HIDE DEF g, n
  <2> QED BY <1>2, Places
<1> HIDE DEF g, n
<1>4. DOMAIN g = DOMAIN f \cup {n + 1} /\ n + 1 \notin DOMAIN f
  BY <1>1, <1>3
<1>5. Urls(g) = Urls(f) \cup {l.url}
  <2>1. \A i \in DOMAIN f : g[i].url = f[i].url
    BY <1>1, <1>2
  <2> QED BY <1>2, <1>4, <2>1 DEF Urls
<1>6. ASSUME Distinct(f), l.url \notin Urls(f) PROVE Distinct(g)
  <2> SUFFICES ASSUME NEW i \in DOMAIN g, NEW j \in DOMAIN g, g[i].url = g[j].url PROVE i = j
    BY DEF Distinct
  <2>1. \A k \in DOMAIN f : g[k] = f[k] /\ f[k].url # l.url
    BY <1>1, <1>2, <1>6 DEF Urls
  <2> QED BY <1>2, <1>4, <1>6, <2>1 DEF Distinct
<1> QED BY <1>1, <1>2, <1>4, <1>5, <1>6 DEF g, n

-----------------------------------------------------------------------------
\* The links of sitemaps.
Listing(f, s, r) ==
    /\ f \in Seq(Links) /\ s = Urls(f) /\ s \subseteq Addresses /\ Distinct(f)
    /\ \A i \in DOMAIN f : Allowed(f[i].url, r) /\ f[i].source = "sitemap"

Lists(r) == {x \in [found : Seq(Links), known : SUBSET Addresses] : Listing(x.found, x.known, r)}

\* One address of a sitemap keeps the list what it is (Entered).
LEMMA EnteredKeeps ==
  ASSUME NEW r, NEW x \in Lists(r), NEW u \in Addresses
  PROVE  Entered(x, u, r) \in Lists(r)
<1> DEFINE n == Normalised(u, r)
           l == Link(n, "sitemap", FALSE)
           f == Append(x.found, l)
           s == x.known \cup {n}
<1>1. CASE Len(x.found) >= 2 * r.limit \/ ~Allowed(n, r) \/ n \in x.known
  BY <1>1 DEF Entered
<1>2. CASE ~(Len(x.found) >= 2 * r.limit \/ ~Allowed(n, r) \/ n \in x.known)
  <2>1. Entered(x, u, r) = [found |-> f, known |-> s]
    BY <1>2 DEF Entered
  <2>2. n \in Addresses /\ l \in Links /\ l.url = n /\ l.source = "sitemap"
    <3>1. n \in Addresses
      BY NormalForm
    <3>2. "sitemap" \in Sources /\ FALSE \in BOOLEAN
      BY DEF Sources
    <3> HIDE DEF n
    <3> QED BY <3>1, <3>2, LinkFacts
  <2>3. x.found \in Seq(Links) /\ Listing(x.found, x.known, r) /\ x.known \subseteq Addresses
    BY DEF Lists
  <2>4. /\ f \in Seq(Links) /\ DOMAIN f = DOMAIN x.found \cup {Len(x.found) + 1}
        /\ \A i \in DOMAIN x.found : f[i] = x.found[i]
        /\ f[Len(x.found) + 1] = l
        /\ Urls(f) = Urls(x.found) \cup {n} /\ (Distinct(x.found) /\ n \notin Urls(x.found) => Distinct(f))
    <3> HIDE DEF l, n
    <3> QED BY <2>2, <2>3, AppendLink
  <2>5. Allowed(n, r) /\ n \notin x.known
    BY <1>2
  <2> HIDE DEF f, l, n
  <2>6. Listing(f, s, r) /\ s \subseteq Addresses
    BY <2>2, <2>3, <2>4, <2>5 DEF Listing
  <2> HIDE DEF s
  <2>7. [found |-> f, known |-> s] \in Lists(r)
    BY <2>4, <2>6 DEF Lists
  <2> QED BY <2>1, <2>7
<1> QED BY <1>1, <1>2

\* So do all addresses of a sitemap.
LEMMA EnteredAllKeeps ==
  ASSUME NEW r, NEW f, NEW s, Listing(f, s, r), NEW urls \in Seq(Addresses)
  PROVE  LET all == EnteredAll([found |-> f, known |-> s], urls, r)
         IN  Listing(all.found, all.known, r)
<1> DEFINE x0 == [found |-> f, known |-> s]
           U == Lists(r)
<1>1. x0 \in U
  BY DEF Lists, Listing
<1>2. Len(urls) \in Nat /\ \A k \in 1 .. Len(urls) : urls[k] \in Addresses
  BY Places
<1>3. \A x \in U : \A k \in 1 .. Len(urls) : Entered(x, urls[k], r) \in U
  BY <1>2, EnteredKeeps
<1> HIDE DEF x0, U
<1>4. /\ EnteringRun(x0, urls, r) \in [0 .. Len(urls) -> U]
      /\ EnteredAll(x0, urls, r) = EnteringRun(x0, urls, r)[Len(urls)]
  BY ONLY <1>1, <1>2, <1>3, EnteredSteps
<1>5. EnteredAll(x0, urls, r) \in U
  BY <1>2, <1>4
<1> QED BY <1>5 DEF U, x0, Lists

\* The addresses in a sitemap are addresses.
LEMMA ParsedFacts ==
  ASSUME NEW u \in DOMAIN Files
  PROVE  Parsed(Files[u]).urls \in Seq(Addresses)
<1> DEFINE tags == Files[u]
           ends == {n \in DOMAIN tags : \/ tags[n].kind = "broken"
                                        \/ /\ tags[n].kind # "root"
                                           /\ Len(Of(tags[n].kind, tags, n)) >= MaxUrls}
           last == IF ends = {} THEN Len(tags) ELSE CHOOSE n \in ends : \A m \in ends : n <= m
           V == {k \in 1 .. last : tags[k].kind = "url"}
           U == Seq(V)
           urls == Of("url", tags, last)
<1>1. /\ DOMAIN tags = 1 .. Len(tags) /\ Len(tags) \in Nat
      /\ \A n \in DOMAIN tags : tags[n].kind = "url" => tags[n].loc \in Addresses
  BY PagesAssumption
<1>2. Parsed(tags).urls = [i \in DOMAIN urls |-> tags[urls[i]].loc]
  BY DEF Parsed
<1> HIDE DEF tags
<1>3. last \in 0 .. Len(tags)
  <2>1. ends \subseteq DOMAIN tags
    OBVIOUS
  <2> HIDE DEF ends
  <2>2. ends # {} => \E n \in ends : \A m \in ends : n <= m
    BY <1>1, <2>1, LeastElement
  <2>3. CASE ends = {}
    BY <1>1, <2>3
  <2>4. CASE ends # {}
    <3>1. last \in ends
      BY <2>2, <2>4
    <3> QED BY <1>1, <2>1, <3>1
  <2> QED BY <2>3, <2>4
<1> HIDE DEF last
<1>4. last \in Nat /\ << >> \in U
  BY <1>1, <1>3, EmptySeq
<1>5. \A x \in U : \A k \in 1 .. last : (IF tags[k].kind = "url" THEN Append(x, k) ELSE x) \in U
  <2> SUFFICES ASSUME NEW x \in U, NEW k \in 1 .. last
               PROVE  (IF tags[k].kind = "url" THEN Append(x, k) ELSE x) \in U
    OBVIOUS
  <2>1. ASSUME tags[k].kind = "url" PROVE Append(x, k) \in U
    <3>1. k \in V
      BY <2>1
    <3> HIDE DEF V
    <3> QED BY <3>1, AppendProperties
  <2> QED BY <2>1
<1>6. urls \in U
  <2> HIDE DEF U
  <2>1. /\ ChoosingRun("url", tags, last) \in [0 .. last -> U]
        /\ Of("url", tags, last) = ChoosingRun("url", tags, last)[last]
    BY ONLY <1>4, <1>5, OfSteps
  <2> QED BY <1>4, <2>1
<1> HIDE DEF urls
<1>7. Len(urls) \in Nat /\ DOMAIN urls = 1 .. Len(urls) /\ \A i \in DOMAIN urls : urls[i] \in V
  <2> HIDE DEF V
  <2> QED BY <1>6, Places
<1>8. \A k \in V : tags[k].loc \in Addresses
  BY <1>1, <1>3
<1> HIDE DEF V
<1>9. [i \in DOMAIN urls |-> tags[urls[i]].loc] \in [1 .. Len(urls) -> Addresses]
  BY <1>7, <1>8
<1>10. [i \in DOMAIN urls |-> tags[urls[i]].loc] \in Seq(Addresses)
  BY <1>7, <1>9, IsASeq
<1> QED BY <1>2, <1>10 DEF tags

-----------------------------------------------------------------------------
\* The pages of a site: those that wait in the queue or in a batch (w), and those
\* that were asked for (t).
Pages(r) == [url : Addresses, depth : 0 .. r.depth]
Visits(r) == [url : Addresses, depth : 0 .. r.depth, ok : BOOLEAN]
Walks(r) == [found : Seq(Links), known : SUBSET Addresses, queue : Seq(Pages(r))]

Seed(r) == Normalised(r.url, r)
PageOf(v) == [url |-> v.url, depth |-> v.depth]
KnownBy(q, w, t) == Range(q) \cup w \cup {PageOf(v) : v \in t}

\* The links found so far: those that are not from a sitemap are of pages P, and
\* as long as there is room every address that is known is among them.
Placed(f, s, P, t, r) ==
    /\ f \in Seq(Links) /\ s \subseteq Addresses /\ Seed(r) \in s
    /\ Distinct(f) /\ Urls(f) \subseteq s
    /\ \A i \in DOMAIN f : SoundLink(f[i], r, t)
    /\ \A i \in DOMAIN f : f[i].source # "sitemap" => \E e \in P : Normalised(e.url, r) = f[i].url
    /\ Len(f) < 2 * r.limit => s \subseteq Urls(f) \cup {Seed(r)}

OnTheWay(e, s, t, r) ==
    /\ e \in Pages(r) /\ e.url \in Away(r, t)[e.depth]
    /\ e.depth = 0 => e.url = r.url
    /\ e.depth # 0 => e.url \in s /\ Normalised(e.url, r) = e.url /\ e.url # Seed(r)

\* A link of a page that was read is known, and no page for it is deeper than the
\* next one.
LinkKnown(l, d, s, P, r) ==
    Allowed(Normalised(l, r), r) =>
       /\ Normalised(l, r) \in s
       /\ \A e \in P : e.url = Normalised(l, r) => e.depth <= d + 1

LinksKnown(v, s, P, r) ==
    v.ok /\ v.depth < r.depth =>
       \A l \in Range(PageLinks(v.url)) : LinkKnown(l, v.depth, s, P, r)

SeedListed(v, f, r) == v.ok /\ v.depth = 0 /\ Allowed(Seed(r), r) => Seed(r) \in Urls(f)

\* Pages are read in the order of their depth.
InOrder(q, w, t) ==
    /\ \A v \in t : (\A e \in w : v.depth <= e.depth) /\ (\A j \in DOMAIN q : v.depth <= q[j].depth)
    /\ \A e \in w : \A j \in DOMAIN q : e.depth <= q[j].depth /\ q[j].depth <= e.depth + 1
    /\ \A i, j \in DOMAIN q : i < j => q[i].depth <= q[j].depth /\ q[j].depth <= q[i].depth + 1

Exploring(x, w, t, r) ==
    /\ x \in Walks(r) /\ w \subseteq Pages(r) /\ t \subseteq Visits(r) /\ Reads(t)
    /\ Placed(x.found, x.known, KnownBy(x.queue, w, t), t, r)
    /\ \A e \in KnownBy(x.queue, w, t) : OnTheWay(e, x.known, t, r)
    /\ \A v \in t : LinksKnown(v, x.known, KnownBy(x.queue, w, t), r) /\ SeedListed(v, x.found, r)
    /\ InOrder(x.queue, w, t)

\* With more pages, and more of them asked for, the links are as good.
LEMMA PlacedGrows ==
  ASSUME NEW r, IsMap(r), NEW f, NEW s, NEW P, NEW t, Placed(f, s, P, t, r),
         NEW more, P \subseteq more, NEW t2, t \subseteq t2, Reads(t2)
  PROVE  Placed(f, s, more, t2, r)
<1>1. \A i \in DOMAIN f : SoundLink(f[i], r, t2)
  <2> SUFFICES ASSUME NEW i \in DOMAIN f PROVE SoundLink(f[i], r, t2)
    OBVIOUS
  <2>1. SoundLink(f[i], r, t) /\ r.depth \in Nat
    BY DEF Placed, IsMap
  <2>2. \A n \in 1 .. r.depth : Away(r, t)[n] \subseteq Away(r, t2)[n]
    <3>1. \A n \in 1 .. r.depth : n \in 0 .. r.depth
      BY <2>1
    <3> QED BY <3>1, AwayGrows
  <2> QED BY <2>1, <2>2 DEF SoundLink
<1> QED BY <1>1 DEF Placed

\* One more link, for a page that is known.
LEMMA PlacedAdds ==
  ASSUME NEW r, IsMap(r), NEW f, NEW s, NEW P, NEW t, Placed(f, s, P, t, r),
         NEW l \in Links, l.url \notin Urls(f), SoundLink(l, r, t),
         \E e \in P : Normalised(e.url, r) = l.url
  PROVE  Placed(Append(f, l), s \cup {l.url}, P, t, r)
<1> DEFINE g == Append(f, l)
           n == Len(f) + 1
<1>0. f \in Seq(Links)
  BY DEF Placed
<1>1. /\ g \in Seq(Links) /\ Len(g) = Len(f) + 1 /\ Len(f) \in Nat
      /\ DOMAIN g = DOMAIN f \cup {n} /\ \A i \in DOMAIN f : g[i] = f[i]
      /\ g[n] = l /\ Urls(g) = Urls(f) \cup {l.url} /\ (Distinct(f) => Distinct(g))
  BY <1>0, AppendLink
<1>2. l.url \in Addresses /\ r.limit \in Nat
  BY DEF Links, IsMap
<1> HIDE DEF g, n
<1>3. \A i \in DOMAIN g : SoundLink(g[i], r, t)
  BY <1>1 DEF Placed
<1>4. \A i \in DOMAIN g : g[i].source # "sitemap" => \E e \in P : Normalised(e.url, r) = g[i].url
  BY <1>1 DEF Placed
<1>5. ASSUME Len(g) < 2 * r.limit PROVE s \cup {l.url} \subseteq Urls(g) \cup {Seed(r)}
  <2>1. Len(f) < 2 * r.limit
    BY <1>1, <1>2, <1>5
  <2> QED BY <1>1, <2>1 DEF Placed
<1>6. /\ s \cup {l.url} \subseteq Addresses /\ Seed(r) \in s \cup {l.url}
      /\ Distinct(g) /\ Urls(g) \subseteq s \cup {l.url}
  BY <1>1, <1>2 DEF Placed
<1>7. Placed(g, s \cup {l.url}, P, t, r)
  BY <1>1, <1>3, <1>4, <1>5, <1>6 DEF Placed
<1> QED BY <1>7 DEF g

\* Links that differ only in what was read of them are as good.
LEMMA PlacedSame ==
  ASSUME NEW r, NEW f, NEW s, NEW P, NEW t, Placed(f, s, P, t, r),
         NEW g \in Seq(Links), DOMAIN g = DOMAIN f, Len(g) = Len(f),
         \A i \in DOMAIN f : g[i].url = f[i].url /\ g[i].source = f[i].source
  PROVE  Placed(g, s, P, t, r) /\ Urls(g) = Urls(f)
<1>1. Urls(g) = Urls(f)
  BY DEF Urls
<1>2. Distinct(g)
  BY DEF Placed, Distinct
<1>3. \A i \in DOMAIN g : SoundLink(g[i], r, t)
  BY DEF Placed, SoundLink
<1>4. \A i \in DOMAIN g : g[i].source # "sitemap" => \E e \in P : Normalised(e.url, r) = g[i].url
  BY DEF Placed
<1> QED BY <1>1, <1>2, <1>3, <1>4 DEF Placed

\* Noting a page gives a list of links.
LEMMA NotedTyped ==
  ASSUME NEW r, NEW f \in Seq(Links), NEW p \in Pages(r)
  PROVE  Noted(f, p, r) \in Seq(Links)
<1> DEFINE n == Normalised(p.url, r)
           l == Link(n, IF p.depth = 0 THEN "seed" ELSE "link", TRUE)
           g == [i \in DOMAIN f |-> IF f[i].url = n THEN [f[i] EXCEPT !.read = TRUE] ELSE f[i]]
<1>1. CASE n \in Urls(f)
  <2>1. Noted(f, p, r) = g
    BY <1>1 DEF Noted
  <2>2. Len(f) \in Nat /\ DOMAIN f = 1 .. Len(f) /\ \A i \in DOMAIN f : f[i] \in Links
    BY Places
  <2>3. \A i \in DOMAIN f : [f[i] EXCEPT !.read = TRUE] \in Links
    BY <2>2 DEF Links
  <2> HIDE DEF n
  <2>4. g \in [1 .. Len(f) -> Links]
    BY <2>2, <2>3
  <2> QED BY <2>1, <2>2, <2>4, IsASeq
<1>2. CASE n \notin Urls(f) /\ Allowed(p.url, r)
  <2>1. Noted(f, p, r) = Append(f, l)
    BY <1>2 DEF Noted
  <2>2. p.url \in Addresses
    BY DEF Pages
  <2>3. n \in Addresses
    BY <2>2, NormalForm
  <2>4. (IF p.depth = 0 THEN "seed" ELSE "link") \in Sources /\ TRUE \in BOOLEAN
    BY DEF Sources
  <2>5. l \in Links
    <3> HIDE DEF n
    <3> QED BY <2>3, <2>4, LinkFacts
  <2> HIDE DEF l
  <2> QED BY <2>1, <2>5, AppendProperties
<1>3. CASE n \notin Urls(f) /\ ~Allowed(p.url, r)
  BY <1>3 DEF Noted
<1> QED BY <1>1, <1>2, <1>3

\* A page that was read is in the list, if its address is allowed.
LEMMA NotedKeeps ==
  ASSUME NEW r, IsMap(r), NEW f, NEW s, NEW P, NEW t, Placed(f, s, P, t, r),
         NEW p \in P, OnTheWay(p, s, t, r)
  PROVE  /\ Placed(Noted(f, p, r), s, P, t, r) /\ Urls(f) \subseteq Urls(Noted(f, p, r))
         /\ p.depth = 0 /\ Allowed(Seed(r), r) => Seed(r) \in Urls(Noted(f, p, r))
<1> DEFINE n == Normalised(p.url, r)
           source == IF p.depth = 0 THEN "seed" ELSE "link"
           l == Link(n, source, TRUE)
           g == [i \in DOMAIN f |-> IF f[i].url = n THEN [f[i] EXCEPT !.read = TRUE] ELSE f[i]]
<1>1. f \in Seq(Links) /\ r.depth \in Nat /\ r.url \in Addresses /\ Seed(r) \in s
  BY DEF Placed, IsMap
<1>2. p.url \in Addresses /\ p.depth \in 0 .. r.depth /\ p.url \in Away(r, t)[p.depth] /\ p \in Pages(r)
  BY DEF OnTheWay, Pages
<1>3. n \in Addresses /\ (Allowed(n, r) <=> Allowed(p.url, r))
  BY <1>2, NormalForm
<1>4. (p.depth = 0 => n = Seed(r)) /\ (p.depth # 0 => n = p.url) /\ n \in s
  BY <1>1 DEF OnTheWay, Seed
<1>5. CASE n \in Urls(f)
  <2>1. Noted(f, p, r) = g
    BY <1>5 DEF Noted
  <2>2. g \in Seq(Links)
    <3> HIDE DEF g
    <3> QED BY <1>1, <1>2, <2>1, NotedTyped
  <2>3. \A i \in DOMAIN f : g[i].url = f[i].url /\ g[i].source = f[i].source
    <3>1. \A i \in DOMAIN f : f[i] \in Links
      BY <1>1, Places
    <3> HIDE DEF n
    <3> QED BY <3>1 DEF Links
  <2>4. DOMAIN g = DOMAIN f
    OBVIOUS
  <2> HIDE DEF g
  <2>5. Len(g) = Len(f)
    BY <1>1, <2>2, <2>4, Places
  <2>6. Placed(g, s, P, t, r) /\ Urls(g) = Urls(f)
    BY <2>2, <2>3, <2>4, <2>5, PlacedSame
  <2> QED BY <1>4, <1>5, <2>1, <2>6
<1>6. CASE n \notin Urls(f) /\ Allowed(p.url, r)
  <2>1. Noted(f, p, r) = Append(f, l)
    BY <1>6 DEF Noted
  <2>2. source \in Sources /\ TRUE \in BOOLEAN
    BY DEF Sources
  <2>3. l \in Links /\ l.url = n /\ l.source = source
    <3> HIDE DEF n, source
    <3> QED BY <1>3, <2>2, LinkFacts
  <2> HIDE DEF l
  <2>4. SoundLink(l, r, t)
    <3>1. p.depth # 0 => p.depth \in 1 .. r.depth
      BY <1>1, <1>2
    <3>2. l.source = "link" => p.depth # 0 /\ l.url \in Away(r, t)[p.depth]
      BY <1>2, <1>4, <2>3
    <3>3. l.source = "seed" => l.url = Seed(r)
      BY <1>4, <2>3
    <3>4. Allowed(l.url, r)
      BY <1>3, <1>6, <2>3
    <3> QED BY <3>1, <3>2, <3>3, <3>4 DEF SoundLink, Seed
  <2>5. \E e \in P : Normalised(e.url, r) = l.url
    BY <2>3
  <2>6. Placed(Append(f, l), s \cup {l.url}, P, t, r)
    BY <1>6, <2>3, <2>4, <2>5, PlacedAdds
  <2>7. s \cup {l.url} = s
    BY <1>4, <2>3
  <2>8. Urls(Append(f, l)) = Urls(f) \cup {l.url}
    BY <1>1, <2>3, AppendLink
  <2> QED BY <1>4, <2>1, <2>3, <2>6, <2>7, <2>8
<1>7. CASE n \notin Urls(f) /\ ~Allowed(p.url, r)
  <2>1. Noted(f, p, r) = f
    BY <1>7 DEF Noted
  <2> QED BY <1>3, <1>4, <1>7, <2>1
<1> QED BY <1>5, <1>6, <1>7

-----------------------------------------------------------------------------
\* One link of a page.
NewLinks(x, n, r) ==
    IF Len(x.found) < 2 * r.limit THEN Append(x.found, Link(n, "link", FALSE)) ELSE x.found

\* What following a link does: nothing, or it is known and queued.
LEMMA FollowedCases ==
  ASSUME NEW r, NEW d, NEW x, NEW l, NEW n, n = Normalised(l, r)
  PROVE  /\ ~Allowed(n, r) \/ n \in x.known => Followed(x, l, r, d) = x
         /\ Allowed(n, r) /\ n \notin x.known =>
               Followed(x, l, r, d) = [known |-> x.known \cup {n},
                                       queue |-> Append(x.queue, [url |-> n, depth |-> d + 1]),
                                       found |-> NewLinks(x, n, r)]
  BY DEF Followed, NewLinks

\* Following a link leads from walk to walk.
LEMMA FollowedTyped ==
  ASSUME NEW r, IsMap(r), NEW d \in 0 .. r.depth, d < r.depth, NEW x \in Walks(r), NEW l \in Addresses
  PROVE  Followed(x, l, r, d) \in Walks(r)
<1> DEFINE n == Normalised(l, r)
           e == [url |-> n, depth |-> d + 1]
           y == Followed(x, l, r, d)
<1>1. n \in Addresses /\ r.depth \in Nat
  BY NormalForm DEF IsMap
<1>2. x.found \in Seq(Links) /\ x.known \subseteq Addresses /\ x.queue \in Seq(Pages(r))
  BY DEF Walks
<1>3. e \in Pages(r)
  BY <1>1 DEF Pages
<1>4. "link" \in Sources /\ FALSE \in BOOLEAN
  BY DEF Sources
<1> HIDE DEF n
<1>5. Link(n, "link", FALSE) \in Links
  BY <1>1, <1>4, LinkFacts
<1>6. NewLinks(x, n, r) \in Seq(Links)
  BY <1>2, <1>5, AppendProperties DEF NewLinks
<1>7. CASE ~Allowed(n, r) \/ n \in x.known
  <2>1. y = x
    BY <1>7 DEF Followed, n
  <2> QED BY <2>1
<1>8. CASE Allowed(n, r) /\ n \notin x.known
  <2>1. y = [known |-> x.known \cup {n}, queue |-> Append(x.queue, e), found |-> NewLinks(x, n, r)]
    BY <1>8, FollowedCases DEF n
  <2> HIDE DEF y, e
  <2>2. Append(x.queue, e) \in Seq(Pages(r))
    BY <1>2, <1>3, AppendProperties
  <2>3. y \in Walks(r)
    BY <1>1, <1>2, <1>6, <2>1, <2>2 DEF Walks
  <2> QED BY <2>3 DEF y
<1> QED BY <1>7, <1>8

\* While the links of a page at depth d are followed: W are all pages but those of
\* the queue, w those of them that wait in the batch.
MidPage(x, W, w, t, d, r) ==
    /\ x \in Walks(r)
    /\ Placed(x.found, x.known, Range(x.queue) \cup W, t, r)
    /\ \A e \in Range(x.queue) \cup W : OnTheWay(e, x.known, t, r) /\ e.depth <= d + 1
    /\ \A j \in DOMAIN x.queue :
          d <= x.queue[j].depth /\ \A e \in w : e.depth <= x.queue[j].depth
    /\ \A i, j \in DOMAIN x.queue : i < j => x.queue[i].depth <= x.queue[j].depth

\* A queue with one more page.
LEMMA AppendPage ==
  ASSUME NEW T, NEW q \in Seq(T), NEW e \in T
  PROVE  /\ Append(q, e) \in Seq(T) /\ Range(Append(q, e)) = Range(q) \cup {e}
         /\ DOMAIN Append(q, e) = DOMAIN q \cup {Len(q) + 1}
         /\ \A j \in DOMAIN q : Append(q, e)[j] = q[j] /\ j \in Nat /\ j < Len(q) + 1
         /\ Append(q, e)[Len(q) + 1] = e /\ Len(q) \in Nat
<1> DEFINE g == Append(q, e)
           n == Len(q) + 1
<1>1. /\ g \in Seq(T) /\ DOMAIN g = DOMAIN q \cup {n} /\ \A j \in DOMAIN q : g[j] = q[j]
      /\ g[n] = e /\ Len(q) \in Nat
  BY AppendLink
<1>2. DOMAIN q = 1 .. Len(q)
  BY Places
<1> HIDE DEF g
<1>3. Range(g) = Range(q) \cup {e}
  <2> HIDE DEF n
  <2> QED BY <1>1 DEF Range
<1> QED BY <1>1, <1>2, <1>3 DEF g

\* A link of a page that was read (v) is followed: the invariant of the page is
\* kept, and the link is known.
LEMMA FollowedKeeps ==
  ASSUME NEW r, IsMap(r), NEW d \in 0 .. r.depth, d < r.depth, NEW W, NEW w, w \subseteq W,
         NEW t, Reads(t), NEW x, MidPage(x, W, w, t, d, r),
         NEW v \in t, v.ok, v.url \in Away(r, t)[d], NEW l \in Range(PageLinks(v.url)),
         NEW y, y = Followed(x, l, r, d)
  PROVE  /\ MidPage(y, W, w, t, d, r) /\ Urls(x.found) \subseteq Urls(y.found)
         /\ LinkKnown(l, d, y.known, Range(y.queue) \cup W, r)
         /\ \A m, c : LinkKnown(m, c, x.known, Range(x.queue) \cup W, r) =>
                         LinkKnown(m, c, y.known, Range(y.queue) \cup W, r)
<1> DEFINE n == Normalised(l, r)
           e == [url |-> n, depth |-> d + 1]
           P == Range(x.queue) \cup W
           k == Link(n, "link", FALSE)
<1>1. l \in Addresses
  <2>1. v.url \in DOMAIN LinksOf
    BY DEF Reads
  <2> QED BY <2>1, PageLinksFacts
<1>2. n \in Addresses /\ Normalised(n, r) = n /\ r.depth \in Nat /\ r.limit \in Nat
  BY <1>1, NormalForm DEF IsMap
<1>3. x \in Walks(r) /\ y \in Walks(r)
  BY <1>1, FollowedTyped DEF MidPage
<1>4. CASE ~Allowed(n, r) \/ n \in x.known
  <2>1. y = x
    BY <1>4 DEF Followed
  <2>2. LinkKnown(l, d, x.known, P, r)
    BY <1>4 DEF LinkKnown, MidPage
  <2> QED BY <2>1, <2>2
<1>5. CASE Allowed(n, r) /\ n \notin x.known
  <2>1. y = [known |-> x.known \cup {n}, queue |-> Append(x.queue, e), found |-> NewLinks(x, n, r)]
    BY <1>5, FollowedCases
  <2>2. /\ y.known = x.known \cup {n} /\ y.queue = Append(x.queue, e)
        /\ y.found = NewLinks(x, n, r)
    BY <2>1
  <2>3. /\ x.queue \in Seq(Pages(r)) /\ x.found \in Seq(Links)
        /\ Placed(x.found, x.known, P, t, r)
        /\ \A a \in P : OnTheWay(a, x.known, t, r) /\ a.depth <= d + 1
    BY <1>3 DEF MidPage, Walks
  <2>4. e \in Pages(r) /\ e.url = n /\ e.depth = d + 1 /\ d + 1 # 0 /\ d + 1 \in 1 .. r.depth
        /\ d + 1 \in 0 .. r.depth /\ d + 1 - 1 = d
    BY <1>2 DEF Pages
  <2>5. /\ Range(y.queue) = Range(x.queue) \cup {e}
        /\ DOMAIN y.queue = DOMAIN x.queue \cup {Len(x.queue) + 1}
        /\ \A j \in DOMAIN x.queue : y.queue[j] = x.queue[j] /\ j \in Nat /\ j < Len(x.queue) + 1
        /\ y.queue[Len(x.queue) + 1] = e /\ Len(x.queue) \in Nat
    <3> HIDE DEF e
    <3> QED BY <2>2, <2>3, <2>4, AppendPage
  <2>6. n \in Away(r, t)[d + 1]
    <3>1. Away(r, t)[d + 1] = LinkedFrom(Away(r, t)[d], r, t)
      BY <2>4, AwayFacts
    <3>2. Reaches(n, l, v, Away(r, t)[d], r)
      BY <1>5 DEF Reaches
    <3> HIDE DEF n
    <3> QED BY <3>1, <3>2, LinkedFromFacts
  <2>7. Seed(r) \in x.known /\ Urls(x.found) \subseteq x.known
    BY <2>3 DEF Placed
  <2>8. OnTheWay(e, y.known, t, r)
    <3> HIDE DEF e, n
    <3> QED BY <1>2, <1>5, <2>2, <2>4, <2>6, <2>7 DEF OnTheWay
  <2>9. \A a \in P \cup {e} : OnTheWay(a, y.known, t, r) /\ a.depth <= d + 1
    <3>1. \A a \in P : OnTheWay(a, y.known, t, r)
      <4> HIDE DEF P, n
      <4> QED BY <2>2, <2>3 DEF OnTheWay
    <3> HIDE DEF e, P
    <3> QED BY <2>3, <2>4, <2>8, <3>1
  <2>10. k \in Links /\ k.url = n /\ k.source = "link"
    <3>1. "link" \in Sources /\ FALSE \in BOOLEAN
      BY DEF Sources
    <3> HIDE DEF n
    <3> QED BY <1>2, <3>1, LinkFacts
  <2> HIDE DEF k
  <2>11. Placed(x.found, x.known, P \cup {e}, t, r)
    <3> HIDE DEF P, e
    <3> QED BY <2>3, PlacedGrows
  <2>12. Placed(y.found, y.known, P \cup {e}, t, r) /\ Urls(x.found) \subseteq Urls(y.found)
    <3> DEFINE Q == P \cup {e}
    <3>1. Placed(x.found, x.known, Q, t, r)
      BY <2>11
    <3>2. \E a \in Q : Normalised(a.url, r) = k.url
      BY <1>2, <2>4, <2>10
    <3>3. SoundLink(k, r, t)
      <4> HIDE DEF n
      <4> QED BY <1>5, <2>4, <2>6, <2>10 DEF SoundLink
    <3> HIDE DEF Q, n
    <3>4. CASE Len(x.found) < 2 * r.limit
      <4>1. y.found = Append(x.found, k)
        BY <2>2, <3>4 DEF NewLinks, k
      <4>2. k.url \notin Urls(x.found)
        BY <1>5, <2>7, <2>10
      <4>3. Placed(Append(x.found, k), x.known \cup {k.url}, Q, t, r)
        BY <2>10, <3>1, <3>2, <3>3, <4>2, PlacedAdds
      <4>4. Urls(Append(x.found, k)) = Urls(x.found) \cup {k.url}
        BY <2>3, <2>10, AppendLink
      <4> QED BY <2>2, <2>10, <4>1, <4>3, <4>4 DEF Q
    <3>5. CASE ~(Len(x.found) < 2 * r.limit)
      <4>1. y.found = x.found
        BY <2>2, <3>5 DEF NewLinks
      <4>2. Placed(x.found, x.known \cup {n}, Q, t, r)
        BY <1>2, <3>1, <3>5 DEF Placed
      <4> QED BY <2>2, <4>1, <4>2 DEF Q
    <3> QED BY <3>4, <3>5
  <2>13. Range(y.queue) \cup W = P \cup {e}
    BY <2>5
  <2>14. \A j \in DOMAIN y.queue : d <= y.queue[j].depth /\ \A a \in w : a.depth <= y.queue[j].depth
    <3>1. \A a \in w : a.depth <= d + 1
      BY <2>3
    <3>2. d <= d + 1
      OBVIOUS
    <3> HIDE DEF e
    <3> QED BY <2>4, <2>5, <3>1, <3>2 DEF MidPage
  <2>15. \A i, j \in DOMAIN y.queue : i < j => y.queue[i].depth <= y.queue[j].depth
    <3> SUFFICES ASSUME NEW i \in DOMAIN y.queue, NEW j \in DOMAIN y.queue, i < j
                 PROVE  y.queue[i].depth <= y.queue[j].depth
      OBVIOUS
    <3> HIDE DEF e
    <3>1. CASE i \in DOMAIN x.queue /\ j \in DOMAIN x.queue
      BY <2>5, <3>1 DEF MidPage
    <3>2. CASE i \in DOMAIN x.queue /\ j = Len(x.queue) + 1
      <4>1. x.queue[i] \in P
        BY <3>2 DEF Range
      <4> QED BY <2>3, <2>4, <2>5, <3>2, <4>1
    <3>3. i # Len(x.queue) + 1
      BY <2>5
    <3> QED BY <2>5, <3>1, <3>2, <3>3
  <2>16. MidPage(y, W, w, t, d, r)
    <3> HIDE DEF e, P, n
    <3> QED BY <1>3, <2>9, <2>12, <2>13, <2>14, <2>15 DEF MidPage
  <2>17. LinkKnown(l, d, y.known, P \cup {e}, r)
    <3> HIDE DEF e, P
    <3> QED BY <2>2, <2>9 DEF LinkKnown
  <2>18. ASSUME NEW m, NEW c, LinkKnown(m, c, x.known, P, r)
         PROVE  LinkKnown(m, c, y.known, P \cup {e}, r)
    <3> HIDE DEF e, P, n
    <3>1. Allowed(Normalised(m, r), r) => Normalised(m, r) # n
      BY <1>5, <2>18 DEF LinkKnown
    <3> QED BY <2>2, <2>4, <2>18, <3>1 DEF LinkKnown
  <2> HIDE DEF e, n
  <2> QED BY <2>12, <2>13, <2>16, <2>17, <2>18
<1> QED BY <1>4, <1>5

-----------------------------------------------------------------------------
\* One page of a batch.
NotedWalk(x, p, r) == [x EXCEPT !.found = Noted(x.found, p, r)]

\* Taking a page: it is noted, and its links are followed if it is not too deep.
LEMMA TakenCases ==
  ASSUME NEW r, NEW x, NEW p
  PROVE  Taken(x, p, r) = IF p.depth >= r.depth THEN NotedWalk(x, p, r)
                          ELSE FollowedAll(NotedWalk(x, p, r), PageLinks(p.url), r, p.depth)
  BY DEF Taken, NotedWalk

\* Noting a page changes the links alone.
LEMMA NotedWalkFacts ==
  ASSUME NEW r, NEW x \in Walks(r), NEW p \in Pages(r)
  PROVE  /\ NotedWalk(x, p, r) \in Walks(r) /\ NotedWalk(x, p, r).found = Noted(x.found, p, r)
         /\ NotedWalk(x, p, r).known = x.known /\ NotedWalk(x, p, r).queue = x.queue
<1>1. Noted(x.found, p, r) \in Seq(Links)
  <2>1. x.found \in Seq(Links)
    BY DEF Walks
  <2> QED BY <2>1, NotedTyped
<1> QED BY <1>1 DEF Walks, NotedWalk

\* Taking a page leads from walk to walk.
LEMMA TakenTyped ==
  ASSUME NEW r, IsMap(r), NEW x \in Walks(r), NEW p \in Pages(r), p.url \in DOMAIN LinksOf
  PROVE  Taken(x, p, r) \in Walks(r)
<1> DEFINE links == PageLinks(p.url)
           x1 == NotedWalk(x, p, r)
           d == p.depth
           U == Walks(r)
<1>1. x1 \in U /\ d \in 0 .. r.depth /\ r.depth \in Nat
  BY NotedWalkFacts DEF Pages, IsMap
<1>2. CASE d >= r.depth
  BY <1>1, <1>2, TakenCases
<1>3. CASE ~(d >= r.depth)
  <2>1. Len(links) \in Nat /\ (\A k \in 1 .. Len(links) : links[k] \in Addresses) /\ d < r.depth
    BY <1>1, <1>3, PageLinksFacts
  <2>2. Taken(x, p, r) = FollowedAll(x1, links, r, d)
    BY <1>3, TakenCases
  <2> HIDE DEF links, x1, d
  <2>3. \A z \in U : \A k \in 1 .. Len(links) : Followed(z, links[k], r, d) \in U
    BY <1>1, <2>1, FollowedTyped
  <2> HIDE DEF U
  <2>4. /\ FollowingRun(x1, links, r, d) \in [0 .. Len(links) -> U]
        /\ FollowedAll(x1, links, r, d) = FollowingRun(x1, links, r, d)[Len(links)]
    BY ONLY <1>1, <2>1, <2>3, FollowedSteps
  <2>5. FollowedAll(x1, links, r, d) \in U
    BY <2>1, <2>4
  <2> QED BY <2>2, <2>5 DEF U
<1> QED BY <1>2, <1>3

PageFollowed(x, y, v, W, w, t, d, r) ==
    /\ MidPage(y, W, w, t, d, r) /\ Urls(x.found) \subseteq Urls(y.found)
    /\ \A l \in Range(PageLinks(v.url)) : LinkKnown(l, d, y.known, Range(y.queue) \cup W, r)
    /\ \A m, c : LinkKnown(m, c, x.known, Range(x.queue) \cup W, r) =>
                    LinkKnown(m, c, y.known, Range(y.queue) \cup W, r)

\* All links of a page that was read (v).
LEMMA FollowedAllKeeps ==
  ASSUME NEW r, IsMap(r), NEW d \in 0 .. r.depth, d < r.depth, NEW W, NEW w, w \subseteq W,
         NEW t, Reads(t), NEW x, MidPage(x, W, w, t, d, r),
         NEW v \in t, v.ok, v.url \in Away(r, t)[d],
         NEW y, y = FollowedAll(x, PageLinks(v.url), r, d)
  PROVE  PageFollowed(x, y, v, W, w, t, d, r)
<1> DEFINE links == PageLinks(v.url)
           N == Len(links)
           Knows(z, m, c) == LinkKnown(m, c, z.known, Range(z.queue) \cup W, r)
           U == {z \in Walks(r) : /\ MidPage(z, W, w, t, d, r) /\ Urls(x.found) \subseteq Urls(z.found)
                                  /\ \A m, c : Knows(x, m, c) => Knows(z, m, c)}
           g == FollowingRun(x, links, r, d)
<1>1. N \in Nat /\ Range(links) = {links[k] : k \in 1 .. N}
  <2>1. v.url \in DOMAIN LinksOf
    BY DEF Reads
  <2> QED BY <2>1, PageLinksFacts
<1>2. x \in U
  BY DEF MidPage
<1>3. ASSUME NEW z \in U, NEW k \in 1 .. N
      PROVE  /\ Followed(z, links[k], r, d) \in U /\ Knows(Followed(z, links[k], r, d), links[k], d)
             /\ \A m, c : Knows(z, m, c) => Knows(Followed(z, links[k], r, d), m, c)
  <2> DEFINE z1 == Followed(z, links[k], r, d)
  <2>1. links[k] \in Range(links)
    BY <1>1
  <2>2. MidPage(z, W, w, t, d, r)
    OBVIOUS
  <2> DEFINE l == links[k]
  <2>3. /\ MidPage(z1, W, w, t, d, r) /\ Urls(z.found) \subseteq Urls(z1.found)
        /\ Knows(z1, l, d) /\ \A m, c : Knows(z, m, c) => Knows(z1, m, c)
    <3>1. z1 = Followed(z, l, r, d) /\ l \in Range(PageLinks(v.url))
      BY <2>1
    <3> HIDE DEF z1, l, U
    <3> QED BY <2>2, <3>1, FollowedKeeps
  <2> HIDE DEF z1, Knows
  <2>4. z1 \in Walks(r)
    BY <2>3 DEF MidPage
  <2>5. Urls(x.found) \subseteq Urls(z1.found) /\ \A m, c : Knows(x, m, c) => Knows(z1, m, c)
    BY <2>3
  <2>6. z1 \in U
    BY <2>3, <2>4, <2>5
  <2> QED BY <2>3, <2>6 DEF z1
<1> HIDE DEF U
<1>4. /\ g \in [0 .. N -> U] /\ g[0] = x /\ FollowedAll(x, links, r, d) = g[N]
      /\ \A k \in 1 .. N : g[k] = Followed(g[k - 1], links[k], r, d)
  <2>1. \A z \in U : \A k \in 1 .. N : Followed(z, links[k], r, d) \in U
    BY <1>3
  <2> HIDE DEF links
  <2> QED BY ONLY <1>1, <1>2, <2>1, FollowedSteps
<1> HIDE DEF g, Knows, links, N
<1> DEFINE S == {k \in 0 .. N : \A j \in 1 .. k : Knows(g[k], links[j], d)}
<1>5. 0 \in S
  BY <1>1
<1>6. ASSUME NEW k \in 1 .. N, k - 1 \in S PROVE k \in S
  <2>1. g[k - 1] \in U /\ g[k] = Followed(g[k - 1], links[k], r, d) /\ k \in 0 .. N
    <3>1. k - 1 \in 0 .. N /\ k \in 0 .. N
      BY <1>1
    <3> QED BY <1>4, <3>1
  <2>2. Knows(g[k], links[k], d) /\ \A m, c : Knows(g[k - 1], m, c) => Knows(g[k], m, c)
    BY <1>3, <2>1
  <2>3. ASSUME NEW j \in 1 .. k PROVE Knows(g[k], links[j], d)
    <3>1. CASE j = k
      BY <2>2, <3>1
    <3>2. CASE j # k
      <4>1. j \in 1 .. k - 1
        BY <1>1, <3>2
      <4>2. Knows(g[k - 1], links[j], d)
        BY <1>6, <4>1
      <4> QED BY <2>2, <4>2
    <3> QED BY <3>1, <3>2
  <2> QED BY <2>1, <2>3
<1>7. \A k \in 0 .. N : k \in S
  <2> HIDE DEF S
  <2> QED BY <1>1, <1>5, <1>6, Climb
<1>8. N \in 0 .. N
  BY <1>1
<1>9. y = g[N] /\ g[N] \in U
  BY <1>4, <1>8 DEF links
<1>10. \A l \in Range(links) : Knows(y, l, d)
  BY <1>1, <1>7, <1>8, <1>9
<1> QED BY <1>9, <1>10 DEF U, Knows, links, PageFollowed

-----------------------------------------------------------------------------
\* A page of the batch is taken, if it could be read (ok).
LEMMA TakenKeeps ==
  ASSUME NEW r, IsMap(r), NEW w, NEW t, NEW x, Exploring(x, w, t, r),
         NEW p \in w, NEW w2, w = w2 \cup {p},
         \A e \in w2 : p.depth <= e.depth /\ e.depth <= p.depth + 1,
         NEW ok \in BOOLEAN, ok => p.url \in DOMAIN LinksOf,
         NEW v, v = [url |-> p.url, depth |-> p.depth, ok |-> ok], NEW t2, t2 = t \cup {v},
         NEW y, y = IF ok THEN Taken(x, p, r) ELSE x
  PROVE  Exploring(y, w2, t2, r)
<1> DEFINE d == p.depth
           P == KnownBy(x.queue, w, t)
           W == w2 \cup {PageOf(u) : u \in t2}
           x1 == NotedWalk(x, p, r)
<1>1. /\ x \in Walks(r) /\ w \subseteq Pages(r) /\ t \subseteq Visits(r) /\ Reads(t)
      /\ Placed(x.found, x.known, P, t, r) /\ InOrder(x.queue, w, t)
      /\ \A e \in P : OnTheWay(e, x.known, t, r)
      /\ \A u \in t : LinksKnown(u, x.known, P, r) /\ SeedListed(u, x.found, r)
  BY DEF Exploring
<1>2. /\ p \in Pages(r) /\ p.url \in Addresses /\ d \in 0 .. r.depth /\ r.depth \in Nat
      /\ p = [url |-> p.url, depth |-> p.depth]
  BY <1>1 DEF Pages, IsMap
<1>3. v \in Visits(r) /\ v.url = p.url /\ v.depth = d /\ v.ok = ok /\ PageOf(v) = p
  BY <1>2 DEF Visits, PageOf
<1>4. w2 \subseteq Pages(r) /\ t2 \subseteq Visits(r) /\ Reads(t2) /\ t \subseteq t2 /\ v \in t2
  BY <1>1, <1>3 DEF Reads
<1>5. P = Range(x.queue) \cup W /\ p \in P
  <2>1. {PageOf(u) : u \in t2} = {PageOf(u) : u \in t} \cup {p}
    BY <1>3
  <2> QED BY <2>1 DEF KnownBy
<1>6. \A q : KnownBy(q, w2, t2) = Range(q) \cup W
  BY DEF KnownBy
<1> HIDE DEF P, W, x1
\* The same with the page that was asked for.
<1>7. Placed(x.found, x.known, P, t2, r)
  BY <1>1, <1>4, PlacedGrows
<1>8. \A e \in P : OnTheWay(e, x.known, t2, r)
  <2>1. ASSUME NEW e \in P PROVE OnTheWay(e, x.known, t2, r)
    <3>1. OnTheWay(e, x.known, t, r) /\ e.depth \in 0 .. r.depth
      BY <1>1 DEF OnTheWay, Pages
    <3>2. Away(r, t)[e.depth] \subseteq Away(r, t2)[e.depth]
      BY <1>4, <3>1, AwayGrows
    <3> QED BY <3>1, <3>2 DEF OnTheWay
  <2> QED BY <2>1
<1>9. \A u \in t2 : u.depth \in Nat /\ u.depth <= d /\ \A e \in w2 : u.depth <= e.depth
  <2>1. \A u \in t2 : u.depth \in Nat
    BY <1>2, <1>4 DEF Visits
  <2>2. \A u \in t : u.depth <= d /\ \A e \in w2 : u.depth <= e.depth
    BY <1>1 DEF InOrder
  <2> QED BY <1>2, <1>3, <2>1, <2>2
<1>10. \A e \in w2 : e.depth \in Nat /\ d <= e.depth /\ e.depth <= d + 1
  BY <1>2, <1>4 DEF Pages
<1>11. \A j \in DOMAIN x.queue : x.queue[j].depth \in Nat /\ x.queue[j] \in Range(x.queue)
  <2>1. x.queue \in Seq(Pages(r))
    BY <1>1 DEF Walks
  <2>2. \A j \in DOMAIN x.queue : x.queue[j] \in Pages(r)
    BY <2>1, Places
  <2> QED BY <1>2, <2>2 DEF Pages, Range
<1>12. InOrder(x.queue, w2, t2)
  <2>1. \A j \in DOMAIN x.queue : d <= x.queue[j].depth
    BY <1>1 DEF InOrder
  <2>2. \A u \in t2 : \A j \in DOMAIN x.queue : u.depth <= x.queue[j].depth
    BY <1>2, <1>9, <1>11, <2>1
  <2> QED BY <1>1, <1>9, <2>2 DEF InOrder
<1>13. CASE ~ok
  <2>1. LinksKnown(v, x.known, P, r) /\ SeedListed(v, x.found, r) /\ y = x
    BY <1>3, <1>13 DEF LinksKnown, SeedListed
  <2> QED BY <1>1, <1>4, <1>5, <1>6, <1>7, <1>8, <1>12, <2>1 DEF Exploring
<1>14. CASE ok
  <2>1. /\ x1 \in Walks(r) /\ x1.found = Noted(x.found, p, r)
        /\ x1.known = x.known /\ x1.queue = x.queue
    BY <1>1, <1>2, NotedWalkFacts DEF x1
  <2>2. /\ Placed(x1.found, x1.known, P, t2, r) /\ Urls(x.found) \subseteq Urls(x1.found)
        /\ p.depth = 0 /\ Allowed(Seed(r), r) => Seed(r) \in Urls(x1.found)
    BY <1>5, <1>7, <1>8, <2>1, NotedKeeps
  <2>3. \A u \in t2 : SeedListed(u, x1.found, r)
    BY <1>1, <1>3, <2>2 DEF SeedListed
  <2>4. CASE d >= r.depth
    <3>1. y = x1
      BY <1>14, <2>4, TakenCases DEF x1
    <3>2. LinksKnown(v, x1.known, P, r)
      BY <1>2, <1>3, <2>4 DEF LinksKnown
    <3>3. \A u \in t2 : LinksKnown(u, x1.known, P, r)
      BY <1>1, <2>1, <3>2
    <3> QED BY <1>4, <1>5, <1>6, <1>8, <1>12, <2>1, <2>2, <2>3, <3>1, <3>3 DEF Exploring
  <2>5. CASE ~(d >= r.depth)
    <3>1. y = FollowedAll(x1, PageLinks(v.url), r, d) /\ d < r.depth
      BY <1>2, <1>3, <1>14, <2>5, TakenCases DEF x1
    <3>2. MidPage(x1, W, w2, t2, d, r)
      <4>1. \A e \in P : e.depth <= d + 1
        <5>1. ASSUME NEW e \in Range(x.queue) PROVE e.depth <= d + 1
          BY <1>1 DEF InOrder, Range
        <5>2. ASSUME NEW u \in t2 PROVE PageOf(u).depth <= d + 1
          BY <1>2, <1>9 DEF PageOf
        <5> QED BY <1>5, <1>10, <5>1, <5>2 DEF W
      <4>2. \A j \in DOMAIN x.queue : d <= x.queue[j].depth /\ \A e \in w2 : e.depth <= x.queue[j].depth
        BY <1>1 DEF InOrder
      <4>3. \A i, j \in DOMAIN x.queue : i < j => x.queue[i].depth <= x.queue[j].depth
        BY <1>1 DEF InOrder
      <4> QED BY <1>5, <1>8, <2>1, <2>2, <4>1, <4>2, <4>3 DEF MidPage
    <3>3. v.ok /\ v.url \in Away(r, t2)[d] /\ w2 \subseteq W
      BY <1>3, <1>5, <1>8, <1>14 DEF OnTheWay, W
    <3>4. /\ MidPage(y, W, w2, t2, d, r) /\ Urls(x1.found) \subseteq Urls(y.found)
          /\ \A l \in Range(PageLinks(v.url)) : LinkKnown(l, d, y.known, Range(y.queue) \cup W, r)
          /\ \A m, c : LinkKnown(m, c, x1.known, Range(x1.queue) \cup W, r) =>
                          LinkKnown(m, c, y.known, Range(y.queue) \cup W, r)
      <4>1. d \in 0 .. r.depth /\ Reads(t2) /\ v \in t2 /\ IsMap(r)
        BY <1>2, <1>4
      <4> HIDE DEF d
      <4>2. PageFollowed(x1, y, v, W, w2, t2, d, r)
        BY ONLY <3>1, <3>2, <3>3, <4>1, FollowedAllKeeps
      <4> QED BY <4>2 DEF PageFollowed
    <3>5. \A u \in t2 : LinksKnown(u, y.known, Range(y.queue) \cup W, r)
      <4>1. LinksKnown(v, y.known, Range(y.queue) \cup W, r)
        BY <1>3, <3>4 DEF LinksKnown
      <4>2. ASSUME NEW u \in t PROVE LinksKnown(u, y.known, Range(y.queue) \cup W, r)
        BY <1>1, <1>5, <2>1, <3>4 DEF LinksKnown
      <4> QED BY <4>1, <4>2
    <3>6. \A u \in t2 : SeedListed(u, y.found, r)
      BY <2>3, <3>4 DEF SeedListed
    <3>7. InOrder(y.queue, w2, t2)
      <4> DEFINE q == y.queue
      <4>1. /\ \A j \in DOMAIN q : q[j].depth \in Nat /\ q[j].depth <= d + 1 /\ d <= q[j].depth
            /\ \A j \in DOMAIN q : \A e \in w2 : e.depth <= q[j].depth
            /\ \A i, j \in DOMAIN q : i < j => q[i].depth <= q[j].depth
        <5>1. q \in Seq(Pages(r))
          BY <3>4 DEF MidPage, Walks
        <5>2. \A j \in DOMAIN q : q[j] \in Pages(r) /\ q[j] \in Range(q)
          BY <5>1, Places DEF Range
        <5>3. \A j \in DOMAIN q : q[j].depth \in Nat
          BY <1>2, <5>2 DEF Pages
        <5> QED BY <3>4, <5>2, <5>3 DEF MidPage
      <4> HIDE DEF q
      <4>2. \A u \in t2 : \A j \in DOMAIN q : u.depth <= q[j].depth
        BY <1>2, <1>9, <4>1
      <4>3. \A e \in w2 : \A j \in DOMAIN q : q[j].depth <= e.depth + 1
        BY <1>2, <1>10, <4>1
      <4>4. \A i, j \in DOMAIN q : q[j].depth <= q[i].depth + 1
        BY <1>2, <4>1
      <4>5. InOrder(q, w2, t2)
        BY <1>9, <4>1, <4>2, <4>3, <4>4 DEF InOrder
      <4> QED BY <4>5 DEF q
    <3> QED BY <1>4, <1>6, <3>4, <3>5, <3>6, <3>7 DEF Exploring, MidPage
  <2> QED BY <2>4, <2>5
<1> QED BY <1>13, <1>14

-----------------------------------------------------------------------------
\* A batch: the first pages of the queue are asked for, and taken in their order.
Steady(b) == \A i, j \in DOMAIN b : i < j => b[i].depth <= b[j].depth /\ b[j].depth <= b[i].depth + 1
Rest(q, n) == SubSeq(q, n + 1, Len(q))
Visit(b, ok, i) == [url |-> b[i].url, depth |-> b[i].depth, ok |-> ok[i]]
VisitsOf(b, ok, n) == {Visit(b, ok, i) : i \in 1 .. n}
Left(b, n) == {b[i] : i \in n + 1 .. Len(b)}

\* What is left of a queue.
LEMMA RestFacts ==
  ASSUME NEW T, NEW q \in Seq(T), NEW n \in 0 .. Len(q)
  PROVE  /\ Rest(q, n) \in Seq(T) /\ DOMAIN Rest(q, n) = 1 .. Len(q) - n
         /\ Len(Rest(q, n)) = Len(q) - n
         /\ \A j \in 1 .. Len(q) - n : Rest(q, n)[j] = q[n + j] /\ n + j \in DOMAIN q
<1>1. Len(q) \in Nat /\ DOMAIN q = 1 .. Len(q) /\ \A i \in DOMAIN q : q[i] \in T
  BY Places
<1> DEFINE m == n + 1
           N == Len(q)
<1>2. m \in Int /\ N \in Int /\ \A i \in m .. N : q[i] \in T
  BY <1>1
<1>3. /\ SubSeq(q, m, N) \in Seq(T) /\ Len(SubSeq(q, m, N)) = IF m <= N THEN N - m + 1 ELSE 0
      /\ \A i \in 1 .. N - m + 1 : SubSeq(q, m, N)[i] = q[m + i - 1]
  <2> HIDE DEF m, N
  <2> QED BY <1>2, SubSeqProperties
<1>4. Len(Rest(q, n)) = N - n
  <2>1. Rest(q, n) = SubSeq(q, m, N) /\ n \in Int /\ n <= N
    BY <1>1 DEF Rest
  <2>2. m = n + 1 /\ N \in Int
    BY <1>1
  <2> HIDE DEF m, N
  <2>3. (m <= N => N - m + 1 = N - n) /\ (~(m <= N) => N - n = 0)
    BY <2>1, <2>2
  <2> QED BY <1>3, <2>1, <2>3
<1>5. Rest(q, n) \in Seq(T) /\ DOMAIN Rest(q, n) = 1 .. N - n
  <2>1. Rest(q, n) \in Seq(T)
    BY <1>3 DEF Rest
  <2> QED BY <1>4, <2>1, Places
<1>6. ASSUME NEW j \in 1 .. N - n PROVE Rest(q, n)[j] = q[n + j] /\ n + j \in DOMAIN q
  <2>1. j \in 1 .. N - m + 1 /\ m + j - 1 = n + j /\ n + j \in 1 .. N
    BY <1>1
  <2> QED BY <1>1, <1>3, <2>1 DEF Rest
<1> QED BY <1>4, <1>5, <1>6

\* The first pages leave the queue: the invariant with these as the batch.
LEMMA Departs ==
  ASSUME NEW r, IsMap(r), NEW t, NEW x, Exploring(x, {}, t, r),
         NEW b, b = First(MaxConcurrent, x.queue),
         NEW y, y = [found |-> x.found, known |-> x.known, queue |-> Rest(x.queue, Len(b))]
  PROVE  Exploring(y, Range(b), t, r) /\ b \in Seq(Pages(r)) /\ Steady(b)
<1> DEFINE q == x.queue
           n == Len(b)
           p == Rest(q, n)
<1>1. /\ x \in Walks(r) /\ t \subseteq Visits(r) /\ Reads(t) /\ InOrder(q, {}, t)
      /\ Placed(x.found, x.known, KnownBy(q, {}, t), t, r)
      /\ \A e \in KnownBy(q, {}, t) : OnTheWay(e, x.known, t, r)
      /\ \A v \in t : LinksKnown(v, x.known, KnownBy(q, {}, t), r) /\ SeedListed(v, x.found, r)
  BY DEF Exploring
<1>2. q \in Seq(Pages(r)) /\ x.found \in Seq(Links) /\ x.known \in SUBSET Addresses
  BY <1>1 DEF Walks
<1>3. Len(q) \in Nat /\ DOMAIN q = 1 .. Len(q) /\ \A i \in DOMAIN q : q[i] \in Pages(r)
  BY <1>2, Places
<1>4. /\ b \in Seq(Pages(r)) /\ n = (IF Len(q) < MaxConcurrent THEN Len(q) ELSE MaxConcurrent)
      /\ DOMAIN b = 1 .. n /\ \A i \in DOMAIN b : i \in DOMAIN q /\ b[i] = q[i]
  <2>1. MaxConcurrent \in Nat
    BY BoundsAssumption
  <2> HIDE DEF q
  <2> QED BY <1>2, <2>1, FirstFacts DEF q
<1>5. n \in 0 .. Len(q)
  <2>1. MaxConcurrent \in Nat
    BY BoundsAssumption
  <2> QED BY <1>3, <1>4, <2>1
<1>6. /\ p \in Seq(Pages(r)) /\ DOMAIN p = 1 .. Len(q) - n
      /\ \A j \in 1 .. Len(q) - n : p[j] = q[n + j] /\ n + j \in DOMAIN q
  <2> HIDE DEF n, q
  <2> QED BY <1>2, <1>5, RestFacts
<1>7. y = [found |-> x.found, known |-> x.known, queue |-> p]
  OBVIOUS
<1> HIDE DEF q, p, n
<1>8. y \in Walks(r) /\ y.found = x.found /\ y.known = x.known /\ y.queue = p
  <2>1. y \in Walks(r)
    BY <1>2, <1>6, <1>7 DEF Walks
  <2> QED BY <1>7, <2>1
<1>9. Range(q) = Range(p) \cup Range(b)
  <2>1. ASSUME NEW i \in DOMAIN q PROVE q[i] \in Range(p) \cup Range(b)
    <3>1. CASE i <= n
      <4>1. i \in DOMAIN b
        <5>1. i \in 1 .. Len(q) /\ n \in Nat
          BY <1>3, <1>5
        <5>2. i \in 1 .. n
          BY <3>1, <5>1
        <5> QED BY <1>4, <5>2
      <4> QED BY <1>4, <4>1 DEF Range
    <3>2. CASE ~(i <= n)
      <4>1. i - n \in 1 .. Len(q) - n /\ n + (i - n) = i
        BY <1>3, <1>5, <3>2
      <4>2. p[i - n] = q[i] /\ i - n \in DOMAIN p
        BY <1>6, <4>1
      <4> QED BY <4>2 DEF Range
    <3> QED BY <3>1, <3>2
  <2>2. \A i \in DOMAIN p : p[i] \in Range(q)
    BY <1>6 DEF Range
  <2>3. \A i \in DOMAIN b : b[i] \in Range(q)
    BY <1>4 DEF Range
  <2>4. Range(q) \subseteq Range(p) \cup Range(b)
    BY <2>1 DEF Range
  <2>5. Range(p) \subseteq Range(q) /\ Range(b) \subseteq Range(q)
    BY <2>2, <2>3 DEF Range
  <2> QED BY <2>4, <2>5
<1>10. KnownBy(p, Range(b), t) = KnownBy(q, {}, t)
  BY <1>9 DEF KnownBy
<1>11. \A i \in DOMAIN q : q[i].depth \in Nat
  <2>1. r.depth \in Nat
    BY DEF IsMap
  <2> QED BY <1>3, <2>1 DEF Pages
<1>12. Steady(q) /\ \A v \in t : \A j \in DOMAIN q : v.depth <= q[j].depth
  BY <1>1 DEF InOrder, Steady
<1>13. Steady(b)
  BY <1>4, <1>12 DEF Steady
<1>14. InOrder(p, Range(b), t)
  <2>1. \A v \in t : (\A e \in Range(b) : v.depth <= e.depth) /\ \A j \in DOMAIN p : v.depth <= p[j].depth
    BY <1>4, <1>6, <1>12 DEF Range
  <2>2. ASSUME NEW i \in DOMAIN b, NEW j \in DOMAIN p
        PROVE  b[i].depth <= p[j].depth /\ p[j].depth <= b[i].depth + 1
    <3>1. i \in DOMAIN q /\ n + j \in DOMAIN q /\ i < n + j /\ b[i] = q[i] /\ p[j] = q[n + j]
      <4>1. i \in 1 .. n /\ j \in 1 .. Len(q) - n /\ n \in Nat
        BY <1>4, <1>5, <1>6
      <4>2. i < n + j
        BY <1>3, <4>1
      <4> QED BY <1>4, <1>6, <4>1, <4>2
    <3> QED BY <1>12, <3>1 DEF Steady
  <2>3. ASSUME NEW i \in DOMAIN p, NEW j \in DOMAIN p, i < j
        PROVE  p[i].depth <= p[j].depth /\ p[j].depth <= p[i].depth + 1
    <3>1. /\ n + i \in DOMAIN q /\ n + j \in DOMAIN q /\ n + i < n + j
          /\ p[i] = q[n + i] /\ p[j] = q[n + j]
      BY <1>3, <1>5, <1>6, <2>3
    <3> QED BY <1>12, <3>1 DEF Steady
  <2>4. \A e \in Range(b) : \A j \in DOMAIN p : e.depth <= p[j].depth /\ p[j].depth <= e.depth + 1
    BY <2>2 DEF Range
  <2> QED BY <2>1, <2>3, <2>4 DEF InOrder
<1>15. Range(b) \subseteq Pages(r)
  BY <1>3, <1>4 DEF Range
<1>16. Exploring(y, Range(b), t, r)
  BY <1>1, <1>8, <1>10, <1>14, <1>15 DEF Exploring, q
<1> QED BY <1>4, <1>13, <1>16

\* All pages of the batch are taken, one after the other.
LEMMA BatchTaken ==
  ASSUME NEW r, IsMap(r), NEW t, NEW b \in Seq(Pages(r)), Steady(b), NEW x, Exploring(x, Range(b), t, r),
         NEW ok \in [DOMAIN b -> BOOLEAN], \A i \in DOMAIN b : ok[i] => b[i].url \in DOMAIN LinksOf,
         NEW y, y = TakenAll(x, b, ok, r)
  PROVE  Exploring(y, {}, t \cup VisitsOf(b, ok, Len(b)), r)
<1> DEFINE N == Len(b)
           U == Walks(r)
           g == TakingRun(x, b, ok, r)
<1>1. N \in Nat /\ DOMAIN b = 1 .. N /\ \A i \in 1 .. N : b[i] \in Pages(r)
  BY Places
<1>2. x \in U
  BY DEF Exploring
<1>3. \A z \in U : \A k \in 1 .. N : (IF ok[k] THEN Taken(z, b[k], r) ELSE z) \in U
  <2> SUFFICES ASSUME NEW z \in U, NEW k \in 1 .. N, ok[k] PROVE Taken(z, b[k], r) \in U
    OBVIOUS
  <2>1. b[k] \in Pages(r) /\ b[k].url \in DOMAIN LinksOf
    BY <1>1
  <2> QED BY <2>1, TakenTyped
<1> HIDE DEF U
<1>4. /\ g \in [0 .. N -> U] /\ g[0] = x /\ TakenAll(x, b, ok, r) = g[N]
      /\ \A k \in 1 .. N : g[k] = IF ok[k] THEN Taken(g[k - 1], b[k], r) ELSE g[k - 1]
  BY ONLY <1>1, <1>2, <1>3, TakenSteps
<1> HIDE DEF g, N
<1> DEFINE T(k) == t \cup VisitsOf(b, ok, k)
           S == {k \in 0 .. N : Exploring(g[k], Left(b, k), T(k), r)}
<1>5. 0 \in S
  <2>1. Left(b, 0) = Range(b) /\ T(0) = t
    BY <1>1 DEF Left, Range, VisitsOf, N
  <2>2. Exploring(g[0], Left(b, 0), T(0), r)
    BY <1>4, <2>1
  <2> QED BY <1>1, <2>2
<1>6. ASSUME NEW k \in 1 .. N, k - 1 \in S PROVE k \in S
  <2> DEFINE p == b[k]
             v == Visit(b, ok, k)
             x1 == g[k - 1]
             x2 == g[k]
             w1 == Left(b, k - 1)
             w2 == Left(b, k)
             t1 == T(k - 1)
             t2 == T(k)
  <2>1. Exploring(x1, w1, t1, r) /\ k \in 0 .. N
    BY <1>1, <1>6
  <2>2. w1 = w2 \cup {p}
    <3>1. k - 1 + 1 .. N = (k + 1 .. N) \cup {k}
      BY <1>1
    <3> QED BY <3>1 DEF Left, N
  <2>3. t2 = t1 \cup {v}
    <3>1. 1 .. k = (1 .. k - 1) \cup {k}
      BY <1>1
    <3> QED BY <3>1 DEF VisitsOf
  <2>4. \A e \in w2 : p.depth <= e.depth /\ e.depth <= p.depth + 1
    <3>1. \A i \in k + 1 .. N : i \in DOMAIN b /\ k \in DOMAIN b /\ k < i
      BY <1>1
    <3>2. \A i \in k + 1 .. N : b[k].depth <= b[i].depth /\ b[i].depth <= b[k].depth + 1
      BY <3>1 DEF Steady
    <3> QED BY <3>2 DEF Left, N
  <2>5. p \in w1
    BY <2>2
  <2>6. ok[k] \in BOOLEAN /\ (ok[k] => p.url \in DOMAIN LinksOf)
    BY <1>1
  <2>7. v = [url |-> p.url, depth |-> p.depth, ok |-> ok[k]]
    BY DEF Visit
  <2>8. x2 = IF ok[k] THEN Taken(x1, p, r) ELSE x1
    BY <1>4
  <2> HIDE DEF p, v, x1, x2, w1, w2, t1, t2
  <2>9. Exploring(x2, w2, t2, r)
    BY <2>1, <2>2, <2>3, <2>4, <2>5, <2>6, <2>7, <2>8, TakenKeeps
  <2> QED BY <2>1, <2>9 DEF x2, w2, t2
<1>7. \A k \in 0 .. N : k \in S
  <2> HIDE DEF S
  <2> QED BY <1>1, <1>5, <1>6, Climb
<1>8. Exploring(g[N], Left(b, N), T(N), r)
  <2>1. N \in 0 .. N
    BY <1>1
  <2> QED BY <1>7, <2>1
<1>9. Left(b, N) = {}
  BY <1>1 DEF Left, N
<1> QED BY <1>4, <1>8, <1>9 DEF N

\* The walk after a batch, with the pages that were asked for.
TakesBatch(x, b, ok, t, y, t2, r) ==
    /\ b = First(MaxConcurrent, x.queue)
    /\ ok \in [DOMAIN b -> BOOLEAN]
    /\ \A i \in DOMAIN b : ok[i] => b[i].url \in DOMAIN LinksOf
    /\ y = TakenAll([found |-> x.found, known |-> x.known, queue |-> Rest(x.queue, Len(b))], b, ok, r)
    /\ t2 = t \cup {Visit(b, ok, i) : i \in DOMAIN b}

\* A whole step of the walk (one turn of the loop of crawl_html_discovery).
LEMMA BatchKeeps ==
  ASSUME NEW r, IsMap(r), NEW t, NEW x, Exploring(x, {}, t, r),
         NEW b, NEW ok, NEW y, NEW t2, TakesBatch(x, b, ok, t, y, t2, r)
  PROVE  Exploring(y, {}, t2, r)
<1> DEFINE x1 == [found |-> x.found, known |-> x.known, queue |-> Rest(x.queue, Len(b))]
<1>1. b = First(MaxConcurrent, x.queue)
  BY DEF TakesBatch
<1>2. Exploring(x1, Range(b), t, r) /\ b \in Seq(Pages(r)) /\ Steady(b)
  <2>1. x1 = [found |-> x.found, known |-> x.known, queue |-> Rest(x.queue, Len(b))]
    OBVIOUS
  <2> HIDE DEF x1
  <2> QED BY <1>1, <2>1, Departs
<1>3. /\ ok \in [DOMAIN b -> BOOLEAN] /\ \A i \in DOMAIN b : ok[i] => b[i].url \in DOMAIN LinksOf
      /\ y = TakenAll(x1, b, ok, r) /\ t2 = t \cup {Visit(b, ok, i) : i \in DOMAIN b}
  BY DEF TakesBatch
<1> HIDE DEF x1
<1>4. Exploring(y, {}, t \cup VisitsOf(b, ok, Len(b)), r)
  BY <1>2, <1>3, BatchTaken
<1>5. DOMAIN b = 1 .. Len(b)
  BY <1>2, Places
<1> QED BY <1>3, <1>4, <1>5 DEF VisitsOf

-----------------------------------------------------------------------------
\* The walk begins with the address of the request, and what the sitemaps gave.
LEMMA WalkBegins ==
  ASSUME NEW r, IsMap(r), NEW f, NEW s, Listing(f, s, r),
         NEW x, x = [found |-> f, known |-> s \cup {Seed(r)}, queue |-> <<[url |-> r.url, depth |-> 0]>>]
  PROVE  Exploring(x, {}, {}, r)
<1> DEFINE e == [url |-> r.url, depth |-> 0]
           q == <<e>>
           k == s \cup {Seed(r)}
           none == {}
<1>1. r.url \in Addresses /\ r.depth \in Nat /\ Seed(r) \in Addresses /\ Reads(none)
  BY NormalForm DEF IsMap, Seed, Reads
<1>2. e \in Pages(r) /\ e.url = r.url /\ e.depth = 0
  BY <1>1 DEF Pages
<1> HIDE DEF e, none
<1>3. q \in Seq(Pages(r)) /\ DOMAIN q = {1} /\ q[1] = e
  BY <1>2
<1> HIDE DEF q
<1>4. f \in Seq(Links) /\ k \subseteq Addresses /\ Seed(r) \in k /\ Urls(f) = s
  BY <1>1 DEF Listing
<1> HIDE DEF k
<1>5. x.found = f /\ x.known = k /\ x.queue = q /\ x \in Walks(r)
  BY <1>3, <1>4 DEF Walks, e, q, k
<1>6. KnownBy(q, none, none) = {e}
  BY <1>3 DEF KnownBy, Range, none
<1>7. Placed(f, k, {e}, none, r)
  <2>1. \A i \in DOMAIN f : SoundLink(f[i], r, none) /\ f[i].source = "sitemap"
    BY DEF Listing, SoundLink
  <2>2. Urls(f) \subseteq k /\ k \subseteq Urls(f) \cup {Seed(r)}
    BY <1>4 DEF k
  <2>3. Distinct(f)
    BY DEF Listing
  <2> QED BY <1>4, <2>1, <2>2, <2>3 DEF Placed
<1>8. OnTheWay(e, k, none, r)
  <2>1. Away(r, none)[0] = {r.url}
    BY <1>1, AwayFacts
  <2> QED BY <1>2, <2>1 DEF OnTheWay
<1>9. InOrder(q, none, none)
  BY <1>3 DEF InOrder, none
<1>10. Exploring(x, none, none, r)
  BY <1>1, <1>5, <1>6, <1>7, <1>8, <1>9 DEF Exploring, none
<1> QED BY <1>10 DEF none

-----------------------------------------------------------------------------
\* All links that are found, before they are ranked.
Concluded(f, t, r) ==
    /\ f \in Seq(Links) /\ Distinct(f)
    /\ \A i \in DOMAIN f : SoundLink(f[i], r, t)
    /\ Len(f) < r.limit => CompleteMap(f, r, t)

\* The sitemaps give links enough: these are sound, and nothing more is promised.
LEMMA ListingConcludes ==
  ASSUME NEW r, IsMap(r), NEW f, NEW s, Listing(f, s, r), Len(f) >= r.limit, NEW t
  PROVE  Concluded(f, t, r)
<1>1. Len(f) \in Nat /\ r.limit \in Nat
  <2>1. f \in Seq(Links)
    BY DEF Listing
  <2> QED BY <2>1, Places DEF IsMap
<1>2. ~(Len(f) < r.limit)
  BY <1>1
<1> QED BY <1>2 DEF Concluded, Listing, SoundLink

\* When no page is left, what is n links away is known, and is on no page that is
\* deeper: so its own links are followed, if it is not as far away as is asked for.
Reached(n, u, x, t, r) ==
    /\ \A v \in t : v.url = u => v.depth <= n
    /\ n # 0 => u \in x.known /\ Allowed(u, r) /\ \E v \in t : v.ok /\ v.depth = 0

\* All that can be reached was, level by level.
LEMMA WalkReaches ==
  ASSUME NEW r, IsMap(r), NEW t, NEW x, Exploring(x, {}, t, r), x.queue = << >>
  PROVE  \A n \in 0 .. r.depth : \A u \in Away(r, t)[n] : Reached(n, u, x, t, r)
<1> DEFINE P == {PageOf(v) : v \in t}
           A == Away(r, t)
<1>1. /\ x \in Walks(r) /\ t \subseteq Visits(r) /\ Reads(t) /\ r.depth \in Nat /\ r.url \in Addresses
      /\ KnownBy(x.queue, {}, t) = P
  <2>1. Range(<< >>) = {}
    BY DEF Range
  <2> QED BY <2>1 DEF Exploring, KnownBy, IsMap
<1>2. \A v \in t : OnTheWay(PageOf(v), x.known, t, r) /\ LinksKnown(v, x.known, P, r) /\ v.depth \in 0 .. r.depth
  BY <1>1 DEF Exploring, Visits
<1>3. \A v \in t : PageOf(v) \in P /\ PageOf(v).url = v.url /\ PageOf(v).depth = v.depth
  BY DEF PageOf
<1>4. /\ A[0] = {r.url}
      /\ \A n \in 1 .. r.depth : A[n] = LinkedFrom(A[n - 1], r, t)
  BY <1>1, AwayFacts
<1> HIDE DEF A, P
<1> DEFINE S == {n \in 0 .. r.depth : \A u \in A[n] : Reached(n, u, x, t, r)}
<1>5. ASSUME NEW v \in t, v.url = r.url PROVE v.depth = 0
  <2> SUFFICES ASSUME v.depth # 0 PROVE FALSE
    OBVIOUS
  <2>1. Normalised(v.url, r) = v.url /\ v.url # Seed(r)
    BY <1>2, <1>3 DEF OnTheWay
  <2> QED BY <1>5, <2>1 DEF Seed
<1>6. 0 \in S
  <2>1. \A u \in A[0] : Reached(0, u, x, t, r)
    BY <1>4, <1>5 DEF Reached
  <2> QED BY <1>1, <2>1
<1>7. ASSUME NEW n \in 1 .. r.depth, n - 1 \in S PROVE n \in S
  <2>1. ASSUME NEW u \in A[n] PROVE Reached(n, u, x, t, r)
    <3>0. PICK v \in t : \E l : Reaches(u, l, v, A[n - 1], r)
      <4>1. u \in LinkedFrom(A[n - 1], r, t)
        BY <1>4, <2>1
      <4> QED BY <4>1, LinkedFromFacts
    <3>1. PICK l : Reaches(u, l, v, A[n - 1], r)
      BY <3>0
    <3>2. v.ok /\ v.url \in A[n - 1] /\ l \in Range(PageLinks(v.url)) /\ u = Normalised(l, r) /\ Allowed(u, r)
      BY <3>1 DEF Reaches
    <3>3. Reached(n - 1, v.url, x, t, r)
      BY <1>7, <3>2
    <3>4. v.depth <= n - 1 /\ v.depth \in Nat /\ v.depth < r.depth
      <4>1. v.depth <= n - 1 /\ v.depth \in 0 .. r.depth
        BY <1>2, <3>3 DEF Reached
      <4> QED BY <1>1, <4>1
    <3>5. LinkKnown(l, v.depth, x.known, P, r)
      BY <1>2, <3>2, <3>4 DEF LinksKnown
    <3>6. u \in x.known /\ \A e \in P : e.url = u => e.depth <= v.depth + 1
      BY <3>2, <3>5 DEF LinkKnown
    <3>7. ASSUME NEW z \in t, z.url = u PROVE z.depth <= n
      <4>1. z.depth <= v.depth + 1
        BY <1>3, <3>6, <3>7
      <4>2. z.depth \in 0 .. r.depth
        BY <1>2
      <4> QED BY <1>1, <3>4, <4>1, <4>2
    <3>8. \E z \in t : z.ok /\ z.depth = 0
      <4>1. CASE n - 1 = 0
        <5>1. v.url = r.url
          BY <1>4, <3>2, <4>1
        <5> QED BY <1>5, <3>2, <5>1
      <4>2. CASE n - 1 # 0
        BY <3>3, <4>2 DEF Reached
      <4> QED BY <4>1, <4>2
    <3> QED BY <3>2, <3>6, <3>7, <3>8 DEF Reached
  <2> QED BY <1>1, <2>1
<1>8. \A n \in 0 .. r.depth : n \in S
  <2> HIDE DEF S
  <2> QED BY <1>1, <1>6, <1>7, Climb
<1> QED BY <1>8 DEF A

\* When the walk ends its links are sound, and complete if there is room for more.
LEMMA WalkConcludes ==
  ASSUME NEW r, IsMap(r), NEW t, NEW x, Exploring(x, {}, t, r),
         x.queue = << >> \/ Len(x.found) >= 2 * r.limit
  PROVE  Concluded(x.found, t, r)
<1> DEFINE f == x.found
           P == KnownBy(x.queue, {}, t)
<1>1. Placed(f, x.known, P, t, r) /\ r.limit \in Nat /\ r.depth \in Nat
  BY DEF Exploring, IsMap
<1>2. f \in Seq(Links) /\ Len(f) \in Nat
  <2>1. f \in Seq(Links)
    BY <1>1 DEF Placed
  <2> QED BY <2>1, Places
<1>3. ASSUME Len(f) < r.limit PROVE CompleteMap(f, r, t)
  <2>1. x.queue = << >> /\ Len(f) < 2 * r.limit
    <3> HIDE DEF f
    <3> QED BY <1>1, <1>2, <1>3 DEF f
  <2>2. P = {PageOf(v) : v \in t}
    <3>1. Range(<< >>) = {}
      BY DEF Range
    <3> QED BY <2>1, <3>1 DEF KnownBy
  <2> HIDE DEF f, P
  <2>3. x.known \subseteq Urls(f) \cup {Seed(r)}
    BY <1>1, <2>1 DEF Placed
  <2>4. \A n \in 0 .. r.depth : \A u \in Away(r, t)[n] : Reached(n, u, x, t, r)
    BY <2>1, WalkReaches
  <2>5. ASSUME NEW n \in 1 .. r.depth, NEW u \in Away(r, t)[n]
        PROVE  \E i \in DOMAIN f : /\ f[i].url = u
                                   /\ f[i].source # "sitemap" => \E v \in t : Normalised(v.url, r) = u
    <3>1. Reached(n, u, x, t, r) /\ n # 0
      BY <1>1, <2>4
    <3>2. u \in Urls(f)
      <4>1. CASE u \in Urls(f)
        BY <4>1
      <4>2. CASE u \notin Urls(f)
        <5>1. u = Seed(r) /\ Allowed(Seed(r), r)
          BY <2>3, <3>1, <4>2 DEF Reached
        <5>2. PICK v \in t : v.ok /\ v.depth = 0
          BY <3>1 DEF Reached
        <5>3. SeedListed(v, f, r)
          BY DEF Exploring, f
        <5> QED BY <5>1, <5>2, <5>3 DEF SeedListed
      <4> QED BY <4>1, <4>2
    <3>3. PICK i \in DOMAIN f : f[i].url = u
      BY <3>2 DEF Urls
    <3>4. ASSUME f[i].source # "sitemap" PROVE \E v \in t : Normalised(v.url, r) = u
      <4>1. PICK e \in P : Normalised(e.url, r) = f[i].url
        BY <1>1, <3>4 DEF Placed
      <4>2. PICK v \in t : e = PageOf(v)
        BY <2>2
      <4> QED BY <3>3, <4>1, <4>2 DEF PageOf
    <3> QED BY <3>3, <3>4
  <2> QED BY <2>5 DEF CompleteMap
<1> QED BY <1>1, <1>3 DEF Concluded, Placed

-----------------------------------------------------------------------------
\* Ranking.
LEMMA InsertAtFacts ==
  ASSUME NEW T, NEW s \in Seq(T), NEW p \in 1 .. Len(s) + 1, NEW e \in T
  PROVE  /\ InsertAt(s, p, e) \in Seq(T) /\ Len(InsertAt(s, p, e)) = Len(s) + 1
         /\ \A i \in 1 .. Len(s) + 1 :
               InsertAt(s, p, e)[i] = IF i < p THEN s[i] ELSE IF i = p THEN e ELSE s[i - 1]
<1> DEFINE N == Len(s)
           a == SubSeq(s, 1, p - 1)
           b == SubSeq(s, p, N)
           m == p - 1
<1>1. N \in Nat /\ \A i \in 1 .. N : s[i] \in T
  BY Places
<1>2. m \in 0 .. N /\ p = m + 1 /\ m \in Int /\ 1 \in Int
  BY <1>1
<1>3. a \in Seq(T) /\ Len(a) = m /\ \A i \in 1 .. m : a[i] = s[i]
  <2>1. \A i \in 1 .. m : s[i] \in T
    BY <1>1, <1>2
  <2> HIDE DEF m, N
  <2>2. /\ SubSeq(s, 1, m) \in Seq(T) /\ Len(SubSeq(s, 1, m)) = IF 1 <= m THEN m - 1 + 1 ELSE 0
        /\ \A i \in 1 .. m - 1 + 1 : SubSeq(s, 1, m)[i] = s[1 + i - 1]
    BY <1>2, <2>1, SubSeqProperties
  <2>3. a = SubSeq(s, 1, m)
    BY DEF m
  <2>4. (1 <= m => m - 1 + 1 = m) /\ (~(1 <= m) => m = 0)
    BY <1>1, <1>2
  <2>5. \A i \in 1 .. m : i \in 1 .. m - 1 + 1 /\ 1 + i - 1 = i
    BY <1>1, <1>2
  <2> HIDE DEF a
  <2>6. \A i \in 1 .. m : a[i] = s[i]
    <3> SUFFICES ASSUME NEW i \in 1 .. m PROVE a[i] = s[i]
      OBVIOUS
    <3>1. a[i] = s[1 + i - 1]
      BY <2>2, <2>3, <2>5
    <3> QED BY <2>5, <3>1
  <2> QED BY <2>2, <2>3, <2>4, <2>6
<1>4. b \in Seq(T) /\ Len(b) = N - m /\ \A i \in 1 .. N - m : b[i] = s[m + i]
  <2>1. Rest(s, m) \in Seq(T) /\ Len(Rest(s, m)) = N - m /\ \A i \in 1 .. N - m : Rest(s, m)[i] = s[m + i]
    <3> HIDE DEF m
    <3> QED BY <1>2, RestFacts
  <2>2. b = Rest(s, m)
    BY <1>2 DEF Rest
  <2> QED BY <2>1, <2>2
<1> DEFINE c == <<e>>
           ac == a \o c
           g == ac \o b
<1>5. c \in Seq(T) /\ Len(c) = 1 /\ c[1] = e
  OBVIOUS
<1>6. InsertAt(s, p, e) = g
  BY DEF InsertAt
<1> HIDE DEF a, b, c, m, N
<1>7. ac \in Seq(T) /\ Len(ac) = m + 1 /\ \A i \in 1 .. m + 1 : ac[i] = IF i <= m THEN a[i] ELSE c[i - m]
  <2>1. /\ ac \in Seq(T) /\ Len(ac) = Len(a) + Len(c)
        /\ \A i \in 1 .. Len(a) + Len(c) : ac[i] = IF i <= Len(a) THEN a[i] ELSE c[i - Len(a)]
    BY <1>3, <1>5, ConcatProperties
  <2> QED BY <1>3, <1>5, <2>1
<1> HIDE DEF ac
<1>8. /\ g \in Seq(T) /\ Len(g) = Len(ac) + Len(b)
      /\ \A i \in 1 .. Len(ac) + Len(b) : g[i] = IF i <= Len(ac) THEN ac[i] ELSE b[i - Len(ac)]
  BY <1>4, <1>7, ConcatProperties
<1> HIDE DEF g
<1>9. Len(ac) + Len(b) = N + 1 /\ Len(ac) = m + 1
  BY <1>1, <1>2, <1>4, <1>7
<1>10. ASSUME NEW i \in 1 .. N + 1 PROVE g[i] = IF i < p THEN s[i] ELSE IF i = p THEN e ELSE s[i - 1]
  <2>1. i \in 1 .. Len(ac) + Len(b) /\ i \in Nat
    BY <1>1, <1>9
  <2>2. CASE i < p
    <3>1. i \in 1 .. m /\ i \in 1 .. m + 1 /\ i <= m /\ i <= Len(ac)
      BY <1>2, <1>9, <2>1, <2>2
    <3> QED BY <1>3, <1>7, <1>8, <2>1, <2>2, <3>1
  <2>3. CASE i = p
    <3>1. i \in 1 .. m + 1 /\ ~(i <= m) /\ i <= Len(ac) /\ i - m = 1 /\ ~(i < p)
      BY <1>2, <1>9, <2>1, <2>3
    <3>2. g[i] = c[1]
      BY <1>7, <1>8, <2>1, <3>1
    <3> QED BY <1>5, <2>3, <3>1, <3>2
  <2>4. CASE ~(i < p) /\ i # p
    <3>1. i - (m + 1) \in 1 .. N - m /\ ~(i <= Len(ac)) /\ i - Len(ac) = i - (m + 1) /\ m + (i - (m + 1)) = i - 1
      BY <1>1, <1>2, <1>9, <2>1, <2>4
    <3>2. g[i] = b[i - (m + 1)]
      BY <1>8, <2>1, <3>1
    <3>3. g[i] = s[m + (i - (m + 1))]
      BY <1>4, <3>1, <3>2
    <3>4. g[i] = s[i - 1]
      BY <3>1, <3>3
    <3> QED BY <2>4, <3>4
  <2> QED BY <2>2, <2>3, <2>4
<1> QED BY <1>6, <1>8, <1>9, <1>10 DEF N

Descending(z) == \A i, j \in DOMAIN z : i < j => z[i].score >= z[j].score
Named(l) == <<l.url, l.source>>
Entries(z) == {Named(z[i]) : i \in DOMAIN z}
Rated == {l \in Links : l.score \in Int}

\* A score is a number, and changes nothing else of a link.
LEMMA ScoredFacts ==
  ASSUME NEW l \in Links, NEW tokens \in Seq(DOMAIN Fit), tokens # << >>
  PROVE  Scored(l, tokens) \in Rated /\ Named(Scored(l, tokens)) = Named(l)
<1>1. Len(tokens) \in Nat /\ Len(tokens) # 0
  BY Places
<1>2. \A x \in Int : \A k \in 1 .. Len(tokens) : x + Points(l, tokens[k]) \in Int
  <2>1. \A k \in 1 .. Len(tokens) : Points(l, tokens[k]) \in Int
    BY DEF Points, Weight
  <2> QED BY <2>1
<1>3. Total(l, tokens) \in Int
  <2> DEFINE U == Int
  <2>0. 0 \in U /\ \A x \in U : \A k \in 1 .. Len(tokens) : x + Points(l, tokens[k]) \in U
    BY <1>2
  <2> HIDE DEF U
  <2>1. /\ TotallingRun(l, tokens) \in [0 .. Len(tokens) -> U]
        /\ Total(l, tokens) = TotallingRun(l, tokens)[Len(tokens)]
    BY ONLY <1>1, <2>0, TotalSteps
  <2>2. Len(tokens) \in 0 .. Len(tokens)
    BY <1>1
  <2>3. Total(l, tokens) \in U
    BY <2>1, <2>2
  <2> QED BY <2>3 DEF U
<1>4. Score(l, tokens) \in Int
  <2> DEFINE a == Total(l, tokens) * 200 + 75 * Len(tokens)
             b == 150 * Len(tokens)
  <2>1. a \in Int /\ b \in Nat /\ b > 0
    BY <1>1, <1>3
  <2> HIDE DEF a, b
  <2>2. a \div b \in Int
    BY <2>1
  <2>3. Score(l, tokens) = IF a \div b < 1 THEN 1 ELSE IF a \div b > 99 THEN 99 ELSE a \div b
    BY DEF Score, a, b
  <2> QED BY <2>2, <2>3
<1>5. Scored(l, tokens) = [l EXCEPT !.score = Score(l, tokens)]
  BY DEF Scored
<1> QED BY <1>4, <1>5 DEF Links, Rated, Named

\* One link comes into its place: the list stays in order, and loses nothing.
LEMMA RankedInFacts ==
  ASSUME NEW z \in Seq(Rated), Descending(z), NEW l \in Rated, NEW g, g = RankedIn(z, l)
  PROVE  /\ g \in Seq(Rated) /\ Descending(g) /\ Len(g) = Len(z) + 1
         /\ Entries(g) = Entries(z) \cup {Named(l)}
         /\ Distinct(z) /\ l.url \notin Urls(z) => Distinct(g)
<1> DEFINE N == Len(z)
           lower == {n \in DOMAIN z : z[n].score < l.score}
           p == IF lower = {} THEN N + 1 ELSE CHOOSE n \in lower : \A m \in lower : n <= m
<1>1. /\ N \in Nat /\ DOMAIN z = 1 .. N
      /\ \A i \in DOMAIN z : z[i] \in Rated /\ z[i].score \in Int
  <2>1. N \in Nat /\ DOMAIN z = 1 .. N /\ \A i \in DOMAIN z : z[i] \in Rated
    BY Places
  <2> QED BY <2>1 DEF Rated
<1>2. l.score \in Int
  BY DEF Rated
<1>3. g = InsertAt(z, p, l)
  BY DEF RankedIn
<1>4. /\ p \in 1 .. N + 1
      /\ \A i \in DOMAIN z : i < p => z[i].score >= l.score
      /\ \A i \in DOMAIN z : i >= p => l.score >= z[i].score
  <2>1. CASE lower = {}
    <3>1. p = N + 1
      BY <2>1
    <3> HIDE DEF p
    <3>2. \A i \in DOMAIN z : ~(z[i].score < l.score) /\ z[i].score \in Int
      BY <1>1, <2>1
    <3>3. \A i \in DOMAIN z : ~(i >= p)
      BY <1>1, <3>1
    <3>4. p \in 1 .. N + 1
      BY <1>1, <3>1
    <3>5. \A i \in DOMAIN z : z[i].score >= l.score
      BY <1>2, <3>2
    <3> QED BY <3>3, <3>4, <3>5
  <2>2. CASE lower # {}
    <3>1. lower \subseteq Nat
      BY <1>1
    <3>2. p = CHOOSE n \in lower : \A m \in lower : n <= m
      BY <2>2
    <3>3. p \in lower /\ \A m \in lower : p <= m
      <4> HIDE DEF lower, p
      <4>1. \E n \in lower : \A m \in lower : n <= m
        BY <2>2, <3>1, LeastElement
      <4> QED BY <3>2, <4>1
    <3> HIDE DEF p
    <3>4. p \in DOMAIN z /\ z[p].score < l.score /\ p \in 1 .. N + 1
      BY <1>1, <3>3
    <3>5. ASSUME NEW i \in DOMAIN z, i < p PROVE z[i].score >= l.score
      <4>1. i \notin lower
        BY <1>1, <3>3, <3>4, <3>5
      <4> QED BY <1>1, <1>2, <4>1
    <3>6. ASSUME NEW i \in DOMAIN z, i >= p PROVE l.score >= z[i].score
      <4>1. CASE i = p
        BY <1>1, <1>2, <3>4, <4>1
      <4>2. CASE i # p
        <5>1. p < i
          BY <1>1, <3>4, <3>6, <4>2
        <5>2. z[p].score >= z[i].score
          BY <3>4, <5>1 DEF Descending
        <5> QED BY <1>1, <1>2, <3>4, <5>2
      <4> QED BY <4>1, <4>2
    <3> QED BY <3>4, <3>5, <3>6
  <2> QED BY <2>1, <2>2
<1> HIDE DEF p, lower
<1>5. /\ g \in Seq(Rated) /\ Len(g) = N + 1
      /\ \A i \in 1 .. N + 1 : g[i] = IF i < p THEN z[i] ELSE IF i = p THEN l ELSE z[i - 1]
  <2> DEFINE h == InsertAt(z, p, l)
  <2>1. p \in 1 .. Len(z) + 1
    BY <1>4
  <2>2. /\ h \in Seq(Rated) /\ Len(h) = Len(z) + 1
        /\ \A i \in 1 .. Len(z) + 1 : h[i] = IF i < p THEN z[i] ELSE IF i = p THEN l ELSE z[i - 1]
    BY <2>1, InsertAtFacts
  <2> HIDE DEF h
  <2>3. g = h
    BY <1>3 DEF h
  <2> QED BY <2>2, <2>3
<1> HIDE DEF N
<1>6. DOMAIN g = 1 .. N + 1 /\ p \in DOMAIN g /\ g[p] = l
  <2>1. DOMAIN g = 1 .. N + 1
    BY <1>5, Places
  <2> QED BY <1>1, <1>4, <1>5, <2>1
<1>7. ASSUME NEW i \in DOMAIN g
      PROVE  /\ i < p => i \in DOMAIN z /\ g[i] = z[i]
             /\ i > p => i - 1 \in DOMAIN z /\ g[i] = z[i - 1]
  BY <1>1, <1>4, <1>5, <1>6
<1>8. ASSUME NEW i \in DOMAIN z
      PROVE  /\ i < p => i \in DOMAIN g /\ g[i] = z[i]
             /\ ~(i < p) => i + 1 \in DOMAIN g /\ g[i + 1] = z[i]
  BY <1>1, <1>4, <1>5, <1>6
<1>9. Descending(g)
  <2> SUFFICES ASSUME NEW i \in DOMAIN g, NEW j \in DOMAIN g, i < j PROVE g[i].score >= g[j].score
    BY DEF Descending
  <2>1. p \in Int /\ i \in Int /\ j \in Int
    BY <1>1, <1>4, <1>6
  <2>2. CASE j < p
    BY <1>7, <2>1, <2>2 DEF Descending
  <2>3. CASE j = p
    BY <1>4, <1>6, <1>7, <2>1, <2>3
  <2>4. CASE j > p /\ i < p
    <3>1. i \in DOMAIN z /\ g[i] = z[i] /\ j - 1 \in DOMAIN z /\ g[j] = z[j - 1] /\ j - 1 >= p
      BY <1>7, <2>1, <2>4
    <3> QED BY <1>1, <1>2, <1>4, <2>4, <3>1
  <2>5. CASE j > p /\ i = p
    <3>1. j - 1 \in DOMAIN z /\ g[j] = z[j - 1] /\ j - 1 >= p
      BY <1>7, <2>1, <2>5
    <3> QED BY <1>4, <1>6, <2>5, <3>1
  <2>6. CASE j > p /\ i > p
    <3>1. i - 1 \in DOMAIN z /\ g[i] = z[i - 1] /\ j - 1 \in DOMAIN z /\ g[j] = z[j - 1] /\ i - 1 < j - 1
      BY <1>7, <2>1, <2>6
    <3> QED BY <3>1 DEF Descending
  <2> QED BY <2>1, <2>2, <2>3, <2>4, <2>5, <2>6
<1>10. p \in Int /\ \A i \in DOMAIN g : i \in Int
  BY <1>1, <1>4, <1>6
<1>11. ASSUME NEW i \in DOMAIN g PROVE i = p \/ \E j \in DOMAIN z : g[i] = z[j]
  BY <1>7, <1>10
<1>12. ASSUME NEW j \in DOMAIN z PROVE \E i \in DOMAIN g : g[i] = z[j]
  BY <1>8
<1>13. Entries(g) = Entries(z) \cup {Named(l)}
  <2>1. ASSUME NEW i \in DOMAIN g PROVE Named(g[i]) \in Entries(z) \cup {Named(l)}
    BY <1>6, <1>11 DEF Entries
  <2>2. ASSUME NEW j \in DOMAIN z PROVE Named(z[j]) \in Entries(g)
    BY <1>12 DEF Entries
  <2>3. Named(l) \in Entries(g)
    BY <1>6 DEF Entries
  <2>4. Entries(g) \subseteq Entries(z) \cup {Named(l)}
    BY <2>1 DEF Entries
  <2>5. Entries(z) \subseteq Entries(g)
    BY <2>2 DEF Entries
  <2> QED BY <2>3, <2>4, <2>5
<1>14. ASSUME Distinct(z), l.url \notin Urls(z) PROVE Distinct(g)
  <2> SUFFICES ASSUME NEW i \in DOMAIN g, NEW j \in DOMAIN g, g[i].url = g[j].url, i # j PROVE FALSE
    BY DEF Distinct
  <2>1. \A k \in DOMAIN z : z[k].url # l.url
    BY <1>14 DEF Urls
  <2>2. i # p /\ j # p
    BY <1>6, <1>11, <2>1
  <2>3. PICK a \in DOMAIN z : g[i] = z[a] /\ a = IF i < p THEN i ELSE i - 1
    BY <1>7, <1>10, <2>2
  <2>4. PICK b \in DOMAIN z : g[j] = z[b] /\ b = IF j < p THEN j ELSE j - 1
    BY <1>7, <1>10, <2>2
  <2>5. a = b
    BY <1>14, <2>3, <2>4 DEF Distinct
  <2> QED BY <1>10, <2>2, <2>3, <2>4, <2>5
<1> QED BY <1>5, <1>9, <1>13, <1>14 DEF N

\* Each link of the first list is in the second.
ListedIn(a, b) ==
    \A i \in DOMAIN a : \E j \in DOMAIN b : b[j].url = a[i].url /\ b[j].source = a[i].source

\* From the sets of entries to the lists.
LEMMA EntriesListed ==
  ASSUME NEW a, NEW b, Entries(a) \subseteq Entries(b)
  PROVE  ListedIn(a, b)
<1> SUFFICES ASSUME NEW i \in DOMAIN a
             PROVE  \E j \in DOMAIN b : b[j].url = a[i].url /\ b[j].source = a[i].source
  BY DEF ListedIn
<1>1. Named(a[i]) \in Entries(b)
  BY DEF Entries
<1>2. PICK j \in DOMAIN b : Named(a[i]) = Named(b[j])
  BY <1>1 DEF Entries
<1> QED BY <1>2 DEF Named

\* Ranking keeps every link once, and orders them by their scores.
LEMMA RankedFacts ==
  ASSUME NEW f \in Seq(Links), Distinct(f), NEW tokens \in Seq(DOMAIN Fit) \cup {Nothing},
         NEW g, g = Ranked(f, tokens)
  PROVE  /\ g \in Seq(Links) /\ Len(g) = Len(f) /\ Distinct(g) /\ Entries(g) = Entries(f)
         /\ tokens \notin {Nothing, << >>} => Descending(g)
<1>1. CASE tokens \in {Nothing, << >>}
  BY <1>1 DEF Ranked
<1>2. CASE tokens \notin {Nothing, << >>}
  <2> DEFINE N == Len(f)
             U == {z \in Seq(Rated) : Descending(z)}
             h == RankingRun(f, tokens)
             First0(k) == {Named(f[i]) : i \in 1 .. k}
             S == {k \in 0 .. N : Len(h[k]) = k /\ Distinct(h[k]) /\ Entries(h[k]) = First0(k)}
  <2>1. N \in Nat /\ DOMAIN f = 1 .. N /\ \A i \in 1 .. N : f[i] \in Links
    BY Places
  <2>2. \A k \in 1 .. N : Scored(f[k], tokens) \in Rated /\ Named(Scored(f[k], tokens)) = Named(f[k])
    BY <1>2, <2>1, ScoredFacts
  <2>3. << >> \in U
    <3>1. << >> \in Seq(Rated) /\ DOMAIN << >> = {}
      BY NoLinks
    <3> QED BY <3>1 DEF Descending
  <2>4. \A z \in U : \A k \in 1 .. N : RankedIn(z, Scored(f[k], tokens)) \in U
    BY <2>2, RankedInFacts
  <2>5. U = {z \in Seq(Rated) : Descending(z)}
    OBVIOUS
  <2> HIDE DEF U
  <2>6. /\ h \in [0 .. N -> U] /\ h[0] = << >> /\ Ranked(f, tokens) = h[N]
        /\ \A k \in 1 .. N : h[k] = RankedIn(h[k - 1], Scored(f[k], tokens))
    BY ONLY <1>2, <2>1, <2>3, <2>4, RankedSteps
  <2> HIDE DEF h, N
  <2>7. 0 \in S
    <3>1. Len(<< >>) = 0 /\ Distinct(<< >>) /\ DOMAIN << >> = {}
      BY NoLinks
    <3>2. Entries(<< >>) = {} /\ First0(0) = {}
      BY <3>1 DEF Entries
    <3>3. 0 \in 0 .. N
      BY <2>1
    <3> HIDE DEF First0
    <3> QED BY <2>6, <3>1, <3>2, <3>3
  <2>8. ASSUME NEW k \in 1 .. N, k - 1 \in S PROVE k \in S
    <3> DEFINE z == h[k - 1]
               l == Scored(f[k], tokens)
               y == h[k]
    <3>1. k - 1 \in 0 .. N /\ k \in 0 .. N /\ k \in DOMAIN f
      BY <2>1
    <3>2. z \in Seq(Rated) /\ Descending(z)
      BY <2>5, <2>6, <3>1
    <3>3. l \in Rated /\ Named(l) = Named(f[k]) /\ y = RankedIn(z, l)
      BY <2>2, <2>6
    <3>4. Len(z) = k - 1 /\ Distinct(z) /\ Entries(z) = First0(k - 1)
      BY <2>8
    <3> HIDE DEF z, l, y, First0
    <3>5. /\ Len(y) = Len(z) + 1 /\ Entries(y) = Entries(z) \cup {Named(l)}
          /\ Distinct(z) /\ l.url \notin Urls(z) => Distinct(y)
      BY <3>2, <3>3, RankedInFacts
    <3>6. l.url = f[k].url
      BY <3>3 DEF Named
    <3>7. l.url \notin Urls(z)
      <4> SUFFICES ASSUME NEW i \in DOMAIN z, z[i].url = l.url PROVE FALSE
        BY DEF Urls
      <4>1. Named(z[i]) \in First0(k - 1)
        BY <3>4 DEF Entries
      <4>2. PICK j \in 1 .. k - 1 : Named(z[i]) = Named(f[j])
        BY <4>1 DEF First0
      <4>3. f[j].url = f[k].url
        BY <3>6, <4>2 DEF Named
      <4>4. j \in DOMAIN f /\ j # k
        BY <2>1
      <4> QED BY <3>1, <4>3, <4>4 DEF Distinct
    <3>8. First0(k) = First0(k - 1) \cup {Named(f[k])}
      <4>1. 1 .. k = (1 .. k - 1) \cup {k}
        BY <2>1
      <4> QED BY <4>1 DEF First0
    <3>9. Len(y) = k
      BY <2>1, <3>4, <3>5
    <3> QED BY <3>1, <3>3, <3>4, <3>5, <3>7, <3>8, <3>9 DEF y
  <2>9. \A k \in 0 .. N : k \in S
    <3> HIDE DEF S
    <3> QED BY <2>1, <2>7, <2>8, Climb
  <2>10. N \in 0 .. N /\ g = h[N]
    BY <2>1, <2>6
  <2>11. Len(g) = N /\ Distinct(g) /\ Entries(g) = First0(N)
    BY <2>9, <2>10
  <2>12. g \in Seq(Rated) /\ Descending(g)
    BY <2>5, <2>6, <2>10
  <2>13. g \in Seq(Links)
    <3>1. Rated \subseteq Links
      BY DEF Rated
    <3> QED BY <2>12, <3>1, SeqMonotonic
  <2>14. First0(N) = Entries(f)
    BY <2>1 DEF Entries
  <2> QED BY <2>11, <2>12, <2>13, <2>14 DEF N
<1> QED BY <1>1, <1>2

\* The map that is made of all links: the first of them, ranked.
LEMMA MapConcludes ==
  ASSUME NEW r, IsMap(r), NEW t, NEW f, Concluded(f, t, r),
         NEW g, g = First(r.limit, Ranked(f, r.search))
  PROVE  /\ g \in Seq(Links) /\ SoundMap(g, r, t)
         /\ Len(g) < r.limit => CompleteMap(g, r, t)
<1> DEFINE all == Ranked(f, r.search)
<1>1. f \in Seq(Links) /\ Distinct(f) /\ r.limit \in Nat /\ r.search \in Seq(DOMAIN Fit) \cup {Nothing}
  BY DEF Concluded, IsMap
<1>2. /\ all \in Seq(Links) /\ Len(all) = Len(f) /\ Distinct(all) /\ Entries(all) = Entries(f)
      /\ r.search \notin {Nothing, << >>} => Descending(all)
  <2> DEFINE tokens == r.search
  <2>1. tokens \in Seq(DOMAIN Fit) \cup {Nothing} /\ all = Ranked(f, tokens)
    BY <1>1
  <2> HIDE DEF tokens, all
  <2>2. /\ all \in Seq(Links) /\ Len(all) = Len(f) /\ Distinct(all) /\ Entries(all) = Entries(f)
        /\ tokens \notin {Nothing, << >>} => Descending(all)
    BY <1>1, <2>1, RankedFacts
  <2> QED BY <2>2 DEF tokens
<1>3. g = First(r.limit, all)
  OBVIOUS
<1> HIDE DEF all
<1>4. /\ g \in Seq(Links) /\ Len(g) = (IF Len(all) < r.limit THEN Len(all) ELSE r.limit)
      /\ DOMAIN g = 1 .. Len(g) /\ Len(all) \in Nat
      /\ \A i \in DOMAIN g : i \in DOMAIN all /\ g[i] = all[i]
  <2> DEFINE n == r.limit
  <2>1. n \in Nat /\ g = First(n, all)
    BY <1>1, <1>3
  <2> HIDE DEF n
  <2>2. /\ g \in Seq(Links) /\ Len(g) = (IF Len(all) < n THEN Len(all) ELSE n)
        /\ DOMAIN g = 1 .. Len(g) /\ Len(all) \in Nat
        /\ \A i \in DOMAIN g : i \in DOMAIN all /\ g[i] = all[i]
    BY ONLY <1>2, <2>1, FirstFacts
  <2> QED BY <2>2 DEF n
<1>5. Distinct(g)
  BY <1>2, <1>4 DEF Distinct
<1>6. Len(g) <= r.limit
  BY <1>1, <1>4
<1>7. ASSUME NEW i \in DOMAIN g PROVE SoundLink(g[i], r, t)
  <2>1. PICK j \in DOMAIN f : f[j].url = all[i].url /\ f[j].source = all[i].source
    <3>1. ListedIn(all, f) /\ i \in DOMAIN all
      BY <1>2, <1>4, EntriesListed
    <3> QED BY <3>1 DEF ListedIn
  <2>2. SoundLink(f[j], r, t)
    BY DEF Concluded
  <2> QED BY <1>4, <2>1, <2>2 DEF SoundLink
<1>8. r.search \notin {Nothing, << >>} => \A i, j \in DOMAIN g : i < j => g[i].score >= g[j].score
  BY <1>2, <1>4 DEF Descending
<1>9. SoundMap(g, r, t)
  BY <1>5, <1>6, <1>7, <1>8 DEF SoundMap
<1>10. ASSUME Len(g) < r.limit PROVE CompleteMap(g, r, t)
  <2>1. Len(all) < r.limit /\ Len(g) = Len(all)
    BY <1>1, <1>4, <1>10
  <2>2. CompleteMap(f, r, t)
    BY <1>2, <2>1 DEF Concluded
  <2>3. DOMAIN all = DOMAIN g
    BY <1>2, <1>4, <2>1, Places
  <2>4. ASSUME NEW n \in 1 .. r.depth, NEW u \in Away(r, t)[n]
        PROVE  \E i \in DOMAIN g : /\ g[i].url = u
                                   /\ g[i].source # "sitemap" => \E e \in t : Normalised(e.url, r) = u
    <3>1. PICK j \in DOMAIN f : /\ f[j].url = u
                                /\ f[j].source # "sitemap" => \E e \in t : Normalised(e.url, r) = u
      BY <2>2 DEF CompleteMap
    <3>2. PICK i \in DOMAIN all : all[i].url = f[j].url /\ all[i].source = f[j].source
      <4>1. ListedIn(f, all)
        BY <1>2, EntriesListed
      <4> QED BY <4>1 DEF ListedIn
    <3> QED BY <1>4, <2>3, <3>1, <3>2
  <2> QED BY <2>4 DEF CompleteMap
<1> QED BY <1>4, <1>9, <1>10

-----------------------------------------------------------------------------
\* The results of a search.
Chosen(z, r) == Distinct(z) /\ \A i \in DOMAIN z : Wanted(HostOf[z[i].url], r)

\* The limit of a search is a number.
LEMMA ClampedFacts ==
  ASSUME NEW n \in Nat
  PROVE  Clamped(n) \in Nat
<1>1. MaxResults \in Nat
  BY BoundsAssumption
<1> QED BY <1>1 DEF Clamped

\* One more link of a map is considered for the results.
LEMMA KeptFacts ==
  ASSUME NEW r, NEW z \in Seq(Links), Chosen(z, r), NEW l \in Links
  PROVE  Kept(z, l, r) \in Seq(Links) /\ Chosen(Kept(z, l, r), r)
<1> DEFINE u == Normal[l.url]
           m == Link(u, l.source, FALSE)
           g == Append(z, m)
<1>1. l.url \in Addresses /\ l.source \in Sources /\ FALSE \in BOOLEAN
  BY DEF Links
<1>2. u \in Addresses
  BY <1>1, AddressesAssumption
<1>3. CASE Wanted(HostOf[u], r) /\ u \notin Urls(z)
  <2>1. Kept(z, l, r) = g
    BY <1>3 DEF Kept
  <2> HIDE DEF u
  <2>2. m \in Links /\ m.url = u
    BY <1>1, <1>2, LinkFacts
  <2> HIDE DEF m
  <2>3. /\ g \in Seq(Links) /\ DOMAIN g = DOMAIN z \cup {Len(z) + 1}
        /\ \A i \in DOMAIN z : g[i] = z[i]
        /\ g[Len(z) + 1] = m
        /\ Distinct(z) /\ m.url \notin Urls(z) => Distinct(g)
    BY <2>2, AppendLink
  <2> HIDE DEF g
  <2>4. Chosen(g, r)
    BY <1>3, <2>2, <2>3 DEF Chosen
  <2> QED BY <2>1, <2>3, <2>4
<1>4. CASE ~(Wanted(HostOf[u], r) /\ u \notin Urls(z))
  BY <1>4 DEF Kept
<1> QED BY <1>3, <1>4

\* The results of a search are sound, whatever the links are.
LEMMA ResultsFacts ==
  ASSUME NEW r, r.limit \in Nat, NEW links \in Seq(Links), NEW g, g = Results(links, r)
  PROVE  g \in Seq(Links) /\ SoundResults(g, r)
<1> DEFINE N == Len(links)
           U == {z \in Seq(Links) : Chosen(z, r)}
           n == Clamped(r.limit)
<1>1. N \in Nat /\ \A k \in 1 .. N : links[k] \in Links
  BY Places
<1>2. << >> \in U
  BY NoLinks DEF Chosen
<1>3. \A z \in U : \A k \in 1 .. N : Kept(z, links[k], r) \in U
  BY <1>1, KeptFacts
<1>4. U = {z \in Seq(Links) : Chosen(z, r)}
  OBVIOUS
<1> HIDE DEF U
<1>5. /\ KeepingRun(links, r) \in [0 .. N -> U]
      /\ Results(links, r) = First(n, KeepingRun(links, r)[N])
  BY ONLY <1>1, <1>2, <1>3, KeptSteps
<1> DEFINE z == KeepingRun(links, r)[N]
<1>6. z \in Seq(Links) /\ Chosen(z, r) /\ g = First(n, z)
  BY <1>1, <1>4, <1>5
<1>7. n \in Nat
  BY ClampedFacts
<1> HIDE DEF z, n
<1>8. /\ g \in Seq(Links) /\ Len(g) = (IF Len(z) < n THEN Len(z) ELSE n) /\ Len(z) \in Nat
      /\ \A i \in DOMAIN g : i \in DOMAIN z /\ g[i] = z[i]
  BY ONLY <1>6, <1>7, FirstFacts
<1>9. Distinct(g) /\ \A i \in DOMAIN g : Wanted(HostOf[g[i].url], r)
  BY <1>6, <1>8 DEF Chosen, Distinct
<1>10. Len(g) <= n
  BY <1>7, <1>8
<1> QED BY <1>8, <1>9, <1>10 DEF SoundResults, n

\* Scraping them leaves them what they are.
LEMMA ScrapedFacts ==
  ASSUME NEW r, NEW links \in Seq(Links), SoundResults(links, r), NEW ok,
         NEW g, g = [i \in DOMAIN links |-> Link(links[i].url, links[i].source, i \in ok)]
  PROVE  g \in Seq(Links) /\ SoundResults(g, r)
<1>1. Len(links) \in Nat /\ DOMAIN links = 1 .. Len(links) /\ \A i \in DOMAIN links : links[i] \in Links
  BY Places
<1>2. ASSUME NEW i \in DOMAIN links PROVE g[i] \in Links /\ g[i].url = links[i].url
  <2>1. links[i].url \in Addresses /\ links[i].source \in Sources /\ (i \in ok) \in BOOLEAN
    BY <1>1 DEF Links
  <2>2. g[i] = Link(links[i].url, links[i].source, i \in ok)
    OBVIOUS
  <2> QED BY <2>1, <2>2 DEF Link, Links
<1>3. DOMAIN g = DOMAIN links
  OBVIOUS
<1>4. g \in Seq(Links) /\ Len(g) = Len(links)
  <2>1. g \in [1 .. Len(links) -> Links]
    BY <1>1, <1>2
  <2>2. g \in Seq(Links)
    BY <1>1, <2>1, SeqDef
  <2> QED BY <1>1, <1>3, <2>1, <2>2, LenProperties
<1>5. Distinct(g) /\ \A i \in DOMAIN g : Wanted(HostOf[g[i].url], r)
  BY <1>2, <1>3 DEF SoundResults, Distinct
<1> QED BY <1>4, <1>5 DEF SoundResults

-----------------------------------------------------------------------------
\* The invariant: what each call has done so far, at its place in the code.
Answers == [ok : {TRUE}, by : Calls \cup {Nothing}, made : Nat, links : Seq(Links)]
Good(g, r, t) == SoundMap(g, r, t) /\ (Len(g) < r.limit => CompleteMap(g, r, t))
MapMade(y, a, t, n, c) == y \in Answers /\ y.by = c /\ y.made <= n /\ Good(y.links, a, t)

Asked == {"lookup", "expired", "robots", "sitemaps", "pages", "concluding", "full", "evicting", "storing"}
Unexplored == {"new", "lookup", "provider", "expired", "robots"}
Putting == {"full", "evicting", "storing"}
Answered == {"filter", "scraping", "done"}

\* A call c at p: its request q, the map that is asked for (a), the walk so far
\* (x), the pages that were asked for (t) and its answer (y).
Phase(p, q, a, x, t, y, n, c) ==
    /\ x.found \in Seq(Links) /\ x.known \subseteq Addresses
    /\ p \in Asked => IsMap(a)
    /\ p \in Unexplored => x.found = << >> /\ x.known = {} /\ t = {}
    /\ p = "provider" => q.kind = "search" /\ q.provider \in DOMAIN Provided
    /\ p = "sitemaps" => Listing(x.found, x.known, a) /\ t = {}
    /\ p = "pages" => Exploring(x, {}, t, a)
    /\ p = "concluding" => Concluded(x.found, t, a)
    /\ p \in Putting => MapMade(y, a, t, n, c)
    /\ p = "filter" => q.kind = "search" /\ y \in Answers
    /\ p = "scraping" => q.kind = "search" /\ y \in Answers /\ SoundResults(y.links, q)
    /\ p = "done" => /\ q.kind = "map" /\ y.ok /\ y.by = c => Good(y.links, a, t)
                     /\ q.kind = "search" /\ y.ok => SoundResults(y.links, q)

Walk(c) == [found |-> found[c], known |-> known[c], queue |-> queue[c]]
CallOK(c) == Phase(pc[c], req[c], ask[c], Walk(c), tried[c], reply[c], now, c)

\* An entry is a map that somebody made who has gone on since, or an earlier one.
EntryOK(e) == e \in Answers /\ e.made <= now /\ (e.by \in Calls => pc[e.by] \in Answered)
CacheOK == IsFiniteSet(DOMAIN cache) /\ \A k \in DOMAIN cache : EntryOK(cache[k])

\* There is room for all calls that are about to put their map into the cache,
\* but one for each of the others.
Storing == {c \in Calls : pc[c] = "storing"}
RoomKept ==
    Cardinality(DOMAIN cache) + Cardinality(Storing) <= MaxEntries + Cardinality(Calls) - 1

Shape ==
    /\ now \in Nat /\ req \in Requests
    /\ \A f \in {pc, ask, found, known, queue, tried, reply} : DOMAIN f = Calls

MapInv == Shape /\ CacheOK /\ RoomKept /\ \A c \in Calls : CallOK(c)

\* What a step leaves alone of the other calls.
Others(c) ==
    \A d \in Calls \ {c} :
       /\ pc'[d] = pc[d] /\ ask'[d] = ask[d] /\ found'[d] = found[d] /\ known'[d] = known[d]
       /\ queue'[d] = queue[d] /\ tried'[d] = tried[d] /\ reply'[d] = reply[d]

Alone(c) == Shape' /\ Others(c) /\ req' = req /\ now' = now

\* A step of one call leaves the others where they are in their code.
LEMMA OthersKeep ==
  ASSUME NEW c \in Calls, \A d \in Calls : CallOK(d), Others(c), req' = req, now' = now, CallOK(c)'
  PROVE  \A d \in Calls : CallOK(d)'
<1> SUFFICES ASSUME NEW d \in Calls, d # c PROVE CallOK(d)'
  OBVIOUS
<1>1. /\ pc'[d] = pc[d] /\ ask'[d] = ask[d] /\ tried'[d] = tried[d] /\ reply'[d] = reply[d]
      /\ Walk(d)' = Walk(d)
  BY DEF Others, Walk
<1>2. CallOK(d)
  OBVIOUS
<1> QED BY <1>1, <1>2 DEF CallOK

\* The entries stay good when none is new.
LEMMA CacheKept ==
  ASSUME NEW c \in Calls, CacheOK, Others(c), now' = now, pc[c] \in Answered => pc'[c] \in Answered,
         DOMAIN cache' \subseteq DOMAIN cache, \A k \in DOMAIN cache' : cache'[k] = cache[k]
  PROVE  CacheOK'
<1>1. IsFiniteSet(DOMAIN cache')
  BY FS_Subset DEF CacheOK
<1>2. ASSUME NEW k \in DOMAIN cache' PROVE EntryOK(cache[k])'
  <2>1. EntryOK(cache[k]) /\ cache'[k] = cache[k]
    BY DEF CacheOK
  <2>2. ASSUME cache[k].by \in Calls PROVE pc'[cache[k].by] \in Answered
    <3>1. pc[cache[k].by] \in Answered
      BY <2>1, <2>2 DEF EntryOK
    <3> QED BY <2>2, <3>1 DEF Others
  <2> QED BY <2>1, <2>2 DEF EntryOK
<1> QED BY <1>1, <1>2 DEF CacheOK

\* The calls and the size of the cache are numbers that count.
LEMMA CallsFinite == IsFiniteSet(Calls) /\ Cardinality(Calls) \in Nat \ {0} /\ MaxEntries \in Nat \ {0}
<1>1. IsFiniteSet(Calls) /\ Calls # {}
  BY CallsAssumption
<1>2. Cardinality(Calls) \in Nat /\ Cardinality(Calls) # 0
  BY <1>1, FS_CardinalityType, FS_EmptySet
<1> QED BY <1>1, <1>2, BoundsAssumption

\* No more than all calls are about to store.
LEMMA StoringFinite ==
  /\ IsFiniteSet(Storing) /\ Cardinality(Storing) \in Nat /\ Cardinality(Storing) <= Cardinality(Calls)
  /\ IsFiniteSet(Storing') /\ Cardinality(Storing') \in Nat /\ Cardinality(Storing') <= Cardinality(Calls)
<1>1. \A S : S \subseteq Calls => IsFiniteSet(S) /\ Cardinality(S) \in Nat /\ Cardinality(S) <= Cardinality(Calls)
  BY CallsFinite, FS_Subset, FS_CardinalityType
<1>2. Storing \subseteq Calls /\ Storing' \subseteq Calls
  BY DEF Storing
<1> QED BY <1>1, <1>2

\* A step that nobody begins to store with, and that puts nothing into the cache.
LEMMA RoomStays ==
  ASSUME NEW c \in Calls, CacheOK, RoomKept, Others(c), pc'[c] # "storing", DOMAIN cache' \subseteq DOMAIN cache
  PROVE  RoomKept'
<1>1. Storing' \subseteq Storing
  BY DEF Storing, Others
<1>2. Cardinality(Storing') <= Cardinality(Storing)
  BY <1>1, StoringFinite, FS_Subset
<1>3. /\ Cardinality(DOMAIN cache') <= Cardinality(DOMAIN cache)
      /\ Cardinality(DOMAIN cache) \in Nat /\ Cardinality(DOMAIN cache') \in Nat
  BY FS_Subset, FS_CardinalityType DEF CacheOK
<1> QED BY <1>2, <1>3, StoringFinite, CallsFinite DEF RoomKept

\* Most steps leave the cache as it is.
LEMMA QuietStep ==
  ASSUME MapInv, NEW c \in Calls, Alone(c), cache' = cache, pc'[c] # "storing",
         pc[c] \in Answered => pc'[c] \in Answered, CallOK(c)'
  PROVE  MapInv'
<1>1. CacheOK'
  BY CacheKept DEF MapInv, Alone
<1>2. RoomKept'
  BY RoomStays DEF MapInv, Alone
<1>3. \A d \in Calls : CallOK(d)'
  BY OthersKeep DEF MapInv, Alone
<1> QED BY <1>1, <1>2, <1>3 DEF MapInv, Alone

-----------------------------------------------------------------------------
\* The steps.  A call changes what is its own.
Writes(f, g, c) == g = f \/ \E v : g = Set(f, c, v)

\* A call that writes its own value leaves the others.
LEMMA WritesOwn ==
  ASSUME NEW c \in Calls, NEW f, DOMAIN f = Calls, NEW g, Writes(f, g, c)
  PROVE  DOMAIN g = Calls /\ \A d \in Calls \ {c} : g[d] = f[d]
<1>1. CASE g = f
  BY <1>1
<1>2. CASE \E v : g = Set(f, c, v)
  <2>1. PICK v : g = [f EXCEPT ![c] = v]
    BY <1>2 DEF Set
  <2> QED BY <2>1
<1> QED BY <1>1, <1>2 DEF Writes

\* What is set is what is then there.
LEMMA SetOwn ==
  ASSUME NEW c \in Calls, NEW f, DOMAIN f = Calls, NEW v, NEW g, g = Set(f, c, v)
  PROVE  Writes(f, g, c) /\ g[c] = v
  BY DEF Writes, Set

\* A step that writes the values of one call alone.
LEMMA WritesAlone ==
  ASSUME Shape, NEW c \in Calls, now' = now, req' = req,
         Writes(pc, pc', c), Writes(ask, ask', c), Writes(found, found', c), Writes(known, known', c),
         Writes(queue, queue', c), Writes(tried, tried', c), Writes(reply, reply', c)
  PROVE  Alone(c)
<1>0. DOMAIN pc = Calls /\ DOMAIN ask = Calls /\ DOMAIN found = Calls /\ DOMAIN known = Calls
      /\ DOMAIN queue = Calls /\ DOMAIN tried = Calls /\ DOMAIN reply = Calls
  BY DEF Shape
<1>1. DOMAIN pc' = Calls /\ \A d \in Calls \ {c} : pc'[d] = pc[d]
  BY <1>0, WritesOwn
<1>2. DOMAIN ask' = Calls /\ \A d \in Calls \ {c} : ask'[d] = ask[d]
  BY <1>0, WritesOwn
<1>3. DOMAIN found' = Calls /\ \A d \in Calls \ {c} : found'[d] = found[d]
  BY <1>0, WritesOwn
<1>4. DOMAIN known' = Calls /\ \A d \in Calls \ {c} : known'[d] = known[d]
  BY <1>0, WritesOwn
<1>5. DOMAIN queue' = Calls /\ \A d \in Calls \ {c} : queue'[d] = queue[d]
  BY <1>0, WritesOwn
<1>6. DOMAIN tried' = Calls /\ \A d \in Calls \ {c} : tried'[d] = tried[d]
  BY <1>0, WritesOwn
<1>7. DOMAIN reply' = Calls /\ \A d \in Calls \ {c} : reply'[d] = reply[d]
  BY <1>0, WritesOwn
<1>8. Shape'
  BY <1>1, <1>2, <1>3, <1>4, <1>5, <1>6, <1>7 DEF Shape
<1>9. Others(c)
  BY <1>1, <1>2, <1>3, <1>4, <1>5, <1>6, <1>7 DEF Others
<1> QED BY <1>8, <1>9 DEF Alone

\* What is written when a call goes on, or returns an answer.
LEMMA GoesOn ==
  ASSUME Shape, NEW c \in Calls, NEW step, Goto(c, step)
  PROVE  Writes(pc, pc', c) /\ pc'[c] = step
  BY SetOwn DEF Goto, Shape

\* Return writes the answer.
LEMMA Returns ==
  ASSUME Shape, NEW c \in Calls, NEW answer, Return(c, answer)
  PROVE  /\ Writes(pc, pc', c) /\ pc'[c] = "done"
         /\ Writes(reply, reply', c) /\ reply'[c] = answer
<1>1. Goto(c, "done") /\ reply' = Set(reply, c, answer) /\ DOMAIN reply = Calls
  BY DEF Return, Shape
<1> QED BY <1>1, GoesOn, SetOwn

\* Served returns a map, or goes on to filter it for a search.
LEMMA Serves ==
  ASSUME Shape, NEW c \in Calls, NEW answer, Served(c, answer)
  PROVE  /\ Writes(pc, pc', c) /\ pc'[c] = IF req[c].kind = "map" THEN "done" ELSE "filter"
         /\ Writes(reply, reply', c) /\ reply'[c] = answer
<1>1. CASE req[c].kind = "map"
  BY <1>1, Returns DEF Served
<1>2. CASE req[c].kind # "map"
  <2>1. Goto(c, "filter") /\ reply' = Set(reply, c, answer) /\ DOMAIN reply = Calls
    BY <1>2 DEF Served, Shape
  <2> QED BY <1>2, <2>1, GoesOn, SetOwn
<1> QED BY <1>1, <1>2

\* A request for a map, and the map a search asks for, are what the map service
\* expects.
LEMMA RequestFacts ==
  ASSUME MapInv, NEW c \in Calls
  PROVE  /\ req[c].kind \in {"map", "search"} /\ req[c].limit \in Nat
         /\ req[c].kind = "map" /\ req[c].url \in Addresses => IsMap(req[c])
         /\ SiteOf[req[c].domain] \in Addresses => IsMap(SiteMapOf(req[c], Clamped(req[c].limit)))
         /\ req[c].search \in Seq(DOMAIN Fit) \cup {Nothing}
<1> DEFINE q == req[c]
<1>1. /\ q.kind \in {"map", "search"} /\ q.limit \in Nat
      /\ q.search \in Seq(DOMAIN Fit) \cup {Nothing}
      /\ q.kind = "map" => q.depth \in Nat
  BY CallsAssumption DEF MapInv, Shape
<1> HIDE DEF q
<1>2. q.kind = "map" /\ q.url \in Addresses => IsMap(q)
  BY <1>1 DEF IsMap
<1>3. Clamped(q.limit) \in Nat
  BY <1>1, ClampedFacts
<1>4. SiteOf[q.domain] \in Addresses => IsMap(SiteMapOf(q, Clamped(q.limit)))
  BY <1>1, <1>3 DEF IsMap, SiteMapOf
<1> QED BY <1>1, <1>2, <1>4 DEF q

\* A call that changes neither the cache nor its walk.
LEMMA CallStep ==
  ASSUME MapInv, NEW c \in Calls, UNCHANGED <<cache, now, req, exploring>>,
         Writes(pc, pc', c), Writes(ask, ask', c), Writes(reply, reply', c),
         pc'[c] # "storing", pc[c] \in Answered => pc'[c] \in Answered,
         Phase(pc'[c], req[c], ask'[c], Walk(c), tried[c], reply'[c], now, c)
  PROVE  MapInv'
<1>1. UNCHANGED <<found, known, queue, tried>>
  BY DEF exploring
<1>2. Alone(c)
  <2>1. \A f : Writes(f, f, c)
    BY DEF Writes
  <2> QED BY <1>1, <2>1, WritesAlone DEF MapInv
<1>3. Walk(c)' = Walk(c)
  BY <1>1 DEF Walk
<1>4. CallOK(c)'
  BY <1>1, <1>3 DEF CallOK
<1> QED BY <1>2, <1>4, QuietStep

\* Asks refuses what is not an address, or goes on to look into the cache.
LEMMA AsksStep ==
  ASSUME MapInv, NEW c \in Calls, pc[c] = "new", NEW r, r.url \in Addresses => IsMap(r), Asks(c, r),
         UNCHANGED <<cache, now, req, exploring>>
  PROVE  MapInv'
<1>1. Phase("new", req[c], ask[c], Walk(c), tried[c], reply[c], now, c) /\ Shape /\ DOMAIN ask = Calls
  BY DEF MapInv, CallOK, Shape
<1>2. \A f : Writes(f, f, c)
  BY DEF Writes
<1>3. CASE r.url \notin Addresses
  <2>1. Fail(c, "invalidUrl") /\ ask' = ask
    BY <1>3 DEF Asks
  <2>2. pc'[c] = "done" /\ ~reply'[c].ok /\ Writes(pc, pc', c) /\ Writes(reply, reply', c)
    BY <1>1, <2>1, Returns DEF Fail
  <2>3. Phase(pc'[c], req[c], ask'[c], Walk(c), tried[c], reply'[c], now, c)
    BY <1>1, <2>2 DEF Phase, Asked, Unexplored, Putting
  <2> QED BY <1>2, <2>1, <2>2, <2>3, CallStep DEF Answered
<1>4. CASE r.url \in Addresses
  <2>1. ask' = Set(ask, c, r) /\ Goto(c, "lookup") /\ reply' = reply
    BY <1>4 DEF Asks
  <2>2. pc'[c] = "lookup" /\ Writes(pc, pc', c)
    BY <1>1, <2>1, GoesOn
  <2>3. ask'[c] = r /\ Writes(ask, ask', c)
    BY <1>1, <2>1, SetOwn
  <2>4. IsMap(r)
    BY <1>4
  <2>5. Phase(pc'[c], req[c], ask'[c], Walk(c), tried[c], reply'[c], now, c)
    BY <1>1, <2>2, <2>3, <2>4 DEF Phase, Asked, Unexplored, Putting
  <2> QED BY <1>2, <2>1, <2>2, <2>3, <2>5, CallStep DEF Answered
<1> QED BY <1>3, <1>4

\* An answer that no map was asked for goes on with the search.
LEMMA SearchServed ==
  ASSUME MapInv, NEW c \in Calls, pc[c] \in {"new", "provider"}, req[c].kind = "search",
         NEW links \in Seq(Links), NEW answer,
         answer = [ok |-> TRUE, by |-> c, made |-> now, links |-> links], Served(c, answer),
         UNCHANGED <<cache, now, req, ask, exploring>>
  PROVE  MapInv'
<1>1. CallOK(c) /\ Shape /\ now \in Nat
  BY DEF MapInv, Shape
<1>2. /\ Writes(pc, pc', c) /\ pc'[c] = "filter" /\ Writes(reply, reply', c) /\ reply'[c] = answer
      /\ Writes(ask, ask', c)
  BY <1>1, Serves DEF Writes
<1>3. answer \in Answers
  BY <1>1 DEF Answers
<1>4. Phase(pc'[c], req[c], ask'[c], Walk(c), tried[c], reply'[c], now, c)
  BY <1>1, <1>2, <1>3 DEF CallOK, Phase, Asked, Unexplored, Putting
<1> QED BY <1>2, <1>4, CallStep DEF Answered

\* Start: a map is asked for, or a provider.
LEMMA StartStep ==
  ASSUME MapInv, NEW c \in Calls, Start(c)
  PROVE  MapInv'
<1> DEFINE r == req[c]
<1>1. pc[c] = "new" /\ UNCHANGED <<cache, now, req, exploring>> /\ Shape /\ CallOK(c)
  BY DEF Start, MapInv
<1>2. \A f : Writes(f, f, c)
  BY DEF Writes
<1>3. CASE r.kind = "map"
  <2>1. Asks(c, r)
    BY <1>3 DEF Start
  <2>2. r.url \in Addresses => IsMap(r)
    BY <1>3, RequestFacts
  <2> QED BY <1>1, <2>1, <2>2, AsksStep
<1>4. CASE r.kind # "map" /\ r.mode = "local"
  <2> DEFINE none == [ok |-> TRUE, by |-> c, made |-> now, links |-> << >>]
  <2>1. Served(c, none) /\ ask' = ask
    BY <1>4 DEF Start
  <2>2. << >> \in Seq(Links) /\ r.kind = "search" /\ pc[c] \in {"new", "provider"}
    BY <1>1, <1>4, RequestFacts, NoLinks
  <2> QED BY <1>1, <2>1, <2>2, SearchServed
<1>5. CASE r.kind # "map" /\ r.mode # "local" /\ r.mode = "site" /\ r.domain # Nothing
  <2> DEFINE m == SiteMapOf(r, Clamped(r.limit))
  <2>1. Asks(c, m)
    BY <1>5 DEF Start
  <2>2. m.url \in Addresses => IsMap(m)
    <3>1. m.url = SiteOf[r.domain]
      BY DEF SiteMapOf
    <3> QED BY <3>1, RequestFacts
  <2> HIDE DEF m
  <2> QED BY <1>1, <2>1, <2>2, AsksStep
<1>6. CASE /\ r.kind # "map" /\ r.mode # "local" /\ ~(r.mode = "site" /\ r.domain # Nothing)
           /\ r.provider \notin DOMAIN Provided
  <2>1. Fail(c, "notConfigured") /\ ask' = ask
    BY <1>6 DEF Start
  <2>2. pc'[c] = "done" /\ ~reply'[c].ok /\ Writes(pc, pc', c) /\ Writes(reply, reply', c)
    BY <1>1, <2>1, Returns DEF Fail
  <2>3. Phase(pc'[c], req[c], ask'[c], Walk(c), tried[c], reply'[c], now, c)
    BY <1>1, <2>2 DEF CallOK, Phase, Asked, Unexplored, Putting
  <2> QED BY <1>1, <1>2, <2>1, <2>2, <2>3, CallStep DEF Answered
<1>7. CASE /\ r.kind # "map" /\ r.mode # "local" /\ ~(r.mode = "site" /\ r.domain # Nothing)
           /\ r.provider \in DOMAIN Provided
  <2>1. Goto(c, "provider") /\ UNCHANGED <<ask, reply>>
    BY <1>7 DEF Start
  <2>2. /\ pc'[c] = "provider" /\ Writes(pc, pc', c)
        /\ r.kind = "search" /\ r.provider \in DOMAIN Provided
    BY <1>1, <1>7, <2>1, GoesOn, RequestFacts
  <2>3. Phase(pc'[c], req[c], ask'[c], Walk(c), tried[c], reply'[c], now, c)
    BY <1>1, <2>1, <2>2 DEF CallOK, Phase, Asked, Unexplored, Putting
  <2> QED BY <1>1, <1>2, <2>1, <2>2, <2>3, CallStep DEF Answered
<1> QED BY <1>3, <1>4, <1>5, <1>6, <1>7

\* Provider: it fails, or its answer is filtered.
LEMMA ProviderStep ==
  ASSUME MapInv, NEW c \in Calls, Provider(c)
  PROVE  MapInv'
<1>1. pc[c] = "provider" /\ UNCHANGED <<cache, now, req, ask, exploring>> /\ Shape /\ CallOK(c)
  BY DEF Provider, MapInv
<1>2. req[c].kind = "search" /\ req[c].provider \in DOMAIN Provided
  BY <1>1 DEF CallOK, Phase
<1>3. CASE Fail(c, "provider")
  <2>1. /\ pc'[c] = "done" /\ ~reply'[c].ok /\ Writes(pc, pc', c) /\ Writes(reply, reply', c)
        /\ Writes(ask, ask', c)
    BY <1>1, <1>3, Returns DEF Fail, Writes
  <2>2. Phase(pc'[c], req[c], ask'[c], Walk(c), tried[c], reply'[c], now, c)
    BY <1>1, <2>1 DEF CallOK, Phase, Asked, Unexplored, Putting
  <2> QED BY <1>1, <2>1, <2>2, CallStep DEF Answered
<1>4. CASE ~Fail(c, "provider")
  <2> DEFINE p == req[c].provider
             urls == Provided[p]
             links == [i \in DOMAIN urls |-> Link(urls[i], "web", FALSE)]
             answer == [ok |-> TRUE, by |-> c, made |-> now, links |-> links]
  <2>1. Served(c, answer)
    BY <1>4 DEF Provider
  <2>2. links \in Seq(Links)
    <3>1. urls \in Seq(Addresses)
      BY <1>2, PagesAssumption
    <3>2. Len(urls) \in Nat /\ DOMAIN urls = 1 .. Len(urls) /\ \A i \in DOMAIN urls : urls[i] \in Addresses
      BY <3>1, Places
    <3>3. "web" \in Sources /\ FALSE \in BOOLEAN
      BY DEF Sources
    <3> HIDE DEF urls
    <3>4. \A i \in DOMAIN urls : Link(urls[i], "web", FALSE) \in Links
      BY <3>2, <3>3, LinkFacts
    <3>5. links \in [1 .. Len(urls) -> Links]
      BY <3>2, <3>4
    <3> HIDE DEF links
    <3> QED BY <3>2, <3>5, SeqDef
  <2> QED BY <1>1, <1>2, <2>1, <2>2, SearchServed
<1> QED BY <1>3, <1>4

\* Lookup: an entry that is still good is served; it is of an earlier call, or of
\* another one.
LEMMA LookupStep ==
  ASSUME MapInv, NEW c \in Calls, Lookup(c)
  PROVE  MapInv'
<1> DEFINE k == Key(ask[c])
<1>1. pc[c] = "lookup" /\ UNCHANGED <<cache, now, req, ask, exploring>> /\ Shape /\ CallOK(c) /\ CacheOK
  BY DEF Lookup, MapInv
<1>2. \A f : Writes(f, f, c)
  BY DEF Writes
<1>3. ASSUME NEW step \in {"robots", "expired"}, Goto(c, step), reply' = reply PROVE MapInv'
  <2>1. pc'[c] = step /\ Writes(pc, pc', c)
    BY <1>1, <1>3, GoesOn
  <2>2. Phase(pc'[c], req[c], ask'[c], Walk(c), tried[c], reply'[c], now, c)
    BY <1>1, <1>3, <2>1 DEF CallOK, Phase, Asked, Unexplored, Putting
  <2> QED BY <1>1, <1>2, <1>3, <2>1, <2>2, CallStep DEF Answered
<1>4. CASE ~CacheEnabled \/ k \notin DOMAIN cache
  BY <1>3, <1>4 DEF Lookup
<1>5. CASE ~(~CacheEnabled \/ k \notin DOMAIN cache) /\ now >= cache[k].made + TimeToLive
  BY <1>3, <1>5 DEF Lookup
<1>6. CASE ~(~CacheEnabled \/ k \notin DOMAIN cache) /\ ~(now >= cache[k].made + TimeToLive)
  <2> DEFINE e == cache[k]
  <2>1. Served(c, e)
    BY <1>6 DEF Lookup
  <2>2. e \in Answers /\ (e.by \in Calls => pc[e.by] \in Answered)
    BY <1>1, <1>6 DEF CacheOK, EntryOK
  <2>3. e.by # c
    BY <1>1, <2>2 DEF Answered
  <2> HIDE DEF e
  <2>4. /\ Writes(pc, pc', c) /\ pc'[c] = IF req[c].kind = "map" THEN "done" ELSE "filter"
        /\ Writes(reply, reply', c) /\ reply'[c] = e /\ req[c].kind \in {"map", "search"}
    BY <1>1, <2>1, Serves, RequestFacts
  <2>5. Phase(pc'[c], req[c], ask'[c], Walk(c), tried[c], reply'[c], now, c)
    BY <1>1, <2>2, <2>3, <2>4 DEF CallOK, Phase, Asked, Unexplored, Putting
  <2> QED BY <1>1, <1>2, <2>4, <2>5, CallStep DEF Answered
<1> QED BY <1>4, <1>5, <1>6

\* Expire: whatever is under the key goes.
LEMMA ExpireStep ==
  ASSUME MapInv, NEW c \in Calls, Expire(c)
  PROVE  MapInv'
<1>1. /\ pc[c] = "expired" /\ UNCHANGED <<now, req, ask, exploring, reply>> /\ Goto(c, "robots")
      /\ cache' = [k \in DOMAIN cache \ {Key(ask[c])} |-> cache[k]]
      /\ Shape /\ CallOK(c) /\ CacheOK /\ RoomKept
  BY DEF Expire, MapInv
<1>2. UNCHANGED <<found, known, queue, tried>>
  BY <1>1 DEF exploring
<1>3. pc'[c] = "robots" /\ Writes(pc, pc', c) /\ \A f : Writes(f, f, c)
  BY <1>1, GoesOn DEF Writes
<1>4. Alone(c)
  BY <1>1, <1>2, <1>3, WritesAlone
<1>5. CallOK(c)'
  <2>1. Walk(c)' = Walk(c)
    BY <1>2 DEF Walk
  <2> QED BY <1>1, <1>2, <1>3, <2>1 DEF CallOK, Phase, Asked, Unexplored, Putting
<1>6. DOMAIN cache' \subseteq DOMAIN cache /\ \A k \in DOMAIN cache' : cache'[k] = cache[k]
  BY <1>1
<1>7. CacheOK'
  BY <1>1, <1>3, <1>4, <1>6, CacheKept DEF Alone, Answered
<1>8. RoomKept'
  BY <1>1, <1>3, <1>4, <1>6, RoomStays DEF Alone
<1>9. \A d \in Calls : CallOK(d)'
  BY <1>4, <1>5, OthersKeep DEF MapInv, Alone
<1> QED BY <1>4, <1>7, <1>8, <1>9 DEF MapInv, Alone

\* A step of the walk.
LEMMA WalkStep ==
  ASSUME MapInv, NEW c \in Calls, pc[c] \notin Answered, UNCHANGED <<cache, now, req, ask, reply>>,
         Writes(pc, pc', c), Writes(found, found', c), Writes(known, known', c),
         Writes(queue, queue', c), Writes(tried, tried', c), pc'[c] # "storing",
         NEW x, x = [found |-> found'[c], known |-> known'[c], queue |-> queue'[c]],
         Phase(pc'[c], req[c], ask[c], x, tried'[c], reply[c], now, c)
  PROVE  MapInv'
<1>1. Alone(c)
  <2>1. \A f : Writes(f, f, c)
    BY DEF Writes
  <2> QED BY <2>1, WritesAlone DEF MapInv
<1>2. CallOK(c)'
  <2>1. Walk(c)' = x
    BY DEF Walk
  <2> QED BY <2>1 DEF CallOK
<1> QED BY <1>1, <1>2, QuietStep

\* After the sitemaps: links enough, or the walk begins.
LEMMA AfterSitemapsStep ==
  ASSUME MapInv, NEW c \in Calls, pc[c] \in {"robots", "sitemaps"}, AfterSitemaps(c),
         Listing(found[c], known[c], ask[c]), tried[c] = {},
         UNCHANGED <<cache, now, req, ask, reply, found, tried>>
  PROVE  MapInv'
<1> DEFINE r == ask[c]
           f == found[c]
           s == known[c]
           t == tried[c]
           x == [found |-> found'[c], known |-> known'[c], queue |-> queue'[c]]
<1>1. Shape /\ CallOK(c) /\ IsMap(r) /\ DOMAIN known = Calls /\ DOMAIN queue = Calls
  BY DEF MapInv, Shape, CallOK, Phase, Asked
<1>2. \A g : Writes(g, g, c)
  BY DEF Writes
<1>3. CASE Len(f) >= r.limit
  <2>1. Goto(c, "concluding") /\ UNCHANGED <<queue, known>>
    BY <1>3 DEF AfterSitemaps
  <2>2. pc'[c] = "concluding" /\ Writes(pc, pc', c)
    BY <1>1, <2>1, GoesOn
  <2>3. Concluded(f, t, r)
    <3> HIDE DEF f, r, t
    <3> QED BY <1>1, <1>3, ListingConcludes DEF f, r
  <2>4. x.found = f /\ f \in Seq(Links) /\ x.known \subseteq Addresses
    BY <1>1, <2>1 DEF CallOK, Phase, Walk
  <2> HIDE DEF x
  <2>5. Phase(pc'[c], req[c], ask[c], x, tried'[c], reply[c], now, c)
    BY <1>1, <2>2, <2>3, <2>4 DEF Phase, Asked, Unexplored, Putting
  <2> QED BY <1>2, <2>1, <2>2, <2>5, WalkStep DEF Answered, x
<1>4. CASE ~(Len(f) >= r.limit)
  <2> DEFINE q == <<[url |-> r.url, depth |-> 0]>>
             k == s \cup {Seed(r)}
  <2>1. /\ queue' = Set(queue, c, q) /\ known' = Set(known, c, k) /\ Goto(c, "pages")
    BY <1>4 DEF AfterSitemaps, ToPages, Seed
  <2>2. pc'[c] = "pages" /\ Writes(pc, pc', c)
    BY <1>1, <2>1, GoesOn
  <2>3. queue'[c] = q /\ Writes(queue, queue', c)
    <3> HIDE DEF q
    <3> QED BY <1>1, <2>1, SetOwn
  <2>4. known'[c] = k /\ Writes(known, known', c)
    <3> HIDE DEF k
    <3> QED BY <1>1, <2>1, SetOwn
  <2>5. x = [found |-> f, known |-> s \cup {Seed(r)}, queue |-> <<[url |-> r.url, depth |-> 0]>>]
    BY <2>3, <2>4
  <2> HIDE DEF x, q, k
  <2>6. Exploring(x, {}, {}, r)
    <3> HIDE DEF f, s, r
    <3>1. Listing(f, s, r)
      BY DEF f, s, r
    <3> QED BY <1>1, <2>5, <3>1, WalkBegins
  <2>7. x.found \in Seq(Links) /\ x.known \subseteq Addresses
    BY <2>6 DEF Exploring, Walks
  <2>8. Phase(pc'[c], req[c], ask[c], x, tried'[c], reply[c], now, c)
    BY <1>1, <2>2, <2>6, <2>7 DEF Phase, Asked, Unexplored, Putting
  <2> QED BY <1>2, <2>2, <2>3, <2>4, <2>8, WalkStep DEF Answered, x
<1> QED BY <1>3, <1>4

\* Robots: the sitemaps are queued, or passed over.
LEMMA RobotsStep ==
  ASSUME MapInv, NEW c \in Calls, Robots(c)
  PROVE  MapInv'
<1>1. /\ pc[c] = "robots" /\ UNCHANGED <<cache, now, req, ask, visited, found, tried, reply>>
      /\ Shape /\ CallOK(c)
  BY DEF Robots, MapInv
<1>2. found[c] = << >> /\ known[c] = {} /\ tried[c] = {}
  BY <1>1 DEF CallOK, Phase, Unexplored, Walk
<1>3. Listing(found[c], known[c], ask[c])
  BY <1>2, NoLinks DEF Listing
<1>4. CASE ~ask[c].sitemap
  <2>1. AfterSitemaps(c)
    BY <1>4 DEF Robots
  <2> QED BY <1>1, <1>2, <1>3, <2>1, AfterSitemapsStep
<1>5. CASE ask[c].sitemap
  <2>1. Goto(c, "sitemaps") /\ UNCHANGED <<queue, known>>
    BY <1>5 DEF Robots
  <2>2. pc'[c] = "sitemaps" /\ Writes(pc, pc', c) /\ \A g : Writes(g, g, c)
    BY <1>1, <2>1, GoesOn DEF Writes
  <2> DEFINE x == [found |-> found'[c], known |-> known'[c], queue |-> queue'[c]]
  <2>3. x = Walk(c) /\ x.found = found[c] /\ x.known = known[c]
    BY <1>1, <2>1 DEF Walk
  <2> HIDE DEF x
  <2>4. Phase(pc'[c], req[c], ask[c], x, tried'[c], reply[c], now, c)
    BY <1>1, <1>2, <1>3, <2>2, <2>3 DEF CallOK, Phase, Asked, Unexplored, Putting
  <2> QED BY <1>1, <2>1, <2>2, <2>4, WalkStep DEF Answered, x
<1> QED BY <1>4, <1>5

\* SitemapsRead: the sitemaps are done with.
LEMMA SitemapsReadStep ==
  ASSUME MapInv, NEW c \in Calls, SitemapsRead(c)
  PROVE  MapInv'
<1>1. /\ pc[c] = "sitemaps" /\ AfterSitemaps(c) /\ CallOK(c)
      /\ UNCHANGED <<cache, now, req, ask, maps, visited, found, tried, reply>>
  BY DEF SitemapsRead, MapInv
<1>2. Listing(found[c], known[c], ask[c]) /\ tried[c] = {}
  BY <1>1 DEF CallOK, Phase, Walk
<1> QED BY <1>1, <1>2, AfterSitemapsStep

\* ReadSitemap: one is read, and its addresses are entered.
LEMMA ReadSitemapStep ==
  ASSUME MapInv, NEW c \in Calls, ReadSitemap(c)
  PROVE  MapInv'
<1> DEFINE r == ask[c]
           m == maps[c][1]
           file == IF m.url \in DOMAIN Files THEN Parsed(Files[m.url]) ELSE [ok |-> FALSE]
           read == EnteredAll([found |-> found[c], known |-> known[c]], file.urls, r)
           x == [found |-> found'[c], known |-> known'[c], queue |-> queue'[c]]
<1>1. /\ pc[c] = "sitemaps" /\ UNCHANGED <<cache, now, pc, req, ask, queue, tried, reply>>
      /\ Shape /\ CallOK(c) /\ DOMAIN found = Calls /\ DOMAIN known = Calls
  BY DEF ReadSitemap, MapInv, Shape
<1>2. Listing(found[c], known[c], r) /\ tried[c] = {}
  BY <1>1 DEF CallOK, Phase, Walk
<1>3. \A g : Writes(g, g, c)
  BY DEF Writes
<1>4. CASE UNCHANGED <<found, known>>
  <2>1. x = Walk(c)
    BY <1>1, <1>4 DEF Walk
  <2> HIDE DEF x
  <2>2. Phase(pc'[c], req[c], ask[c], x, tried'[c], reply[c], now, c)
    BY <1>1, <2>1 DEF CallOK
  <2> QED BY <1>1, <1>3, <1>4, <2>2, WalkStep DEF Answered, x
<1>5. CASE ~UNCHANGED <<found, known>>
  <2>1. file.ok /\ found' = Set(found, c, read.found) /\ known' = Set(known, c, read.known)
    BY <1>5 DEF ReadSitemap
  <2>2. m.url \in DOMAIN Files
    BY <2>1
  <2>3. file.urls \in Seq(Addresses)
    <3> DEFINE u == m.url
    <3>1. u \in DOMAIN Files /\ file = Parsed(Files[u])
      BY <2>2
    <3> HIDE DEF u, file
    <3> QED BY <3>1, ParsedFacts
  <2> HIDE DEF file, r
  <2>4. Listing(read.found, read.known, r)
    <3> DEFINE f == found[c]
               s == known[c]
               urls == file.urls
    <3>1. Listing(f, s, r) /\ urls \in Seq(Addresses) /\ read = EnteredAll([found |-> f, known |-> s], urls, r)
      BY <1>2, <2>3
    <3> HIDE DEF f, s, urls, read
    <3> QED BY <3>1, EnteredAllKeeps
  <2> HIDE DEF read
  <2>5. found'[c] = read.found /\ Writes(found, found', c)
    BY <1>1, <2>1, SetOwn
  <2>6. known'[c] = read.known /\ Writes(known, known', c)
    BY <1>1, <2>1, SetOwn
  <2>7. Listing(x.found, x.known, r) /\ x.found \in Seq(Links) /\ x.known \subseteq Addresses
    BY <2>4, <2>5, <2>6 DEF Listing
  <2> HIDE DEF x
  <2>8. Phase(pc'[c], req[c], ask[c], x, tried'[c], reply[c], now, c)
    BY <1>1, <1>2, <2>7 DEF CallOK, Phase, Asked, Unexplored, Putting, r
  <2> QED BY <1>1, <1>3, <2>5, <2>6, <2>8, WalkStep DEF Answered, x
<1> QED BY <1>4, <1>5

\* ReadPages: a batch of the queue.
LEMMA ReadPagesStep ==
  ASSUME MapInv, NEW c \in Calls, ReadPages(c)
  PROVE  MapInv'
<1> DEFINE r == ask[c]
           w == Walk(c)
           t == tried[c]
           b == First(MaxConcurrent, queue[c])
           x1 == [found |-> found[c], known |-> known[c],
                  queue |-> SubSeq(queue[c], Len(b) + 1, Len(queue[c]))]
           x == [found |-> found'[c], known |-> known'[c], queue |-> queue'[c]]
<1>1. /\ pc[c] = "pages" /\ UNCHANGED <<cache, now, pc, req, ask, reply>>
      /\ Shape /\ CallOK(c) /\ DOMAIN found = Calls /\ DOMAIN known = Calls
      /\ DOMAIN queue = Calls /\ DOMAIN tried = Calls
  BY DEF ReadPages, MapInv, Shape
<1>2. Exploring(w, {}, t, r) /\ IsMap(r)
  BY <1>1 DEF CallOK, Phase, Asked
<1>3. \A g : Writes(g, g, c)
  BY DEF Writes
<1>4. PICK ok \in [DOMAIN b -> BOOLEAN] :
        /\ \A i \in DOMAIN b : ok[i] => b[i].url \in DOMAIN LinksOf
        /\ found' = Set(found, c, TakenAll(x1, b, ok, r).found)
        /\ known' = Set(known, c, TakenAll(x1, b, ok, r).known)
        /\ queue' = Set(queue, c, TakenAll(x1, b, ok, r).queue)
        /\ tried' = Set(tried, c, t \cup {[url |-> b[i].url, depth |-> b[i].depth, ok |-> ok[i]] :
                                           i \in DOMAIN b})
  <2> HIDE DEF b, r, t
  <2> QED BY DEF ReadPages, b, r, t
<1> DEFINE y == TakenAll(x1, b, ok, r)
           t2 == t \cup {Visit(b, ok, i) : i \in DOMAIN b}
<1>5. Exploring(y, {}, t2, r)
  <2>1. b = First(MaxConcurrent, w.queue)
    BY DEF Walk
  <2>2. x1 = [found |-> w.found, known |-> w.known, queue |-> Rest(w.queue, Len(b))]
    BY DEF Walk, Rest
  <2>3. y = TakenAll(x1, b, ok, r) /\ \A i \in DOMAIN b : ok[i] => b[i].url \in DOMAIN LinksOf
    BY <1>4
  <2>4. t2 = t \cup {Visit(b, ok, i) : i \in DOMAIN b}
    OBVIOUS
  <2> HIDE DEF b, w, r, t, x1, y, t2
  <2>5. TakesBatch(w, b, ok, t, y, t2, r)
    BY <2>1, <2>2, <2>3, <2>4 DEF TakesBatch
  <2> QED BY <1>2, <2>5, BatchKeeps
<1>6. /\ found' = Set(found, c, y.found) /\ known' = Set(known, c, y.known)
      /\ queue' = Set(queue, c, y.queue) /\ tried' = Set(tried, c, t2)
  BY <1>4 DEF Visit
<1> HIDE DEF y, t2
<1>7. found'[c] = y.found /\ Writes(found, found', c)
  BY <1>1, <1>6, SetOwn
<1>8. known'[c] = y.known /\ Writes(known, known', c)
  BY <1>1, <1>6, SetOwn
<1>9. queue'[c] = y.queue /\ Writes(queue, queue', c)
  BY <1>1, <1>6, SetOwn
<1>10. tried'[c] = t2 /\ Writes(tried, tried', c)
  BY <1>1, <1>6, SetOwn
<1>11. y \in Walks(r)
  BY <1>5 DEF Exploring
<1>12. x = y /\ x.found \in Seq(Links) /\ x.known \subseteq Addresses
  BY <1>7, <1>8, <1>9, <1>11 DEF Walks
<1> HIDE DEF x
<1>13. Phase(pc'[c], req[c], ask[c], x, tried'[c], reply[c], now, c)
  <2> HIDE DEF r
  <2> QED BY <1>1, <1>2, <1>5, <1>10, <1>12 DEF Phase, Asked, Unexplored, Putting, r
<1> QED BY <1>1, <1>3, <1>7, <1>8, <1>9, <1>10, <1>13, WalkStep DEF Answered, x

\* PagesRead: no page is left, or there are links enough.
LEMMA PagesReadStep ==
  ASSUME MapInv, NEW c \in Calls, PagesRead(c)
  PROVE  MapInv'
<1> DEFINE r == ask[c]
           w == Walk(c)
           t == tried[c]
<1>1. /\ pc[c] = "pages" /\ UNCHANGED <<cache, now, req, ask, exploring, reply>> /\ Goto(c, "concluding")
      /\ queue[c] = << >> \/ Len(found[c]) >= 2 * r.limit
      /\ Shape /\ CallOK(c)
  BY DEF PagesRead, MapInv
<1>2. Exploring(w, {}, t, r) /\ IsMap(r)
  BY <1>1 DEF CallOK, Phase, Asked
<1>3. w.queue = << >> \/ Len(w.found) >= 2 * r.limit
  BY <1>1 DEF Walk
<1>4. Concluded(w.found, t, r)
  <2> HIDE DEF w, t, r
  <2> QED BY <1>2, <1>3, WalkConcludes
<1>5. /\ pc'[c] = "concluding" /\ Writes(pc, pc', c) /\ Writes(ask, ask', c)
      /\ Writes(reply, reply', c)
  BY <1>1, GoesOn DEF Writes
<1>6. Phase(pc'[c], req[c], ask'[c], Walk(c), tried[c], reply'[c], now, c)
  BY <1>1, <1>2, <1>4, <1>5 DEF CallOK, Phase, Asked, Unexplored, Putting
<1> QED BY <1>1, <1>5, <1>6, CallStep DEF Answered

\* Conclude: the links are ranked and cut to the limit.
LEMMA ConcludeStep ==
  ASSUME MapInv, NEW c \in Calls, Conclude(c)
  PROVE  MapInv'
<1> DEFINE r == ask[c]
           f == found[c]
           t == tried[c]
           links == First(r.limit, Ranked(f, r.search))
           map == [ok |-> TRUE, by |-> c, made |-> now, links |-> links]
<1>1. /\ pc[c] = "concluding" /\ UNCHANGED <<cache, now, req, ask, exploring>> /\ now \in Nat
      /\ Shape /\ CallOK(c) /\ DOMAIN reply = Calls
  BY DEF Conclude, MapInv, Shape
<1>2. Concluded(f, t, r) /\ IsMap(r)
  BY <1>1 DEF CallOK, Phase, Asked, Walk
<1>3. links \in Seq(Links) /\ Good(links, r, t)
  <2>1. links = First(r.limit, Ranked(f, r.search))
    OBVIOUS
  <2> HIDE DEF f, t, r, links
  <2> QED BY <1>2, <2>1, MapConcludes DEF Good
<1>4. TimeToLive = 0 \/ ~CacheEnabled => Served(c, map)
  BY DEF Conclude
<1>5. ~(TimeToLive = 0 \/ ~CacheEnabled) => Goto(c, "full") /\ reply' = Set(reply, c, map)
  BY DEF Conclude
<1> HIDE DEF links
<1>6. MapMade(map, r, t, now, c) /\ map.by = c /\ map.links = links
  BY <1>1, <1>3 DEF MapMade, Answers
<1> HIDE DEF map
<1>7. Writes(ask, ask', c)
  BY <1>1 DEF Writes
<1>8. CASE TimeToLive = 0 \/ ~CacheEnabled
  <2>1. /\ Writes(pc, pc', c) /\ pc'[c] = IF req[c].kind = "map" THEN "done" ELSE "filter"
        /\ Writes(reply, reply', c) /\ reply'[c] = map /\ req[c].kind \in {"map", "search"}
    BY <1>1, <1>4, <1>8, Serves, RequestFacts
  <2>2. Phase(pc'[c], req[c], ask'[c], Walk(c), tried[c], reply'[c], now, c)
    BY <1>1, <1>3, <1>6, <2>1 DEF CallOK, Phase, Asked, Unexplored, Putting, MapMade
  <2> QED BY <1>1, <1>7, <2>1, <2>2, CallStep DEF Answered
<1>9. CASE ~(TimeToLive = 0 \/ ~CacheEnabled)
  <2>1. /\ Writes(pc, pc', c) /\ pc'[c] = "full"
        /\ Writes(reply, reply', c) /\ reply'[c] = map
    BY <1>1, <1>5, <1>9, GoesOn, SetOwn
  <2>2. Phase(pc'[c], req[c], ask'[c], Walk(c), tried[c], reply'[c], now, c)
    BY <1>1, <1>2, <1>6, <2>1 DEF CallOK, Phase, Asked, Unexplored, Putting
  <2> QED BY <1>1, <1>7, <2>1, <2>2, CallStep DEF Answered
<1> QED BY <1>8, <1>9

-----------------------------------------------------------------------------
\* put.  A step on the cache alone.
LEMMA PutStep ==
  ASSUME MapInv, NEW c \in Calls, pc[c] \in {"full", "evicting"}, NEW step \in {"evicting", "storing"},
         Goto(c, step), UNCHANGED <<now, req, ask, exploring, reply>>,
         DOMAIN cache' \subseteq DOMAIN cache, \A k \in DOMAIN cache' : cache'[k] = cache[k], RoomKept'
  PROVE  MapInv'
<1>1. Shape /\ CallOK(c) /\ CacheOK /\ UNCHANGED <<found, known, queue, tried>>
  BY DEF MapInv, exploring
<1>2. pc'[c] = step /\ Writes(pc, pc', c) /\ \A f : Writes(f, f, c)
  BY <1>1, GoesOn DEF Writes
<1>3. Alone(c)
  BY <1>1, <1>2, WritesAlone
<1>4. CallOK(c)'
  <2>1. Walk(c)' = Walk(c)
    BY <1>1 DEF Walk
  <2> QED BY <1>1, <1>2, <2>1 DEF CallOK, Phase, Asked, Unexplored, Putting
<1>5. CacheOK'
  BY <1>1, <1>3, CacheKept DEF Alone, Answered
<1>6. \A d \in Calls : CallOK(d)'
  BY <1>3, <1>4, OthersKeep DEF MapInv, Alone
<1> QED BY <1>3, <1>5, <1>6 DEF MapInv, Alone

\* A call that is about to store makes one more of them.
LEMMA StoringGrows ==
  ASSUME MapInv, NEW c \in Calls, pc[c] # "storing", Goto(c, "storing")
  PROVE  Cardinality(Storing') = Cardinality(Storing) + 1
<1>1. pc' = [pc EXCEPT ![c] = "storing"] /\ DOMAIN pc = Calls
  BY DEF Goto, Set, MapInv, Shape
<1>2. Storing' = Storing \cup {c} /\ c \notin Storing
  BY <1>1 DEF Storing
<1> QED BY <1>2, StoringFinite, FS_AddElement

\* Sweep: a call that finds room may store, as any other does that found it at
\* the same time; the others remove what has expired.
LEMMA SweepStep ==
  ASSUME MapInv, NEW c \in Calls, Sweep(c)
  PROVE  MapInv'
<1>1. /\ pc[c] = "full" /\ UNCHANGED <<now, req, ask, exploring, reply>> /\ CacheOK /\ RoomKept /\ Shape
      /\ Cardinality(DOMAIN cache) \in Nat
  BY FS_CardinalityType DEF Sweep, MapInv, CacheOK
<1>2. CASE Cardinality(DOMAIN cache) < MaxEntries
  <2>1. cache' = cache /\ Goto(c, "storing")
    BY <1>2 DEF Sweep
  <2>2. RoomKept'
    BY <1>1, <1>2, <2>1, StoringFinite, CallsFinite DEF RoomKept
  <2> QED BY <1>1, <2>1, <2>2, PutStep
<1>3. CASE ~(Cardinality(DOMAIN cache) < MaxEntries)
  <2>1. PICK gone : cache' = [k \in DOMAIN cache \ gone |-> cache[k]]
    BY <1>3 DEF Sweep
  <2>2. Goto(c, "evicting")
    BY <1>3 DEF Sweep
  <2>3. DOMAIN cache' \subseteq DOMAIN cache /\ \A k \in DOMAIN cache' : cache'[k] = cache[k]
    BY <2>1
  <2>4. RoomKept'
    <3>1. DOMAIN pc = Calls /\ pc' = [pc EXCEPT ![c] = "evicting"]
      BY <1>1, <2>2 DEF Goto, Set, Shape
    <3>2. Storing' \subseteq Storing
      BY <3>1 DEF Storing
    <3>3. Cardinality(Storing') <= Cardinality(Storing)
      BY <3>2, StoringFinite, FS_Subset
    <3>4. Cardinality(DOMAIN cache') <= Cardinality(DOMAIN cache) /\ Cardinality(DOMAIN cache') \in Nat
      BY <1>1, <2>3, FS_Subset, FS_CardinalityType DEF CacheOK
    <3> QED BY <1>1, <3>3, <3>4, StoringFinite, CallsFinite DEF RoomKept
  <2> QED BY <1>1, <2>2, <2>3, <2>4, PutStep
<1> QED BY <1>2, <1>3

\* EvictEntry: room is made for one, if there is none.
LEMMA EvictEntryStep ==
  ASSUME MapInv, NEW c \in Calls, EvictEntry(c)
  PROVE  MapInv'
<1>1. /\ pc[c] = "evicting" /\ UNCHANGED <<now, req, ask, exploring, reply>> /\ Goto(c, "storing")
      /\ CacheOK /\ RoomKept /\ Cardinality(DOMAIN cache) \in Nat
  BY FS_CardinalityType DEF EvictEntry, MapInv, CacheOK
<1>2. CASE Cardinality(DOMAIN cache) < MaxEntries
  <2>1. cache' = cache
    BY <1>2 DEF EvictEntry
  <2>2. RoomKept'
    BY <1>1, <1>2, <2>1, StoringFinite, CallsFinite DEF RoomKept
  <2> QED BY <1>1, <2>1, <2>2, PutStep
<1>3. CASE ~(Cardinality(DOMAIN cache) < MaxEntries)
  <2>1. PICK k \in DOMAIN cache : cache' = [l \in DOMAIN cache \ {k} |-> cache[l]]
    BY <1>3 DEF EvictEntry
  <2>2. DOMAIN cache' \subseteq DOMAIN cache /\ \A l \in DOMAIN cache' : cache'[l] = cache[l]
    BY <2>1
  <2>3. RoomKept'
    <3>1. DOMAIN cache' = DOMAIN cache \ {k}
      BY <2>1
    <3>2. Cardinality(DOMAIN cache') = Cardinality(DOMAIN cache) - 1
      BY <1>1, <3>1, FS_RemoveElement DEF CacheOK
    <3>3. Cardinality(Storing') = Cardinality(Storing) + 1
      BY <1>1, StoringGrows
    <3> QED BY <1>1, <3>2, <3>3, StoringFinite, CallsFinite DEF RoomKept
  <2> QED BY <1>1, <2>2, <2>3, PutStep
<1> QED BY <1>2, <1>3

\* Store: the map comes into the cache, in the place that was kept for it.
LEMMA StoreStep ==
  ASSUME MapInv, NEW c \in Calls, Store(c)
  PROVE  MapInv'
<1> DEFINE k == Key(ask[c])
           a == ask[c]
           t == tried[c]
           y == reply[c]
<1>1. /\ pc[c] = "storing" /\ UNCHANGED <<now, req, ask, exploring>> /\ Served(c, y)
      /\ cache' = [l \in DOMAIN cache \cup {k} |-> IF l = k THEN y ELSE cache[l]]
      /\ Shape /\ CallOK(c) /\ CacheOK /\ RoomKept /\ UNCHANGED <<found, known, queue, tried>>
  BY DEF Store, MapInv, exploring
<1>2. MapMade(y, a, t, now, c)
  BY <1>1 DEF CallOK, Phase, Putting
<1>3. /\ Writes(pc, pc', c) /\ pc'[c] = IF req[c].kind = "map" THEN "done" ELSE "filter"
      /\ Writes(reply, reply', c) /\ reply'[c] = y /\ req[c].kind \in {"map", "search"}
  BY <1>1, Serves, RequestFacts
<1>4. Alone(c)
  <2>1. \A f : Writes(f, f, c)
    BY DEF Writes
  <2> QED BY <1>1, <1>3, <2>1, WritesAlone
<1>5. CallOK(c)'
  <2>1. Walk(c)' = Walk(c)
    BY <1>1 DEF Walk
  <2> QED BY <1>1, <1>2, <1>3, <2>1 DEF CallOK, Phase, Asked, Unexplored, Putting, MapMade
<1>6. pc'[c] \in Answered
  BY <1>3 DEF Answered
<1> HIDE DEF k
<1>7. CacheOK'
  <2>1. IsFiniteSet(DOMAIN cache')
    BY <1>1, FS_AddElement DEF CacheOK
  <2>2. ASSUME NEW l \in DOMAIN cache' PROVE EntryOK(cache[l])'
    <3>1. CASE l = k
      <4>1. cache'[l] = y
        BY <1>1, <3>1
      <4> QED BY <1>1, <1>2, <1>6, <4>1 DEF EntryOK, MapMade
    <3>2. CASE l # k
      <4>1. cache'[l] = cache[l] /\ EntryOK(cache[l])
        BY <1>1, <2>2, <3>2 DEF CacheOK
      <4>2. ASSUME cache[l].by \in Calls PROVE pc'[cache[l].by] \in Answered
        BY <1>4, <1>6, <4>1, <4>2 DEF EntryOK, Alone, Others
      <4> QED BY <1>1, <4>1, <4>2 DEF EntryOK
    <3> QED BY <3>1, <3>2
  <2> QED BY <2>1, <2>2 DEF CacheOK
<1>8. RoomKept'
  <2>1. Storing' = Storing \ {c} /\ c \in Storing
    <3>1. pc'[c] # "storing"
      BY <1>3
    <3> QED BY <1>1, <1>4, <3>1 DEF Storing, Alone, Others
  <2>2. Cardinality(Storing') = Cardinality(Storing) - 1
    BY <2>1, StoringFinite, FS_RemoveElement
  <2>3. /\ Cardinality(DOMAIN cache') <= Cardinality(DOMAIN cache) + 1
        /\ Cardinality(DOMAIN cache') \in Nat /\ Cardinality(DOMAIN cache) \in Nat
    <3>1. DOMAIN cache' = DOMAIN cache \cup {k} /\ IsFiniteSet(DOMAIN cache)
      BY <1>1 DEF CacheOK
    <3> DEFINE D == DOMAIN cache
    <3>2. /\ IsFiniteSet(D \cup {k})
          /\ Cardinality(D \cup {k}) = IF k \in D THEN Cardinality(D) ELSE Cardinality(D) + 1
      BY <3>1, FS_AddElement
    <3>3. Cardinality(D) \in Nat /\ Cardinality(D \cup {k}) \in Nat
      BY <3>1, <3>2, FS_CardinalityType
    <3> HIDE DEF D
    <3>4. Cardinality(D \cup {k}) <= Cardinality(D) + 1
      BY <3>2, <3>3
    <3> QED BY <3>1, <3>3, <3>4 DEF D
  <2> QED BY <1>1, <2>2, <2>3, StoringFinite, CallsFinite DEF RoomKept
<1>9. \A d \in Calls : CallOK(d)'
  BY <1>4, <1>5, OthersKeep DEF MapInv, Alone
<1> QED BY <1>4, <1>7, <1>8, <1>9 DEF MapInv, Alone

\* Filter: the links of a map become the results of a search.
LEMMA FilterStep ==
  ASSUME MapInv, NEW c \in Calls, Filter(c)
  PROVE  MapInv'
<1> DEFINE q == req[c]
           y == reply[c]
           results == Results(y.links, q)
           answer == [y EXCEPT !.links = results]
<1>1. /\ pc[c] = "filter" /\ UNCHANGED <<cache, now, req, ask, exploring>>
      /\ Shape /\ CallOK(c) /\ DOMAIN reply = Calls
  BY DEF Filter, MapInv, Shape
<1>2. q.kind = "search" /\ y \in Answers /\ q.limit \in Nat
  BY <1>1, RequestFacts DEF CallOK, Phase
<1>3. results \in Seq(Links) /\ SoundResults(results, q)
  <2>1. y.links \in Seq(Links) /\ results = Results(y.links, q)
    BY <1>2 DEF Answers
  <2> HIDE DEF results, q, y
  <2> QED BY <1>2, <2>1, ResultsFacts
<1>4. \/ Goto(c, "scraping") /\ reply' = Set(reply, c, answer)
      \/ Return(c, answer)
  BY DEF Filter
<1> HIDE DEF results
<1>5. answer \in Answers /\ answer.links = results
  BY <1>2, <1>3 DEF Answers
<1> HIDE DEF answer
<1>6. /\ Writes(pc, pc', c) /\ pc'[c] \in {"scraping", "done"}
      /\ Writes(reply, reply', c) /\ reply'[c] = answer
  BY <1>1, <1>4, GoesOn, SetOwn, Returns
<1>7. Phase(pc'[c], req[c], ask'[c], Walk(c), tried[c], reply'[c], now, c)
  BY <1>1, <1>2, <1>3, <1>5, <1>6 DEF CallOK, Phase, Asked, Unexplored, Putting
<1>8. Writes(ask, ask', c)
  BY <1>1 DEF Writes
<1> QED BY <1>1, <1>6, <1>7, <1>8, CallStep DEF Answered

\* ScrapeResults: the results stay what they are.
LEMMA ScrapeResultsStep ==
  ASSUME MapInv, NEW c \in Calls, ScrapeResults(c)
  PROVE  MapInv'
<1> DEFINE q == req[c]
           y == reply[c]
           links == y.links
<1>1. /\ pc[c] = "scraping" /\ UNCHANGED <<cache, now, req, ask, exploring>> /\ Shape /\ CallOK(c)
  BY DEF ScrapeResults, MapInv
<1>2. q.kind = "search" /\ y \in Answers /\ SoundResults(links, q)
  BY <1>1 DEF CallOK, Phase
<1>3. PICK ok \in SUBSET (1 .. MaxScrapes) :
        Return(c, [y EXCEPT !.links =
            [i \in DOMAIN links |-> Link(links[i].url, links[i].source, i \in ok)]])
  BY DEF ScrapeResults
<1> DEFINE g == [i \in DOMAIN links |-> Link(links[i].url, links[i].source, i \in ok)]
           answer == [y EXCEPT !.links = g]
<1>4. g \in Seq(Links) /\ SoundResults(g, q)
  <2>1. links \in Seq(Links) /\ g = [i \in DOMAIN links |-> Link(links[i].url, links[i].source, i \in ok)]
    BY <1>2 DEF Answers
  <2> HIDE DEF links, g, q
  <2> QED BY <1>2, <2>1, ScrapedFacts
<1>5. Return(c, answer)
  BY <1>3
<1> HIDE DEF g
<1>6. answer.links = g
  BY <1>2 DEF Answers
<1> HIDE DEF answer
<1>7. pc'[c] = "done" /\ reply'[c] = answer /\ Writes(pc, pc', c) /\ Writes(reply, reply', c)
  BY <1>1, <1>5, Returns
<1>8. Phase(pc'[c], req[c], ask'[c], Walk(c), tried[c], reply'[c], now, c)
  BY <1>1, <1>2, <1>4, <1>6, <1>7 DEF CallOK, Phase, Asked, Unexplored, Putting
<1>9. Writes(ask, ask', c)
  BY <1>1 DEF Writes
<1> QED BY <1>1, <1>7, <1>8, <1>9, CallStep DEF Answered

\* Time passes: what was made before now still is.
LEMMA TickStep ==
  ASSUME MapInv, Tick
  PROVE  MapInv'
<1>1. /\ now \in Nat /\ now' = now + 1 /\ UNCHANGED <<cache, pc, req, ask, reply>>
      /\ UNCHANGED <<found, known, queue, tried>>
  BY DEF MapInv, Shape, Tick, exploring
<1>2. Shape'
  BY <1>1 DEF MapInv, Shape
<1>3. CacheOK'
  <2> SUFFICES ASSUME NEW k \in DOMAIN cache PROVE EntryOK(cache[k])'
    BY <1>1 DEF MapInv, CacheOK
  <2>1. EntryOK(cache[k]) /\ cache[k].made \in Nat
    BY DEF MapInv, CacheOK, EntryOK, Answers
  <2> QED BY <1>1, <2>1 DEF EntryOK
<1>4. RoomKept'
  BY <1>1 DEF MapInv, RoomKept, Storing
<1>5. ASSUME NEW c \in Calls PROVE CallOK(c)'
  <2>1. CallOK(c) /\ Walk(c)' = Walk(c)
    BY <1>1 DEF MapInv, Walk
  <2>2. MapMade(reply[c], ask[c], tried[c], now, c) => MapMade(reply[c], ask[c], tried[c], now + 1, c)
    <3>1. reply[c] \in Answers => reply[c].made \in Nat
      BY DEF Answers
    <3> QED BY <1>1, <3>1 DEF MapMade
  <2> QED BY <1>1, <2>1, <2>2 DEF CallOK, Phase
<1> QED BY <1>2, <1>3, <1>4, <1>5 DEF MapInv

\* The invariant holds when the calls begin.
LEMMA MapInitInv == MapInit => MapInv
<1> SUFFICES ASSUME MapInit PROVE MapInv
  OBVIOUS
<1>1. Shape
  BY DEF MapInit, Shape
<1>2. CacheOK
  <2>1. ASSUME NEW k \in DOMAIN Cached PROVE EntryOK(Cached[k])
    <3>1. Cached[k] \in [ok : {TRUE}, by : {Nothing}, made : {0}, links : Seq(Links)] /\ Nothing \notin Calls
      BY CachedAssumption, CallsAssumption
    <3> DEFINE e == Cached[k]
    <3>2. /\ e = [ok |-> e.ok, by |-> e.by, made |-> e.made, links |-> e.links]
          /\ e.ok \in {TRUE} /\ e.by = Nothing /\ e.made = 0 /\ e.links \in Seq(Links)
      <4>1. e \in [ok : {TRUE}, by : {Nothing}, made : {0}, links : Seq(Links)]
        BY <3>1
      <4> HIDE DEF e
      <4> QED BY <4>1
    <3> HIDE DEF e
    <3>3. e.ok \in {TRUE} /\ e.by \in Calls \cup {Nothing} /\ e.made \in Nat /\ e.links \in Seq(Links)
      <4>1. e.made \in Nat
        BY <3>2
      <4>2. e.by \in Calls \cup {Nothing}
        BY <3>2
      <4>3. e.ok \in {TRUE}
        BY <3>2
      <4> QED BY <3>2, <4>1, <4>2, <4>3
    <3>4. e \in Answers
      BY ONLY <3>2, <3>3 DEF Answers
    <3>5. e \in Answers /\ e.made = 0 /\ e.by \notin Calls
      BY <3>1, <3>2, <3>4
    <3> QED BY <3>5 DEF EntryOK, MapInit, e
  <2> QED BY <2>1, CachedAssumption DEF CacheOK, MapInit
<1>3. RoomKept
  <2>1. Storing = {}
    BY DEF MapInit, Storing
  <2>2. Cardinality(DOMAIN cache) <= MaxEntries /\ Cardinality(DOMAIN cache) \in Nat
    BY BoundsAssumption, CachedAssumption, FS_CardinalityType DEF MapInit
  <2> QED BY <2>1, <2>2, FS_EmptySet, CallsFinite DEF RoomKept
<1>4. ASSUME NEW c \in Calls PROVE CallOK(c)
  <2>1. /\ pc[c] = "new" /\ Walk(c).found = << >> /\ Walk(c).known = {} /\ tried[c] = {}
    BY DEF MapInit, Walk
  <2>2. << >> \in Seq(Links)
    BY NoLinks
  <2> QED BY <2>1, <2>2 DEF CallOK, Phase, Asked, Unexplored, Putting
<1> QED BY <1>1, <1>2, <1>3, <1>4 DEF MapInv

\* And every step keeps it.
LEMMA MapNextInv == MapInv /\ [MapNext]_mapping => MapInv'
<1> SUFFICES ASSUME MapInv, [MapNext]_mapping PROVE MapInv'
  OBVIOUS
<1>1. ASSUME NEW c \in Calls, Step(c) PROVE MapInv'
  <2>1. CASE Start(c)
    BY <2>1, StartStep
  <2>2. CASE Provider(c)
    BY <2>2, ProviderStep
  <2>3. CASE Lookup(c)
    BY <2>3, LookupStep
  <2>4. CASE Expire(c)
    BY <2>4, ExpireStep
  <2>5. CASE Robots(c)
    BY <2>5, RobotsStep
  <2>6. CASE ReadSitemap(c)
    BY <2>6, ReadSitemapStep
  <2>7. CASE SitemapsRead(c)
    BY <2>7, SitemapsReadStep
  <2>8. CASE ReadPages(c)
    BY <2>8, ReadPagesStep
  <2>9. CASE PagesRead(c)
    BY <2>9, PagesReadStep
  <2>10. CASE Conclude(c)
    BY <2>10, ConcludeStep
  <2>11. CASE Sweep(c)
    BY <2>11, SweepStep
  <2>12. CASE EvictEntry(c)
    BY <2>12, EvictEntryStep
  <2>13. CASE Store(c)
    BY <2>13, StoreStep
  <2>14. CASE Filter(c)
    BY <2>14, FilterStep
  <2>15. CASE ScrapeResults(c)
    BY <2>15, ScrapeResultsStep
  <2> QED BY <1>1, <2>1, <2>2, <2>3, <2>4, <2>5, <2>6, <2>7, <2>8, <2>9, <2>10, <2>11, <2>12,
             <2>13, <2>14, <2>15 DEF Step
<1>2. CASE Tick
  BY <1>2, TickStep
<1>3. CASE UNCHANGED mapping
  <2>1. /\ UNCHANGED <<cache, now, pc, req, ask, found, known, queue, tried, reply>>
    BY <1>3 DEF mapping, exploring
  <2>2. Shape' /\ CacheOK' /\ RoomKept'
    BY <2>1 DEF MapInv, Shape, CacheOK, EntryOK, RoomKept, Storing
  <2>3. ASSUME NEW c \in Calls PROVE CallOK(c)'
    BY <2>1 DEF MapInv, CallOK, Walk
  <2> QED BY <2>2, <2>3 DEF MapInv
<1> QED BY <1>1, <1>2, <1>3 DEF MapNext

\* At each place of its code every call has what it needs to end well: while pages
\* are read, what is known is in the links or waits to be read, in the order of
\* depth (map, crawl_html_discovery, put).
THEOREM MapInvariant == MapSpec => []MapInv
<1> QED BY MapInitInv, MapNextInv, PTL DEF MapSpec

\* The type invariant: calls that find the cache full at the same time each make
\* room for one, so it passes its size by no more than there are other calls.
THEOREM MapTypeCorrect == MapSpec => []MapTypeOK
<1>1. MapInv => MapTypeOK
  <2> SUFFICES ASSUME MapInv PROVE MapTypeOK
    OBVIOUS
  <2>1. Cardinality(DOMAIN cache) <= MaxEntries + Cardinality(Calls) - 1
    <3>1. Cardinality(DOMAIN cache) \in Nat
      BY FS_CardinalityType DEF MapInv, CacheOK
    <3> QED BY <3>1, StoringFinite, CallsFinite DEF MapInv, RoomKept
  <2>2. \A k \in DOMAIN cache : cache[k].ok /\ cache[k].by \in Calls \cup {Nothing} /\ cache[k].made <= now
    BY DEF MapInv, CacheOK, EntryOK, Answers
  <2>3. ASSUME NEW c \in Calls PROVE Urls(found[c]) \cup known[c] \subseteq Addresses
    <3>1. found[c] \in Seq(Links) /\ known[c] \subseteq Addresses
      BY DEF MapInv, CallOK, Phase, Walk
    <3>2. \A i \in DOMAIN found[c] : found[c][i] \in Links
      BY <3>1, Places
    <3> QED BY <3>1, <3>2 DEF Urls, Links
  <2> QED BY <2>1, <2>2, <2>3 DEF MapTypeOK
<1> QED BY <1>1, MapInvariant, PTL

\* A map that was made keeps to its request, holds each address once, nothing that
\* is too far away, in the order of the scores; a search holds what it asked for
\* (map, search).
THEOREM AnswersSoundAlways == MapSpec => []AnswersSound
<1>1. MapInv => AnswersSound
  <2> SUFFICES ASSUME MapInv, NEW c \in Calls, pc[c] = "done"
               PROVE  /\ Made(c) => SoundMap(reply[c].links, ask[c], tried[c])
                      /\ req[c].kind = "search" /\ reply[c].ok => SoundResults(reply[c].links, req[c])
    BY DEF AnswersSound, MapsSound, SearchesSound, Made
  <2> QED BY DEF MapInv, CallOK, Phase, Good, Made
<1> QED BY <1>1, MapInvariant, PTL

\* A map with room for more links has all that can be reached in as many steps as
\* it asks for, and each of these pages was asked for, but those of a sitemap.
THEOREM NothingMissedAlways == MapSpec => []NothingMissed
<1>1. MapInv => NothingMissed
  <2> SUFFICES ASSUME MapInv, NEW c \in Calls, Made(c), Len(reply[c].links) < ask[c].limit
               PROVE  CompleteMap(reply[c].links, ask[c], tried[c])
    BY DEF NothingMissed
  <2> QED BY DEF MapInv, CallOK, Phase, Good, Made
<1> QED BY <1>1, MapInvariant, PTL
=============================================================================
