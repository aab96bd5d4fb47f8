-------------------------- MODULE TaskQueueProofs --------------------------
(***************************************************************************)
(* Proofs about TaskQueue: its type invariant, that no task is ever in two *)
(* places, that it implements TaskLedger, and (with TaskQueueHistory) that *)
(* tasks are handed out in the order they came, for all sets of tasks,     *)
(* handlers and lease ids and all bounds.                                  *)
(***************************************************************************)
EXTENDS TaskQueueHistory, SequenceTheorems, TLAPS

\* push_back keeps a deque's tasks distinct when the new one is not in it.
LEMMA AppendFacts ==
  ASSUME NEW S, NEW s \in Seq(S), NEW e \in S
  PROVE  /\ Append(s, e) \in Seq(S)
         /\ Range(Append(s, e)) = Range(s) \cup {e}
         /\ IsInjective(s) /\ e \notin Range(s) => IsInjective(Append(s, e))
<1>1. /\ Append(s, e) \in Seq(S)
      /\ DOMAIN Append(s, e) = 1 .. Len(s) + 1
      /\ \A i \in 1 .. Len(s) : Append(s, e)[i] = s[i]
      /\ Append(s, e)[Len(s) + 1] = e
      /\ Len(s) \in Nat /\ DOMAIN s = 1 .. Len(s)
  BY AppendProperties, LenProperties
<1>2. Range(Append(s, e)) = Range(s) \cup {e}
  <2>1. ASSUME NEW x PROVE x \in Range(Append(s, e)) <=> x \in Range(s) \cup {e}
    BY <1>1 DEF Range
  <2> QED BY <2>1
<1>3. ASSUME IsInjective(s), e \notin Range(s) PROVE IsInjective(Append(s, e))
  BY <1>1, <1>3 DEF IsInjective, Range
<1> QED BY <1>1, <1>2, <1>3

\* push_front, likewise.
LEMMA PushFrontFacts ==
  ASSUME NEW S, NEW s \in Seq(S), NEW e \in S
  PROVE  /\ <<e>> \o s \in Seq(S)
         /\ Range(<<e>> \o s) = Range(s) \cup {e}
         /\ IsInjective(s) /\ e \notin Range(s) => IsInjective(<<e>> \o s)
<1> DEFINE r == <<e>> \o s
<1>1. /\ r \in Seq(S)
      /\ DOMAIN r = 1 .. Len(s) + 1
      /\ \A i \in 1 .. Len(s) + 1 : r[i] = IF i = 1 THEN e ELSE s[i - 1]
      /\ Len(s) \in Nat /\ DOMAIN s = 1 .. Len(s)
  <2>1. <<e>> \in Seq(S) /\ Len(<<e>>) = 1 /\ <<e>>[1] = e
    OBVIOUS
  <2> QED BY <2>1, ConcatProperties, LenProperties
<1> HIDE DEF r
<1>2. Range(r) = Range(s) \cup {e}
  <2>1. ASSUME NEW x \in Range(r) PROVE x \in Range(s) \cup {e}
    BY <1>1 DEF Range
  <2>2. ASSUME NEW i \in DOMAIN s PROVE s[i] \in Range(r)
    <3>1. i + 1 \in DOMAIN r /\ r[i + 1] = s[i]
      BY <1>1, <2>2
    <3> QED BY <3>1 DEF Range
  <2>3. e \in Range(r)
    BY <1>1 DEF Range
  <2> QED BY <2>1, <2>2, <2>3 DEF Range
<1>3. ASSUME IsInjective(s), e \notin Range(s) PROVE IsInjective(r)
  <2> SUFFICES ASSUME NEW j \in DOMAIN r, NEW k \in DOMAIN r, r[j] = r[k] PROVE j = k
    BY DEF IsInjective
  <2>1. \A m \in DOMAIN s : s[m] # e
    BY <1>3 DEF Range
  <2>2. CASE j # 1 /\ k # 1
    <3>1. j - 1 \in DOMAIN s /\ k - 1 \in DOMAIN s /\ s[j - 1] = s[k - 1]
      BY <1>1, <2>2
    <3>2. j - 1 = k - 1
      BY <1>3, <3>1 DEF IsInjective
    <3> QED BY <1>1, <3>2
  <2>3. CASE j = 1 \/ k = 1
    BY <1>1, <2>1, <2>3
  <2> QED BY <2>2, <2>3
<1> QED BY <1>1, <1>2, <1>3 DEF r

\* Removing a position: what was behind it moves up.
LEMMA WithoutPlaces ==
  ASSUME NEW S, NEW s \in Seq(S), NEW i \in DOMAIN s
  PROVE  /\ Without(s, i) \in Seq(S)
         /\ DOMAIN Without(s, i) = 1 .. Len(s) - 1
         /\ \A j \in 1 .. Len(s) - 1 : Without(s, i)[j] = IF j < i THEN s[j] ELSE s[j + 1]
         /\ Len(s) \in Nat /\ DOMAIN s = 1 .. Len(s)
<1> DEFINE r == Without(s, i)
           a == SubSeq(s, 1, i - 1)
           b == SubSeq(s, i + 1, Len(s))
<1>1. Len(s) \in Nat /\ DOMAIN s = 1 .. Len(s) /\ i \in 1 .. Len(s)
      /\ \A j \in 1 .. Len(s) : s[j] \in S
  BY LenProperties, ElementOfSeq
<1>2. a \in Seq(S) /\ Len(a) = i - 1 /\ \A j \in 1 .. i - 1 : a[j] = s[j]
  <2>1. \A j \in 1 .. i - 1 : s[j] \in S
    BY <1>1
  <2> QED BY <1>1, <2>1, SubSeqProperties
<1>3. b \in Seq(S) /\ Len(b) = Len(s) - i /\ \A j \in 1 .. Len(s) - i : b[j] = s[i + j]
  <2>1. \A j \in i + 1 .. Len(s) : s[j] \in S
    BY <1>1
  <2> QED BY <1>1, <2>1, SubSeqProperties
<1>4. /\ r \in Seq(S)
      /\ DOMAIN r = 1 .. Len(s) - 1
      /\ \A j \in 1 .. Len(s) - 1 : r[j] = IF j < i THEN s[j] ELSE s[j + 1]
  <2>1. r = a \o b
    BY DEF Without
  <2> HIDE DEF a, b, r
  <2>2. /\ r \in Seq(S) /\ Len(r) = Len(a) + Len(b)
        /\ \A j \in 1 .. Len(a) + Len(b) : r[j] = IF j <= Len(a) THEN a[j] ELSE b[j - Len(a)]
    BY <1>2, <1>3, <2>1, ConcatProperties
  <2>3. Len(r) = Len(s) - 1 /\ DOMAIN r = 1 .. Len(s) - 1
    BY <1>1, <1>2, <1>3, <2>2, LenProperties
  <2>4. ASSUME NEW j \in 1 .. Len(s) - 1 PROVE r[j] = IF j < i THEN s[j] ELSE s[j + 1]
    <3>1. CASE j < i
      BY <1>1, <1>2, <1>3, <2>2, <3>1
    <3>2. CASE ~(j < i)
      <4>1. r[j] = b[j - (i - 1)] /\ j - (i - 1) \in 1 .. Len(s) - i
        <5>1. Len(a) = i - 1 /\ Len(a) + Len(b) = Len(s) - 1 /\ i \in Nat /\ Len(s) \in Nat
          BY <1>1, <1>2, <1>3
        <5>2. j \in 1 .. Len(s) - 1 /\ ~(j <= i - 1)
          BY <3>2, <5>1
        <5>3. r[j] = IF j <= i - 1 THEN a[j] ELSE b[j - (i - 1)]
          BY <2>2, <5>1
        <5>4. r[j] = b[j - (i - 1)]
          BY <5>2, <5>3
        <5>5. j - (i - 1) \in 1 .. Len(s) - i
          BY <5>1, <5>2
        <5> QED BY <5>4, <5>5
      <4>2. i + (j - (i - 1)) = j + 1
        BY <1>1
      <4> QED BY <1>3, <3>2, <4>1, <4>2
    <3> QED BY <3>1, <3>2
  <2> QED BY <2>2, <2>3, <2>4
<1> QED BY <1>1, <1>4 DEF r

\* Removing a position of a deque of distinct tasks removes that task only.
LEMMA WithoutFacts ==
  ASSUME NEW S, NEW s \in Seq(S), NEW i \in DOMAIN s
  PROVE  /\ Without(s, i) \in Seq(S)
         /\ Range(Without(s, i)) \subseteq Range(s)
         /\ Range(s) \subseteq Range(Without(s, i)) \cup {s[i]}
         /\ IsInjective(s) => /\ IsInjective(Without(s, i))
                              /\ s[i] \notin Range(Without(s, i))
<1> DEFINE r == Without(s, i)
<1>1. Len(s) \in Nat /\ DOMAIN s = 1 .. Len(s) /\ i \in 1 .. Len(s)
  BY LenProperties
<1>2. /\ r \in Seq(S)
      /\ DOMAIN r = 1 .. Len(s) - 1
      /\ \A j \in 1 .. Len(s) - 1 : r[j] = IF j < i THEN s[j] ELSE s[j + 1]
  BY WithoutPlaces DEF r
<1> HIDE DEF r
<1>3. Range(r) \subseteq Range(s)
  <2> SUFFICES ASSUME NEW k \in DOMAIN r PROVE \E m \in DOMAIN s : s[m] = r[k]
    BY DEF Range
  <2>1. CASE k < i
    <3>1. k \in DOMAIN s /\ r[k] = s[k]
      BY <1>1, <1>2, <2>1
    <3> QED BY <3>1
  <2>2. CASE ~(k < i)
    <3>1. k + 1 \in DOMAIN s /\ r[k] = s[k + 1]
      BY <1>1, <1>2, <2>2
    <3> QED BY <3>1
  <2> QED BY <2>1, <2>2
<1>4. Range(s) \subseteq Range(r) \cup {s[i]}
  <2> SUFFICES ASSUME NEW j \in 1 .. Len(s), j # i PROVE s[j] \in Range(r)
    BY <1>1 DEF Range
  <2>1. CASE j < i
    BY <1>1, <1>2, <2>1 DEF Range
  <2>2. CASE j > i
    <3>1. j - 1 \in DOMAIN r /\ r[j - 1] = s[j]
      BY <1>1, <1>2, <2>2
    <3> QED BY <3>1 DEF Range
  <2> QED BY <1>1, <2>1, <2>2
<1>5. ASSUME IsInjective(s) PROVE IsInjective(r) /\ s[i] \notin Range(r)
  <2> DEFINE old(j) == IF j < i THEN j ELSE j + 1
  <2>1. \A j \in DOMAIN r : old(j) \in DOMAIN s /\ old(j) # i /\ r[j] = s[old(j)]
    BY <1>1, <1>2
  <2>2. \A j, k \in DOMAIN r : old(j) = old(k) => j = k
    BY <1>1, <1>2
  <2> HIDE DEF old
  <2>3. \A j, k \in DOMAIN s : s[j] = s[k] => j = k
    BY <1>5 DEF IsInjective
  <2>4. IsInjective(r)
    BY <2>1, <2>2, <2>3 DEF IsInjective
  <2>5. s[i] \notin Range(r)
    BY <2>1, <2>3 DEF Range
  <2> QED BY <2>4, <2>5
<1> QED BY <1>2, <1>3, <1>4, <1>5 DEF r

-----------------------------------------------------------------------------
\* The type invariant holds in every reachable state: in particular a lease
\* always names a task and the reclaimer's keys are lease ids.
LEMMA TypeInit == Init => TypeOK
BY QueueAssumption DEF Init, TypeOK, Carriers

\* Removing a lease leaves a map from lease ids to leases.
LEMMA RemoveLeaseType ==
  ASSUME TypeOK, NEW l
  PROVE  /\ DOMAIN WithoutLease(l) \subseteq LeaseIds
         /\ WithoutLease(l) \in [DOMAIN WithoutLease(l) -> Lease]
BY DEF TypeOK, WithoutLease

\* Every call and every task of the program keeps the types: one step per action.
LEMMA TypeStep == TypeOK /\ [Next]_vars => TypeOK'
<1> SUFFICES ASSUME TypeOK, [Next]_vars PROVE TypeOK'
  OBVIOUS
<1> USE DEF calls
<1>1. ASSUME NEW t \in Tasks, Enqueue(t) PROVE TypeOK'
  BY <1>1, AppendProperties DEF TypeOK, Enqueue
<1>2. ASSUME NEW w \in Workers, Reserve(w) PROVE TypeOK'
  <2>1. PICK i \in DOMAIN queue, l \in LeaseIds \ KnownLeases :
          /\ queue' = Without(queue, i)
          /\ activeLeases' =
                [k \in DOMAIN activeLeases \cup {l} |->
                   IF k = l THEN [task |-> queue[i], attempt |-> FirstAttempt,
                                  ttl |-> LeaseDuration]
                   ELSE activeLeases[k]]
          /\ handling' = [handling EXCEPT ![w] = l]
    BY <1>2 DEF Reserve
  <2>2. queue[i] \in Tasks /\ queue' \in Seq(Tasks)
    BY <2>1, WithoutFacts, LenProperties, ElementOfSeq DEF TypeOK
  <2>3. [task |-> queue[i], attempt |-> FirstAttempt, ttl |-> LeaseDuration] \in Lease
    BY <2>2, QueueAssumption DEF Lease, FirstAttempt
  <2>4. DOMAIN activeLeases' \subseteq LeaseIds /\ activeLeases' \in [DOMAIN activeLeases' -> Lease]
    BY <2>1, <2>3 DEF TypeOK
  <2> QED BY <1>2, <2>1, <2>2, <2>4 DEF TypeOK, Reserve
<1>3. ASSUME NEW w \in Workers, Heartbeat(w) PROVE TypeOK'
  <2>1. DOMAIN activeLeases' = DOMAIN activeLeases
    BY <1>3 DEF Heartbeat, TypeOK
  <2>2. ASSUME NEW l \in DOMAIN activeLeases PROVE activeLeases'[l] \in Lease
    <3>1. activeLeases[l] \in Lease
      BY DEF TypeOK
    <3>2. \/ activeLeases'[l] = activeLeases[l]
          \/ activeLeases'[l] = [activeLeases[l] EXCEPT !.ttl = LeaseDuration]
      BY <1>3 DEF Heartbeat, TypeOK
    <3> QED BY <3>1, <3>2, QueueAssumption DEF Lease
  <2>3. activeLeases' \in [DOMAIN activeLeases' -> Lease]
    BY <1>3, <2>1, <2>2 DEF Heartbeat, TypeOK
  <2> QED BY <1>3, <2>1, <2>3 DEF TypeOK, Heartbeat
<1>4. ASSUME NEW w \in Workers, Ack(w) PROVE TypeOK'
  BY <1>4, RemoveLeaseType DEF TypeOK, Ack, Active, Lease
<1>5. ASSUME NEW w \in Workers, NEW delay \in Delays \cup {FailDelay}, Retry(w, delay)
      PROVE TypeOK'
  <2> DEFINE l == handling[w]
             t == activeLeases[l].task
  <2>1. handling' = [handling EXCEPT ![w] = NoLease] /\ failing' = [failing EXCEPT ![w] = "no"]
    BY <1>5 DEF Retry
  <2>2. CASE Active(l) /\ activeLeases[l].attempt + 1 > MaxAttempts[t]
    <3>1. t \in Tasks
      BY <2>2 DEF TypeOK, Active, Lease
    <3>2. activeLeases' = WithoutLease(l) /\ Bury(w, t)
      BY <1>5, <2>2 DEF Retry
    <3>3. DOMAIN activeLeases' \subseteq LeaseIds /\ activeLeases' \in [DOMAIN activeLeases' -> Lease]
      BY <3>2, RemoveLeaseType
    <3>4. dlq' \subseteq Tasks /\ failedCount' \in Nat /\ UNCHANGED <<availableIn, hand>>
      BY <3>1, <3>2 DEF Bury, TypeOK
    <3> QED BY <1>5, <2>1, <3>3, <3>4 DEF TypeOK, Retry
  <2>3. CASE Active(l) /\ ~(activeLeases[l].attempt + 1 > MaxAttempts[t])
    <3>1. t \in Tasks /\ (IF delay > 1 THEN delay ELSE 1) \in Nat
      BY <2>3, QueueAssumption DEF TypeOK, Active, Lease
    <3>2. /\ availableIn' = [availableIn EXCEPT ![t] = IF delay > 1 THEN delay ELSE 1]
          /\ hand' = [hand EXCEPT ![w] = t]
          /\ activeLeases' = WithoutLease(l)
          /\ UNCHANGED <<dlq, failedCount>>
      BY <1>5, <2>3 DEF Retry
    <3>3. availableIn' \in [Tasks -> Nat] /\ hand' \in [Carriers -> Tasks \cup {NoTask}]
      BY <3>1, <3>2 DEF TypeOK
    <3> QED BY <1>5, <2>1, <3>2, <3>3, RemoveLeaseType DEF TypeOK, Retry
  <2>4. CASE ~Active(l)
    BY <1>5, <2>1, <2>4 DEF TypeOK, Retry
  <2> QED BY <2>2, <2>3, <2>4
<1>6. ASSUME NEW w \in Workers, NEW retryable \in BOOLEAN, FailLookup(w, retryable)
      PROVE TypeOK'
  BY <1>6 DEF TypeOK, FailLookup
<1>7. ASSUME NEW w \in Workers, FailBury(w) PROVE TypeOK'
  BY <1>7, RemoveLeaseType DEF TypeOK, FailBury, Bury, Active, Lease
<1>8. ASSUME NEW w \in Workers, Abandon(w) PROVE TypeOK'
  BY <1>8 DEF TypeOK, Abandon
<1>9. ASSUME NEW c \in Carriers, Requeue(c) PROVE TypeOK'
  <2>1. hand[c] \in Tasks
    BY <1>9 DEF TypeOK, Requeue, HasTask
  <2>2. queue' \in Seq(Tasks)
    BY <1>9, <2>1, PushFrontFacts DEF TypeOK, Requeue
  <2> QED BY <1>9, <2>2 DEF TypeOK, Requeue
<1>10. CASE ReclaimScan
  BY <1>10 DEF TypeOK, ReclaimScan
<1>11. ASSUME NEW l \in LeaseIds, ReclaimTake(l) PROVE TypeOK'
  BY <1>11, RemoveLeaseType DEF TypeOK, ReclaimTake, Active, Lease, Carriers
<1>12. ASSUME NEW t \in Tasks, DlqRemove(t) PROVE TypeOK'
  BY <1>12 DEF TypeOK, DlqRemove
<1>13. ASSUME NEW t \in Tasks, DlqEnqueue(t) PROVE TypeOK'
  <2>1. CASE Len(queue) < MaxCapacity
    <3>1. queue' \in Seq(Tasks)
      <4>1. queue' = Append(queue, t)
        BY <1>13, <2>1 DEF DlqEnqueue
      <4> QED BY <4>1, AppendFacts DEF TypeOK
    <3>2. availableIn' \in [Tasks -> Nat]
      BY <1>13, <2>1 DEF TypeOK, DlqEnqueue
    <3> QED BY <1>13, <2>1, <3>1, <3>2 DEF TypeOK, DlqEnqueue
  <2>2. CASE ~(Len(queue) < MaxCapacity)
    BY <1>13, <2>2 DEF TypeOK, DlqEnqueue
  <2> QED BY <2>1, <2>2
<1>14. CASE Tick
  <2>1. availableIn' \in [Tasks -> Nat]
    BY <1>14 DEF TypeOK, Tick
  <2>2. DOMAIN activeLeases' = DOMAIN activeLeases
    BY <1>14 DEF Tick
  <2>3. ASSUME NEW l \in DOMAIN activeLeases PROVE activeLeases'[l] \in Lease
    <3>1. activeLeases[l] \in Lease
      BY DEF TypeOK
    <3>2. activeLeases'[l] = [activeLeases[l] EXCEPT !.ttl = IF @ > 0 THEN @ - 1 ELSE 0]
      BY <1>14 DEF Tick
    <3> QED BY <3>1, <3>2 DEF Lease
  <2>4. activeLeases' \in [DOMAIN activeLeases' -> Lease]
    BY <1>14, <2>2, <2>3 DEF Tick
  <2> QED BY <1>14, <2>1, <2>2, <2>4 DEF TypeOK, Tick
<1>15. CASE UNCHANGED vars
  BY <1>15 DEF TypeOK, vars
<1> QED
  BY <1>1, <1>2, <1>3, <1>4, <1>5, <1>6, <1>7, <1>8, <1>9, <1>10, <1>11, <1>12,
     <1>13, <1>14, <1>15 DEF Next, Handler

\* The queue's variables keep their types in every reachable state: deques and
\* dead letters hold tasks, and each active lease names one (memory.rs 12-21).
THEOREM TypeCorrect == Spec => []TypeOK
BY TypeInit, TypeStep, PTL DEF Spec

-----------------------------------------------------------------------------
(***************************************************************************)
(* How the steps move tasks between the places.                            *)
(***************************************************************************)

\* A task's lease is gone from the table: no other lease names the task.
LEMMA LeaseRemoved ==
  ASSUME TypeOK, LeasesDistinct, NEW l, Active(l), activeLeases' = WithoutLease(l)
  PROVE  /\ activeLeases[l].task \in Tasks \cap Leased
         /\ Leased' = Leased \ {activeLeases[l].task}
         /\ LeasesDistinct'
<1>1. activeLeases[l].task \in Tasks \cap Leased
  BY DEF TypeOK, Active, Lease, Leased
<1>2. /\ DOMAIN activeLeases' = DOMAIN activeLeases \ {l}
      /\ \A k \in DOMAIN activeLeases' : activeLeases'[k] = activeLeases[k]
  BY DEF WithoutLease
<1>3. Leased' = Leased \ {activeLeases[l].task}
  BY <1>2 DEF Leased, LeasesDistinct, Active
<1>4. LeasesDistinct'
  BY <1>2 DEF LeasesDistinct
<1> QED BY <1>1, <1>3, <1>4

\* Leases whose tasks are the same name the same tasks.
LEMMA LeasesKept ==
  ASSUME DOMAIN activeLeases' = DOMAIN activeLeases,
         \A l \in DOMAIN activeLeases : activeLeases'[l].task = activeLeases[l].task
  PROVE  Leased' = Leased /\ (LeasesDistinct => LeasesDistinct')
BY DEF Leased, LeasesDistinct

\* A carrier with an empty hand takes a task.
LEMMA HandFilled ==
  ASSUME TypeOK, NEW c \in Carriers, hand[c] = NoTask, NEW t \in Tasks,
         hand' = [hand EXCEPT ![c] = t]
  PROVE  /\ Held' = Held \cup {t}
         /\ HandsDistinct /\ t \notin Held => HandsDistinct'
<1>1. \A d \in Carriers : hand'[d] = IF d = c THEN t ELSE hand[d]
  BY DEF TypeOK
<1>2. Held' = Held \cup {t}
  BY <1>1, QueueAssumption DEF Held
<1>3. ASSUME HandsDistinct, t \notin Held PROVE HandsDistinct'
  BY <1>1, <1>3 DEF HandsDistinct, Held
<1> QED BY <1>2, <1>3

\* A carrier gives its task away.
LEMMA HandEmptied ==
  ASSUME TypeOK, HandsDistinct, NEW c \in Carriers, hand[c] # NoTask,
         hand' = [hand EXCEPT ![c] = NoTask]
  PROVE  /\ hand[c] \in Tasks \cap Held
         /\ Held' = Held \ {hand[c]}
         /\ HandsDistinct'
<1>1. \A d \in Carriers : hand'[d] = IF d = c THEN NoTask ELSE hand[d]
  BY DEF TypeOK
<1>2. hand[c] \in Tasks \cap Held
  BY DEF TypeOK, Held
<1>3. Held' = Held \ {hand[c]}
  BY <1>1 DEF Held, HandsDistinct
<1>4. HandsDistinct'
  BY <1>1 DEF HandsDistinct
<1> QED BY <1>2, <1>3, <1>4

(***************************************************************************)
(* One lemma per step that moves a task: which place it leaves, which it   *)
(* reaches, and that the places still exclude each other.                  *)
(***************************************************************************)

\* enqueue: from outside to the deque.
LEMMA EnqueueMoves ==
  ASSUME TypeOK, OnePlace, NEW t \in Tasks, Enqueue(t)
  PROVE  /\ t \in fresh /\ fresh' = fresh \ {t}
         /\ Range(queue)' = Range(queue) \cup {t}
         /\ Leased' = Leased /\ Held' = Held
         /\ UNCHANGED <<dlq, reviving, done, lost>>
         /\ OnePlace'
<1>1. /\ t \in fresh /\ fresh' = fresh \ {t} /\ queue' = Append(queue, t)
      /\ UNCHANGED <<activeLeases, hand, handling, dlq, reviving, done, lost>>
  BY DEF Enqueue, calls
<1>2. t \notin Range(queue)
  BY <1>1 DEF OnePlace, PlacesDisjoint
<1>3. Range(queue') = Range(queue) \cup {t} /\ IsInjective(queue')
  BY <1>1, <1>2, AppendFacts DEF TypeOK, OnePlace
<1>4. Leased' = Leased /\ Held' = Held
  BY <1>1 DEF Leased, Held
<1>5. LeasesDistinct' /\ HandsDistinct' /\ HandsFree'
  BY <1>1 DEF OnePlace, LeasesDistinct, HandsDistinct, HandsFree
<1>6. PlacesDisjoint'
  BY <1>1, <1>3, <1>4 DEF OnePlace, PlacesDisjoint
<1> QED BY <1>1, <1>3, <1>4, <1>5, <1>6 DEF OnePlace

\* reserve: from the deque to a lease nobody knew.
LEMMA ReserveMoves ==
  ASSUME TypeOK, OnePlace, NEW w \in Workers, Reserve(w)
  PROVE  \E t \in Tasks :
         /\ t \in Range(queue) /\ Range(queue)' = Range(queue) \ {t}
         /\ Leased' = Leased \cup {t}
         /\ Held' = Held
         /\ UNCHANGED <<fresh, dlq, reviving, done, lost>>
         /\ OnePlace'
<1>1. PICK i \in DOMAIN queue, l \in LeaseIds \ KnownLeases :
        /\ queue' = Without(queue, i)
        /\ activeLeases' =
              [k \in DOMAIN activeLeases \cup {l} |->
                 IF k = l THEN [task |-> queue[i], attempt |-> FirstAttempt,
                                ttl |-> LeaseDuration]
                 ELSE activeLeases[k]]
        /\ handling' = [handling EXCEPT ![w] = l]
  BY DEF Reserve
<1> DEFINE t == queue[i]
<1>2. /\ hand[w] = NoTask /\ UNCHANGED <<hand, fresh, dlq, reviving, done, lost>>
  BY DEF Reserve, Idle, HasTask
<1>3. t \in Tasks /\ t \in Range(queue)
  BY LenProperties, ElementOfSeq DEF TypeOK, Range
<1>4. Range(queue') = Range(queue) \ {t} /\ IsInjective(queue')
  BY <1>1, WithoutFacts DEF TypeOK, OnePlace
<1>5. /\ l \notin DOMAIN activeLeases
      /\ DOMAIN activeLeases' = DOMAIN activeLeases \cup {l}
      /\ activeLeases'[l].task = t
      /\ \A k \in DOMAIN activeLeases : activeLeases'[k] = activeLeases[k]
  BY <1>1 DEF KnownLeases
<1>6. Leased' = Leased \cup {t}
  BY <1>5 DEF Leased
<1>7. t \notin Leased
  BY <1>3 DEF OnePlace, PlacesDisjoint
<1>8. LeasesDistinct'
  BY <1>5, <1>7 DEF OnePlace, LeasesDistinct, Leased
<1>9. Held' = Held /\ HandsDistinct'
  BY <1>2 DEF Held, HandsDistinct, OnePlace
<1>10. HandsFree'
  BY <1>1, <1>2 DEF HandsFree, OnePlace, TypeOK
<1>11. PlacesDisjoint'
  BY <1>2, <1>3, <1>4, <1>6, <1>9 DEF OnePlace, PlacesDisjoint
<1> QED BY <1>2, <1>3, <1>4, <1>6, <1>8, <1>9, <1>10, <1>11 DEF OnePlace

\* ack of an active lease: the task is done.
LEMMA AckMoves ==
  ASSUME TypeOK, OnePlace, NEW w \in Workers, Ack(w), Active(handling[w])
  PROVE  \E t \in Tasks :
         /\ t \in Leased /\ Leased' = Leased \ {t}
         /\ done' = done \cup {t}
         /\ Range(queue)' = Range(queue) /\ Held' = Held
         /\ UNCHANGED <<fresh, dlq, reviving, lost>>
         /\ OnePlace'
<1> DEFINE t == activeLeases[handling[w]].task
<1>1. /\ activeLeases' = WithoutLease(handling[w]) /\ done' = done \cup {t}
      /\ handling' = [handling EXCEPT ![w] = NoLease]
      /\ UNCHANGED <<queue, hand, fresh, dlq, reviving, lost>>
  BY DEF Ack
<1>2. /\ t \in Tasks \cap Leased /\ Leased' = Leased \ {t} /\ LeasesDistinct'
  BY <1>1, LeaseRemoved DEF OnePlace
<1>3. Range(queue') = Range(queue) /\ Held' = Held /\ HandsDistinct' /\ IsInjective(queue')
  BY <1>1 DEF Held, HandsDistinct, OnePlace
<1>4. HandsFree'
  BY <1>1 DEF HandsFree, OnePlace, TypeOK
<1>5. PlacesDisjoint'
  BY <1>1, <1>2, <1>3 DEF OnePlace, PlacesDisjoint
<1> QED BY <1>1, <1>2, <1>3, <1>4, <1>5 DEF OnePlace

\* The dead-letter end of retry and fail: from the lease to the dlq.
LEMMA BuryMoves ==
  ASSUME TypeOK, OnePlace, NEW w \in Workers, Active(handling[w]),
         activeLeases' = WithoutLease(handling[w]),
         Bury(w, activeLeases[handling[w]].task),
         handling' = [handling EXCEPT ![w] = NoLease],
         UNCHANGED <<queue, fresh, reviving, done, lost>>
  PROVE  \E t \in Tasks :
         /\ t \in Leased /\ Leased' = Leased \ {t}
         /\ dlq' = dlq \cup {t}
         /\ Range(queue)' = Range(queue) /\ Held' = Held
         /\ UNCHANGED <<fresh, reviving, done, lost>>
         /\ OnePlace'
<1> DEFINE t == activeLeases[handling[w]].task
<1>1. dlq' = dlq \cup {t} /\ UNCHANGED hand
  BY DEF Bury
<1>2. /\ t \in Tasks \cap Leased /\ Leased' = Leased \ {t} /\ LeasesDistinct'
  BY LeaseRemoved DEF OnePlace
<1>3. Range(queue') = Range(queue) /\ Held' = Held /\ HandsDistinct' /\ IsInjective(queue')
  BY <1>1 DEF Held, HandsDistinct, OnePlace
<1>4. HandsFree'
  BY <1>1 DEF HandsFree, OnePlace, TypeOK
<1>5. PlacesDisjoint'
  BY <1>1, <1>2, <1>3 DEF OnePlace, PlacesDisjoint
<1> QED BY <1>1, <1>2, <1>3, <1>4, <1>5 DEF OnePlace

\* retry and reclaim: from the lease to the hand of whoever removed it.
LEMMA TakeMoves ==
  ASSUME TypeOK, OnePlace, NEW c \in Carriers, hand[c] = NoTask, NEW l, Active(l),
         activeLeases' = WithoutLease(l),
         hand' = [hand EXCEPT ![c] = activeLeases[l].task],
         c \in Workers => l = handling[c] /\ handling' = [handling EXCEPT ![c] = NoLease],
         c \notin Workers => UNCHANGED handling,
         UNCHANGED <<queue, fresh, dlq, reviving, done, lost>>
  PROVE  \E t \in Tasks :
         /\ t \in Leased /\ Leased' = Leased \ {t}
         /\ Held' = Held \cup {t}
         /\ Range(queue)' = Range(queue)
         /\ UNCHANGED <<fresh, dlq, reviving, done, lost>>
         /\ OnePlace'
<1> DEFINE t == activeLeases[l].task
<1>1. /\ t \in Tasks \cap Leased /\ Leased' = Leased \ {t} /\ LeasesDistinct'
  BY LeaseRemoved DEF OnePlace
<1>2. t \notin Held
  BY <1>1 DEF OnePlace, PlacesDisjoint
<1>3. Held' = Held \cup {t} /\ HandsDistinct'
  BY <1>1, <1>2, HandFilled DEF OnePlace
<1>4. Range(queue') = Range(queue) /\ IsInjective(queue')
  BY DEF OnePlace
<1>5. HandsFree'
  BY DEF HandsFree, OnePlace, TypeOK, Carriers
<1>6. PlacesDisjoint'
  BY <1>1, <1>3, <1>4 DEF OnePlace, PlacesDisjoint
<1> QED BY <1>1, <1>3, <1>4, <1>5, <1>6 DEF OnePlace

\* The push_front that ends both.
LEMMA RequeueMoves ==
  ASSUME TypeOK, OnePlace, NEW c \in Carriers, Requeue(c)
  PROVE  \E t \in Tasks :
         /\ t \in Held /\ Held' = Held \ {t}
         /\ Range(queue)' = Range(queue) \cup {t}
         /\ Leased' = Leased
         /\ UNCHANGED <<fresh, dlq, reviving, done, lost>>
         /\ OnePlace'
<1> DEFINE t == hand[c]
<1>1. /\ t # NoTask /\ queue' = <<t>> \o queue /\ hand' = [hand EXCEPT ![c] = NoTask]
      /\ UNCHANGED <<activeLeases, handling, fresh, dlq, reviving, done, lost>>
  BY DEF Requeue, HasTask
<1>2. t \in Tasks \cap Held /\ Held' = Held \ {t} /\ HandsDistinct'
  BY <1>1, HandEmptied DEF OnePlace
<1>3. t \notin Range(queue)
  BY <1>2 DEF OnePlace, PlacesDisjoint
<1>4. Range(queue') = Range(queue) \cup {t} /\ IsInjective(queue')
  BY <1>1, <1>2, <1>3, PushFrontFacts DEF TypeOK, OnePlace
<1>5. Leased' = Leased /\ LeasesDistinct'
  BY <1>1 DEF Leased, LeasesDistinct, OnePlace
<1>6. HandsFree'
  BY <1>1 DEF HandsFree, OnePlace, TypeOK, Carriers
<1>7. PlacesDisjoint'
  BY <1>1, <1>2, <1>4, <1>5 DEF OnePlace, PlacesDisjoint
<1> QED BY <1>1, <1>2, <1>4, <1>5, <1>6, <1>7 DEF OnePlace

\* dlq_retry: from the dlq, then to the deque or to nowhere.
LEMMA DlqRemoveMoves ==
  ASSUME TypeOK, OnePlace, NEW t \in Tasks, DlqRemove(t)
  PROVE  /\ t \in dlq /\ dlq' = dlq \ {t} /\ reviving' = reviving \cup {t}
         /\ Range(queue)' = Range(queue) /\ Leased' = Leased /\ Held' = Held
         /\ UNCHANGED <<fresh, done, lost>>
         /\ OnePlace'
<1>1. /\ t \in dlq /\ dlq' = dlq \ {t} /\ reviving' = reviving \cup {t}
      /\ UNCHANGED <<queue, activeLeases, hand, handling, fresh, done, lost>>
  BY DEF DlqRemove
<1>2. Range(queue') = Range(queue) /\ Leased' = Leased /\ Held' = Held
  BY <1>1 DEF Leased, Held
<1>3. IsInjective(queue') /\ LeasesDistinct' /\ HandsDistinct' /\ HandsFree'
  BY <1>1 DEF OnePlace, LeasesDistinct, HandsDistinct, HandsFree
<1>4. PlacesDisjoint'
  BY <1>1, <1>2 DEF OnePlace, PlacesDisjoint
<1> QED BY <1>1, <1>2, <1>3, <1>4 DEF OnePlace

\* Reviving a dead letter: from reviving to the queue, or lost when it is full.
LEMMA DlqEnqueueMoves ==
  ASSUME TypeOK, OnePlace, NEW t \in Tasks, DlqEnqueue(t)
  PROVE  /\ t \in reviving /\ reviving' = reviving \ {t}
         /\ \/ Range(queue)' = Range(queue) \cup {t} /\ UNCHANGED lost
            \/ lost' = lost \cup {t} /\ Range(queue)' = Range(queue)
         /\ Leased' = Leased /\ Held' = Held
         /\ UNCHANGED <<fresh, dlq, done>>
         /\ OnePlace'
<1>1. /\ t \in reviving /\ reviving' = reviving \ {t}
      /\ \/ queue' = Append(queue, t) /\ UNCHANGED lost
         \/ lost' = lost \cup {t} /\ UNCHANGED queue
      /\ UNCHANGED <<activeLeases, hand, handling, fresh, dlq, done>>
  BY DEF DlqEnqueue
<1>2. Leased' = Leased /\ Held' = Held
  BY <1>1 DEF Leased, Held
<1>3. LeasesDistinct' /\ HandsDistinct' /\ HandsFree'
  BY <1>1 DEF OnePlace, LeasesDistinct, HandsDistinct, HandsFree
<1>4. CASE queue' = Append(queue, t) /\ UNCHANGED lost
  <2>1. t \notin Range(queue)
    BY <1>1 DEF OnePlace, PlacesDisjoint
  <2>2. Range(queue') = Range(queue) \cup {t} /\ IsInjective(queue')
    BY <1>4, <2>1, AppendFacts DEF TypeOK, OnePlace
  <2>3. PlacesDisjoint'
    BY <1>1, <1>2, <1>4, <2>2 DEF OnePlace, PlacesDisjoint
  <2> QED BY <1>1, <1>2, <1>3, <1>4, <2>2, <2>3 DEF OnePlace
<1>5. CASE lost' = lost \cup {t} /\ UNCHANGED queue
  <2>1. Range(queue') = Range(queue) /\ IsInjective(queue')
    BY <1>5 DEF OnePlace
  <2>2. PlacesDisjoint'
    BY <1>1, <1>2, <1>5, <2>1 DEF OnePlace, PlacesDisjoint
  <2> QED BY <1>1, <1>2, <1>3, <1>5, <2>1, <2>2 DEF OnePlace
<1> QED BY <1>1, <1>4, <1>5

\* Steps that move no task.
LEMMA StayMoves ==
  ASSUME TypeOK, OnePlace,
         UNCHANGED <<queue, hand, fresh, dlq, reviving, done, lost>>,
         DOMAIN activeLeases' = DOMAIN activeLeases,
         \A l \in DOMAIN activeLeases : activeLeases'[l].task = activeLeases[l].task,
         \A w \in Workers : handling'[w] \in {handling[w], NoLease}
  PROVE  /\ Range(queue)' = Range(queue) /\ Leased' = Leased /\ Held' = Held
         /\ OnePlace'
<1>1. Range(queue') = Range(queue) /\ IsInjective(queue') /\ Held' = Held /\ HandsDistinct'
  BY DEF OnePlace, Held, HandsDistinct
<1>2. Leased' = Leased /\ LeasesDistinct'
  BY LeasesKept DEF OnePlace
<1>3. HandsFree'
  BY DEF OnePlace, HandsFree
<1>4. PlacesDisjoint'
  BY <1>1, <1>2 DEF OnePlace, PlacesDisjoint
<1> QED BY <1>1, <1>2, <1>3, <1>4 DEF OnePlace

-----------------------------------------------------------------------------
(***************************************************************************)
(* What any step may do to the places: nothing, or move one task along an  *)
(* edge of the ledger.                                                     *)
(***************************************************************************)
WaitingKept == Range(queue)' = Range(queue)
LeasedKept == Leased' = Leased
HeldKept == Held' = Held

MovesNone ==
    WaitingKept /\ LeasedKept /\ HeldKept /\ UNCHANGED <<fresh, dlq, reviving, done, lost>>

MovesOne(t) ==
    \/ /\ t \in fresh /\ fresh' = fresh \ {t} /\ Range(queue)' = Range(queue) \cup {t}
       /\ LeasedKept /\ HeldKept /\ UNCHANGED <<dlq, reviving, done, lost>>
    \/ /\ t \in Range(queue) /\ Range(queue)' = Range(queue) \ {t} /\ Leased' = Leased \cup {t}
       /\ HeldKept /\ UNCHANGED <<fresh, dlq, reviving, done, lost>>
    \/ /\ t \in Leased /\ Leased' = Leased \ {t} /\ done' = done \cup {t}
       /\ WaitingKept /\ HeldKept /\ UNCHANGED <<fresh, dlq, reviving, lost>>
    \/ /\ t \in Leased /\ Leased' = Leased \ {t} /\ dlq' = dlq \cup {t}
       /\ WaitingKept /\ HeldKept /\ UNCHANGED <<fresh, reviving, done, lost>>
    \/ /\ t \in Leased /\ Leased' = Leased \ {t} /\ Held' = Held \cup {t}
       /\ WaitingKept /\ UNCHANGED <<fresh, dlq, reviving, done, lost>>
    \/ /\ t \in Held /\ Held' = Held \ {t} /\ Range(queue)' = Range(queue) \cup {t}
       /\ LeasedKept /\ UNCHANGED <<fresh, dlq, reviving, done, lost>>
    \/ /\ t \in dlq /\ dlq' = dlq \ {t} /\ reviving' = reviving \cup {t}
       /\ WaitingKept /\ LeasedKept /\ HeldKept /\ UNCHANGED <<fresh, done, lost>>
    \/ /\ t \in reviving /\ reviving' = reviving \ {t} /\ Range(queue)' = Range(queue) \cup {t}
       /\ LeasedKept /\ HeldKept /\ UNCHANGED <<fresh, dlq, done, lost>>
    \/ /\ t \in reviving /\ reviving' = reviving \ {t} /\ lost' = lost \cup {t}
       /\ WaitingKept /\ LeasedKept /\ HeldKept /\ UNCHANGED <<fresh, dlq, done>>

StepMoves == OnePlace' /\ (MovesNone \/ \E t \in Tasks : MovesOne(t))

\* Every step of a handler moves at most one task, between two places.
LEMMA HandlerStep ==
  ASSUME TypeOK, OnePlace, NEW w \in Workers, Handler(w)
  PROVE  StepMoves
<1> USE DEF WaitingKept, LeasedKept, HeldKept, calls
<1>1. CASE Reserve(w)
  BY <1>1, ReserveMoves DEF StepMoves, MovesOne
<1>2. CASE Heartbeat(w)
  <2>1. /\ DOMAIN activeLeases' = DOMAIN activeLeases
        /\ \A l \in DOMAIN activeLeases : activeLeases'[l].task = activeLeases[l].task
    BY <1>2 DEF Heartbeat, TypeOK, Lease
  <2> QED BY <1>2, <2>1, StayMoves DEF Heartbeat, StepMoves, MovesNone
<1>3. CASE Ack(w)
  <2>1. CASE Active(handling[w])
    BY <1>3, <2>1, AckMoves DEF StepMoves, MovesOne
  <2>2. CASE ~Active(handling[w])
    BY <1>3, <2>2, StayMoves DEF Ack, TypeOK, StepMoves, MovesNone
  <2> QED BY <2>1, <2>2
<1>4. ASSUME NEW delay \in Delays \cup {FailDelay}, Retry(w, delay) PROVE StepMoves
  <2> DEFINE l == handling[w]
             t == activeLeases[l].task
  <2>1. /\ l # NoLease /\ handling' = [handling EXCEPT ![w] = NoLease]
        /\ UNCHANGED <<queue, fresh, reviving, done, lost>>
    BY <1>4 DEF Retry
  <2>2. CASE ~Active(l)
    BY <1>4, <2>1, <2>2, StayMoves DEF Retry, TypeOK, StepMoves, MovesNone
  <2>3. CASE Active(l) /\ activeLeases[l].attempt + 1 > MaxAttempts[t]
    <3>1. activeLeases' = WithoutLease(l) /\ Bury(w, t)
      BY <1>4, <2>3 DEF Retry
    <3> QED BY <2>1, <2>3, <3>1, BuryMoves DEF StepMoves, MovesOne
  <2>4. CASE Active(l) /\ ~(activeLeases[l].attempt + 1 > MaxAttempts[t])
    <3>1. /\ activeLeases' = WithoutLease(l) /\ hand' = [hand EXCEPT ![w] = t]
          /\ UNCHANGED dlq
      BY <1>4, <2>4 DEF Retry
    <3>2. hand[w] = NoTask
      BY <2>1 DEF OnePlace, HandsFree
    <3> QED BY <2>1, <2>4, <3>1, <3>2, TakeMoves DEF StepMoves, MovesOne, Carriers
  <2> QED BY <2>2, <2>3, <2>4
<1>5. ASSUME NEW retryable \in BOOLEAN, FailLookup(w, retryable) PROVE StepMoves
  BY <1>5, StayMoves DEF FailLookup, TypeOK, StepMoves, MovesNone
<1>6. CASE FailBury(w)
  <2>1. CASE Active(handling[w])
    <3>1. /\ activeLeases' = WithoutLease(handling[w])
          /\ Bury(w, activeLeases[handling[w]].task)
          /\ handling' = [handling EXCEPT ![w] = NoLease]
          /\ UNCHANGED <<queue, fresh, reviving, done, lost>>
      BY <1>6, <2>1 DEF FailBury
    <3> QED BY <2>1, <3>1, BuryMoves DEF StepMoves, MovesOne
  <2>2. CASE ~Active(handling[w])
    BY <1>6, <2>2, StayMoves DEF FailBury, TypeOK, StepMoves, MovesNone
  <2> QED BY <2>1, <2>2
<1>7. CASE Abandon(w)
  BY <1>7, StayMoves DEF Abandon, TypeOK, StepMoves, MovesNone
<1> QED BY <1>1, <1>2, <1>3, <1>4, <1>5, <1>6, <1>7 DEF Handler

\* So does every step of the system.
LEMMA AnyStep ==
  ASSUME TypeOK, OnePlace, [Next]_vars
  PROVE  StepMoves
<1> USE DEF WaitingKept, LeasedKept, HeldKept, calls
<1>1. ASSUME NEW t \in Tasks, Enqueue(t) PROVE StepMoves
  BY <1>1, EnqueueMoves DEF StepMoves, MovesOne
<1>2. ASSUME NEW t \in Tasks, DlqRemove(t) PROVE StepMoves
  BY <1>2, DlqRemoveMoves DEF StepMoves, MovesOne
<1>3. ASSUME NEW t \in Tasks, DlqEnqueue(t) PROVE StepMoves
  BY <1>3, DlqEnqueueMoves DEF StepMoves, MovesOne
<1>4. ASSUME NEW w \in Workers, Handler(w) PROVE StepMoves
  BY <1>4, HandlerStep
<1>5. ASSUME NEW c \in Carriers, Requeue(c) PROVE StepMoves
  BY <1>5, RequeueMoves DEF StepMoves, MovesOne
<1>6. CASE ReclaimScan
  BY <1>6, StayMoves DEF ReclaimScan, TypeOK, StepMoves, MovesNone
<1>7. ASSUME NEW l \in LeaseIds, ReclaimTake(l) PROVE StepMoves
  <2>1. CASE Active(l)
    <3>1. /\ Reclaimer \in Carriers /\ Reclaimer \notin Workers
          /\ hand[Reclaimer] = NoTask /\ activeLeases' = WithoutLease(l)
          /\ hand' = [hand EXCEPT ![Reclaimer] = activeLeases[l].task]
          /\ UNCHANGED <<handling, queue, fresh, dlq, reviving, done, lost>>
      BY <1>7, <2>1, QueueAssumption DEF ReclaimTake, Carriers, HasTask
    <3> QED BY <2>1, <3>1, TakeMoves DEF StepMoves, MovesOne
  <2>2. CASE ~Active(l)
    BY <1>7, <2>2, StayMoves DEF ReclaimTake, TypeOK, StepMoves, MovesNone
  <2> QED BY <2>1, <2>2
<1>8. CASE Tick
  <2>1. /\ DOMAIN activeLeases' = DOMAIN activeLeases
        /\ \A l \in DOMAIN activeLeases : activeLeases'[l].task = activeLeases[l].task
    BY <1>8 DEF Tick, TypeOK, Lease
  <2> QED BY <1>8, <2>1, StayMoves DEF Tick, StepMoves, MovesNone
<1>9. CASE UNCHANGED vars
  BY <1>9, StayMoves DEF vars, StepMoves, MovesNone
<1> QED
  BY <1>1, <1>2, <1>3, <1>4, <1>5, <1>6, <1>7, <1>8, <1>9 DEF Next

\* Initially every task is new.
LEMMA OnePlaceInit == Init => OnePlace
BY QueueAssumption DEF Init, OnePlace, LeasesDistinct, HandsDistinct, HandsFree,
   PlacesDisjoint, Leased, Held, Range, IsInjective

\* No task is ever in two places: whatever way the removals of ack, retry, fail
\* and reclaim race, one of them gets the task (memory.rs 142-255).
THEOREM OnePlaceAlways == Spec => []OnePlace
<1>1. OnePlace /\ TypeOK /\ [Next]_vars => OnePlace'
  BY AnyStep DEF StepMoves
<1> QED BY <1>1, OnePlaceInit, TypeCorrect, PTL DEF Spec

-----------------------------------------------------------------------------
(***************************************************************************)
(* The queue implements the ledger.                                        *)
(***************************************************************************)

\* The refinement mapping reads a task's place off the set it is in.
LEMMA PlaceOf ==
  ASSUME PlacesDisjoint, NEW t \in Tasks
  PROVE  /\ t \in fresh => place[t] = "new"
         /\ t \in Range(queue) => place[t] = "waiting"
         /\ t \in Leased => place[t] = "leased"
         /\ t \in Held => place[t] = "returning"
         /\ t \in dlq => place[t] = "dead"
         /\ t \in reviving => place[t] = "reviving"
         /\ t \in done => place[t] = "done"
         /\ t \in lost => place[t] = "lost"
BY DEF place, PlacesDisjoint

\* The same of the next state.
LEMMA PlaceOfNext ==
  ASSUME PlacesDisjoint', NEW t \in Tasks
  PROVE  /\ t \in Range(queue)' => place'[t] = "waiting"
         /\ t \in Leased' => place'[t] = "leased"
         /\ t \in Held' => place'[t] = "returning"
         /\ t \in dlq' => place'[t] = "dead"
         /\ t \in reviving' => place'[t] = "reviving"
         /\ t \in done' => place'[t] = "done"
         /\ t \in lost' => place'[t] = "lost"
BY DEF place, PlacesDisjoint

\* A task none of whose memberships change stays where it is.
LEMMA PlaceKept ==
  ASSUME NEW t \in Tasks,
         t \in fresh <=> t \in fresh', t \in Range(queue) <=> t \in Range(queue)',
         t \in Leased <=> t \in Leased', t \in Held <=> t \in Held',
         t \in dlq <=> t \in dlq', t \in reviving <=> t \in reviving',
         t \in done <=> t \in done'
  PROVE  place'[t] = place[t]
BY DEF place

\* A step that moves one task along an edge of the ledger is a step of the ledger.
LEMMA LedgerMove ==
  ASSUME NEW t \in Tasks, NEW to, <<place[t], to>> \in Ledger!Moves, to \in Ledger!Places,
         place'[t] = to, \A u \in Tasks \ {t} : place'[u] = place[u]
  PROVE  Ledger!Next
<1>1. place = [u \in Tasks |-> place[u]] /\ place' = [u \in Tasks |-> place'[u]]
  BY DEF place
<1>2. place' = [place EXCEPT ![t] = to]
  BY <1>1
<1> QED BY <1>2 DEF Ledger!Next, Ledger!Move

\* The moves of the queue's steps are edges of the ledger.
LEMMA LedgerStep ==
  ASSUME OnePlace, StepMoves
  PROVE  [Ledger!Next]_place
<1> USE DEF WaitingKept, LeasedKept, HeldKept, Ledger!Moves, Ledger!Places
<1>1. CASE MovesNone
  <2>1. \A u \in Tasks : place'[u] = place[u]
    BY <1>1, PlaceKept DEF MovesNone
  <2> QED BY <2>1 DEF place
<1>2. ASSUME NEW t \in Tasks, MovesOne(t) PROVE Ledger!Next
  <2>1. \A u \in Tasks \ {t} : place'[u] = place[u]
    BY <1>2, PlaceKept DEF MovesOne
  <2>2. PlacesDisjoint /\ PlacesDisjoint'
    BY DEF OnePlace, StepMoves
  <2>3. \/ place[t] = "new" /\ place'[t] = "waiting"
        \/ place[t] = "waiting" /\ place'[t] = "leased"
        \/ place[t] = "leased" /\ place'[t] = "done"
        \/ place[t] = "leased" /\ place'[t] = "dead"
        \/ place[t] = "leased" /\ place'[t] = "returning"
        \/ place[t] = "returning" /\ place'[t] = "waiting"
        \/ place[t] = "dead" /\ place'[t] = "reviving"
        \/ place[t] = "reviving" /\ place'[t] = "waiting"
        \/ place[t] = "reviving" /\ place'[t] = "lost"
    BY <1>2, <2>2, PlaceOf, PlaceOfNext DEF MovesOne
  <2> QED BY <2>1, <2>3, LedgerMove
<1> QED BY <1>1, <1>2 DEF StepMoves

\* The queue's initial states map to the ledger's.
LEMMA LedgerInit == Init => Ledger!Init
<1> SUFFICES ASSUME Init PROVE Ledger!Init
  OBVIOUS
<1>1. \A t \in Tasks : place[t] = "new"
  BY OnePlaceInit, PlaceOf DEF Init, OnePlace
<1>2. place = [t \in Tasks |-> place[t]]
  BY DEF place
<1> QED BY <1>1, <1>2 DEF Ledger!Init

\* A task moves only along the edges of the ledger: it is completed at most
\* once and for good, and only a revival can lose it.
THEOREM LedgerImplemented == Spec => ImplementsLedger
<1>1. TypeOK /\ OnePlace /\ [Next]_vars => [Ledger!Next]_place
  BY AnyStep, LedgerStep
<1> QED BY <1>1, LedgerInit, TypeCorrect, OnePlaceAlways, PTL
     DEF Spec, ImplementsLedger, Ledger!Spec

-----------------------------------------------------------------------------
(***************************************************************************)
(* First come, first served.                                               *)
(***************************************************************************)

\* In the sequence s, a stands before b.
Before(s, a, b) == \E p, q \in DOMAIN s : p < q /\ s[p] = a /\ s[q] = b

\* What has not been handed out yet is in the queue, is available, and stands in
\* the order in which it came; what was handed out before may be anywhere.
Recorded ==
    arrived \in Seq(Tasks) /\ IsInjective(arrived) /\ Range(arrived) = Tasks \ fresh
Behind == Leased \cup Held \cup dlq \cup reviving \cup done \cup lost
Served == served \cap fresh = {} /\ Behind \subseteq served
Pending ==
    \A t \in Tasks \ served : availableIn[t] = 0 /\ (t \notin fresh => t \in Range(queue))
InLine ==
    \A i, j \in DOMAIN arrived :
        i < j /\ arrived[i] \notin served /\ arrived[j] \notin served =>
            Before(queue, arrived[i], arrived[j])

\* The inductive invariant.
DeliveryInv == Recorded /\ Served /\ Pending /\ InLine /\ FirstDeliveryInOrder

\* What the three writes to a deque do to the order of its tasks.
LEMMA AppendInLine ==
  ASSUME NEW S, NEW s \in Seq(S), NEW e \in S
  PROVE  /\ \A a, b : Before(s, a, b) => Before(Append(s, e), a, b)
         /\ \A a \in Range(s) : Before(Append(s, e), a, e)
<1>1. /\ DOMAIN Append(s, e) = 1 .. Len(s) + 1
      /\ \A i \in 1 .. Len(s) : Append(s, e)[i] = s[i]
      /\ Append(s, e)[Len(s) + 1] = e
      /\ Len(s) \in Nat /\ DOMAIN s = 1 .. Len(s)
  BY AppendProperties, LenProperties
<1> DEFINE r == Append(s, e)
<1> HIDE DEF r
<1>2. ASSUME NEW a, NEW b, Before(s, a, b) PROVE Before(r, a, b)
  <2>1. PICK p, q \in DOMAIN s : p < q /\ s[p] = a /\ s[q] = b
    BY <1>2 DEF Before
  <2>2. p \in DOMAIN r /\ q \in DOMAIN r /\ r[p] = a /\ r[q] = b
    BY <1>1, <2>1 DEF r
  <2> QED BY <2>1, <2>2 DEF Before
<1>3. ASSUME NEW a \in Range(s) PROVE Before(r, a, e)
  <2>1. PICK p \in DOMAIN s : s[p] = a
    BY DEF Range
  <2>2. p \in DOMAIN r /\ Len(s) + 1 \in DOMAIN r /\ p < Len(s) + 1 /\ r[p] = a /\ r[Len(s) + 1] = e
    BY <1>1, <2>1 DEF r
  <2> QED BY <2>2 DEF Before
<1> QED BY <1>2, <1>3 DEF r

LEMMA PushFrontInLine ==
  ASSUME NEW S, NEW s \in Seq(S), NEW e \in S, NEW a, NEW b, Before(s, a, b)
  PROVE  Before(<<e>> \o s, a, b)
<1> DEFINE r == <<e>> \o s
<1>1. /\ DOMAIN r = 1 .. Len(s) + 1
      /\ \A i \in 1 .. Len(s) + 1 : r[i] = IF i = 1 THEN e ELSE s[i - 1]
      /\ Len(s) \in Nat /\ DOMAIN s = 1 .. Len(s)
  <2>1. <<e>> \in Seq(S) /\ Len(<<e>>) = 1 /\ <<e>>[1] = e
    OBVIOUS
  <2> QED BY <2>1, ConcatProperties, LenProperties
<1> HIDE DEF r
<1>2. PICK p, q \in DOMAIN s : p < q /\ s[p] = a /\ s[q] = b
  BY DEF Before
<1>3. /\ p + 1 \in DOMAIN r /\ q + 1 \in DOMAIN r /\ p + 1 < q + 1
      /\ r[p + 1] = a /\ r[q + 1] = b
  BY <1>1, <1>2
<1>4. Before(r, a, b)
  BY <1>3 DEF Before
<1> QED BY <1>4 DEF r

LEMMA WithoutInLine ==
  ASSUME NEW S, NEW s \in Seq(S), NEW i \in DOMAIN s, NEW a, NEW b, Before(s, a, b),
         a # s[i], b # s[i]
  PROVE  Before(Without(s, i), a, b)
<1> DEFINE r == Without(s, i)
           at(p) == IF p < i THEN p ELSE p - 1
<1>1. /\ DOMAIN r = 1 .. Len(s) - 1
      /\ \A k \in DOMAIN r : r[k] = IF k < i THEN s[k] ELSE s[k + 1]
      /\ Len(s) \in Nat /\ DOMAIN s = 1 .. Len(s) /\ i \in 1 .. Len(s)
  BY WithoutPlaces
<1> HIDE DEF r
<1>2. PICK p, q \in DOMAIN s : p < q /\ s[p] = a /\ s[q] = b
  BY DEF Before
<1>3. p # i /\ q # i
  BY <1>2
<1>4. /\ at(p) \in DOMAIN r /\ at(q) \in DOMAIN r /\ at(p) < at(q)
  BY <1>1, <1>2, <1>3
<1>5. r[at(p)] = a /\ r[at(q)] = b
  BY <1>1, <1>2, <1>3, <1>4
<1>6. Before(r, a, b)
  BY <1>4, <1>5 DEF Before
<1> QED BY <1>6 DEF r

\* What a step does to the queue, and to the tasks that nobody has leased.
QueueMoves ==
    \/ queue' = queue /\ fresh' = fresh
    \/ \E t \in fresh : queue' = Append(queue, t) /\ fresh' = fresh \ {t}
    \/ \E t \in Tasks \cap (Held \cup reviving) :
          queue' \in {Append(queue, t), <<t>> \o queue} /\ fresh' = fresh
    \/ \E w \in Workers, i \in DOMAIN queue :
          /\ IsNext(w, i) /\ queue' = Without(queue, i)
          /\ queue[i] \in Leased' /\ fresh' = fresh
StillAvailable == \A t \in Tasks : t \notin Leased /\ availableIn[t] = 0 => availableIn'[t] = 0

LEMMA HandlerQueueStep ==
  ASSUME TypeOK, OnePlace, NEW w \in Workers, Handler(w)
  PROVE  QueueMoves /\ StillAvailable
<1> USE DEF calls
<1>1. CASE Reserve(w)
  <2>1. PICK i \in DOMAIN queue, l \in LeaseIds \ KnownLeases :
          /\ IsNext(w, i) /\ queue' = Without(queue, i)
          /\ activeLeases' =
                [k \in DOMAIN activeLeases \cup {l} |->
                   IF k = l THEN [task |-> queue[i], attempt |-> FirstAttempt,
                                  ttl |-> LeaseDuration]
                   ELSE activeLeases[k]]
    BY <1>1 DEF Reserve
  <2>2. l \in DOMAIN activeLeases' /\ activeLeases'[l].task = queue[i]
    BY <2>1
  <2>3. queue[i] \in Leased'
    BY <2>2 DEF Leased
  <2>4. availableIn' = availableIn /\ fresh' = fresh
    BY <1>1 DEF Reserve
  <2> QED BY <2>1, <2>3, <2>4 DEF QueueMoves, StillAvailable
<1>2. CASE Heartbeat(w) \/ Ack(w) \/ Abandon(w) \/ \E retryable \in BOOLEAN : FailLookup(w, retryable)
  BY <1>2 DEF Heartbeat, Ack, Abandon, FailLookup, QueueMoves, StillAvailable
<1>3. CASE FailBury(w)
  BY <1>3 DEF FailBury, Bury, QueueMoves, StillAvailable
<1>4. ASSUME NEW delay \in Delays \cup {FailDelay}, Retry(w, delay)
      PROVE  QueueMoves /\ StillAvailable
  <2> DEFINE l == handling[w]
             t == activeLeases[l].task
  <2>1. queue' = queue /\ fresh' = fresh
    BY <1>4 DEF Retry
  <2>2. CASE ~Active(l) \/ activeLeases[l].attempt + 1 > MaxAttempts[t]
    BY <1>4, <2>1, <2>2 DEF Retry, Bury, QueueMoves, StillAvailable
  <2>3. CASE Active(l) /\ ~(activeLeases[l].attempt + 1 > MaxAttempts[t])
    <3>1. availableIn' = [availableIn EXCEPT ![t] = IF delay > 1 THEN delay ELSE 1]
      BY <1>4, <2>3 DEF Retry
    <3>2. t \in Leased
      BY <2>3 DEF Active, Leased
    <3> HIDE DEF t
    <3>3. \A u \in Tasks : u # t => availableIn'[u] = availableIn[u]
      BY <3>1 DEF TypeOK
    <3> QED BY <2>1, <3>2, <3>3 DEF QueueMoves, StillAvailable
  <2> QED BY <2>2, <2>3
<1> QED BY <1>1, <1>2, <1>3, <1>4 DEF Handler

LEMMA QueueStep ==
  ASSUME TypeOK, OnePlace, [Next]_vars
  PROVE  QueueMoves /\ StillAvailable
<1> USE DEF calls
<1>1. ASSUME NEW t \in Tasks, Enqueue(t) PROVE QueueMoves /\ StillAvailable
  BY <1>1 DEF Enqueue, QueueMoves, StillAvailable
<1>2. ASSUME NEW t \in Tasks, DlqRemove(t) PROVE QueueMoves /\ StillAvailable
  BY <1>2 DEF DlqRemove, QueueMoves, StillAvailable
<1>3. ASSUME NEW t \in Tasks, DlqEnqueue(t) PROVE QueueMoves /\ StillAvailable
  <2>1. StillAvailable
    BY <1>3 DEF DlqEnqueue, StillAvailable, TypeOK
  <2>2. QueueMoves
    BY <1>3 DEF DlqEnqueue, QueueMoves
  <2> QED BY <2>1, <2>2
<1>4. ASSUME NEW w \in Workers, Handler(w) PROVE QueueMoves /\ StillAvailable
  BY <1>4, HandlerQueueStep
<1>5. ASSUME NEW c \in Carriers, Requeue(c) PROVE QueueMoves /\ StillAvailable
  <2>1. hand[c] \in Tasks \cap Held
    BY <1>5 DEF Requeue, HasTask, TypeOK, Held
  <2>2. queue' = <<hand[c]>> \o queue /\ fresh' = fresh /\ availableIn' = availableIn
    BY <1>5 DEF Requeue
  <2> QED BY <2>1, <2>2 DEF QueueMoves, StillAvailable
<1>6. CASE ReclaimScan \/ \E l \in LeaseIds : ReclaimTake(l)
  BY <1>6 DEF ReclaimScan, ReclaimTake, QueueMoves, StillAvailable
<1>7. CASE Tick
  BY <1>7 DEF Tick, TypeOK, QueueMoves, StillAvailable
<1>8. CASE UNCHANGED vars
  BY <1>8 DEF vars, QueueMoves, StillAvailable
<1> QED BY <1>1, <1>2, <1>3, <1>4, <1>5, <1>6, <1>7, <1>8 DEF Next

\* The task reserve takes is the first of its key that has not been handed out:
\* one that came before it is available, and would have been found first.
LEMMA FirstTaken ==
  ASSUME TypeOK, OnePlace, DeliveryInv, NEW w \in Workers, NEW i \in DOMAIN queue, IsNext(w, i),
         NEW a \in Tasks \ served, Before(queue, a, queue[i]),
         TypeOf[a] = TypeOf[queue[i]], PriorityOf[a] = PriorityOf[queue[i]]
  PROVE  FALSE
<1>1. DOMAIN queue = 1 .. Len(queue) /\ Len(queue) \in Nat
  BY LenProperties DEF TypeOK
<1>2. PICK p \in DOMAIN queue : p < i /\ queue[p] = a
  BY DEF Before, OnePlace, IsInjective
<1>3. i \in Candidates(w) /\ \A j \in Candidates(w) : Precedes(i, j)
  BY DEF IsNext
<1>4. p \in Candidates(w)
  BY <1>2, <1>3 DEF Candidates, DeliveryInv, Pending
<1>5. KeyRank(queue[p]) = KeyRank(queue[i])
  BY <1>2 DEF KeyRank
<1>6. KeyRank(queue[i]) \in Int
  <2>1. queue[i] \in Tasks
    BY <1>1, ElementOfSeq DEF TypeOK
  <2>2. PriorityRank[PriorityOf[queue[i]]] \in Int
    BY <2>1, QueueAssumption DEF PriorityRank
  <2>3. ScanRank[TypeOf[queue[i]]] \in Int
    BY <1>3 DEF Candidates, ScanRank
  <2> QED BY <2>2, <2>3 DEF KeyRank
<1> QED BY <1>1, <1>2, <1>3, <1>4, <1>5, <1>6 DEF Precedes

LEMMA DeliveryStarts == HInit => DeliveryInv
BY OnePlaceInit, EmptySeq DEF HInit, Init, DeliveryInv, Recorded, Served, Pending, InLine,
   FirstDeliveryInOrder, Behind, Leased, Held, Range, IsInjective

LEMMA DeliveryStep ==
  ASSUME TypeOK, OnePlace, DeliveryInv, [Next]_vars, Record
  PROVE  DeliveryInv'
<1>1. QueueMoves /\ StillAvailable /\ StepMoves
  BY QueueStep, AnyStep
<1>2. served' = served \cup Leased'
  BY DEF Record
<1>3. /\ queue \in Seq(Tasks) /\ arrived \in Seq(Tasks) /\ DOMAIN arrived = 1 .. Len(arrived)
      /\ Len(arrived) \in Nat /\ fresh \subseteq Tasks
      /\ \A i \in DOMAIN arrived : arrived[i] \in Tasks \ fresh
  BY LenProperties DEF TypeOK, DeliveryInv, Recorded, Range
<1>4. Behind \subseteq served /\ served \cap fresh = {}
  BY DEF Behind, DeliveryInv, Served
<1>5. OnePlace'
  BY <1>1 DEF StepMoves
<1>6. Behind' \subseteq served'
  BY <1>1, <1>2, <1>4 DEF StepMoves, MovesNone, MovesOne, LeasedKept, HeldKept, Behind
<1>7. \A t \in Tasks \ served' : t \in Tasks \ served /\ availableIn'[t] = 0
  BY <1>1, <1>2, <1>4 DEF StillAvailable, DeliveryInv, Pending, Behind
<1>8. CASE fresh' = fresh
  <2>1. arrived' = arrived
    BY <1>8 DEF Record
  <2>2. Recorded'
    BY <1>8, <2>1 DEF DeliveryInv, Recorded
  <2>3. served' \cap fresh' = {}
    BY <1>2, <1>4, <1>5, <1>8 DEF OnePlace, PlacesDisjoint
  <2>4. \/ queue' = queue
        \/ \E t \in Tasks \cap (Held \cup reviving) : queue' \in {Append(queue, t), <<t>> \o queue}
        \/ \E w \in Workers, i \in DOMAIN queue :
              IsNext(w, i) /\ queue' = Without(queue, i) /\ queue[i] \in Leased'
    BY <1>1, <1>8 DEF QueueMoves
  \* The queue keeps what was not handed out, in its order.
  <2>5. ASSUME NEW a, NEW b, Before(queue, a, b), a \notin served', b \notin served'
        PROVE  Before(queue', a, b)
    <3>1. CASE queue' = queue
      BY <2>5, <3>1
    <3>2. ASSUME NEW t \in Tasks, queue' \in {Append(queue, t), <<t>> \o queue}
          PROVE  Before(queue', a, b)
      BY <1>3, <2>5, <3>2, AppendInLine, PushFrontInLine
    <3>3. ASSUME NEW i \in DOMAIN queue, queue' = Without(queue, i), queue[i] \in Leased'
          PROVE  Before(queue', a, b)
      <4>1. a # queue[i] /\ b # queue[i]
        BY <1>2, <2>5, <3>3
      <4> QED BY <1>3, <2>5, <3>3, <4>1, WithoutInLine
    <3> QED BY <2>4, <3>1, <3>2, <3>3
  <2>6. ASSUME NEW t \in Range(queue), t \notin served' PROVE t \in Range(queue)'
    <3>1. CASE queue' = queue
      BY <2>6, <3>1
    <3>2. ASSUME NEW u \in Tasks, queue' \in {Append(queue, u), <<u>> \o queue}
          PROVE  t \in Range(queue)'
      <4>1. CASE queue' = Append(queue, u)
        BY <1>3, <2>6, <4>1, AppendFacts
      <4>2. CASE queue' = <<u>> \o queue
        BY <1>3, <2>6, <4>2, PushFrontFacts
      <4> QED BY <3>2, <4>1, <4>2
    <3>3. ASSUME NEW i \in DOMAIN queue, queue' = Without(queue, i), queue[i] \in Leased'
          PROVE  t \in Range(queue)'
      <4>1. t # queue[i]
        BY <1>2, <2>6, <3>3
      <4> QED BY <1>3, <2>6, <3>3, <4>1, WithoutFacts
    <3> QED BY <2>4, <3>1, <3>2, <3>3
  <2>7. Served' /\ Pending' /\ InLine'
    <3>1. Served'
      BY <1>6, <2>3 DEF Served, Behind
    <3>2. Pending'
      BY <1>7, <1>8, <2>6 DEF Pending, DeliveryInv
    <3>3. InLine'
      BY <1>2, <2>1, <2>5 DEF InLine, DeliveryInv
    <3> QED BY <3>1, <3>2, <3>3
  \* A task that is handed out for the first time.
  <2>8. ASSUME NEW i \in DOMAIN arrived, NEW j \in DOMAIN arrived, i < j,
               TypeOf[arrived[i]] = TypeOf[arrived[j]],
               PriorityOf[arrived[i]] = PriorityOf[arrived[j]],
               arrived[j] \in served', arrived[i] \notin served'
        PROVE  FALSE
    <3>1. arrived[j] \notin served /\ arrived[j] \in Leased' /\ arrived[i] \notin served
      BY <1>2, <2>8 DEF DeliveryInv, FirstDeliveryInOrder
    <3>2. Before(queue, arrived[i], arrived[j])
      BY <2>8, <3>1 DEF DeliveryInv, InLine
    <3>3. arrived[j] \notin Leased /\ arrived[j] \in Range(queue)
      BY <1>3, <1>4, <3>1 DEF Behind, DeliveryInv, Pending
    <3>4. arrived[j] \notin Range(queue)'
      BY <1>5, <3>1 DEF OnePlace, PlacesDisjoint
    <3>5. PICK w \in Workers, k \in DOMAIN queue :
            IsNext(w, k) /\ queue' = Without(queue, k) /\ queue[k] \in Leased'
      <4>1. \A u \in Tasks : Range(queue) \subseteq Range(Append(queue, u))
                             /\ Range(queue) \subseteq Range(<<u>> \o queue)
        <5>1. \A u \in Tasks : Range(queue) \subseteq Range(Append(queue, u))
          BY <1>3, AppendFacts
        <5>2. \A u \in Tasks : Range(queue) \subseteq Range(<<u>> \o queue)
          BY <1>3, PushFrontFacts
        <5> QED BY <5>1, <5>2
      <4> QED BY <2>4, <3>3, <3>4, <4>1
    <3>6. arrived[j] = queue[k]
      BY <1>3, <3>3, <3>4, <3>5, WithoutFacts
    <3>7. arrived[i] \in Tasks \ served
      BY <1>3, <3>1
    <3> QED BY <2>8, <3>2, <3>5, <3>6, <3>7, FirstTaken
  <2>9. FirstDeliveryInOrder'
    BY <2>1, <2>8 DEF FirstDeliveryInOrder
  <2> QED BY <2>2, <2>7, <2>9 DEF DeliveryInv
<1>9. ASSUME NEW t \in fresh, queue' = Append(queue, t), fresh' = fresh \ {t}
      PROVE  DeliveryInv'
  <2>1. arrived' = Append(arrived, t)
    <3>1. \E u \in fresh : u \notin fresh'
      BY <1>9
    <3>2. (CHOOSE u \in fresh : u \notin fresh') = t
      BY <1>9
    <3> QED BY <3>1, <3>2 DEF Record
  <2>2. t \in Tasks /\ t \notin served /\ t \notin Range(arrived) /\ t \notin Range(queue)
    BY <1>3, <1>4 DEF DeliveryInv, Recorded, OnePlace, PlacesDisjoint
  <2>3. Recorded'
    <3>1. /\ Append(arrived, t) \in Seq(Tasks) /\ Range(Append(arrived, t)) = Range(arrived) \cup {t}
          /\ IsInjective(Append(arrived, t))
      BY <1>3, <2>2, AppendFacts DEF DeliveryInv, Recorded
    <3>2. Range(arrived) \cup {t} = Tasks \ fresh'
      BY <1>9, <2>2 DEF DeliveryInv, Recorded
    <3> QED BY <2>1, <3>1, <3>2 DEF Recorded
  <2>4. Leased' = Leased /\ served' = served
    <3>1. Range(queue)' = Range(queue) \cup {t}
      BY <1>3, <1>9, <2>2, AppendFacts
    <3>2. Leased' \subseteq Leased
      BY <1>1, <1>9, <2>2, <3>1 DEF StepMoves, MovesNone, MovesOne, LeasedKept, WaitingKept
    <3>3. Leased \subseteq served
      BY <1>4 DEF Behind
    <3>4. served' = served
      BY <1>2, <3>2, <3>3
    <3>5. Leased' = Leased
      BY <1>1, <1>9, <2>2, <3>1 DEF StepMoves, MovesNone, MovesOne, LeasedKept, WaitingKept
    <3> QED BY <3>4, <3>5
  <2>5. Served'
    BY <1>4, <1>6, <1>9, <2>4 DEF Served, Behind
  <2>6. Pending'
    <3>1. Range(queue)' = Range(queue) \cup {t}
      BY <1>3, <1>9, <2>2, AppendFacts
    <3> QED BY <1>7, <1>9, <3>1 DEF Pending, DeliveryInv
  <2>7. /\ DOMAIN arrived' = 1 .. Len(arrived) + 1
        /\ \A i \in 1 .. Len(arrived) : arrived'[i] = arrived[i]
        /\ arrived'[Len(arrived) + 1] = t
    BY <1>3, <2>1, <2>2, AppendProperties, LenProperties
  <2>8. InLine'
    <3> SUFFICES ASSUME NEW i \in DOMAIN arrived', NEW j \in DOMAIN arrived', i < j,
                        arrived'[i] \notin served, arrived'[j] \notin served
                 PROVE  Before(queue', arrived'[i], arrived'[j])
      BY <2>4 DEF InLine
    <3>1. i \in DOMAIN arrived /\ arrived'[i] = arrived[i]
      BY <1>3, <2>7
    <3>2. CASE j \in DOMAIN arrived
      <4>1. Before(queue, arrived[i], arrived[j]) /\ arrived'[j] = arrived[j]
        BY <1>3, <2>7, <3>1, <3>2 DEF DeliveryInv, InLine
      <4> QED BY <1>3, <1>9, <2>2, <3>1, <4>1, AppendInLine
    <3>3. CASE j = Len(arrived) + 1
      <4>1. arrived[i] \in Range(queue)
        BY <1>3, <3>1 DEF DeliveryInv, Pending
      <4> QED BY <1>3, <1>9, <2>2, <2>7, <3>1, <3>3, <4>1, AppendInLine
    <3> QED BY <1>3, <2>7, <3>2, <3>3
  <2>9. FirstDeliveryInOrder'
    <3> SUFFICES ASSUME NEW i \in DOMAIN arrived', NEW j \in DOMAIN arrived', i < j,
                        TypeOf[arrived'[i]] = TypeOf[arrived'[j]],
                        PriorityOf[arrived'[i]] = PriorityOf[arrived'[j]],
                        arrived'[j] \in served
                 PROVE  arrived'[i] \in served
      BY <2>4 DEF FirstDeliveryInOrder
    <3>1. j \in DOMAIN arrived /\ i \in DOMAIN arrived
      BY <1>3, <2>2, <2>7
    <3>2. arrived'[j] = arrived[j] /\ arrived'[i] = arrived[i]
      BY <1>3, <2>7, <3>1
    <3> QED BY <3>1, <3>2 DEF DeliveryInv, FirstDeliveryInOrder
  <2> QED BY <2>3, <2>5, <2>6, <2>8, <2>9 DEF DeliveryInv
<1> QED BY <1>1, <1>8, <1>9 DEF QueueMoves

\* Within a type and priority tasks are handed out for the first time in the
\* order in which they were accepted, whatever is requeued, reclaimed or revived
\* meanwhile (memory.rs 57, 86-127, 185, 249).
THEOREM FirstDeliveryInOrderAlways == HSpec => []FirstDeliveryInOrder
<1>1. HInit => Init
  BY DEF HInit
<1>2. [HNext]_<<vars, history>> => [Next]_vars
  BY DEF HNext
<1>3. HSpec => Spec
  BY <1>1, <1>2, PTL DEF HSpec, Spec
<1>4. TypeOK /\ OnePlace /\ DeliveryInv /\ [HNext]_<<vars, history>> => DeliveryInv'
  <2> SUFFICES ASSUME TypeOK, OnePlace, DeliveryInv, [HNext]_<<vars, history>> PROVE DeliveryInv'
    OBVIOUS
  <2>1. CASE HNext
    BY <2>1, DeliveryStep DEF HNext
  <2>2. CASE UNCHANGED <<vars, history>>
    BY <2>2 DEF vars, history, DeliveryInv, Recorded, Served, Pending, InLine, Before,
       FirstDeliveryInOrder, Behind, Leased, Held
  <2> QED BY <2>1, <2>2
<1>5. DeliveryInv => FirstDeliveryInOrder
  BY DEF DeliveryInv
<1> QED BY <1>3, <1>4, <1>5, DeliveryStarts, TypeCorrect, OnePlaceAlways, PTL DEF HSpec

=============================================================================
