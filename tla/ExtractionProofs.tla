-------------------------- MODULE ExtractionProofs --------------------------
(***************************************************************************)
(* Proofs about Extraction: what a request may cost, that the calls a      *)
(* result reports are those that were made, and that a result that says it *)
(* is validated satisfies the schema of the request it answers, whichever  *)
(* way it came about, for all sets of requests, pages, schemas and answers *)
(* and all limits.                                                         *)
(***************************************************************************)
EXTENDS Extraction, FiniteSetTheorems, SequenceTheorems, WellFoundedInduction, TLAPS

Early == {"new", "queued", "fetching", "fetched", "context", "waiting"}

Holders == {r \in Requests : Holds(r) = 1}
Occupied(r) == req[r].batch /\ pc[r] \notin {"new", "queued", "done"}
Occupants == {r \in Requests : Occupied(r)}

\* The permits and the slots that are out are with the requests that hold them.
PermitInv == IsFiniteSet(Holders) /\ permits \in Nat /\ permits + Cardinality(Holders) = Permits
SlotInv == IsFiniteSet(Occupants) /\ slots \in Nat /\ slots + Cardinality(Occupants) = MaxConcurrency

\* How far a request is with its addresses.
FetchInv(r) ==
    /\ req[r] \in Kinds
    /\ at[r] \in 1 .. Len(req[r].urls) + 1
    /\ pc[r] \in {"new", "queued"} => at[r] = 1
    /\ pc[r] = "fetching" => at[r] = 1 \/ at[r] <= Len(req[r].urls)
    /\ pages[r] \in Seq(Range(PageOf))

\* What a request has cost.  The attempts of the first call are over when the
\* answer is repaired.
CostInv(r) ==
    /\ calls[r] \in 0 .. 2 /\ attempts[r] \in 0 .. MaxRetries + 1 /\ posts[r] \in Nat
    /\ pc[r] \in Early => calls[r] = 0 /\ attempts[r] = 0
    /\ calls[r] = 0 => posts[r] = 0
    /\ calls[r] = 1 => posts[r] <= MaxRetries + 1
    /\ calls[r] = 2 => posts[r] <= 2 * (MaxRetries + 1)
    /\ pc[r] = "generating" => calls[r] = 1 /\ attempts[r] <= MaxRetries /\ posts[r] <= attempts[r]
    /\ pc[r] = "repairing" =>
          calls[r] = 2 /\ attempts[r] <= MaxRetries /\ posts[r] <= MaxRetries + 1 + attempts[r]
    /\ pc[r] = "checked" => calls[r] = IF draft[r].repaired THEN 2 ELSE 1

\* An object or an array of them, and a result; one that says it is validated
\* satisfies the schema s.
Listed(d) == d = [array |-> d.array, items |-> d.items] /\ \E n \in Nat : DOMAIN d.items = 1 .. n
IsResult(x) ==
    x = [ok |-> TRUE, hit |-> x.hit, data |-> x.data, calls |-> x.calls, cited |-> x.cited,
         validated |-> x.validated]
Backed(x, s) == x.validated => s # NoSchema /\ Valid(x.data, s)

\* The answer that is checked, the result that is stored and the one returned.
CheckedInv(r) ==
    pc[r] = "checked" /\ req[r].schema # NoSchema =>
        Listed(draft[r].data) /\ Valid(draft[r].data, req[r].schema)
StoredInv(r) ==
    pc[r] \in {"storing", "inserting"} =>
        /\ IsResult(draft[r]) /\ draft[r].hit = FALSE /\ draft[r].calls = calls[r]
        /\ Backed(draft[r], req[r].schema)
Reported(r) ==
    IF out[r].hit
    THEN /\ calls[r] = 0
         /\ \E s \in Requests : s # r /\ pc[s] = "done" /\ calls[s] = out[r].calls
    ELSE calls[r] = out[r].calls
OutInv(r) ==
    /\ pc[r] # "done" => out[r] = Nothing
    /\ out[r] # Nothing /\ out[r].ok => Backed(out[r], req[r].schema) /\ Reported(r)

\* What is in the cache was stored by a request that is done, for its schema.
CacheInv ==
    \A k \in DOMAIN cache :
       /\ IsResult(cache[k]) /\ Backed(cache[k], k[2])
       /\ \E s \in Requests : pc[s] = "done" /\ calls[s] = cache[k].calls

Shape ==
    /\ pc \in [Requests -> Steps] /\ cancelled \in BOOLEAN
    /\ DOMAIN at = Requests /\ DOMAIN pages = Requests /\ DOMAIN attempts = Requests
    /\ DOMAIN posts = Requests /\ DOMAIN calls = Requests /\ DOMAIN draft = Requests
    /\ DOMAIN out = Requests

RequestInv(r) == FetchInv(r) /\ CostInv(r) /\ CheckedInv(r) /\ StoredInv(r) /\ OutInv(r)

\* The inductive invariant.
ExtractionInv ==
    Shape /\ PermitInv /\ SlotInv /\ CacheInv /\ \A r \in Requests : RequestInv(r)

-----------------------------------------------------------------------------
\* A set of naturals has a least element: the provers' form of induction.
LEMMA LeastElement ==
  ASSUME NEW T, T \subseteq Nat, T # {}
  PROVE  \E n \in T : \A m \in T : n <= m
<1> DEFINE Less == OpToRel(<, Nat)
<1>1. IsWellFoundedOn(Less, Nat)
  BY NatLessThanWellFounded
<1>2. \A m, n \in Nat : m < n => <<m, n>> \in Less
  BY DEF OpToRel
<1> HIDE DEF Less
<1>3. PICK n \in T : \A m \in T : ~(<<m, n>> \in Less)
  BY <1>1, WFMin
<1>4. \A m \in T : ~(m < n)
  BY <1>2, <1>3
<1> QED BY <1>3, <1>4

\* Of a set of the numbers from 1 to n, one is the k-th.
LEMMA KthElement ==
  ASSUME NEW n \in Nat, NEW S, S \subseteq 1 .. n, NEW k \in 1 .. Cardinality(S)
  PROVE  \E i \in S : Cardinality(S \cap 1 .. i) = k
<1> DEFINE Count(i) == Cardinality(S \cap 1 .. i)
           T == {i \in Nat : i <= n /\ Count(i) >= k}
<1>1. \A i \in Nat : IsFiniteSet(S \cap 1 .. i) /\ Count(i) \in Nat
  <2> SUFFICES ASSUME NEW i \in Nat PROVE IsFiniteSet(S \cap 1 .. i) /\ Count(i) \in Nat
    OBVIOUS
  <2>1. IsFiniteSet(1 .. i)
    BY FS_Interval
  <2>2. IsFiniteSet(S \cap 1 .. i)
    BY <2>1, FS_Subset
  <2> QED BY <2>2, FS_CardinalityType
<1>2. n \in T
  <2>1. S \cap 1 .. n = S
    OBVIOUS
  <2>2. Cardinality(S) \in Nat
    BY <1>1, <2>1
  <2>3. Count(n) >= k
    BY <2>1, <2>2
  <2> QED BY <2>3
<1>3. Count(0) = 0
  <2>1. S \cap 1 .. 0 = {}
    OBVIOUS
  <2> QED BY <2>1, FS_EmptySet
<1>4. PICK i \in T : \A m \in T : i <= m
  <2>1. T \subseteq Nat /\ T # {}
    BY <1>2
  <2> HIDE DEF T
  <2> QED BY <2>1, LeastElement
<1>5. k \in Nat /\ k >= 1
  <2>1. S \cap 1 .. n = S
    OBVIOUS
  <2>2. Cardinality(S) \in Nat
    BY <1>1, <2>1
  <2> QED BY <2>2
<1>6. i \in Nat /\ i <= n /\ i # 0 /\ Count(i) >= k
  <2>1. i \in Nat /\ i <= n /\ Count(i) >= k
    BY <1>4
  <2>2. i # 0
    <3> SUFFICES ASSUME i = 0 PROVE FALSE
      OBVIOUS
    <3>1. Count(0) >= k
      BY <2>1
    <3> HIDE DEF Count
    <3> QED BY <1>3, <1>5, <3>1
  <2> QED BY <2>1, <2>2
<1>7. i - 1 \in Nat /\ Count(i - 1) < k
  <2>1. i - 1 \in Nat /\ i - 1 <= n /\ i - 1 < i /\ Count(i - 1) \in Nat
    BY <1>1, <1>6
  <2>2. i - 1 \notin T
    BY <1>4, <1>6, <2>1
  <2>3. ~(Count(i - 1) >= k)
    BY <2>1, <2>2
  <2> HIDE DEF Count
  <2> QED BY <1>5, <2>1, <2>3
<1>8. i \in S
  <2> SUFFICES ASSUME i \notin S PROVE FALSE
    OBVIOUS
  <2>1. S \cap 1 .. i = S \cap 1 .. (i - 1)
    BY <1>6
  <2>2. Count(i) = Count(i - 1) /\ Count(i) \in Nat
    BY <1>1, <1>6, <2>1
  <2> HIDE DEF Count
  <2> QED BY <1>5, <1>6, <1>7, <2>2
<1>9. Count(i) = Count(i - 1) + 1 /\ Count(i - 1) \in Nat
  <2>1. S \cap 1 .. i = (S \cap 1 .. (i - 1)) \cup {i} /\ i \notin S \cap 1 .. (i - 1)
    BY <1>6, <1>8
  <2>2. Cardinality((S \cap 1 .. (i - 1)) \cup {i}) = Cardinality(S \cap 1 .. (i - 1)) + 1
    BY <1>1, <1>7, <2>1, FS_AddElement
  <2> QED BY <1>1, <1>7, <2>1, <2>2
<1>10. Count(i) = k
  <2> HIDE DEF Count
  <2> QED BY <1>5, <1>6, <1>7, <1>9
<1> QED BY <1>8, <1>10

\* What deduplication leaves of a valid answer is valid: items of it, in a list.
LEMMA DeduplicatedValid ==
  ASSUME NEW d, NEW keys, NEW s, Listed(d), Valid(d, s)
  PROVE  Valid(Deduplicated(d, keys), s)
<1>1. CASE keys = << >> \/ ~d.array
  BY <1>1 DEF Deduplicated
<1>2. CASE ~(keys = << >> \/ ~d.array)
  <2> DEFINE F == Firsts(d.items, keys)
             pick(n) == CHOOSE i \in F : Cardinality(F \cap 1 .. i) = n
             items == [n \in 1 .. Cardinality(F) |-> d.items[pick(n)]]
  <2>1. Deduplicated(d, keys) = [array |-> d.array, items |-> items]
    BY <1>2 DEF Deduplicated, Listed
  <2>2. PICK n \in Nat : DOMAIN d.items = 1 .. n
    BY DEF Listed
  <2>3. F \subseteq 1 .. n
    BY <2>2 DEF Firsts
  <2> HIDE DEF F
  <2>4. ASSUME NEW k \in 1 .. Cardinality(F) PROVE pick(k) \in DOMAIN d.items
    <3>1. \E i \in F : Cardinality(F \cap 1 .. i) = k
      BY <2>3, KthElement
    <3> QED BY <2>2, <2>3, <3>1
  <2> HIDE DEF pick
  <2>5. \A k \in DOMAIN items : ValidObject(items[k], s)
    BY <2>4 DEF Valid
  <2>6. d.array = s.array
    BY DEF Valid
  <2> HIDE DEF items
  <2> QED BY <2>1, <2>5, <2>6 DEF Valid
<1> QED BY <1>1, <1>2

-----------------------------------------------------------------------------
\* A step of the request r: the others stay what they are.
Frame(r) ==
    /\ pc[r] # "done" /\ req' = req
    /\ \A q \in Requests : q # r =>
          /\ pc'[q] = pc[q] /\ at'[q] = at[q] /\ pages'[q] = pages[q]
          /\ attempts'[q] = attempts[q] /\ posts'[q] = posts[q] /\ calls'[q] = calls[q]
          /\ draft'[q] = draft[q] /\ out'[q] = out[q]

\* What holds of the other requests holds still: a request that ended before is
\* one that has ended.
LEMMA OthersKept ==
  ASSUME ExtractionInv, NEW r \in Requests, Frame(r), NEW q \in Requests, q # r
  PROVE  RequestInv(q)'
<1>1. RequestInv(q)
  BY DEF ExtractionInv
<1>2. /\ pc'[q] = pc[q] /\ at'[q] = at[q] /\ pages'[q] = pages[q] /\ req'[q] = req[q]
      /\ attempts'[q] = attempts[q] /\ posts'[q] = posts[q] /\ calls'[q] = calls[q]
      /\ draft'[q] = draft[q] /\ out'[q] = out[q]
  BY DEF Frame
<1>3. FetchInv(q)' /\ CostInv(q)' /\ CheckedInv(q)' /\ StoredInv(q)'
  BY <1>1, <1>2 DEF RequestInv, FetchInv, CostInv, CheckedInv, StoredInv, Frame
<1>4. Reported(q) => Reported(q)'
  <2>1. ASSUME NEW s \in Requests, pc[s] = "done" PROVE pc'[s] = "done" /\ calls'[s] = calls[s]
    BY <2>1 DEF Frame
  <2> QED BY <1>2, <2>1 DEF Reported
<1>5. OutInv(q)'
  BY <1>1, <1>2, <1>4 DEF RequestInv, OutInv, Frame
<1> QED BY <1>3, <1>5 DEF RequestInv

\* A cache that has lost entries, or none.
LEMMA CacheKept ==
  ASSUME ExtractionInv, NEW r \in Requests, Frame(r),
         DOMAIN cache' \subseteq DOMAIN cache, \A k \in DOMAIN cache' : cache'[k] = cache[k]
  PROVE  CacheInv'
<1>1. ASSUME NEW s \in Requests, pc[s] = "done" PROVE pc'[s] = "done" /\ calls'[s] = calls[s]
  BY <1>1 DEF Frame
<1>2. ASSUME NEW k \in DOMAIN cache' PROVE IsResult(cache'[k]) /\ Backed(cache'[k], k[2])
  BY <1>2 DEF ExtractionInv, CacheInv
<1>3. ASSUME NEW k \in DOMAIN cache'
      PROVE  \E s \in Requests : pc'[s] = "done" /\ calls'[s] = cache'[k].calls
  BY <1>1, <1>3 DEF ExtractionInv, CacheInv
<1> QED BY <1>2, <1>3 DEF CacheInv

\* A set of requests of which one is in or out.
LEMMA OneRequest ==
  ASSUME NEW S, IsFiniteSet(S), NEW T, NEW r, \A q : q # r => (q \in T <=> q \in S)
  PROVE  /\ IsFiniteSet(T) /\ Cardinality(S) \in Nat /\ Cardinality(T) \in Nat
         /\ (r \in T <=> r \in S) => Cardinality(T) = Cardinality(S)
         /\ r \in T /\ r \notin S => Cardinality(T) = Cardinality(S) + 1
         /\ r \notin T /\ r \in S => Cardinality(S) = Cardinality(T) + 1
<1>1. CASE r \in T <=> r \in S
  <2>1. S = T
    BY <1>1
  <2> QED BY <1>1, <2>1, FS_CardinalityType
<1>2. CASE r \in T /\ r \notin S
  <2>1. T = S \cup {r}
    BY <1>2
  <2>2. IsFiniteSet(S \cup {r}) /\ Cardinality(S \cup {r}) = Cardinality(S) + 1
    BY <1>2, FS_AddElement
  <2> QED BY <1>2, <2>1, <2>2, FS_CardinalityType
<1>3. CASE r \notin T /\ r \in S
  <2>1. T = S \ {r}
    BY <1>3
  <2>2. IsFiniteSet(S \ {r}) /\ Cardinality(S \ {r}) = Cardinality(S) - 1
    BY <1>3, FS_RemoveElement
  <2>3. Cardinality(S) \in Nat /\ Cardinality(S \ {r}) \in Nat
    BY <2>2, FS_CardinalityType
  <2> QED BY <1>3, <2>1, <2>2, <2>3
<1> QED BY <1>1, <1>2, <1>3

\* The permits and slots after a step of r.
LEMMA HoldersMoved ==
  ASSUME ExtractionInv, NEW r \in Requests, Frame(r)
  PROVE  /\ IsFiniteSet(Holders') /\ Cardinality(Holders) \in Nat /\ Cardinality(Holders') \in Nat
         /\ (r \in Holders' <=> r \in Holders) => Cardinality(Holders') = Cardinality(Holders)
         /\ r \in Holders' /\ r \notin Holders => Cardinality(Holders') = Cardinality(Holders) + 1
         /\ r \notin Holders' /\ r \in Holders => Cardinality(Holders) = Cardinality(Holders') + 1
<1>1. \A q : q # r => (q \in Holders' <=> q \in Holders)
  BY DEF Holders, Holds, Frame
<1>2. IsFiniteSet(Holders)
  BY DEF ExtractionInv, PermitInv
<1> QED BY <1>1, <1>2, OneRequest

LEMMA OccupantsMoved ==
  ASSUME ExtractionInv, NEW r \in Requests, Frame(r)
  PROVE  /\ IsFiniteSet(Occupants') /\ Cardinality(Occupants) \in Nat /\ Cardinality(Occupants') \in Nat
         /\ (r \in Occupants' <=> r \in Occupants) => Cardinality(Occupants') = Cardinality(Occupants)
         /\ r \in Occupants' /\ r \notin Occupants => Cardinality(Occupants') = Cardinality(Occupants) + 1
         /\ r \notin Occupants' /\ r \in Occupants => Cardinality(Occupants) = Cardinality(Occupants') + 1
<1>1. \A q : q # r => (q \in Occupants' <=> q \in Occupants)
  BY DEF Occupants, Occupied, Frame
<1>2. IsFiniteSet(Occupants)
  BY DEF ExtractionInv, SlotInv
<1> QED BY <1>1, <1>2, OneRequest

\* A request that goes on, with what it holds.
LEMMA MoveStep ==
  ASSUME ExtractionInv, NEW r \in Requests, Frame(r), UNCHANGED <<permits, slots>>,
         r \in Holders' <=> r \in Holders, r \in Occupants' <=> r \in Occupants
  PROVE  PermitInv' /\ SlotInv'
BY HoldersMoved, OccupantsMoved DEF ExtractionInv, PermitInv, SlotInv

\* A request that ends gives back what it holds.
LEMMA ReturnStep ==
  ASSUME ExtractionInv, NEW r \in Requests, Frame(r), NEW answer, Return(r, answer)
  PROVE  pc'[r] = "done" /\ out'[r] = answer /\ PermitInv' /\ SlotInv'
<1>1. pc'[r] = "done" /\ out'[r] = answer
  BY DEF Return, Goto, ExtractionInv, Shape
<1>2. r \notin Holders' /\ r \notin Occupants'
  BY <1>1 DEF Holders, Holds, Calling, Occupants, Occupied
<1>3. PermitInv'
  <2>1. CASE r \in Holders
    <3>1. permits' = permits + 1
      BY <2>1 DEF Return, Holders
    <3> QED BY <1>2, <2>1, <3>1, HoldersMoved DEF ExtractionInv, PermitInv
  <2>2. CASE r \notin Holders
    <3>1. permits' = permits
      BY <2>2 DEF Return, Holders, Holds, ExtractionInv, PermitInv
    <3> QED BY <1>2, <2>2, <3>1, HoldersMoved DEF ExtractionInv, PermitInv
  <2> QED BY <2>1, <2>2
<1>4. SlotInv'
  <2>1. CASE r \in Occupants
    <3>1. slots' = slots + 1
      BY <2>1 DEF Return, Occupants, Occupied, Slots
    <3> QED BY <1>2, <2>1, <3>1, OccupantsMoved DEF ExtractionInv, SlotInv
  <2>2. CASE r \notin Occupants
    <3>1. slots' = slots
      BY <2>2 DEF Return, Occupants, Occupied, Slots, ExtractionInv, SlotInv, Frame
    <3> QED BY <1>2, <2>2, <3>1, OccupantsMoved DEF ExtractionInv, SlotInv
  <2> QED BY <2>1, <2>2
<1> QED BY <1>1, <1>3, <1>4

\* A request that ends in an error has cost what it had cost.
LEMMA ErrorStep ==
  ASSUME ExtractionInv, NEW r \in Requests, Frame(r), NEW kind, Fail(r, kind), Shape',
         DOMAIN cache' \subseteq DOMAIN cache, \A k \in DOMAIN cache' : cache'[k] = cache[k],
         FetchInv(r)', CostInv(r)'
  PROVE  ExtractionInv'
<1>1. pc'[r] = "done" /\ out'[r] = Err(kind) /\ PermitInv' /\ SlotInv'
  BY ReturnStep DEF Fail
<1>2. CheckedInv(r)' /\ StoredInv(r)' /\ OutInv(r)'
  BY <1>1 DEF CheckedInv, StoredInv, OutInv, Err
<1>3. CacheInv'
  BY CacheKept
<1> QED BY <1>1, <1>2, <1>3, OthersKept DEF ExtractionInv, RequestInv

\* Every step of a request leaves the others alone.
LEMMA FrameStep ==
  ASSUME ExtractionInv, NEW r \in Requests, Step(r)
  PROVE  Frame(r) /\ Shape'
<1> USE DEF Goto, Return, Fail, Err, Steps, Scraping, Calling
<1>1. Shape
  BY DEF ExtractionInv
<1>2. CASE Spawn(r)
  BY <1>1, <1>2 DEF Spawn, Frame, Shape
<1>3. CASE Begin(r)
  BY <1>1, <1>3 DEF Begin, Frame, Shape
<1>4. CASE Fetch(r)
  <2>1. CASE req[r].urls = << >> \/ ScrapeOne(r)
    BY <1>1, <1>4, <2>1 DEF Fetch, ScrapeOne, Got, Frame, Shape
  <2>2. CASE ScrapeNext(r)
    BY <1>1, <1>4, <2>2 DEF Fetch, ScrapeNext, Got, Frame, Shape
  <2>3. CASE Crawl(r)
    BY <1>1, <1>4, <2>3 DEF Fetch, Crawl, Got, Frame, Shape
  <2> QED BY <1>4, <2>1, <2>2, <2>3 DEF Fetch
<1>5. CASE LookAt(r)
  BY <1>1, <1>5 DEF LookAt, Store, Frame, Shape
<1>6. CASE SelectContext(r)
  BY <1>1, <1>6 DEF SelectContext, Frame, Shape
<1>7. CASE AcquirePermit(r)
  BY <1>1, <1>7 DEF AcquirePermit, Frame, Shape
<1>8. CASE Answered(r)
  BY <1>1, <1>8 DEF Answered, Post, Judge, Finish, Repair, Frame, Shape
<1>9. CASE PostFails(r)
  BY <1>1, <1>9 DEF PostFails, Post, Frame, Shape
<1>10. CASE Report(r)
  BY <1>1, <1>10 DEF Report, Store, Frame, Shape
<1>11. CASE MakeRoom(r)
  BY <1>1, <1>11 DEF MakeRoom, Frame, Shape
<1>12. CASE Insert(r)
  BY <1>1, <1>12 DEF Insert, Frame, Shape
<1>13. CASE Panic(r)
  BY <1>1, <1>13 DEF Panic, Frame, Shape
<1> QED
  BY <1>2, <1>3, <1>4, <1>5, <1>6, <1>7, <1>8, <1>9, <1>10, <1>11, <1>12, <1>13 DEF Step

\* What a request has scraped are pages.
LEMMA CrawledPages ==
  ASSUME NEW urls \in Seq(DOMAIN PageOf), NEW keep, keep \subseteq DOMAIN urls
  PROVE  [i \in 1 .. Cardinality(keep) |-> PageOf[urls[SetToSeq(keep)[i]]]] \in Seq(Range(PageOf))
<1>1. /\ DOMAIN urls = 1 .. Len(urls) /\ Len(urls) \in Nat
      /\ \A i \in DOMAIN urls : urls[i] \in DOMAIN PageOf
  BY LenProperties, ElementOfSeq
<1>2. IsFiniteSet(keep) /\ Cardinality(keep) \in Nat
  <2>1. IsFiniteSet(1 .. Len(urls))
    BY <1>1, FS_Interval
  <2> QED BY <1>1, <2>1, FS_Subset, FS_CardinalityType
<1>3. SetToSeq(keep) \in [1 .. Cardinality(keep) -> keep]
  <2>1. ExistsBijection(1 .. Cardinality(keep), keep)
    BY <1>2, FS_NatBijection, FS_CountingElements
  <2>2. \E f \in [1 .. Cardinality(keep) -> keep] : IsInjective(f)
    BY <2>1 DEF ExistsBijection, Bijection, Injection, IsInjective
  <2> QED BY <2>2 DEF SetToSeq
<1>4. \A i \in 1 .. Cardinality(keep) : PageOf[urls[SetToSeq(keep)[i]]] \in Range(PageOf)
  BY <1>1, <1>3 DEF Range
<1> QED BY <1>2, <1>4

\* A step of a request up to the permit: it costs nothing and finds no answer.
LEMMA EarlyStep ==
  ASSUME ExtractionInv, NEW r \in Requests, Frame(r), Shape', pc[r] \in Early, pc'[r] \in Early,
         UNCHANGED <<permits, slots, cache>>, FetchInv(r)', Occupied(r)' = Occupied(r),
         UNCHANGED <<attempts, posts, calls, out>>
  PROVE  ExtractionInv'
<1>1. RequestInv(r)
  BY DEF ExtractionInv
<1>2. r \notin Holders /\ r \notin Holders'
  BY <1>1 DEF Holders, Holds, Calling, Early, RequestInv, CostInv
<1>3. PermitInv' /\ SlotInv'
  BY <1>2, MoveStep DEF Occupants
<1>4. CostInv(r)'
  BY <1>1 DEF RequestInv, CostInv, Early
<1>5. CheckedInv(r)' /\ StoredInv(r)' /\ OutInv(r)'
  BY <1>1 DEF RequestInv, CheckedInv, StoredInv, OutInv, Early
<1>6. CacheInv'
  BY CacheKept
<1> QED BY <1>3, <1>4, <1>5, <1>6, OthersKept DEF ExtractionInv, RequestInv

\* A request that ends in an error before it asks the model.
LEMMA EarlyError ==
  ASSUME ExtractionInv, NEW r \in Requests, Frame(r), Shape', pc[r] \notin {"generating", "repairing"},
         NEW kind, Fail(r, kind), UNCHANGED <<attempts, posts, calls, at, pages, cache, req>>
  PROVE  ExtractionInv'
<1>1. RequestInv(r) /\ Shape
  BY DEF ExtractionInv
<1>2. pc'[r] = "done"
  BY ReturnStep DEF Fail
<1>3. FetchInv(r)'
  BY <1>1, <1>2 DEF RequestInv, FetchInv
<1>4. CostInv(r)'
  BY <1>1, <1>2 DEF RequestInv, CostInv, Early
<1> QED BY <1>3, <1>4, ErrorStep

LEMMA SpawnStep ==
  ASSUME ExtractionInv, NEW r \in Requests, Frame(r), Shape', Spawn(r)
  PROVE  ExtractionInv'
<1>1. RequestInv(r) /\ pc[r] = "new" /\ pc'[r] = "queued"
  BY DEF ExtractionInv, Shape, Spawn, Goto
<1>2. FetchInv(r)'
  BY <1>1 DEF RequestInv, FetchInv, Spawn
<1>3. Occupied(r)' = Occupied(r)
  BY <1>1 DEF Occupied, Spawn
<1>4. UNCHANGED <<permits, slots, cache, attempts, posts, calls, out>>
  BY DEF Spawn
<1> QED BY <1>1, <1>2, <1>3, <1>4, EarlyStep DEF Early

\* A batch item takes its slot only if it goes on.
LEMMA BeginStep ==
  ASSUME ExtractionInv, NEW r \in Requests, Frame(r), Shape', Begin(r)
  PROVE  ExtractionInv'
<1>1. RequestInv(r) /\ pc[r] \in {"new", "queued"} /\ Shape
  BY DEF ExtractionInv, Begin
<1>2. UNCHANGED <<req, at, pages, attempts, posts, calls, draft, cache, permits>>
  BY DEF Begin
<1>3. r \notin Holders /\ r \notin Occupants
  BY <1>1 DEF Holders, Holds, Calling, Occupants, Occupied
<1>4. CASE pc'[r] = "done"
  <2>1. slots' = slots /\ out'[r].ok = FALSE
    BY <1>1, <1>4 DEF Begin, Goto, Err, Shape
  <2>2. r \notin Holders' /\ r \notin Occupants'
    BY <1>4 DEF Holders, Holds, Calling, Occupants, Occupied
  <2>3. PermitInv' /\ SlotInv'
    BY <1>2, <1>3, <2>1, <2>2, MoveStep
  <2>4. RequestInv(r)'
    BY <1>1, <1>2, <1>4, <2>1 DEF RequestInv, FetchInv, CostInv, CheckedInv, StoredInv, OutInv, Early
  <2>5. CacheInv'
    BY <1>2, CacheKept
  <2> QED BY <2>3, <2>4, <2>5, OthersKept DEF ExtractionInv
<1>5. CASE pc'[r] # "done"
  <2>1. /\ pc'[r] = "fetching" /\ out' = out
        /\ slots' = IF req[r].batch THEN slots - 1 ELSE slots
        /\ req[r].batch => slots > 0
    BY <1>1, <1>5 DEF Begin, Goto, Shape
  <2>2. r \notin Holders' /\ (r \in Occupants' <=> req[r].batch)
    BY <1>2, <1>3, <2>1 DEF Holders, Holds, Calling, Occupants, Occupied
  <2>3. PermitInv'
    BY <1>2, <1>3, <2>2, HoldersMoved DEF ExtractionInv, PermitInv
  <2>4. SlotInv'
    <3>1. CASE req[r].batch
      BY <1>3, <2>1, <2>2, <3>1, OccupantsMoved DEF ExtractionInv, SlotInv
    <3>2. CASE ~req[r].batch
      BY <1>3, <2>1, <2>2, <3>2, OccupantsMoved DEF ExtractionInv, SlotInv
    <3> QED BY <3>1, <3>2
  <2>5. RequestInv(r)'
    BY <1>1, <1>2, <2>1 DEF RequestInv, FetchInv, CostInv, CheckedInv, StoredInv, OutInv, Early
  <2>6. CacheInv'
    BY <1>2, CacheKept
  <2> QED BY <2>3, <2>4, <2>5, <2>6, OthersKept DEF ExtractionInv
<1> QED BY <1>4, <1>5

\* Another address, and what came of it.
LEMMA GotStep ==
  ASSUME ExtractionInv, NEW r \in Requests, Frame(r), Shape', pc[r] = "fetching",
         req[r].urls # << >>, NEW more \in Seq(Range(PageOf)), Got(r, more),
         UNCHANGED <<req, attempts, posts, calls, cache>>
  PROVE  ExtractionInv'
<1>1. RequestInv(r) /\ Shape
  BY DEF ExtractionInv
<1>2. req[r] \in Kinds /\ req[r].urls \in Seq(DOMAIN PageOf) /\ pages[r] \in Seq(Range(PageOf))
  BY <1>1, InputsAssumption DEF RequestInv, FetchInv
<1>3. Len(req[r].urls) \in Nat /\ Len(req[r].urls) # 0
  BY <1>2, LenProperties, EmptySeq
<1>4. /\ pages'[r] = pages[r] \o more /\ at'[r] = at[r] + 1
      /\ pc'[r] = IF at[r] = Len(req[r].urls) \/ req[r].how = "crawl" THEN "fetched" ELSE "fetching"
  BY <1>1 DEF Got, Goto, Shape
<1>5. at[r] \in 1 .. Len(req[r].urls)
  BY <1>1, <1>3 DEF RequestInv, FetchInv
<1>6. pages'[r] \in Seq(Range(PageOf))
  BY <1>2, <1>4, ConcatProperties
<1>7. FetchInv(r)'
  BY <1>2, <1>3, <1>4, <1>5, <1>6 DEF FetchInv
<1>8. Occupied(r)' = Occupied(r) /\ UNCHANGED <<out, permits, slots>>
  BY <1>4 DEF Occupied, Got
<1> QED BY <1>4, <1>7, <1>8, EarlyStep DEF Early

LEMMA FetchStep ==
  ASSUME ExtractionInv, NEW r \in Requests, Frame(r), Shape', Fetch(r)
  PROVE  ExtractionInv'
<1>1. pc[r] = "fetching" /\ UNCHANGED <<req, attempts, posts, calls, draft, cache, cancelled>>
  BY DEF Fetch
<1>2. req[r].urls \in Seq(DOMAIN PageOf)
  BY InputsAssumption DEF ExtractionInv, RequestInv, FetchInv
<1>3. ASSUME NEW kind, Fail(r, kind), UNCHANGED <<at, pages>> PROVE ExtractionInv'
  BY <1>1, <1>3, EarlyError
<1>4. ASSUME NEW more \in Seq(Range(PageOf)), Got(r, more), req[r].urls # << >> PROVE ExtractionInv'
  BY <1>1, <1>4, GotStep
<1>5. CASE req[r].urls = << >>
  BY <1>3, <1>5 DEF Fetch
<1>6. CASE req[r].urls # << >>
  <2>1. \A i \in 1 .. Len(req[r].urls) : <<PageOf[req[r].urls[i]]>> \in Seq(Range(PageOf))
    <3> SUFFICES ASSUME NEW i \in 1 .. Len(req[r].urls) PROVE <<PageOf[req[r].urls[i]]>> \in Seq(Range(PageOf))
      OBVIOUS
    <3>1. req[r].urls[i] \in DOMAIN PageOf
      BY <1>2, ElementOfSeq
    <3> QED BY <3>1 DEF Range
  <2>2. Len(req[r].urls) \in Nat /\ Len(req[r].urls) # 0 /\ DOMAIN req[r].urls = 1 .. Len(req[r].urls)
    BY <1>2, <1>6, LenProperties, EmptySeq
  <2>3. CASE ScrapeOne(r)
    <3>1. <<PageOf[req[r].urls[1]]>> \in Seq(Range(PageOf))
      BY <2>1, <2>2
    <3> QED BY <1>3, <1>4, <1>6, <2>3, <3>1 DEF ScrapeOne
  <2>4. CASE ScrapeNext(r)
    <3>1. at[r] \in 1 .. Len(req[r].urls)
      BY <1>1, <2>2 DEF ExtractionInv, RequestInv, FetchInv
    <3>2. <<PageOf[req[r].urls[at[r]]]>> \in Seq(Range(PageOf)) /\ << >> \in Seq(Range(PageOf))
      BY <2>1, <3>1
    <3> QED BY <1>3, <1>4, <1>6, <2>4, <3>2 DEF ScrapeNext
  <2>5. CASE Crawl(r)
    <3>1. CASE Fail(r, "crawl") /\ UNCHANGED <<at, pages>>
      BY <1>3, <3>1
    <3>2. ASSUME NEW keep \in SUBSET DOMAIN req[r].urls,
                 Got(r, [i \in 1 .. Cardinality(keep) |-> PageOf[req[r].urls[SetToSeq(keep)[i]]]])
          PROVE  ExtractionInv'
      <4>1. [i \in 1 .. Cardinality(keep) |-> PageOf[req[r].urls[SetToSeq(keep)[i]]]] \in Seq(Range(PageOf))
        BY <1>2, CrawledPages
      <4> QED BY <1>4, <1>6, <3>2, <4>1
    <3> QED BY <2>5, <3>1, <3>2 DEF Crawl
  <2> QED BY <1>6, <2>3, <2>4, <2>5 DEF Fetch
<1> QED BY <1>5, <1>6

\* A result is handed over to be stored.
LEMMA StoreStep ==
  ASSUME ExtractionInv, NEW r \in Requests, Frame(r), Shape', pc[r] \in {"fetched", "checked"},
         NEW x, Store(r, x), IsResult(x), x.hit = FALSE, x.calls = calls[r],
         Backed(x, req[r].schema), UNCHANGED <<req, at, pages, attempts, posts, calls, cache>>
  PROVE  ExtractionInv'
<1>1. RequestInv(r) /\ Shape
  BY DEF ExtractionInv
<1>2. pc'[r] = "storing" /\ draft'[r] = x /\ UNCHANGED <<out, permits, slots>>
  BY <1>1 DEF Store, Goto, Shape
<1>3. r \in Holders' <=> r \in Holders
  <2>1. calls[r] \in 0 .. 2 /\ (pc[r] = "fetched" => calls[r] = 0) /\ (pc[r] = "checked" => calls[r] > 0)
    BY <1>1 DEF RequestInv, CostInv, Early
  <2>2. Holds(r) = 1 <=> pc[r] = "checked"
    BY DEF Holds, Calling
  <2>3. Holds(r)' = 1 <=> calls[r] > 0
    BY <1>2 DEF Holds, Calling
  <2> QED BY <2>1, <2>2, <2>3 DEF Holders
<1>4. r \in Occupants' <=> r \in Occupants
  BY <1>2 DEF Occupants, Occupied
<1>5. PermitInv' /\ SlotInv'
  BY <1>2, <1>3, <1>4, MoveStep
<1>6. FetchInv(r)' /\ CostInv(r)'
  BY <1>1, <1>2 DEF RequestInv, FetchInv, CostInv, Early
<1>7. StoredInv(r)'
  BY <1>2 DEF StoredInv
<1>8. CheckedInv(r)' /\ OutInv(r)'
  BY <1>1, <1>2 DEF RequestInv, CheckedInv, OutInv
<1>9. CacheInv'
  BY CacheKept
<1> QED BY <1>5, <1>6, <1>7, <1>8, <1>9, OthersKept DEF ExtractionInv, RequestInv

\* A result from the cache is that of a request that is done, for the schema
\* that both ask for.
LEMMA HitStep ==
  ASSUME ExtractionInv, NEW r \in Requests, Frame(r), Shape', pc[r] = "fetched",
         Key(r) \in DOMAIN cache, Return(r, [cache[Key(r)] EXCEPT !.hit = TRUE]),
         UNCHANGED <<req, at, pages, attempts, posts, calls, cache, draft>>
  PROVE  ExtractionInv'
<1> DEFINE x == cache[Key(r)]
           y == [x EXCEPT !.hit = TRUE]
<1>1. RequestInv(r) /\ Shape
  BY DEF ExtractionInv
<1>2. pc'[r] = "done" /\ out'[r] = y /\ PermitInv' /\ SlotInv'
  BY ReturnStep
<1>3. PICK s \in Requests : pc[s] = "done" /\ calls[s] = x.calls
  BY DEF ExtractionInv, CacheInv
<1>4. IsResult(x) /\ Backed(x, req[r].schema)
  <2>1. Key(r)[2] = req[r].schema
    BY DEF Key
  <2>2. IsResult(x) /\ Backed(x, Key(r)[2])
    BY DEF ExtractionInv, CacheInv
  <2> QED BY <2>1, <2>2
<1> HIDE DEF x
<1>5. y.hit = TRUE /\ y.data = x.data /\ y.calls = x.calls /\ y.validated = x.validated
  BY <1>4 DEF IsResult
<1> HIDE DEF y
<1>6. s # r /\ pc'[s] = "done" /\ calls'[s] = y.calls
  BY <1>3, <1>5 DEF Frame
<1>7. calls[r] = 0
  BY <1>1 DEF RequestInv, CostInv, Early
<1>8. Reported(r)'
  BY <1>2, <1>5, <1>6, <1>7 DEF Reported
<1>9. Backed(y, req[r].schema)
  BY <1>4, <1>5 DEF Backed
<1>10. OutInv(r)'
  BY <1>2, <1>8, <1>9 DEF OutInv
<1>11. FetchInv(r)' /\ CostInv(r)' /\ CheckedInv(r)' /\ StoredInv(r)'
  BY <1>1, <1>2 DEF RequestInv, FetchInv, CostInv, CheckedInv, StoredInv, Early
<1>12. CacheInv'
  BY CacheKept
<1> QED BY <1>2, <1>10, <1>11, <1>12, OthersKept DEF ExtractionInv, RequestInv

LEMMA LookAtStep ==
  ASSUME ExtractionInv, NEW r \in Requests, Frame(r), Shape', LookAt(r)
  PROVE  ExtractionInv'
<1>1. /\ pc[r] = "fetched" /\ UNCHANGED <<req, at, pages, attempts, posts, calls, cache, cancelled>>
      /\ RequestInv(r) /\ Shape
  BY DEF LookAt, ExtractionInv
<1>2. ASSUME NEW kind, Fail(r, kind) PROVE ExtractionInv'
  BY <1>1, <1>2, EarlyError
<1>3. CASE Key(r) \in DOMAIN cache /\ Return(r, [cache[Key(r)] EXCEPT !.hit = TRUE]) /\ UNCHANGED draft
  BY <1>1, <1>3, HitStep
<1>4. CASE Goto(r, "context") /\ UNCHANGED <<draft, out, permits, slots>>
  <2>1. pc'[r] = "context"
    BY <1>1, <1>4 DEF Goto, Shape
  <2>2. FetchInv(r)' /\ Occupied(r)' = Occupied(r)
    BY <1>1, <2>1 DEF RequestInv, FetchInv, Occupied
  <2> QED BY <1>1, <1>4, <2>1, <2>2, EarlyStep DEF Early
<1>5. ASSUME NEW rules,
             Store(r, [ok |-> TRUE, hit |-> FALSE, data |-> rules.data, calls |-> 0, cited |-> {},
                       validated |-> req[r].schema # NoSchema /\ Valid(rules.data, req[r].schema)])
      PROVE  ExtractionInv'
  <2> DEFINE x == [ok |-> TRUE, hit |-> FALSE, data |-> rules.data, calls |-> 0, cited |-> {},
                   validated |-> req[r].schema # NoSchema /\ Valid(rules.data, req[r].schema)]
  <2>1. IsResult(x) /\ x.hit = FALSE /\ x.calls = calls[r] /\ Store(r, x)
    BY <1>1, <1>5 DEF IsResult, RequestInv, CostInv, Early
  <2>2. Backed(x, req[r].schema)
    BY DEF Backed
  <2> HIDE DEF x
  <2> QED BY <1>1, <2>1, <2>2, StoreStep
<1> QED BY <1>2, <1>3, <1>4, <1>5 DEF LookAt

LEMMA SelectContextStep ==
  ASSUME ExtractionInv, NEW r \in Requests, Frame(r), Shape', SelectContext(r)
  PROVE  ExtractionInv'
<1>1. /\ pc[r] = "context" /\ UNCHANGED <<req, at, pages, attempts, posts, calls, draft, cache>>
      /\ RequestInv(r) /\ Shape
  BY DEF SelectContext, ExtractionInv
<1>2. ASSUME NEW kind, Fail(r, kind) PROVE ExtractionInv'
  BY <1>1, <1>2, EarlyError
<1>3. CASE Goto(r, "waiting") /\ UNCHANGED <<out, permits, slots>>
  <2>1. pc'[r] = "waiting"
    BY <1>1, <1>3 DEF Goto, Shape
  <2>2. FetchInv(r)' /\ Occupied(r)' = Occupied(r)
    BY <1>1, <2>1 DEF RequestInv, FetchInv, Occupied
  <2> QED BY <1>1, <1>3, <2>1, <2>2, EarlyStep DEF Early
<1> QED BY <1>2, <1>3 DEF SelectContext

\* A panic is like an error, wherever it comes.
LEMMA PanicStep ==
  ASSUME ExtractionInv, NEW r \in Requests, Frame(r), Shape', Panic(r)
  PROVE  ExtractionInv'
BY EarlyError DEF Panic, Fail, Err

LEMMA AcquireStep ==
  ASSUME ExtractionInv, NEW r \in Requests, Frame(r), Shape', AcquirePermit(r)
  PROVE  ExtractionInv'
<1>1. /\ pc[r] = "waiting" /\ permits > 0 /\ permits' = permits - 1 /\ calls'[r] = 1
      /\ UNCHANGED <<req, at, pages, attempts, posts, draft, out, slots, cache>>
      /\ pc'[r] = "generating" /\ RequestInv(r)
  BY DEF AcquirePermit, Goto, ExtractionInv, Shape
<1>2. r \notin Holders /\ r \in Holders' /\ (r \in Occupants' <=> r \in Occupants)
  BY <1>1 DEF Holders, Holds, Calling, Occupants, Occupied
<1>3. PermitInv'
  BY <1>1, <1>2, HoldersMoved DEF ExtractionInv, PermitInv
<1>4. SlotInv'
  BY <1>1, <1>2, OccupantsMoved DEF ExtractionInv, SlotInv
<1>5. FetchInv(r)' /\ CheckedInv(r)' /\ StoredInv(r)' /\ OutInv(r)'
  BY <1>1 DEF RequestInv, FetchInv, CheckedInv, StoredInv, OutInv
<1>6. CostInv(r)'
  BY <1>1, LimitsAssumption DEF RequestInv, CostInv, Early
<1>7. CacheInv'
  BY <1>1, CacheKept
<1> QED BY <1>3, <1>4, <1>5, <1>6, <1>7, OthersKept DEF ExtractionInv, RequestInv

-----------------------------------------------------------------------------
\* What coercion makes of an answer is one object or a list of them.
LEMMA CoerceListed ==
  ASSUME NEW answer \in Answers, NEW s, NEW missing
  PROVE  Listed(Coerce(answer, s, missing))
<1>1. Len(answer.items) \in Nat /\ DOMAIN answer.items = 1 .. Len(answer.items)
  BY InputsAssumption
<1>2. CASE s.array
  BY <1>1, <1>2 DEF Coerce, Listed
<1>3. CASE ~s.array
  <2>1. Coerce(answer, s, missing) =
          [array |-> FALSE,
           items |-> <<CoerceObject(IF answer.array THEN << >> ELSE answer.items[1], s, missing)>>]
    BY <1>3 DEF Coerce
  <2>2. DOMAIN <<CoerceObject(IF answer.array THEN << >> ELSE answer.items[1], s, missing)>> = 1 .. 1
    OBVIOUS
  <2> QED BY <2>1, <2>2 DEF Listed
<1> QED BY <1>2, <1>3

\* One attempt more of a call to the model.
LEMMA PostFacts ==
  ASSUME ExtractionInv, NEW r \in Requests, Post(r)
  PROVE  /\ pc[r] \in {"generating", "repairing"} /\ RequestInv(r) /\ Shape
         /\ posts'[r] = posts[r] + 1 /\ posts[r] \in Nat /\ attempts[r] \in 0 .. MaxRetries
         /\ MaxRetries \in Nat
         /\ pc[r] = "generating" => calls[r] = 1 /\ posts[r] <= attempts[r]
         /\ pc[r] = "repairing" => calls[r] = 2 /\ posts[r] <= MaxRetries + 1 + attempts[r]
         /\ r \in Holders
BY LimitsAssumption
   DEF Post, ExtractionInv, Shape, RequestInv, CostInv, Holders, Holds, Calling

\* A call, or the attempt, that fails ends the request.
LEMMA CallFails ==
  ASSUME ExtractionInv, NEW r \in Requests, Frame(r), Shape', Post(r), NEW kind, Fail(r, kind),
         attempts'[r] \in 0 .. MaxRetries + 1, calls'[r] = calls[r],
         UNCHANGED <<req, at, pages, cache>>
  PROVE  ExtractionInv'
<1>1. /\ pc[r] \in {"generating", "repairing"} /\ RequestInv(r)
      /\ posts'[r] = posts[r] + 1 /\ posts[r] \in Nat /\ attempts[r] \in 0 .. MaxRetries
      /\ MaxRetries \in Nat
      /\ pc[r] = "generating" => calls[r] = 1 /\ posts[r] <= attempts[r]
      /\ pc[r] = "repairing" => calls[r] = 2 /\ posts[r] <= MaxRetries + 1 + attempts[r]
  BY PostFacts
<1>2. pc'[r] = "done"
  BY ReturnStep DEF Fail
<1>3. FetchInv(r)'
  BY <1>1, <1>2 DEF RequestInv, FetchInv
<1>4. CostInv(r)'
  BY <1>1, <1>2 DEF CostInv, Early
<1> QED BY <1>3, <1>4, ErrorStep

\* An answer that will do is checked, and the request keeps its permit.
LEMMA FinishStep ==
  ASSUME ExtractionInv, NEW r \in Requests, Frame(r), Shape', Post(r), NEW data, Finish(r, data),
         req[r].schema # NoSchema => Listed(data) /\ Valid(data, req[r].schema),
         attempts'[r] = 0, UNCHANGED <<req, at, pages, cache>>
  PROVE  ExtractionInv'
<1>1. /\ pc[r] \in {"generating", "repairing"} /\ RequestInv(r) /\ Shape
      /\ posts'[r] = posts[r] + 1 /\ posts[r] \in Nat /\ attempts[r] \in 0 .. MaxRetries
      /\ MaxRetries \in Nat
      /\ pc[r] = "generating" => calls[r] = 1 /\ posts[r] <= attempts[r]
      /\ pc[r] = "repairing" => calls[r] = 2 /\ posts[r] <= MaxRetries + 1 + attempts[r]
      /\ r \in Holders
  BY PostFacts
<1>2. /\ pc'[r] = "checked" /\ draft'[r] = [data |-> data, repaired |-> UsedRepair(r)]
      /\ UNCHANGED <<out, permits, slots, calls>>
  BY <1>1 DEF Finish, Goto, Shape
<1>3. r \in Holders' /\ (r \in Occupants' <=> r \in Occupants)
  BY <1>1, <1>2 DEF Holders, Holds, Calling, Occupants, Occupied
<1>4. PermitInv' /\ SlotInv'
  BY <1>1, <1>2, <1>3, MoveStep
<1>5. FetchInv(r)' /\ StoredInv(r)' /\ OutInv(r)'
  BY <1>1, <1>2 DEF RequestInv, FetchInv, StoredInv, OutInv
<1>6. CostInv(r)'
  <2>1. draft'[r].repaired <=> pc[r] = "repairing"
    <3> DEFINE told == UsedRepair(r)
    <3>1. told <=> pc[r] = "repairing"
      BY DEF UsedRepair
    <3>2. draft'[r].repaired = told
      BY <1>2
    <3> HIDE DEF told
    <3> QED BY <3>1, <3>2
  <2>2. calls'[r] = IF draft'[r].repaired THEN 2 ELSE 1
    BY <1>1, <1>2, <2>1
  <2> QED BY <1>1, <1>2, <2>2 DEF CostInv, Early
<1>7. CheckedInv(r)'
  BY <1>2 DEF CheckedInv
<1>8. CacheInv'
  BY CacheKept
<1> QED BY <1>4, <1>5, <1>6, <1>7, <1>8, OthersKept DEF ExtractionInv, RequestInv

\* An answer that will not do is sent back, once.
LEMMA RepairStep ==
  ASSUME ExtractionInv, NEW r \in Requests, Frame(r), Shape', Post(r), pc[r] = "generating",
         Repair(r), attempts'[r] = 0, UNCHANGED <<req, at, pages, cache>>
  PROVE  ExtractionInv'
<1>1. /\ RequestInv(r) /\ Shape
      /\ posts'[r] = posts[r] + 1 /\ posts[r] \in Nat /\ attempts[r] \in 0 .. MaxRetries
      /\ MaxRetries \in Nat /\ posts[r] <= attempts[r] /\ r \in Holders
  BY PostFacts
<1>2. pc'[r] = "repairing" /\ calls'[r] = 2 /\ UNCHANGED <<out, permits, slots, draft>>
  BY <1>1 DEF Repair, Goto, Shape
<1>3. r \in Holders' /\ (r \in Occupants' <=> r \in Occupants)
  BY <1>2 DEF Holders, Holds, Calling, Occupants, Occupied
<1>4. PermitInv' /\ SlotInv'
  BY <1>1, <1>2, <1>3, MoveStep
<1>5. FetchInv(r)' /\ CheckedInv(r)' /\ StoredInv(r)' /\ OutInv(r)'
  BY <1>1, <1>2 DEF RequestInv, FetchInv, CheckedInv, StoredInv, OutInv
<1>6. CostInv(r)'
  BY <1>1, <1>2 DEF CostInv, Early
<1>7. CacheInv'
  BY CacheKept
<1> QED BY <1>4, <1>5, <1>6, <1>7, OthersKept DEF ExtractionInv, RequestInv

LEMMA AnsweredStep ==
  ASSUME ExtractionInv, NEW r \in Requests, Frame(r), Shape', Answered(r)
  PROVE  ExtractionInv'
<1>1. Post(r) /\ attempts'[r] = 0 /\ UNCHANGED <<req, at, pages, cache>> /\ MaxRetries \in Nat
  BY LimitsAssumption DEF Answered, ExtractionInv, Shape
<1>2. ASSUME NEW kind, Fail(r, kind), UNCHANGED <<draft, calls>> PROVE ExtractionInv'
  BY <1>1, <1>2, CallFails
<1>3. ASSUME NEW answer \in Answers, Judge(r, answer) PROVE ExtractionInv'
  <2> DEFINE data == Coerce(answer, req[r].schema, req[r].missing)
  <2>1. CASE req[r].schema = NoSchema
    <3>1. Finish(r, answer)
      BY <1>3, <2>1 DEF Judge
    <3> QED BY <1>1, <2>1, <3>1, FinishStep
  <2>2. CASE req[r].schema # NoSchema /\ Valid(data, req[r].schema)
    <3>1. Finish(r, data) /\ Listed(data)
      BY <1>3, <2>2, CoerceListed DEF Judge
    <3> HIDE DEF data
    <3> QED BY <1>1, <2>2, <3>1, FinishStep
  <2>3. CASE req[r].schema # NoSchema /\ ~Valid(data, req[r].schema)
    <3>1. \/ pc[r] = "generating" /\ Repair(r)
          \/ Fail(r, "schemaFailed") /\ UNCHANGED <<draft, calls>>
      BY <1>3, <2>3 DEF Judge
    <3> QED BY <1>1, <1>2, <3>1, RepairStep
  <2> QED BY <2>1, <2>2, <2>3
<1>4. PICK answer \in Answers \cup {NotJson} :
         IF answer # NotJson THEN Judge(r, answer)
         ELSE /\ Fail(r, IF pc[r] = "generating" THEN "invalidResponse" ELSE "schemaFailed")
              /\ UNCHANGED <<draft, calls>>
  BY DEF Answered
<1> QED BY <1>2, <1>3, <1>4

LEMMA PostFailsStep ==
  ASSUME ExtractionInv, NEW r \in Requests, Frame(r), Shape', PostFails(r)
  PROVE  ExtractionInv'
<1>1. /\ Post(r) /\ attempts'[r] = attempts[r] + 1
      /\ UNCHANGED <<req, at, pages, calls, draft, cache, cancelled>> /\ Shape
  BY DEF PostFails, ExtractionInv, Shape
<1>2. /\ pc[r] \in {"generating", "repairing"} /\ RequestInv(r)
      /\ posts'[r] = posts[r] + 1 /\ posts[r] \in Nat /\ attempts[r] \in 0 .. MaxRetries
      /\ MaxRetries \in Nat
      /\ pc[r] = "generating" => calls[r] = 1 /\ posts[r] <= attempts[r]
      /\ pc[r] = "repairing" => calls[r] = 2 /\ posts[r] <= MaxRetries + 1 + attempts[r]
      /\ r \in Holders
  BY <1>1, PostFacts
<1>3. CASE Fail(r, IF pc[r] = "generating" THEN "llmError" ELSE "schemaFailed")
  <2>1. attempts'[r] \in 0 .. MaxRetries + 1
    BY <1>1, <1>2
  <2> QED BY <1>1, <1>3, <2>1, CallFails
<1>4. CASE CanRetry(r) /\ UNCHANGED <<pc, out, permits, slots>>
  <2>1. attempts'[r] <= MaxRetries
    BY <1>1, <1>4 DEF CanRetry
  <2>2. r \in Holders' /\ (r \in Occupants' <=> r \in Occupants)
    BY <1>1, <1>2, <1>4 DEF Holders, Holds, Calling, Occupants, Occupied
  <2>3. PermitInv' /\ SlotInv'
    BY <1>2, <1>4, <2>2, MoveStep
  <2>4. FetchInv(r)' /\ CheckedInv(r)' /\ StoredInv(r)' /\ OutInv(r)'
    BY <1>1, <1>2, <1>4 DEF RequestInv, FetchInv, CheckedInv, StoredInv, OutInv
  <2>5. CostInv(r)'
    BY <1>1, <1>2, <1>4, <2>1 DEF CostInv, Early
  <2>6. CacheInv'
    BY <1>1, CacheKept
  <2> QED BY <2>3, <2>4, <2>5, <2>6, OthersKept DEF ExtractionInv, RequestInv
<1> QED BY <1>3, <1>4 DEF PostFails

LEMMA ReportStep ==
  ASSUME ExtractionInv, NEW r \in Requests, Frame(r), Shape', Report(r)
  PROVE  ExtractionInv'
<1> DEFINE d == draft[r].data
           data == Deduplicated(d, req[r].dedupe)
           x == [ok |-> TRUE, hit |-> FALSE, data |-> data,
                 calls |-> IF draft[r].repaired THEN 2 ELSE 1,
                 cited |-> IF req[r].provenance THEN Citations(data, Context[pages[r]]) ELSE {},
                 validated |-> req[r].schema # NoSchema]
<1>1. /\ pc[r] = "checked" /\ Store(r, x) /\ RequestInv(r)
      /\ UNCHANGED <<req, at, pages, attempts, posts, calls, cache>>
  BY DEF Report, ExtractionInv
<1>2. req[r].schema # NoSchema => Valid(data, req[r].schema)
  BY <1>1, DeduplicatedValid DEF RequestInv, CheckedInv
<1> HIDE DEF data
<1>3. IsResult(x) /\ x.hit = FALSE /\ x.calls = calls[r] /\ x.data = data
  BY <1>1 DEF IsResult, RequestInv, CostInv
<1>4. Backed(x, req[r].schema)
  BY <1>2 DEF Backed
<1> HIDE DEF x
<1> QED BY <1>1, <1>3, <1>4, StoreStep

LEMMA MakeRoomStep ==
  ASSUME ExtractionInv, NEW r \in Requests, Frame(r), Shape', MakeRoom(r)
  PROVE  ExtractionInv'
<1>1. /\ pc[r] = "storing" /\ pc'[r] = "inserting" /\ RequestInv(r)
      /\ UNCHANGED <<req, at, pages, attempts, posts, calls, draft, out, permits, slots, cancelled>>
  BY DEF MakeRoom, Goto, ExtractionInv, Shape
<1>2. (r \in Holders' <=> r \in Holders) /\ (r \in Occupants' <=> r \in Occupants)
  BY <1>1 DEF Holders, Holds, Calling, Occupants, Occupied
<1>3. PermitInv' /\ SlotInv'
  BY <1>1, <1>2, MoveStep
<1>4. FetchInv(r)' /\ CostInv(r)' /\ CheckedInv(r)' /\ StoredInv(r)' /\ OutInv(r)'
  BY <1>1 DEF RequestInv, FetchInv, CostInv, CheckedInv, StoredInv, OutInv, Early
<1>5. DOMAIN cache' \subseteq DOMAIN cache /\ \A k \in DOMAIN cache' : cache'[k] = cache[k]
  BY DEF MakeRoom
<1>6. CacheInv'
  BY <1>5, CacheKept
<1> QED BY <1>3, <1>4, <1>6, OthersKept DEF ExtractionInv, RequestInv

\* The result enters the cache under its schema, as the request is done.
LEMMA InsertStep ==
  ASSUME ExtractionInv, NEW r \in Requests, Frame(r), Shape', Insert(r)
  PROVE  ExtractionInv'
<1> DEFINE x == draft[r]
<1>1. /\ pc[r] = "inserting" /\ Return(r, x) /\ RequestInv(r) /\ calls'[r] = calls[r]
      /\ UNCHANGED <<req, at, pages, attempts, posts, calls, draft, cancelled>>
  BY DEF Insert, ExtractionInv
<1>2. pc'[r] = "done" /\ out'[r] = x /\ PermitInv' /\ SlotInv'
  BY <1>1, ReturnStep
<1>3. IsResult(x) /\ x.hit = FALSE /\ x.calls = calls[r] /\ Backed(x, req[r].schema)
  BY <1>1 DEF RequestInv, StoredInv
<1>4. FetchInv(r)' /\ CostInv(r)' /\ CheckedInv(r)' /\ StoredInv(r)'
  BY <1>1, <1>2 DEF RequestInv, FetchInv, CostInv, CheckedInv, StoredInv, Early
<1> HIDE DEF x
<1>5. OutInv(r)'
  BY <1>1, <1>2, <1>3 DEF OutInv, Reported
<1>6. CacheInv'
  <2>1. CASE ~Cached(r)
    BY <2>1, CacheKept DEF Insert
  <2>2. CASE Cached(r)
    <3>1. cache' = [k \in DOMAIN cache \cup {Key(r)} |-> IF k = Key(r) THEN x ELSE cache[k]]
      BY <2>2 DEF Insert, x
    <3>2. /\ DOMAIN cache' = DOMAIN cache \cup {Key(r)}
          /\ cache'[Key(r)] = x
          /\ \A k \in DOMAIN cache : k # Key(r) => cache'[k] = cache[k]
      BY <3>1
    <3>3. Key(r)[2] = req[r].schema
      BY DEF Key
    <3> HIDE DEF x
    <3>4. ASSUME NEW k \in DOMAIN cache', k # Key(r)
          PROVE  /\ IsResult(cache'[k]) /\ Backed(cache'[k], k[2])
                 /\ \E s \in Requests : pc'[s] = "done" /\ calls'[s] = cache'[k].calls
      <4>1. k \in DOMAIN cache /\ cache'[k] = cache[k]
        BY <3>2, <3>4
      <4>2. PICK s \in Requests : pc[s] = "done" /\ calls[s] = cache[k].calls
        BY <4>1 DEF ExtractionInv, CacheInv
      <4>3. s # r /\ pc'[s] = "done" /\ calls'[s] = calls[s]
        BY <1>1, <4>2 DEF Frame
      <4> QED BY <4>1, <4>2, <4>3 DEF ExtractionInv, CacheInv
    <3>5. /\ IsResult(cache'[Key(r)]) /\ Backed(cache'[Key(r)], Key(r)[2])
          /\ pc'[r] = "done" /\ calls'[r] = cache'[Key(r)].calls
      BY <1>1, <1>2, <1>3, <3>2, <3>3
    <3> QED BY <3>4, <3>5 DEF CacheInv
  <2> QED BY <2>1, <2>2
<1> QED BY <1>2, <1>4, <1>5, <1>6, OthersKept DEF ExtractionInv, RequestInv

\* The token is set for all at once.
LEMMA CancelStep ==
  ASSUME ExtractionInv, Cancel
  PROVE  ExtractionInv'
<1>1. /\ UNCHANGED <<pc, req, at, pages, attempts, posts, calls, draft, out, permits, slots, cache>>
      /\ cancelled' \in BOOLEAN
  BY DEF Cancel
<1>2. Shape' /\ CacheInv'
  BY <1>1 DEF ExtractionInv, Shape, CacheInv
<1>3. Holders' = Holders /\ Occupants' = Occupants
  BY <1>1 DEF Holders, Holds, Occupants, Occupied
<1>4. PermitInv' /\ SlotInv'
  BY <1>1, <1>3 DEF ExtractionInv, PermitInv, SlotInv
<1>5. ASSUME NEW r \in Requests PROVE RequestInv(r)'
  BY <1>1 DEF ExtractionInv, RequestInv, FetchInv, CostInv, CheckedInv, StoredInv, OutInv, Reported
<1> QED BY <1>2, <1>4, <1>5 DEF ExtractionInv

LEMMA ExtractionStutters ==
  ASSUME ExtractionInv, UNCHANGED vars
  PROVE  ExtractionInv'
<1>1. /\ UNCHANGED <<pc, req, at, pages, attempts, posts, calls, draft, out, permits, slots, cache>>
      /\ cancelled' = cancelled
  BY DEF vars
<1>2. Shape' /\ CacheInv'
  BY <1>1 DEF ExtractionInv, Shape, CacheInv
<1>3. Holders' = Holders /\ Occupants' = Occupants
  BY <1>1 DEF Holders, Holds, Occupants, Occupied
<1>4. PermitInv' /\ SlotInv'
  BY <1>1, <1>3 DEF ExtractionInv, PermitInv, SlotInv
<1>5. ASSUME NEW r \in Requests PROVE RequestInv(r)'
  BY <1>1 DEF ExtractionInv, RequestInv, FetchInv, CostInv, CheckedInv, StoredInv, OutInv, Reported
<1> QED BY <1>2, <1>4, <1>5 DEF ExtractionInv

LEMMA ExtractionStarts == Init => ExtractionInv
<1> SUFFICES ASSUME Init PROVE ExtractionInv
  OBVIOUS
<1>1. Shape
  BY DEF Init, Shape, Steps
<1>2. Holders = {} /\ Occupants = {}
  BY DEF Init, Holders, Holds, Calling, Occupants, Occupied
<1>3. MaxConcurrency \in Nat /\ Permits \in Nat /\ MaxRetries \in Nat
  BY LimitsAssumption
<1>4. PermitInv /\ SlotInv
  BY <1>2, <1>3, FS_EmptySet DEF Init, PermitInv, SlotInv
<1>5. CacheInv
  BY DEF Init, CacheInv
<1>6. ASSUME NEW r \in Requests PROVE RequestInv(r)
  <2>1. /\ pc[r] = "new" /\ req[r] \in Kinds /\ at[r] = 1 /\ pages[r] = << >> /\ attempts[r] = 0
        /\ posts[r] = 0 /\ calls[r] = 0 /\ out[r] = Nothing
    BY DEF Init
  <2>2. Len(req[r].urls) \in Nat
    BY <2>1, InputsAssumption
  <2>3. << >> \in Seq(Range(PageOf))
    OBVIOUS
  <2>4. FetchInv(r)
    BY <2>1, <2>2, <2>3 DEF FetchInv
  <2>5. CostInv(r)
    BY <1>3, <2>1 DEF CostInv, Early
  <2> QED BY <2>1, <2>4, <2>5 DEF RequestInv, CheckedInv, StoredInv, OutInv
<1> QED BY <1>1, <1>4, <1>5, <1>6 DEF ExtractionInv

LEMMA ExtractionStep ==
  ASSUME ExtractionInv, NEW r \in Requests, Step(r)
  PROVE  ExtractionInv'
<1>1. Frame(r) /\ Shape'
  BY FrameStep
<1>2. CASE Spawn(r)
  BY <1>1, <1>2, SpawnStep
<1>3. CASE Begin(r)
  BY <1>1, <1>3, BeginStep
<1>4. CASE Fetch(r)
  BY <1>1, <1>4, FetchStep
<1>5. CASE LookAt(r)
  BY <1>1, <1>5, LookAtStep
<1>6. CASE SelectContext(r)
  BY <1>1, <1>6, SelectContextStep
<1>7. CASE AcquirePermit(r)
  BY <1>1, <1>7, AcquireStep
<1>8. CASE Answered(r)
  BY <1>1, <1>8, AnsweredStep
<1>9. CASE PostFails(r)
  BY <1>1, <1>9, PostFailsStep
<1>10. CASE Report(r)
  BY <1>1, <1>10, ReportStep
<1>11. CASE MakeRoom(r)
  BY <1>1, <1>11, MakeRoomStep
<1>12. CASE Insert(r)
  BY <1>1, <1>12, InsertStep
<1>13. CASE Panic(r)
  BY <1>1, <1>13, PanicStep
<1> QED BY <1>2, <1>3, <1>4, <1>5, <1>6, <1>7, <1>8, <1>9, <1>10, <1>11, <1>12, <1>13 DEF Step

\* The inductive invariant holds for every set of requests, pages, schemas and
\* answers, under every limit and every interleaving.
THEOREM ExtractionInvariant == Spec => []ExtractionInv
<1>1. Init => ExtractionInv
  BY ExtractionStarts
<1>2. ExtractionInv /\ [Next]_vars => ExtractionInv'
  <2> SUFFICES ASSUME ExtractionInv, [Next]_vars PROVE ExtractionInv'
    OBVIOUS
  <2>1. CASE Cancel
    BY <2>1, CancelStep
  <2>2. CASE \E r \in Requests : Step(r)
    BY <2>2, ExtractionStep
  <2>3. CASE UNCHANGED vars
    BY <2>3, ExtractionStutters
  <2> QED BY <2>1, <2>2, <2>3 DEF Next
<1> QED BY <1>1, <1>2, PTL DEF Spec

-----------------------------------------------------------------------------
\* A request costs at most two calls to the model, each of at most 1 +
\* MaxRetries attempts; permits and slots are never given twice nor lost.
THEOREM ExtractionTypeCorrect == Spec => []TypeOK
<1>1. ExtractionInv => TypeOK
  <2> SUFFICES ASSUME ExtractionInv PROVE TypeOK
    OBVIOUS
  <2>1. MaxConcurrency \in Nat /\ Permits \in Nat /\ MaxRetries \in Nat
    BY LimitsAssumption
  <2>2. permits \in 0 .. Permits
    <3>1. Cardinality(Holders) \in Nat
      BY FS_CardinalityType DEF ExtractionInv, PermitInv
    <3> QED BY <2>1, <3>1 DEF ExtractionInv, PermitInv
  <2>3. slots \in 0 .. MaxConcurrency
    <3>1. Cardinality(Occupants) \in Nat
      BY FS_CardinalityType DEF ExtractionInv, SlotInv
    <3> QED BY <2>1, <3>1 DEF ExtractionInv, SlotInv
  <2>4. ASSUME NEW r \in Requests
        PROVE  /\ req[r] \in Kinds
               /\ at[r] \in 1 .. Len(req[r].urls) + 1
               /\ Range(pages[r]) \subseteq Range(PageOf)
               /\ calls[r] \in 0 .. 2
               /\ attempts[r] \in 0 .. MaxRetries + 1
               /\ posts[r] \in 0 .. calls[r] * (MaxRetries + 1)
    <3>1. FetchInv(r) /\ CostInv(r)
      BY DEF ExtractionInv, RequestInv
    <3>2. Range(pages[r]) \subseteq Range(PageOf)
      <4>1. pages[r] \in Seq(Range(PageOf))
        BY <3>1 DEF FetchInv
      <4>2. \A i \in DOMAIN pages[r] : pages[r][i] \in Range(PageOf)
        BY <4>1, ElementOfSeq
      <4> QED BY <4>2 DEF Range
    <3>3. posts[r] \in 0 .. calls[r] * (MaxRetries + 1)
      <4>1. CASE calls[r] = 0
        BY <2>1, <3>1, <4>1 DEF CostInv
      <4>2. CASE calls[r] = 1
        BY <2>1, <3>1, <4>2 DEF CostInv
      <4>3. CASE calls[r] = 2
        BY <2>1, <3>1, <4>3 DEF CostInv
      <4> QED BY <3>1, <4>1, <4>2, <4>3 DEF CostInv
    <3> QED BY <3>1, <3>2, <3>3 DEF FetchInv, CostInv
  <2> QED BY <2>2, <2>3, <2>4 DEF ExtractionInv, Shape, TypeOK
<1> QED BY <1>1, ExtractionInvariant, PTL

\* A result that says it is validated satisfies the schema of the request it
\* answers, by whichever way it came: also out of the cache, where another
\* request put it under the same schema.
THEOREM ValidatedIsValidAlways == Spec => []ValidatedIsValid
<1>1. ExtractionInv => ValidatedIsValid
  BY DEF ExtractionInv, RequestInv, OutInv, Backed, ValidatedIsValid
<1> QED BY <1>1, ExtractionInvariant, PTL

\* The calls a result reports are those made for it, or for another request
\* when the result comes out of the cache.
THEOREM CallsReportedAlways == Spec => []CallsReported
<1>1. ExtractionInv => CallsReported
  BY DEF ExtractionInv, RequestInv, OutInv, Reported, CallsReported
<1> QED BY <1>1, ExtractionInvariant, PTL
=============================================================================
