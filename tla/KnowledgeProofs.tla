-------------------------- MODULE KnowledgeProofs --------------------------
(***************************************************************************)
(* Proofs about Knowledge: the count of permits, the bound of the cache    *)
(* and the names of indexes; and that an indexed document is found,        *)
(* however calls that put, delete and rebuild meet, for all sets of calls, *)
(* indexes and documents, every provider and all limits.  The last part is *)
(* about Chunking, which makes the chunks: no text of a document is lost,  *)
(* a chunk keeps within its bound and its section, for all documents.      *)
(***************************************************************************)
EXTENDS Knowledge, Chunking, FiniteSetTheorems, SequenceTheorems, WellFoundedInduction, TLAPS

Unmade   == {"new", "absent", "naming", "adding"}
Indexing == {"document", "embedding", "sending", "collecting", "upserting", "posting",
             "registering", "counting"}
Asking == {"query", "asking", "embeddingQuery", "nearest", "matching", "packing", "answering"}
Steps == Unmade \cup Indexing \cup Asking \cup
         {"removing", "unnaming", "emptying", "unposting", "inverting", "content", "listing",
          "between", "stats", "done"}

Shape ==
    /\ pc \in [Calls -> Steps]
    /\ DOMAIN at = Calls /\ DOMAIN doc = Calls /\ DOMAIN todo = Calls /\ DOMAIN snapshot = Calls
    /\ DOMAIN batches = Calls /\ DOMAIN sent = Calls /\ DOMAIN got = Calls /\ DOMAIN vecs = Calls
    /\ DOMAIN place = Calls /\ DOMAIN hits = Calls /\ DOMAIN reply = Calls
    /\ req \in Requests

\* Which steps are those of which call, and what they work on.
CallInv(c) ==
    /\ pc[c] \in {"absent", "naming", "adding", "content", "stats"} => req[c].op = "put"
    /\ pc[c] \in {"removing", "unnaming"} => req[c].op = "delete"
    /\ pc[c] \in {"emptying", "unposting", "inverting"} => req[c].op \in {"delete", "rebuild"}
    /\ pc[c] \in {"listing", "between"} => req[c].op = "rebuild"
    /\ pc[c] \in Indexing => req[c].op \in {"put", "rebuild"} /\ doc[c] \in Docs
    /\ pc[c] \in Unmade \cup {"content"} => doc[c] = Nothing
    /\ pc[c] \in Asking => req[c].op \in {"search", "retrieve", "answer"}
    /\ doc[c] \in Docs \cup {Nothing}
    /\ snapshot[c] \subseteq Docs /\ todo[c] \subseteq Docs
    /\ req[c].op = "rebuild" /\ Answered(c) => todo[c] = {}

\* An index that is there, or that a call works at, was made; a call that deletes
\* one has taken it away before it clears the stores.
Made(i) == i \in DOMAIN Existing \/ (i \in Calls /\ pc[i] \notin Unmade)
PlaceInv(c) ==
    /\ IF pc[c] \in Unmade THEN at[c] = Nothing
       ELSE Made(at[c]) \/ (pc[c] = "done" /\ at[c] = Nothing)
    /\ req[c].op = "delete" /\ pc[c] \in {"unnaming", "emptying", "unposting", "inverting"}
          => at[c] \notin DOMAIN indexes

RegistryInv ==
    /\ \A i \in DOMAIN indexes : i \in Ids /\ Made(i)
    /\ documents \subseteq Docs
    /\ \A n \in DOMAIN names : names[n] \in Ids /\ NameOf(names[n]) = n
    /\ NamesLead

\* Each task is of a batch that was sent and not collected, or of a call that failed.
TaskInv(t) ==
    /\ t = [call |-> t.call, n |-> t.n, doc |-> t.doc, status |-> t.status, places |-> t.places,
            came |-> t.came, next |-> t.next, room |-> t.room]
    /\ t.came \in Nat /\ t.next \in Nat /\ t.room \in BOOLEAN
    /\ t.room => t.status = "filling" /\ t.next <= t.came
    /\ t.call \in Calls /\ t.doc \in Docs /\ t.places \in Seq(DOMAIN ChunksOf[t.doc])
    /\ t.n \in Nat
    /\ pc[t.call] # "done" =>
          /\ pc[t.call] \in {"sending", "collecting"}
          /\ t.n \in got[t.call] + 1 .. sent[t.call]
          /\ t.doc = doc[t.call] /\ t.places = batches[t.call][t.n]
TasksInv ==
    /\ IsFiniteSet(tasks) /\ \A t \in tasks : TaskInv(t)
    /\ \A t, u \in tasks : t.call = u.call /\ t.n = u.n => t = u

PermitInv ==
    /\ permits \in Nat
    /\ Cardinality({t \in tasks : UnderWay(t)})
          + Cardinality({c \in Calls : pc[c] = "embeddingQuery"}) = Permits - permits

CacheInv ==
    /\ IsFiniteSet(DOMAIN cache) /\ CacheBounded
    /\ \A text \in DOMAIN cache : cache[text] = text

\* The embeddings of a document are those of its chunks, but for the batches that
\* were not collected yet.
TextAt(d, p) == TextOf[ChunksOf[d][p]]
EmbeddingInv(c) ==
    /\ pc[c] \in {"sending", "collecting"} =>
          /\ batches[c] \in Seq(Seq(DOMAIN ChunksOf[doc[c]]))
          /\ got[c] \in Nat /\ sent[c] \in Nat
          /\ IF pc[c] = "sending" THEN got[c] = 0 /\ sent[c] < Len(batches[c])
             ELSE got[c] < sent[c] /\ sent[c] = Len(batches[c])
          /\ DOMAIN vecs[c] = DOMAIN ChunksOf[doc[c]]
          /\ \A p \in DOMAIN ChunksOf[doc[c]] :
                \/ vecs[c][p] = TextAt(doc[c], p)
                \/ \E n \in got[c] + 1 .. Len(batches[c]) : p \in Range(batches[c][n])
    /\ pc[c] = "upserting" => \A p \in DOMAIN ChunksOf[doc[c]] : vecs[c][p] = TextAt(doc[c], p)
    /\ pc[c] \in {"embedding", "sending", "collecting", "upserting"} =>
          place[c] = 1 /\ ChunksOf[doc[c]] # << >>
    /\ pc[c] = "posting" => place[c] \in DOMAIN ChunksOf[doc[c]]

EntriesInv ==
    /\ \A v \in vectors : v.vector = TextOf[v.chunk]
    /\ \A e \in postings : e.index \in Ids /\ e.chunk \in Chunks
    /\ inverted \subseteq Ids \X Chunks

\* What is in a store: chunk x of index i.
Stores == {"vectors", "postings", "inverted"}
Has(w, i, x) ==
    CASE w = "vectors"  -> EmbeddingsEnabled => \E v \in vectors : v.index = i /\ v.chunk = x
      [] w = "postings" -> \E p \in postings : p.index = i /\ p.chunk = x
      [] w = "inverted" -> <<i, x>> \in inverted

\* A call is through with a document, or has put its chunk k into a store.
Through(c, d) ==
    \/ req[c].op = "put" /\ doc[c] = d /\ (pc[c] = "stats" \/ Answered(c))
    \/ /\ req[c].op = "rebuild" /\ d \in snapshot[c] \ todo[c]
       /\ \/ pc[c] = "between" \/ Answered(c)
          \/ (pc[c] \in Indexing /\ doc[c] # d)
Supplies(w, c, d, k) ==
    \/ Through(c, d)
    \/ /\ doc[c] = d
       /\ \/ pc[c] \in {"registering", "counting"}
          \/ pc[c] = "posting" /\ (w = "vectors" \/ k < place[c])

\* A rebuild has emptied a store of what it has not put back yet.
Before(w) ==
    CASE w = "vectors"  -> {"emptying"}
      [] w = "postings" -> {"emptying", "unposting"}
      [] w = "inverted" -> {"emptying", "unposting", "inverting"}
Owes(w, r, d, k) == req[r].op = "rebuild" /\ pc[r] \notin Before(w) /\ ~Supplies(w, r, d, k)

KeptInv ==
    \A w \in Stores : \A i \in DOMAIN indexes : \A d \in Docs : \A k \in DOMAIN ChunksOf[d] :
        (\/ d \in DOMAIN Stored /\ Stored[d] = i
         \/ \E c \in Calls : at[c] = i /\ Supplies(w, c, d, k))
        => \/ Has(w, i, ChunksOf[d][k])
           \/ \E r \in Calls : at[r] = i /\ Owes(w, r, d, k)

\* What is in a store is of the tenant of its index.
TenantsInv == \A e \in vectors \cup postings : e.chunk \in Chunks /\ e.tenant = TenantOf(e.index)

\* Matches of which each is of a chunk of C, no chunk twice, and at most n.
Once(hs) == \A i, j \in DOMAIN hs : hs[i].chunk = hs[j].chunk => i = j
Matched(hs, C) == hs \in Seq(Range(hs)) /\ \A i \in DOMAIN hs : hs[i].chunk \in C
Brings(hs, C, n) == Matched(hs, C) /\ Once(hs) /\ Len(hs) <= n

\* What a call that reads has found so far, it may see; and what it packed fits.
Seen(c) ==
    {x \in Chunks : /\ DocOf[x] \in req[c].among
                    /\ req[c].mode = "semantic" => DocOf[x] \in req[c].tagged
                    /\ req[c].tenant \in {Nothing, TenantOf(at[c])}}
Fits(c, hs) ==
    /\ Once(hs) /\ Len(hs) <= MaxChunks
    /\ Len(hs) <= 1 \/ (Len(hs) <= req[c].limit /\ TokensIn(ChunkIds(hs)) <= MaxContext)
HitsInv(c) ==
    /\ pc[c] = "new" => hits[c] = << >>
    /\ pc[c] \in Asking => Matched(hits[c], Seen(c))
    /\ pc[c] = "matching" => Matched(vecs[c], Seen(c)) /\ req[c].mode # "semantic"
    /\ pc[c] \in {"packing", "answering"} => req[c].op # "search"
    /\ pc[c] = "answering" => hits[c] # << >> /\ Fits(c, hits[c])
    /\ req[c].op \in {"search", "retrieve", "answer"} /\ Answered(c) => Grounded(c)

KnowledgeInv ==
    /\ Shape /\ RegistryInv /\ TasksInv /\ PermitInv /\ CacheInv /\ EntriesInv /\ KeptInv /\ TenantsInv
    /\ \A c \in Calls : CallInv(c) /\ PlaceInv(c) /\ EmbeddingInv(c) /\ HitsInv(c)

-----------------------------------------------------------------------------
\* A step of a call changes what is its own and, by its place, what is shared.

Own(c) ==
    /\ req' = req /\ pc' \in [Calls -> Steps]
    /\ DOMAIN at' = Calls /\ DOMAIN doc' = Calls /\ DOMAIN todo' = Calls /\ DOMAIN snapshot' = Calls
    /\ DOMAIN batches' = Calls /\ DOMAIN sent' = Calls /\ DOMAIN got' = Calls
    /\ DOMAIN vecs' = Calls /\ DOMAIN place' = Calls /\ DOMAIN hits' = Calls /\ DOMAIN reply' = Calls
    /\ \A b \in Calls \ {c} :
          /\ pc'[b] = pc[b] /\ at'[b] = at[b] /\ doc'[b] = doc[b] /\ todo'[b] = todo[b]
          /\ snapshot'[b] = snapshot[b] /\ batches'[b] = batches[b] /\ sent'[b] = sent[b]
          /\ got'[b] = got[b] /\ vecs'[b] = vecs[b] /\ place'[b] = place[b] /\ hits'[b] = hits[b]
          /\ reply'[b] = reply[b]

Registers(c) ==
    /\ pc[c] \notin {"new", "adding"} => at'[c] = at[c]
    /\ pc[c] \notin {"content", "between"} => doc'[c] = doc[c]
    /\ pc[c] \notin {"listing", "between"} => todo'[c] = todo[c]
    /\ pc[c] # "listing" => snapshot'[c] = snapshot[c]
    /\ pc[c] # "embedding" => batches'[c] = batches[c]
    /\ pc[c] \notin {"embedding", "sending"} => sent'[c] = sent[c]
    /\ pc[c] \notin {"embedding", "collecting"} => got'[c] = got[c]
    /\ pc[c] \notin {"embedding", "collecting", "nearest"} => vecs'[c] = vecs[c]
    /\ pc[c] \in Indexing \ {"document", "posting"} => place'[c] = place[c]
    /\ pc[c] \notin Asking => hits'[c] = hits[c]

Shared(c) ==
    /\ pc[c] \notin {"adding", "removing", "counting"} => indexes' = indexes
    /\ pc[c] \notin {"naming", "unnaming"} => names' = names
    /\ pc[c] # "registering" => documents' = documents
    /\ pc[c] \notin {"emptying", "upserting"} => vectors' = vectors
    /\ pc[c] \notin {"unposting", "posting"} => postings' = postings
    /\ pc[c] \notin {"inverting", "posting"} => inverted' = inverted
    /\ pc[c] \notin {"sending", "collecting"} => tasks' = tasks
    /\ pc[c] \notin {"sending", "asking", "embeddingQuery"} => permits' = permits
    /\ cache' = cache

Goes(c) ==
    CASE pc[c] = "new"        -> pc'[c] \in {"absent", "content", "removing", "emptying", "query", "done"}
      [] pc[c] = "absent"     -> pc'[c] \in {"naming", "done"}
      [] pc[c] = "naming"     -> pc'[c] = "adding"
      [] pc[c] = "adding"     -> pc'[c] = "content"
      [] pc[c] = "removing"   -> pc'[c] = "unnaming"
      [] pc[c] = "unnaming"   -> pc'[c] = "emptying"
      [] pc[c] = "emptying"   -> pc'[c] = "unposting"
      [] pc[c] = "unposting"  -> pc'[c] = "inverting"
      [] pc[c] = "inverting"  -> pc'[c] \in {"listing", "done"}
      [] pc[c] = "content"    -> pc'[c] \in {"document", "stats", "done"}
      [] pc[c] = "listing"    -> pc'[c] = "between"
      [] pc[c] = "between"    -> pc'[c] \in {"document", "done"}
      [] pc[c] = "stats"      -> pc'[c] = "done"
      [] pc[c] = "document"   -> pc'[c] \in {"between", "stats", "embedding", "posting", "done"}
      [] pc[c] = "embedding"  -> pc'[c] \in {"upserting", "sending"}
      [] pc[c] = "sending"    -> pc'[c] \in {"sending", "collecting"}
      [] pc[c] = "collecting" -> pc'[c] \in {"collecting", "upserting", "done"}
      [] pc[c] = "upserting"  -> pc'[c] = "posting"
      [] pc[c] = "posting"    -> pc'[c] \in {"posting", "registering"}
      [] pc[c] = "registering" -> pc'[c] = "counting"
      [] pc[c] = "counting"   -> pc'[c] \in {"between", "stats"}
      [] pc[c] \in Asking     ->
            /\ pc'[c] \in Asking \cup {"done"}
            /\ pc'[c] = "embeddingQuery" <=> pc[c] = "asking"
      [] OTHER                -> FALSE

\* A put is answered well at its end, and a rebuild when nothing is left.
Ends(c) ==
    pc'[c] = "done" /\ reply'[c].ok =>
        /\ req[c].op = "put" => pc[c] = "stats"
        /\ req[c].op = "rebuild" => pc[c] = "between" /\ todo[c] = {} /\ todo'[c] = {}

Frame(c) == Own(c) /\ Registers(c) /\ Shared(c) /\ Goes(c) /\ Ends(c)

\* Every action of a call keeps within the frame.
LEMMA StepFrame ==
  ASSUME NEW c \in Calls, Shape, CallInv(c), Step(c)
  PROVE  Frame(c)
<1> USE DEF Shape, CallInv, Frame, Own, Registers, Shared, Goes, Ends, Goto, Set,
           registry, stores, batcher, indexing, reading
<1> USE DEF Steps, Unmade, Indexing, Asking
<1>1. CASE Resolve(c)
  BY <1>1 DEF Resolve, Fail, Return
<1>2. CASE CheckName(c)
  BY <1>2 DEF CheckName, Fail, Return
<1>3. CASE InsertName(c)
  BY <1>3 DEF InsertName
<1>4. CASE InsertIndex(c)
  BY <1>4 DEF InsertIndex
<1>5. CASE RemoveIndex(c)
  BY <1>5 DEF RemoveIndex
<1>6. CASE RemoveName(c)
  BY <1>6 DEF RemoveName
<1>7. CASE ClearVectors(c)
  BY <1>7 DEF ClearVectors
<1>8. CASE ClearPostings(c)
  BY <1>8 DEF ClearPostings
<1>9. CASE ClearInverted(c)
  BY <1>9 DEF ClearInverted, Done, Return
<1>10. CASE Content(c)
  BY <1>10 DEF Content, Fail, Return
<1>11. CASE List(c)
  BY <1>11 DEF List
<1>12. CASE NextDocument(c)
  BY <1>12 DEF NextDocument, Done, Return
<1>13. CASE Begin(c)
  BY <1>13 DEF Begin, Fail, Return, Indexed
<1>14. CASE Stats(c)
  BY <1>14 DEF Stats, Fail, Done, Return
<1>15. CASE LookUp(c)
  BY <1>15 DEF LookUp
<1>16. CASE Send(c)
  BY <1>16 DEF Send
<1>17. CASE Collect(c)
  BY <1>17 DEF Collect, Fail, Return
<1>18. CASE Upsert(c)
  BY <1>18 DEF Upsert
<1>19. CASE InsertChunk(c)
  BY <1>19 DEF InsertChunk
<1>20. CASE Register(c)
  BY <1>20 DEF Register
<1>21. CASE Count(c)
  BY <1>21 DEF Count, Indexed
<1>22. CASE Query(c)
  BY <1>22 DEF Query, Found, Fail, Return, Matches
<1>23. CASE AcquirePermit(c)
  BY <1>23 DEF AcquirePermit
<1>24. CASE QueryEmbedded(c)
  BY <1>24 DEF QueryEmbedded, Found, Fail, Return, Matches
<1>25. CASE SearchVectors(c)
  BY <1>25 DEF SearchVectors, Found, Return, Matches
<1>26. CASE SearchLexical(c)
  BY <1>26 DEF SearchLexical, Found, Return, Matches
<1>27. CASE Pack(c)
  BY <1>27 DEF Pack, Return, Matches
<1>28. CASE Answer(c)
  BY <1>28 DEF Answer, Fail, Return, Matches
<1> QED BY <1>1, <1>2, <1>3, <1>4, <1>5, <1>6, <1>7, <1>8, <1>9, <1>10, <1>11, <1>12,
          <1>13, <1>14, <1>15, <1>16, <1>17, <1>18, <1>19, <1>20, <1>21, <1>22,
          <1>23, <1>24, <1>25, <1>26, <1>27, <1>28 DEF Step

\* The places of Step's actions: each is where one action is taken.
Acts(c) ==
    /\ pc[c] = "new" => Resolve(c)
    /\ pc[c] = "naming" => InsertName(c)
    /\ pc[c] = "adding" => InsertIndex(c)
    /\ pc[c] = "removing" => RemoveIndex(c)
    /\ pc[c] = "unnaming" => RemoveName(c)
    /\ pc[c] = "emptying" => ClearVectors(c)
    /\ pc[c] = "unposting" => ClearPostings(c)
    /\ pc[c] = "inverting" => ClearInverted(c)
    /\ pc[c] = "content" => Content(c)
    /\ pc[c] = "listing" => List(c)
    /\ pc[c] = "between" => NextDocument(c)
    /\ pc[c] = "document" => Begin(c)
    /\ pc[c] = "embedding" => LookUp(c)
    /\ pc[c] = "sending" => Send(c)
    /\ pc[c] = "collecting" => Collect(c)
    /\ pc[c] = "upserting" => Upsert(c)
    /\ pc[c] = "posting" => InsertChunk(c)
    /\ pc[c] = "registering" => Register(c)
    /\ pc[c] = "counting" => Count(c)
    /\ pc[c] = "asking" => AcquirePermit(c)
    /\ pc[c] = "query" => Query(c)
    /\ pc[c] = "embeddingQuery" => QueryEmbedded(c)
    /\ pc[c] = "nearest" => SearchVectors(c)
    /\ pc[c] = "matching" => SearchLexical(c)
    /\ pc[c] = "packing" => Pack(c)
    /\ pc[c] = "answering" => Answer(c)

\* Each action moves the call as its step says.
LEMMA StepActs ==
  ASSUME NEW c \in Calls, Step(c)
  PROVE  Acts(c)
<1> USE DEF Acts
<1>1. CASE Resolve(c)
  BY <1>1 DEF Resolve
<1>2. CASE CheckName(c)
  BY <1>2 DEF CheckName
<1>3. CASE InsertName(c)
  BY <1>3 DEF InsertName
<1>4. CASE InsertIndex(c)
  BY <1>4 DEF InsertIndex
<1>5. CASE RemoveIndex(c)
  BY <1>5 DEF RemoveIndex
<1>6. CASE RemoveName(c)
  BY <1>6 DEF RemoveName
<1>7. CASE ClearVectors(c)
  BY <1>7 DEF ClearVectors
<1>8. CASE ClearPostings(c)
  BY <1>8 DEF ClearPostings
<1>9. CASE ClearInverted(c)
  BY <1>9 DEF ClearInverted
<1>10. CASE Content(c)
  BY <1>10 DEF Content
<1>11. CASE List(c)
  BY <1>11 DEF List
<1>12. CASE NextDocument(c)
  BY <1>12 DEF NextDocument
<1>13. CASE Begin(c)
  BY <1>13 DEF Begin
<1>14. CASE Stats(c)
  BY <1>14 DEF Stats
<1>15. CASE LookUp(c)
  BY <1>15 DEF LookUp
<1>16. CASE Send(c)
  BY <1>16 DEF Send
<1>17. CASE Collect(c)
  BY <1>17 DEF Collect
<1>18. CASE Upsert(c)
  BY <1>18 DEF Upsert
<1>19. CASE InsertChunk(c)
  BY <1>19 DEF InsertChunk
<1>20. CASE Register(c)
  BY <1>20 DEF Register
<1>21. CASE Count(c)
  BY <1>21 DEF Count
<1>22. CASE Query(c)
  BY <1>22 DEF Query
<1>23. CASE AcquirePermit(c)
  BY <1>23 DEF AcquirePermit
<1>24. CASE QueryEmbedded(c)
  BY <1>24 DEF QueryEmbedded
<1>25. CASE SearchVectors(c)
  BY <1>25 DEF SearchVectors
<1>26. CASE SearchLexical(c)
  BY <1>26 DEF SearchLexical
<1>27. CASE Pack(c)
  BY <1>27 DEF Pack
<1>28. CASE Answer(c)
  BY <1>28 DEF Answer
<1> QED BY <1>1, <1>2, <1>3, <1>4, <1>5, <1>6, <1>7, <1>8, <1>9, <1>10, <1>11, <1>12,
          <1>13, <1>14, <1>15, <1>16, <1>17, <1>18, <1>19, <1>20, <1>21, <1>22,
          <1>23, <1>24, <1>25, <1>26, <1>27, <1>28 DEF Step

\* The part of the invariant that is about one call.
CallsInv == \A c \in Calls : CallInv(c) /\ PlaceInv(c) /\ EmbeddingInv(c)

-----------------------------------------------------------------------------
\* Another call is where it was.
LEMMA OthersStay ==
  ASSUME KnowledgeInv, NEW c \in Calls, Frame(c), NEW b \in Calls, b # c
  PROVE  CallInv(b)' /\ EmbeddingInv(b)'
<1>1. CallInv(b) /\ EmbeddingInv(b)
  BY DEF KnowledgeInv
<1>2. /\ pc'[b] = pc[b] /\ at'[b] = at[b] /\ doc'[b] = doc[b] /\ todo'[b] = todo[b]
      /\ snapshot'[b] = snapshot[b] /\ batches'[b] = batches[b] /\ sent'[b] = sent[b]
      /\ got'[b] = got[b] /\ vecs'[b] = vecs[b] /\ place'[b] = place[b] /\ reply'[b] = reply[b]
      /\ req' = req
  BY DEF Frame, Own
<1>3. CallInv(b)'
  BY <1>1, <1>2 DEF CallInv, Answered
<1>4. EmbeddingInv(b)'
  BY <1>1, <1>2 DEF EmbeddingInv
<1> QED BY <1>3, <1>4

\* The call that takes a step is where its kind of request may be.
LEMMA CallStep ==
  ASSUME KnowledgeInv, NEW c \in Calls, Frame(c), Acts(c)
  PROVE  CallInv(c)'
<1> USE DEF CallInv, Indexing, Unmade, Asking, Answered
<1>1. /\ Shape /\ CallInv(c) /\ documents \subseteq Docs /\ req' = req
  BY DEF KnowledgeInv, RegistryInv, Frame, Own
<1>2. /\ req[c].op \in {"put", "delete", "rebuild", "search", "retrieve", "answer"}
      /\ req[c].op = "put" => req[c].doc \in Docs
  BY <1>1, InputsAssumption DEF Shape
<1>3. /\ Registers(c) /\ Goes(c) /\ Ends(c) /\ pc[c] \in Steps
  BY <1>1 DEF Frame, Shape
<1>4. ASSUME pc[c] \in {"new", "inverting"} PROVE CallInv(c)'
  <2>1. CASE pc[c] = "new"
    <3>1. Resolve(c)
      BY <2>1 DEF Acts
    <3>2. /\ pc'[c] \in {"absent", "content"} => req[c].op = "put"
          /\ pc'[c] = "removing" => req[c].op = "delete"
          /\ pc'[c] = "emptying" => req[c].op = "rebuild"
          /\ pc'[c] = "query" => req[c].op \in {"search", "retrieve", "answer"}
      BY <1>1, <1>2, <3>1 DEF Resolve, Goto, Fail, Return, Shape
    <3> QED BY <1>1, <1>2, <1>3, <2>1, <3>2 DEF Registers, Goes, Asking, Ends
  <2>2. CASE pc[c] = "inverting"
    <3>1. pc'[c] = "listing" => req[c].op = "rebuild"
      BY <1>1, <2>2 DEF Acts, ClearInverted, Goto, Done, Return, Shape
    <3> QED BY <1>1, <1>3, <2>2, <3>1 DEF Registers, Goes, Asking, Ends
  <2> QED BY <1>4, <2>1, <2>2
<1>5. ASSUME pc[c] \in {"content", "listing", "between"} PROVE CallInv(c)'
  <2>1. CASE pc[c] = "content"
    <3>1. doc'[c] = IF pc'[c] = "document" THEN req[c].doc ELSE doc[c]
      BY <1>1, <2>1 DEF Acts, Content, Goto, Set, Fail, Return, Shape
    <3> QED BY <1>1, <1>2, <1>3, <2>1, <3>1 DEF Registers, Goes, Asking, Ends
  <2>2. CASE pc[c] = "listing"
    <3>1. snapshot'[c] = documents /\ todo'[c] = documents
      BY <1>1, <2>2 DEF Acts, List, Set, Shape
    <3> QED BY <1>1, <1>3, <2>2, <3>1 DEF Registers, Goes, Asking, Ends
  <2>3. CASE pc[c] = "between"
    <3>1. /\ todo'[c] \subseteq todo[c]
          /\ doc'[c] \in todo[c] \/ (doc'[c] = doc[c] /\ pc'[c] = "done")
      BY <1>1, <2>3 DEF Acts, NextDocument, Set, Goto, Done, Return, Shape
    <3> QED BY <1>1, <1>3, <2>3, <3>1 DEF Registers, Goes, Asking, Ends
  <2> QED BY <1>5, <2>1, <2>2, <2>3
<1>6. ASSUME pc[c] \in {"document", "counting"} PROVE CallInv(c)'
  <2>1. pc'[c] \in {"between", "stats"} => pc'[c] = IF req[c].op = "rebuild" THEN "between" ELSE "stats"
    BY <1>1, <1>6 DEF Acts, Begin, Count, Indexed, Goto, Fail, Return, Shape
  <2> QED BY <1>1, <1>3, <1>6, <2>1 DEF Registers, Goes, Asking, Ends
<1>7. ASSUME pc[c] \notin {"new", "inverting", "content", "listing", "between", "document", "counting"}
      PROVE  CallInv(c)'
  BY <1>1, <1>3, <1>7 DEF Registers, Goes, Asking, Ends, Steps
<1> QED BY <1>4, <1>5, <1>6, <1>7

-----------------------------------------------------------------------------
\* What was made stays made, and at most the index that was being made is new.
LEMMA MadeKept ==
  ASSUME KnowledgeInv, NEW c \in Calls, Frame(c), Acts(c)
  PROVE  /\ \A i : Made(i) => Made(i)'
         /\ DOMAIN indexes' = IF pc[c] = "adding" THEN DOMAIN indexes \cup {c}
                              ELSE IF pc[c] = "removing" THEN DOMAIN indexes \ {at[c]}
                              ELSE DOMAIN indexes
<1>1. pc'[c] \in Unmade => pc[c] \in Unmade
  BY DEF KnowledgeInv, Shape, Frame, Goes, Unmade, Steps, Indexing, Asking
<1>2. \A b \in Calls : pc'[b] \in Unmade => pc[b] \in Unmade
  BY <1>1 DEF Frame, Own
<1>3. \A i : Made(i) => Made(i)'
  BY <1>2 DEF Made
<1>4. CASE pc[c] = "adding"
  BY <1>3, <1>4 DEF Acts, InsertIndex, With
<1>5. CASE pc[c] = "removing"
  BY <1>3, <1>5 DEF Acts, RemoveIndex, Without
<1>6. CASE pc[c] = "counting"
  BY <1>3, <1>6 DEF Acts, Count
<1>7. CASE pc[c] \notin {"adding", "removing", "counting"}
  BY <1>3, <1>7 DEF Frame, Shared
<1> QED BY <1>4, <1>5, <1>6, <1>7

\* Every call still has an index of its own, or one that was made.
LEMMA PlaceStep ==
  ASSUME KnowledgeInv, NEW c \in Calls, Frame(c), Acts(c), NEW b \in Calls
  PROVE  PlaceInv(b)'
<1>1. /\ Shape /\ RegistryInv /\ \A x \in Calls : CallInv(x) /\ PlaceInv(x)
      /\ Frame(c) /\ Goes(c) /\ Registers(c) /\ req' = req /\ pc[c] \in Steps
  BY DEF KnowledgeInv, Frame, Own, Shape
<1>2. /\ \A i : Made(i) => Made(i)'
      /\ DOMAIN indexes' = IF pc[c] = "adding" THEN DOMAIN indexes \cup {c}
                           ELSE IF pc[c] = "removing" THEN DOMAIN indexes \ {at[c]}
                           ELSE DOMAIN indexes
  BY MadeKept
<1>3. pc[c] = "adding" => ~Made(c)
  BY InputsAssumption DEF Made, Unmade
<1>4. CASE b # c
  <2>1. pc'[b] = pc[b] /\ at'[b] = at[b]
    BY <1>4 DEF Frame, Own
  <2> QED BY <1>1, <1>2, <1>3, <2>1 DEF PlaceInv, Unmade
<1>5. CASE b = c /\ pc[c] = "new"
  <2>1. Resolve(c) /\ Resolved(req[c].key) \in DOMAIN indexes \cup {Nothing}
    BY <1>5 DEF Acts, Resolved
  <2>2. /\ at'[c] = Resolved(req[c].key)
        /\ Resolved(req[c].key) = Nothing => pc'[c] \in {"absent", "done"}
        /\ Resolved(req[c].key) # Nothing => pc'[c] # "absent"
        /\ pc'[c] = "emptying" => req[c].op # "delete"
    BY <1>1, <2>1 DEF Resolve, Set, Goto, Fail, Return, Shape
  <2>3. Resolved(req[c].key) # Nothing => Made(Resolved(req[c].key))
    BY <1>1, <2>1 DEF RegistryInv
  <2>4. Made(at[c])' \/ at'[c] = Nothing
    BY <1>2, <2>2, <2>3
  <2> QED BY <1>1, <1>5, <2>2, <2>4 DEF PlaceInv, Goes, Asking, Unmade
<1>6. CASE b = c /\ pc[c] = "adding"
  <2>1. at'[c] = c /\ pc'[c] = "content"
    BY <1>1, <1>6 DEF Acts, InsertIndex, Set, Goto, Shape
  <2> QED BY <1>6, <2>1 DEF PlaceInv, Made, Unmade
<1>7. CASE b = c /\ pc[c] \notin {"new", "adding"}
  <2>1. at'[c] = at[c] /\ PlaceInv(c)
    BY <1>1, <1>7 DEF Registers
  <2>2. pc'[c] \in Unmade <=> pc[c] \in Unmade /\ pc'[c] # "done"
    BY <1>1, <1>7 DEF Goes, Unmade, Steps, Indexing, Asking
  <2>3. IF pc'[c] \in Unmade THEN at'[c] = Nothing
        ELSE Made(at[c])' \/ (pc'[c] = "done" /\ at'[c] = Nothing)
    <3>1. CASE pc'[c] \in Unmade
      BY <2>1, <2>2, <3>1 DEF PlaceInv
    <3>2. CASE pc[c] \in Unmade /\ pc'[c] = "done"
      BY <2>1, <2>2, <3>2 DEF PlaceInv, Unmade
    <3>3. CASE pc[c] \notin Unmade /\ pc[c] # "done"
      <4>1. Made(at[c])
        BY <2>1, <3>3 DEF PlaceInv
      <4> QED BY <1>2, <2>1, <2>2, <3>3, <4>1
    <3>4. pc[c] # "done"
      BY <1>1 DEF Goes, Asking
    <3> QED BY <2>2, <3>1, <3>2, <3>3, <3>4
  <2>4. req[c].op = "delete" /\ pc'[c] \in {"unnaming", "emptying", "unposting", "inverting"}
          => at[c] \notin DOMAIN indexes'
    <3>1. CASE pc[c] = "removing"
      BY <1>2, <3>1
    <3>2. CASE pc[c] # "removing"
      <4>1. pc'[c] \in {"unnaming", "emptying", "unposting", "inverting"}
              => pc[c] \in {"unnaming", "emptying", "unposting"}
        BY <1>1, <1>7, <3>2 DEF Goes, Steps, Unmade, Indexing, Asking
      <4> QED BY <1>2, <1>7, <2>1, <3>2, <4>1 DEF PlaceInv
    <3> QED BY <3>1, <3>2
  <2> QED BY <1>1, <1>7, <2>1, <2>3, <2>4 DEF PlaceInv
<1> QED BY <1>4, <1>5, <1>6, <1>7

\* A name still leads to an index that is there, but while it is made or deleted.
LEMMA RegistryStep ==
  ASSUME KnowledgeInv, NEW c \in Calls, Frame(c), Acts(c)
  PROVE  RegistryInv'
<1>1. /\ Shape /\ RegistryInv /\ CallInv(c) /\ PlaceInv(c)
      /\ Goes(c) /\ Own(c) /\ Shared(c) /\ req' = req /\ pc[c] \in Steps
  BY DEF KnowledgeInv, Frame, Own, Shape
<1>2. /\ \A i : Made(i) => Made(i)'
      /\ DOMAIN indexes' = IF pc[c] = "adding" THEN DOMAIN indexes \cup {c}
                           ELSE IF pc[c] = "removing" THEN DOMAIN indexes \ {at[c]}
                           ELSE DOMAIN indexes
  BY MadeKept
<1>3. pc[c] = "adding" => Made(c)'
  BY <1>1 DEF Goes, Asking, Made, Unmade
<1>4. \A i \in DOMAIN indexes' : i \in Ids /\ Made(i)'
  BY <1>1, <1>2, <1>3 DEF RegistryInv, Ids
<1>5. documents' \subseteq Docs
  <2>1. CASE pc[c] = "registering"
    BY <1>1, <2>1 DEF Acts, Register, RegistryInv, CallInv, Indexing
  <2> QED BY <1>1, <2>1 DEF RegistryInv, Shared
<1>6. (\A n \in DOMAIN names : names[n] \in Ids /\ NameOf(names[n]) = n)'
  <2>1. \A i : NameOf(i)' = NameOf(i)
    BY <1>1 DEF NameOf
  <2>2. CASE pc[c] = "naming"
    <3>1. names' = With(names, req[c].key, c)
      BY <2>2 DEF Acts, InsertName
    <3>2. NameOf(c) = req[c].key /\ c \in Ids
      BY InputsAssumption DEF NameOf, Ids
    <3> QED BY <1>1, <2>1, <3>1, <3>2 DEF With, RegistryInv
  <2>3. CASE pc[c] = "unnaming"
    BY <1>1, <2>1, <2>3 DEF Acts, RemoveName, Without, RegistryInv
  <2> QED BY <1>1, <2>1, <2>2, <2>3 DEF RegistryInv, Shared
<1>7. NamesLead'
  <2> SUFFICES ASSUME NEW n \in DOMAIN names'
               PROVE  \/ names'[n] \in DOMAIN indexes'
                      \/ \E x \in Calls : \/ pc'[x] = "adding" /\ names'[n] = x
                                          \/ pc'[x] = "unnaming" /\ names'[n] = at'[x]
    BY DEF NamesLead
  <2>1. CASE pc[c] = "naming" /\ n = req[c].key
    BY <1>1, <2>1 DEF Acts, InsertName, With, Goes, Asking
  <2>2. CASE ~(pc[c] = "naming" /\ n = req[c].key)
    <3>1. n \in DOMAIN names /\ names'[n] = names[n]
      BY <1>1, <2>2 DEF Acts, InsertName, RemoveName, With, Without, Shared
    <3>2. CASE names[n] \in DOMAIN indexes
      <4>1. CASE pc[c] = "removing" /\ names[n] = at[c]
        <5>1. pc'[c] = "unnaming" /\ at'[c] = at[c]
          BY <1>1, <4>1 DEF Goes, Asking, Frame, Registers
        <5> QED BY <3>1, <4>1, <5>1
      <4> QED BY <1>2, <3>1, <3>2, <4>1
    <3>3. ASSUME NEW x \in Calls, pc[x] = "adding" /\ names[n] = x
          PROVE  names'[n] \in DOMAIN indexes' \/ (pc'[x] = "adding" /\ names'[n] = x)
      BY <1>1, <1>2, <3>1, <3>3 DEF Own
    <3>4. ASSUME NEW x \in Calls, pc[x] = "unnaming" /\ names[n] = at[x]
          PROVE  pc'[x] = "unnaming" /\ names'[n] = at'[x]
      <4>1. x # c
        <5> SUFFICES ASSUME x = c PROVE FALSE
          OBVIOUS
        <5>1. n # NameOf(at[c])
          BY <3>4 DEF Acts, RemoveName, Without
        <5> QED BY <1>1, <3>1, <3>4, <5>1 DEF RegistryInv
      <4> QED BY <1>1, <3>1, <3>4, <4>1 DEF Own
    <3> QED BY <1>1, <3>1, <3>2, <3>3, <3>4 DEF RegistryInv, NamesLead
  <2> QED BY <2>1, <2>2
<1> QED BY <1>4, <1>5, <1>6, <1>7 DEF RegistryInv

-----------------------------------------------------------------------------
\* A set of naturals has a least element: the provers' form of induction.
LEMMA LeastElement ==
  ASSUME NEW T, T \subseteq Nat, T # {}
  PROVE  \E n \in T : \A m \in T : n <= m
<1> DEFINE Less == OpToRel(<, Nat)
<1>1. IsWellFoundedOn(Less, Nat)
  BY NatLessThanWellFounded
<1>2. \A m, n \in Nat : m < n => <<m, n>> \in Less
  BY DEF OpToRel
<1> HIDE DEF Less
<1>3. PICK n \in T : \A m \in T : ~(<<m, n>> \in Less)
  BY <1>1, WFMin
<1>4. \A m \in T : ~(m < n)
  BY <1>2, <1>3
<1> QED BY <1>3, <1>4

Covered(bs, p) == \E n \in 1 .. Len(bs) : p \in Range(bs[n])

\* A chunk that is added to the batches is in one of them, as all before it are.
LEMMA BatchAdds ==
  ASSUME NEW P, NEW bs \in Seq(Seq(P)), NEW d, NEW p \in P
  PROVE  /\ AddToBatch(bs, d, p) \in Seq(Seq(P))
         /\ Covered(AddToBatch(bs, d, p), p)
         /\ \A q : Covered(bs, q) => Covered(AddToBatch(bs, d, p), q)
<1>1. <<p>> \in Seq(P) /\ p \in Range(<<p>>)
  BY DEF Range
<1>2. CASE bs = << >> \/ Full(bs[Len(bs)], d, p)
  <2>1. AddToBatch(bs, d, p) = Append(bs, <<p>>)
    BY <1>2 DEF AddToBatch
  <2>2. /\ Append(bs, <<p>>) \in Seq(Seq(P)) /\ Len(Append(bs, <<p>>)) = Len(bs) + 1
        /\ Append(bs, <<p>>)[Len(bs) + 1] = <<p>>
        /\ \A n \in 1 .. Len(bs) : Append(bs, <<p>>)[n] = bs[n]
        /\ Len(bs) \in Nat
    BY <1>1, AppendProperties
  <2> DEFINE new == Append(bs, <<p>>)
             q0 == <<p>>
             l == Len(bs)
  <2> HIDE DEF new, q0, l
  <2>3. /\ l \in Nat /\ Len(new) = l + 1 /\ new[l + 1] = q0 /\ p \in Range(q0)
        /\ \A n \in 1 .. l : new[n] = bs[n]
    BY <1>1, <2>2 DEF new, q0, l
  <2>4. Covered(new, p)
    <3>1. l + 1 \in 1 .. Len(new)
      BY <2>3
    <3> QED BY <2>3, <3>1 DEF Covered
  <2>5. \A q : Covered(bs, q) => Covered(new, q)
    <3> SUFFICES ASSUME NEW q, NEW n \in 1 .. l, q \in Range(bs[n]) PROVE Covered(new, q)
      BY DEF Covered, l
    <3>1. n \in 1 .. Len(new) /\ new[n] = bs[n]
      BY <2>3
    <3> QED BY <3>1 DEF Covered
  <2> QED BY <2>1, <2>2, <2>4, <2>5 DEF new
<1>3. CASE ~(bs = << >> \/ Full(bs[Len(bs)], d, p))
  <2> DEFINE l == Len(bs)
             longer == Append(bs[l], p)
  <2>1. AddToBatch(bs, d, p) = [bs EXCEPT ![l] = longer]
    BY <1>3 DEF AddToBatch
  <2>2. l \in Nat /\ l # 0 /\ DOMAIN bs = 1 .. l
    BY <1>3, LenProperties, EmptySeq
  <2>3. bs[l] \in Seq(P)
    BY <2>2, ElementOfSeq
  <2>4. longer \in Seq(P) /\ p \in Range(longer) /\ Range(bs[l]) \subseteq Range(longer)
    <3>1. /\ longer \in Seq(P) /\ Len(longer) = Len(bs[l]) + 1 /\ Len(bs[l]) \in Nat
          /\ longer[Len(bs[l]) + 1] = p /\ \A n \in 1 .. Len(bs[l]) : longer[n] = bs[l][n]
      BY <2>3, AppendProperties
    <3>2. DOMAIN longer = 1 .. Len(bs[l]) + 1 /\ DOMAIN bs[l] = 1 .. Len(bs[l])
      BY <2>3, <3>1, LenProperties
    <3> HIDE DEF longer
    <3>3. Len(bs[l]) + 1 \in DOMAIN longer /\ \A n \in DOMAIN bs[l] : n \in DOMAIN longer
      BY <3>1, <3>2
    <3> QED BY <3>1, <3>2, <3>3 DEF Range
  <2> HIDE DEF longer
  <2> DEFINE new == [bs EXCEPT ![l] = longer]
  <2>5. new \in Seq(Seq(P)) /\ Len(new) = l
    BY <2>2, <2>4
  <2>6. \A n \in 1 .. l : new[n] = IF n = l THEN longer ELSE bs[n]
    BY <2>2
  <2> HIDE DEF new
  <2>7. Covered(new, p)
    <3> HIDE DEF l
    <3>1. l \in 1 .. Len(new)
      BY <2>2, <2>5
    <3>2. new[l] = longer
      BY <2>2, <2>6
    <3> QED BY <2>4, <3>1, <3>2 DEF Covered
  <2>8. \A q : Covered(bs, q) => Covered(new, q)
    <3> SUFFICES ASSUME NEW q, NEW n \in 1 .. l, q \in Range(bs[n]) PROVE Covered(new, q)
      BY DEF Covered
    <3>1. n \in 1 .. Len(new) /\ q \in Range(new[n])
      BY <2>4, <2>5, <2>6
    <3> QED BY <3>1 DEF Covered
  <2> QED BY <2>1, <2>5, <2>7, <2>8 DEF new
<1> QED BY <1>2, <1>3

\* Every chunk of a document is in the cache or in a batch.
LEMMA BatchesCover ==
  ASSUME NEW d \in Docs
  PROVE  /\ Batched(d) \in Seq(Seq(DOMAIN ChunksOf[d]))
         /\ \A p \in DOMAIN ChunksOf[d] : InCache(d, p) \/ Covered(Batched(d), p)
<1> DEFINE N == Len(ChunksOf[d])
           P == DOMAIN ChunksOf[d]
           Next1(bs, p) == IF InCache(d, p) THEN bs ELSE AddToBatch(bs, d, p)
           Made1(g, k) == g = [p \in 0 .. k |-> IF p = 0 THEN << >> ELSE
                               IF InCache(d, p) THEN g[p - 1] ELSE AddToBatch(g[p - 1], d, p)]
           made == CHOOSE g : Made1(g, N)
           Good(bs, k) == bs \in Seq(Seq(P)) /\ \A p \in 1 .. k : InCache(d, p) \/ Covered(bs, p)
<1>1. N \in Nat /\ P = 1 .. N
  BY InputsAssumption, LenProperties
<1>2. Batched(d) = made[N]
  BY DEF Batched
<1> HIDE DEF N
<1>3. \A k \in Nat : \E g : Made1(g, k)
  <2> DEFINE T == {k \in Nat : ~ \E g : Made1(g, k)}
  <2> SUFFICES ASSUME T # {} PROVE FALSE
    OBVIOUS
  <2>1. PICK k \in T : \A m \in T : k <= m
    BY LeastElement
  <2>2. k # 0
    <3> SUFFICES ASSUME k = 0 PROVE FALSE
      OBVIOUS
    <3>1. Made1([p \in 0 .. 0 |-> << >>], 0)
      OBVIOUS
    <3> QED BY <2>1, <3>1
  <2>3. PICK g : Made1(g, k - 1)
    <3>1. k \in Nat
      BY <2>1
    <3>2. k - 1 \in Nat /\ ~(k <= k - 1)
      BY <2>2, <3>1
    <3>3. k - 1 \notin T
      <4> HIDE DEF T
      <4> QED BY <2>1, <3>2
    <3> QED BY <3>2, <3>3
  <2> DEFINE h == [p \in 0 .. k |-> IF p < k THEN g[p] ELSE
                   IF InCache(d, p) THEN g[p - 1] ELSE AddToBatch(g[p - 1], d, p)]
  <2>4. \A p \in 0 .. k : h[p] = IF p = 0 THEN << >> ELSE
                   IF InCache(d, p) THEN h[p - 1] ELSE AddToBatch(h[p - 1], d, p)
    <3> SUFFICES ASSUME NEW p \in 0 .. k
                 PROVE  h[p] = IF p = 0 THEN << >> ELSE
                   IF InCache(d, p) THEN h[p - 1] ELSE AddToBatch(h[p - 1], d, p)
      OBVIOUS
    <3>0. k \in Nat
      BY <2>1
    <3> HIDE DEF T
    <3>1. p # 0 => p - 1 \in 0 .. k /\ p - 1 < k
      BY <3>0
    <3>1a. p # 0 => h[p - 1] = g[p - 1]
      BY <3>1
    <3>2. p < k => g[p] = IF p = 0 THEN << >> ELSE
                   IF InCache(d, p) THEN g[p - 1] ELSE AddToBatch(g[p - 1], d, p)
      BY <3>0, <2>2, <2>3
    <3> QED BY <3>0, <2>2, <3>1a, <3>2
  <2>5. Made1(h, k)
    BY <2>4
  <2> QED BY <2>1, <2>5
<1>4. Made1(made, N)
  BY <1>1, <1>3
<1> HIDE DEF made
<1>5. \A k \in 0 .. N : Good(made[k], k)
  <2> DEFINE T == {k \in 0 .. N : ~Good(made[k], k)}
  <2> SUFFICES ASSUME T # {} PROVE FALSE
    OBVIOUS
  <2>0. T \subseteq Nat
    BY <1>1
  <2>1. PICK k \in T : \A m \in T : k <= m
    <3> HIDE DEF T
    <3> QED BY <2>0, LeastElement
  <2>2. k # 0
    <3>1. made[0] = << >>
      BY <1>1, <1>4
    <3>2. Good(<< >>, 0)
      OBVIOUS
    <3> QED BY <2>1, <3>1, <3>2
  <2>3. Good(made[k - 1], k - 1)
    BY <1>1, <2>1, <2>2
  <2>4. made[k] = IF InCache(d, k) THEN made[k - 1] ELSE AddToBatch(made[k - 1], d, k)
    BY <1>1, <1>4, <2>1, <2>2
  <2>5. k \in P /\ \A p \in 1 .. k : p = k \/ p \in 1 .. k - 1
    BY <1>1, <2>1, <2>2
  <2>6. Good(made[k], k)
    <3>1. CASE InCache(d, k)
      BY <2>3, <2>4, <2>5, <3>1
    <3>2. CASE ~InCache(d, k)
      <4> HIDE DEF P
      <4>1. /\ AddToBatch(made[k - 1], d, k) \in Seq(Seq(P))
            /\ Covered(AddToBatch(made[k - 1], d, k), k)
            /\ \A q : Covered(made[k - 1], q) => Covered(AddToBatch(made[k - 1], d, k), q)
        BY <2>3, <2>5, BatchAdds
      <4> QED BY <2>3, <2>4, <2>5, <3>2, <4>1
    <3> QED BY <3>1, <3>2
  <2> QED BY <2>1, <2>6
<1> QED BY <1>1, <1>2, <1>5

-----------------------------------------------------------------------------
\* What a call has to do with its batches, as far as the invariant says.
LEMMA EmbeddingStep ==
  ASSUME KnowledgeInv, NEW c \in Calls, Frame(c), Acts(c)
  PROVE  EmbeddingInv(c)'
<1> DEFINE d == doc[c]
           P == DOMAIN ChunksOf[d]
<1>1. /\ Shape /\ CallInv(c) /\ EmbeddingInv(c) /\ Own(c) /\ Registers(c) /\ Goes(c)
      /\ pc[c] \in Steps /\ TasksInv /\ CacheInv
  BY DEF KnowledgeInv, Frame, Shape
<1>2. pc[c] \in Indexing => d \in Docs /\ Len(ChunksOf[d]) \in Nat /\ P = 1 .. Len(ChunksOf[d])
                         /\ (ChunksOf[d] # << >> => 1 \in P)
  <2> SUFFICES ASSUME pc[c] \in Indexing PROVE d \in Docs /\ Len(ChunksOf[d]) \in Nat
            /\ P = 1 .. Len(ChunksOf[d]) /\ (ChunksOf[d] # << >> => 1 \in P)
    OBVIOUS
  <2>1. d \in Docs
    BY <1>1 DEF CallInv
  <2>2. ChunksOf[d] \in Seq(DOMAIN TextOf)
    BY <2>1, InputsAssumption
  <2> HIDE DEF d
  <2>3. Len(ChunksOf[d]) \in Nat /\ P = 1 .. Len(ChunksOf[d])
        /\ (ChunksOf[d] # << >> => Len(ChunksOf[d]) # 0)
    BY <2>2, LenProperties, EmptySeq
  <2> QED BY <2>1, <2>3
<1>3. pc[c] \in Indexing => doc'[c] = d
  BY <1>1 DEF Registers, Indexing
<1>4. CASE pc[c] = "document"
  <2>1. /\ place'[c] = 1
        /\ pc'[c] \in {"embedding", "posting"} => ChunksOf[d] # << >>
    BY <1>1, <1>4 DEF Acts, Begin, Indexed, Goto, Fail, Return, Set, Shape
  <2> QED BY <1>1, <1>2, <1>3, <1>4, <2>1 DEF EmbeddingInv, Goes, Indexing, Asking
<1>5. CASE pc[c] = "embedding"
  <2>1. /\ vecs'[c] = [p \in P |-> IF InCache(d, p) THEN cache[TextOf[ChunksOf[d][p]]] ELSE Nothing]
        /\ batches'[c] = Batched(d) /\ sent'[c] = 0 /\ got'[c] = 0
        /\ pc'[c] = IF Batched(d) = << >> THEN "upserting" ELSE "sending"
    BY <1>1, <1>5 DEF Acts, LookUp, Goto, Set, Shape
  <2>2. /\ Batched(d) \in Seq(Seq(P))
        /\ \A p \in P : InCache(d, p) \/ Covered(Batched(d), p)
    BY <1>2, <1>5, BatchesCover DEF Indexing
  <2>3. Len(Batched(d)) \in Nat /\ (Batched(d) = << >> <=> Len(Batched(d)) = 0)
    BY <2>2, LenProperties, EmptySeq
  <2>4. \A p \in P : InCache(d, p) => vecs'[c][p] = TextAt(d, p)
    BY <1>1, <2>1 DEF InCache, CacheInv, TextAt
  <2>5. \A p \in P : vecs'[c][p] = TextAt(d, p)
                     \/ \E n \in 1 .. Len(Batched(d)) : p \in Range(Batched(d)[n])
    BY <2>2, <2>4 DEF Covered
  <2>6. place'[c] = 1 /\ ChunksOf[d] # << >> /\ doc'[c] = d
    BY <1>1, <1>3, <1>5 DEF EmbeddingInv, Registers, Indexing
  <2>7. CASE Batched(d) = << >>
    <3>1. \A p \in P : vecs'[c][p] = TextAt(d, p)
      BY <2>3, <2>5, <2>7
    <3> QED BY <2>1, <2>6, <2>7, <3>1 DEF EmbeddingInv, TextAt
  <2>8. CASE Batched(d) # << >>
    <3>1. /\ pc'[c] = "sending" /\ batches'[c] \in Seq(Seq(P)) /\ got'[c] = 0 /\ sent'[c] = 0
          /\ 0 < Len(batches'[c]) /\ DOMAIN vecs'[c] = P
      BY <2>1, <2>2, <2>3, <2>8
    <3>2. \A p \in P : vecs'[c][p] = TextAt(d, p)
                       \/ \E n \in got'[c] + 1 .. Len(batches'[c]) : p \in Range(batches'[c][n])
      <4>1. got'[c] + 1 = 1 /\ batches'[c] = Batched(d)
        BY <2>1
      <4> QED BY <2>5, <4>1
    <3> HIDE DEF d
    <3> QED BY <2>6, <3>1, <3>2 DEF EmbeddingInv, TextAt
  <2> QED BY <2>7, <2>8
<1>6. CASE pc[c] = "sending"
  <2>1. /\ sent'[c] = sent[c] + 1
        /\ pc'[c] = IF sent[c] + 1 = Len(batches[c]) THEN "collecting" ELSE "sending"
    BY <1>1, <1>6 DEF Acts, Send, Goto, Set, Shape
  <2>2. /\ batches'[c] = batches[c] /\ got'[c] = got[c] /\ vecs'[c] = vecs[c] /\ doc'[c] = doc[c]
        /\ place'[c] = place[c]
    BY <1>1, <1>6 DEF Registers, Indexing
  <2>3. Len(batches[c]) \in Nat
    BY <1>1, <1>6, LenProperties DEF EmbeddingInv
  <2> QED BY <1>1, <1>6, <2>1, <2>2, <2>3 DEF EmbeddingInv, TextAt
<1>7. CASE pc[c] = "collecting"
  <2>1. PICK t \in tasks :
          /\ t.call = c /\ t.n = got[c] + 1 /\ got'[c] = t.n
          /\ IF t.status = "failed" THEN pc'[c] = "done"
             ELSE /\ pc'[c] = IF t.n = Len(batches[c]) THEN "upserting" ELSE "collecting"
                  /\ vecs'[c] = [p \in DOMAIN vecs[c] |->
                        IF p \in Range(t.places) THEN TextOf[ChunksOf[t.doc][p]] ELSE vecs[c][p]]
    BY <1>1, <1>7 DEF Acts, Collect, Goto, Set, Fail, Return, Shape
  <2>2. /\ batches'[c] = batches[c] /\ sent'[c] = sent[c] /\ doc'[c] = d /\ place'[c] = place[c]
    BY <1>1, <1>7 DEF Registers, Indexing
  <2>3. t.doc = d /\ t.places = batches[c][t.n]
    BY <1>1, <1>7, <2>1 DEF TasksInv, TaskInv
  <2>4. /\ batches[c] \in Seq(Seq(P)) /\ got[c] \in Nat /\ sent[c] \in Nat
        /\ got[c] < sent[c] /\ sent[c] = Len(batches[c]) /\ DOMAIN vecs[c] = P
        /\ \A p \in P : \/ vecs[c][p] = TextAt(d, p)
                        \/ \E n \in got[c] + 1 .. Len(batches[c]) : p \in Range(batches[c][n])
        /\ place[c] = 1 /\ ChunksOf[d] # << >>
    BY <1>1, <1>7 DEF EmbeddingInv
  <2>5. CASE t.status = "failed"
    BY <2>1, <2>5 DEF EmbeddingInv
  <2>6. CASE t.status # "failed"
    <3> DEFINE bs == batches[c]
    <3>1. DOMAIN vecs'[c] = P /\ \A p \in P : vecs'[c][p] =
              IF p \in Range(bs[got[c] + 1]) THEN TextAt(d, p) ELSE vecs[c][p]
      BY <2>1, <2>3, <2>4, <2>6 DEF TextAt
    <3> HIDE DEF d, bs
    <3>2. \A p \in P : \/ vecs'[c][p] = TextAt(d, p)
                       \/ \E n \in got[c] + 2 .. Len(bs) : p \in Range(bs[n])
      <4> SUFFICES ASSUME NEW p \in P, vecs'[c][p] # TextAt(d, p)
                   PROVE  \E n \in got[c] + 2 .. Len(bs) : p \in Range(bs[n])
        OBVIOUS
      <4>1. p \notin Range(bs[got[c] + 1]) /\ vecs[c][p] # TextAt(d, p)
        BY <3>1
      <4>2. PICK n \in got[c] + 1 .. Len(bs) : p \in Range(bs[n])
        BY <2>4, <4>1 DEF bs
      <4>3. n # got[c] + 1
        BY <4>1, <4>2
      <4>4. n \in got[c] + 2 .. Len(bs)
        BY <2>4, <4>3 DEF bs
      <4> QED BY <4>2, <4>4
    <3>3. CASE t.n = Len(bs)
      <4>1. \A p \in P : vecs'[c][p] = TextAt(d, p)
        BY <2>1, <2>4, <3>2, <3>3 DEF bs
      <4>2. pc'[c] = "upserting"
        BY <2>1, <2>6, <3>3 DEF bs
      <4> QED BY <2>2, <2>4, <4>1, <4>2 DEF EmbeddingInv, TextAt
    <3>4. CASE t.n # Len(bs)
      <4>1. pc'[c] = "collecting" /\ got'[c] = got[c] + 1
        BY <2>1, <2>6, <3>4 DEF bs
      <4>2. got'[c] < sent[c] /\ got'[c] + 1 = got[c] + 2 /\ got'[c] \in Nat
        BY <2>1, <2>4, <3>4, <4>1 DEF bs
      <4>3. \A p \in P : \/ vecs'[c][p] = TextAt(d, p)
                         \/ \E n \in got'[c] + 1 .. Len(batches'[c]) : p \in Range(batches'[c][n])
        BY <2>2, <3>2, <4>2 DEF bs
      <4> QED BY <2>2, <2>4, <3>1, <4>1, <4>2, <4>3 DEF EmbeddingInv, TextAt
    <3> QED BY <3>3, <3>4
  <2> QED BY <2>5, <2>6
<1>8. CASE pc[c] = "upserting"
  <2>1. pc'[c] = "posting" /\ place'[c] = place[c] /\ doc'[c] = d
    BY <1>1, <1>8 DEF Goes, Asking, Registers, Indexing
  <2> QED BY <1>1, <1>2, <1>8, <2>1 DEF EmbeddingInv, Indexing
<1>9. CASE pc[c] = "posting"
  <2>1. /\ place'[c] = place[c] + 1 /\ doc'[c] = d
        /\ pc'[c] = IF place[c] = Len(ChunksOf[d]) THEN "registering" ELSE "posting"
    BY <1>1, <1>3, <1>9 DEF Acts, InsertChunk, Goto, Set, Shape, Indexing
  <2> DEFINE l == Len(ChunksOf[d])
  <2>2. place[c] \in 1 .. l /\ l \in Nat /\ P = 1 .. l
    BY <1>1, <1>2, <1>9 DEF EmbeddingInv, Indexing
  <2>3. place[c] # l => place'[c] \in P
    <3> HIDE DEF l, P
    <3> QED BY <2>1, <2>2
  <2> QED BY <2>1, <2>3 DEF EmbeddingInv
<1>10. CASE pc[c] \notin {"document", "embedding", "sending", "collecting", "upserting", "posting"}
  <2>1. pc'[c] \notin {"embedding", "sending", "collecting", "upserting", "posting"}
    BY <1>1, <1>10 DEF Goes, Asking, Steps, Unmade, Indexing
  <2> QED BY <2>1 DEF EmbeddingInv
<1> QED BY <1>4, <1>5, <1>6, <1>7, <1>8, <1>9, <1>10

\* The tasks after a step of a call.
LEMMA TasksStep ==
  ASSUME KnowledgeInv, NEW c \in Calls, Frame(c), Acts(c)
  PROVE  TasksInv'
<1>1. /\ Shape /\ CallInv(c) /\ EmbeddingInv(c) /\ Own(c) /\ Registers(c) /\ Goes(c) /\ Shared(c)
      /\ pc[c] \in Steps /\ TasksInv
  BY DEF KnowledgeInv, Frame, Shape
<1>2. \A t \in tasks : t.call # c => TaskInv(t)'
  <2> SUFFICES ASSUME NEW t \in tasks, t.call # c PROVE TaskInv(t)'
    OBVIOUS
  <2>1. TaskInv(t)
    BY <1>1 DEF TasksInv
  <2>2. /\ pc'[t.call] = pc[t.call] /\ got'[t.call] = got[t.call] /\ sent'[t.call] = sent[t.call]
        /\ doc'[t.call] = doc[t.call] /\ batches'[t.call] = batches[t.call]
    BY <1>1, <2>1 DEF Own, TaskInv
  <2> QED BY <2>1, <2>2 DEF TaskInv
<1>3. CASE pc[c] = "sending"
  <2>0. PICK new : new = [call |-> c, n |-> sent[c] + 1, doc |-> doc[c], status |-> "asking",
                          places |-> batches[c][sent[c] + 1], came |-> 0, next |-> 1, room |-> FALSE]
    OBVIOUS
  <2>1. /\ tasks' = tasks \cup {new} /\ sent'[c] = sent[c] + 1
        /\ pc'[c] \in {"sending", "collecting"}
    BY <1>1, <1>3, <2>0 DEF Acts, Send, Goto, Set, Shape
  <2>2. got'[c] = got[c] /\ doc'[c] = doc[c] /\ batches'[c] = batches[c]
    BY <1>1, <1>3 DEF Registers, Indexing
  <2>3. /\ got[c] = 0 /\ sent[c] \in Nat /\ sent[c] < Len(batches[c])
        /\ batches[c] \in Seq(Seq(DOMAIN ChunksOf[doc[c]])) /\ doc[c] \in Docs
    BY <1>1, <1>3 DEF EmbeddingInv, CallInv, Indexing
  <2>4. batches[c][sent[c] + 1] \in Seq(DOMAIN ChunksOf[doc[c]])
    <3>1. Len(batches[c]) \in Nat
      BY <2>3, LenProperties
    <3>2. sent[c] + 1 \in 1 .. Len(batches[c])
      BY <2>3, <3>1
    <3> QED BY <2>3, <3>2, ElementOfSeq
  <2>5. TaskInv(new)'
    <3>1. sent[c] + 1 \in got[c] + 1 .. sent[c] + 1 /\ sent[c] + 1 \in Nat
      BY <2>3
    <3> QED BY <2>0, <2>1, <2>2, <2>3, <2>4, <3>1 DEF TaskInv
  <2>6. \A t \in tasks : TaskInv(t)'
    <3> SUFFICES ASSUME NEW t \in tasks, t.call = c PROVE TaskInv(t)'
      BY <1>2
    <3>1. TaskInv(t)
      BY <1>1 DEF TasksInv
    <3> QED BY <1>3, <2>1, <2>2, <2>3, <3>1 DEF TaskInv
  <2>7. \A t \in tasks : t.call = c => t.n # sent[c] + 1
    <3> SUFFICES ASSUME NEW t \in tasks, t.call = c PROVE t.n # sent[c] + 1
      OBVIOUS
    <3>1. t.n \in got[c] + 1 .. sent[c]
      BY <1>1, <1>3 DEF TasksInv, TaskInv
    <3> QED BY <2>3, <3>1
  <2>8. IsFiniteSet(tasks \cup {new})
    BY <1>1, FS_AddElement DEF TasksInv
  <2>9. \A t, u \in tasks \cup {new} : t.call = u.call /\ t.n = u.n => t = u
    <3>1. new.call = c /\ new.n = sent[c] + 1
      BY <2>0
    <3>2. \A t, u \in tasks : t.call = u.call /\ t.n = u.n => t = u
      BY <1>1 DEF TasksInv
    <3> QED BY <2>7, <3>1, <3>2
  <2> QED BY <2>1, <2>5, <2>6, <2>8, <2>9 DEF TasksInv
<1>4. CASE pc[c] = "collecting"
  <2>1. PICK t \in tasks :
          /\ t.call = c /\ t.n = got[c] + 1 /\ got'[c] = t.n
          /\ IF t.status = "failed"
             THEN pc'[c] = "done" /\ tasks' = {u \in tasks : u.call = c => UnderWay(u)}
             ELSE /\ pc'[c] = IF t.n = Len(batches[c]) THEN "upserting" ELSE "collecting"
                  /\ tasks' = tasks \ {t}
    BY <1>1, <1>4 DEF Acts, Collect, Goto, Set, Fail, Return, Shape
  <2>2. batches'[c] = batches[c] /\ sent'[c] = sent[c] /\ doc'[c] = doc[c]
    BY <1>1, <1>4 DEF Registers, Indexing
  <2>3. tasks' \subseteq tasks /\ IsFiniteSet(tasks')
    BY <1>1, <2>1, FS_Subset DEF TasksInv
  <2>4. got[c] \in Nat /\ sent[c] \in Nat /\ sent[c] = Len(batches[c])
    BY <1>1, <1>4 DEF EmbeddingInv
  <2>5. ASSUME NEW u \in tasks', u.call = c PROVE TaskInv(u)'
    <3>1. TaskInv(u) /\ u \in tasks
      BY <1>1, <2>3 DEF TasksInv
    <3>2. CASE t.status = "failed"
      BY <2>1, <2>5, <3>1, <3>2 DEF TaskInv
    <3>3. CASE t.status # "failed"
      <4>1. u.n # got[c] + 1
        BY <1>1, <2>1, <2>5, <3>1, <3>3 DEF TasksInv
      <4>2. u.n \in got[c] + 1 .. sent[c] /\ u.doc = doc[c] /\ u.places = batches[c][u.n]
        BY <1>4, <2>5, <3>1 DEF TaskInv
      <4>3. u.n \in got'[c] + 1 .. sent'[c] /\ t.n # Len(batches[c])
        BY <2>1, <2>2, <2>4, <4>1, <4>2
      <4> QED BY <2>1, <2>2, <2>5, <3>1, <3>3, <4>2, <4>3 DEF TaskInv
    <3> QED BY <3>2, <3>3
  <2> QED BY <1>1, <1>2, <2>3, <2>5 DEF TasksInv
<1>5. CASE pc[c] \notin {"sending", "collecting"}
  <2>1. tasks' = tasks /\ pc[c] # "done"
    BY <1>1, <1>5 DEF Shared, Goes, Asking
  <2>2. \A t \in tasks : t.call # c
    BY <1>1, <1>5, <2>1 DEF TasksInv, TaskInv
  <2> QED BY <1>1, <1>2, <2>1, <2>2 DEF TasksInv
<1> QED BY <1>3, <1>4, <1>5

-----------------------------------------------------------------------------
\* A permit that is out is with a task that runs or a query that is embedded.
Running == {t \in tasks : UnderWay(t)}
Embedding == {c \in Calls : pc[c] = "embeddingQuery"}

\* A permit a call takes or gives back is one with a task or a query.
LEMMA PermitStep ==
  ASSUME KnowledgeInv, NEW c \in Calls, Frame(c), Acts(c)
  PROVE  PermitInv'
<1>1. /\ Shape /\ Own(c) /\ Goes(c) /\ Shared(c) /\ pc[c] \in Steps
      /\ TasksInv /\ EmbeddingInv(c)
  BY DEF KnowledgeInv, Frame, Shape
<1>2. /\ permits \in Nat /\ Cardinality(Running) + Cardinality(Embedding) = Permits - permits
      /\ Permits \in Nat
  BY BoundsAssumption DEF KnowledgeInv, PermitInv, Running, Embedding
<1>3. IsFiniteSet(Running) /\ IsFiniteSet(Embedding)
  BY <1>1, InputsAssumption, FS_Subset DEF TasksInv, Running, Embedding
<1>4. Cardinality(Running) \in Nat /\ Cardinality(Embedding) \in Nat
  BY <1>3, FS_CardinalityType
<1>5. /\ pc'[c] = "embeddingQuery" <=> pc[c] = "asking"
      /\ \A b \in Calls : b # c => pc'[b] = pc[b]
  BY <1>1 DEF Goes, Asking, Steps, Indexing, Unmade, Own
<1>6. SUFFICES permits' \in Nat
          /\ Cardinality(Running') + Cardinality(Embedding') = Permits - permits'
  BY DEF PermitInv, Running, Embedding
<1>7. CASE pc[c] = "sending"
  <2>0. PICK new : new = [call |-> c, n |-> sent[c] + 1, doc |-> doc[c], status |-> "asking",
                          places |-> batches[c][sent[c] + 1], came |-> 0, next |-> 1, room |-> FALSE]
    OBVIOUS
  <2>1. permits > 0 /\ permits' = permits - 1 /\ tasks' = tasks \cup {new}
    BY <1>1, <1>7, <2>0 DEF Acts, Send
  <2>2. new \notin tasks
    <3> SUFFICES ASSUME new \in tasks PROVE FALSE
      OBVIOUS
    <3>1. TaskInv(new) /\ new.call = c /\ new.n = sent[c] + 1
      BY <1>1, <2>0 DEF TasksInv
    <3>2. sent[c] + 1 \in got[c] + 1 .. sent[c] /\ sent[c] \in Nat
      BY <1>1, <1>7, <3>1 DEF TaskInv, EmbeddingInv
    <3> QED BY <3>2
  <2>3. Running' = Running \cup {new} /\ new \notin Running
    BY <2>0, <2>1, <2>2 DEF Running, UnderWay
  <2>4. Cardinality(Running') = Cardinality(Running) + 1
    BY <1>3, <2>3, FS_AddElement
  <2>5. Embedding' = Embedding
    BY <1>5, <1>7 DEF Embedding
  <2> HIDE DEF Running, Embedding
  <2> QED BY <1>2, <1>4, <2>1, <2>4, <2>5
<1>8. CASE pc[c] = "collecting"
  <2>1. permits' = permits
    BY <1>1, <1>8 DEF Shared
  <2>2. Running' = Running
    BY <1>8 DEF Acts, Collect, Running
  <2>3. Embedding' = Embedding
    BY <1>5, <1>8 DEF Embedding
  <2> QED BY <1>2, <2>1, <2>2, <2>3
<1>9. CASE pc[c] = "asking"
  <2>1. permits > 0 /\ permits' = permits - 1 /\ tasks' = tasks
    BY <1>1, <1>9 DEF Acts, AcquirePermit
  <2>2. Running' = Running
    BY <2>1 DEF Running
  <2>3. Embedding' = Embedding \cup {c} /\ c \notin Embedding
    BY <1>5, <1>9 DEF Embedding
  <2>4. Cardinality(Embedding') = Cardinality(Embedding) + 1
    BY <1>3, <2>3, FS_AddElement
  <2> QED BY <1>2, <1>4, <2>1, <2>2, <2>4
<1>10. CASE pc[c] = "embeddingQuery"
  <2>1. permits' = permits + 1 /\ tasks' = tasks
    BY <1>10 DEF Acts, QueryEmbedded
  <2>2. Running' = Running
    BY <2>1 DEF Running
  <2>3. Embedding' = Embedding \ {c} /\ c \in Embedding
    BY <1>5, <1>10 DEF Embedding
  <2>4. Cardinality(Embedding') = Cardinality(Embedding) - 1
    BY <1>3, <2>3, FS_RemoveElement
  <2> QED BY <1>2, <1>4, <2>1, <2>2, <2>4
<1>11. CASE pc[c] \notin {"sending", "collecting", "asking", "embeddingQuery"}
  <2>1. permits' = permits /\ tasks' = tasks
    BY <1>1, <1>11 DEF Shared
  <2>2. Running' = Running
    BY <2>1 DEF Running
  <2>3. Embedding' = Embedding
    BY <1>5, <1>11 DEF Embedding
  <2> QED BY <1>2, <2>1, <2>2, <2>3
<1> QED BY <1>7, <1>8, <1>9, <1>10, <1>11

-----------------------------------------------------------------------------
\* The tasks that have found room in the cache.
Rooms == {t \in tasks : t.room}

\* A step of a call gives no task room in the cache.
LEMMA CacheStep ==
  ASSUME KnowledgeInv, NEW c \in Calls, Frame(c), Acts(c)
  PROVE  CacheInv'
<1>1. /\ Shared(c) /\ cache' = cache /\ IsFiniteSet(tasks) /\ CacheInv
  BY DEF KnowledgeInv, Frame, Shared, TasksInv
<1>2. Rooms' \subseteq Rooms
  <2>1. CASE pc[c] = "sending"
    <3>0. PICK new : new = [call |-> c, n |-> sent[c] + 1, doc |-> doc[c], status |-> "asking",
                            places |-> batches[c][sent[c] + 1], came |-> 0, next |-> 1, room |-> FALSE]
      OBVIOUS
    <3>1. tasks' = tasks \cup {new} /\ ~new.room
      BY <2>1, <3>0 DEF Acts, Send
    <3> QED BY <3>1 DEF Rooms
  <2>2. CASE pc[c] = "collecting"
    BY <2>2 DEF Acts, Collect, Rooms
  <2>3. CASE pc[c] \notin {"sending", "collecting"}
    BY <1>1, <2>3 DEF Shared, Rooms
  <2> QED BY <2>1, <2>2, <2>3
<1>3. IsFiniteSet(Rooms)
  BY <1>1, FS_Subset DEF Rooms
<1>4. Cardinality(Rooms') <= Cardinality(Rooms) /\ Cardinality(Rooms') \in Nat
      /\ Cardinality(Rooms) \in Nat
  BY <1>2, <1>3, FS_Subset, FS_CardinalityType
<1>5. Cardinality(DOMAIN cache) + Cardinality(Rooms) <= MaxEntries + Permits - 1
      /\ Cardinality(DOMAIN cache) \in Nat
  BY <1>1, FS_CardinalityType DEF CacheInv, CacheBounded, Rooms
<1>6. Cardinality(DOMAIN cache) + Cardinality(Rooms') <= MaxEntries + Permits - 1
  BY <1>4, <1>5, BoundsAssumption
<1> QED BY <1>1, <1>6 DEF CacheInv, CacheBounded, Rooms

-----------------------------------------------------------------------------
\* What a document holds is a chunk.
LEMMA ChunkFacts ==
  ASSUME NEW d \in Docs, NEW k \in DOMAIN ChunksOf[d]
  PROVE  ChunksOf[d][k] \in Chunks
BY InputsAssumption, ElementOfSeq, LenProperties DEF Chunks

\* What is put into the stores has the index and the tenant it is put for.
LEMMA EntriesStep ==
  ASSUME KnowledgeInv, NEW c \in Calls, Frame(c), Acts(c)
  PROVE  EntriesInv'
<1>1. /\ EntriesInv /\ CallInv(c) /\ PlaceInv(c) /\ EmbeddingInv(c) /\ Shared(c)
  BY DEF KnowledgeInv, Frame
<1>2. pc[c] \in Indexing => at[c] \in Ids /\ doc[c] \in Docs
  BY <1>1 DEF PlaceInv, CallInv, Made, Ids, Indexing, Unmade
<1>3. \A v \in vectors' : v.vector = TextOf[v.chunk]
  <2>1. CASE pc[c] = "emptying"
    BY <1>1, <2>1 DEF Acts, ClearVectors, Others, EntriesInv
  <2>2. CASE pc[c] = "upserting"
    <3>1. \A p \in DOMAIN ChunksOf[doc[c]] : vecs[c][p] = TextOf[ChunksOf[doc[c]][p]]
      BY <1>1, <2>2 DEF EmbeddingInv, TextAt
    <3> QED BY <1>1, <2>2, <3>1 DEF Acts, Upsert, EntriesInv
  <2> QED BY <1>1, <2>1, <2>2 DEF Shared, EntriesInv
<1>4. pc[c] = "posting" => ChunksOf[doc[c]][place[c]] \in Chunks
  BY <1>1, <1>2, ChunkFacts DEF EmbeddingInv, Indexing
<1>5. \A e \in postings' : e.index \in Ids /\ e.chunk \in Chunks
  <2>1. CASE pc[c] = "unposting"
    BY <1>1, <2>1 DEF Acts, ClearPostings, Others, EntriesInv
  <2>2. CASE pc[c] = "posting"
    BY <1>1, <1>2, <1>4, <2>2 DEF Acts, InsertChunk, EntriesInv, Indexing
  <2> QED BY <1>1, <2>1, <2>2 DEF Shared, EntriesInv
<1>6. inverted' \subseteq Ids \X Chunks
  <2>1. CASE pc[c] = "inverting"
    BY <1>1, <2>1 DEF Acts, ClearInverted, EntriesInv
  <2>2. CASE pc[c] = "posting"
    BY <1>1, <1>2, <1>4, <2>2 DEF Acts, InsertChunk, EntriesInv, Indexing
  <2> QED BY <1>1, <2>1, <2>2 DEF Shared, EntriesInv
<1> QED BY <1>3, <1>5, <1>6 DEF EntriesInv

\* What a store held it still holds, but for what the call clears.
LEMMA StillHas ==
  ASSUME KnowledgeInv, NEW c \in Calls, Frame(c), Acts(c), NEW w \in Stores, NEW i, NEW x,
         Has(w, i, x)
  PROVE  Has(w, i, x)' \/ (i = at[c] /\ pc[c] \in Before(w) /\ pc'[c] \notin Before(w))
<1>1. Shared(c) /\ Goes(c)
  BY DEF Frame
<1>2. CASE w = "vectors"
  <2>1. CASE pc[c] = "emptying"
    BY <1>1, <1>2, <2>1 DEF Has, Before, Goes, Asking, Acts, ClearVectors, Others
  <2>2. CASE pc[c] = "upserting"
    <3> SUFFICES ASSUME NEW v \in vectors, v.index = i, v.chunk = x
                 PROVE  \E u \in vectors' : u.index = i /\ u.chunk = x
      BY <1>2 DEF Has
    <3>1. CASE i = at[c] /\ x \in Range(ChunksOf[doc[c]])
      <4>1. PICK p \in DOMAIN ChunksOf[doc[c]] : ChunksOf[doc[c]][p] = x
        BY <3>1 DEF Range
      <4> DEFINE u == [index |-> at[c], tenant |-> TenantOf(at[c]), chunk |-> ChunksOf[doc[c]][p],
                       vector |-> vecs[c][p]]
      <4>2. u \in vectors'
        BY <2>2 DEF Acts, Upsert
      <4> QED BY <3>1, <4>1, <4>2
    <3>2. CASE ~(i = at[c] /\ x \in Range(ChunksOf[doc[c]]))
      <4>1. v \in vectors'
        BY <2>2, <3>2 DEF Acts, Upsert
      <4> QED BY <4>1
    <3> QED BY <3>1, <3>2
  <2> QED BY <1>1, <1>2, <2>1, <2>2 DEF Shared, Has
<1>3. CASE w = "postings"
  <2>1. CASE pc[c] = "unposting"
    BY <1>1, <1>3, <2>1 DEF Has, Before, Goes, Asking, Acts, ClearPostings, Others
  <2>2. CASE pc[c] = "posting"
    BY <1>3, <2>2 DEF Has, Acts, InsertChunk
  <2> QED BY <1>1, <1>3, <2>1, <2>2 DEF Shared, Has
<1>4. CASE w = "inverted"
  <2>1. CASE pc[c] = "inverting"
    BY <1>1, <1>4, <2>1 DEF Has, Before, Goes, Asking, Acts, ClearInverted
  <2>2. CASE pc[c] = "posting"
    BY <1>4, <2>2 DEF Has, Acts, InsertChunk
  <2> QED BY <1>1, <1>4, <2>1, <2>2 DEF Shared, Has
<1> QED BY <1>2, <1>3, <1>4 DEF Stores

\* A call supplies a chunk by putting it into the store.
LEMMA SuppliesGain ==
  ASSUME KnowledgeInv, NEW c \in Calls, Frame(c), Acts(c), NEW w \in Stores,
         NEW b \in Calls, NEW d \in Docs, NEW k \in DOMAIN ChunksOf[d], Supplies(w, b, d, k)'
  PROVE  at'[b] = at[b] /\ (Supplies(w, b, d, k) \/ Has(w, at[b], ChunksOf[d][k])')
<1>1. /\ Shape /\ CallInv(c) /\ EmbeddingInv(c) /\ Own(c) /\ Registers(c) /\ Goes(c) /\ Ends(c)
      /\ pc[c] \in Steps /\ req' = req
  BY DEF KnowledgeInv, Frame, Own, Shape
<1>2. Len(ChunksOf[d]) \in Nat /\ DOMAIN ChunksOf[d] = 1 .. Len(ChunksOf[d]) /\ ChunksOf[d] # << >>
  BY InputsAssumption, LenProperties
<1>3. CASE b # c
  <2>1. /\ pc'[b] = pc[b] /\ at'[b] = at[b] /\ doc'[b] = doc[b] /\ todo'[b] = todo[b]
        /\ snapshot'[b] = snapshot[b] /\ place'[b] = place[b] /\ reply'[b] = reply[b]
    BY <1>1, <1>3 DEF Own
  <2> QED BY <1>1, <2>1 DEF Supplies, Through, Answered
<1> USE DEF Supplies, Through, Answered, Goes, Asking, Registers, Ends, Indexing
<1>4. CASE b = c /\ pc[c] \in {"new", "absent", "naming", "adding", "removing", "unnaming",
                               "emptying", "unposting", "inverting"}
  BY <1>1, <1>4
<1>5. CASE b = c /\ pc[c] = "content"
  <2>1. pc'[c] = "stats" => doc'[c] = Nothing
    BY <1>1, <1>5 DEF Acts, Content, Goto, Set, Fail, Return, Shape, CallInv
  <2> QED BY <1>1, <1>5, <2>1, InputsAssumption DEF CallInv
<1>6. CASE b = c /\ pc[c] = "listing"
  <2>1. snapshot'[c] = todo'[c]
    BY <1>1, <1>6 DEF Acts, List, Set, Shape
  <2> QED BY <1>1, <1>6, <2>1 DEF CallInv
<1>7. CASE b = c /\ pc[c] = "between"
  <2>1. \/ pc'[c] = "done" /\ todo'[c] = todo[c]
        \/ pc'[c] = "document" /\ doc'[c] \in todo[c] /\ todo'[c] = todo[c] \ {doc'[c]}
    BY <1>1, <1>7 DEF Acts, NextDocument, Set, Goto, Done, Return, Shape
  <2> QED BY <1>1, <1>7, <2>1 DEF CallInv
<1>8. CASE b = c /\ pc[c] = "document"
  <2>1. /\ pc'[c] \in {"between", "stats"} => ChunksOf[doc[c]] = << >>
        /\ pc'[c] = "posting" => ~EmbeddingsEnabled /\ place'[c] = 1
    BY <1>1, <1>8 DEF Acts, Begin, Indexed, Goto, Fail, Return, Set, Shape
  <2>2. pc'[c] = "posting" /\ w = "vectors" => Has(w, at[b], ChunksOf[d][k])'
    BY <2>1 DEF Has
  <2>3. ~(k < 1)
    BY <1>2
  <2> QED BY <1>1, <1>2, <1>8, <2>1, <2>2, <2>3
<1>9. CASE b = c /\ pc[c] \in {"embedding", "sending", "collecting"}
  BY <1>1, <1>9
<1>10. CASE b = c /\ pc[c] = "upserting"
  <2>1. at'[c] = at[c] /\ doc'[c] = doc[c] /\ place'[c] = 1 /\ pc'[c] = "posting"
    BY <1>1, <1>10 DEF EmbeddingInv
  <2>2. ASSUME doc[c] = d, w = "vectors" PROVE Has(w, at[c], ChunksOf[d][k])'
    <3> DEFINE u == [index |-> at[c], tenant |-> TenantOf(at[c]), chunk |-> ChunksOf[d][k],
                     vector |-> vecs[c][k]]
    <3>1. u \in vectors'
      BY <1>10, <2>2 DEF Acts, Upsert
    <3>2. u.index = at[c] /\ u.chunk = ChunksOf[d][k]
      OBVIOUS
    <3> HIDE DEF u
    <3> QED BY <2>1, <2>2, <3>1, <3>2 DEF Has
  <2>3. ~(k < 1)
    BY <1>2
  <2> QED BY <1>1, <1>10, <2>1, <2>2, <2>3
<1>11. CASE b = c /\ pc[c] = "posting"
  <2>1. /\ place'[c] = place[c] + 1
        /\ pc'[c] = IF place[c] = Len(ChunksOf[doc[c]]) THEN "registering" ELSE "posting"
        /\ at'[c] = at[c] /\ doc'[c] = doc[c]
    BY <1>1, <1>11 DEF Acts, InsertChunk, Goto, Set, Shape
  <2>2. ASSUME doc[c] = d, k = place[c], w # "vectors" PROVE Has(w, at[c], ChunksOf[d][k])'
    <3> DEFINE x == ChunksOf[d][k]
    <3>1. /\ [index |-> at[c], tenant |-> TenantOf(at[c]), chunk |-> x] \in postings'
          /\ <<at[c], x>> \in inverted'
      BY <1>11, <2>2 DEF Acts, InsertChunk
    <3> HIDE DEF x
    <3>2. /\ \E p \in postings' : p.index = at[c] /\ p.chunk = x
      BY <3>1
    <3> QED BY <2>1, <2>2, <3>1, <3>2 DEF Has, Stores, x
  <2>3. ASSUME doc[c] = d PROVE place[c] \in Nat /\ k \in Nat /\ k <= Len(ChunksOf[d])
    BY <1>1, <1>2, <1>11, <2>3 DEF EmbeddingInv
  <2>4. ASSUME doc[c] = d PROVE k < place[c] \/ k = place[c] \/ (pc'[c] = "posting" /\ ~(k < place'[c]))
    <3> DEFINE l == Len(ChunksOf[d])
    <3>1. l \in Nat /\ k <= l /\ place'[c] = place[c] + 1 /\ place[c] \in Nat /\ k \in Nat
          /\ pc'[c] = IF place[c] = l THEN "registering" ELSE "posting"
      BY <1>2, <2>1, <2>3, <2>4
    <3> HIDE DEF l
    <3> QED BY <3>1
  <2> QED BY <1>1, <1>11, <2>1, <2>2, <2>4
<1>12. CASE b = c /\ pc[c] \in {"registering", "counting", "stats"}
  BY <1>1, <1>12
<1>13. CASE b = c /\ pc[c] \in Asking
  BY <1>1, <1>13 DEF CallInv
<1> QED BY <1>1, <1>3, <1>4, <1>5, <1>6, <1>7, <1>8, <1>9, <1>10, <1>11, <1>12, <1>13
        DEF Steps, Unmade

\* What was put into an index is there, or with a rebuild that has emptied it.
LEMMA KeptStep ==
  ASSUME KnowledgeInv, NEW c \in Calls, Frame(c), Acts(c)
  PROVE  KeptInv'
<1>1. /\ KeptInv /\ \A b \in Calls : CallInv(b) /\ PlaceInv(b)
      /\ RegistryInv /\ Shape /\ pc[c] \in Steps
      /\ Own(c) /\ Registers(c) /\ Goes(c) /\ req' = req
  BY DEF KnowledgeInv, Frame, Own, Shape
<1> SUFFICES ASSUME NEW w \in Stores, NEW i \in DOMAIN indexes', NEW d \in Docs,
                    NEW k \in DOMAIN ChunksOf[d],
                    \/ d \in DOMAIN Stored /\ Stored[d] = i
                    \/ \E b \in Calls : at'[b] = i /\ Supplies(w, b, d, k)'
             PROVE  \/ Has(w, i, ChunksOf[d][k])'
                    \/ \E r \in Calls : at'[r] = i /\ Owes(w, r, d, k)'
  BY DEF KeptInv
<1>2. \A b \in Calls : Supplies(w, b, d, k)' =>
          at'[b] = at[b] /\ (Supplies(w, b, d, k) \/ Has(w, at[b], ChunksOf[d][k])')
  BY SuppliesGain
<1>3. i \in DOMAIN indexes
  <2> SUFFICES ASSUME i \notin DOMAIN indexes PROVE FALSE
    OBVIOUS
  <2>1. pc[c] = "adding" /\ i = c
    BY MadeKept
  <2>2. ~Made(c) /\ c # Nothing
    BY <2>1, InputsAssumption DEF Made, Unmade
  <2>3. ~(d \in DOMAIN Stored /\ Stored[d] = i)
    BY <2>1, InputsAssumption
  <2>4. PICK b \in Calls : at'[b] = c /\ Supplies(w, b, d, k)'
    BY <2>1, <2>3
  <2>5. at[b] = c
    BY <1>2, <2>4
  <2> QED BY <1>1, <2>2, <2>5 DEF PlaceInv
<1>4. i # Nothing
  BY <1>1, <1>3, InputsAssumption DEF RegistryInv, Ids
<1>5. ASSUME Has(w, i, ChunksOf[d][k])
      PROVE  \/ Has(w, i, ChunksOf[d][k])'
             \/ \E r \in Calls : at'[r] = i /\ Owes(w, r, d, k)'
  <2>1. CASE i = at[c] /\ pc[c] \in Before(w) /\ pc'[c] \notin Before(w)
    <3>1. pc[c] \in {"emptying", "unposting", "inverting"}
      BY <2>1 DEF Before, Stores
    <3>2. req[c].op = "rebuild"
      BY <1>1, <1>3, <2>1, <3>1 DEF CallInv, PlaceInv
    <3>3. at'[c] = i
      BY <1>1, <2>1, <3>1 DEF Registers
    <3>4. pc'[c] \in {"unposting", "inverting", "listing", "done"}
      BY <1>1, <3>1 DEF Goes, Asking
    <3>5. ~Supplies(w, c, d, k)'
      BY <1>1, <3>1, <3>2, <3>4 DEF Supplies, Through, Answered, Indexing, Frame, Ends
    <3>6. Owes(w, c, d, k)'
      BY <1>1, <2>1, <3>2, <3>5 DEF Owes, Before
    <3> QED BY <3>3, <3>6
  <2>2. CASE ~(i = at[c] /\ pc[c] \in Before(w) /\ pc'[c] \notin Before(w))
    BY <1>5, <2>2, StillHas
  <2> QED BY <2>1, <2>2
<1>6. ASSUME NEW r \in Calls, at[r] = i, Owes(w, r, d, k)
      PROVE  \/ Has(w, i, ChunksOf[d][k])'
             \/ at'[r] = i /\ Owes(w, r, d, k)'
  <2>1. req[r].op = "rebuild" /\ pc[r] \notin Before(w) /\ ~Supplies(w, r, d, k)
    BY <1>6 DEF Owes
  <2>2. pc'[r] \notin Before(w) /\ at'[r] = at[r]
    <3>1. CASE r # c
      BY <1>1, <2>1, <3>1 DEF Own
    <3>2. CASE r = c
      <4>1. pc[c] \notin {"new", "adding", "unnaming"}
        BY <1>1, <1>4, <1>6, <2>1, <3>2 DEF CallInv, PlaceInv, Unmade
      <4>2. at'[c] = at[c]
        BY <1>1, <4>1 DEF Registers
      <4>3. pc'[c] \in {"emptying", "unposting", "inverting"} => pc[c] \in {"emptying", "unposting"}
        BY <1>1, <4>1 DEF Goes, Asking, Steps, Unmade, Indexing
      <4>4. /\ pc[c] = "emptying" => pc'[c] = "unposting"
            /\ pc[c] = "unposting" => pc'[c] = "inverting"
        BY <1>1 DEF Goes, Asking
      <4> QED BY <2>1, <3>2, <4>2, <4>3, <4>4 DEF Before, Stores
    <3> QED BY <3>1, <3>2
  <2>3. CASE Supplies(w, r, d, k)'
    BY <1>2, <1>6, <2>1, <2>3
  <2>4. CASE ~Supplies(w, r, d, k)'
    BY <1>1, <1>6, <2>1, <2>2, <2>4 DEF Owes, Before
  <2> QED BY <2>3, <2>4
<1>7. CASE \/ d \in DOMAIN Stored /\ Stored[d] = i
           \/ \E b \in Calls : at[b] = i /\ Supplies(w, b, d, k)
  <2>1. Has(w, i, ChunksOf[d][k]) \/ \E r \in Calls : at[r] = i /\ Owes(w, r, d, k)
    BY <1>1, <1>3, <1>7 DEF KeptInv
  <2> QED BY <1>5, <1>6, <2>1
<1>8. CASE ~(\/ d \in DOMAIN Stored /\ Stored[d] = i
             \/ \E b \in Calls : at[b] = i /\ Supplies(w, b, d, k))
  BY <1>2, <1>8
<1> QED BY <1>7, <1>8
-----------------------------------------------------------------------------
\* Sequences without the set they are of.
LEMMA SequenceFacts ==
  ASSUME NEW T, NEW s \in Seq(T)
  PROVE  /\ Len(s) \in Nat /\ DOMAIN s = 1 .. Len(s) /\ s \in Seq(Range(s))
         /\ (s = << >> <=> Len(s) = 0)
         /\ \A i \in DOMAIN s : s[i] \in T
<1>1. Len(s) \in Nat /\ DOMAIN s = 1 .. Len(s) /\ \A i \in DOMAIN s : s[i] \in T
  BY LenProperties, ElementOfSeq
<1>2. s = << >> <=> Len(s) = 0
  BY EmptySeq
<1>3. s \in [1 .. Len(s) -> Range(s)]
  BY <1>1, LenProperties DEF Range
<1>4. s \in Seq(Range(s))
  BY <1>1, <1>3, SeqDef
<1> QED BY <1>1, <1>2, <1>4

\* What is cut off after n is a part of what was there.
LEMMA FirstFacts ==
  ASSUME NEW T, NEW s \in Seq(T), NEW n \in Nat
  PROVE  /\ First(n, s) \in Seq(T) /\ Len(First(n, s)) <= n /\ Len(First(n, s)) <= Len(s)
         /\ n <= Len(s) => Len(First(n, s)) = n
         /\ \A i \in DOMAIN First(n, s) : i \in DOMAIN s /\ First(n, s)[i] = s[i]
<1> DEFINE l == Len(s)
           m == IF l < n THEN l ELSE n
<1>1. l \in Nat /\ DOMAIN s = 1 .. l
  BY SequenceFacts
<1>2. First(n, s) = SubSeq(s, 1, m)
  BY DEF First
<1>3. m \in Nat /\ m <= n /\ m <= l /\ (n <= l => m = n)
  <2> HIDE DEF l
  <2> QED BY <1>1
<1> HIDE DEF m
<1>4. SubSeq(s, 1, m) = [i \in 1 .. m |-> s[i]]
  BY <1>3
<1>5. \A i \in 1 .. m : i \in DOMAIN s /\ s[i] \in T
  BY <1>1, <1>3, SequenceFacts
<1>6. SubSeq(s, 1, m) \in Seq(T) /\ Len(SubSeq(s, 1, m)) = m /\ DOMAIN SubSeq(s, 1, m) = 1 .. m
  <2>1. [i \in 1 .. m |-> s[i]] \in Seq(T)
    BY <1>3, <1>5, IsASeq
  <2>2. DOMAIN SubSeq(s, 1, m) = 1 .. m
    BY <1>4
  <2> QED BY <1>3, <1>4, <2>1, <2>2, LenProperties
<1> QED BY <1>2, <1>3, <1>4, <1>5, <1>6

\* The first few of matches that may be brought may be brought.
LEMMA FirstBrings ==
  ASSUME NEW T, NEW s \in Seq(T), NEW n \in Nat, NEW C, Once(s), \A i \in DOMAIN s : s[i].chunk \in C
  PROVE  Brings(First(n, s), C, n)
<1> DEFINE r == First(n, s)
<1>1. /\ r \in Seq(T) /\ Len(r) <= n /\ \A i \in DOMAIN r : i \in DOMAIN s /\ r[i] = s[i]
  BY FirstFacts
<1> HIDE DEF r
<1>2. r \in Seq(Range(r))
  BY <1>1, SequenceFacts
<1>3. Once(r) /\ \A i \in DOMAIN r : r[i].chunk \in C
  BY <1>1 DEF Once
<1> QED BY <1>1, <1>2, <1>3 DEF Brings, Matched, r

\* A ranking of matches of distinct chunks holds each chunk once.
LEMMA RankedFacts ==
  ASSUME NEW S, \A g, h \in S : g.chunk = h.chunk => g = h, \A h \in S : h.chunk \in Chunks,
         NEW s \in Ranked(S)
  PROVE  s \in Seq(S) /\ Once(s)
<1> DEFINE f == [h \in S |-> h.chunk]
<1>1. f \in Injection(S, Chunks)
  BY DEF Injection, IsInjective
<1>2. IsFiniteSet(S) /\ Cardinality(S) \in Nat
  BY <1>1, FS_Injection, FS_CardinalityType, InputsAssumption DEF Chunks
<1>3. /\ s \in [1 .. Cardinality(S) -> S]
      /\ \A i, j \in 1 .. Cardinality(S) : i # j => s[i] # s[j]
  BY DEF Ranked, SetToSeqs
<1>4. s \in Seq(S)
  BY <1>2, <1>3, SeqDef
<1>5. Once(s)
  BY <1>3 DEF Once
<1> QED BY <1>4, <1>5

\* The elements at some places of a sequence, each place once.
LEMMA PlacesFacts ==
  ASSUME NEW T, NEW s \in Seq(T), NEW I, I \subseteq DOMAIN s, NEW p \in SetToSeqs(I)
  PROVE  /\ At(s, p) \in Seq(T) /\ DOMAIN At(s, p) = DOMAIN p
         /\ \A i, j \in DOMAIN p : p[i] = p[j] => i = j
         /\ \A k \in DOMAIN p : p[k] \in I /\ At(s, p)[k] = s[p[k]]
<1>1. Len(s) \in Nat /\ DOMAIN s = 1 .. Len(s) /\ \A i \in DOMAIN s : s[i] \in T
  BY SequenceFacts
<1>2. IsFiniteSet(I) /\ Cardinality(I) \in Nat
  <2>1. IsFiniteSet(1 .. Len(s))
    BY <1>1, FS_Interval
  <2>2. I \in SUBSET (1 .. Len(s))
    BY <1>1
  <2> QED BY <2>1, <2>2, FS_Subset, FS_CardinalityType
<1>3. /\ p \in [1 .. Cardinality(I) -> I]
      /\ \A i, j \in 1 .. Cardinality(I) : i # j => p[i] # p[j]
  BY DEF SetToSeqs
<1>4. At(s, p) = [k \in 1 .. Cardinality(I) |-> s[p[k]]]
  BY <1>3 DEF At
<1>5. \A k \in 1 .. Cardinality(I) : s[p[k]] \in T
  BY <1>1, <1>3
<1>6. At(s, p) \in Seq(T)
  BY <1>2, <1>4, <1>5, IsASeq
<1> QED BY <1>3, <1>4, <1>6

\* What a search in one of the two stores brings.
LEMMA BestBrings ==
  ASSUME NEW S, \A g, h \in S : g.chunk = h.chunk => g = h,
         NEW C \in SUBSET Chunks, \A h \in S : h.chunk \in C,
         NEW n \in Nat, NEW hs \in Best(n, S)
  PROVE  Brings(hs, C, n)
<1>1. PICK s \in Ranked(S) : hs = First(n, s)
  BY DEF Best
<1>2. s \in Seq(S) /\ Once(s)
  BY RankedFacts
<1>3. \A i \in DOMAIN s : s[i].chunk \in C
  BY <1>2, SequenceFacts
<1> QED BY <1>1, <1>2, <1>3, FirstBrings

\* What the fusion of two searches brings.
LEMMA FusedBrings ==
  ASSUME NEW C \in SUBSET Chunks, NEW vs, \A i \in DOMAIN vs : vs[i].chunk \in C,
         NEW ls, \A i \in DOMAIN ls : ls[i].chunk \in C, NEW n \in Nat, NEW hs \in Fused(vs, ls, n)
  PROVE  Brings(hs, C, n)
<1> DEFINE found == {s[1].chunk : s \in {<<vs[i]>> : i \in DOMAIN vs} \cup {<<ls[i]>> : i \in DOMAIN ls}}
           score(x) == LET a == Reciprocal(RankOf(x, vs))
                           b == Reciprocal(RankOf(x, ls))
                       IN  <<a[1] * b[2] + b[1] * a[2], a[2] * b[2]>>
           S == {[chunk |-> x, score |-> score(x)] : x \in found}
<1>1. PICK s \in Ranked(S) : hs \in Diversified(s, n)
  BY DEF Fused
<1>2. found \subseteq C
  OBVIOUS
<1> HIDE DEF found, score
<1>3. \A h \in S : h.chunk \in C
  BY <1>2
<1>4. \A g, h \in S : g.chunk = h.chunk => g = h
  OBVIOUS
<1> HIDE DEF S
<1>5. s \in Seq(S) /\ Once(s)
  BY <1>1, <1>3, <1>4, RankedFacts
<1> DEFINE earlier(i) == {j \in 1 .. i - 1 : DocOf[s[j].chunk] = DocOf[s[i].chunk]}
           I == {i \in DOMAIN s : MaxPerDocument = 0 \/ Cardinality(earlier(i)) < MaxPerDocument}
<1>6. PICK r \in Kept(s, I) : hs = First(n, r)
  BY <1>1 DEF Diversified
<1>7. I \subseteq DOMAIN s
  OBVIOUS
<1> HIDE DEF I
<1>8. PICK p \in SetToSeqs(I) : r = At(s, p)
  BY <1>6 DEF Kept
<1>9. /\ r \in Seq(S) /\ DOMAIN r = DOMAIN p
      /\ \A i, j \in DOMAIN p : p[i] = p[j] => i = j
      /\ \A k \in DOMAIN p : p[k] \in DOMAIN s /\ r[k] = s[p[k]]
  BY <1>5, <1>7, <1>8, PlacesFacts
<1>10. Once(r)
  BY <1>5, <1>9 DEF Once
<1>11. \A i \in DOMAIN r : r[i].chunk \in C
  BY <1>3, <1>9, SequenceFacts
<1> QED BY <1>6, <1>9, <1>10, <1>11, FirstBrings

\* Sorting where each chunk is found first leaves no chunk twice.
LEMMA SortedOnce ==
  ASSUME NEW T, NEW hs \in Seq(T), NEW best \in Sorted(hs, Distinct(hs))
  PROVE  best \in Seq(T) /\ Once(best) /\ \A i \in DOMAIN best : \E j \in DOMAIN hs : best[i] = hs[j]
<1>1. PICK p \in SetToSeqs(Distinct(hs)) : best = At(hs, p)
  BY DEF Sorted
<1>2. Distinct(hs) \subseteq DOMAIN hs
  BY DEF Distinct
<1>3. /\ best \in Seq(T) /\ DOMAIN best = DOMAIN p
      /\ \A i, j \in DOMAIN p : p[i] = p[j] => i = j
      /\ \A k \in DOMAIN p : p[k] \in Distinct(hs) /\ best[k] = hs[p[k]]
  BY <1>1, <1>2, PlacesFacts
<1>4. \A i, j \in Distinct(hs) : hs[i].chunk = hs[j].chunk => i = j
  <2>1. DOMAIN hs = 1 .. Len(hs) /\ Len(hs) \in Nat
    BY SequenceFacts
  <2> SUFFICES ASSUME NEW i \in Distinct(hs), NEW j \in Distinct(hs),
                      hs[i].chunk = hs[j].chunk, i # j
               PROVE  FALSE
    OBVIOUS
  <2>2. i \in Nat /\ j \in Nat /\ 1 <= i /\ 1 <= j
    BY <1>2, <2>1
  <2>3. i \in 1 .. j - 1 \/ j \in 1 .. i - 1
    BY <2>2
  <2> QED BY <2>3 DEF Distinct
<1>5. Once(best)
  BY <1>3, <1>4 DEF Once
<1> QED BY <1>2, <1>3, <1>5

\* What is packed is within the limit and the budget, but for a single chunk.
LEMMA PackedFacts ==
  ASSUME NEW T, NEW best \in Seq(T), NEW limit \in Nat
  PROVE  \E n \in Nat : /\ Packed(best, limit) = First(n, best) /\ n <= limit /\ n <= Len(best)
                        /\ n <= 1 \/ TokensIn(ChunkIds(First(n, best))) <= MaxContext
<1> DEFINE F == {n \in 0 .. Len(best) :
                   n <= limit /\ (n <= 1 \/ TokensIn(ChunkIds(First(n, best))) <= MaxContext)}
           U == {k \in Nat : \E n \in F : k = Len(best) - n}
<1>1. Packed(best, limit) = First(Max(F), best)
  BY DEF Packed
<1>2. Len(best) \in Nat
  BY SequenceFacts
<1>3. 0 \in F /\ F \subseteq 0 .. Len(best)
  BY <1>2
<1>4. \A n \in F : /\ n <= limit
                   /\ n <= 1 \/ TokensIn(ChunkIds(First(n, best))) <= MaxContext
  OBVIOUS
<1> HIDE DEF F
<1>5. U \subseteq Nat /\ Len(best) \in U
  BY <1>2, <1>3
<1>6. PICK k \in U : \A m \in U : k <= m
  <2> HIDE DEF U
  <2> QED BY <1>5, LeastElement
<1>7. PICK x \in F : k = Len(best) - x
  BY <1>6
<1>8. \A y \in F : x >= y
  <2> SUFFICES ASSUME NEW y \in F PROVE x >= y
    OBVIOUS
  <2>1. x \in Nat /\ y \in Nat /\ y <= Len(best)
    BY <1>2, <1>3
  <2>2. Len(best) - y \in U
    BY <1>2, <2>1
  <2>3. k <= Len(best) - y
    BY <1>6, <2>2
  <2> QED BY <1>2, <1>7, <2>1, <2>3
<1>9. Max(F) \in F
  BY <1>7, <1>8 DEF Max
<1>10. Max(F) \in Nat /\ Max(F) <= Len(best)
  <2>1. \A y \in 0 .. Len(best) : y \in Nat /\ y <= Len(best)
    BY <1>2
  <2> QED BY <1>3, <1>9, <2>1
<1> QED BY <1>1, <1>4, <1>9, <1>10

-----------------------------------------------------------------------------
\* What is put into a store is of the tenant of its index.
LEMMA TenantsStep ==
  ASSUME KnowledgeInv, NEW c \in Calls, Frame(c), Acts(c)
  PROVE  TenantsInv'
<1>1. /\ TenantsInv /\ CallInv(c) /\ EmbeddingInv(c) /\ Shared(c) /\ req' = req
  BY DEF KnowledgeInv, Frame, Own
<1>2. \A i : TenantOf(i)' = TenantOf(i)
  BY <1>1 DEF TenantOf
<1>3. pc[c] \in Indexing => doc[c] \in Docs
  BY <1>1 DEF CallInv
<1>4. \A e \in vectors' : e.chunk \in Chunks /\ e.tenant = TenantOf(e.index)
  <2>1. CASE pc[c] = "emptying"
    BY <1>1, <2>1 DEF Acts, ClearVectors, Others, TenantsInv
  <2>2. CASE pc[c] = "upserting"
    <3>1. \A p \in DOMAIN ChunksOf[doc[c]] : ChunksOf[doc[c]][p] \in Chunks
      BY <1>3, <2>2, ChunkFacts DEF Indexing
    <3> QED BY <1>1, <2>2, <3>1 DEF Acts, Upsert, TenantsInv
  <2> QED BY <1>1, <2>1, <2>2 DEF Shared, TenantsInv
<1>5. \A e \in postings' : e.chunk \in Chunks /\ e.tenant = TenantOf(e.index)
  <2>1. CASE pc[c] = "unposting"
    BY <1>1, <2>1 DEF Acts, ClearPostings, Others, TenantsInv
  <2>2. CASE pc[c] = "posting"
    <3>1. ChunksOf[doc[c]][place[c]] \in Chunks
      BY <1>1, <1>3, <2>2, ChunkFacts DEF EmbeddingInv, Indexing
    <3> QED BY <1>1, <2>2, <3>1 DEF Acts, InsertChunk, TenantsInv
  <2> QED BY <1>1, <2>1, <2>2 DEF Shared, TenantsInv
<1> QED BY <1>2, <1>4, <1>5 DEF TenantsInv

\* Matches that a call may bring, cited as they may be, are a grounded answer.
LEMMA MatchesGrounded ==
  ASSUME NEW c \in Calls, req' = req, at'[c] = at[c], NEW hs, Matched(hs, Seen(c)), Once(hs),
         Len(hs) <= 1 \/ Len(hs) <= req[c].limit, req[c].op # "search" => Fits(c, hs),
         NEW cites, cites \subseteq Range(ChunkIds(hs)),
         req[c].op = "answer" /\ hs # << >> => cites # {},
         reply'[c] = Matches(hs, cites)
  PROVE  Grounded(c)'
<1> DEFINE ids == ChunkIds(hs)
<1>1. Len(hs) \in Nat /\ DOMAIN hs = 1 .. Len(hs) /\ (hs = << >> <=> Len(hs) = 0)
  BY SequenceFacts DEF Matched
<1>2. DOMAIN ids = 1 .. Len(hs) /\ \A i \in DOMAIN ids : ids[i] = hs[i].chunk
  BY <1>1 DEF ChunkIds
<1>3. ids \in Seq(Range(ids))
  <2>1. ids = [i \in 1 .. Len(hs) |-> hs[i].chunk]
    BY <1>1 DEF ChunkIds
  <2>2. \A i \in 1 .. Len(hs) : hs[i].chunk \in Range(ids)
    BY <1>2 DEF Range
  <2> HIDE DEF ids
  <2> QED BY <1>1, <2>1, <2>2, IsASeq
<1>4. Len(ids) = Len(hs) /\ (hs = << >> <=> ids = << >>)
  <2> HIDE DEF ids
  <2>1. Len(ids) \in Nat /\ DOMAIN ids = 1 .. Len(ids) /\ (ids = << >> <=> Len(ids) = 0)
    BY <1>3, SequenceFacts
  <2>2. Len(ids) = Len(hs)
    BY <1>1, <1>2, <2>1
  <2> QED BY <1>1, <2>1, <2>2
<1>5. reply'[c].chunks = ids /\ reply'[c].cites = cites
  BY DEF Matches
<1>6. TenantOf(at[c])' = TenantOf(at[c])
  BY DEF TenantOf
<1>7. IsInjective(ids)
  BY <1>1, <1>2 DEF Once, IsInjective
<1>8. \A x \in Range(ids) : DOMAIN ids # {} /\ x \in Seen(c)
  BY <1>1, <1>2 DEF Range, Matched
<1>9. req[c].op # "search" => Len(hs) <= MaxChunks /\ (Len(hs) <= 1 \/ TokensIn(ids) <= MaxContext)
  BY DEF Fits
<1>10. cites \subseteq Range(ids)
  OBVIOUS
<1> HIDE DEF ids
<1>11. \A x \in Range(ids) : /\ DocOf[x] \in req'[c].among
                             /\ req'[c].mode = "semantic" => DocOf[x] \in req'[c].tagged
                             /\ req'[c].tenant \in {Nothing, TenantOf(at[c])'}
  BY <1>6, <1>8 DEF Seen
<1> QED BY <1>4, <1>5, <1>7, <1>9, <1>10, <1>11 DEF Grounded

\* The limits a call searches with are naturals, at most what it asked for or one.
LEMMA LimitFacts ==
  ASSUME NEW c \in Calls, req \in Requests
  PROVE  /\ TopK(c) \in Nat /\ TopK(c) >= 1 /\ TopK(c) <= MaxChunks
         /\ TopK(c) <= 1 \/ TopK(c) <= req[c].limit
         /\ Limit(c) \in Nat /\ 2 * Limit(c) \in Nat
         /\ req[c].op = "search" => Limit(c) <= 1 \/ Limit(c) <= req[c].limit
<1>1. req[c].limit \in Nat /\ MaxChunks \in Nat /\ MaxChunks >= 1
  BY InputsAssumption, BoundsAssumption
<1>2. \A n, most \in Nat : most >= 1 =>
         /\ Capped(n, most) \in Nat /\ Capped(n, most) >= 1 /\ Capped(n, most) <= most
         /\ Capped(n, most) <= 1 \/ Capped(n, most) <= n
  BY DEF Capped
<1>3. /\ TopK(c) \in Nat /\ TopK(c) >= 1 /\ TopK(c) <= MaxChunks
      /\ TopK(c) <= 1 \/ TopK(c) <= req[c].limit
  BY <1>1, <1>2 DEF TopK
<1>4. 2 * TopK(c) \in Nat
  BY <1>3
<1>5. Limit(c) \in Nat /\ (req[c].op = "search" => Limit(c) <= 1 \/ Limit(c) <= req[c].limit)
  <2>1. 100 \in Nat /\ 100 >= 1
    OBVIOUS
  <2>2. /\ Capped(req[c].limit, 100) \in Nat /\ Capped(2 * TopK(c), 100) \in Nat
        /\ Capped(req[c].limit, 100) <= 1 \/ Capped(req[c].limit, 100) <= req[c].limit
    BY <1>1, <1>2, <1>4, <2>1
  <2> QED BY <2>2 DEF Limit
<1>6. 2 * Limit(c) \in Nat
  BY <1>5
<1> QED BY <1>3, <1>5, <1>6

\* What a query found is answered, or put behind what was found before.
LEMMA FoundStep ==
  ASSUME KnowledgeInv, NEW c \in Calls, Frame(c), pc[c] \in Asking \ {"packing", "answering"},
         NEW more, Found(c, more), Brings(more, Seen(c), Limit(c))
  PROVE  HitsInv(c)'
<1>1. /\ Shape /\ HitsInv(c) /\ req' = req /\ at'[c] = at[c]
  BY DEF KnowledgeInv, Frame, Own, Registers, Asking
<1>2. Seen(c)' = Seen(c)
  BY <1>1 DEF Seen, TenantOf
<1>3. CASE req[c].op = "search"
  <2>1. pc'[c] = "done" /\ reply'[c] = Matches(more, {})
    BY <1>1, <1>3 DEF Found, Return, Goto, Set, Shape
  <2>2. Len(more) \in Nat /\ Len(more) <= Limit(c)
    BY SequenceFacts DEF Brings, Matched
  <2>3. Len(more) <= 1 \/ Len(more) <= req[c].limit
    <3>1. Limit(c) \in Nat /\ (Limit(c) <= 1 \/ Limit(c) <= req[c].limit) /\ req[c].limit \in Nat
      BY <1>1, <1>3, LimitFacts, InputsAssumption DEF Shape
    <3> QED BY <2>2, <3>1
  <2>4. Grounded(c)'
    BY <1>1, <1>3, <2>1, <2>3, MatchesGrounded DEF Brings
  <2> QED BY <2>1, <2>4 DEF HitsInv, Asking
<1>4. CASE req[c].op # "search"
  <2>1. hits'[c] = hits[c] \o more /\ pc'[c] \in {"query", "packing"}
    BY <1>1, <1>4 DEF Found, Goto, Set, Shape
  <2>2. Matched(hits[c], Seen(c)) /\ Matched(more, Seen(c))
    BY <1>1 DEF HitsInv, Brings
  <2> DEFINE hs == hits[c]
             S == Range(hs) \cup Range(more)
  <2>3. hs \in Seq(S) /\ more \in Seq(S)
    BY <2>2, SeqMonotonic DEF Matched
  <2>4. \A h \in S : h.chunk \in Seen(c)
    BY <2>2 DEF Matched, Range
  <2> HIDE DEF S, hs
  <2>5. hs \o more \in Seq(S)
    BY <2>3, ConcatProperties
  <2>6. hs \o more \in Seq(Range(hs \o more)) /\ \A i \in DOMAIN (hs \o more) : (hs \o more)[i] \in S
    BY <2>5, SequenceFacts
  <2>7. Matched(hs \o more, Seen(c))
    BY <2>4, <2>6 DEF Matched
  <2>8. Matched(hits'[c], Seen(c)')
    BY <1>2, <2>1, <2>7 DEF hs
  <2> QED BY <1>1, <1>4, <2>1, <2>8 DEF HitsInv, Asking, Answered
<1> QED BY <1>3, <1>4

\* What the stores answer is what the call may see, each chunk once.
LEMMA SearchesBring ==
  ASSUME KnowledgeInv, NEW c \in Calls, NEW n \in Nat
  PROVE  /\ \A hs \in Semantic(c, n) : Brings(hs, Seen(c), n)
         /\ req[c].mode # "semantic" => \A hs \in Lexical(c, n) : Brings(hs, Seen(c), n)
<1>1. TenantsInv /\ \A v \in vectors : v.vector = TextOf[v.chunk]
  BY DEF KnowledgeInv, EntriesInv
<1>2. \A e \in vectors \cup postings :
         Passes(c, e) /\ (req[c].mode # "semantic" \/ HasTags(c, e)) => e.chunk \in Seen(c)
  BY <1>1 DEF TenantsInv, Passes, HasTags, Seen
<1>3. Seen(c) \in SUBSET Chunks
  BY DEF Seen
<1>4. ASSUME NEW hs \in Semantic(c, n) PROVE Brings(hs, Seen(c), n)
  <2> DEFINE S == {[chunk |-> e.chunk, score |-> <<Similarity[place[c]][e.vector], 100>>] :
                      e \in {v \in vectors : Passes(c, v) /\ HasTags(c, v)}}
  <2>1. \A h \in S : h.chunk \in Seen(c)
    BY <1>2
  <2>2. \A h \in S : h = [chunk |-> h.chunk,
                          score |-> <<Similarity[place[c]][TextOf[h.chunk]], 100>>]
    BY <1>1
  <2>3. hs \in Best(n, S)
    BY <1>4 DEF Semantic
  <2> HIDE DEF S
  <2>4. \A g, h \in S : g.chunk = h.chunk => g = h
    BY <2>2
  <2> QED BY <1>3, <2>1, <2>3, <2>4, BestBrings
<1>5. ASSUME req[c].mode # "semantic", NEW hs \in Lexical(c, n) PROVE Brings(hs, Seen(c), n)
  <2> DEFINE E == {p \in postings : /\ Passes(c, p)
                                    /\ <<p.index, p.chunk>> \in inverted
                                    /\ Relevance[place[c]][TextOf[p.chunk]] > 0}
             S == {[chunk |-> e.chunk, score |-> <<Relevance[place[c]][TextOf[e.chunk]], 1>>] : e \in E}
  <2>1. hs \in Best(n, S)
    BY <1>5 DEF Lexical
  <2>2. \A e \in E : e.chunk \in Seen(c)
    BY <1>2, <1>5
  <2> HIDE DEF E
  <2>3. \A h \in S : h.chunk \in Seen(c)
    BY <2>2
  <2>4. \A h \in S : h = [chunk |-> h.chunk,
                          score |-> <<Relevance[place[c]][TextOf[h.chunk]], 1>>]
    OBVIOUS
  <2> HIDE DEF S
  <2>5. \A g, h \in S : g.chunk = h.chunk => g = h
    BY <2>4
  <2> QED BY <1>3, <2>1, <2>3, <2>5, BestBrings
<1> QED BY <1>4, <1>5

\* A call that reads has found and brings only what it may see, within its limits.
LEMMA HitsStep ==
  ASSUME KnowledgeInv, NEW c \in Calls, Frame(c), Acts(c)
  PROVE  HitsInv(c)'
<1>1. /\ Shape /\ CallInv(c) /\ HitsInv(c) /\ Registers(c) /\ Goes(c) /\ Ends(c) /\ pc[c] \in Steps
      /\ req' = req /\ req \in Requests
  BY DEF KnowledgeInv, Frame, Own, Shape
<1>2. pc[c] \in Asking => /\ at'[c] = at[c] /\ Seen(c)' = Seen(c)
                          /\ req[c].op \in {"search", "retrieve", "answer"}
  BY <1>1 DEF Registers, Asking, Seen, TenantOf, CallInv
<1>3. Limit(c) \in Nat /\ 2 * Limit(c) \in Nat
  BY <1>1, LimitFacts
<1>4. \A n \in Nat : Brings(<< >>, Seen(c), n)
  <2>1. << >> \in Seq({}) /\ Len(<< >>) = 0
    BY EmptySeq
  <2>2. << >> \in Seq(Range(<< >>)) /\ DOMAIN << >> = {}
    BY <2>1, SequenceFacts
  <2> QED BY <2>1, <2>2 DEF Brings, Matched, Once
<1>5. ASSUME NEW more, Found(c, more), Brings(more, Seen(c), Limit(c)),
             pc[c] \in Asking \ {"packing", "answering"}
      PROVE  HitsInv(c)'
  BY <1>5, FoundStep
<1>6. ASSUME pc[c] \in Asking, hits'[c] = hits[c], pc'[c] \in {"asking", "embeddingQuery", "nearest"}
      PROVE  HitsInv(c)'
  BY <1>1, <1>2, <1>6 DEF HitsInv, Asking, Answered
<1>7. ASSUME pc[c] \in Asking, pc'[c] = "done", reply'[c].ok = FALSE
      PROVE  HitsInv(c)'
  BY <1>7 DEF HitsInv, Asking, Answered
<1>8. CASE pc[c] = "new"
  <2>1. hits'[c] = << >>
    BY <1>1, <1>8 DEF Registers, HitsInv, Asking
  <2>2. pc'[c] \in {"absent", "content", "removing", "emptying", "query", "done"}
    BY <1>1, <1>8 DEF Goes, Asking
  <2>3. pc'[c] = "done" => reply'[c].ok = FALSE
    BY <1>1, <1>8 DEF Acts, Resolve, Fail, Return, Goto, Set, Shape
  <2>4. Matched(<< >>, Seen(c)')
    <3>1. << >> \in Seq(Range(<< >>)) /\ DOMAIN << >> = {}
      BY <1>4 DEF Brings, Matched
    <3> QED BY <3>1 DEF Matched
  <2> QED BY <2>1, <2>2, <2>3, <2>4 DEF HitsInv, Asking, Answered
<1>9. CASE pc[c] = "query"
  <2>1. Query(c)
    BY <1>9 DEF Acts
  <2>2. \/ hits'[c] = hits[c] /\ pc'[c] = "asking"
        \/ pc'[c] = "done" /\ reply'[c].ok = FALSE
        \/ Found(c, << >>)
        \/ req[c].mode # "semantic" /\ \E more \in Lexical(c, Limit(c)) : Found(c, more)
    BY <1>1, <2>1 DEF Query, Goto, Fail, Return, Set, Shape
  <2> QED BY <1>3, <1>4, <1>5, <1>6, <1>7, <1>9, <2>2, SearchesBring DEF Asking
<1>10. CASE pc[c] = "asking"
  <2>1. hits'[c] = hits[c] /\ pc'[c] = "embeddingQuery"
    BY <1>1, <1>10 DEF Acts, AcquirePermit, Goto, Shape, reading
  <2> QED BY <1>6, <1>10, <2>1 DEF Asking
<1>11. CASE pc[c] = "embeddingQuery"
  <2>1. QueryEmbedded(c)
    BY <1>11 DEF Acts
  <2>2. \/ hits'[c] = hits[c] /\ pc'[c] = "nearest"
        \/ pc'[c] = "done" /\ reply'[c].ok = FALSE
        \/ Found(c, << >>)
        \/ req[c].mode # "semantic" /\ \E more \in Lexical(c, Limit(c)) : Found(c, more)
    BY <1>1, <2>1 DEF QueryEmbedded, Goto, Fail, Return, Set, Shape
  <2> QED BY <1>3, <1>4, <1>5, <1>6, <1>7, <1>11, <2>2, SearchesBring DEF Asking
<1>12. CASE pc[c] = "nearest"
  <2>1. SearchVectors(c)
    BY <1>12 DEF Acts
  <2>2. CASE req[c].mode = "semantic"
    <3>1. PICK more \in Semantic(c, Limit(c)) : Found(c, more)
      BY <2>1, <2>2 DEF SearchVectors
    <3>2. Brings(more, Seen(c), Limit(c))
      BY <1>3, SearchesBring
    <3> QED BY <1>5, <1>12, <3>1, <3>2 DEF Asking
  <2>3. CASE req[c].mode # "semantic"
    <3>1. PICK near \in Semantic(c, 2 * Limit(c)) :
             vecs'[c] = near /\ pc'[c] = "matching" /\ hits'[c] = hits[c]
      BY <1>1, <2>1, <2>3 DEF SearchVectors, Goto, Set, Shape
    <3>2. Matched(near, Seen(c))
      BY <1>3, SearchesBring DEF Brings
    <3>3. Matched(hits[c], Seen(c))
      BY <1>1, <1>12 DEF HitsInv, Asking
    <3>4. Seen(c)' = Seen(c)
      BY <1>2, <1>12 DEF Asking
    <3> HIDE DEF HitsInv
    <3>5. Matched(hits[c], Seen(c))' /\ Matched(vecs[c], Seen(c))'
      BY <3>1, <3>2, <3>3, <3>4 DEF Matched
    <3> QED BY <1>1, <2>3, <3>1, <3>5 DEF HitsInv, Asking, Answered
  <2> QED BY <2>2, <2>3
<1>13. CASE pc[c] = "matching"
  <2>1. PICK words \in Lexical(c, 2 * Limit(c)) :
           \E more \in Fused(vecs[c], words, Limit(c)) : Found(c, more)
    BY <1>13 DEF Acts, SearchLexical
  <2>2. PICK more \in Fused(vecs[c], words, Limit(c)) : Found(c, more)
    BY <2>1
  <2>3. Matched(words, Seen(c)) /\ Matched(vecs[c], Seen(c))
    <3>1. Matched(vecs[c], Seen(c)) /\ req[c].mode # "semantic"
      BY <1>1, <1>13 DEF HitsInv
    <3> QED BY <1>3, <3>1, SearchesBring DEF Brings
  <2>4. Seen(c) \in SUBSET Chunks
    BY DEF Seen
  <2>5. Brings(more, Seen(c), Limit(c))
    BY <1>3, <2>3, <2>4, FusedBrings DEF Matched
  <2> QED BY <1>5, <1>13, <2>2, <2>5 DEF Asking
<1>14. CASE pc[c] = "packing"
  <2>1. PICK best \in Sorted(hits[c], Distinct(hits[c])) :
          LET packed == Packed(best, TopK(c)) IN
          /\ hits' = Set(hits, c, packed)
          /\ IF req[c].op = "answer" /\ packed # << >> THEN Goto(c, "answering") /\ reply' = reply
             ELSE Return(c, Matches(packed, {}))
    BY <1>14 DEF Acts, Pack
  <2>2. PICK packed : packed = Packed(best, TopK(c))
    OBVIOUS
  <2>3. /\ hits'[c] = packed
        /\ IF req[c].op = "answer" /\ packed # << >> THEN pc'[c] = "answering"
           ELSE pc'[c] = "done" /\ reply'[c] = Matches(packed, {})
    BY <1>1, <2>1, <2>2 DEF Goto, Set, Return, Shape
  <2>4. Matched(hits[c], Seen(c)) /\ req[c].op # "search"
    BY <1>1, <1>14 DEF HitsInv, Asking
  <2> DEFINE T == Range(hits[c])
  <2>5. /\ best \in Seq(T) /\ Once(best)
        /\ \A i \in DOMAIN best : \E j \in DOMAIN hits[c] : best[i] = hits[c][j]
    BY <2>4, SortedOnce DEF Matched
  <2>6. \A i \in DOMAIN best : best[i].chunk \in Seen(c)
    BY <2>4, <2>5 DEF Matched
  <2> HIDE DEF T
  <2>7. TopK(c) \in Nat /\ TopK(c) <= MaxChunks /\ (TopK(c) <= 1 \/ TopK(c) <= req[c].limit)
        /\ MaxChunks \in Nat /\ req[c].limit \in Nat
    BY <1>1, LimitFacts, BoundsAssumption, InputsAssumption
  <2>8. PICK n \in Nat : /\ packed = First(n, best) /\ n <= TopK(c) /\ n <= Len(best)
                         /\ n <= 1 \/ TokensIn(ChunkIds(First(n, best))) <= MaxContext
    BY <2>2, <2>5, <2>7, PackedFacts
  <2>9. Len(packed) = n
    BY <2>5, <2>8, FirstFacts
  <2>10. Matched(packed, Seen(c)) /\ Once(packed)
    BY <2>5, <2>6, <2>8, FirstBrings DEF Brings
  <2>11. Fits(c, packed) /\ (Len(packed) <= 1 \/ Len(packed) <= req[c].limit)
    BY <2>7, <2>8, <2>9, <2>10 DEF Fits
  <2>12. CASE req[c].op = "answer" /\ packed # << >>
    <3>1. Seen(c)' = Seen(c)
      BY <1>2, <1>14 DEF Asking
    <3>2. Matched(hits[c], Seen(c))' /\ Fits(c, hits[c])'
      BY <1>1, <2>3, <2>10, <2>11, <3>1 DEF Matched, Fits
    <3> QED BY <1>1, <2>3, <2>4, <2>12, <3>2 DEF HitsInv, Asking, Answered
  <2>13. CASE ~(req[c].op = "answer" /\ packed # << >>)
    <3>1. at'[c] = at[c]
      BY <1>2, <1>14 DEF Asking
    <3>2. Grounded(c)'
      BY <1>1, <2>3, <2>10, <2>11, <2>13, <3>1, MatchesGrounded
    <3> QED BY <2>3, <2>13, <3>2 DEF HitsInv, Asking
  <2> QED BY <2>12, <2>13
<1>15. CASE pc[c] = "answering"
  <2>1. Answer(c)
    BY <1>15 DEF Acts
  <2>2. /\ Matched(hits[c], Seen(c)) /\ req[c].op # "search"
        /\ hits[c] # << >> /\ Fits(c, hits[c])
    BY <1>1, <1>15 DEF HitsInv, Asking
  <2>3. CASE Fail(c, "llm")
    BY <1>1, <1>7, <1>15, <2>3 DEF Fail, Return, Goto, Set, Shape, Asking
  <2>4. ASSUME NEW cited \in SUBSET Chunks,
               LET valid == cited \cap Range(ChunkIds(hits[c])) IN
               Return(c, Matches(hits[c], IF valid = {} THEN {hits[c][1].chunk} ELSE valid))
        PROVE  HitsInv(c)'
    <3> DEFINE hs == hits[c]
               valid == cited \cap Range(ChunkIds(hs))
               cites == IF valid = {} THEN {hs[1].chunk} ELSE valid
    <3>1. pc'[c] = "done" /\ reply'[c] = Matches(hs, cites)
      BY <1>1, <2>4 DEF Return, Goto, Set, Shape
    <3>2. 1 \in DOMAIN hs
      <4>1. Len(hs) \in Nat /\ DOMAIN hs = 1 .. Len(hs) /\ Len(hs) # 0
        BY <2>2, SequenceFacts DEF Matched
      <4> HIDE DEF hs
      <4> QED BY <4>1
    <3>3. hs[1].chunk \in Range(ChunkIds(hs))
      BY <3>2 DEF ChunkIds, Range
    <3>4. cites \subseteq Range(ChunkIds(hs)) /\ cites # {}
      BY <3>3
    <3>5. at'[c] = at[c]
      BY <1>2, <1>15 DEF Asking
    <3>6. Once(hs) /\ (Len(hs) <= 1 \/ Len(hs) <= req[c].limit)
      BY <2>2 DEF Fits
    <3> HIDE DEF cites, valid
    <3>7. Grounded(c)'
      BY <1>1, <2>2, <3>1, <3>4, <3>5, <3>6, MatchesGrounded
    <3> QED BY <3>1, <3>7 DEF HitsInv, Asking
  <2> QED BY <2>1, <2>3, <2>4 DEF Answer
<1>16. CASE pc[c] \notin Asking \cup {"new"}
  <2>1. pc'[c] \notin Asking \cup {"new"}
    BY <1>1, <1>16 DEF Goes, Asking, Steps, Unmade, Indexing
  <2>2. req[c].op \in {"search", "retrieve", "answer"} => FALSE
    BY <1>1, <1>16 DEF CallInv, Goes, Steps, Unmade, Indexing, Asking
  <2> QED BY <1>1, <2>1, <2>2 DEF HitsInv, Asking
<1> QED BY <1>8, <1>9, <1>10, <1>11, <1>12, <1>13, <1>14, <1>15, <1>16 DEF Asking

\* What a call has found and brought stays when another takes a step.
LEMMA HitsStay ==
  ASSUME NEW c \in Calls, Frame(c), NEW b \in Calls, b # c, HitsInv(b)
  PROVE  HitsInv(b)'
<1>1. /\ pc'[b] = pc[b] /\ at'[b] = at[b] /\ vecs'[b] = vecs[b] /\ hits'[b] = hits[b]
      /\ reply'[b] = reply[b] /\ req' = req
  BY DEF Frame, Own
<1>2. TenantOf(at[b])' = TenantOf(at[b])
  BY <1>1 DEF TenantOf
<1>3. Seen(b)' = Seen(b)
  BY <1>1, <1>2 DEF Seen
<1>4. (Grounded(b) => Grounded(b)') /\ (Fits(b, hits[b]) => Fits(b, hits[b])')
  BY <1>1, <1>2 DEF Grounded, Fits
<1> QED BY <1>1, <1>3, <1>4 DEF HitsInv, Matched, Answered


-----------------------------------------------------------------------------
\* What a task that ends leaves alone.
LEMMA RestKept ==
  ASSUME KnowledgeInv, UNCHANGED <<registry, stores, pc, req, at, indexing, place, reading>>
  PROVE  /\ Shape' /\ RegistryInv' /\ EntriesInv' /\ KeptInv'
         /\ TenantsInv'
         /\ \A c \in Calls : CallInv(c)' /\ PlaceInv(c)' /\ EmbeddingInv(c)' /\ HitsInv(c)'
<1> USE DEF registry, stores, indexing, reading
<1>1. /\ Shape /\ RegistryInv /\ EntriesInv /\ KeptInv
      /\ TenantsInv
      /\ \A c \in Calls : CallInv(c) /\ PlaceInv(c) /\ EmbeddingInv(c) /\ HitsInv(c)
  BY DEF KnowledgeInv
<1>2. Shape'
  BY <1>1 DEF Shape
<1>3. RegistryInv'
  BY <1>1 DEF RegistryInv, NamesLead, NameOf, Made
<1>4. EntriesInv'
  BY <1>1 DEF EntriesInv
<1>5. \A w, i, x : Has(w, i, x)' <=> Has(w, i, x)
  BY DEF Has
<1>6. \A w, c, d, k : /\ Supplies(w, c, d, k)' <=> Supplies(w, c, d, k)
                      /\ Owes(w, c, d, k)' <=> Owes(w, c, d, k)
  BY DEF Supplies, Owes, Through, Answered, Before
<1>7. KeptInv'
  BY <1>1, <1>5, <1>6 DEF KeptInv
<1>8. ASSUME NEW c \in Calls PROVE CallInv(c)' /\ PlaceInv(c)' /\ EmbeddingInv(c)' /\ HitsInv(c)'
  <2>1. CallInv(c)'
    BY <1>1 DEF CallInv, Answered
  <2>2. PlaceInv(c)'
    BY <1>1 DEF PlaceInv, Made
  <2>3. EmbeddingInv(c)'
    BY <1>1 DEF EmbeddingInv, TextAt
  <2>4. HitsInv(c)'
    BY <1>1 DEF HitsInv, Matched, Seen, TenantOf, Fits, Answered, Grounded
  <2> QED BY <2>1, <2>2, <2>3, <2>4
<1>9. TenantsInv'
  BY <1>1 DEF TenantsInv, TenantOf
<1> QED BY <1>2, <1>3, <1>4, <1>7, <1>8, <1>9

\* A task may be replaced by what it becomes, for the same batch of the same call.
LEMMA TaskReplaced ==
  ASSUME TasksInv, NEW t \in tasks, NEW u, TaskInv(u), u.call = t.call, u.n = t.n,
         tasks' \subseteq (tasks \ {t}) \cup {u}, UNCHANGED <<pc, got, sent, doc, batches>>
  PROVE  TasksInv'
<1>1. IsFiniteSet(tasks')
  <2>1. IsFiniteSet(tasks \ {t}) /\ IsFiniteSet((tasks \ {t}) \cup {u})
    BY FS_Subset, FS_AddElement DEF TasksInv
  <2> QED BY <2>1, FS_Subset
<1>2. \A v \in tasks' : TaskInv(v)'
  <2> SUFFICES ASSUME NEW v \in tasks', TaskInv(v) PROVE TaskInv(v)'
    BY DEF TasksInv
  <2> QED BY DEF TaskInv
<1>3. \A v, w \in tasks' : v.call = w.call /\ v.n = w.n => v = w
  BY DEF TasksInv
<1> QED BY <1>1, <1>2, <1>3 DEF TasksInv

\* How many tasks are under way and how many calls embed a query.
LEMMA PermitFacts ==
  ASSUME TasksInv, PermitInv
  PROVE  /\ IsFiniteSet(Running) /\ IsFiniteSet(Embedding) /\ IsFiniteSet(Rooms)
         /\ Cardinality(Running) \in Nat /\ Cardinality(Embedding) \in Nat
         /\ Cardinality(Rooms) \in Nat /\ Permits \in Nat /\ permits \in Nat
         /\ Cardinality(Running) + Cardinality(Embedding) = Permits - permits
         /\ Cardinality(Rooms) <= Permits
<1>1. IsFiniteSet(Running) /\ IsFiniteSet(Embedding) /\ IsFiniteSet(Rooms)
  BY InputsAssumption, FS_Subset DEF TasksInv, Running, Embedding, Rooms
<1>2. Rooms \subseteq Running
  BY DEF TasksInv, TaskInv, Rooms, Running, UnderWay
<1>3. /\ Cardinality(Running) \in Nat /\ Cardinality(Embedding) \in Nat
      /\ Cardinality(Rooms) \in Nat /\ Cardinality(Rooms) <= Cardinality(Running)
  BY <1>1, <1>2, FS_CardinalityType, FS_Subset
<1>4. /\ Permits \in Nat /\ permits \in Nat
      /\ Cardinality(Running) + Cardinality(Embedding) = Permits - permits
  BY BoundsAssumption DEF PermitInv, Running, Embedding
<1>5. Cardinality(Rooms) <= Permits
  BY <1>3, <1>4
<1> QED BY <1>1, <1>3, <1>4, <1>5

\* A task that ends gives its permit back, and has no room in the cache.
LEMMA TaskEndsStep ==
  ASSUME KnowledgeInv, NEW t \in tasks, UnderWay(t), ~t.room, NEW status \in {"ok", "failed"},
         EndTask(t, status),
         UNCHANGED <<registry, stores, cache, pc, req, at, indexing, place, reading>>
  PROVE  KnowledgeInv'
<1>1. /\ TasksInv /\ TaskInv(t) /\ CacheInv /\ PermitInv
  BY DEF KnowledgeInv, TasksInv
<1>2. PICK over : over = [t EXCEPT !.status = status]
  OBVIOUS
<1>3. /\ tasks' = (tasks \ {t}) \cup (IF pc[t.call] = "done" THEN {} ELSE {over})
      /\ permits' = permits + 1
  BY <1>2 DEF EndTask
<1>4. /\ over.call = t.call /\ over.n = t.n /\ over.doc = t.doc /\ over.places = t.places
      /\ over.status = status /\ over.came = t.came /\ over.next = t.next /\ over.room = FALSE
      /\ over = [call |-> t.call, n |-> t.n, doc |-> t.doc, status |-> status, places |-> t.places,
                 came |-> t.came, next |-> t.next, room |-> FALSE]
  BY <1>1, <1>2 DEF TaskInv
<1>5. TaskInv(over)
  BY <1>1, <1>4 DEF TaskInv
<1>6. pc' = pc /\ got' = got /\ sent' = sent /\ doc' = doc /\ batches' = batches
  BY DEF indexing
<1>7. TasksInv'
  BY <1>1, <1>3, <1>4, <1>5, <1>6, TaskReplaced
<1>8. PermitInv'
  <2>1. Running' = Running \ {t} /\ t \in Running
    BY <1>3, <1>4 DEF Running, UnderWay
  <2>2. Cardinality(Running') = Cardinality(Running) - 1
    BY <1>1, <2>1, PermitFacts, FS_RemoveElement
  <2>3. Embedding' = Embedding
    BY <1>6 DEF Embedding
  <2>4. permits' \in Nat /\ Cardinality(Running') + Cardinality(Embedding') = Permits - permits'
    BY <1>1, <1>3, <2>2, <2>3, PermitFacts
  <2> QED BY <2>4 DEF PermitInv, Running, Embedding
<1>9. CacheInv'
  <2>1. Rooms' = Rooms
    BY <1>3, <1>4 DEF Rooms
  <2> QED BY <1>1, <2>1 DEF CacheInv, CacheBounded, Rooms
<1> QED BY <1>7, <1>8, <1>9, RestKept DEF KnowledgeInv

\* A task that goes on keeps its permit.
LEMMA TaskGoesOn ==
  ASSUME TasksInv, PermitInv, NEW t \in tasks, NEW u, Becomes(t, u), TaskInv(u),
         UnderWay(t), UnderWay(u), u.call = t.call, u.n = t.n,
         UNCHANGED <<pc, got, sent, doc, batches, permits>>
  PROVE  TasksInv' /\ PermitInv'
<1>1. TasksInv'
  BY TaskReplaced DEF Becomes
<1>2. Running' = (Running \ {t}) \cup {u} /\ t \in Running /\ u \notin Running \ {t}
  BY DEF Running, Becomes, TasksInv
<1>3. IsFiniteSet(Running \ {t}) /\ Cardinality(Running \ {t}) = Cardinality(Running) - 1
  BY <1>2, PermitFacts, FS_RemoveElement
<1>4. Cardinality(Running') = Cardinality(Running) - 1 + 1
  BY <1>2, <1>3, FS_AddElement
<1>5. Embedding' = Embedding
  BY DEF Embedding
<1>6. permits' \in Nat /\ Cardinality(Running') + Cardinality(Embedding') = Permits - permits'
  BY <1>4, <1>5, PermitFacts
<1> QED BY <1>1, <1>6 DEF PermitInv, Running, Embedding

\* Each step of a task that fills the cache keeps the bound: a task finds room
\* when there is some, and then stores one entry.
LEMMA TaskStepKeeps ==
  ASSUME KnowledgeInv, NEW t \in tasks, TaskStep(t)
  PROVE  KnowledgeInv'
<1>1. /\ TasksInv /\ TaskInv(t) /\ CacheInv /\ PermitInv
      /\ UNCHANGED <<registry, stores, pc, req, at, indexing, place, reading>> /\ UnderWay(t)
  BY DEF KnowledgeInv, TasksInv, TaskStep, ProviderAnswers, CheckRoom, StoreEmbedding, TaskEnds,
         UnderWay
<1>2. pc' = pc /\ got' = got /\ sent' = sent /\ doc' = doc /\ batches' = batches
  BY <1>1 DEF indexing
<1>3. /\ IsFiniteSet(DOMAIN cache) /\ Cardinality(DOMAIN cache) \in Nat
      /\ Cardinality(DOMAIN cache) + Cardinality(Rooms) <= MaxEntries + Permits - 1
      /\ MaxEntries \in Nat /\ IsFiniteSet(Rooms) /\ Cardinality(Rooms) \in Nat /\ Permits \in Nat
  BY <1>1, FS_CardinalityType, BoundsAssumption, PermitFacts DEF CacheInv, CacheBounded, Rooms
<1>4. SUFFICES ASSUME ~ \E status \in {"ok", "failed"} : EndTask(t, status) /\ ~t.room /\ cache' = cache
               PROVE  TasksInv' /\ PermitInv' /\ CacheInv'
  BY <1>1, TaskEndsStep, RestKept DEF KnowledgeInv
<1>5. CASE ProviderAnswers(t)
  <2>1. t.status = "asking" /\ cache' = cache /\ ~t.room
    BY <1>1, <1>5 DEF ProviderAnswers, TaskInv
  <2>2. PICK n \in 0 .. Len(t.places) : Becomes(t, [t EXCEPT !.status = "filling", !.came = n])
                                        /\ permits' = permits
    BY <1>4, <1>5, <2>1 DEF ProviderAnswers
  <2>3. PICK u : u = [t EXCEPT !.status = "filling", !.came = n]
    OBVIOUS
  <2>4. u = [call |-> t.call, n |-> t.n, doc |-> t.doc, status |-> "filling", places |-> t.places,
             came |-> n, next |-> t.next, room |-> FALSE]
    BY <1>1, <2>1, <2>3 DEF TaskInv
  <2>5. TaskInv(u) /\ UnderWay(u) /\ u.call = t.call /\ u.n = t.n /\ ~u.room
    BY <1>1, <2>2, <2>4 DEF TaskInv, UnderWay
  <2>6. TasksInv' /\ PermitInv'
    BY <1>1, <1>2, <2>2, <2>3, <2>5, TaskGoesOn
  <2>7. Rooms' = Rooms
    BY <2>1, <2>2, <2>3, <2>5 DEF Rooms, Becomes
  <2> QED BY <1>1, <2>1, <2>6, <2>7 DEF CacheInv, CacheBounded, Rooms
<1>6. CASE CheckRoom(t)
  <2>1. PICK u : /\ u = IF HasRoom THEN [t EXCEPT !.room = TRUE] ELSE [t EXCEPT !.next = @ + 1]
                 /\ Becomes(t, u)
    BY <1>6 DEF CheckRoom
  <2>2. t.status = "filling" /\ t.next <= t.came /\ ~t.room /\ cache' = cache /\ permits' = permits
    BY <1>6 DEF CheckRoom
  <2>3. PICK n \in Nat, room \in BOOLEAN :
          /\ (room <=> HasRoom) /\ n = IF HasRoom THEN t.next ELSE t.next + 1
          /\ u = [call |-> t.call, n |-> t.n, doc |-> t.doc, status |-> "filling",
                  places |-> t.places, came |-> t.came, next |-> n, room |-> room]
    <3>1. CASE HasRoom
      <4>1. u = [call |-> t.call, n |-> t.n, doc |-> t.doc, status |-> "filling",
                 places |-> t.places, came |-> t.came, next |-> t.next, room |-> TRUE]
        BY <1>1, <2>1, <2>2, <3>1 DEF TaskInv
      <4> QED BY <1>1, <3>1, <4>1 DEF TaskInv
    <3>2. CASE ~HasRoom
      <4>1. u = [call |-> t.call, n |-> t.n, doc |-> t.doc, status |-> "filling",
                 places |-> t.places, came |-> t.came, next |-> t.next + 1, room |-> FALSE]
        BY <1>1, <2>1, <2>2, <3>2 DEF TaskInv
      <4>2. t.next + 1 \in Nat
        BY <1>1 DEF TaskInv
      <4> QED BY <3>2, <4>1, <4>2
    <3> QED BY <3>1, <3>2
  <2>4. TaskInv(u) /\ UnderWay(u) /\ u.call = t.call /\ u.n = t.n /\ (u.room <=> HasRoom)
    <3>1. u.room => u.next <= u.came
      BY <2>2, <2>3
    <3> QED BY <1>1, <2>3, <3>1 DEF TaskInv, UnderWay
  <2>5. TasksInv' /\ PermitInv'
    BY <1>1, <1>2, <2>1, <2>2, <2>4, TaskGoesOn
  <2>6. CASE HasRoom
    <3>1. Cardinality(Rooms') <= Permits /\ Cardinality(Rooms') \in Nat
      <4>1. TasksInv' /\ PermitInv' => Cardinality(Rooms') <= Permits /\ Cardinality(Rooms') \in Nat
        <5>1. IsFiniteSet(tasks') /\ \A v \in tasks' : v.room => UnderWay(v)
          BY <2>5 DEF TasksInv, TaskInv, UnderWay
        <5>2. Rooms' \subseteq Running' /\ IsFiniteSet(Running') /\ IsFiniteSet(Embedding')
          BY <5>1, InputsAssumption, FS_Subset DEF Rooms, Running, Embedding
        <5>3. /\ Cardinality(Rooms') \in Nat /\ Cardinality(Rooms') <= Cardinality(Running')
              /\ Cardinality(Running') \in Nat /\ Cardinality(Embedding') \in Nat
          BY <5>2, FS_Subset, FS_CardinalityType
        <5>4. permits' \in Nat
              /\ Cardinality(Running') + Cardinality(Embedding') = Permits - permits'
          BY <2>5 DEF PermitInv, Running, Embedding
        <5> QED BY <1>3, <5>3, <5>4
      <4> QED BY <2>5, <4>1
    <3>2. Cardinality(DOMAIN cache) + Cardinality(Rooms') <= MaxEntries + Permits - 1
      BY <1>3, <2>6, <3>1 DEF HasRoom
    <3> QED BY <1>1, <2>2, <2>5, <3>2 DEF CacheInv, CacheBounded, Rooms
  <2>7. CASE ~HasRoom
    <3>1. Rooms' = Rooms
      BY <2>1, <2>2, <2>4, <2>7 DEF Rooms, Becomes
    <3> QED BY <1>1, <2>2, <2>5, <3>1 DEF CacheInv, CacheBounded, Rooms
  <2> QED BY <2>6, <2>7
<1>7. CASE StoreEmbedding(t)
  <2>1. PICK u : u = [t EXCEPT !.room = FALSE, !.next = @ + 1] /\ Becomes(t, u)
    BY <1>7 DEF StoreEmbedding
  <2>2. PICK text : cache' = With(cache, text, text)
    BY <1>7 DEF StoreEmbedding
  <2>3. t.status = "filling" /\ t.room /\ permits' = permits
    BY <1>7 DEF StoreEmbedding
  <2>4. u = [call |-> t.call, n |-> t.n, doc |-> t.doc, status |-> "filling", places |-> t.places,
             came |-> t.came, next |-> t.next + 1, room |-> FALSE]
    BY <1>1, <2>1, <2>3 DEF TaskInv
  <2>5. TaskInv(u) /\ UnderWay(u) /\ u.call = t.call /\ u.n = t.n /\ ~u.room
    BY <1>1, <2>3, <2>4 DEF TaskInv, UnderWay
  <2>6. TasksInv' /\ PermitInv'
    BY <1>1, <1>2, <2>1, <2>3, <2>5, TaskGoesOn
  <2>7. Rooms' = Rooms \ {t} /\ t \in Rooms
    BY <2>1, <2>3, <2>5 DEF Rooms, Becomes
  <2>8. Cardinality(Rooms') = Cardinality(Rooms) - 1
    BY <1>3, <2>7, FS_RemoveElement
  <2>9. /\ DOMAIN cache' = DOMAIN cache \cup {text} /\ IsFiniteSet(DOMAIN cache')
        /\ Cardinality(DOMAIN cache') \in {Cardinality(DOMAIN cache), Cardinality(DOMAIN cache) + 1}
    BY <1>3, <2>2, FS_AddElement DEF With
  <2>10. Cardinality(DOMAIN cache') + Cardinality(Rooms') <= MaxEntries + Permits - 1
    BY <1>3, <2>8, <2>9
  <2>11. \A y \in DOMAIN cache' : cache'[y] = y
    BY <1>1, <2>2 DEF With, CacheInv
  <2> QED BY <2>6, <2>9, <2>10, <2>11 DEF CacheInv, CacheBounded, Rooms
<1>8. CASE TaskEnds(t)
  <2>1. ~t.room /\ cache' = cache
    BY <1>1, <1>8 DEF TaskEnds, TaskInv
  <2> QED BY <1>4, <1>8, <2>1 DEF TaskEnds
<1> QED BY <1>5, <1>6, <1>7, <1>8 DEF TaskStep

\* The registry and the stores the engine starts with satisfy the invariant.
LEMMA KnowledgeStarts == Init => KnowledgeInv
<1> SUFFICES ASSUME Init PROVE KnowledgeInv
  OBVIOUS
<1> DEFINE held == UNION {Entries(Stored[d], Existing[Stored[d]].tenant, d) : d \in DOMAIN Stored}
<1>1. /\ indexes = Existing
      /\ names = [n \in {Existing[i].name : i \in DOMAIN Existing} |->
                     CHOOSE i \in DOMAIN Existing : Existing[i].name = n]
      /\ documents = DOMAIN Stored
      /\ vectors = IF EmbeddingsEnabled
                   THEN {[index |-> e.index, tenant |-> e.tenant, chunk |-> e.chunk,
                          vector |-> TextOf[e.chunk]] : e \in held}
                   ELSE {}
      /\ postings = held /\ inverted = {<<e.index, e.chunk>> : e \in held}
      /\ cache = << >> /\ permits = Permits /\ tasks = {}
      /\ pc = [c \in Calls |-> "new"] /\ req \in Requests
      /\ at = [c \in Calls |-> Nothing] /\ doc = [c \in Calls |-> Nothing]
      /\ hits = [c \in Calls |-> << >>]
      /\ todo = [c \in Calls |-> {}] /\ snapshot = [c \in Calls |-> {}]
  BY DEF Init
<1>2. Shape
  BY DEF Init, Shape, Steps, Unmade
<1>3. \A e : e \in held <=> \E d \in DOMAIN Stored : \E x \in Range(ChunksOf[d]) :
                 e = [index |-> Stored[d], tenant |-> Existing[Stored[d]].tenant, chunk |-> x]
  BY DEF Entries
<1>4. \A e \in held : e.index \in Ids /\ e.chunk \in Chunks
  <2> SUFFICES ASSUME NEW d \in DOMAIN Stored, NEW x \in Range(ChunksOf[d])
               PROVE  Stored[d] \in Ids /\ x \in Chunks
    BY <1>3
  <2>1. d \in Docs /\ Stored[d] \in DOMAIN Existing
    BY InputsAssumption
  <2>2. PICK k \in DOMAIN ChunksOf[d] : x = ChunksOf[d][k]
    BY DEF Range
  <2> QED BY <2>1, <2>2, ChunkFacts DEF Ids
<1> HIDE DEF held
<1>5. EntriesInv
  BY <1>1, <1>4 DEF EntriesInv
<1>6. RegistryInv
  BY <1>1, InputsAssumption DEF RegistryInv, NamesLead, NameOf, Made, Ids
<1>7. TasksInv
  BY <1>1, FS_EmptySet DEF TasksInv
<1>8. PermitInv
  <2>1. {t \in tasks : UnderWay(t)} = {} /\ {c \in Calls : pc[c] = "embeddingQuery"} = {}
    BY <1>1
  <2>2. Cardinality({}) = 0 /\ permits = Permits
    BY <1>1, FS_EmptySet
  <2>3. Permits \in Nat
    BY BoundsAssumption
  <2>4. Cardinality({t \in tasks : UnderWay(t)}) = 0
    BY <2>1, <2>2
  <2>5. Cardinality({c \in Calls : pc[c] = "embeddingQuery"}) = 0
    BY <2>1, <2>2
  <2>6. 0 + 0 = Permits - permits /\ permits \in Nat
    BY <2>2, <2>3
  <2> QED BY <2>4, <2>5, <2>6 DEF PermitInv
<1>9. CacheInv
  <2>1. DOMAIN cache = {} /\ {t \in tasks : t.room} = {}
    BY <1>1
  <2>2. Cardinality(DOMAIN cache) = 0 /\ Cardinality({t \in tasks : t.room}) = 0
        /\ IsFiniteSet(DOMAIN cache)
    BY <2>1, FS_EmptySet
  <2>3. 0 + 0 <= MaxEntries + Permits - 1
    BY BoundsAssumption
  <2> QED BY <2>1, <2>2, <2>3 DEF CacheInv, CacheBounded
<1>10. \A c \in Calls : CallInv(c) /\ PlaceInv(c) /\ EmbeddingInv(c)
  BY <1>1 DEF CallInv, PlaceInv, EmbeddingInv, Unmade, Indexing, Asking, Answered
<1>11. KeptInv
  <2> SUFFICES ASSUME NEW w \in Stores, NEW i \in DOMAIN indexes, NEW d \in Docs,
                      NEW k \in DOMAIN ChunksOf[d],
                      \/ d \in DOMAIN Stored /\ Stored[d] = i
                      \/ \E c \in Calls : at[c] = i /\ Supplies(w, c, d, k)
               PROVE  Has(w, i, ChunksOf[d][k])
    BY DEF KeptInv
  <2>1. \A c \in Calls : ~Supplies(w, c, d, k)
    BY <1>1 DEF Supplies, Through, Answered, Indexing
  <2>2. d \in DOMAIN Stored /\ Stored[d] = i
    BY <2>1
  <2>3. PICK x : x = ChunksOf[d][k]
    OBVIOUS
  <2>4. x \in Range(ChunksOf[d])
    BY <2>3 DEF Range
  <2>5. PICK e : e = [index |-> i, tenant |-> Existing[i].tenant, chunk |-> x]
    OBVIOUS
  <2>6. e \in held /\ e.index = i /\ e.chunk = x
    BY <1>3, <2>2, <2>4, <2>5
  <2>7. EmbeddingsEnabled => \E v \in vectors : v.index = i /\ v.chunk = x
    <3> DEFINE v == [index |-> e.index, tenant |-> e.tenant, chunk |-> e.chunk,
                     vector |-> TextOf[e.chunk]]
    <3>1. EmbeddingsEnabled => v \in vectors
      BY <1>1, <2>6
    <3>2. v.index = i /\ v.chunk = x
      BY <2>6
    <3> HIDE DEF v
    <3> QED BY <3>1, <3>2
  <2>8. (\E p \in postings : p.index = i /\ p.chunk = x) /\ <<i, x>> \in inverted
    BY <1>1, <2>6
  <2> QED BY <2>3, <2>7, <2>8 DEF Has, Stores
<1>12. TenantsInv
  BY <1>1, <1>3, <1>4, InputsAssumption DEF TenantsInv, TenantOf
<1>13. \A c \in Calls : HitsInv(c)
  BY <1>1 DEF HitsInv, Asking, Answered
<1> QED BY <1>2, <1>5, <1>6, <1>7, <1>8, <1>9, <1>10, <1>11, <1>12, <1>13 DEF KnowledgeInv

\* The inductive invariant holds in every reachable state.
THEOREM KnowledgeInvariant == Spec => []KnowledgeInv
<1>1. Init => KnowledgeInv
  BY KnowledgeStarts
<1>2. KnowledgeInv /\ [Next]_vars => KnowledgeInv'
  <2> SUFFICES ASSUME KnowledgeInv, [Next]_vars PROVE KnowledgeInv'
    OBVIOUS
  <2>1. ASSUME NEW c \in Calls, Step(c) PROVE KnowledgeInv'
    <3>1. Frame(c) /\ Acts(c) /\ Shape'
      <4>1. Shape /\ CallInv(c)
        BY DEF KnowledgeInv
      <4>2. Frame(c) /\ Acts(c)
        BY <2>1, <4>1, StepFrame, StepActs
      <4> QED BY <4>1, <4>2 DEF Frame, Own, Shape
    <3>2. \A b \in Calls : CallInv(b)' /\ PlaceInv(b)' /\ EmbeddingInv(b)'
      BY <3>1, OthersStay, CallStep, PlaceStep, EmbeddingStep
    <3>3. CacheInv'
      BY <3>1, CacheStep
    <3>4. RegistryInv' /\ TasksInv' /\ PermitInv' /\ EntriesInv' /\ KeptInv'
      BY <3>1, RegistryStep, TasksStep, PermitStep, EntriesStep, KeptStep
    <3>5. \A b \in Calls : HitsInv(b)'
      BY <3>1, HitsStep, HitsStay DEF KnowledgeInv
    <3>6. TenantsInv'
      BY <3>1, TenantsStep
    <3> QED BY <3>1, <3>2, <3>3, <3>4, <3>5, <3>6 DEF KnowledgeInv
  <2>2. ASSUME NEW t \in tasks, TaskStep(t) PROVE KnowledgeInv'
    BY <2>2, TaskStepKeeps
  <2>3. CASE UNCHANGED vars
    <3>1. UNCHANGED <<registry, stores, pc, req, at, indexing, place, reading>> /\ UNCHANGED batcher
      BY <2>3 DEF vars
    <3>2. TasksInv' /\ PermitInv' /\ CacheInv'
      BY <3>1 DEF KnowledgeInv, TasksInv, TaskInv, PermitInv, CacheInv, CacheBounded, UnderWay,
                         batcher, indexing
    <3> QED BY <3>1, <3>2, RestKept DEF KnowledgeInv
  <2> QED BY <2>1, <2>2, <2>3 DEF Next
<1> QED BY <1>1, <1>2, PTL DEF Spec

-----------------------------------------------------------------------------
\* Each permit for an embedding is free, with a task or with a query; the cache
\* grows beyond its limit by no more than the tasks that fill it side by side, of
\* which each found room (embeddings/cache.rs 69-73); and a name leads to an index that is there, but
\* while a call makes or deletes it.
THEOREM KnowledgeTypeCorrect == Spec => []TypeOK
<1>1. KnowledgeInv => TypeOK
  <2> SUFFICES ASSUME KnowledgeInv PROVE TypeOK
    OBVIOUS
  <2>1. DOMAIN indexes \subseteq Ids /\ Range(names) \subseteq Ids /\ documents \subseteq Docs
        /\ NamesLead
    BY DEF KnowledgeInv, RegistryInv, Range
  <2>2. permits \in Nat /\ permits >= 0
    BY DEF KnowledgeInv, PermitInv
  <2> QED BY <2>1, <2>2 DEF KnowledgeInv, EntriesInv, PermitInv, CacheInv, TypeOK
<1> QED BY <1>1, KnowledgeInvariant, PTL

\* A document that was put into an index is found there, by its vectors and by
\* its words, or is still to be put back by a rebuild that listed it, or was not
\* listed by one.
THEOREM IndexedIsFoundAlways == Spec => []IndexedIsFound
<1>1. KnowledgeInv => IndexedIsFound
  <2> SUFFICES ASSUME KnowledgeInv PROVE IndexedIsFound
    OBVIOUS
  <2>1. \A v \in vectors : v.vector = TextOf[v.chunk]
    BY DEF KnowledgeInv, EntriesInv
  <2>2. ASSUME NEW i \in DOMAIN indexes, NEW d \in Docs,
               \/ d \in DOMAIN Stored /\ Stored[d] = i
               \/ \E c \in Calls : req[c].op = "put" /\ Answered(c) /\ at[c] = i /\ doc[c] = d,
               ~Held(d, i)
        PROVE  \E r \in Calls : TakenBy(r, d, i)
    <3>1. PICK w \in Stores, k \in DOMAIN ChunksOf[d] : ~Has(w, i, ChunksOf[d][k])
      <4> SUFFICES ASSUME \A w \in Stores : \A k \in DOMAIN ChunksOf[d] : Has(w, i, ChunksOf[d][k])
                   PROVE  Held(d, i)
        BY <2>2
      <4> SUFFICES ASSUME NEW k \in DOMAIN ChunksOf[d]
                   PROVE  /\ EmbeddingsEnabled =>
                                \E v \in vectors : v.index = i /\ v.chunk = ChunksOf[d][k]
                          /\ \E p \in postings : p.index = i /\ p.chunk = ChunksOf[d][k]
                          /\ <<i, ChunksOf[d][k]>> \in inverted
        BY DEF Held, Range
      <4>1. Has("vectors", i, ChunksOf[d][k]) /\ Has("postings", i, ChunksOf[d][k])
            /\ Has("inverted", i, ChunksOf[d][k])
        BY DEF Stores
      <4> QED BY <4>1 DEF Has
    <3>2. \A c \in Calls : req[c].op = "put" /\ Answered(c) /\ doc[c] = d => Supplies(w, c, d, k)
      BY DEF Supplies, Through
    <3>3. PICK r \in Calls : at[r] = i /\ Owes(w, r, d, k)
      BY <2>2, <3>1, <3>2 DEF KnowledgeInv, KeptInv
    <3>4. req[r].op = "rebuild" /\ pc[r] # "emptying" /\ ~Through(r, d)
      BY <3>1, <3>3 DEF Owes, Supplies, Before, Stores
    <3>5. Answered(r) => todo[r] = {}
      BY <3>4 DEF KnowledgeInv, CallInv
    <3> QED BY <3>3, <3>4, <3>5 DEF TakenBy, Through
  <2> QED BY <2>1, <2>2 DEF IndexedIsFound
<1> QED BY <1>1, KnowledgeInvariant, PTL

\* What a retrieval or an answer brings is each chunk once, within its limits, of
\* what passes the filters both stores check, and of the tags asked for in semantic
\* mode (words find the others as well, lexical/index.rs 294-346); and an answer
\* from chunks cites some of them and nothing else.
THEOREM AnswersGroundedAlways == Spec => []AnswersGrounded
<1>1. KnowledgeInv => AnswersGrounded
  BY DEF KnowledgeInv, HitsInv, AnswersGrounded
<1> QED BY <1>1, KnowledgeInvariant, PTL

-----------------------------------------------------------------------------
\* How a document is cut into chunks (Chunking).

\* Induction up to N: a set that holds 0 and with each number the next has all.
LEMMA Climb ==
  ASSUME NEW N \in Nat, NEW S, 0 \in S, \A k \in 1 .. N : k - 1 \in S => k \in S
  PROVE  \A k \in 0 .. N : k \in S
<1> DEFINE T == {k \in 0 .. N : k \notin S}
<1> SUFFICES ASSUME T # {} PROVE FALSE
  OBVIOUS
<1>0. T \subseteq Nat
  OBVIOUS
<1>1. PICK k \in T : \A m \in T : k <= m
  <2> HIDE DEF T
  <2> QED BY <1>0, LeastElement
<1>2. k \in 1 .. N /\ k - 1 \in 0 .. N /\ ~(k <= k - 1)
  BY <1>1
<1> QED BY <1>1, <1>2

\* Induction on sequences that grow at their end.
LEMMA Grow ==
  ASSUME NEW T, NEW P, << >> \in P, \A s \in Seq(T) : \A e \in T : s \in P => Append(s, e) \in P
  PROVE  Seq(T) \subseteq P
<1> SUFFICES ASSUME NEW s \in Seq(T) PROVE s \in P
  OBVIOUS
<1> DEFINE first(k) == SubSeq(s, 1, k)
           S == {k \in 0 .. Len(s) : first(k) \in P}
<1>1. Len(s) \in Nat /\ \A k \in 1 .. Len(s) : s[k] \in T
  BY LenProperties, ElementOfSeq
<1>2. 0 \in S
  <2>1. first(0) = << >>
    BY SubSeqEmpty
  <2> HIDE DEF first
  <2> QED BY <1>1, <2>1
<1>3. ASSUME NEW k \in 1 .. Len(s), k - 1 \in S PROVE k \in S
  <2>1. first(k - 1) \in Seq(T)
    BY <1>1, SubSeqProperties
  <2>2. first(k) = first(k - 1) \o <<s[k]>>
    BY <1>1, SubSeqRecursiveSecond
  <2>3. Append(first(k - 1), s[k]) = first(k - 1) \o <<s[k]>>
    <3> HIDE DEF first
    <3> QED BY <1>1, <2>1, AppendIsConcat
  <2> HIDE DEF first
  <2>4. first(k) \in P
    BY <1>1, <1>3, <2>1, <2>2, <2>3
  <2> QED BY <1>1, <2>4
<1> HIDE DEF S
<1>4. \A k \in 0 .. Len(s) : k \in S
  BY <1>1, <1>2, <1>3, Climb
<1>5. first(Len(s)) \in P
  <2>1. Len(s) \in 0 .. Len(s)
    BY <1>1
  <2> QED BY <1>4, <2>1 DEF S
<1> QED BY <1>5, SubSeqFull

Iterates(g, N, U, base, F) ==
    g \in [0 .. N -> U] /\ g[0] = base /\ \A k \in 1 .. N : g[k] = F[k][g[k - 1]]

\* A step F leads from each value of U to one of U: there is the sequence of the
\* values it leads to from the first.
LEMMA Recursion ==
  ASSUME NEW N \in Nat, NEW U, NEW base \in U, NEW F \in [1 .. N -> [U -> U]]
  PROVE  \E g : Iterates(g, N, U, base, F)
<1> DEFINE Upto(g, n) == g \in [0 .. n -> U] /\ g[0] = base /\ \A k \in 1 .. n : g[k] = F[k][g[k - 1]]
           S == {n \in 0 .. N : \E g : Upto(g, n)}
<1>1. 0 \in S
  <2>1. Upto([k \in 0 .. 0 |-> base], 0)
    OBVIOUS
  <2> HIDE DEF Upto
  <2> QED BY <2>1
<1>2. ASSUME NEW n \in 1 .. N, n - 1 \in S PROVE n \in S
  <2>1. PICK g : Upto(g, n - 1)
    BY <1>2
  <2> DEFINE h == [k \in 0 .. n |-> IF k < n THEN g[k] ELSE F[n][g[n - 1]]]
  <2>2. g[n - 1] \in U /\ F[n][g[n - 1]] \in U
    BY <2>1
  <2>3. h \in [0 .. n -> U] /\ h[0] = base
    BY <2>1, <2>2
  <2>4. ASSUME NEW k \in 1 .. n PROVE h[k] = F[k][h[k - 1]]
    <3>1. h[k - 1] = g[k - 1]
      OBVIOUS
    <3>2. CASE k < n
      <4>1. k \in 1 .. n - 1
        BY <3>2
      <4> QED BY <2>1, <3>1, <3>2, <4>1
    <3>3. CASE k = n
      BY <3>1, <3>3
    <3> QED BY <3>2, <3>3
  <2>5. Upto(h, n)
    BY <2>3, <2>4
  <2> HIDE DEF h, Upto
  <2> QED BY <2>5
<1>3. \A n \in 0 .. N : n \in S
  <2> HIDE DEF S
  <2> QED BY <1>1, <1>2, Climb
<1>4. N \in 0 .. N
  OBVIOUS
<1>5. PICK g : Upto(g, N)
  BY <1>3, <1>4
<1> QED BY <1>5 DEF Iterates

-----------------------------------------------------------------------------
\* Sequences and the places in them.
LEMMA Places ==
  ASSUME NEW T, NEW s \in Seq(T)
  PROVE  /\ Len(s) \in Nat /\ DOMAIN s = 1 .. Len(s) /\ \A i \in DOMAIN s : s[i] \in T
         /\ (s = << >> <=> Len(s) = 0)
<1>1. Len(s) \in Nat /\ DOMAIN s = 1 .. Len(s) /\ \A i \in DOMAIN s : s[i] \in T
  BY LenProperties, ElementOfSeq
<1>2. s = << >> <=> Len(s) = 0
  BY EmptySeq
<1> QED BY <1>1, <1>2

Sums(f, s) == f = [n \in 0 .. Len(s) |-> IF n = 0 THEN 0 ELSE f[n - 1] + s[n]]

LEMMA SumExists ==
  ASSUME NEW s \in Seq(Nat)
  PROVE  \E f : Sums(f, s)
<1> DEFINE N == Len(s)
           U == Nat
           base == 0
           F == [k \in 1 .. N |-> [u \in U |-> u + s[k]]]
<1>1. N \in Nat /\ \A k \in 1 .. N : s[k] \in Nat
  BY Places
<1>2. \A u \in Nat : \A k \in 1 .. N : F[k][u] = u + s[k]
  OBVIOUS
<1>3. F \in [1 .. N -> [U -> U]] /\ base \in U
  BY <1>1
<1> HIDE DEF F, N, U, base
<1>4a. PICK g : Iterates(g, N, U, base, F)
  BY <1>1, <1>3, Recursion
<1>4. g \in [0 .. N -> U] /\ g[0] = base /\ \A k \in 1 .. N : g[k] = F[k][g[k - 1]]
  BY <1>4a DEF Iterates
<1>5. \A k \in 1 .. N : g[k] = g[k - 1] + s[k]
  <2> SUFFICES ASSUME NEW k \in 1 .. N PROVE g[k] = g[k - 1] + s[k]
    OBVIOUS
  <2>1. k - 1 \in 0 .. N
    BY <1>1
  <2> QED BY <1>2, <1>4, <2>1 DEF U
<1>6. g = [n \in 0 .. N |-> IF n = 0 THEN 0 ELSE g[n - 1] + s[n]]
  BY <1>1, <1>4, <1>5 DEF base
<1> QED BY <1>6 DEF Sums, N

\* The sums of the first k numbers of a sequence, up to the sum of all.
LEMMA PartialSums ==
  ASSUME NEW t \in Seq(Nat)
  PROVE  \E f : Sums(f, t) /\ f \in [0 .. Len(t) -> Nat] /\ Sum(t) = f[Len(t)]
<1> DEFINE sum == CHOOSE f : Sums(f, t)
<1>1. Sum(t) = sum[Len(t)]
  BY DEF Sum, Sums
<1>2. Sums(sum, t)
  BY SumExists
<1> HIDE DEF sum
<1> DEFINE N == Len(t)
           S == {k \in 0 .. N : sum[k] \in Nat}
<1>3. N \in Nat /\ \A k \in 1 .. N : t[k] \in Nat
  BY Places
<1>4. sum = [n \in 0 .. N |-> IF n = 0 THEN 0 ELSE sum[n - 1] + t[n]]
  BY <1>2 DEF Sums
<1> HIDE DEF N
<1>5. 0 \in S
  BY <1>3, <1>4
<1>6. ASSUME NEW k \in 1 .. N, k - 1 \in S PROVE k \in S
  <2>1. sum[k] = sum[k - 1] + t[k]
    BY <1>3, <1>4
  <2> QED BY <1>3, <1>6, <2>1
<1>7. \A k \in 0 .. N : k \in S
  <2> HIDE DEF S
  <2> QED BY <1>3, <1>5, <1>6, Climb
<1>8. sum \in [0 .. N -> Nat]
  BY <1>4, <1>7
<1> QED BY <1>1, <1>2, <1>8 DEF N

\* A sum is that of all but the last, and the last.
LEMMA SumFacts ==
  ASSUME NEW s \in Seq(Nat)
  PROVE  /\ Sum(<< >>) = 0 /\ Sum(s) \in Nat
         /\ \A e \in Nat : Sum(Append(s, e)) = Sum(s) + e
<1>1. \A t \in Seq(Nat) : \E f : Sums(f, t) /\ f \in [0 .. Len(t) -> Nat] /\ Sum(t) = f[Len(t)]
  BY PartialSums
<1>2. Sum(<< >>) = 0
  <2>1. << >> \in Seq(Nat) /\ Len(<< >>) = 0
    BY EmptySeq
  <2>2. PICK f : Sums(f, << >>) /\ Sum(<< >>) = f[0]
    BY <1>1, <2>1
  <2> QED BY <2>1, <2>2 DEF Sums
<1>3. Sum(s) \in Nat
  BY <1>1, Places
<1>4. ASSUME NEW e \in Nat PROVE Sum(Append(s, e)) = Sum(s) + e
  <2> DEFINE t == Append(s, e)
             N == Len(s)
  <2>1. t \in Seq(Nat) /\ Len(t) = N + 1 /\ t[N + 1] = e /\ \A i \in 1 .. N : t[i] = s[i]
    BY AppendProperties
  <2>2. N \in Nat
    BY Places
  <2> HIDE DEF t
  <2>3. PICK f : Sums(f, s) /\ Sum(s) = f[N]
    BY <1>1
  <2>4. PICK g : Sums(g, t) /\ Sum(t) = g[N + 1]
    BY <1>1, <2>1
  <2> HIDE DEF N
  <2>5. g[0] = 0 /\ \A k \in 1 .. N + 1 : g[k] = g[k - 1] + t[k]
    BY <2>1, <2>2, <2>4 DEF Sums
  <2>6. f[0] = 0 /\ \A k \in 1 .. N : f[k] = f[k - 1] + s[k]
    <3>1. f = [n \in 0 .. N |-> IF n = 0 THEN 0 ELSE f[n - 1] + s[n]]
      BY <2>3 DEF Sums, N
    <3> QED BY <2>2, <3>1
  <2> DEFINE S == {k \in 0 .. N : f[k] = g[k]}
  <2>7. 0 \in S /\ \A k \in 1 .. N : k - 1 \in S => k \in S
    BY <2>1, <2>2, <2>5, <2>6
  <2>8. \A k \in 0 .. N : k \in S
    <3> HIDE DEF S
    <3> QED BY <2>2, <2>7, Climb
  <2>9. g[N + 1] = g[N] + e
    BY <2>1, <2>2, <2>5
  <2>10. N \in 0 .. N
    BY <2>2
  <2> QED BY <2>3, <2>4, <2>8, <2>9, <2>10 DEF t
<1> QED BY <1>2, <1>3, <1>4

-----------------------------------------------------------------------------
\* Sums and concatenations of sequences that are put together.
LEMMA Regrouped ==
  ASSUME NEW T
  PROVE  \A x, y, z \in Seq(T) : (x \o y) \o z = x \o (y \o z)
<1> SUFFICES ASSUME NEW x \in Seq(T), NEW y \in Seq(T), NEW z \in Seq(T)
             PROVE  (x \o y) \o z = x \o (y \o z)
  OBVIOUS
<1> QED BY ConcatAssociative

LEMMA ConcatFacts ==
  ASSUME NEW T, NEW a \in Seq(T)
  PROVE  /\ a \o << >> = a /\ << >> \o a = a /\ << >> \in Seq(T)
         /\ \A b \in Seq(T) : a \o b \in Seq(T)
         /\ \A b \in Seq(T) : \A e \in T : a \o Append(b, e) = Append(a \o b, e) /\ Append(b, e) \in Seq(T)
         /\ \A b, c \in Seq(T) : a \o (b \o c) = (a \o b) \o c
         /\ \A e \in T : Append(a, e) = a \o <<e>>
<1>1. << >> \in Seq(T) /\ a \o << >> = a /\ << >> \o a = a
  BY ConcatEmptySeq, EmptySeq
<1>2. \A b \in Seq(T) : a \o b \in Seq(T)
  BY ConcatProperties
<1>3. ASSUME NEW b \in Seq(T), NEW c \in Seq(T) PROVE a \o (b \o c) = (a \o b) \o c
  BY Regrouped
<1>4. \A b \in Seq(T) : \A e \in T : Append(b, e) = b \o <<e>> /\ <<e>> \in Seq(T) /\ Append(b, e) \in Seq(T)
  BY AppendIsConcat, AppendProperties
<1>5. \A b \in Seq(T) : \A e \in T : a \o Append(b, e) = Append(a \o b, e)
  <2> SUFFICES ASSUME NEW b \in Seq(T), NEW e \in T PROVE a \o Append(b, e) = Append(a \o b, e)
    OBVIOUS
  <2>1. a \o (b \o <<e>>) = (a \o b) \o <<e>>
    BY <1>3, <1>4
  <2> QED BY <1>2, <1>4, <2>1
<1> QED BY <1>1, <1>2, <1>3, <1>4, <1>5

LEMMA SumConcat ==
  ASSUME NEW a \in Seq(Nat), NEW b \in Seq(Nat)
  PROVE  Sum(a \o b) = Sum(a) + Sum(b)
<1> DEFINE P == {s \in Seq(Nat) : Sum(a \o s) = Sum(a) + Sum(s)}
<1>1. << >> \in P
  BY ConcatFacts, SumFacts
<1>2. ASSUME NEW s \in Seq(Nat), NEW e \in Nat, s \in P PROVE Append(s, e) \in P
  <2>1. Append(s, e) \in Seq(Nat) /\ a \o Append(s, e) = Append(a \o s, e) /\ a \o s \in Seq(Nat)
    BY ConcatFacts
  <2>2. Sum(Append(a \o s, e)) = Sum(a \o s) + e /\ Sum(Append(s, e)) = Sum(s) + e
    BY <2>1, SumFacts
  <2>3. Sum(a) \in Nat /\ Sum(s) \in Nat
    BY SumFacts
  <2>4. Sum(a \o s) = Sum(a) + Sum(s)
    BY <1>2
  <2>5. Sum(a \o Append(s, e)) = Sum(a) + Sum(Append(s, e))
    BY <2>1, <2>2, <2>3, <2>4
  <2> QED BY <2>1, <2>5
<1> HIDE DEF P
<1>3. Seq(Nat) \subseteq P
  BY <1>1, <1>2, Grow
<1> QED BY <1>3 DEF P

\* The same, one number after the other.
Counting(f, s) ==
    f \in [0 .. Len(s) -> Nat] /\ f[0] = 0 /\ \A k \in 1 .. Len(s) : f[k] = f[k - 1] + s[k]

LEMMA CountingExists ==
  ASSUME NEW s \in Seq(Nat)
  PROVE  \E f : Counting(f, s) /\ Sum(s) = f[Len(s)]
<1> DEFINE N == Len(s)
<1>1. N \in Nat
  BY Places
<1>2. PICK f : Sums(f, s) /\ f \in [0 .. N -> Nat] /\ Sum(s) = f[N]
  BY PartialSums
<1>3. f = [n \in 0 .. N |-> IF n = 0 THEN 0 ELSE f[n - 1] + s[n]]
  BY <1>2 DEF Sums
<1> HIDE DEF N
<1>4. f[0] = 0 /\ \A k \in 1 .. N : f[k] = f[k - 1] + s[k]
  BY <1>1, <1>3
<1> QED BY <1>2, <1>4 DEF Counting, N

LEMMA SumsCompare ==
  ASSUME NEW s \in Seq(Nat), NEW t \in Seq(Nat), Len(s) = Len(t),
         \A i \in 1 .. Len(s) : s[i] <= t[i]
  PROVE  Sum(s) <= Sum(t)
<1> DEFINE N == Len(s)
<1>1. N \in Nat /\ N = Len(t) /\ \A i \in 1 .. N : s[i] \in Nat /\ t[i] \in Nat /\ s[i] <= t[i]
  BY Places
<1>2. PICK f : Counting(f, s) /\ Sum(s) = f[N]
  BY CountingExists
<1>3. PICK g : Counting(g, t) /\ Sum(t) = g[N]
  BY <1>1, CountingExists
<1>4. /\ f \in [0 .. N -> Nat] /\ f[0] = 0 /\ \A k \in 1 .. N : f[k] = f[k - 1] + s[k]
      /\ g \in [0 .. N -> Nat] /\ g[0] = 0 /\ \A k \in 1 .. N : g[k] = g[k - 1] + t[k]
  BY <1>1, <1>2, <1>3 DEF Counting
<1> HIDE DEF N
<1> DEFINE S == {k \in 0 .. N : f[k] <= g[k]}
<1>5. 0 \in S
  BY <1>1, <1>4
<1>6. ASSUME NEW k \in 1 .. N, k - 1 \in S PROVE k \in S
  <2>1. k \in 0 .. N /\ k - 1 \in 0 .. N /\ f[k - 1] \in Nat /\ g[k - 1] \in Nat /\ f[k - 1] <= g[k - 1]
    <3>1. k \in 0 .. N /\ k - 1 \in 0 .. N
      BY <1>1
    <3>2. f[k - 1] \in Nat /\ g[k - 1] \in Nat
      BY <1>4, <3>1
    <3> QED BY <1>6, <3>1, <3>2
  <2>2. f[k] = f[k - 1] + s[k] /\ g[k] = g[k - 1] + t[k] /\ s[k] \in Nat /\ t[k] \in Nat /\ s[k] <= t[k]
    BY <1>1, <1>4
  <2>3. f[k] <= g[k]
    BY <2>1, <2>2
  <2> QED BY <2>1, <2>3
<1>7. \A k \in 0 .. N : k \in S
  <2> HIDE DEF S
  <2> QED BY <1>1, <1>5, <1>6, Climb
<1>8. N \in 0 .. N
  BY <1>1
<1> QED BY <1>2, <1>3, <1>7, <1>8

\* What is so of each place, weighed, is so of the sums; each place but the first
\* has six more.
LEMMA SumsWeighed ==
  ASSUME NEW x \in Seq(Nat), NEW y \in Seq(Nat), NEW m \in Seq(Nat), NEW n \in Nat, n >= 1,
         Len(x) = n, Len(y) = n, Len(m) = n,
         3 * x[1] + 16 * y[1] <= 24 * m[1] + 12,
         \A i \in 2 .. n : 3 * x[i] + 16 * y[i] <= 24 * m[i] + 18
  PROVE  3 * Sum(x) + 16 * Sum(y) <= 24 * Sum(m) + 18 * n - 6
<1>1. \A i \in 1 .. n : x[i] \in Nat /\ y[i] \in Nat /\ m[i] \in Nat
  BY Places
<1>2. PICK f : Counting(f, x) /\ Sum(x) = f[n]
  BY CountingExists
<1>3. PICK g : Counting(g, y) /\ Sum(y) = g[n]
  BY CountingExists
<1>4. PICK h : Counting(h, m) /\ Sum(m) = h[n]
  BY CountingExists
<1>5. /\ f \in [0 .. n -> Nat] /\ f[0] = 0 /\ \A k \in 1 .. n : f[k] = f[k - 1] + x[k]
      /\ g \in [0 .. n -> Nat] /\ g[0] = 0 /\ \A k \in 1 .. n : g[k] = g[k - 1] + y[k]
      /\ h \in [0 .. n -> Nat] /\ h[0] = 0 /\ \A k \in 1 .. n : h[k] = h[k - 1] + m[k]
  BY <1>2, <1>3, <1>4 DEF Counting
<1> DEFINE S == {k \in 0 .. n : k >= 1 => 3 * f[k] + 16 * g[k] <= 24 * h[k] + 18 * k - 6}
<1>6. 0 \in S
  OBVIOUS
<1>7. ASSUME NEW k \in 1 .. n, k - 1 \in S PROVE k \in S
  <2>1. /\ k \in 0 .. n /\ k - 1 \in 0 .. n /\ k \in Nat
        /\ f[k - 1] \in Nat /\ g[k - 1] \in Nat /\ h[k - 1] \in Nat
    <3>1. k \in 0 .. n /\ k - 1 \in 0 .. n /\ k \in Nat
      OBVIOUS
    <3> QED BY <1>5, <3>1
  <2>2. /\ f[k] = f[k - 1] + x[k] /\ g[k] = g[k - 1] + y[k] /\ h[k] = h[k - 1] + m[k]
        /\ x[k] \in Nat /\ y[k] \in Nat /\ m[k] \in Nat
    BY <1>1, <1>5
  <2>3. CASE k = 1
    <3>1. f[k - 1] = 0 /\ g[k - 1] = 0 /\ h[k - 1] = 0 /\ 3 * x[k] + 16 * y[k] <= 24 * m[k] + 12
      BY <1>5, <2>3
    <3>2. 3 * f[k] + 16 * g[k] <= 24 * h[k] + 18 * k - 6
      BY <2>2, <2>3, <3>1
    <3> QED BY <2>1, <3>2
  <2>4. CASE k # 1
    <3>1. 3 * f[k - 1] + 16 * g[k - 1] <= 24 * h[k - 1] + 18 * (k - 1) - 6
      BY <1>7, <2>1, <2>4
    <3>2. 3 * x[k] + 16 * y[k] <= 24 * m[k] + 18
      BY <2>1, <2>4
    <3>3. 3 * f[k] + 16 * g[k] <= 24 * h[k] + 18 * k - 6
      <4> DEFINE a == f[k - 1]
                 b == g[k - 1]
                 c == h[k - 1]
                 p == x[k]
                 q == y[k]
                 w == m[k]
      <4>1. a \in Nat /\ b \in Nat /\ c \in Nat /\ p \in Nat /\ q \in Nat /\ w \in Nat /\ k \in Nat
        BY <2>1, <2>2
      <4>2. 3 * a + 16 * b <= 24 * c + 18 * (k - 1) - 6 /\ 3 * p + 16 * q <= 24 * w + 18
        BY <3>1, <3>2
      <4>3. f[k] = a + p /\ g[k] = b + q /\ h[k] = c + w
        BY <2>2
      <4> HIDE DEF a, b, c, p, q, w
      <4>4. 3 * (a + p) + 16 * (b + q) <= 24 * (c + w) + 18 * k - 6
        BY ONLY <4>1, <4>2
      <4> QED BY <4>3, <4>4
    <3> QED BY <2>1, <3>3
  <2> QED BY <2>3, <2>4
<1>8. \A k \in 0 .. n : k \in S
  <2> HIDE DEF S
  <2> QED BY <1>6, <1>7, Climb
<1>9. n \in S
  <2>1. n \in 0 .. n
    OBVIOUS
  <2> HIDE DEF S
  <2> QED BY <1>8, <2>1
<1> QED BY <1>2, <1>3, <1>4, <1>9

Joins(f, s) == f = [i \in 1 .. Len(s) |-> IF i = 1 THEN s[i] ELSE f[i - 1] \o s[i]]

LEMMA JoinExists ==
  ASSUME NEW T, NEW s \in Seq(Seq(T))
  PROVE  \E f : Joins(f, s)
<1> DEFINE N == Len(s)
           U == Seq(T)
           base == << >>
           F == [k \in 1 .. N |-> [u \in U |-> u \o s[k]]]
<1>1. N \in Nat /\ \A k \in 1 .. N : s[k] \in Seq(T)
  BY Places
<1>2. \A u \in U : \A k \in 1 .. N : F[k][u] = u \o s[k]
  OBVIOUS
<1>3. F \in [1 .. N -> [U -> U]] /\ base \in U
  BY <1>1, ConcatFacts
<1> HIDE DEF F, N, U, base
<1>4a. PICK g : Iterates(g, N, U, base, F)
  BY <1>1, <1>3, Recursion
<1>4. g \in [0 .. N -> U] /\ g[0] = base /\ \A k \in 1 .. N : g[k] = F[k][g[k - 1]]
  BY <1>4a DEF Iterates
<1>5. \A k \in 1 .. N : g[k] = g[k - 1] \o s[k]
  <2> SUFFICES ASSUME NEW k \in 1 .. N PROVE g[k] = g[k - 1] \o s[k]
    OBVIOUS
  <2>1. k - 1 \in 0 .. N
    BY <1>1
  <2> QED BY <1>2, <1>4, <2>1
<1> DEFINE f == [i \in 1 .. N |-> g[i]]
<1>6. ASSUME NEW i \in 1 .. N PROVE f[i] = IF i = 1 THEN s[i] ELSE f[i - 1] \o s[i]
  <2>1. CASE i = 1
    <3>0. 1 \in 1 .. N /\ 1 - 1 = 0
      BY <1>1, <2>1
    <3>1. g[1] = << >> \o s[1]
      <4>1. g[1] = g[1 - 1] \o s[1]
        BY <1>5, <3>0
      <4> QED BY <1>4, <3>0, <4>1 DEF base
    <3>2. << >> \o s[1] = s[1]
      BY <1>1, <3>0, ConcatFacts
    <3> QED BY <2>1, <3>0, <3>1, <3>2
  <2>2. CASE i # 1
    <3>1. i - 1 \in 1 .. N
      BY <1>1, <2>2
    <3> QED BY <1>5, <2>2, <3>1
  <2> QED BY <2>1, <2>2
<1>7. f = [i \in 1 .. N |-> IF i = 1 THEN s[i] ELSE f[i - 1] \o s[i]]
  <2>1. f = [i \in 1 .. N |-> f[i]]
    OBVIOUS
  <2> HIDE DEF f
  <2> QED BY <1>6, <2>1
<1> HIDE DEF f
<1> QED BY <1>7 DEF Joins, N

\* The concatenation of the sequences of s, one after the other.
Flattening(g, s, T) ==
    /\ g \in [0 .. Len(s) -> Seq(T)] /\ g[0] = << >>
    /\ \A k \in 1 .. Len(s) : g[k] = g[k - 1] \o s[k]

LEMMA JoinedExists ==
  ASSUME NEW T, NEW s \in Seq(Seq(T))
  PROVE  \E g : Flattening(g, s, T) /\ FlattenSeq(s) = g[Len(s)]
<1> DEFINE N == Len(s)
<1>1. N \in Nat /\ (\A k \in 1 .. N : s[k] \in Seq(T)) /\ (s = << >> <=> N = 0)
  BY Places
<1>2. CASE s = << >>
  <2> DEFINE g == [k \in 0 .. 0 |-> << >>]
  <2>1. g \in [0 .. 0 -> Seq(T)] /\ g[0] = << >>
    BY EmptySeq
  <2>2. FlattenSeq(s) = << >>
    BY <1>1, <1>2 DEF FlattenSeq
  <2> HIDE DEF g
  <2>3. Flattening(g, s, T)
    BY <1>1, <1>2, <2>1 DEF Flattening
  <2> QED BY <1>1, <1>2, <2>1, <2>2, <2>3
<1>3. CASE s # << >>
  <2> DEFINE f == CHOOSE f : Joins(f, s)
  <2>1. FlattenSeq(s) = f[N]
    BY <1>1, <1>3 DEF FlattenSeq, Joins
  <2>2. Joins(f, s)
    BY JoinExists
  <2> HIDE DEF f
  <2> HIDE DEF N
  <2>3. f = [i \in 1 .. N |-> IF i = 1 THEN s[i] ELSE f[i - 1] \o s[i]]
    BY <2>2 DEF Joins, N
  <2> DEFINE g == [k \in 0 .. N |-> IF k = 0 THEN << >> ELSE f[k]]
             S == {k \in 0 .. N : g[k] \in Seq(T)}
  <2>4. g[0] = << >> /\ \A k \in 1 .. N : g[k] = f[k]
    BY <1>1
  <2>5. ASSUME NEW k \in 1 .. N PROVE g[k] = g[k - 1] \o s[k]
    <3>1. CASE k = 1
      <4>1. f[1] = s[1] /\ << >> \o s[1] = s[1]
        BY <1>1, <2>3, <3>1, ConcatFacts
      <4>2. g[0] = << >>
        BY <2>4
      <4>3. k - 1 = 0
        BY <3>1
      <4> QED BY <3>1, <4>1, <2>4, <4>2, <4>3
    <3>2. CASE k # 1
      <4>1. k - 1 \in 1 .. N
        BY <1>1, <3>2
      <4> QED BY <2>3, <2>4, <3>2, <4>1
    <3> QED BY <3>1, <3>2
  <2>6. g = [k \in 0 .. N |-> g[k]]
    OBVIOUS
  <2> HIDE DEF g
  <2>7. 0 \in S
    <3>1. << >> \in Seq(T) /\ 0 \in 0 .. N
      BY <1>1, EmptySeq
    <3> QED BY <2>4, <3>1
  <2>8. ASSUME NEW k \in 1 .. N, k - 1 \in S PROVE k \in S
    <3>1. g[k - 1] \in Seq(T) /\ s[k] \in Seq(T) /\ k \in 0 .. N
      BY <1>1, <2>8
    <3>2. g[k - 1] \o s[k] \in Seq(T)
      BY <3>1, ConcatFacts
    <3> QED BY <2>5, <3>1, <3>2
  <2>9. \A k \in 0 .. N : k \in S
    <3> HIDE DEF S
    <3> QED BY <1>1, <2>7, <2>8, Climb
  <2>10. g \in [0 .. N -> Seq(T)]
    BY <2>6, <2>9
  <2>11. N \in 1 .. N
    BY <1>1, <1>3
  <2>12. Flattening(g, s, T)
    BY <2>4, <2>5, <2>10 DEF Flattening, N
  <2> QED BY <2>1, <2>4, <2>11, <2>12 DEF N
<1> QED BY <1>2, <1>3

\* A concatenation is that of all but the last, and the last.
LEMMA FlattenFacts ==
  ASSUME NEW T, NEW s \in Seq(Seq(T))
  PROVE  /\ FlattenSeq(<< >>) = << >> /\ FlattenSeq(s) \in Seq(T)
         /\ \A e \in Seq(T) : FlattenSeq(Append(s, e)) = FlattenSeq(s) \o e
<1>1. FlattenSeq(<< >>) = << >>
  <2>1. << >> \in Seq(Seq(T)) /\ Len(<< >>) = 0
    BY EmptySeq
  <2> QED BY <2>1 DEF FlattenSeq
<1>2. FlattenSeq(s) \in Seq(T)
  <2>1. PICK g : Flattening(g, s, T) /\ FlattenSeq(s) = g[Len(s)]
    BY JoinedExists
  <2>2. Len(s) \in 0 .. Len(s)
    BY Places
  <2> QED BY <2>1, <2>2 DEF Flattening
<1>3. ASSUME NEW e \in Seq(T) PROVE FlattenSeq(Append(s, e)) = FlattenSeq(s) \o e
  <2> DEFINE t == Append(s, e)
             N == Len(s)
  <2>1. t \in Seq(Seq(T)) /\ Len(t) = N + 1 /\ t[N + 1] = e /\ \A i \in 1 .. N : t[i] = s[i]
    BY AppendProperties
  <2>2. N \in Nat
    BY Places
  <2> HIDE DEF t
  <2>3. PICK f : Flattening(f, s, T) /\ FlattenSeq(s) = f[N]
    BY JoinedExists
  <2>4. PICK g : Flattening(g, t, T) /\ FlattenSeq(t) = g[N + 1]
    BY <2>1, JoinedExists
  <2> HIDE DEF N
  <2>5. g[0] = << >> /\ \A k \in 1 .. N + 1 : g[k] = g[k - 1] \o t[k]
    BY <2>1, <2>4 DEF Flattening
  <2>6. f[0] = << >> /\ \A k \in 1 .. N : f[k] = f[k - 1] \o s[k]
    BY <2>3 DEF Flattening, N
  <2> DEFINE S == {k \in 0 .. N : f[k] = g[k]}
  <2>7. 0 \in S
    BY <2>2, <2>5, <2>6
  <2>7a. ASSUME NEW k \in 1 .. N, k - 1 \in S PROVE k \in S
    <3>1. k \in 1 .. N + 1 /\ k \in 0 .. N
      BY <2>2
    <3> QED BY <2>1, <2>5, <2>6, <2>7a, <3>1
  <2>8. \A k \in 0 .. N : k \in S
    <3> HIDE DEF S
    <3> QED BY <2>2, <2>7, <2>7a, Climb
  <2>9. g[N + 1] = g[N] \o e
    <3>1. N + 1 \in 1 .. N + 1 /\ (N + 1) - 1 = N
      BY <2>2
    <3> QED BY <2>1, <2>5, <3>1
  <2>10. N \in 0 .. N
    BY <2>2
  <2> QED BY <2>3, <2>4, <2>8, <2>9, <2>10 DEF t
<1> QED BY <1>1, <1>2, <1>3

LEMMA FlattenConcat ==
  ASSUME NEW T, NEW a \in Seq(Seq(T)), NEW b \in Seq(Seq(T))
  PROVE  FlattenSeq(a \o b) = FlattenSeq(a) \o FlattenSeq(b)
<1> DEFINE U == Seq(T)
           P == {s \in Seq(U) : FlattenSeq(a \o s) = FlattenSeq(a) \o FlattenSeq(s)}
<1>1. << >> \in P
  BY ConcatFacts, FlattenFacts
<1>2. ASSUME NEW s \in Seq(U), NEW e \in U, s \in P PROVE Append(s, e) \in P
  <2>1. Append(s, e) \in Seq(U) /\ a \o Append(s, e) = Append(a \o s, e) /\ a \o s \in Seq(U)
    BY ConcatFacts
  <2>2. FlattenSeq(Append(a \o s, e)) = FlattenSeq(a \o s) \o e /\ FlattenSeq(Append(s, e)) = FlattenSeq(s) \o e
    BY <2>1, FlattenFacts
  <2>3. FlattenSeq(a) \in Seq(T) /\ FlattenSeq(s) \in Seq(T)
    BY FlattenFacts
  <2>4. (FlattenSeq(a) \o FlattenSeq(s)) \o e = FlattenSeq(a) \o (FlattenSeq(s) \o e)
    <3> DEFINE x == FlattenSeq(a)
               y == FlattenSeq(s)
    <3>1. x \in Seq(T) /\ y \in Seq(T) /\ e \in Seq(T)
      BY <2>3
    <3> HIDE DEF x, y, U, P
    <3>2. (x \o y) \o e = x \o (y \o e)
      BY ONLY <3>1, Regrouped
    <3> QED BY <3>2 DEF x, y
  <2> QED BY <1>2, <2>1, <2>2, <2>4
<1> HIDE DEF P
<1>3. Seq(U) \subseteq P
  <2> HIDE DEF U
  <2> QED BY <1>1, <1>2, Grow
<1> QED BY <1>3 DEF P

-----------------------------------------------------------------------------
\* The estimate of tokens: what each text comes to alone, and all of them as one.
Fenced == {t \in [chars : Nat, words : Nat, fence : Texts] : t.words <= t.chars}

\* Rounding.
LEMMA CeilingFacts ==
  ASSUME NEW n \in Int
  PROVE  /\ Ceiling(n, 3) \in Int /\ n <= 3 * Ceiling(n, 3) /\ 3 * Ceiling(n, 3) <= n + 2
         /\ Ceiling(n, 4) \in Int /\ n <= 4 * Ceiling(n, 4) /\ 4 * Ceiling(n, 4) <= n + 3
         /\ Ceiling(n, 24) \in Int /\ n <= 24 * Ceiling(n, 24)
         /\ n \div 2 \in Int /\ 2 * (n \div 2) <= n /\ n <= 2 * (n \div 2) + 1
         /\ n \div 4 \in Int /\ n <= 4 * (n \div 4) + 3
  BY DEF Ceiling

\* Half of what the characters and the words come to, but for the rounding.
LEMMA Blend ==
  ASSUME NEW c \in Int, NEW w \in Int
  PROVE  LET e == (Ceiling(c, 4) + Ceiling(4 * w, 3)) \div 2
         IN  e \in Int /\ 24 * e <= 3 * c + 16 * w + 17 /\ 3 * c + 16 * w <= 24 * e + 12
<1> DEFINE v == 4 * w
           x == Ceiling(c, 4)
           y == Ceiling(v, 3)
           s == x + y
           e == s \div 2
<1>1. v \in Int /\ v = 4 * w
  OBVIOUS
<1> HIDE DEF v
<1>2. x \in Int /\ 4 * x <= c + 3 /\ c <= 4 * x
  BY CeilingFacts
<1>3. y \in Int /\ 3 * y <= v + 2 /\ v <= 3 * y
  BY <1>1, CeilingFacts
<1> HIDE DEF x, y
<1>4. s \in Int /\ s = x + y
  BY <1>2, <1>3
<1> HIDE DEF s
<1>5. e \in Int /\ 2 * e <= s /\ s <= 2 * e + 1
  BY <1>4, CeilingFacts
<1> HIDE DEF e
<1>6. 24 * e <= 3 * c + 16 * w + 17 /\ 3 * c + 16 * w <= 24 * e + 12
  BY <1>1, <1>2, <1>3, <1>4, <1>5
<1> QED BY <1>5, <1>6 DEF e, s, x, y, v

\* From above, of any text.
LEMMA EstimateAbove ==
  ASSUME NEW t, t.chars \in Int, t.words \in Nat
  PROVE  /\ Estimate(t) \in Int
         /\ t.words = 0 => Estimate(t) <= 1
         /\ t.words > 0 => 24 * Estimate(t) <= 3 * t.chars + 16 * t.words + 17
<1> DEFINE c == t.chars
           w == t.words
           e == (Ceiling(c, 4) + Ceiling(4 * w, 3)) \div 2
<1>1. Estimate(t) = IF c = 0 THEN 0 ELSE IF w = 0 THEN 1 ELSE e
  BY DEF Estimate
<1>2. c \in Int /\ w \in Nat
  OBVIOUS
<1> HIDE DEF c, w
<1>3. e \in Int /\ 24 * e <= 3 * c + 16 * w + 17
  BY <1>2, Blend
<1> HIDE DEF e
<1>4. /\ Estimate(t) \in Int
      /\ w = 0 => Estimate(t) <= 1
      /\ w > 0 => 24 * Estimate(t) <= 3 * c + 16 * w + 17
  BY <1>1, <1>2, <1>3
<1> QED BY <1>4 DEF c, w

\* From below, of a text that may be in a fence.
LEMMA EstimateBelow ==
  ASSUME NEW t \in Fenced
  PROVE  /\ Estimate(t) \in Nat /\ Unseen(t) \in Nat
         /\ 3 * (t.chars + t.fence.chars) + 16 * (t.words + t.fence.words) <= 24 * (Estimate(t) + Unseen(t)) + 12
<1> DEFINE c == t.chars
           w == t.words
           f == t.fence.chars
           g == t.fence.words
           e == (Ceiling(c, 4) + Ceiling(4 * w, 3)) \div 2
           n == 3 * (f + (IF w = 0 THEN c ELSE 0)) + 16 * g
           u == Ceiling(n, 24)
<1>1. c \in Nat /\ w \in Nat /\ w <= c /\ f \in Nat /\ g \in Nat
  BY DEF Fenced, Texts
<1>2. Estimate(t) = IF c = 0 THEN 0 ELSE IF w = 0 THEN 1 ELSE e
  BY DEF Estimate
<1>3. Unseen(t) = u
  BY DEF Unseen
<1> HIDE DEF c, w, f, g
<1>4. e \in Int /\ 3 * c + 16 * w <= 24 * e + 12
  BY <1>1, Blend
<1> HIDE DEF e
<1>5. n \in Nat /\ n = 3 * (f + (IF w = 0 THEN c ELSE 0)) + 16 * g
  BY <1>1
<1> HIDE DEF n
<1>6. u \in Int /\ n <= 24 * u
  BY <1>5, CeilingFacts
<1> HIDE DEF u
<1>7. Estimate(t) \in Nat /\ Unseen(t) \in Nat
  BY <1>1, <1>2, <1>3, <1>4, <1>5, <1>6
<1>8. 3 * (c + f) + 16 * (w + g) <= 24 * (Estimate(t) + Unseen(t)) + 12
  BY <1>1, <1>2, <1>3, <1>4, <1>5, <1>6
<1> QED BY <1>7, <1>8 DEF c, w, f, g

\* Of k texts that come to m tokens, the estimate of all is within what is allowed.
LEMMA Rounded ==
  ASSUME NEW e \in Int, NEW c \in Int, NEW w \in Nat, NEW m \in Nat, NEW k \in Nat,
         w = 0 => e <= 1, w > 0 => 24 * e <= 3 * c + 16 * w + 17,
         k >= 1, 3 * c + 16 * w <= 24 * m + 18 * k - 6
  PROVE  e <= m + (3 * k + 1) \div 4
<1> DEFINE n == 3 * k + 1
           d == n \div 4
<1>1. n \in Int /\ n = 3 * k + 1
  OBVIOUS
<1> HIDE DEF n
<1>2. d \in Int /\ n <= 4 * d + 3
  BY <1>1, CeilingFacts
<1> HIDE DEF d
<1>3. e <= m + d
  BY <1>1, <1>2
<1> QED BY <1>3 DEF d, n

LEMMA AllowedFacts ==
  ASSUME NEW texts \in Seq(Fenced)
  PROVE  LET m == [i \in DOMAIN texts |-> Estimate(texts[i]) + Unseen(texts[i])] IN
         /\ m \in Seq(Nat) /\ Len(m) = Len(texts)
         /\ Allowed(texts) = Sum(m) + (3 * Len(texts) + 1) \div 4
         /\ Counted(texts) \in Nat /\ Counted(texts) <= Allowed(texts)
<1> DEFINE m == [i \in DOMAIN texts |-> Estimate(texts[i]) + Unseen(texts[i])]
           e == [i \in DOMAIN texts |-> Estimate(texts[i])]
           n == 3 * Len(texts) + 1
<1>1. Len(texts) \in Nat /\ DOMAIN texts = 1 .. Len(texts) /\ \A i \in DOMAIN texts : texts[i] \in Fenced
  BY Places
<1>2. \A i \in DOMAIN texts : Estimate(texts[i]) \in Nat /\ Unseen(texts[i]) \in Nat
  BY <1>1, EstimateBelow
<1>3. m \in Seq(Nat) /\ Len(m) = Len(texts) /\ e \in Seq(Nat) /\ Len(e) = Len(texts)
  BY <1>1, <1>2
<1>4. \A i \in 1 .. Len(e) : e[i] <= m[i]
  BY <1>1, <1>2, <1>3
<1>5. Allowed(texts) = Sum(m) + n \div 4 /\ Counted(texts) = Sum(e)
  BY DEF Allowed, Counted
<1>6. n \in Int /\ n >= 1
  BY <1>1
<1> HIDE DEF m, e, n
<1>7. Sum(e) <= Sum(m) /\ Sum(e) \in Nat /\ Sum(m) \in Nat
  BY <1>3, <1>4, SumsCompare, SumFacts
<1>8. n \div 4 \in Int /\ n <= 4 * (n \div 4) + 3
  BY <1>6, CeilingFacts
<1>9. n \div 4 >= 0
  BY <1>6, <1>8
<1>10. Counted(texts) \in Nat /\ Counted(texts) <= Allowed(texts)
  BY <1>5, <1>7, <1>8, <1>9
<1> QED BY <1>3, <1>5, <1>10 DEF m, n

\* A text that is put together from texts, with at most two characters between
\* them, comes to no more tokens than is allowed of them.
LEMMA Recounted ==
  ASSUME NEW texts \in Seq(Fenced), NEW x \in Seq(Nat), NEW y \in Seq(Nat), Len(texts) >= 1,
         Len(x) = Len(texts), Len(y) = Len(texts),
         \A i \in 1 .. Len(texts) :
            /\ x[i] <= texts[i].chars + texts[i].fence.chars + (IF i = 1 THEN 0 ELSE 2)
            /\ y[i] <= texts[i].words + texts[i].fence.words,
         NEW t, t.chars \in Int, t.chars <= Sum(x), t.words = Sum(y)
  PROVE  Estimate(t) \in Int /\ Estimate(t) <= Allowed(texts)
<1> DEFINE n == Len(texts)
           m == [i \in DOMAIN texts |-> Estimate(texts[i]) + Unseen(texts[i])]
<1>1. n \in Nat /\ n >= 1 /\ DOMAIN texts = 1 .. n /\ \A i \in 1 .. n : texts[i] \in Fenced
  BY Places
<1>2. m \in Seq(Nat) /\ Len(m) = n /\ Allowed(texts) = Sum(m) + (3 * n + 1) \div 4
  BY AllowedFacts
<1>3. \A i \in 1 .. n : x[i] \in Nat /\ y[i] \in Nat
  BY Places
<1>4. ASSUME NEW i \in 1 .. n
      PROVE  3 * x[i] + 16 * y[i] <= 24 * m[i] + (IF i = 1 THEN 12 ELSE 18)
  <2> DEFINE c == texts[i].chars
             f == texts[i].fence.chars
             w == texts[i].words
             g == texts[i].fence.words
             k == m[i]
  <2>1. c \in Nat /\ f \in Nat /\ w \in Nat /\ g \in Nat
    BY <1>1 DEF Fenced, Texts
  <2>2. k = Estimate(texts[i]) + Unseen(texts[i])
    BY <1>1
  <2>3. k \in Nat /\ 3 * (c + f) + 16 * (w + g) <= 24 * k + 12
    <3>1. texts[i] \in Fenced
      BY <1>1
    <3> DEFINE e == Estimate(texts[i])
               u == Unseen(texts[i])
    <3>2. e \in Nat /\ u \in Nat /\ 3 * (c + f) + 16 * (w + g) <= 24 * (e + u) + 12
      BY <3>1, EstimateBelow
    <3>3. k = e + u
      BY <2>2
    <3> HIDE DEF c, f, w, g, k, e, u
    <3>4. k \in Nat
      BY <3>2, <3>3
    <3>5. 3 * (c + f) + 16 * (w + g) <= 24 * k + 12
      BY <3>2, <3>3
    <3> QED BY <3>4, <3>5
  <2> DEFINE p == x[i]
             q == y[i]
  <2>4. p \in Nat /\ q \in Nat /\ p <= c + f + (IF i = 1 THEN 0 ELSE 2) /\ q <= w + g
    BY <1>3
  <2> HIDE DEF c, f, w, g, k, p, q
  <2>5. CASE i = 1
    <3>1. p <= c + f
      BY <2>1, <2>4, <2>5
    <3>2. 3 * p + 16 * q <= 24 * k + 12
      BY ONLY <2>1, <2>3, <2>4, <3>1
    <3> QED BY <2>5, <3>2 DEF k, p, q
  <2>6. CASE i # 1
    <3>1. p <= c + f + 2
      BY <2>4, <2>6
    <3>2. 3 * p + 16 * q <= 3 * (c + f) + 16 * (w + g) + 6
      BY ONLY <2>1, <2>4, <3>1
    <3>3. 3 * p + 16 * q <= 24 * k + 18
      BY ONLY <2>1, <2>3, <2>4, <3>2
    <3> QED BY <2>6, <3>3 DEF k, p, q
  <2> QED BY <2>5, <2>6
<1> HIDE DEF m, n
<1>5. 3 * x[1] + 16 * y[1] <= 24 * m[1] + 12 /\ \A i \in 2 .. n : 3 * x[i] + 16 * y[i] <= 24 * m[i] + 18
  <2>1. 1 \in 1 .. n
    BY <1>1
  <2>2. \A i \in 2 .. n : i \in 1 .. n /\ i # 1
    BY <1>1
  <2> QED BY <1>4, <2>1, <2>2
<1>6. Len(x) = n /\ Len(y) = n
  BY DEF n
<1>7. 3 * Sum(x) + 16 * Sum(y) <= 24 * Sum(m) + 18 * n - 6
  BY <1>1, <1>2, <1>5, <1>6, SumsWeighed
<1>8. Sum(x) \in Nat /\ Sum(y) \in Nat /\ Sum(m) \in Nat
  BY <1>2, SumFacts
<1>9. 3 * t.chars + 16 * t.words <= 24 * Sum(m) + 18 * n - 6 /\ t.words \in Nat
  <2> DEFINE c == t.chars
             w == t.words
             a == Sum(x)
             k == Sum(m)
  <2>1. c \in Int /\ a \in Nat /\ k \in Nat /\ w \in Nat /\ n \in Nat /\ c <= a
    BY <1>1, <1>8
  <2>2. 3 * a + 16 * w <= 24 * k + 18 * n - 6
    BY <1>7
  <2> HIDE DEF c, w, a, k
  <2>3. 3 * c + 16 * w <= 24 * k + 18 * n - 6
    BY ONLY <2>1, <2>2
  <2> QED BY <2>1, <2>3 DEF c, w, k
<1>10. /\ Estimate(t) \in Int
       /\ t.words = 0 => Estimate(t) <= 1
       /\ t.words > 0 => 24 * Estimate(t) <= 3 * t.chars + 16 * t.words + 17
  BY <1>9, EstimateAbove
<1>11. Estimate(t) <= Sum(m) + (3 * n + 1) \div 4
  BY <1>1, <1>8, <1>9, <1>10, Rounded
<1> QED BY <1>2, <1>10, <1>11

-----------------------------------------------------------------------------
\* The parts of the document.
Spots == DOMAIN document
Parts == {x \in Nat \X Nat : x[1] \in Spots /\ x[2] \in DOMAIN document[x[1]].parts}

LEMMA DocumentFacts ==
  ASSUME document \in Documents
  PROVE  /\ Len(document) \in Nat /\ Spots = 1 .. Len(document)
         /\ \A b \in Spots : /\ document[b].kind \in Kinds /\ document[b].level \in Nat
                             /\ document[b].parts \in Seq(PartsThere)
                             /\ document[b].tail \in Nat /\ document[b].fence \in Texts
<1> DEFINE B == [kind : Kinds, level : Nat, parts : Seq(PartsThere), tail : Nat, fence : Texts]
<1>1. document \in Seq(B)
  BY DocumentsAssumption
<1>2. Len(document) \in Nat /\ Spots = 1 .. Len(document) /\ \A b \in Spots : document[b] \in B
  <2> HIDE DEF B
  <2> QED BY <1>1, Places DEF Spots
<1> QED BY <1>2

LEMMA PartFacts ==
  ASSUME document \in Documents
  PROVE  /\ \A x \in Parts : Part(x) \in PartsThere /\ Alone(x) \in Fenced
         /\ \A b \in Spots : \A p \in DOMAIN document[b].parts : <<b, p>> \in Parts
<1>1. \A b \in Spots : /\ b \in Nat /\ DOMAIN document[b].parts \subseteq Nat
                       /\ \A p \in DOMAIN document[b].parts : document[b].parts[p] \in PartsThere
  <2> SUFFICES ASSUME NEW b \in Spots
               PROVE  /\ b \in Nat /\ DOMAIN document[b].parts \subseteq Nat
                      /\ \A p \in DOMAIN document[b].parts : document[b].parts[p] \in PartsThere
    OBVIOUS
  <2>1. document[b].parts \in Seq(PartsThere) /\ b \in Nat
    BY DocumentFacts
  <2> QED BY <2>1, Places
<1>2. \A x \in Parts : Part(x) \in PartsThere
  BY <1>1 DEF Parts, Part
<1>3. ASSUME NEW x \in Parts PROVE Alone(x) \in Fenced
  <2>1. Part(x).chars \in Nat /\ Part(x).words \in Nat /\ Part(x).words <= Part(x).chars
    BY <1>2 DEF PartsThere
  <2> QED BY <2>1 DEF Alone, Fenced, Texts
<1> QED BY <1>1, <1>2, <1>3 DEF Parts

LEMMA TextFacts ==
  ASSUME document \in Documents, NEW b \in Spots
  PROVE  /\ TextOfBlock(b) \in Seq(Parts) /\ Len(TextOfBlock(b)) = Len(document[b].parts)
         /\ \A p \in 1 .. Len(document[b].parts) : TextOfBlock(b)[p] = <<b, p>>
<1> DEFINE s == document[b].parts
<1>1. s \in Seq(PartsThere)
  BY DocumentFacts
<1>2. Len(s) \in Nat /\ DOMAIN s = 1 .. Len(s)
  <2> HIDE DEF s
  <2> QED BY <1>1, Places
<1>3. \A p \in DOMAIN s : <<b, p>> \in Parts
  BY PartFacts
<1>4. TextOfBlock(b) = [p \in 1 .. Len(s) |-> <<b, p>>]
  BY <1>2 DEF TextOfBlock
<1>5. TextOfBlock(b) \in Seq(Parts) /\ Len(TextOfBlock(b)) = Len(s)
  <2> HIDE DEF s
  <2> QED BY <1>2, <1>3, <1>4
<1> QED BY <1>4, <1>5

\* What each part adds to a text that is joined from them.
CharsIn(q) == [i \in DOMAIN q |-> Part(q[i]).chars +
                  (IF i = 1 \/ document[q[i][1]].kind = "paragraph" THEN 0 ELSE 1)]
WordsIn(q) == [i \in DOMAIN q |-> Part(q[i]).words - (IF i = 1 THEN 0 ELSE Part(q[i]).glued)]

LEMMA JoinedFacts ==
  ASSUME document \in Documents, NEW q \in Seq(Parts)
  PROVE  /\ CharsIn(q) \in Seq(Nat) /\ WordsIn(q) \in Seq(Nat)
         /\ Len(CharsIn(q)) = Len(q) /\ Len(WordsIn(q)) = Len(q)
         /\ \A i \in 1 .. Len(q) : /\ CharsIn(q)[i] <= Part(q[i]).chars + (IF i = 1 THEN 0 ELSE 1)
                                   /\ WordsIn(q)[i] <= Part(q[i]).words
         /\ Joined(q).chars = Sum(CharsIn(q)) /\ Joined(q).words = Sum(WordsIn(q))
         /\ Sum(CharsIn(q)) \in Nat /\ Sum(WordsIn(q)) \in Nat /\ Sum(WordsIn(q)) <= Sum(CharsIn(q))
<1>1. Len(q) \in Nat /\ DOMAIN q = 1 .. Len(q) /\ \A i \in DOMAIN q : Part(q[i]) \in PartsThere
  BY Places, PartFacts
<1>2. \A i \in DOMAIN q : /\ Part(q[i]).chars \in Nat /\ Part(q[i]).words \in Nat /\ Part(q[i]).glued \in {0, 1}
                          /\ Part(q[i]).glued <= Part(q[i]).words /\ Part(q[i]).words <= Part(q[i]).chars
  BY <1>1 DEF PartsThere
<1>3. ASSUME NEW i \in DOMAIN q
      PROVE  /\ CharsIn(q)[i] \in Nat /\ WordsIn(q)[i] \in Nat /\ WordsIn(q)[i] <= CharsIn(q)[i]
             /\ CharsIn(q)[i] <= Part(q[i]).chars + (IF i = 1 THEN 0 ELSE 1)
             /\ WordsIn(q)[i] <= Part(q[i]).words
  <2> DEFINE c == Part(q[i]).chars
             w == Part(q[i]).words
             g == Part(q[i]).glued
  <2>1. /\ CharsIn(q)[i] = c + (IF i = 1 \/ document[q[i][1]].kind = "paragraph" THEN 0 ELSE 1)
        /\ WordsIn(q)[i] = w - (IF i = 1 THEN 0 ELSE g)
    BY DEF CharsIn, WordsIn
  <2>2. c \in Nat /\ w \in Nat /\ g \in {0, 1} /\ g <= w /\ w <= c
    BY <1>2
  <2> HIDE DEF c, w, g
  <2>3. CharsIn(q)[i] \in Nat /\ c <= CharsIn(q)[i] /\ CharsIn(q)[i] <= c + (IF i = 1 THEN 0 ELSE 1)
    BY <2>1, <2>2
  <2>4. WordsIn(q)[i] \in Nat /\ WordsIn(q)[i] <= w
    BY <2>1, <2>2
  <2>5. WordsIn(q)[i] <= CharsIn(q)[i]
    BY <2>2, <2>3, <2>4
  <2> QED BY <2>3, <2>4, <2>5 DEF c, w
<1>4. DOMAIN CharsIn(q) = DOMAIN q /\ DOMAIN WordsIn(q) = DOMAIN q
  BY DEF CharsIn, WordsIn
<1>5. /\ CharsIn(q) \in Seq(Nat) /\ WordsIn(q) \in Seq(Nat)
      /\ Len(CharsIn(q)) = Len(q) /\ Len(WordsIn(q)) = Len(q)
  <2>1. /\ CharsIn(q) = [i \in 1 .. Len(q) |-> CharsIn(q)[i]]
        /\ WordsIn(q) = [i \in 1 .. Len(q) |-> WordsIn(q)[i]]
    BY <1>1 DEF CharsIn, WordsIn
  <2> QED BY <1>1, <1>3, <2>1
<1>6. Joined(q).chars = Sum(CharsIn(q)) /\ Joined(q).words = Sum(WordsIn(q))
  BY DEF Joined, CharsIn, WordsIn
<1>7. Sum(WordsIn(q)) <= Sum(CharsIn(q))
  BY <1>1, <1>3, <1>5, SumsCompare
<1> QED BY <1>1, <1>3, <1>5, <1>6, <1>7, SumFacts

\* A block's text has no more words than characters, and a size.
LEMMA WholeFacts ==
  ASSUME document \in Documents, NEW b \in Spots
  PROVE  Whole(b) \in Fenced /\ Size(b) \in Nat
<1> DEFINE q == TextOfBlock(b)
           text == Joined(q)
<1>1. q \in Seq(Parts)
  BY TextFacts
<1> HIDE DEF q
<1>2. text.chars \in Nat /\ text.words \in Nat /\ text.words <= text.chars
  BY <1>1, JoinedFacts
<1>3. document[b].tail \in Nat /\ document[b].fence \in Texts
  BY DocumentFacts
<1>4. Whole(b) = [chars |-> text.chars + document[b].tail, words |-> text.words, fence |-> document[b].fence]
  BY DEF Whole, q
<1> HIDE DEF text
<1>5. Whole(b) \in Fenced
  BY <1>2, <1>3, <1>4 DEF Fenced
<1> QED BY <1>5, EstimateBelow DEF Size

LEMMA SizesFacts ==
  ASSUME document \in Documents, NEW blocks \in Seq(Spots)
  PROVE  /\ Sizes(<< >>) = 0 /\ Sizes(blocks) \in Nat
         /\ \A b \in Spots : Sizes(Append(blocks, b)) = Sizes(blocks) + Size(b) /\ Sizes(<<b>>) = Size(b)
<1> DEFINE sizes(s) == [i \in DOMAIN s |-> Size(s[i])]
<1>1. \A s : Sizes(s) = Sum(sizes(s))
  BY DEF Sizes
<1>2. ASSUME NEW s \in Seq(Spots) PROVE sizes(s) \in Seq(Nat)
  <2>1. Len(s) \in Nat /\ DOMAIN s = 1 .. Len(s) /\ \A i \in DOMAIN s : Size(s[i]) \in Nat
    BY Places, WholeFacts
  <2> QED BY <2>1
<1>3. ASSUME NEW s \in Seq(Spots), NEW b \in Spots PROVE sizes(Append(s, b)) = Append(sizes(s), Size(b))
  <2>1. Len(s) \in Nat /\ DOMAIN s = 1 .. Len(s)
    BY Places
  <2>2. /\ Append(s, b) \in Seq(Spots) /\ Len(Append(s, b)) = Len(s) + 1
        /\ Append(s, b)[Len(s) + 1] = b /\ \A i \in 1 .. Len(s) : Append(s, b)[i] = s[i]
    BY AppendProperties
  <2>3. DOMAIN Append(s, b) = 1 .. Len(s) + 1
    BY <2>2, Places
  <2> QED BY <2>1, <2>2, <2>3
<1>4. sizes(<< >>) = << >>
  OBVIOUS
<1>5. \A b \in Spots : Size(b) \in Nat
  BY WholeFacts
<1> HIDE DEF sizes
<1>6. Sizes(<< >>) = 0
  BY <1>1, <1>4, EmptySeq, SumFacts
<1>7. \A s \in Seq(Spots) : \A b \in Spots : Sizes(Append(s, b)) = Sizes(s) + Size(b) /\ Sizes(s) \in Nat
  BY <1>1, <1>2, <1>3, <1>5, SumFacts
<1>8. ASSUME NEW b \in Spots PROVE Sizes(<<b>>) = Size(b)
  <2>1. << >> \in Seq(Spots) /\ <<b>> = Append(<< >>, b)
    BY EmptySeq
  <2>2. Sizes(<<b>>) = 0 + Size(b)
    BY <1>6, <1>7, <2>1
  <2> QED BY <1>5, <2>2
<1>9. Sizes(blocks) \in Nat
  BY <1>1, <1>2, SumFacts
<1> QED BY <1>6, <1>7, <1>8, <1>9

LEMMA PartsOfFacts ==
  ASSUME document \in Documents, NEW blocks \in Seq(Spots)
  PROVE  /\ PartsOf(<< >>) = << >> /\ PartsOf(blocks) \in Seq(Parts)
         /\ \A b \in Spots : PartsOf(Append(blocks, b)) = PartsOf(blocks) \o TextOfBlock(b)
<1> DEFINE texts(s) == [i \in DOMAIN s |-> TextOfBlock(s[i])]
<1>1. \A s : PartsOf(s) = FlattenSeq(texts(s))
  BY DEF PartsOf
<1>2. Len(blocks) \in Nat /\ DOMAIN blocks = 1 .. Len(blocks) /\ \A i \in DOMAIN blocks : blocks[i] \in Spots
  BY Places
<1>3. texts(blocks) \in Seq(Seq(Parts))
  BY <1>2, TextFacts
<1>4. ASSUME NEW b \in Spots PROVE texts(Append(blocks, b)) = Append(texts(blocks), TextOfBlock(b))
  <2>1. /\ Append(blocks, b) \in Seq(Spots) /\ Len(Append(blocks, b)) = Len(blocks) + 1
        /\ Append(blocks, b)[Len(blocks) + 1] = b
        /\ \A i \in 1 .. Len(blocks) : Append(blocks, b)[i] = blocks[i]
    BY AppendProperties
  <2>2. DOMAIN Append(blocks, b) = 1 .. Len(blocks) + 1
    BY <2>1, Places
  <2> QED BY <1>2, <2>1, <2>2
<1>5. texts(<< >>) = << >>
  OBVIOUS
<1>6. \A b \in Spots : TextOfBlock(b) \in Seq(Parts)
  BY TextFacts
<1> HIDE DEF texts
<1>7. FlattenSeq(texts(blocks)) \in Seq(Parts) /\ FlattenSeq(<< >>) = << >>
  BY <1>3, FlattenFacts
<1>8. \A b \in Spots : FlattenSeq(Append(texts(blocks), TextOfBlock(b))) = FlattenSeq(texts(blocks)) \o TextOfBlock(b)
  BY <1>3, <1>6, FlattenFacts
<1> QED BY <1>1, <1>4, <1>5, <1>7, <1>8

-----------------------------------------------------------------------------
\* The runs of a block that is too long hold its parts, in their order.
Exchanged(f, s, e, T) ==
    /\ s = Append(f, Last(s)) /\ Last(s) \in T
    /\ [s EXCEPT ![Len(s)] = e] = Append(f, e)

LEMMA LastReplaced ==
  ASSUME NEW T, NEW s \in Seq(T), s # << >>, NEW e \in T
  PROVE  \E f \in Seq(T) : Exchanged(f, s, e, T)
<1> DEFINE n == Len(s)
           f == SubSeq(s, 1, n - 1)
<1>1. n \in Nat /\ n >= 1 /\ DOMAIN s = 1 .. n /\ \A i \in 1 .. n : s[i] \in T
  BY Places
<1>2. f \in Seq(T) /\ Len(f) = n - 1 /\ \A i \in 1 .. n - 1 : f[i] = s[i]
  BY <1>1
<1>3. Last(s) = s[n]
  BY DEF Last
<1> HIDE DEF f
<1>4. \A x \in T : /\ Len(Append(f, x)) = n /\ Append(f, x)[n] = x /\ Append(f, x) \in Seq(T)
                   /\ \A i \in 1 .. n - 1 : Append(f, x)[i] = s[i]
  <2> SUFFICES ASSUME NEW x \in T
               PROVE  /\ Len(Append(f, x)) = n /\ Append(f, x)[n] = x /\ Append(f, x) \in Seq(T)
                      /\ \A i \in 1 .. n - 1 : Append(f, x)[i] = s[i]
    OBVIOUS
  <2>1. /\ Append(f, x) \in Seq(T) /\ Len(Append(f, x)) = Len(f) + 1
        /\ \A i \in 1 .. Len(f) : Append(f, x)[i] = f[i]
        /\ Append(f, x)[Len(f) + 1] = x
    BY <1>2, AppendProperties
  <2> QED BY <1>1, <1>2, <2>1
<1>5. s = Append(f, s[n])
  <2>1. s[n] \in T
    BY <1>1
  <2>2. Append(f, s[n]) \in Seq(T) /\ Len(Append(f, s[n])) = Len(s)
    BY <1>4, <2>1
  <2>3. \A i \in 1 .. Len(s) : s[i] = Append(f, s[n])[i]
    <3> SUFFICES ASSUME NEW i \in 1 .. Len(s) PROVE s[i] = Append(f, s[n])[i]
      OBVIOUS
    <3>1. i = n \/ i \in 1 .. n - 1
      <4>1. n \in Nat /\ i \in 1 .. n
        BY <1>1
      <4> HIDE DEF n
      <4> QED BY <4>1
    <3> QED BY <1>4, <2>1, <3>1
  <2> QED BY <2>2, <2>3, SeqEqual
<1>6. [s EXCEPT ![n] = e] = Append(f, e)
  <2> DEFINE t == [s EXCEPT ![n] = e]
  <2>1. t \in Seq(T) /\ Len(t) = n
    BY <1>1
  <2>2. Append(f, e) \in Seq(T) /\ Len(Append(f, e)) = n
    BY <1>4
  <2>3. \A i \in 1 .. n : t[i] = Append(f, e)[i]
    <3> SUFFICES ASSUME NEW i \in 1 .. n PROVE t[i] = Append(f, e)[i]
      OBVIOUS
    <3>1. t[i] = IF i = n THEN e ELSE s[i]
      BY <1>1
    <3>2. i = n \/ (i # n /\ i \in 1 .. n - 1)
      <4>1. n \in Nat /\ i \in 1 .. n
        BY <1>1
      <4> HIDE DEF n
      <4> QED BY <4>1
    <3> QED BY <1>4, <3>1, <3>2
  <2> HIDE DEF t
  <2>4. t = Append(f, e)
    BY <2>1, <2>2, <2>3, SeqEqual
  <2> QED BY <2>4 DEF t
<1>7. s[n] \in T
  BY <1>1
<1>8. Exchanged(f, s, e, T)
  BY <1>3, <1>5, <1>6, <1>7 DEF Exchanged
<1> QED BY <1>2, <1>8

ShortRuns == {q \in Seq(Parts) : q # << >> /\ (SizeOf(q) <= TargetTokens \/ Len(q) = 1)}

LEMMA AddPartFacts ==
  ASSUME document \in Documents, NEW runs \in Seq(ShortRuns), NEW b \in Spots,
         NEW p \in DOMAIN document[b].parts
  PROVE  /\ AddPart(runs, b, p) \in Seq(ShortRuns)
         /\ FlattenSeq(AddPart(runs, b, p)) = Append(FlattenSeq(runs), <<b, p>>)
<1> DEFINE x == <<b, p>>
<1>1. x \in Parts
  BY PartFacts
<1> HIDE DEF x
<1>2. <<x>> \in Seq(Parts) /\ <<x>> # << >> /\ Len(<<x>>) = 1
  BY <1>1
<1>3. <<x>> \in ShortRuns
  BY <1>2 DEF ShortRuns
<1>4. \A s : s \in Seq(ShortRuns) => s \in Seq(Seq(Parts))
  BY DEF ShortRuns
<1>5. \A s \in Seq(Seq(Parts)) : FlattenSeq(s) \in Seq(Parts)
  BY FlattenFacts
<1>6. CASE runs # << >> /\ SizeOf(Append(Last(runs), x)) <= TargetTokens
  <2> DEFINE e == Append(Last(runs), x)
  <2>1. Last(runs) \in ShortRuns
    <3>1. Len(runs) \in DOMAIN runs
      BY <1>6, Places
    <3> QED BY <3>1, Places DEF Last
  <2>2. Last(runs) \in Seq(Parts)
    BY <2>1 DEF ShortRuns
  <2>3. e \in Seq(Parts) /\ Len(e) = Len(Last(runs)) + 1 /\ Len(Last(runs)) \in Nat
    BY <1>1, <2>2, AppendProperties, LenProperties
  <2>3a. e # << >>
    BY <2>3, Places
  <2>4. e \in ShortRuns
    BY <1>6, <2>3, <2>3a DEF ShortRuns
  <2>5. PICK f \in Seq(ShortRuns) : runs = Append(f, Last(runs)) /\ [runs EXCEPT ![Len(runs)] = e] = Append(f, e)
    <3> HIDE DEF e
    <3>0. runs # << >> /\ e \in ShortRuns /\ runs \in Seq(ShortRuns)
      BY <1>6, <2>4
    <3>1. \E f \in Seq(ShortRuns) : Exchanged(f, runs, e, ShortRuns)
      BY ONLY <3>0, LastReplaced
    <3> QED BY <3>1 DEF Exchanged
  <2>6. AddPart(runs, b, p) = Append(f, e)
    <3>1. AddPart(runs, b, p) = [runs EXCEPT ![Len(runs)] = Append(@, x)]
      BY <1>6 DEF AddPart, x
    <3>2. [runs EXCEPT ![Len(runs)] = Append(@, x)] = [runs EXCEPT ![Len(runs)] = e]
      BY DEF Last
    <3> QED BY <2>5, <3>1, <3>2
  <2>7. FlattenSeq(Append(f, e)) = FlattenSeq(f) \o e /\ FlattenSeq(runs) = FlattenSeq(f) \o Last(runs)
    <3>1. f \in Seq(Seq(Parts))
      BY <1>4
    <3> HIDE DEF e
    <3>2. FlattenSeq(Append(f, e)) = FlattenSeq(f) \o e
      BY <2>3, <3>1, FlattenFacts
    <3>3. FlattenSeq(Append(f, Last(runs))) = FlattenSeq(f) \o Last(runs)
      BY <2>2, <3>1, FlattenFacts
    <3> QED BY <2>5, <3>2, <3>3
  <2>8. FlattenSeq(f) \o e = Append(FlattenSeq(f) \o Last(runs), x)
    <3>1. FlattenSeq(f) \in Seq(Parts)
      BY <1>4, <1>5
    <3> QED BY <1>1, <2>2, <3>1, ConcatFacts
  <2>9. Append(f, e) \in Seq(ShortRuns)
    BY <2>4, AppendProperties
  <2> QED BY <2>6, <2>7, <2>8, <2>9 DEF x
<1>7. CASE ~(runs # << >> /\ SizeOf(Append(Last(runs), x)) <= TargetTokens)
  <2>1. AddPart(runs, b, p) = Append(runs, <<x>>)
    BY <1>7 DEF AddPart, x
  <2>2. Append(runs, <<x>>) \in Seq(ShortRuns)
    BY <1>3, AppendProperties
  <2>3. FlattenSeq(Append(runs, <<x>>)) = FlattenSeq(runs) \o <<x>> /\ FlattenSeq(runs) \in Seq(Parts)
    BY <1>2, <1>4, FlattenFacts
  <2>4. FlattenSeq(runs) \o <<x>> = Append(FlattenSeq(runs), x)
    BY <1>1, <2>3, AppendIsConcat
  <2> QED BY <2>1, <2>2, <2>3, <2>4 DEF x
<1> QED BY <1>6, <1>7

Splitting(f, b) ==
    f = [p \in 0 .. Len(document[b].parts) |-> IF p = 0 THEN << >> ELSE AddPart(f[p - 1], b, p)]

LEMMA RunningExists ==
  ASSUME document \in Documents, NEW b \in Spots
  PROVE  \E f : Splitting(f, b)
<1> DEFINE N == Len(document[b].parts)
           U == Seq(ShortRuns)
           base == << >>
           F == [k \in 1 .. N |-> [u \in U |-> AddPart(u, b, k)]]
<1>1. N \in Nat /\ DOMAIN document[b].parts = 1 .. N
  <2>1. document[b].parts \in Seq(PartsThere)
    BY DocumentFacts
  <2> QED BY <2>1, Places
<1>2. \A u \in U : \A k \in 1 .. N : F[k][u] = AddPart(u, b, k)
  OBVIOUS
<1>3. F \in [1 .. N -> [U -> U]] /\ base \in U
  <2>1. \A k \in 1 .. N : \A u \in U : AddPart(u, b, k) \in U
    BY <1>1, AddPartFacts
  <2>2. base \in U
    BY EmptySeq
  <2> HIDE DEF U
  <2> QED BY <2>1, <2>2
<1> HIDE DEF F, N, U, base
<1>4a. PICK g : Iterates(g, N, U, base, F)
  BY <1>1, <1>3, Recursion
<1>4. g \in [0 .. N -> U] /\ g[0] = base /\ \A k \in 1 .. N : g[k] = F[k][g[k - 1]]
  BY <1>4a DEF Iterates
<1>5. \A k \in 1 .. N : g[k] = AddPart(g[k - 1], b, k)
  <2> SUFFICES ASSUME NEW k \in 1 .. N PROVE g[k] = AddPart(g[k - 1], b, k)
    OBVIOUS
  <2>1. k - 1 \in 0 .. N
    BY <1>1
  <2> QED BY <1>2, <1>4, <2>1
<1>6. g = [p \in 0 .. N |-> IF p = 0 THEN << >> ELSE AddPart(g[p - 1], b, p)]
  BY <1>1, <1>4, <1>5 DEF base
<1> QED BY <1>6 DEF Splitting, N

LEMMA RunsFacts ==
  ASSUME document \in Documents, NEW b \in Spots
  PROVE  Runs(b) \in Seq(ShortRuns) /\ FlattenSeq(Runs(b)) = TextOfBlock(b)
<1> DEFINE f == CHOOSE f : Splitting(f, b)
           N == Len(document[b].parts)
           text(k) == SubSeq(TextOfBlock(b), 1, k)
           S == {k \in 0 .. N : f[k] \in Seq(ShortRuns) /\ FlattenSeq(f[k]) = text(k)}
<1>1. Runs(b) = f[N]
  BY DEF Runs, Splitting
<1>2. N \in Nat /\ DOMAIN document[b].parts = 1 .. N
  <2>1. document[b].parts \in Seq(PartsThere)
    BY DocumentFacts
  <2> QED BY <2>1, Places
<1>3. Splitting(f, b)
  BY RunningExists
<1> HIDE DEF f
<1>4. f = [p \in 0 .. N |-> IF p = 0 THEN << >> ELSE AddPart(f[p - 1], b, p)]
  BY <1>3 DEF Splitting
<1>5. /\ TextOfBlock(b) \in Seq(Parts) /\ Len(TextOfBlock(b)) = N
      /\ \A p \in 1 .. N : TextOfBlock(b)[p] = <<b, p>>
  BY TextFacts
<1> HIDE DEF N
<1>6. 0 \in S
  <2>1. f[0] = << >> /\ 0 \in 0 .. N
    BY <1>2, <1>4
  <2>2. text(0) = << >>
    BY SubSeqEmpty
  <2>3. << >> \in Seq(ShortRuns) /\ << >> \in Seq(Seq(Parts))
    BY EmptySeq
  <2>4. FlattenSeq(<< >>) = << >>
    BY <2>3, FlattenFacts
  <2> QED BY <2>1, <2>2, <2>3, <2>4
<1>7. ASSUME NEW k \in 1 .. N, k - 1 \in S PROVE k \in S
  <2>1. f[k] = AddPart(f[k - 1], b, k) /\ k \in 0 .. N
    BY <1>2, <1>4
  <2>2. f[k - 1] \in Seq(ShortRuns) /\ FlattenSeq(f[k - 1]) = text(k - 1)
    BY <1>7
  <2>3. /\ AddPart(f[k - 1], b, k) \in Seq(ShortRuns)
        /\ FlattenSeq(AddPart(f[k - 1], b, k)) = Append(FlattenSeq(f[k - 1]), <<b, k>>)
    BY <1>2, <2>2, AddPartFacts
  <2>4. Append(text(k - 1), <<b, k>>) = text(k)
    <3> DEFINE t == TextOfBlock(b)
    <3>1. t \in Seq(Parts) /\ Len(t) = N /\ t[k] = <<b, k>> /\ k \in 1 .. Len(t) /\ 1 \in 1 .. Len(t)
      BY <1>2, <1>5
    <3> HIDE DEF t
    <3>2. SubSeq(t, 1, k) = SubSeq(t, 1, k - 1) \o <<t[k]>>
      BY <3>1, SubSeqRecursiveSecond
    <3>3. SubSeq(t, 1, k - 1) \in Seq(Parts) /\ t[k] \in Parts
      BY <3>1, Places
    <3>4. Append(SubSeq(t, 1, k - 1), t[k]) = SubSeq(t, 1, k - 1) \o <<t[k]>>
      BY <3>3, AppendIsConcat
    <3> QED BY <3>1, <3>2, <3>4 DEF t
  <2> QED BY <2>1, <2>2, <2>3, <2>4
<1>8. \A k \in 0 .. N : k \in S
  <2> HIDE DEF S
  <2> QED BY <1>2, <1>6, <1>7, Climb
<1>9. N \in 0 .. N
  BY <1>2
<1>10. text(N) = TextOfBlock(b)
  BY <1>5, SubSeqFull
<1> QED BY <1>1, <1>8, <1>9, <1>10

\* The blocks that chunks are to hold, one after the other.
Speaking(f) ==
    f = [k \in 0 .. Len(document) |->
            IF k = 0 THEN << >>
            ELSE IF document[k].kind \in Separators THEN f[k - 1] ELSE Append(f[k - 1], k)]

LEMMA SpeakingExists ==
  ASSUME document \in Documents
  PROVE  \E f : Speaking(f)
<1> DEFINE N == Len(document)
           U == Seq(Spots)
           base == << >>
           F == [k \in 1 .. N |-> [u \in U |-> IF document[k].kind \in Separators THEN u ELSE Append(u, k)]]
<1>1. N \in Nat /\ Spots = 1 .. N
  BY DocumentFacts
<1>2. \A u \in U : \A k \in 1 .. N : F[k][u] = IF document[k].kind \in Separators THEN u ELSE Append(u, k)
  OBVIOUS
<1>3. F \in [1 .. N -> [U -> U]] /\ base \in U
  <2>1. \A k \in 1 .. N : \A u \in U : Append(u, k) \in U
    BY <1>1, AppendProperties
  <2>2. base \in U
    BY EmptySeq
  <2> HIDE DEF U, N
  <2> QED BY <2>1, <2>2
<1> HIDE DEF F, N, U, base
<1>4a. PICK g : Iterates(g, N, U, base, F)
  BY <1>1, <1>3, Recursion
<1>4. g \in [0 .. N -> U] /\ g[0] = base /\ \A k \in 1 .. N : g[k] = F[k][g[k - 1]]
  BY <1>4a DEF Iterates
<1>5. \A k \in 1 .. N : g[k] = IF document[k].kind \in Separators THEN g[k - 1] ELSE Append(g[k - 1], k)
  <2> SUFFICES ASSUME NEW k \in 1 .. N
               PROVE  g[k] = IF document[k].kind \in Separators THEN g[k - 1] ELSE Append(g[k - 1], k)
    OBVIOUS
  <2>1. k - 1 \in 0 .. N
    BY <1>1
  <2> QED BY <1>2, <1>4, <2>1
<1>6. g = [k \in 0 .. N |-> IF k = 0 THEN << >>
                            ELSE IF document[k].kind \in Separators THEN g[k - 1] ELSE Append(g[k - 1], k)]
  <2>1. g = [k \in 0 .. N |-> g[k]] /\ g[0] = << >>
    BY <1>4 DEF base
  <2>2. \A k \in 0 .. N : k = 0 \/ k \in 1 .. N
    BY <1>1
  <2>3. \A k \in 0 .. N : g[k] = IF k = 0 THEN << >>
                        ELSE IF document[k].kind \in Separators THEN g[k - 1] ELSE Append(g[k - 1], k)
    BY <1>5, <2>1, <2>2
  <2> QED BY <2>1, <2>3
<1> QED BY <1>6 DEF Speaking, N

LEMMA SpokenFacts ==
  ASSUME document \in Documents
  PROVE  /\ Spoken(0) = << >>
         /\ \A k \in Spots :
              Spoken(k) = IF document[k].kind \in Separators THEN Spoken(k - 1) ELSE Append(Spoken(k - 1), k)
         /\ \A k \in 0 .. Len(document) : Spoken(k) \in Seq(Spots)
<1> DEFINE f == CHOOSE f : Speaking(f)
           N == Len(document)
           S == {k \in 0 .. N : f[k] \in Seq(Spots)}
<1>1. \A k : Spoken(k) = f[k]
  BY DEF Spoken, Speaking
<1>2. N \in Nat /\ Spots = 1 .. N
  BY DocumentFacts
<1>3. Speaking(f)
  BY SpeakingExists
<1> HIDE DEF f
<1>4. f = [k \in 0 .. N |-> IF k = 0 THEN << >>
                            ELSE IF document[k].kind \in Separators THEN f[k - 1] ELSE Append(f[k - 1], k)]
  BY <1>3 DEF Speaking
<1> HIDE DEF N
<1>5. f[0] = << >> /\ 0 \in 0 .. N
  BY <1>2, <1>4
<1>6. \A k \in 1 .. N : f[k] = IF document[k].kind \in Separators THEN f[k - 1] ELSE Append(f[k - 1], k)
  <2> SUFFICES ASSUME NEW k \in 1 .. N
               PROVE  f[k] = IF document[k].kind \in Separators THEN f[k - 1] ELSE Append(f[k - 1], k)
    OBVIOUS
  <2>1. k \in 0 .. N /\ k # 0
    BY <1>2
  <2> QED BY <1>4, <2>1
<1>7. \A k \in 0 .. N : k \in S
  <2>1. 0 \in S
    BY <1>5, EmptySeq
  <2>2. ASSUME NEW k \in 1 .. N, k - 1 \in S PROVE k \in S
    <3>1. f[k - 1] \in Seq(Spots) /\ k \in Spots /\ k \in 0 .. N
      BY <1>2, <2>2
    <3>2. Append(f[k - 1], k) \in Seq(Spots)
      BY <3>1, AppendProperties
    <3> QED BY <1>6, <3>1, <3>2
  <2> HIDE DEF S
  <2> QED BY <1>2, <2>1, <2>2, Climb
<1> QED BY <1>1, <1>2, <1>5, <1>6, <1>7 DEF N

-----------------------------------------------------------------------------
\* A chunk is a good one if it is of a bounded size, in one section.
ChunkRecords ==
    [path : Seq(Spots), blocks : Seq(Spots), parts : Seq(Parts), texts : Seq(Fenced), tokens : Int]

InSection(section, blocks) ==
    \A i \in DOMAIN blocks :
       /\ SeparatorsBefore(blocks[i]) = SeparatorsBefore(blocks[1])
       /\ EndsWith(section, SeparatorsBefore(blocks[i]))

GoodChunks ==
    {c \in ChunkRecords :
        /\ MinTokens = 0 \/ c.blocks # << >>
        /\ Bounded(Counted(c.texts), c.blocks, c.parts)
        /\ c.tokens <= Allowed(c.texts)
        /\ InSection(c.path, c.blocks)}

HeldIn(list) == FlattenSeq([c \in DOMAIN list |-> list[c].parts])

\* The blocks of the open group are texts of the section the next block is in.
Grouped ==
    \A i \in DOMAIN group :
       /\ group[i] < next /\ document[group[i]].kind \notin Separators
       /\ SeparatorsBefore(group[i]) = SeparatorsBefore(next)

PathKept == next <= Len(document) + 1 => EndsWith(path, SeparatorsBefore(next))

\* The inductive invariant of the chunker: the open group is what the chunks to
\* come are made of, so it has what they are to have.
ChunkingInv ==
    /\ document \in Documents
    /\ next \in 1 .. Len(document) + 2
    /\ path \in Seq(Spots) /\ group \in Seq(Spots) /\ chunks \in Seq(GoodChunks)
    /\ next = Len(document) + 2 => group = << >>
    /\ tokens = Sizes(group)
    /\ Bounded(tokens, group, PartsOf(group))
    /\ Grouped /\ PathKept
    /\ HeldIn(chunks) \o PartsOf(group) = PartsOf(Spoken(LookedAt))

LEMMA HeldFacts ==
  ASSUME document \in Documents, NEW list \in Seq(ChunkRecords)
  PROVE  /\ HeldIn(<< >>) = << >> /\ HeldIn(list) \in Seq(Parts)
         /\ \A c \in ChunkRecords : HeldIn(Append(list, c)) = HeldIn(list) \o c.parts
         /\ \A more \in Seq(ChunkRecords) : HeldIn(list \o more) = HeldIn(list) \o HeldIn(more)
<1> DEFINE texts(s) == [c \in DOMAIN s |-> s[c].parts]
<1>1. \A s : HeldIn(s) = FlattenSeq(texts(s))
  BY DEF HeldIn
<1>2. \A c \in ChunkRecords : c.parts \in Seq(Parts)
  BY DEF ChunkRecords
<1>3. ASSUME NEW s \in Seq(ChunkRecords) PROVE texts(s) \in Seq(Seq(Parts))
  <2>1. Len(s) \in Nat /\ DOMAIN s = 1 .. Len(s) /\ \A i \in DOMAIN s : s[i] \in ChunkRecords
    BY Places
  <2> QED BY <1>2, <2>1
<1>4. ASSUME NEW s \in Seq(ChunkRecords), NEW c \in ChunkRecords
      PROVE  texts(Append(s, c)) = Append(texts(s), c.parts)
  <2>0. Len(s) \in Nat /\ DOMAIN s = 1 .. Len(s)
    BY Places
  <2>1. /\ Append(s, c) \in Seq(ChunkRecords) /\ Len(Append(s, c)) = Len(s) + 1
        /\ Append(s, c)[Len(s) + 1] = c
        /\ \A i \in 1 .. Len(s) : Append(s, c)[i] = s[i]
    BY AppendProperties
  <2>2. DOMAIN Append(s, c) = 1 .. Len(s) + 1
    BY <2>1, Places
  <2> QED BY <2>0, <2>1, <2>2
<1>5. texts(<< >>) = << >>
  OBVIOUS
<1> HIDE DEF texts
<1>6. HeldIn(<< >>) = << >>
  <2>1. << >> \in Seq(Seq(Parts))
    BY EmptySeq
  <2> QED BY <1>1, <1>5, <2>1, FlattenFacts
<1>7. \A s \in Seq(ChunkRecords) : HeldIn(s) \in Seq(Parts)
  BY <1>1, <1>3, FlattenFacts
<1>8. ASSUME NEW s \in Seq(ChunkRecords), NEW c \in ChunkRecords
      PROVE  HeldIn(Append(s, c)) = HeldIn(s) \o c.parts
  <2>1. FlattenSeq(Append(texts(s), c.parts)) = FlattenSeq(texts(s)) \o c.parts
    BY <1>2, <1>3, FlattenFacts
  <2> QED BY <1>1, <1>4, <2>1
<1>9. ASSUME NEW more \in Seq(ChunkRecords) PROVE HeldIn(list \o more) = HeldIn(list) \o HeldIn(more)
  <2> DEFINE P == {s \in Seq(ChunkRecords) : HeldIn(list \o s) = HeldIn(list) \o HeldIn(s)}
  <2>1. << >> \in P
    <3>1. list \o << >> = list /\ << >> \in Seq(ChunkRecords)
      BY ConcatFacts
    <3>2. HeldIn(list) \o << >> = HeldIn(list)
      BY <1>7, ConcatFacts
    <3> QED BY <1>6, <3>1, <3>2
  <2>2. ASSUME NEW s \in Seq(ChunkRecords), NEW c \in ChunkRecords, s \in P PROVE Append(s, c) \in P
    <3>1. Append(s, c) \in Seq(ChunkRecords) /\ list \o Append(s, c) = Append(list \o s, c) /\ list \o s \in Seq(ChunkRecords)
      BY ConcatFacts
    <3>2. HeldIn(Append(list \o s, c)) = HeldIn(list \o s) \o c.parts /\ HeldIn(Append(s, c)) = HeldIn(s) \o c.parts
      BY <1>8, <3>1
    <3>3. HeldIn(list) \in Seq(Parts) /\ HeldIn(s) \in Seq(Parts) /\ c.parts \in Seq(Parts)
      BY <1>2, <1>7
    <3>4. (HeldIn(list) \o HeldIn(s)) \o c.parts = HeldIn(list) \o (HeldIn(s) \o c.parts)
      <4> DEFINE x == HeldIn(list)
                 y == HeldIn(s)
                 z == c.parts
      <4>1. x \in Seq(Parts) /\ y \in Seq(Parts) /\ z \in Seq(Parts)
        BY <3>3
      <4> HIDE DEF x, y, z, P, texts
      <4>2. (x \o y) \o z = x \o (y \o z)
        BY ONLY <4>1, Regrouped
      <4> QED BY <4>2 DEF x, y, z
    <3>5. HeldIn(list \o s) = HeldIn(list) \o HeldIn(s)
      BY <2>2
    <3> QED BY <3>1, <3>2, <3>4, <3>5
  <2> HIDE DEF P
  <2>3. Seq(ChunkRecords) \subseteq P
    BY <2>1, <2>2, Grow
  <2> QED BY <2>3 DEF P
<1> QED BY <1>6, <1>7, <1>8, <1>9

\* Closing the open group, which may be empty, makes one good chunk of it: the
\* texts it is joined from come to what the chunker has counted.
LEMMA ChunkGood ==
  ASSUME ChunkingInv, next <= Len(document) + 1, MinTokens = 0 \/ group # << >>
  PROVE  Chunk \in GoodChunks /\ Chunk.parts = PartsOf(group)
<1> DEFINE texts == [i \in DOMAIN group |-> Whole(group[i])]
           t == Combined(texts)
           x == [i \in DOMAIN texts |->
                    texts[i].chars + texts[i].fence.chars + (IF i = 1 THEN 0 ELSE 2)]
           y == [i \in DOMAIN texts |-> texts[i].words + texts[i].fence.words]
<1>1. document \in Documents /\ Len(group) \in Nat /\ DOMAIN group = 1 .. Len(group) /\ \A i \in DOMAIN group : group[i] \in Spots
  BY Places DEF ChunkingInv
<1>2. texts \in Seq(Fenced) /\ Len(texts) = Len(group) /\ DOMAIN texts = 1 .. Len(texts)
  BY <1>1, WholeFacts
<1>3. Counted(texts) = Sizes(group)
  <2>1. [i \in DOMAIN texts |-> Estimate(texts[i])] = [i \in DOMAIN group |-> Size(group[i])]
    BY DEF Size
  <2> QED BY <2>1 DEF Counted, Sizes
<1>4. tokens = Counted(texts)
  BY <1>3 DEF ChunkingInv
<1>5. Chunk = [path |-> path, blocks |-> group, parts |-> PartsOf(group), texts |-> texts, tokens |-> Chunk.tokens]
  BY DEF Chunk
<1>6. Chunk.tokens = tokens \/ Chunk.tokens = Estimate(t)
  BY DEF Chunk
<1> HIDE DEF texts
<1>7. Estimate(t) \in Int /\ Estimate(t) <= Allowed(texts)
  <2>1. CASE Len(texts) = 0
    <3>1. texts = << >>
      BY <1>2, <2>1, Places
    <3>2. x = << >>
      BY <3>1
    <3>3. t.chars = Sum(x)
      BY DEF Combined
    <3>4. Sum(<< >>) = 0
      BY EmptySeq, SumFacts
    <3> HIDE DEF x, t
    <3>5. Estimate(t) = 0
      BY <3>2, <3>3, <3>4 DEF Estimate
    <3>6. Counted(texts) \in Nat /\ Counted(texts) <= Allowed(texts)
      BY <1>2, AllowedFacts
    <3>7. Counted(texts) = 0
      <4>1. [i \in DOMAIN << >> |-> Estimate(<< >>[i])] = << >>
        OBVIOUS
      <4> QED BY <3>1, <3>4, <4>1 DEF Counted
    <3> QED BY <3>5, <3>6, <3>7
  <2>2. CASE Len(texts) >= 1
    <3>1. \A i \in DOMAIN texts : /\ texts[i].chars \in Nat /\ texts[i].words \in Nat
                                  /\ texts[i].fence.chars \in Nat /\ texts[i].fence.words \in Nat
      BY <1>2, Places DEF Fenced, Texts
    <3>2. x \in Seq(Nat) /\ y \in Seq(Nat) /\ Len(x) = Len(texts) /\ Len(y) = Len(texts)
      BY <1>2, <3>1
    <3>3. t = [chars |-> Sum(x), words |-> Sum(y)]
      BY DEF Combined
    <3>4. \A i \in 1 .. Len(texts) :
             /\ x[i] <= texts[i].chars + texts[i].fence.chars + (IF i = 1 THEN 0 ELSE 2)
             /\ y[i] <= texts[i].words + texts[i].fence.words
      BY <1>2, <3>1
    <3> HIDE DEF x, y, t
    <3>5. t.chars = Sum(x) /\ t.words = Sum(y) /\ Sum(x) \in Nat
      BY <3>2, <3>3, SumFacts
    <3>6. t.chars \in Int /\ t.chars <= Sum(x)
      BY <3>5
    <3> QED BY <1>2, <2>2, <3>2, <3>4, <3>5, <3>6, Recounted
  <2> QED BY <1>1, <1>2, <2>1, <2>2
<1>8. Counted(texts) \in Nat /\ Counted(texts) <= Allowed(texts)
  BY <1>2, AllowedFacts
<1> HIDE DEF t
<1>9. Chunk.tokens \in Int /\ Chunk.tokens <= Allowed(texts)
  BY <1>4, <1>6, <1>7, <1>8
<1>10. Chunk \in ChunkRecords
  <2>1. path \in Seq(Spots) /\ group \in Seq(Spots) /\ PartsOf(group) \in Seq(Parts)
    BY PartsOfFacts DEF ChunkingInv
  <2> QED BY <1>2, <1>5, <1>9, <2>1 DEF ChunkRecords
<1>11. InSection(path, group)
  BY Places DEF ChunkingInv, Grouped, PathKept, InSection
<1>12. Bounded(Counted(texts), group, PartsOf(group))
  BY <1>4 DEF ChunkingInv
<1> QED BY <1>5, <1>9, <1>10, <1>11, <1>12 DEF GoodChunks

LEMMA FlushedFacts ==
  ASSUME ChunkingInv, next <= Len(document) + 1
  PROVE  /\ Flushed \in Seq(GoodChunks)
         /\ \A list \in Seq(GoodChunks) : HeldIn(list \o Flushed) = HeldIn(list) \o PartsOf(group)
<1>0. document \in Documents /\ group \in Seq(Spots)
  BY DEF ChunkingInv
<1>1. \A list \in Seq(GoodChunks) : list \in Seq(ChunkRecords) /\ HeldIn(list) \in Seq(Parts)
  <2>1. \A list \in Seq(GoodChunks) : list \in Seq(ChunkRecords)
    BY DEF GoodChunks
  <2> QED BY <1>0, <2>1, HeldFacts
<1>2. CASE group = << >>
  <2>1. Flushed = << >> /\ PartsOf(group) = << >>
    BY <1>0, <1>2, PartsOfFacts DEF Flushed
  <2>2. \A list \in Seq(GoodChunks) : list \o << >> = list /\ HeldIn(list) \o << >> = HeldIn(list)
    BY <1>1, ConcatFacts
  <2>3. << >> \in Seq(GoodChunks)
    BY EmptySeq
  <2> QED BY <2>1, <2>2, <2>3
<1>3. CASE group # << >>
  <2>1. Chunk \in GoodChunks /\ Chunk.parts = PartsOf(group) /\ Chunk \in ChunkRecords
    BY <1>3, ChunkGood DEF GoodChunks
  <2>2. Flushed = <<Chunk>>
    BY <1>3 DEF Flushed
  <2>3. ASSUME NEW list \in Seq(GoodChunks) PROVE HeldIn(list \o <<Chunk>>) = HeldIn(list) \o PartsOf(group)
    <3>1. Append(list, Chunk) = list \o <<Chunk>>
      BY <1>1, <2>1, AppendIsConcat
    <3>2. HeldIn(Append(list, Chunk)) = HeldIn(list) \o Chunk.parts
      BY <1>0, <1>1, <2>1, HeldFacts
    <3> QED BY <2>1, <3>1, <3>2
  <2>4. <<Chunk>> \in Seq(GoodChunks)
    BY <2>1
  <2> QED BY <2>2, <2>3, <2>4
<1> QED BY <1>2, <1>3

\* So do the runs of a block that is too long.
LEMMA PiecesFacts ==
  ASSUME ChunkingInv, next \in Spots
  PROVE  Pieces(next) \in Seq(GoodChunks) /\ HeldIn(Pieces(next)) = TextOfBlock(next)
<1>0. document \in Documents /\ path \in Seq(Spots) /\ Len(document) \in Nat /\ next <= Len(document) + 1
  BY DocumentFacts DEF ChunkingInv
<1>1. Runs(next) \in Seq(ShortRuns) /\ FlattenSeq(Runs(next)) = TextOfBlock(next)
  BY <1>0, RunsFacts
<1>2. Len(Runs(next)) \in Nat /\ DOMAIN Runs(next) = 1 .. Len(Runs(next)) /\ \A i \in DOMAIN Runs(next) : Runs(next)[i] \in ShortRuns
  BY <1>1, Places
<1> DEFINE alone(q) == [k \in DOMAIN q |-> Alone(q[k])]
           piece(q) == [path |-> path, blocks |-> <<next>>, parts |-> q, texts |-> alone(q),
                        tokens |-> Estimate(Trimmed(q))]
<1>3. ASSUME NEW q \in ShortRuns PROVE piece(q) \in GoodChunks
  <2>1. q \in Seq(Parts) /\ q # << >> /\ (SizeOf(q) <= TargetTokens \/ Len(q) = 1)
    BY DEF ShortRuns
  <2>2. Len(q) \in Nat /\ Len(q) >= 1 /\ DOMAIN q = 1 .. Len(q) /\ \A k \in DOMAIN q : q[k] \in Parts
    BY <2>1, Places
  <2>3. alone(q) \in Seq(Fenced) /\ Len(alone(q)) = Len(q)
    BY <1>0, <2>2, PartFacts
  <2>4. Counted(alone(q)) = SizeOf(q)
    <3>1. [k \in DOMAIN alone(q) |-> Estimate(alone(q)[k])] = [k \in DOMAIN q |-> Estimate(Alone(q[k]))]
      OBVIOUS
    <3> QED BY <3>1 DEF Counted, SizeOf
  <2>5. \A k \in 1 .. Len(q) : /\ alone(q)[k].chars = Part(q[k]).chars /\ alone(q)[k].words = Part(q[k]).words
                               /\ alone(q)[k].fence.chars = 0 /\ alone(q)[k].fence.words = 0
                               /\ Part(q[k]).chars \in Nat /\ Part(q[k]).words \in Nat
                               /\ Part(q[k]).before \in Nat /\ Part(q[k]).after \in Nat
    BY <1>0, <2>2, PartFacts DEF Alone, PartsThere
  <2>6. /\ Trimmed(q).words = Sum(WordsIn(q))
        /\ Trimmed(q).chars = Sum(CharsIn(q)) - Part(q[1]).before - Part(q[Len(q)]).after
    <3>1. /\ Trimmed(q).chars = Joined(q).chars - Part(q[1]).before - Part(q[Len(q)]).after
          /\ Trimmed(q).words = Joined(q).words
      BY DEF Trimmed, Last
    <3> QED BY <1>0, <2>1, <3>1, JoinedFacts
  <2>7. Trimmed(q).chars \in Int /\ Trimmed(q).chars <= Sum(CharsIn(q))
    <3>1. Sum(CharsIn(q)) \in Nat /\ Part(q[1]).before \in Nat /\ Part(q[Len(q)]).after \in Nat
      <4>1. 1 \in 1 .. Len(q) /\ Len(q) \in 1 .. Len(q)
        BY <2>2
      <4>2. Sum(CharsIn(q)) \in Nat
        BY <1>0, <2>1, JoinedFacts
      <4> QED BY <2>5, <4>1, <4>2
    <3> QED BY <2>6, <3>1
  <2> DEFINE texts == alone(q)
  <2> HIDE DEF alone
  <2>8. Estimate(Trimmed(q)) \in Int /\ Estimate(Trimmed(q)) <= Allowed(texts)
    <3> DEFINE x == CharsIn(q)
               y == WordsIn(q)
    <3>1. /\ x \in Seq(Nat) /\ y \in Seq(Nat) /\ Len(x) = Len(q) /\ Len(y) = Len(q)
          /\ \A i \in 1 .. Len(q) : /\ x[i] <= Part(q[i]).chars + (IF i = 1 THEN 0 ELSE 1)
                                    /\ y[i] <= Part(q[i]).words
      BY <1>0, <2>1, JoinedFacts
    <3>2. \A i \in 1 .. Len(q) : x[i] \in Nat /\ y[i] \in Nat
      <4> HIDE DEF x, y
      <4> QED BY <3>1, Places
    <3>3. ASSUME NEW i \in 1 .. Len(q)
          PROVE  /\ x[i] <= texts[i].chars + texts[i].fence.chars + (IF i = 1 THEN 0 ELSE 2)
                 /\ y[i] <= texts[i].words + texts[i].fence.words
      <4> HIDE DEF x, y, texts
      <4>1. /\ texts[i].chars = Part(q[i]).chars /\ texts[i].words = Part(q[i]).words
            /\ texts[i].fence.chars = 0 /\ texts[i].fence.words = 0
            /\ Part(q[i]).chars \in Nat /\ Part(q[i]).words \in Nat
        BY <2>5 DEF texts
      <4>2. x[i] <= Part(q[i]).chars + (IF i = 1 THEN 0 ELSE 1) /\ y[i] <= Part(q[i]).words
        BY <3>1
      <4> QED BY <3>2, <4>1, <4>2
    <3>4. texts \in Seq(Fenced) /\ Len(texts) = Len(q) /\ Trimmed(q).words = Sum(y) /\ Trimmed(q).chars <= Sum(x)
      BY <2>3, <2>6, <2>7
    <3> HIDE DEF x, y, texts
    <3> QED BY <2>2, <2>7, <3>1, <3>3, <3>4, Recounted
  <2>9. piece(q) \in ChunkRecords
    BY <1>0, <2>1, <2>3, <2>8 DEF ChunkRecords
  <2>10. Bounded(Counted(alone(q)), <<next>>, q)
    BY <2>1, <2>4 DEF Bounded
  <2>11. InSection(path, <<next>>)
    BY <1>0 DEF InSection, ChunkingInv, PathKept
  <2> QED BY <2>8, <2>9, <2>10, <2>11 DEF GoodChunks
<1>4. Pieces(next) = [i \in 1 .. Len(Runs(next)) |-> piece(Runs(next)[i])]
  BY <1>2 DEF Pieces
<1>5. [c \in DOMAIN Pieces(next) |-> Pieces(next)[c].parts] = Runs(next)
  <2>1. Runs(next) = [i \in 1 .. Len(Runs(next)) |-> Runs(next)[i]]
    BY <1>1
  <2>2. DOMAIN Pieces(next) = 1 .. Len(Runs(next)) /\ \A i \in 1 .. Len(Runs(next)) : Pieces(next)[i].parts = Runs(next)[i]
    BY <1>4
  <2> QED BY <2>1, <2>2
<1>6. Pieces(next) \in Seq(GoodChunks)
  <2> HIDE DEF piece
  <2> QED BY <1>2, <1>3, <1>4
<1> QED BY <1>1, <1>5, <1>6 DEF HeldIn

-----------------------------------------------------------------------------
\* What has to hold of the next state, said of this one.
LEMMA DocumentStays ==
  ASSUME document' = document
  PROVE  Spots' = Spots /\ Parts' = Parts /\ GoodChunks' = GoodChunks
<1>1. Spots' = Spots /\ Parts' = Parts
  BY DEF Spots, Parts
<1> QED BY <1>1 DEF GoodChunks, ChunkRecords, InSection, Bounded, EndsWith, SeparatorsBefore

LEMMA Settled ==
  ASSUME document \in Documents, document' = document, next \in Spots, next' = next + 1,
         NEW p \in Seq(Spots), path' = p, NEW g \in Seq(Spots), group' = g,
         NEW cs \in Seq(GoodChunks), chunks' = cs,
         tokens' = Sizes(g), Bounded(Sizes(g), g, PartsOf(g)),
         \A i \in DOMAIN g : g[i] <= next /\ document[g[i]].kind \notin Separators /\ SeparatorsBefore(g[i]) = SeparatorsBefore(next + 1),
         EndsWith(p, SeparatorsBefore(next + 1)),
         HeldIn(cs) \o PartsOf(g) = PartsOf(Spoken(next))
  PROVE  ChunkingInv'
<1>0. Len(document) \in Nat /\ Spots = 1 .. Len(document)
  BY DocumentFacts
<1>1. next' \in 1 .. Len(document') + 2 /\ next' # Len(document') + 2
  BY <1>0
<1>2. path' \in Seq(Spots') /\ group' \in Seq(Spots') /\ chunks' \in Seq(GoodChunks')
  BY DocumentStays
<1>3. PartsOf(group)' = PartsOf(g) /\ HeldIn(chunks)' = HeldIn(cs)
  BY DEF PartsOf, TextOfBlock, HeldIn
<1>4. tokens' = Sizes(group)' /\ Bounded(tokens, group, PartsOf(group))'
  <2>1. Sizes(group)' = Sizes(g)
    <3>1. ASSUME NEW b PROVE Size(b)' = Size(b)
      BY ONLY document' = document DEF Size, Whole, Joined, TextOfBlock, Part
    <3>2. Sizes(group)' = Sum([i \in DOMAIN g |-> Size(g[i])'])
      BY DEF Sizes
    <3>3. [i \in DOMAIN g |-> Size(g[i])'] = [i \in DOMAIN g |-> Size(g[i])]
      BY <3>1
    <3> QED BY <3>2, <3>3 DEF Sizes
  <2> QED BY <1>3, <2>1 DEF Bounded
<1>5. Grouped'
  <2>1. \A i \in DOMAIN g : g[i] < next + 1
    <3> SUFFICES ASSUME NEW i \in DOMAIN g PROVE g[i] < next + 1
      OBVIOUS
    <3>1. g[i] \in Spots /\ g[i] <= next
      BY Places
    <3> QED BY <1>0, <3>1
  <2> QED BY <2>1 DEF Grouped, SeparatorsBefore
<1>6. PathKept'
  BY DEF PathKept, EndsWith, SeparatorsBefore
<1>7. LookedAt' = next
  BY <1>0 DEF LookedAt
<1>8. PartsOf(Spoken(LookedAt))' = PartsOf(Spoken(next))
  <2>1. ASSUME NEW k \in Nat, k = LookedAt' PROVE PartsOf(Spoken(LookedAt))' = PartsOf(Spoken(k))
    BY ONLY document' = document, <2>1 DEF PartsOf, Spoken, TextOfBlock
  <2>2. next \in Nat
    BY <1>0
  <2> QED BY <1>7, <2>1, <2>2
<1> QED BY <1>1, <1>2, <1>3, <1>4, <1>5, <1>6, <1>8 DEF ChunkingInv

\* What the invariant says of the block to look at, and the block's own facts.
LEMMA NextFacts ==
  ASSUME ChunkingInv, next <= Len(document)
  PROVE  /\ next \in Spots /\ document \in Documents
         /\ HeldIn(chunks) \o PartsOf(group) = PartsOf(Spoken(next - 1))
         /\ HeldIn(chunks) \in Seq(Parts) /\ PartsOf(group) \in Seq(Parts)
         /\ TextOfBlock(next) \in Seq(Parts)
         /\ PartsOf(<<next>>) = TextOfBlock(next)
         /\ Size(next) \in Nat /\ Sizes(<<next>>) = Size(next)
         /\ tokens \in Nat /\ tokens = Sizes(group)
         /\ EndsWith(path, SeparatorsBefore(next))
<1>0. document \in Documents /\ Len(document) \in Nat /\ Spots = 1 .. Len(document) /\ next \in Spots
  BY DocumentFacts DEF ChunkingInv
<1>1. LookedAt = next - 1
  BY <1>0 DEF LookedAt
<1>2. HeldIn(chunks) \in Seq(Parts)
  BY <1>0, HeldFacts DEF ChunkingInv, GoodChunks
<1>3. PartsOf(group) \in Seq(Parts)
  BY <1>0, PartsOfFacts DEF ChunkingInv
<1>4. TextOfBlock(next) \in Seq(Parts) /\ Size(next) \in Nat
  BY <1>0, TextFacts, WholeFacts
<1>5. PartsOf(<<next>>) = TextOfBlock(next)
  <2>1. << >> \in Seq(Spots) /\ <<next>> = Append(<< >>, next)
    BY <1>0
  <2>2. PartsOf(<<next>>) = << >> \o TextOfBlock(next)
    BY <1>0, <2>1, PartsOfFacts
  <2> QED BY <1>4, <2>2, ConcatFacts
<1>6. tokens \in Nat /\ Sizes(<<next>>) = Size(next)
  BY <1>0, SizesFacts DEF ChunkingInv
<1>7. EndsWith(path, SeparatorsBefore(next))
  BY <1>0 DEF ChunkingInv, PathKept
<1> QED BY <1>0, <1>1, <1>2, <1>3, <1>4, <1>5, <1>6, <1>7 DEF ChunkingInv

\* A block that is no separator is spoken, and the section goes on.
LEMMA TextNext ==
  ASSUME ChunkingInv, next <= Len(document), document[next].kind \notin Separators
  PROVE  /\ PartsOf(Spoken(next)) = PartsOf(Spoken(next - 1)) \o TextOfBlock(next)
         /\ SeparatorsBefore(next + 1) = SeparatorsBefore(next)
         /\ \A i \in DOMAIN group : group[i] <= next /\ document[group[i]].kind \notin Separators /\ SeparatorsBefore(group[i]) = SeparatorsBefore(next + 1)
<1>0. document \in Documents /\ Len(document) \in Nat /\ Spots = 1 .. Len(document) /\ next \in Spots
  BY DocumentFacts DEF ChunkingInv
<1>1. Spoken(next) = Append(Spoken(next - 1), next) /\ Spoken(next - 1) \in Seq(Spots)
  <2>1. next - 1 \in 0 .. Len(document)
    BY <1>0
  <2> QED BY <1>0, <2>1, SpokenFacts
<1>2. PartsOf(Spoken(next)) = PartsOf(Spoken(next - 1)) \o TextOfBlock(next)
  BY <1>0, <1>1, PartsOfFacts
<1>3. SeparatorsBefore(next + 1) = SeparatorsBefore(next)
  <2>1. \A h : h \in 1 .. (next + 1) - 1 <=> h \in 1 .. next - 1 \/ h = next
    BY <1>0
  <2> QED BY <2>1 DEF SeparatorsBefore
<1>4. \A i \in DOMAIN group : group[i] <= next
  <2> SUFFICES ASSUME NEW i \in DOMAIN group PROVE group[i] <= next
    OBVIOUS
  <2>1. group[i] \in Spots /\ group[i] < next
    BY Places DEF ChunkingInv, Grouped
  <2> QED BY <1>0, <2>1
<1> QED BY <1>2, <1>3, <1>4 DEF ChunkingInv, Grouped

LEMMA KeepStep ==
  ASSUME ChunkingInv, next <= Len(document), document[next].kind \notin Separators,
         document' = document, next' = next + 1, Keep,
         \/ tokens + Size(next) <= MaxTokens \/ tokens + Size(next) <= TargetTokens
         \/ tokens + Size(next) < MaxTokens + MinTokens
  PROVE  ChunkingInv'
<1> DEFINE g == Append(group, next)
<1>0. group \in Seq(Spots) /\ path \in Seq(Spots) /\ chunks \in Seq(GoodChunks)
  BY DEF ChunkingInv
<1>1. path' = path /\ group' = g /\ chunks' = chunks /\ tokens' = tokens + Size(next)
  BY DEF Keep
<1>2. /\ g \in Seq(Spots) /\ Len(g) = Len(group) + 1 /\ g[Len(group) + 1] = next
      /\ \A i \in 1 .. Len(group) : g[i] = group[i]
  BY <1>0, NextFacts, AppendProperties
<1>3. PartsOf(g) = PartsOf(group) \o TextOfBlock(next)
  BY <1>0, NextFacts, PartsOfFacts
<1>4. Sizes(g) = tokens + Size(next)
  BY <1>0, NextFacts, SizesFacts
<1>5. Bounded(Sizes(g), g, PartsOf(g))
  BY <1>4 DEF Bounded
<1>6. HeldIn(chunks) \o PartsOf(g) = PartsOf(Spoken(next))
  <2> DEFINE x == HeldIn(chunks)
             y == PartsOf(group)
             z == TextOfBlock(next)
  <2>1. x \in Seq(Parts) /\ y \in Seq(Parts) /\ z \in Seq(Parts)
    BY NextFacts
  <2>2. x \o y = PartsOf(Spoken(next - 1))
    BY NextFacts
  <2> HIDE DEF x, y, z, g
  <2>3. x \o (y \o z) = (x \o y) \o z
    BY ONLY <2>1, Regrouped
  <2>4. HeldIn(chunks) \o PartsOf(g) = x \o (y \o z)
    BY <1>3 DEF x, y, z
  <2>5. (x \o y) \o z = PartsOf(Spoken(next))
    BY <2>2, TextNext DEF z
  <2> QED BY <2>3, <2>4, <2>5
<1>7. \A i \in DOMAIN g : g[i] <= next /\ document[g[i]].kind \notin Separators /\ SeparatorsBefore(g[i]) = SeparatorsBefore(next + 1)
  <2> SUFFICES ASSUME NEW i \in DOMAIN g
               PROVE  g[i] <= next /\ document[g[i]].kind \notin Separators /\ SeparatorsBefore(g[i]) = SeparatorsBefore(next + 1)
    OBVIOUS
  <2> HIDE DEF g
  <2>1. Len(group) \in Nat /\ DOMAIN group = 1 .. Len(group) /\ DOMAIN g = 1 .. Len(g)
    BY <1>0, <1>2, Places
  <2>2. i = Len(group) + 1 \/ i \in DOMAIN group
    BY <1>2, <2>1
  <2>3. CASE i = Len(group) + 1
    <3>1. next <= next
      BY DocumentFacts, NextFacts
    <3> QED BY <1>2, <2>3, <3>1, TextNext
  <2>4. CASE i \in DOMAIN group
    BY <1>2, <2>1, <2>4, TextNext
  <2> QED BY <2>2, <2>3, <2>4
<1>8. EndsWith(path, SeparatorsBefore(next + 1))
  BY NextFacts, TextNext
<1> HIDE DEF g
<1> QED BY <1>0, <1>1, <1>2, <1>4, <1>5, <1>6, <1>7, <1>8, NextFacts, Settled

\* The open group is closed, as cs, and the block opens the next one.
LEMMA OpenStep ==
  ASSUME ChunkingInv, next <= Len(document), document[next].kind \notin Separators,
         document' = document, next' = next + 1, path' = path,
         NEW cs \in Seq(GoodChunks), chunks' = cs, HeldIn(cs) = HeldIn(chunks) \o PartsOf(group),
         group' = <<next>>, tokens' = Size(next),
         \/ Size(next) <= MaxTokens \/ document[next].kind \in {"table", "list", "item"}
  PROVE  ChunkingInv'
<1> DEFINE g == <<next>>
<1>0. path \in Seq(Spots) /\ g \in Seq(Spots) /\ Len(g) = 1 /\ DOMAIN g = {1} /\ g[1] = next
  BY NextFacts DEF ChunkingInv
<1>1. group' = g /\ PartsOf(g) = TextOfBlock(next) /\ tokens' = Sizes(g) /\ Sizes(g) = Size(next)
  BY NextFacts
<1>2. Bounded(Sizes(g), g, PartsOf(g))
  BY <1>0, <1>1 DEF Bounded
<1>3. HeldIn(cs) \o PartsOf(g) = PartsOf(Spoken(next))
  BY <1>1, NextFacts, TextNext
<1>4. \A i \in DOMAIN g : g[i] <= next /\ document[g[i]].kind \notin Separators /\ SeparatorsBefore(g[i]) = SeparatorsBefore(next + 1)
  <2>1. next <= next
    BY DocumentFacts, NextFacts
  <2> QED BY <1>0, <2>1, TextNext
<1>5. EndsWith(path, SeparatorsBefore(next + 1))
  BY NextFacts, TextNext
<1> HIDE DEF g
<1> QED BY <1>0, <1>1, <1>2, <1>3, <1>4, <1>5, NextFacts, Settled

\* The same, with the open group flushed.
LEMMA StartStep ==
  ASSUME ChunkingInv, next <= Len(document), document[next].kind \notin Separators,
         document' = document, next' = next + 1, path' = path, StartWith(<<next>>),
         \/ Size(next) <= MaxTokens \/ document[next].kind \in {"table", "list", "item"}
  PROVE  ChunkingInv'
<1>0. chunks \in Seq(GoodChunks) /\ Len(document) \in Nat
  BY NextFacts, DocumentFacts DEF ChunkingInv
<1>1. next <= Len(document) + 1
  BY <1>0 DEF ChunkingInv
<1>2. chunks \o Flushed \in Seq(GoodChunks) /\ HeldIn(chunks \o Flushed) = HeldIn(chunks) \o PartsOf(group)
  BY <1>0, <1>1, FlushedFacts, ConcatProperties
<1>3. chunks' = chunks \o Flushed /\ group' = <<next>> /\ tokens' = Size(next)
  BY NextFacts DEF StartWith
<1> QED BY <1>2, <1>3, OpenStep

\* A separator, or a block in pieces: the open group is closed and none opened.
LEMMA CloseStep ==
  ASSUME ChunkingInv, next <= Len(document), document' = document, next' = next + 1,
         group' = << >>, tokens' = 0,
         NEW p \in Seq(Spots), path' = p, EndsWith(p, SeparatorsBefore(next + 1)),
         NEW cs \in Seq(GoodChunks), chunks' = cs, HeldIn(cs) = PartsOf(Spoken(next))
  PROVE  ChunkingInv'
<1>1. << >> \in Seq(Spots) /\ PartsOf(<< >>) = << >> /\ Sizes(<< >>) = 0
  BY NextFacts, EmptySeq, PartsOfFacts, SizesFacts
<1>2. Bounded(Sizes(<< >>), << >>, PartsOf(<< >>))
  BY <1>1, TokensAssumption DEF Bounded
<1>3. HeldIn(cs) \o PartsOf(<< >>) = PartsOf(Spoken(next))
  <2>1. HeldIn(cs) \in Seq(Parts)
    BY NextFacts, HeldFacts DEF GoodChunks
  <2> QED BY <1>1, <2>1, ConcatFacts
<1>4. \A i \in DOMAIN << >> : << >>[i] <= next /\ document[<< >>[i]].kind \notin Separators /\ SeparatorsBefore(<< >>[i]) = SeparatorsBefore(next + 1)
  OBVIOUS
<1> QED BY <1>1, <1>2, <1>3, <1>4, NextFacts, Settled

-----------------------------------------------------------------------------
LEMMA ChunkingStarts ==
  ASSUME ChunkingInit
  PROVE  ChunkingInv
<1>0. document \in Documents /\ next = 1 /\ path = << >> /\ group = << >> /\ tokens = 0 /\ chunks = << >>
  BY DEF ChunkingInit
<1>1. Len(document) \in Nat /\ Spots = 1 .. Len(document)
  BY <1>0, DocumentFacts
<1>2. << >> \in Seq(Spots) /\ << >> \in Seq(GoodChunks) /\ << >> \in Seq(ChunkRecords)
  BY EmptySeq
<1>3. PartsOf(<< >>) = << >> /\ Sizes(<< >>) = 0 /\ HeldIn(<< >>) = << >>
  BY <1>0, <1>2, PartsOfFacts, SizesFacts, HeldFacts
<1>4. Bounded(0, << >>, << >>)
  BY <1>3, TokensAssumption DEF Bounded
<1>5. LookedAt = 0 /\ Spoken(0) = << >>
  <2>1. LookedAt = 0
    BY <1>0, <1>1 DEF LookedAt
  <2> QED BY <1>0, <2>1, SpokenFacts
<1>6. HeldIn(chunks) \o PartsOf(group) = PartsOf(Spoken(LookedAt))
  <2>1. << >> \o << >> = << >>
    BY EmptySeq, ConcatEmptySeq
  <2> QED BY <1>0, <1>3, <1>5, <2>1
<1>7. Grouped /\ PathKept
  <2>1. SeparatorsBefore(1) = {}
    BY DEF SeparatorsBefore
  <2> QED BY <1>0, <2>1 DEF Grouped, PathKept, EndsWith
<1>8. next \in 1 .. Len(document) + 2 /\ next # Len(document) + 2
  BY <1>0, <1>1
<1> QED BY <1>0, <1>2, <1>3, <1>4, <1>6, <1>7, <1>8 DEF ChunkingInv

\* What the actions have in common.
LEMMA BlockFacts ==
  ASSUME ChunkingInv, NEW kinds, Block(kinds)
  PROVE  /\ next <= Len(document) /\ document[next].kind \in kinds
         /\ document' = document /\ next' = next + 1 /\ next \in Spots
         /\ next <= Len(document) + 1 /\ next \in Nat /\ Len(document) \in Nat
         /\ chunks \in Seq(GoodChunks) /\ path \in Seq(Spots)
<1>1. next <= Len(document) /\ document[next].kind \in kinds /\ document' = document /\ next' = next + 1
  BY DEF Block
<1>2. Len(document) \in Nat /\ next \in 1 .. Len(document) + 2
  BY DocumentFacts DEF ChunkingInv
<1> QED BY <1>1, <1>2, NextFacts DEF ChunkingInv

\* A heading or the end of a page is not spoken, and the section that follows is its own.
LEMMA SeparatorNext ==
  ASSUME ChunkingInv, next <= Len(document), document[next].kind \in Separators
  PROVE  /\ Spoken(next) = Spoken(next - 1)
         /\ SeparatorsBefore(next + 1) = SeparatorsBefore(next) \cup {next}
         /\ \A h \in SeparatorsBefore(next + 1) : (\A g \in SeparatorsBefore(next + 1) : g <= h) => h = next
<1>0. document \in Documents /\ Len(document) \in Nat /\ Spots = 1 .. Len(document) /\ next \in Spots
  BY DocumentFacts DEF ChunkingInv
<1>1. Spoken(next) = Spoken(next - 1)
  BY <1>0, SpokenFacts
<1>2. SeparatorsBefore(next + 1) = SeparatorsBefore(next) \cup {next}
  <2>1. \A h : h \in 1 .. (next + 1) - 1 <=> h \in 1 .. next - 1 \/ h = next
    BY <1>0
  <2> QED BY <2>1 DEF SeparatorsBefore
<1>3. ASSUME NEW h \in SeparatorsBefore(next + 1), \A g \in SeparatorsBefore(next + 1) : g <= h PROVE h = next
  <2>1. next <= h
    BY <1>2, <1>3
  <2>2. h = next \/ h \in 1 .. next - 1
    BY <1>2 DEF SeparatorsBefore
  <2> QED BY <1>0, <2>1, <2>2
<1> QED BY <1>1, <1>2, <1>3

LEMMA FlushStep ==
  ASSUME ChunkingInv, next <= Len(document), document[next].kind \in Separators,
         document' = document, next' = next + 1, StartWith(<< >>),
         NEW p \in Seq(Spots), path' = p, EndsWith(p, SeparatorsBefore(next + 1))
  PROVE  ChunkingInv'
<1>0. chunks \in Seq(GoodChunks) /\ Len(document) \in Nat
  BY NextFacts, DocumentFacts DEF ChunkingInv
<1>1. next <= Len(document) + 1
  BY <1>0 DEF ChunkingInv
<1>2. chunks \o Flushed \in Seq(GoodChunks) /\ HeldIn(chunks \o Flushed) = HeldIn(chunks) \o PartsOf(group)
  BY <1>0, <1>1, FlushedFacts, ConcatProperties
<1>3. group' = << >> /\ tokens' = 0 /\ chunks' = chunks \o Flushed
  <2>1. Sizes(<< >>) = 0
    BY NextFacts, EmptySeq, SizesFacts
  <2> QED BY <2>1 DEF StartWith
<1>4. HeldIn(chunks \o Flushed) = PartsOf(Spoken(next))
  BY <1>2, NextFacts, SeparatorNext
<1> QED BY <1>2, <1>3, <1>4, CloseStep

LEMMA HeadingKeeps ==
  ASSUME ChunkingInv, Heading
  PROVE  ChunkingInv'
<1>0. Block({"heading"}) /\ path' = Append(Above(document[next].level), next) /\ StartWith(<< >>)
  BY DEF Heading
<1>1. /\ next <= Len(document) /\ document[next].kind = "heading" /\ document[next].kind \in Separators
      /\ document' = document /\ next' = next + 1 /\ next \in Spots /\ path \in Seq(Spots)
  BY <1>0, BlockFacts DEF Separators
<1> DEFINE above == Above(document[next].level)
<1>2. above \in Seq(Spots)
  <2>1. document[next].level \in Nat /\ Len(path) \in Nat
    BY <1>1, DocumentFacts, Places DEF ChunkingInv
  <2>2. \A k \in Int : k <= Len(path) => SubSeq(path, 1, k) \in Seq(Spots)
    <3> SUFFICES ASSUME NEW k \in Int, k <= Len(path) PROVE SubSeq(path, 1, k) \in Seq(Spots)
      OBVIOUS
    <3>1. \A i \in 1 .. k : path[i] \in Spots
      BY <1>1, <2>1, Places
    <3> QED BY <1>1, <2>1, <3>1
  <2> QED BY <2>1, <2>2 DEF Above
<1> HIDE DEF above
<1>3. Append(above, next) \in Seq(Spots) /\ Append(above, next) # << >> /\ Last(Append(above, next)) = next
  <2>1. /\ Append(above, next) \in Seq(Spots) /\ Len(Append(above, next)) = Len(above) + 1
        /\ Append(above, next)[Len(above) + 1] = next /\ Len(above) \in Nat
    BY <1>1, <1>2, AppendProperties, LenProperties
  <2>2. Append(above, next) # << >>
    BY <2>1, Places
  <2> QED BY <2>1, <2>2 DEF Last
<1>4. EndsWith(Append(above, next), SeparatorsBefore(next + 1))
  BY <1>1, <1>3, SeparatorNext DEF EndsWith
<1>5. path' = Append(above, next)
  BY <1>0 DEF above
<1> QED BY <1>0, <1>1, <1>3, <1>4, <1>5, FlushStep

LEMMA NextPageKeeps ==
  ASSUME ChunkingInv, NextPage
  PROVE  ChunkingInv'
<1>0. Block({"page"}) /\ path' = << >> /\ StartWith(<< >>)
  BY DEF NextPage
<1>1. /\ next <= Len(document) /\ document[next].kind = "page" /\ document[next].kind \in Separators
      /\ document' = document /\ next' = next + 1
  BY <1>0, BlockFacts DEF Separators
<1>2. EndsWith(<< >>, SeparatorsBefore(next + 1))
  BY <1>1, SeparatorNext DEF EndsWith
<1>3. << >> \in Seq(Spots)
  BY EmptySeq
<1> QED BY <1>0, <1>1, <1>2, <1>3, FlushStep

LEMMA OversizedKeeps ==
  ASSUME ChunkingInv, Oversized
  PROVE  ChunkingInv'
<1>0. /\ Block({"code", "paragraph"}) /\ chunks' = (chunks \o Flushed) \o Pieces(next)
      /\ group' = << >> /\ tokens' = 0 /\ path' = path
  BY DEF Oversized
<1>1. /\ next <= Len(document) /\ document[next].kind \notin Separators /\ next <= Len(document) + 1
      /\ document' = document /\ next' = next + 1 /\ next \in Spots /\ path \in Seq(Spots) /\ chunks \in Seq(GoodChunks)
  <2>1. /\ next <= Len(document) /\ document[next].kind \in {"code", "paragraph"} /\ next <= Len(document) + 1
        /\ document' = document /\ next' = next + 1 /\ next \in Spots /\ path \in Seq(Spots) /\ chunks \in Seq(GoodChunks)
    BY <1>0, BlockFacts
  <2> QED BY <2>1 DEF Separators
<1> DEFINE most == chunks \o Flushed
           pieces == Pieces(next)
<1>2. most \in Seq(GoodChunks) /\ HeldIn(most) = PartsOf(Spoken(next - 1))
  <2>1. most \in Seq(GoodChunks) /\ HeldIn(most) = HeldIn(chunks) \o PartsOf(group)
    BY <1>1, FlushedFacts, ConcatProperties
  <2> QED BY <1>1, <2>1, NextFacts
<1>3. pieces \in Seq(GoodChunks) /\ HeldIn(pieces) = TextOfBlock(next)
  BY <1>1, PiecesFacts
<1> HIDE DEF most, pieces
<1>4. most \o pieces \in Seq(GoodChunks)
  BY <1>2, <1>3, ConcatProperties
<1>5. HeldIn(most \o pieces) = PartsOf(Spoken(next))
  <2>1. most \in Seq(ChunkRecords) /\ pieces \in Seq(ChunkRecords) /\ document \in Documents
    BY <1>2, <1>3 DEF GoodChunks, ChunkingInv
  <2>2. HeldIn(most \o pieces) = HeldIn(most) \o HeldIn(pieces)
    BY <2>1, HeldFacts
  <2> QED BY <1>1, <1>2, <1>3, <2>2, TextNext
<1>6. EndsWith(path, SeparatorsBefore(next + 1))
  BY <1>1, NextFacts, TextNext
<1>7. chunks' = most \o pieces
  BY <1>0 DEF most, pieces
<1> QED BY <1>0, <1>1, <1>4, <1>5, <1>6, <1>7, CloseStep

LEMMA CodeKeeps ==
  ASSUME ChunkingInv, Code
  PROVE  ChunkingInv'
<1>0. Block({"code"}) /\ Size(next) <= MaxTokens
  BY DEF Code
<1>1. /\ next <= Len(document) /\ document[next].kind \notin Separators
      /\ document' = document /\ next' = next + 1
  BY <1>0, BlockFacts DEF Separators
<1>2. tokens \in Nat /\ Size(next) \in Nat /\ MaxTokens \in Nat
  BY <1>1, NextFacts, TokensAssumption
<1>3. CASE tokens + Size(next) > MaxTokens
  <2>1. StartWith(<<next>>) /\ path' = path
    BY <1>3 DEF Code
  <2> QED BY <1>0, <1>1, <2>1, StartStep
<1>4. CASE ~(tokens + Size(next) > MaxTokens)
  <2>1. Keep /\ tokens + Size(next) <= MaxTokens
    BY <1>2, <1>4 DEF Code
  <2> QED BY <1>1, <2>1, KeepStep
<1> QED BY <1>3, <1>4

LEMMA TableOrListKeeps ==
  ASSUME ChunkingInv, TableOrList
  PROVE  ChunkingInv'
<1>0. Block({"table", "list"})
  BY DEF TableOrList
<1>1. /\ next <= Len(document) /\ document[next].kind \notin Separators
      /\ document[next].kind \in {"table", "list", "item"}
      /\ document' = document /\ next' = next + 1
  <2>1. next <= Len(document) /\ document[next].kind \in {"table", "list"} /\ document' = document /\ next' = next + 1
    BY <1>0, BlockFacts
  <2> QED BY <2>1 DEF Separators
<1>2. tokens \in Nat /\ Size(next) \in Nat /\ MaxTokens \in Nat
  BY <1>1, NextFacts, TokensAssumption
<1>3. CASE tokens + Size(next) > MaxTokens
  <2>1. StartWith(<<next>>) /\ path' = path
    BY <1>3 DEF TableOrList
  <2> QED BY <1>1, <2>1, StartStep
<1>4. CASE ~(tokens + Size(next) > MaxTokens)
  <2>1. Keep /\ tokens + Size(next) <= MaxTokens
    BY <1>2, <1>4 DEF TableOrList
  <2> QED BY <1>1, <2>1, KeepStep
<1> QED BY <1>3, <1>4

LEMMA ItemKeeps ==
  ASSUME ChunkingInv, Item
  PROVE  ChunkingInv'
<1>0. Block({"item"})
  BY DEF Item
<1>1. /\ next <= Len(document) /\ document[next].kind \notin Separators
      /\ document[next].kind \in {"table", "list", "item"}
      /\ document' = document /\ next' = next + 1
  <2>1. next <= Len(document) /\ document[next].kind = "item" /\ document' = document /\ next' = next + 1
    BY <1>0, BlockFacts
  <2> QED BY <2>1 DEF Separators
<1>2. tokens \in Nat /\ Size(next) \in Nat /\ TargetTokens \in Nat
  BY <1>1, NextFacts, TokensAssumption
<1>3. CASE tokens + Size(next) > TargetTokens
  <2>1. StartWith(<<next>>) /\ path' = path
    BY <1>3 DEF Item
  <2> QED BY <1>1, <2>1, StartStep
<1>4. CASE ~(tokens + Size(next) > TargetTokens)
  <2>1. Keep /\ tokens + Size(next) <= TargetTokens
    BY <1>2, <1>4 DEF Item
  <2> QED BY <1>1, <2>1, KeepStep
<1> QED BY <1>3, <1>4

LEMMA ParagraphKeeps ==
  ASSUME ChunkingInv, Paragraph
  PROVE  ChunkingInv'
<1>0. Block({"paragraph"}) /\ Size(next) <= MaxTokens
  BY DEF Paragraph
<1>1. /\ next <= Len(document) /\ document[next].kind \notin Separators /\ next <= Len(document) + 1
      /\ document' = document /\ next' = next + 1 /\ chunks \in Seq(GoodChunks)
  BY <1>0, BlockFacts DEF Separators
<1>2. tokens \in Nat /\ Size(next) \in Nat /\ TargetTokens \in Nat /\ MinTokens \in Nat /\ MaxTokens \in Nat
  BY <1>1, NextFacts, TokensAssumption
<1>3. CASE tokens + Size(next) > TargetTokens /\ tokens >= MinTokens
  <2>1. chunks' = Append(chunks, Chunk) /\ group' = <<next>> /\ tokens' = Size(next) /\ path' = path
    BY <1>3 DEF Paragraph
  <2>2. MinTokens = 0 \/ group # << >>
    <3> SUFFICES ASSUME group = << >> PROVE MinTokens = 0
      OBVIOUS
    <3>1. Sizes(<< >>) = 0
      BY EmptySeq, SizesFacts DEF ChunkingInv
    <3>2. tokens = 0
      BY <1>1, <3>1, NextFacts
    <3> QED BY <1>2, <1>3, <3>2
  <2>3. Chunk \in GoodChunks /\ Chunk.parts = PartsOf(group) /\ Chunk \in ChunkRecords
    BY <1>1, <2>2, ChunkGood DEF GoodChunks
  <2>4. Append(chunks, Chunk) \in Seq(GoodChunks)
    BY <1>1, <2>3, AppendProperties
  <2>5. HeldIn(Append(chunks, Chunk)) = HeldIn(chunks) \o PartsOf(group)
    <3>1. chunks \in Seq(ChunkRecords) /\ document \in Documents
      BY <1>1 DEF GoodChunks, ChunkingInv
    <3> QED BY <2>3, <3>1, HeldFacts
  <2> QED BY <1>0, <1>1, <2>1, <2>4, <2>5, OpenStep
<1>4. CASE ~(tokens + Size(next) > TargetTokens /\ tokens >= MinTokens)
  <2>1. Keep
    BY <1>4 DEF Paragraph
  <2>2. tokens + Size(next) <= TargetTokens \/ tokens + Size(next) < MaxTokens + MinTokens
    BY <1>0, <1>2, <1>4
  <2> QED BY <1>1, <2>1, <2>2, KeepStep
<1> QED BY <1>3, <1>4

LEMMA EndKeeps ==
  ASSUME ChunkingInv, End
  PROVE  ChunkingInv'
<1>0. /\ next = Len(document) + 1 /\ next' = next + 1 /\ document' = document /\ path' = path
      /\ StartWith(<< >>)
  BY DEF End
<1>1. /\ document \in Documents /\ Len(document) \in Nat /\ Spots = 1 .. Len(document)
      /\ chunks \in Seq(GoodChunks) /\ path \in Seq(Spots) /\ group \in Seq(Spots)
  BY DocumentFacts DEF ChunkingInv
<1> DEFINE cs == chunks \o Flushed
<1>2. cs \in Seq(GoodChunks) /\ HeldIn(cs) = HeldIn(chunks) \o PartsOf(group)
  <2>1. next <= Len(document) + 1
    BY <1>0, <1>1
  <2> QED BY <1>1, <2>1, FlushedFacts, ConcatProperties
<1>3. group' = << >> /\ tokens' = 0 /\ chunks' = cs
  <2>1. Sizes(<< >>) = 0
    BY <1>1, EmptySeq, SizesFacts
  <2> QED BY <1>0, <2>1 DEF StartWith
<1> HIDE DEF cs
<1>4. << >> \in Seq(Spots) /\ PartsOf(<< >>) = << >>
  BY <1>1, EmptySeq, PartsOfFacts
<1>5. PartsOf(group)' = << >> /\ HeldIn(chunks)' = HeldIn(cs)
  <2>1. PartsOf(group)' = PartsOf(<< >>) /\ HeldIn(chunks)' = HeldIn(cs)
    BY <1>0, <1>3 DEF PartsOf, TextOfBlock, HeldIn
  <2> QED BY <1>4, <2>1
<1>6. tokens' = Sizes(group)' /\ Bounded(tokens, group, PartsOf(group))'
  <2>1. Sizes(group)' = 0
    <3>1. Sizes(group)' = Sum([i \in DOMAIN << >> |-> Size(<< >>[i])'])
      BY <1>3 DEF Sizes
    <3>2. [i \in DOMAIN << >> |-> Size(<< >>[i])'] = << >>
      OBVIOUS
    <3>3. Sum(<< >>) = 0
      BY EmptySeq, SumFacts
    <3> QED BY <3>1, <3>2, <3>3
  <2> QED BY <1>3, <2>1, TokensAssumption DEF Bounded
<1>7. HeldIn(cs) \o << >> = PartsOf(Spoken(LookedAt))
  <2>1. HeldIn(cs) \in Seq(Parts)
    <3>1. cs \in Seq(ChunkRecords)
      BY <1>2 DEF GoodChunks
    <3> QED BY <1>1, <3>1, HeldFacts
  <2>2. HeldIn(cs) \o << >> = HeldIn(cs)
    BY <2>1, ConcatFacts
  <2> QED BY <1>2, <2>2 DEF ChunkingInv
<1>8. PartsOf(Spoken(LookedAt))' = PartsOf(Spoken(LookedAt))
  <2>1. LookedAt = Len(document) /\ LookedAt' = Len(document)
    BY <1>0, <1>1 DEF LookedAt
  <2>2. ASSUME NEW k \in Nat, k = LookedAt' PROVE PartsOf(Spoken(LookedAt))' = PartsOf(Spoken(k))
    <3>1. document' = document
      BY <1>0
    <3> QED BY ONLY <3>1, <2>2 DEF PartsOf, Spoken, TextOfBlock
  <2> QED BY <1>1, <2>1, <2>2
<1>9. Grouped' /\ PathKept'
  <2>1. ~(next' <= Len(document') + 1)
    BY <1>0, <1>1
  <2> QED BY <1>3, <2>1 DEF Grouped, PathKept
<1>10. next' \in 1 .. Len(document') + 2
  BY <1>0, <1>1
<1>11. path' \in Seq(Spots') /\ group' \in Seq(Spots') /\ chunks' \in Seq(GoodChunks')
  BY <1>0, <1>1, <1>2, <1>3, <1>4, DocumentStays
<1> QED BY <1>0, <1>1, <1>3, <1>5, <1>6, <1>7, <1>8, <1>9, <1>10, <1>11 DEF ChunkingInv

LEMMA ChunkingKeeps ==
  ASSUME ChunkingInv, [ChunkingNext]_chunking
  PROVE  ChunkingInv'
<1>1. CASE ChunkingNext
  BY <1>1, HeadingKeeps, OversizedKeeps, CodeKeeps, TableOrListKeeps, ParagraphKeeps, ItemKeeps,
     NextPageKeeps, EndKeeps DEF ChunkingNext
<1>2. CASE UNCHANGED chunking
  <2>0. document' = document /\ next' = next /\ path' = path /\ group' = group /\ tokens' = tokens /\ chunks' = chunks
    BY <1>2 DEF chunking
  <2>1. PartsOf(group)' = PartsOf(group) /\ HeldIn(chunks)' = HeldIn(chunks)
    BY <2>0 DEF PartsOf, TextOfBlock, HeldIn
  <2>2. Sizes(group)' = Sizes(group) /\ Bounded(tokens, group, PartsOf(group))' = Bounded(tokens, group, PartsOf(group))
    BY <2>0, <2>1 DEF Bounded, Sizes, Size, Whole, Joined, TextOfBlock, Part
  <2>3. Grouped' = Grouped /\ PathKept' = PathKept
    BY <2>0 DEF Grouped, PathKept, EndsWith, SeparatorsBefore
  <2>4. PartsOf(Spoken(LookedAt))' = PartsOf(Spoken(LookedAt))
    BY ONLY <2>0 DEF PartsOf, TextOfBlock, Spoken, LookedAt
  <2>5. Spots' = Spots /\ GoodChunks' = GoodChunks
    BY <2>0, DocumentStays
  <2> QED BY <2>0, <2>1, <2>2, <2>3, <2>4, <2>5 DEF ChunkingInv
<1> QED BY <1>1, <1>2

\* The inductive invariant of the chunker.
THEOREM ChunkingInvariant == ChunkingSpec => []ChunkingInv
<1>1. ChunkingInit => ChunkingInv
  BY ChunkingStarts
<1>2. ChunkingInv /\ [ChunkingNext]_chunking => ChunkingInv'
  BY ChunkingKeeps
<1> QED BY <1>1, <1>2, PTL DEF ChunkingSpec

\* Whatever the document and the three limits are, every part of the blocks that
\* were looked at is in one chunk or in the open group, once and in order
\* (chunk_markdown and its arms).
THEOREM NothingLostAlways == ChunkingSpec => []NothingLost
<1>1. ChunkingInv => NothingLost
  BY DEF ChunkingInv, NothingLost, HeldIn
<1> QED BY <1>1, ChunkingInvariant, PTL

\* What the chunker counts of a chunk is never beyond its bound, its token_count,
\* of the joined text (structural.rs 512-513, tokenizer.rs 10-26), is no more than
\* that and the rounding allow, and none is empty when MinTokens is not 0.
THEOREM ChunksBoundedAlways == ChunkingSpec => []ChunksBounded
<1>1. ChunkingInv => ChunksBounded
  BY Places DEF ChunkingInv, ChunksBounded, GoodChunks
<1> QED BY <1>1, ChunkingInvariant, PTL

\* No chunk crosses a heading or a page, and its path is that of its section.
THEOREM SectionsKeptAlways == ChunkingSpec => []SectionsKept
<1>1. ChunkingInv => SectionsKept
  BY Places DEF ChunkingInv, SectionsKept, GoodChunks, InSection
<1> QED BY <1>1, ChunkingInvariant, PTL
=============================================================================
