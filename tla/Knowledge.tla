----------------------------- MODULE Knowledge -----------------------------
(***************************************************************************)
(* KnowledgeEngine (knowledge/service.rs) and what it drives: the registry *)
(* of indexes, the vector store, the lexical index, the batches of         *)
(* embeddings with their cache, hybrid retrieval and grounded answers.     *)
(* Calls run at the same time; each access to a shared map is a step.      *)
(*                                                                         *)
(* A document comes cut into chunks (Chunking); a chunk is known by its    *)
(* identifier and has a text, tokens and scores for a query.  An embedding *)
(* is the text it was computed from.                                       *)
(***************************************************************************)
EXTENDS Integers, Sequences, SequencesExt, FiniteSets, TLC

CONSTANTS
    Calls,           \* requests in flight; also the identifiers of indexes they create
    Requests,        \* what the calls ask for: [Calls -> requests]
    Existing,        \* the indexes there are: [identifiers -> [name, tenant]]
    Stored,          \* the documents they hold: [documents -> identifiers]
    ChunksOf,        \* [documents -> sequences of chunks]
    TextOf, TokensOf,            \* [chunks -> ...]
    Similarity, Relevance,       \* scores: [1 .. 2 -> [chunks -> Nat]], by query
    EmbeddingsEnabled, LlmEnabled,
    Permits,         \* max_concurrent_embedding_requests
    MaxBatch, MaxBatchTokens,
    MaxEntries,      \* of the cache of embeddings
    MaxPerDocument,  \* max_chunks_per_document; 0: no limit
    MaxChunks, MaxContext,       \* rag_max_chunks, rag_max_context_tokens
    Nothing

ASSUME BoundsAssumption ==
    /\ {Permits, MaxBatch, MaxChunks} \subseteq Nat \ {0}
    /\ {MaxBatchTokens, MaxEntries, MaxPerDocument, MaxContext} \subseteq Nat

Docs == DOMAIN ChunksOf

\* A document holds chunks, of which there are finitely many, an index makes its
\* own identifier, and a call puts a document there is.
ASSUME InputsAssumption ==
    /\ IsFiniteSet(Calls) /\ Calls \cap DOMAIN Existing = {} /\ IsFiniteSet(DOMAIN TextOf)
    /\ Nothing \notin Calls \cup DOMAIN Existing \cup Docs
    /\ \A d \in Docs : ChunksOf[d] \in Seq(DOMAIN TextOf)
    /\ DOMAIN Stored \subseteq Docs /\ \A d \in DOMAIN Stored : Stored[d] \in DOMAIN Existing
    /\ \A q \in Requests : \A c \in Calls :
          /\ q[c].op \in {"put", "delete", "rebuild", "search", "retrieve", "answer"}
          /\ q[c].op = "put" => q[c].doc \in Docs
          /\ q[c].limit \in Nat

Chunks == DOMAIN TextOf
DocOf == [x \in Chunks |-> CHOOSE d \in Docs : x \in Range(ChunksOf[d])]

VARIABLES
    indexes, names, documents,     \* the engine's maps
    vectors, postings, inverted,   \* the two stores
    cache, permits, tasks,         \* of the batcher
    pc, req,
    at,        \* the index a call works on
    doc,       \* the document it indexes
    todo,      \* a rebuild's documents that are left
    snapshot,  \* a rebuild's documents
    batches, sent, got,   \* of the document: its batches, how many sent and collected
    vecs,      \* its embeddings so far; of a query, the matches by vector
    place,     \* the next chunk for the lexical index, or the next query
    hits,      \* the matches of the queries so far, then those packed
    reply

registry == <<indexes, names, documents>>
stores == <<vectors, postings, inverted>>
batcher == <<cache, permits, tasks>>
indexing == <<doc, todo, snapshot, batches, sent, got, vecs>>
reading == <<hits, reply>>
vars == <<registry, stores, batcher, pc, req, at, indexing, place, reading>>

-----------------------------------------------------------------------------
\* Ranking.  A score is a fraction <<n, d>>.

Higher(a, b) == a[1] * b[2] > b[1] * a[2]
First(n, s) == SubSeq(s, 1, IF Len(s) < n THEN Len(s) ELSE n)
ChunkIds(hs) == [i \in DOMAIN hs |-> hs[i].chunk]

\* The best few of a set of matches: those of one score are in any order.
Ranked(S) == {s \in SetToSeqs(S) : \A i, j \in DOMAIN s : i < j => ~Higher(s[j].score, s[i].score)}
Best(n, S) == {First(n, s) : s \in Ranked(S)}

\* The elements of s at the places I, in their order, and with a stable sort.
At(s, places) == [k \in DOMAIN places |-> s[places[k]]]
Kept(s, I) ==
    {At(s, p) : p \in {p \in SetToSeqs(I) : \A i, j \in DOMAIN p : i < j => p[i] < p[j]}}
Sorted(s, I) ==
    {At(s, p) : p \in {p \in SetToSeqs(I) : \A i, j \in DOMAIN p : i < j =>
        \/ Higher(s[p[i]].score, s[p[j]].score)
        \/ p[i] < p[j] /\ ~Higher(s[p[j]].score, s[p[i]].score)}}

RankOf(x, s) == IF \E i \in DOMAIN s : s[i].chunk = x
                THEN CHOOSE i \in DOMAIN s : s[i].chunk = x ELSE 0
Reciprocal(rank) == IF rank = 0 THEN <<0, 1>> ELSE <<1, 60 + rank>>

\* The first few matches of each document.
Diversified(hs, limit) ==
    LET earlier(i) == {j \in 1 .. i - 1 : DocOf[hs[j].chunk] = DocOf[hs[i].chunk]}
    IN  {First(limit, s) : s \in Kept(hs, {i \in DOMAIN hs :
            MaxPerDocument = 0 \/ Cardinality(earlier(i)) < MaxPerDocument})}

\* reciprocal_rank_fusion
Fused(vs, ls, limit) ==
    LET found == {s[1].chunk : s \in {<<vs[i]>> : i \in DOMAIN vs} \cup {<<ls[i]>> : i \in DOMAIN ls}}
        score(x) == LET a == Reciprocal(RankOf(x, vs))
                        b == Reciprocal(RankOf(x, ls))
                    IN  <<a[1] * b[2] + b[1] * a[2], a[2] * b[2]>>
    IN  UNION {Diversified(s, limit) :
                  s \in Ranked({[chunk |-> x, score |-> score(x)] : x \in found})}

\* Where a chunk is found first.
Distinct(hs) == {i \in DOMAIN hs : \A j \in 1 .. i - 1 : hs[j].chunk # hs[i].chunk}

TokensIn(chunks) == FoldLeft(LAMBDA sum, x : sum + TokensOf[x], 0, chunks)

\* As many of the best as the budget of tokens takes, and the best in any case.
Packed(best, limit) ==
    First(Max({n \in 0 .. Len(best) :
                 n <= limit /\ (n <= 1 \/ TokensIn(ChunkIds(First(n, best))) <= MaxContext)}), best)

\* What both stores check of an entry: the index, the tenant, and the filters on
\* domain, hostname, path, language, job and document; without a tenant, everything.
Passes(c, e) ==
    /\ e.index = at[c]
    /\ req[c].tenant \in {Nothing, e.tenant}
    /\ DocOf[e.chunk] \in req[c].among

\* The filter on tags, which only the vector store checks.
\* Variant for the mutants: it does not either.
AnyTags(c, e) == TRUE
HasTags(c, e) == DocOf[e.chunk] \in req[c].tagged

Semantic(c, limit) ==
    Best(limit, {[chunk |-> e.chunk, score |-> <<Similarity[place[c]][e.vector], 100>>] :
                    e \in {v \in vectors : Passes(c, v) /\ HasTags(c, v)}})

Lexical(c, limit) ==
    Best(limit, {[chunk |-> e.chunk, score |-> <<Relevance[place[c]][TextOf[e.chunk]], 1>>] :
                    e \in {p \in postings : /\ Passes(c, p)
                                            /\ <<p.index, p.chunk>> \in inverted
                                            /\ Relevance[place[c]][TextOf[p.chunk]] > 0}})

Capped(n, most) == IF n > most THEN most ELSE IF n < 1 THEN 1 ELSE n
TopK(c) == Capped(req[c].limit, MaxChunks)
Limit(c) == IF req[c].op = "search" THEN Capped(req[c].limit, 100) ELSE Capped(2 * TopK(c), 100)

-----------------------------------------------------------------------------
Entries(i, tenant, d) ==
    {[index |-> i, tenant |-> tenant, chunk |-> x] : x \in Range(ChunksOf[d])}

Init ==
    LET held == UNION {Entries(Stored[d], Existing[Stored[d]].tenant, d) : d \in DOMAIN Stored} IN
    /\ indexes = Existing
    /\ names = [n \in {Existing[i].name : i \in DOMAIN Existing} |->
                   CHOOSE i \in DOMAIN Existing : Existing[i].name = n]
    /\ documents = DOMAIN Stored
    /\ vectors = IF EmbeddingsEnabled
                 THEN {[index |-> e.index, tenant |-> e.tenant, chunk |-> e.chunk,
                        vector |-> TextOf[e.chunk]] : e \in held}
                 ELSE {}
    /\ postings = held
    /\ inverted = {<<e.index, e.chunk>> : e \in held}
    /\ cache = << >> /\ permits = Permits /\ tasks = {}
    /\ pc = [c \in Calls |-> "new"]
    /\ req \in Requests
    /\ at = [c \in Calls |-> Nothing]
    /\ doc = [c \in Calls |-> Nothing]
    /\ todo = [c \in Calls |-> {}]
    /\ snapshot = [c \in Calls |-> {}]
    /\ batches = [c \in Calls |-> << >>]
    /\ sent = [c \in Calls |-> 0]
    /\ got = [c \in Calls |-> 0]
    /\ vecs = [c \in Calls |-> << >>]
    /\ place = [c \in Calls |-> 1]
    /\ hits = [c \in Calls |-> << >>]
    /\ reply = [c \in Calls |-> Nothing]

Goto(c, step) == pc' = [pc EXCEPT ![c] = step]
Set(f, c, value) == [f EXCEPT ![c] = value]
With(f, key, value) == [k \in DOMAIN f \cup {key} |-> IF k = key THEN value ELSE f[k]]
Without(f, key) == [k \in DOMAIN f \ {key} |-> f[k]]

Return(c, answer) == Goto(c, "done") /\ reply' = Set(reply, c, answer)
Fail(c, kind) == Return(c, [ok |-> FALSE, error |-> kind])
Done(c) == Return(c, [ok |-> TRUE])

\* get_index: an index that is there under its identifier or its name.
Resolved(key) ==
    IF key \in DOMAIN indexes THEN key
    ELSE IF key \in DOMAIN names /\ names[key] \in DOMAIN indexes THEN names[key]
    ELSE Nothing

\* Every call first looks for its index; to put a document makes one.
Resolve(c) ==
    /\ pc[c] = "new"
    /\ LET i == Resolved(req[c].key) IN
       /\ at' = Set(at, c, i)
       /\ IF i = Nothing /\ req[c].op # "put" THEN Fail(c, "notFound")
          ELSE IF req[c].op = "answer" /\ ~LlmEnabled THEN Fail(c, "llmDisabled")
          ELSE /\ Goto(c, CASE req[c].op = "put" -> IF i = Nothing THEN "absent" ELSE "content"
                            [] req[c].op = "delete" -> "removing"
                            [] req[c].op = "rebuild" -> "emptying"
                            [] OTHER -> "query")
               /\ reply' = reply
    /\ UNCHANGED <<registry, stores, batcher, req, indexing, place, hits>>

-----------------------------------------------------------------------------
\* create_index and delete_index

CheckName(c) ==
    /\ pc[c] = "absent"
    /\ IF req[c].key \in DOMAIN names THEN Fail(c, "exists") ELSE Goto(c, "naming") /\ reply' = reply
    /\ UNCHANGED <<registry, stores, batcher, req, at, indexing, place, hits>>

InsertName(c) ==
    /\ pc[c] = "naming"
    /\ names' = With(names, req[c].key, c)
    /\ Goto(c, "adding")
    /\ UNCHANGED <<indexes, documents, stores, batcher, req, at, indexing, place, reading>>

InsertIndex(c) ==
    /\ pc[c] = "adding"
    /\ indexes' = With(indexes, c, [name |-> req[c].key, tenant |-> req[c].tenant,
                                    docs |-> 0, chunks |-> 0])
    /\ at' = Set(at, c, c)
    /\ Goto(c, "content")
    /\ UNCHANGED <<names, documents, stores, batcher, req, indexing, place, reading>>

\* The copy of an index that a call works with keeps its name and tenant.
NameOf(i) == IF i \in DOMAIN Existing THEN Existing[i].name ELSE req[i].key
TenantOf(i) == IF i \in DOMAIN Existing THEN Existing[i].tenant ELSE req[i].tenant

RemoveIndex(c) ==
    /\ pc[c] = "removing"
    /\ indexes' = Without(indexes, at[c])
    /\ Goto(c, "unnaming")
    /\ UNCHANGED <<names, documents, stores, batcher, req, at, indexing, place, reading>>

\* The name goes, whichever index it leads to by now.
RemoveName(c) ==
    /\ pc[c] = "unnaming"
    /\ names' = Without(names, NameOf(at[c]))
    /\ Goto(c, "emptying")
    /\ UNCHANGED <<indexes, documents, stores, batcher, req, at, indexing, place, reading>>

Others(entries, i) == {e \in entries : e.index # i}

ClearVectors(c) ==
    /\ pc[c] = "emptying"
    /\ vectors' = Others(vectors, at[c])
    /\ Goto(c, "unposting")
    /\ UNCHANGED <<registry, postings, inverted, batcher, req, at, indexing, place, reading>>

ClearPostings(c) ==
    /\ pc[c] = "unposting"
    /\ postings' = Others(postings, at[c])
    /\ Goto(c, "inverting")
    /\ UNCHANGED <<registry, vectors, inverted, batcher, req, at, indexing, place, reading>>

ClearInverted(c) ==
    /\ pc[c] = "inverting"
    /\ inverted' = {e \in inverted : e[1] # at[c]}
    /\ IF req[c].op = "delete" THEN Done(c) ELSE Goto(c, "listing") /\ reply' = reply
    /\ UNCHANGED <<registry, vectors, postings, batcher, req, at, indexing, place, hits>>

-----------------------------------------------------------------------------
\* index_document, for a call that puts a document and for each of a rebuild.

\* The page is scraped, or came with the request; there may be none.
Content(c) ==
    /\ pc[c] = "content"
    /\ \/ Goto(c, "document") /\ doc' = Set(doc, c, req[c].doc) /\ reply' = reply
       \/ Goto(c, "stats") /\ UNCHANGED <<doc, reply>>
       \/ Fail(c, "scrape") /\ doc' = doc
    /\ UNCHANGED <<registry, stores, batcher, req, at, todo, snapshot, batches, sent, got, vecs,
                   place, hits>>

\* A rebuild takes every document there is, of whatever index.
List(c) ==
    /\ pc[c] = "listing"
    /\ snapshot' = Set(snapshot, c, documents)
    /\ todo' = Set(todo, c, documents)
    /\ Goto(c, "between")
    /\ UNCHANGED <<registry, stores, batcher, req, at, doc, batches, sent, got, vecs, place, reading>>

NextDocument(c) ==
    /\ pc[c] = "between"
    /\ IF todo[c] = {} THEN Done(c) /\ UNCHANGED <<todo, doc>>
       ELSE \E d \in todo[c] :
               /\ doc' = Set(doc, c, d)
               /\ todo' = Set(todo, c, todo[c] \ {d})
               /\ Goto(c, "document")
               /\ reply' = reply
    /\ UNCHANGED <<registry, stores, batcher, req, at, snapshot, batches, sent, got, vecs, place, hits>>

Indexed(c) == Goto(c, IF req[c].op = "rebuild" THEN "between" ELSE "stats") /\ reply' = reply

\* A put is answered with what the index holds by then, if it is still there.
Stats(c) ==
    /\ pc[c] = "stats"
    /\ IF at[c] \in DOMAIN indexes THEN Done(c) ELSE Fail(c, "notFound")
    /\ UNCHANGED <<registry, stores, batcher, req, at, indexing, place, hits>>

Begin(c) ==
    /\ pc[c] = "document"
    /\ IF at[c] \notin DOMAIN indexes THEN Fail(c, "notFound")
       ELSE IF ChunksOf[doc[c]] = << >> THEN Indexed(c)
       ELSE Goto(c, IF EmbeddingsEnabled THEN "embedding" ELSE "posting") /\ reply' = reply
    /\ place' = Set(place, c, 1)
    /\ UNCHANGED <<registry, stores, batcher, req, at, indexing, hits>>

TokensOfBatch(d, places) == TokensIn([k \in DOMAIN places |-> ChunksOf[d][places[k]]])

\* A batch is full, or with this chunk it would have too many tokens.
Full(batch, d, p) ==
    Len(batch) >= MaxBatch \/ TokensOfBatch(d, batch) + TokensOf[ChunksOf[d][p]] > MaxBatchTokens

AddToBatch(bs, d, p) ==
    IF bs = << >> \/ Full(bs[Len(bs)], d, p) THEN Append(bs, <<p>>)
    ELSE [bs EXCEPT ![Len(bs)] = Append(@, p)]

InCache(d, p) == TextOf[ChunksOf[d][p]] \in DOMAIN cache

\* The batches of the chunks whose embedding is not in the cache.
Batched(d) ==
    LET made[p \in 0 .. Len(ChunksOf[d])] ==
            IF p = 0 THEN << >>
            ELSE IF InCache(d, p) THEN made[p - 1] ELSE AddToBatch(made[p - 1], d, p)
    IN  made[Len(ChunksOf[d])]

\* Of each chunk the embedding in the cache, and batches of the others.
LookUp(c) ==
    /\ pc[c] = "embedding"
    /\ LET d == doc[c] IN
       /\ vecs' = Set(vecs, c, [p \in DOMAIN ChunksOf[d] |->
                                   IF InCache(d, p) THEN cache[TextOf[ChunksOf[d][p]]] ELSE Nothing])
       /\ batches' = Set(batches, c, Batched(d))
       /\ Goto(c, IF Batched(d) = << >> THEN "upserting" ELSE "sending")
    /\ sent' = Set(sent, c, 0)
    /\ got' = Set(got, c, 0)
    /\ UNCHANGED <<registry, stores, batcher, req, at, doc, todo, snapshot, place, reading>>

\* A batch is sent by a task of its own, which holds the permit until it ends.
Send(c) ==
    /\ pc[c] = "sending" /\ permits > 0
    /\ permits' = permits - 1
    /\ sent' = Set(sent, c, sent[c] + 1)
    /\ tasks' = tasks \cup {[call |-> c, n |-> sent[c] + 1, doc |-> doc[c], status |-> "asking",
                             places |-> batches[c][sent[c] + 1], came |-> 0, next |-> 1, room |-> FALSE]}
    /\ Goto(c, IF sent[c] + 1 = Len(batches[c]) THEN "collecting" ELSE "sending")
    /\ UNCHANGED <<registry, stores, cache, req, at, doc, todo, snapshot, batches, got, vecs,
                   place, reading>>

UnderWay(t) == t.status \in {"asking", "filling"}
Becomes(t, u) == tasks' = (tasks \ {t}) \cup {u}

\* Variant for the mutants: a task that fails keeps its permit.
KeepsPermit(t, status) ==
    /\ tasks' = (tasks \ {t}) \cup
                (IF pc[t.call] = "done" THEN {} ELSE {[t EXCEPT !.status = status]})
    /\ permits' = IF status = "failed" THEN permits ELSE permits + 1

EndTask(t, status) ==
    /\ tasks' = (tasks \ {t}) \cup
                (IF pc[t.call] = "done" THEN {} ELSE {[t EXCEPT !.status = status]})
    /\ permits' = permits + 1

\* The provider fails, or answers with some embeddings, all or too few.
ProviderAnswers(t) ==
    /\ t.status = "asking"
    /\ \/ EndTask(t, "failed")
       \/ /\ \E n \in 0 .. Len(t.places) : Becomes(t, [t EXCEPT !.status = "filling", !.came = n])
          /\ UNCHANGED permits
    /\ UNCHANGED <<registry, stores, cache, pc, req, at, indexing, place, reading>>

\* Variant for the mutants: room for one too many.
HasRoomForMore == Cardinality(DOMAIN cache) <= MaxEntries
HasRoom == Cardinality(DOMAIN cache) < MaxEntries

\* The embeddings are entered one by one, each in two steps without a lock
\* between them: the cache is found to have room for it, or it is left out; and
\* it is stored, whatever others have stored meanwhile.
CheckRoom(t) ==
    /\ t.status = "filling" /\ t.next <= t.came /\ ~t.room
    /\ Becomes(t, IF HasRoom THEN [t EXCEPT !.room = TRUE] ELSE [t EXCEPT !.next = @ + 1])
    /\ UNCHANGED <<registry, stores, cache, permits, pc, req, at, indexing, place, reading>>

StoreEmbedding(t) ==
    /\ t.status = "filling" /\ t.room
    /\ LET text == TextOf[ChunksOf[t.doc][t.places[t.next]]] IN cache' = With(cache, text, text)
    /\ Becomes(t, [t EXCEPT !.room = FALSE, !.next = @ + 1])
    /\ UNCHANGED <<registry, stores, permits, pc, req, at, indexing, place, reading>>

\* After the last embedding that came the task is done, or it panics on the
\* first that is not there.
TaskEnds(t) ==
    /\ t.status = "filling" /\ t.next > t.came
    /\ EndTask(t, IF t.came = Len(t.places) THEN "ok" ELSE "failed")
    /\ UNCHANGED <<registry, stores, cache, pc, req, at, indexing, place, reading>>

TaskStep(t) == ProviderAnswers(t) \/ CheckRoom(t) \/ StoreEmbedding(t) \/ TaskEnds(t)

\* The results are awaited in the order of the batches; the first failure ends
\* the call, and the tasks that are left go on by themselves.
Collect(c) ==
    /\ pc[c] = "collecting"
    /\ \E t \in tasks :
          /\ t.call = c /\ t.n = got[c] + 1 /\ ~UnderWay(t)
          /\ got' = Set(got, c, t.n)
          /\ IF t.status = "failed"
             THEN /\ Fail(c, "embedding")
                  /\ tasks' = {u \in tasks : u.call = c => UnderWay(u)}
                  /\ vecs' = vecs
             ELSE /\ Goto(c, IF t.n = Len(batches[c]) THEN "upserting" ELSE "collecting")
                  /\ tasks' = tasks \ {t}
                  /\ vecs' = Set(vecs, c, [p \in DOMAIN vecs[c] |->
                                IF p \in Range(t.places) THEN TextOf[ChunksOf[t.doc][p]] ELSE vecs[c][p]])
                  /\ reply' = reply
    /\ UNCHANGED <<registry, stores, cache, permits, req, at, doc, todo, snapshot, batches, sent,
                   place, hits>>

\* Variant for the mutants: only what the document did not hold before.
UpsertNew(c) ==
    /\ pc[c] = "upserting"
    /\ vectors' = IF doc[c] \in documents THEN vectors
                  ELSE vectors \cup
                      {[index |-> at[c], tenant |-> TenantOf(at[c]), chunk |-> ChunksOf[doc[c]][p],
                        vector |-> vecs[c][p]] : p \in DOMAIN ChunksOf[doc[c]]}
    /\ Goto(c, "posting")
    /\ UNCHANGED <<registry, postings, inverted, batcher, req, at, indexing, place, reading>>

Upsert(c) ==
    /\ pc[c] = "upserting"
    /\ LET d == doc[c] IN
       vectors' = {v \in vectors : v.index = at[c] => v.chunk \notin Range(ChunksOf[d])}
                  \cup {[index |-> at[c], tenant |-> TenantOf(at[c]), chunk |-> ChunksOf[d][p],
                         vector |-> vecs[c][p]] : p \in DOMAIN ChunksOf[d]}
    /\ Goto(c, "posting")
    /\ UNCHANGED <<registry, postings, inverted, batcher, req, at, indexing, place, reading>>

InsertChunk(c) ==
    /\ pc[c] = "posting"
    /\ LET x == ChunksOf[doc[c]][place[c]] IN
       /\ postings' = postings \cup {[index |-> at[c], tenant |-> TenantOf(at[c]), chunk |-> x]}
       /\ inverted' = inverted \cup {<<at[c], x>>}
       /\ Goto(c, IF place[c] = Len(ChunksOf[doc[c]]) THEN "registering" ELSE "posting")
    /\ place' = Set(place, c, place[c] + 1)
    /\ UNCHANGED <<registry, vectors, batcher, req, at, indexing, reading>>

Register(c) ==
    /\ pc[c] = "registering"
    /\ documents' = documents \cup {doc[c]}
    /\ Goto(c, "counting")
    /\ UNCHANGED <<indexes, names, stores, batcher, req, at, indexing, place, reading>>

\* Indexing a document again counts it again.
Count(c) ==
    /\ pc[c] = "counting"
    /\ indexes' = IF at[c] \notin DOMAIN indexes THEN indexes
                  ELSE [indexes EXCEPT ![at[c]].docs = @ + 1,
                                       ![at[c]].chunks = @ + Len(ChunksOf[doc[c]])]
    /\ Indexed(c)
    /\ UNCHANGED <<names, documents, stores, batcher, req, at, indexing, place, hits>>

-----------------------------------------------------------------------------
\* search, retrieve and answer

Matches(hs, cites) == [ok |-> TRUE, chunks |-> ChunkIds(hs), cites |-> cites]

\* One query is done: a search answers with its matches, the others go on to
\* the next query and pack what was found.
Found(c, more) ==
    IF req[c].op = "search"
    THEN /\ Return(c, Matches(more, {}))
         /\ UNCHANGED <<hits, place>>
    ELSE /\ hits' = Set(hits, c, hits[c] \o more)
         /\ place' = Set(place, c, place[c] + 1)
         /\ Goto(c, IF place[c] < req[c].queries THEN "query" ELSE "packing")
         /\ reply' = reply

Query(c) ==
    /\ pc[c] = "query"
    /\ IF req[c].mode # "lexical" /\ EmbeddingsEnabled
       THEN Goto(c, "asking") /\ UNCHANGED <<hits, place, reply>>
       ELSE IF req[c].mode = "semantic"
       THEN IF req[c].op = "search" THEN Fail(c, "embeddingsDisabled") /\ UNCHANGED <<hits, place>>
            ELSE Found(c, << >>)
       ELSE \E more \in Lexical(c, Limit(c)) : Found(c, more)
    /\ UNCHANGED <<registry, stores, batcher, req, at, indexing>>

AcquirePermit(c) ==
    /\ pc[c] = "asking" /\ permits > 0
    /\ permits' = permits - 1
    /\ Goto(c, "embeddingQuery")
    /\ UNCHANGED <<registry, stores, cache, tasks, req, at, indexing, place, reading>>

\* Without an embedding a hybrid query is a lexical one; a semantic one fails.
QueryEmbedded(c) ==
    /\ pc[c] = "embeddingQuery"
    /\ permits' = permits + 1
    /\ \/ Goto(c, "nearest") /\ UNCHANGED <<hits, place, reply>>
       \/ IF req[c].mode = "hybrid" THEN \E more \in Lexical(c, Limit(c)) : Found(c, more)
          ELSE IF req[c].op = "search" THEN Fail(c, "embedding") /\ UNCHANGED <<hits, place>>
          ELSE Found(c, << >>)
    /\ UNCHANGED <<registry, stores, cache, tasks, req, at, indexing>>

\* The vector store is searched, then the lexical index, which may have changed.
SearchVectors(c) ==
    /\ pc[c] = "nearest"
    /\ IF req[c].mode = "semantic"
       THEN (\E more \in Semantic(c, Limit(c)) : Found(c, more)) /\ vecs' = vecs
       ELSE /\ \E near \in Semantic(c, 2 * Limit(c)) : vecs' = Set(vecs, c, near)
            /\ Goto(c, "matching")
            /\ UNCHANGED <<hits, place, reply>>
    /\ UNCHANGED <<registry, stores, batcher, req, at, doc, todo, snapshot, batches, sent, got>>

SearchLexical(c) ==
    /\ pc[c] = "matching"
    /\ \E words \in Lexical(c, 2 * Limit(c)) : \E more \in Fused(vecs[c], words, Limit(c)) :
          Found(c, more)
    /\ UNCHANGED <<registry, stores, batcher, req, at, indexing>>

Pack(c) ==
    /\ pc[c] = "packing"
    /\ \E best \in Sorted(hits[c], Distinct(hits[c])) :
          LET packed == Packed(best, TopK(c)) IN
          /\ hits' = Set(hits, c, packed)
          /\ IF req[c].op = "answer" /\ packed # << >> THEN Goto(c, "answering") /\ reply' = reply
             ELSE Return(c, Matches(packed, {}))
    /\ UNCHANGED <<registry, stores, batcher, req, at, indexing, place>>

\* The model may cite anything; what was not retrieved is left out, and without
\* a citation the best chunk is one.
Answer(c) ==
    /\ pc[c] = "answering"
    /\ \/ Fail(c, "llm")
       \/ \E cited \in SUBSET Chunks :
             LET valid == cited \cap Range(ChunkIds(hits[c])) IN
             Return(c, Matches(hits[c], IF valid = {} THEN {hits[c][1].chunk} ELSE valid))
    /\ UNCHANGED <<registry, stores, batcher, req, at, indexing, place, hits>>

-----------------------------------------------------------------------------
Step(c) ==
    \/ Resolve(c) \/ CheckName(c) \/ InsertName(c) \/ InsertIndex(c)
    \/ RemoveIndex(c) \/ RemoveName(c) \/ ClearVectors(c) \/ ClearPostings(c) \/ ClearInverted(c)
    \/ Content(c) \/ List(c) \/ NextDocument(c) \/ Begin(c) \/ Stats(c)
    \/ LookUp(c) \/ Send(c) \/ Collect(c) \/ Upsert(c) \/ InsertChunk(c) \/ Register(c) \/ Count(c)
    \/ Query(c) \/ AcquirePermit(c) \/ QueryEmbedded(c) \/ SearchVectors(c) \/ SearchLexical(c)
    \/ Pack(c) \/ Answer(c)

Next == (\E c \in Calls : Step(c)) \/ (\E t \in tasks : TaskStep(t))

Spec == Init /\ [][Next]_vars

\* Some task is always run; each call to the provider ends or times out.
FairSpec == Spec /\ WF_vars(Next)

-----------------------------------------------------------------------------
Ids == DOMAIN Existing \cup Calls
Answered(c) == pc[c] = "done" /\ reply[c].ok

\* A name leads to an index that is there, but between the two steps of a call
\* that makes or deletes that index (create_index, delete_index).
NamesLead ==
    \A n \in DOMAIN names :
        \/ names[n] \in DOMAIN indexes
        \/ \E c \in Calls : \/ pc[c] = "adding" /\ names[n] = c
                            \/ pc[c] = "unnaming" /\ names[n] = at[c]

\* The maps hold what they are for; each permit is free, with a task or with a
\* query.  Tasks that fill the cache side by side all find room for the last
\* entry, so it may grow beyond its limit: by no more than the permits allow,
\* one entry for each other task (embeddings/cache.rs 69-73, batcher.rs 117-137).
CacheBounded ==
    Cardinality(DOMAIN cache) + Cardinality({t \in tasks : t.room}) <= MaxEntries + Permits - 1
TypeOK ==
    /\ DOMAIN indexes \subseteq Ids /\ Range(names) \subseteq Ids /\ documents \subseteq Docs
    /\ \A e \in postings : e.index \in Ids /\ e.chunk \in Chunks
    /\ inverted \subseteq Ids \X Chunks
    /\ Cardinality({t \in tasks : UnderWay(t)})
          + Cardinality({c \in Calls : pc[c] = "embeddingQuery"}) = Permits - permits
    /\ permits >= 0
    /\ CacheBounded
    /\ NamesLead

Held(d, i) ==
    \A x \in Range(ChunksOf[d]) :
        /\ EmbeddingsEnabled => \E v \in vectors : v.index = i /\ v.chunk = x
        /\ \E p \in postings : p.index = i /\ p.chunk = x
        /\ <<i, x>> \in inverted

\* A rebuild of the index that may have taken the document away: it is not done,
\* it failed, or it listed the documents before this one was among them.
TakenBy(r, d, i) ==
    /\ req[r].op = "rebuild" /\ at[r] = i /\ pc[r] # "emptying"
    /\ ~Answered(r) \/ d \notin snapshot[r]

\* Every document that was put into an index, when that was answered, is found
\* there by its vectors and by its words for as long as the index is there,
\* whatever rebuilds come after it (index_document, rebuild_index); and each
\* vector is the embedding of its own chunk, whatever comes from the cache and
\* in whatever order the batches end (embeddings/batcher.rs).
IndexedIsFound ==
    /\ \A v \in vectors : v.vector = TextOf[v.chunk]
    /\ \A i \in DOMAIN indexes : \A d \in Docs :
          \/ Held(d, i)
          \/ ~ \/ d \in DOMAIN Stored /\ Stored[d] = i
               \/ \E c \in Calls : req[c].op = "put" /\ Answered(c) /\ at[c] = i /\ doc[c] = d
          \/ \E r \in Calls : TakenBy(r, d, i)

Grounded(c) ==
    LET brought == reply[c].chunks IN
    /\ IsInjective(brought)
    /\ \A x \in Range(brought) :
          /\ DocOf[x] \in req[c].among
          /\ req[c].mode = "semantic" => DocOf[x] \in req[c].tagged
          /\ req[c].tenant \in {Nothing, TenantOf(at[c])}
    /\ Len(brought) <= 1 \/ Len(brought) <= req[c].limit
    /\ req[c].op # "search" =>
          /\ Len(brought) <= MaxChunks
          /\ Len(brought) <= 1 \/ TokensIn(brought) <= MaxContext
    /\ reply[c].cites \subseteq Range(brought)
    /\ req[c].op = "answer" /\ brought # << >> => reply[c].cites # {}

\* What a retrieval or an answer brings is each chunk once, as many as asked for
\* and within the budget of tokens (but for a single chunk), of the tenant and
\* the documents that pass the filters both stores check, and in semantic mode
\* the tags, though the stores change between the two searches; and an answer
\* drawn from chunks cites some of them and nothing else.  Words find documents
\* without the tags asked for as well: lexical/index.rs 294-346 looks at none
\* (retrieval/service.rs, vector/memory.rs 208-218, rag/answer.rs).
AnswersGrounded ==
    \A c \in Calls : req[c].op \in {"search", "retrieve", "answer"} /\ Answered(c) => Grounded(c)

\* Every call that is under way is answered, also when an embedding fails with
\* others waiting for its permit (embeddings/batcher.rs).
CallsAnswered == \A c \in Calls : pc[c] # "new" ~> pc[c] = "done"
=============================================================================
