----------------------------- MODULE Extraction -----------------------------
(***************************************************************************)
(* ExtractionService::extract (extraction/service.rs) with the rules that  *)
(* look for fields in a page, the choice of context for a language model,  *)
(* the coercion, validation and repair of its answer, the cache of         *)
(* results, and the items of a batch that share its slots.                 *)
(*                                                                         *)
(* A JSON scalar is what coercion and validation can tell of it, an object *)
(* a function from some of the field names to scalars, an answer a list of *)
(* objects that is an array or stands for the one object it holds.  Text,  *)
(* prompts, models and scores are left out but for the order they put      *)
(* chunks in.                                                              *)
(***************************************************************************)
EXTENDS Integers, Sequences, SequencesExt, FiniteSets, FiniteSetsExt, TLC

CONSTANTS
    Requests,        \* callers of extract
    MaxConcurrency,  \* the batch's slots, clamp(1, 20)
    Kinds,           \* what a request may ask for; "batch": as an item of the batch
    PageOf,          \* [urls -> pages]
    Answers,         \* what a language model may answer
    Permits,         \* max_concurrent_llm_requests
    LlmEnabled,      \* a provider is registered under the requested name
    MaxRetries,      \* llm_max_retries
    MaxRepairs,      \* max_extraction_repair_attempts
    MaxItems,        \* extraction_cache_max_items
    MaxDepth, MaxProperties,      \* limits on a schema
    MaxChunks, MaxContext,        \* limits on a context
    Aliases,         \* [fields -> sequences of keys that mean the same]
    NoSchema, NotJson, Nothing

ASSUME LimitsAssumption ==
    /\ {MaxConcurrency, Permits} \subseteq Nat \ {0}
    /\ {MaxRetries, MaxRepairs, MaxItems, MaxDepth, MaxProperties,
        MaxChunks, MaxContext} \subseteq Nat

\* A request's addresses have pages; an answer lists its objects.
ASSUME InputsAssumption ==
    /\ \A k \in Kinds : k.how \in {"single", "many", "crawl"} /\ k.urls \in Seq(DOMAIN PageOf)
    /\ \A a \in Answers : Len(a.items) \in Nat /\ DOMAIN a.items = 1 .. Len(a.items)

VARIABLES pc, req,
          at,         \* the next URL to scrape
          pages,      \* what was scraped
          attempts,   \* HTTP attempts of the current call to the model
          posts,      \* all HTTP attempts of the request
          calls,      \* calls to the model
          draft,      \* the answer being repaired, or the result being stored
          out,        \* what the caller got
          permits, slots, cache, cancelled

vars == <<pc, req, at, pages, attempts, posts, calls, draft, out,
          permits, slots, cache, cancelled>>

-----------------------------------------------------------------------------
\* Coercion and validation.

\* What is left of a scalar in the type a schema wants; the rest stays as it is.
Conversions ==
    [number  |-> "intText" :> "float" @@ "floatText" :> "float",
     integer |-> "float" :> "int" @@ "intText" :> "int",
     boolean |-> "boolText" :> "bool" @@ "boolText" :> "bool",
     string  |-> "int" :> "intText" @@ "float" :> "floatText" @@ "bool" :> "boolText"]

Coerced(v, type) ==
    IF v \in DOMAIN Conversions[type] THEN Conversions[type][v] ELSE v

Fits ==
    [number  |-> {"int", "float"},
     integer |-> {"int"},
     boolean |-> {"bool"},
     string  |-> {"intText", "floatText", "boolText", "word"}]

CoerceObject(o, schema, missing) ==
    LET filled == IF missing = "null" THEN DOMAIN schema.fields ELSE {} IN
    [f \in DOMAIN o \cup filled |->
        IF f \notin DOMAIN o THEN "null"
        ELSE IF f \in DOMAIN schema.fields THEN Coerced(o[f], schema.fields[f].type)
        ELSE o[f]]

\* An array where an object is wanted becomes an empty object.
Coerce(answer, schema, missing) ==
    LET object(o) == CoerceObject(o, schema, missing) IN
    IF schema.array
    THEN [array |-> TRUE, items |-> [i \in DOMAIN answer.items |-> object(answer.items[i])]]
    ELSE [array |-> FALSE, items |-> <<object(IF answer.array THEN << >> ELSE answer.items[1])>>]

\* A field's "values" stand for its enum, range and length.
ValidObject(o, schema) ==
    /\ \A f \in schema.required : f \in DOMAIN o /\ o[f] # "null"
    /\ \A f \in DOMAIN o \cap DOMAIN schema.fields :
          o[f] \in Fits[schema.fields[f].type] \cap schema.fields[f].values
    /\ schema.closed => DOMAIN o \subseteq DOMAIN schema.fields

Valid(data, schema) ==
    /\ data.array = schema.array
    /\ \A i \in DOMAIN data.items : ValidObject(data.items[i], schema)

SchemaAccepted(schema) ==
    /\ schema.wellFormed
    /\ Cardinality(DOMAIN schema.fields) <= MaxProperties
    /\ (IF schema.array THEN 1 ELSE 0) + (IF DOMAIN schema.fields = {} THEN 0 ELSE 1) <= MaxDepth

-----------------------------------------------------------------------------
\* Extraction by rules.  A page signals candidates in order of confidence:
\* structured data, metadata, tables, lists of terms.

Candidates(ps) == FlattenSeq([i \in DOMAIN ps |-> ps[i].signals])

\* The first candidate under the first of the keys that can be made to fit.
FirstFit(pool, key, type) ==
    FoldLeft(LAMBDA found, o :
                IF found = Nothing /\ key \in DOMAIN o /\ Coerced(o[key], type) \in Fits[type]
                THEN Coerced(o[key], type) ELSE found,
             Nothing, pool)

Match(pool, keys, type) ==
    FoldLeft(LAMBDA found, k : IF found = Nothing THEN FirstFit(pool, k, type) ELSE found,
             Nothing, keys)

ByRules(pool, schema, missing) ==
    LET match == [f \in DOMAIN schema.fields |->
                     Match(pool, <<f>> \o Aliases[f], schema.fields[f].type)]
        found == {f \in DOMAIN match : match[f] # Nothing}
        kept == IF missing = "null" THEN DOMAIN match ELSE found
        sufficient == /\ schema.required \cap DOMAIN match \subseteq found
                      /\ Cardinality(found) >= Cardinality(schema.required)
    IN  IF found = {} THEN [data |-> Nothing, sure |-> FALSE]
        ELSE [data |-> [array |-> FALSE,
                        items |-> <<[f \in kept |-> IF f \in found THEN match[f] ELSE "null"]>>],
              sure |-> sufficient]

\* The first array of the pages, whatever the schema says of its items.
ListByRules(ps) ==
    LET lists == SelectSeq(ps, LAMBDA p : p.list # << >>)
        items == IF lists = << >> THEN << >> ELSE lists[1].list
    IN  [data |-> [array |-> TRUE, items |-> items], sure |-> items # << >>]

\* Without a schema: of each key, the candidate of the highest confidence.
AnyByRules(ps) ==
    LET ranked == FlattenSeq([rank \in 1 .. 3 |-> [i \in DOMAIN ps |-> ps[i].signals[rank]]])
        object == FoldLeft(LAMBDA best, o : best @@ o, << >>, ranked)
    IN  IF DOMAIN object = {} THEN [data |-> Nothing, sure |-> FALSE]
        ELSE [data |-> [array |-> FALSE, items |-> <<object>>], sure |-> TRUE]

\* What a request may have scraped.  What is computed from it is a table, which
\* TLC evaluates once (@@ makes it).
PageLists == SeqOf(Range(PageOf), Max({Len(k.urls) : k \in Kinds}))

Deterministic ==
    << >> @@ [ps \in PageLists, k \in Kinds |->
        IF k.schema = NoSchema THEN AnyByRules(ps)
        ELSE IF k.schema.array THEN ListByRules(ps)
        ELSE ByRules(Candidates(ps), k.schema, k.missing)]

-----------------------------------------------------------------------------
\* The context of a call to the model: the best chunks that fit.

Chunks(ps) ==
    SortSeq(FlattenSeq([i \in DOMAIN ps |->
                           [c \in DOMAIN ps[i].chunks |-> ps[i].chunks[c] @@ [url |-> ps[i].url]]]),
            LAMBDA a, b : a.score > b.score)

\* Whole chunks until one does not fit; of a first chunk that is too long, what
\* fits.
Take(sofar, chunk) ==
    IF sofar.closed \/ Len(sofar.taken) >= MaxChunks THEN [sofar EXCEPT !.closed = TRUE]
    ELSE IF sofar.size + chunk.len <= MaxContext
    THEN [sofar EXCEPT !.taken = Append(@, chunk), !.size = @ + chunk.len]
    ELSE IF sofar.taken = << >> /\ MaxContext > 0
    THEN [taken |-> <<[chunk EXCEPT !.len = MaxContext]>>, size |-> MaxContext, closed |-> TRUE]
    ELSE [sofar EXCEPT !.closed = TRUE]

Fitting(chunks) ==
    FoldLeft(Take, [taken |-> << >>, size |-> 0, closed |-> FALSE], chunks).taken

Context == << >> @@ [ps \in PageLists |-> Fitting(Chunks(ps))]

\* Where the text of each field of the answer first stands in the context.
Citations(data, chunks) ==
    LET cited(v) == {c \in DOMAIN chunks : v \in chunks[c].text} IN
    {[item |-> p[1], field |-> p[2], url |-> chunks[Min(cited(data.items[p[1]][p[2]]))].url] :
        p \in {q \in (DOMAIN data.items) \X UNION {DOMAIN data.items[i] : i \in DOMAIN data.items} :
                  /\ q[2] \in DOMAIN data.items[q[1]]
                  /\ cited(data.items[q[1]][q[2]]) # {}}}

\* An item is known by its values under those of the keys that it has, which
\* does not say which they are; without any of them it stands for itself.
DedupeKey(o, keys) ==
    LET present == SelectSeq(keys, LAMBDA k : k \in DOMAIN o) IN
    IF present = << >> THEN <<"itself", o>>
    ELSE <<"values", [i \in DOMAIN present |-> o[present[i]]]>>

\* The first of the items that are known by the same.
Firsts(items, keys) ==
    {i \in DOMAIN items : \A j \in 1 .. i - 1 : DedupeKey(items[j], keys) # DedupeKey(items[i], keys)}

Deduplicated(data, keys) ==
    LET firsts == Firsts(data.items, keys) IN
    IF keys = << >> \/ ~data.array THEN data
    ELSE [data EXCEPT !.items = [n \in 1 .. Cardinality(firsts) |->
             data.items[CHOOSE i \in firsts : Cardinality(firsts \cap 1 .. i) = n]]]

-----------------------------------------------------------------------------
\* The cache: a request for the same contents and the same schema gets the
\* same result, whatever else it asks for.

\* Variant for the mutants: the schema is left out of the key.
KeyOfContent(r) == <<[i \in DOMAIN pages[r] |-> pages[r][i].hash]>>

\* The items of a batch have a service of their own whose cache is switched off.
Cached(r) == ~req[r].batch

Key(r) == <<[i \in DOMAIN pages[r] |-> pages[r][i].hash], req[r].schema>>

Full == Cardinality(DOMAIN cache) >= MaxItems

-----------------------------------------------------------------------------
Scraping == {"queued", "fetching", "fetched"}
Calling == {"generating", "repairing", "checked"}
Steps == Scraping \cup Calling \cup {"new", "context", "waiting", "storing", "inserting", "done"}

Init ==
    /\ pc = [r \in Requests |-> "new"]
    /\ req \in [Requests -> Kinds]
    /\ at = [r \in Requests |-> 1]
    /\ pages = [r \in Requests |-> << >>]
    /\ attempts = [r \in Requests |-> 0]
    /\ posts = [r \in Requests |-> 0]
    /\ calls = [r \in Requests |-> 0]
    /\ draft = [r \in Requests |-> Nothing]
    /\ out = [r \in Requests |-> Nothing]
    /\ permits = Permits
    /\ slots = MaxConcurrency
    /\ cache = << >>
    /\ cancelled = FALSE

Goto(r, step) == pc' = [pc EXCEPT ![r] = step]

\* Variant for the mutants: a request that ends in an error keeps its permit.
HoldsOnError(r) == IF pc[r] \in {"storing", "inserting"} /\ calls[r] > 0 THEN 1 ELSE 0

\* The permits a request still has when it ends, however it ends.
Holds(r) == IF pc[r] \in Calling \/ (pc[r] \in {"storing", "inserting"} /\ calls[r] > 0) THEN 1 ELSE 0
Slots(r) == IF req[r].batch /\ pc[r] \notin {"new", "queued"} THEN 1 ELSE 0

\* The caller has its answer; permits and slots go back as the call returns.
Return(r, answer) ==
    /\ Goto(r, "done")
    /\ out' = [out EXCEPT ![r] = answer]
    /\ permits' = permits + Holds(r)
    /\ slots' = slots + Slots(r)

Err(kind) == [ok |-> FALSE, error |-> kind]
Fail(r, kind) == Return(r, Err(kind))

\* A slice that falls inside a character ends the task (context.rs 61, 97 and
\* 155, provenance.rs 52 and 93); its permits go back as the stack unwinds.
Panic(r) ==
    /\ pc[r] = "context" \/ (pc[r] = "checked" /\ req[r].provenance)
    /\ Return(r, Err("panicked"))
    /\ UNCHANGED <<req, at, pages, attempts, posts, calls, draft, cache, cancelled>>

Spawn(r) ==
    /\ pc[r] = "new" /\ req[r].batch
    /\ Goto(r, "queued")
    /\ UNCHANGED <<req, at, pages, attempts, posts, calls, draft, out, permits, slots,
                   cache, cancelled>>

\* Cancellation and the schema are looked at before anything is fetched.
Begin(r) ==
    /\ IF req[r].batch THEN pc[r] = "queued" /\ slots > 0 ELSE pc[r] = "new"
    /\ LET s == req[r].schema
           refused == cancelled \/ (s # NoSchema /\ ~SchemaAccepted(s))
       IN  /\ slots' = IF req[r].batch /\ ~refused THEN slots - 1 ELSE slots
           /\ permits' = permits
           /\ IF refused
              THEN /\ Goto(r, "done")
                   /\ out' = [out EXCEPT ![r] =
                        Err(IF cancelled THEN "cancelled" ELSE "invalidSchema")]
              ELSE Goto(r, "fetching") /\ out' = out
    /\ UNCHANGED <<req, at, pages, attempts, posts, calls, draft, cache, cancelled>>

Got(r, more) ==
    /\ pages' = [pages EXCEPT ![r] = @ \o more]
    /\ at' = [at EXCEPT ![r] = @ + 1]
    /\ Goto(r, IF at[r] = Len(req[r].urls) \/ req[r].how = "crawl" THEN "fetched" ELSE "fetching")
    /\ UNCHANGED <<out, permits, slots>>

\* A single page must be there; of several, those that fail are passed over.
ScrapeOne(r) ==
    /\ req[r].how = "single"
    /\ \/ Got(r, <<PageOf[req[r].urls[1]]>>)
       \/ Fail(r, "scrape") /\ UNCHANGED <<at, pages>>

ScrapeNext(r) ==
    /\ req[r].how = "many"
    /\ IF cancelled THEN Fail(r, "cancelled") /\ UNCHANGED <<at, pages>>
       ELSE Got(r, <<PageOf[req[r].urls[at[r]]]>>) \/ Got(r, << >>)

\* A crawl brings back any of its pages, and also ends well when cancelled.
Crawl(r) ==
    /\ req[r].how = "crawl"
    /\ \/ \E keep \in SUBSET DOMAIN req[r].urls :
             Got(r, [i \in 1 .. Cardinality(keep) |-> PageOf[req[r].urls[SetToSeq(keep)[i]]]])
       \/ Fail(r, "crawl") /\ UNCHANGED <<at, pages>>

Fetch(r) ==
    /\ pc[r] = "fetching"
    /\ IF req[r].urls = << >> THEN Fail(r, "invalidRequest") /\ UNCHANGED <<at, pages>>
       ELSE ScrapeOne(r) \/ ScrapeNext(r) \/ Crawl(r)
    /\ UNCHANGED <<req, attempts, posts, calls, draft, cache, cancelled>>

Store(r, result) ==
    /\ draft' = [draft EXCEPT ![r] = result]
    /\ Goto(r, "storing")
    /\ UNCHANGED <<out, permits, slots>>

\* From the pages to an answer without a model, if the rules find one they are
\* sure of or no other is wanted; it is validated, but returned either way.
LookAt(r) ==
    /\ pc[r] = "fetched"
    /\ LET s == req[r].schema
           rules == Deterministic[pages[r], req[r]]
           taken == /\ req[r].mode # "llm"
                    /\ rules.data # Nothing
                    /\ (req[r].mode = "rules" \/ rules.sure)
       IN  IF pages[r] = << >> THEN Fail(r, "noContent") /\ UNCHANGED draft
           ELSE IF cancelled THEN Fail(r, "cancelled") /\ UNCHANGED draft
           ELSE IF Cached(r) /\ Key(r) \in DOMAIN cache
           THEN Return(r, [cache[Key(r)] EXCEPT !.hit = TRUE]) /\ UNCHANGED draft
           ELSE IF taken
           THEN Store(r, [ok |-> TRUE, hit |-> FALSE, data |-> rules.data, calls |-> 0, cited |-> {},
                          validated |-> s # NoSchema /\ Valid(rules.data, s)])
           ELSE IF req[r].mode = "rules" THEN Fail(r, "noContent") /\ UNCHANGED draft
           ELSE Goto(r, "context") /\ UNCHANGED <<draft, out, permits, slots>>
    /\ UNCHANGED <<req, at, pages, attempts, posts, calls, cache, cancelled>>

SelectContext(r) ==
    /\ pc[r] = "context"
    /\ IF Context[pages[r]] = << >> THEN Fail(r, "noContent")
       ELSE IF cancelled THEN Fail(r, "cancelled")
       ELSE IF ~LlmEnabled THEN Fail(r, "llmDisabled")
       ELSE Goto(r, "waiting") /\ UNCHANGED <<out, permits, slots>>
    /\ UNCHANGED <<req, at, pages, attempts, posts, calls, draft, cache, cancelled>>

\* Waiting for the permit is not interrupted by a cancellation.
AcquirePermit(r) ==
    /\ pc[r] = "waiting" /\ permits > 0
    /\ permits' = permits - 1
    /\ Goto(r, "generating")
    /\ calls' = [calls EXCEPT ![r] = 1]
    /\ UNCHANGED <<req, at, pages, attempts, posts, draft, out, slots, cache, cancelled>>

-----------------------------------------------------------------------------
\* One call to the model, and what becomes of its answer.

\* Variant for the mutants: one attempt more.
CanRetryOnce(r) == attempts[r] <= MaxRetries

CanRetry(r) == attempts[r] + 1 <= MaxRetries

Post(r) ==
    /\ pc[r] \in {"generating", "repairing"}
    /\ posts' = [posts EXCEPT ![r] = @ + 1]

\* Variant for the mutants: no repair is told of.
UsedNone(r) == FALSE

\* A good answer, and whether it took the call that repairs it.
UsedRepair(r) == pc[r] = "repairing"

Finish(r, data) ==
    /\ Goto(r, "checked")
    /\ draft' = [draft EXCEPT ![r] = [data |-> data, repaired |-> UsedRepair(r)]]
    /\ UNCHANGED <<out, permits, slots, calls>>

Repair(r) ==
    /\ Goto(r, "repairing")
    /\ calls' = [calls EXCEPT ![r] = 2]
    /\ UNCHANGED <<out, permits, slots, draft>>

Judge(r, answer) ==
    LET s == req[r].schema IN
    IF s = NoSchema THEN Finish(r, answer)
    ELSE LET data == Coerce(answer, s, req[r].missing) IN
         IF Valid(data, s) THEN Finish(r, data)
         ELSE IF pc[r] = "generating" /\ MaxRepairs > 0 THEN Repair(r)
         ELSE Fail(r, "schemaFailed") /\ UNCHANGED <<draft, calls>>

Answered(r) ==
    /\ Post(r)
    /\ \E answer \in Answers \cup {NotJson} :
          IF answer # NotJson THEN Judge(r, answer)
          ELSE /\ Fail(r, IF pc[r] = "generating" THEN "invalidResponse" ELSE "schemaFailed")
               /\ UNCHANGED <<draft, calls>>
    /\ attempts' = [attempts EXCEPT ![r] = 0]
    /\ UNCHANGED <<req, at, pages, cache, cancelled>>

\* Too many requests, a server error, a timeout, no connection: tried again.
\* A refusal, or a reply that is not what the interface promises, is final.
PostFails(r) ==
    /\ Post(r)
    /\ attempts' = [attempts EXCEPT ![r] = @ + 1]
    /\ \/ CanRetry(r) /\ UNCHANGED <<pc, out, permits, slots>>
       \/ Fail(r, IF pc[r] = "generating" THEN "llmError" ELSE "schemaFailed")
    /\ UNCHANGED <<req, at, pages, calls, draft, cache, cancelled>>

Report(r) ==
    /\ pc[r] = "checked"
    /\ LET data == Deduplicated(draft[r].data, req[r].dedupe) IN
       Store(r, [ok |-> TRUE, hit |-> FALSE, data |-> data,
                 calls |-> IF draft[r].repaired THEN 2 ELSE 1,
                 cited |-> IF req[r].provenance THEN Citations(data, Context[pages[r]]) ELSE {},
                 validated |-> req[r].schema # NoSchema])
    /\ UNCHANGED <<req, at, pages, attempts, posts, calls, cache, cancelled>>

\* An arbitrary entry makes room; others may do the same before the insertion.
MakeRoom(r) ==
    /\ pc[r] = "storing"
    /\ IF Cached(r) /\ Full /\ DOMAIN cache # {}
       THEN \E k \in DOMAIN cache : cache' = [j \in DOMAIN cache \ {k} |-> cache[j]]
       ELSE cache' = cache
    /\ Goto(r, "inserting")
    /\ UNCHANGED <<req, at, pages, attempts, posts, calls, draft, out, permits, slots, cancelled>>

Insert(r) ==
    /\ pc[r] = "inserting"
    /\ cache' = IF Cached(r)
                THEN [k \in DOMAIN cache \cup {Key(r)} |-> IF k = Key(r) THEN draft[r] ELSE cache[k]]
                ELSE cache
    /\ Return(r, draft[r])
    /\ UNCHANGED <<req, at, pages, attempts, posts, calls, draft, cancelled>>

\* The holder of the token cancels; only the agent's tools hand one in.
Cancel ==
    /\ ~cancelled
    /\ cancelled' = TRUE
    /\ UNCHANGED <<pc, req, at, pages, attempts, posts, calls, draft, out, permits, slots, cache>>

Step(r) ==
    \/ Spawn(r) \/ Begin(r) \/ Fetch(r) \/ LookAt(r) \/ SelectContext(r) \/ AcquirePermit(r)
    \/ Answered(r) \/ PostFails(r) \/ Report(r) \/ MakeRoom(r) \/ Insert(r) \/ Panic(r)

Next == Cancel \/ \E r \in Requests : Step(r)

Spec == Init /\ [][Next]_vars

\* Some task is always run: every fetch and every call has its timeout, and the
\* permits come back when a task ends, even one that panics.
FairSpec == Spec /\ WF_vars(\E r \in Requests : Step(r))

-----------------------------------------------------------------------------
\* The types, and what a request may cost: at most two calls to the model, each
\* of at most 1 + MaxRetries attempts, and no permit or slot is given twice.
TypeOK ==
    /\ pc \in [Requests -> Steps]
    /\ permits \in 0 .. Permits
    /\ slots \in 0 .. MaxConcurrency
    /\ cancelled \in BOOLEAN
    /\ \A r \in Requests :
          /\ req[r] \in Kinds
          /\ at[r] \in 1 .. Len(req[r].urls) + 1
          /\ Range(pages[r]) \subseteq Range(PageOf)
          /\ calls[r] \in 0 .. 2
          /\ attempts[r] \in 0 .. MaxRetries + 1
          /\ posts[r] \in 0 .. calls[r] * (MaxRetries + 1)

\* A result that says it is validated satisfies the schema of the request it
\* answers: found by rules, coerced, repaired by a second call, thinned out by
\* the deduplication or taken from the cache, where another request put it.
ValidatedIsValid ==
    \A r \in Requests :
       /\ out[r] # Nothing
       /\ out[r].ok
       /\ out[r].validated
       => req[r].schema # NoSchema /\ Valid(out[r].data, req[r].schema)

\* The calls a result reports are those that were made for it, and a result
\* that was never asked of the model reports none.
CallsReported ==
    \A r \in Requests :
       out[r] # Nothing /\ out[r].ok =>
          IF out[r].hit
          THEN /\ calls[r] = 0
               /\ \E s \in Requests : s # r /\ calls[s] = out[r].calls
          ELSE calls[r] = out[r].calls

\* Every request and every item of a batch is answered: whatever fails, panics
\* or is cancelled, its permit and its slot go to the next.
ExtractionsAnswered ==
    \A r \in Requests : pc[r] # "new" ~> pc[r] = "done"
=============================================================================
