# RustCrawler in TLA+

A formal model of the crawler in `src/`: TLA+ modules translated from its Rust
code, TLC runs that check them on small instances, and proofs checked by TLAPS.
Paths below are relative to `src/src/` unless they start with `src/`.

`PROJECT.json` lists the components, the runs with their properties, the lines
each definition models (`map`), the hazards and the theorems.

    tlc -config MCTaskQueue.cfg MCTaskQueue
    tlapm TaskQueueProofs.tla

## The system

RustCrawler scrapes pages, crawls sites, maps them, extracts structured data,
answers questions from what it has indexed and runs research jobs. It has three
ways of doing many pages at once: one crawl with its own workers (`crawl/`),
background crawl jobs behind the HTTP API (`crawl/job*.rs`), and a distributed
mode with a task queue, a coordinator and workers (`distributed/`). All of them
rest on one scraper with one fetcher and one browser.

| Component | State | Operations | Talks to | What is hard |
|---|---|---|---|---|
| Task queue (`distributed/queue/memory.rs`) | deques per (type, priority), active leases, dead letters | enqueue, reserve, ack, heartbeat, retry, fail, reclaim, dlq_retry | coordinator, workers | two locks, calls of several steps, leases that expire meanwhile |
| Coordinator (`distributed/coordinator/scheduler.rs`) | none of its own | submit, pause, resume, cancel, the loop | store, queue, events | reads, awaits, then writes |
| Distributed frontier (`coordinator/frontier.rs`) | URLs known per job | insert_discovered | worker handlers | concurrent discovery of the same link |
| Metadata store (`distributed/store/`) | jobs, tasks, workers, events | insert, update, list | coordinator, workers | unconditional updates |
| Worker runtime (`distributed/worker/runtime.rs`) | one handler per lease | reserve, process_lease, handlers of fetch and sitemap tasks | queue, store, frontier, results | a handler outliving its lease |
| Host limiter (`distributed/limiter/`) | last access and semaphore per host | acquire | worker handlers | a lock held across a sleep |
| Crawl engine (`crawl/engine.rs`, `worker.rs`, `frontier.rs`, `progress.rs`) | frontier, visited set, counters, active workers, flags, pages | the worker loop, process_crawl_target, the sitemap task, the monitor | scraper, rules | the end of the crawl; limits; cancellation |
| Crawl rules (`crawl/filters.rs`, `dedupe.rs`, `robots.rs`, `sitemap.rs`, `utils/`) | visited set; robots cache | evaluate_url_for_crawl, get_or_fetch, discover_sitemap_urls | crawl engine | order of the rules, longest match, globs |
| Crawl jobs (`crawl/job.rs`, `job_store.rs`) | jobs by id; status, completion time and result of each | create, cancel, delete, snapshot | HTTP handlers, crawl engine | eviction without a lock; three locks of a snapshot |
| Incremental crawl (`crawl/incremental.rs`, `snapshot.rs`) | baselines in memory | compare a crawl with a baseline | crawl service | classification of pages |
| Scraper service (`service/mod.rs`) with fetcher, detection and render decision | permits | scrape in three modes | everything | escalation to the browser and back |
| Browser (`browser/`) | one shared browser, permits, tabs | get_or_launch, render | scraper | concurrent launch, timeouts, a dying browser |
| Documents (`document/`) | permits | parse | scraper | none on the path in use |
| Structured extraction (`extraction/`) | cache, LLM permits, batch slots | extract, extract_batch | scraper, LLM | retries, repair, cache keys, permits |
| Agent (`agent/`) | state, budgets, evidence and result of a job | submit, pause, resume, cancel, the executor | search, scraper, LLM | the client against the executor; budgets |
| Knowledge engine (`knowledge/`) | registry, vector store, lexical index, embedding cache | create, delete, put, rebuild, search, retrieve, answer | embeddings, LLM | two stores kept in step while calls overlap |
| Chunking (`knowledge/chunking/`) | none | cut Markdown, JSON, PDF pages into chunks | knowledge engine | three limits and many kinds of blocks |
| Discovery and search (`discovery/`, `search/`, `cache/`) | a cache with expiry and eviction | map, search | fetcher, scraper | bounds, duplicates, stale maps |
| Webhooks, events, crawl scheduler | - | - | - | called by no code, or nothing acts on them |
| API, command line, configuration | none | one call each | all of the above | - |

### What makes each component correct

- Task queue: a task is in exactly one place and leaves the queue only along the edges
  of the ledger, of which one loses it (a dead letter that a full queue refuses); a
  task survives its handler where the reclaiming loop runs; of a deque, first
  deliveries are first come, first served.
- Coordinator with workers: a discovered link is scheduled once, within the depth
  limit, and is fetched in the end; a job completes only when it was worked on.
- Crawl engine: every URL taken by the deduplicator is accounted for; the
  counters agree with the pages; the limit is passed by at most the other
  workers; a crawl concludes. Its rules answer as robots.txt and the patterns say.
- Crawl jobs: a snapshot is whole, what a client sees advances, a job ends.
- Scraper with its browser: a page that HTTP brought is not lost to the browser;
  one browser is launched; a tab stays open only for a named reason; every scrape is
  answered.
- Extraction: what is called validated is valid, what is reported was spent, and
  every item of a batch is answered.
- Agent: the work stays within the budget, an answer cites what this job found,
  and a job ends, as cancelled if it was cancelled while it researched.
- Chunking: no text is lost or doubled; a chunk keeps to its section, and to its
  limit as the chunker counts, while its own count passes that by rounding at most.
- Knowledge: an indexed document is found by its vectors and its words; an answer
  cites what its tenant may see of the documents both stores let through; the
  cache passes its limit by less than the permits; every call is answered.
- Discovery and search: no address twice, none beyond the rules and the depth, and
  none within them missed.

## Modules

| Module | What it is |
|---|---|
| `TaskLedger` | what the queue promises of one task: the stages of its life |
| `TaskQueue` | the queue in detail, one action per operation or per step of it |
| `TaskQueueHistory` | `TaskQueue` with history variables, for properties about the past |
| `TaskQueueProofs` | types, `OnePlace`, the refinement and `FirstDeliveryInOrder`, proved |
| `Coordinator` | scheduler, store, frontier and worker handlers over `TaskLedger` |
| `CoordinatorProofs` | types, `EnqueuedOnce` and `CompletedIsEarned`, proved |
| `CrawlEngine` | one multi-page crawl |
| `CrawlEngineProofs` | types, `active_workers`, counters, the overshoot bound and `EveryUrlOnce` of a crawl, proved |
| `CrawlRules` | robots.txt, filters, globs, normal forms and sitemaps, as operators |
| `CrawlJobs` | background crawl jobs and their store |
| `ScrapeService` | scrapes that share the fetcher, the permits and the browser |
| `ScrapeServiceProofs` | types, `HttpContentNeverLost` and `BrowserShared`, proved |
| `Extraction` | structured extraction, alone and in a batch |
| `ExtractionProofs` | types and costs, `ValidatedIsValid` and `CallsReported`, proved |
| `AgentJob` | one research job and its client |
| `AgentJobProofs` | `WorkWithinBudget` and `CitationsGrounded`, proved |
| `Chunking` | how a document is cut into chunks |
| `Knowledge` | the knowledge engine over its two stores |
| `KnowledgeProofs` | of `Knowledge`: types, permits and the cache, `IndexedIsFound` and `AnswersGrounded`; of `Chunking`: `NothingLost`, `ChunksBounded` and `SectionsKept`; proved |
| `SiteMap` | maps and searches over a shared cache |
| `ServiceProofs` | of `CrawlJobs`: types, `SnapshotWhole` and `SeenAdvances`; of `SiteMap`: types, `AnswersSound` and `NothingMissed`; proved |
| `MC*` | instances for TLC |

How they compose: `TaskQueue` implements `TaskLedger` (proved), and `Coordinator`
uses `TaskLedger` as its queue, so what it shows holds with the real queue
underneath. `CrawlJobs` uses of `CrawlEngine` only that a crawl ends, which is
`Concludes`. `MCCrawlEngine` gives `CrawlEngine` the site that `CrawlRules` makes
of concrete links, a robots.txt and sitemaps. `Extraction`, `AgentJob` and
`SiteMap` take a scrape as one step with any outcome, which `ScrapesAnswered`
justifies. `Knowledge` takes documents cut into chunks by `Chunking`.

### TaskQueue

`queue` is the concatenation of all deques: the deque of a (type, priority) key is
the subsequence of its tasks, so `push_back` appends and `push_front` prepends.
`activeLeases` maps lease ids to task, attempt and remaining time. Time counts
down (`ttl`, `availableIn`, `Tick`): only the comparison with now is used by the
code. `handling`, `failing`, `hand`, `expired` and `reviving` are the local state
of calls in progress. `enqueue` and `reserve` hold the lock of the deques
throughout and are one action; `retry` (`Retry`, `Requeue`), `fail`
(`FailLookup`, then `Retry` or `FailBury`), `reclaim_stale_leases` (`ReclaimScan`,
`ReclaimTake`, `Requeue`) and `dlq_retry` (`DlqRemove`, `DlqEnqueue`) are several.
A panicking handler is `Abandon`. The attempt number of every lease is 1
(`FirstAttempt`), as in memory.rs:116 and 122.

### Coordinator

Each `.await` that touches shared state is a step. `submission` is the progress
of `submit_job`; `slot[w]` is a handler (what it is doing, its task, the links
left and the link just discovered); `toCheck` and `finishing` are the locals of the
loop. Only seeds are stored in the store, so `taskStatus` has one entry per job.
A handler whose lease ran out keeps going (`Expire` takes its task away, `holder`
no longer names it), and its ack and fail then do nothing. Links are visited
in any order: their order changes nothing but the order in the queue, which
`TaskLedger` does not keep. IncrementalCrawl is seeded and handled as Crawl is,
Scrape as a Crawl, Extract and Agent as a Search: no work is done for them.

### CrawlEngine and CrawlRules

`at[w]` is the next step of a worker: `loop`, `pop`, `popped` (target in hand,
not counted yet), `process`, `scrape`, `wait` (before a retry), `links`, `push`,
`leave`, and `none`, `empty`, `idle` for the three looks that end a crawl. The
sitemap task and the monitor have their own state. `StopWaiting(TRUE)` is the
time limit, which may come at any moment. `Offer` is the filter with the
deduplicator, then `try_push`. `refused` and `dropped` record what the code
forgets: URLs a full frontier refused, targets a cancelled handler gave up.
The number of workers is at most the limit (engine.rs:140-144). A page that
robots.txt forbids may be scraped all the same, because a robots.txt that cannot
be fetched forbids nothing; of the sitemaps any part may fail.

In `CrawlRules` a path is a sequence of symbols and a rule a prefix of it;
`ParseRobots` folds over the lines of a robots.txt, `MatchesGlob` is the matcher
as a recursive function of two positions, `DiscoverSitemapUrls` folds rounds over
files over entries. `MCCrawlEngine` states three assumptions that TLC evaluates
before the run: `SiteFollowsRules` (the constants of the run are what the rules
make of the concrete site, with links that a filter or the normal form has to
catch), `RobotsLongestMatch` and `GlobsCutPaths` (the two algorithms against
reference definitions, over all robots.txt of five short lines and all patterns
and paths of up to three symbols).

### CrawlJobs

`creator` is a POST request, which takes no lock over its four steps; `task` the
spawned task of a job; `client` a GET request. `WriteStatus` acquires the first of
three locks that are all released with the last write, so `StatusHeld` lasts over
`WriteCompletedAt` and `WriteResult`. A client records the snapshots it gets in
`seen`.

### ScrapeService

`pc[s]` is the place of a scrape, from its permit through the fetch (redirects,
chunks of the body) and the choice of a renderer to its answer; `kept` marks the
scrapes with an HTTP page to fall back on. `Detected`, `Score` and `NeedsBrowser`
are the detector and the decision engine over what they see of a body. `permits`,
`holder`, `cell`, `alive` and `open` are the browser's semaphore, the lock of its
cell, the browser and its tabs. `BrowserDies` may happen at any time,
`RenderTimesOut` and `ClientGone` drop a render wherever it stands, and `CloseTab`
may fail, which the code ignores (browser/page.rs:52, 59, 139, 149, 166): the permit
comes back all the same. `left` is history: the scrapes that ended without closing
their tab, an opening that failed or was dropped included, whose tab may come
later.

### Extraction

One caller or one item of a batch is a task with a `pc`. A JSON scalar is the
class that coercion and validation can tell (`intText` is a text that parses as
an integer). `Coerce`, `Valid`, `ByRules` (the rules that look for fields in a
page), `Context` (the chunks that fit) and `Deduplicated` are operators;
`Answered` and `PostFails` are one HTTP attempt at the model with an answer or an
error of any kind, `Judge` and `Repair` what the repair pipeline makes of an
answer. `Key` is the key of the cache with the fields the code puts in, and only
those. The insertion is two steps, `MakeRoom` and `Insert`.

### AgentJob

`pc` is the place of the executor in `run_job`; `targets`, `queries`, `links` and
`calls` are what is left of its four loops, `back` the loop a scrape returns to.
The counters of the budget are raised before they are compared, as in the code,
so they may pass their limits; the history variables `scraped` and `searched`
count the work that was really done. A client's call is two steps, its flag and
its status (`telling`). `Reaches` is which calls the service passes on: a
background job stays in the map of active jobs (service.rs:95). A passage is stored
once per job, from whatever address it came first (evidence.rs:75-82). Plans, search
results, passages and drafts of the answer are choices.

### Chunking

One action per arm of the match on a block: `Heading`, `Oversized`, `Code`,
`TableOrList`, `Paragraph`; `Item` is one item of a JSON value, `NextPage` a page
of a PDF, `End` the last flush. A block has parts (lines, sentences, rows); a
chunk keeps the parts it holds and the texts it is joined from. The document is one of
the constant `Documents`. A text is its characters and words, which is what the
estimate of tokens reads (`Estimate`, embeddings/tokenizer.rs:10-26, the tokenizer
that service.rs:112 gives the chunker): a weighted sum rounded up, which does not add
up. So each place where the code counts is modelled with the text it counts there: a
block as a whole (`Whole`, `Size`), the blocks of a group one by one and added
(`Sizes`), the parts of a run one by one and added (`SizeOf`), a piece once more after
it was trimmed (`Trimmed`), and a chunk as its texts joined with blank lines, in their
fences (`Combined`, structural.rs:495-513). A part knows the blanks around it and
whether it goes on in the last word of the part before (`before`, `after`, `glued`).
The runs a block is split into (`Runs`) and the text that was looked at (`Spoken`) are
recursive functions, as the loops of the code are. `DocumentsAssumption` says that a
part has no more words than characters and is glued by a word it has.

### Knowledge

A call is a sequence of steps, one per access to a shared map: `indexes`, `names`
and `documents` are the engine's registry, `vectors`, `postings` and `inverted`
the two stores, `cache`, `permits` and `tasks` the batcher. `put` goes through
`Begin`, `LookUp`, `Send`, `EndTask`, `Collect` and then chunk by chunk through
both stores; `rebuild` empties them and puts the documents back. `Fused`,
`Packed` and `Lexical` are rank fusion, the packing of a context and the lexical
search over given scores. Matches of one score come in any order (the stores are
`HashMap`s, and so is the map the two rankings are fused in), so a search is the set
of rankings it may give (`Ranked`), and the action takes one of them; the sort before
the packing is stable and takes what the queries brought in their order (`Sorted`).
An embedding is the text it was computed from, so a vector filed under the wrong
chunk is visible. The task of a batch enters its vectors one at a time, and each as two
steps: whether the cache has room (`HasRoom`), then the insertion, with no lock over
both (cache.rs:69-73), so that tasks fill the cache side by side. The two stores
filter by themselves: `Passes` is what both check (vector/memory.rs, lexical/index.rs
294-346), `HasTags` what the vector store alone checks.

### SiteMap

A map is the steps of `MapService::map`: the cache, robots.txt, sitemaps one by
one, pages in batches of `MaxConcurrent`, ranking, and the cache again. `found` is
the list of links with where they come from; `known` the addresses that were
entered, into `found` or the queue; `queue` holds the pages to read; `tried` is
history. `Taken` is the check that enters an address once. The loops over tags,
links, pages and batches are recursive functions over how many were taken
(`Of`, `EnteredAll`, `FollowedAll`, `TakenAll`, `Ranked`, `Results`). `Away` is what
the properties compare a map with: the pages n links from its address. A search asks
its provider or maps a site, filters and scrapes. The cache has `get` with expiry,
and `put` with its sweep (of at most 20 expired entries) and eviction as steps
of their own.

## Runs

| Run | Result | What it shows |
|---|---|---|
| `MCTaskQueue` | pass, 120 460 states | two handlers, three tasks in two deques, five leases, a queue of two places, at most two revivals: `OnePlace`, and the refinement of `TaskLedger` |
| `MCTaskQueueLive` | pass, 112 562 | one handler, three tasks, where time passes: `FirstDeliveryInOrder`, and, under its stated hypothesis `LoopRuns`, `AbandonedTaskReturns` |
| `MCCoordinator` | pass, 233 970 | a crawl, map or search job with two handlers, a page that links to itself and another, one failing fetch and one expiring lease, a queue of one place: `EnqueuedOnce` within the depth, `CompletedIsEarned`, and (with fairness) `KnownIsFetched`; deadlock is checked |
| `MCCoordinatorFinished` | violation | `CompletedIsFinished`: a job is completed while tasks of its links wait, because only seeds are in the store |
| `MCCrawlEngine` | pass, 601 482 | four pages, two workers, a limit of two, a frontier of one place, one page robots.txt forbids, a sitemap, one retry: `EveryUrlOnce`, `CountersMatchPages`, `ActiveCounts`, `OvershootBounded`, and (with fairness) `Concludes`; and the assumptions about `CrawlRules` |
| `MCCrawlJobs` | pass, 58 701 | two jobs for one place, one client: `SnapshotWhole`, `SeenAdvances`, and (with fairness) `AcceptedEnds` |
| `MCScrape` | pass, 118 990 | two scrapes of four kinds of body, in three configurations of permits, with closes that fail and clients that go away: `HttpContentNeverLost`, `BrowserShared`, and (with fairness) `ScrapesAnswered` |
| `MCExtraction` | pass, 142 858 | two requests of seven kinds (alone, in a batch, several pages, a crawl; with and without schema, model and rules), one permit, one slot, a cache of one place, one retry, one repair: `ValidatedIsValid`, `CallsReported`, and (with fairness) `ExtractionsAnswered` |
| `MCAgentJob` | pass, 1 032 850 | seven requests in every mode, three addresses, three steps, at most two pages, two searches, two rounds, two calls of the client: `WorkWithinBudget`, `CitationsGrounded`, and (with fairness) `JobEnds` |
| `MCChunking` | pass, 134 336 | all documents of up to four of twelve blocks, all JSON values of up to four items: `NothingLost`, `ChunksBounded`, `SectionsKept` |
| `MCKnowledge` | pass, 85 727 | eleven pairs of calls that meet, on two indexes of two tenants, with two permits and a cache of one entry: the bound of the cache in `TypeOK`, `IndexedIsFound`, `AnswersGrounded`, and (with fairness) `CallsAnswered` |
| `MCSiteMap` | pass, 498 503 | seven pairs of maps and searches on a site with cycles, a query, a fragment, a subdomain and an index of sitemaps that names itself; a cache of one place: `AnswersSound`, `NothingMissed` |

Each passing run but `MCTaskQueueLive`, `MCChunking` and `MCAgentJob` also checks a
type invariant (in `AgentJob` it is a part of `WorkWithinBudget`). `PROJECT.json`
quotes, for the violation, the comment that says otherwise, and names for each
property a mutant of a modelled definition that breaks it (`AnyHand`,
`KeptLease`, ..., kept in the modules next to what they change).
`CHECK_DEADLOCK FALSE` stands where the system may rest: an idle queue, a
concluded crawl, a job that ended, all calls answered.

### Bounds, and why they are enough

- Two handlers, workers, scrapes or calls are enough for every race over one
  lease, one URL, one permit, one cache entry or one counter: the code compares
  no more than two. A third task or page lets one be in transit while two others
  race, and makes a queue of two places full.
- Leases last one unit and a failed task waits two, so that expiry, heartbeat and
  backoff overtake each other. Lease ids are reused once nobody knows them,
  and are symmetric.
- `MaxFailures` (queue) stops the revival of dead letters, `MaxFailures` and
  `MaxExpiries` (coordinator) bound how often a fetch fails or a lease expires
  per task: one of each is what a second handler of the same task needs.
- `MaxDepth` is 1 in the coordinator, the least depth with a page below
  it; 2 in the crawl, so that pages reach depth 0, 1 and 2.
- A limit of two pages with two workers and four URLs lets a crawl go past the
  limit by one, and would show it going further.
- Scrapes: one redirect and one chunk are allowed, so that the second of each is
  refused; of the configurations one has a tab for each scrape, one a tab for two,
  and one no browser.
- Extraction: the schemas have a required and an optional field, a nested limit
  that one of them exceeds, and a list; the pages and the model's answers have
  scalars that each conversion changes, and some that none does.
- Agent: the budgets run out within the plans of most modes, so that a limit is met
  in the middle of a loop: of three addresses two may be scraped, so that the page
  limit refuses one. Passages are shared by addresses; two rounds let a follow-up find
  a page again.
- Chunking: `TargetTokens` 3, `MaxTokens` 4 and `MinTokens` 2 with blocks of 1 to
  8 tokens, some of them not divisible, reach every comparison from both sides. Some
  sizes are exact and some rounded, some sentences glued, an empty block of code is a
  fence only: the allowance of `ChunksBounded` is reached, and one less is not enough.
- Knowledge: batches of at most two texts and three tokens, so that the two chunks of a
  document are one batch or two; two permits, so that two tasks run side by side, end in
  any order and both find room in a cache of one entry; a limit of one chunk per document
  where a document has two; tags that some chunks of a fused ranking lack.
- SiteMap: the limits on the addresses of a sitemap and the links of a page are one
  below what the site has, and batches of pages have two. Time advances twice, and
  an entry expires after one unit, so that one is found fresh, expired or gone.

### Fairness

- Queue: time passes, and nothing else is assumed. No code of the program spawns
  `run_scheduler_loop` (scheduler.rs:196-204), so that it scans and brings each scan to
  its end is a hypothesis (`LoopRuns`) of `AbandonedTaskReturns` itself: in the program
  as it is an abandoned task stays with its lease.
- Coordinator: `submit_job` runs on, workers poll every 100 ms
  (runtime.rs:112-138), handlers end because fetches have timeouts.
  Failures and expiries are bounded, clients are not made to act.
- Crawl engine: tasks are scheduled and fetches end; the time limit and cancellation
  are not relied on.
- Crawl jobs: spawned tasks run, `execute_crawl` returns (`Concludes`), a
  request that began continues.
- Scrapes: each scrape goes on when it can; every wait for the network or the
  browser has a timeout (fetch/client.rs, browser/manager.rs:104-131). A wait for
  a permit or the lock has to be granted in the end, which tokio's first-come
  semaphores and locks do: the property does not assume it for a step that stays
  disabled.
- Extraction, knowledge: some task that can go on does. Nothing is assumed of one
  task in particular.
- Agent: the executor runs on, since every tool call ends. The client need not act,
  and the deadline need not pass.

## Proofs

Everything below holds for every value of the constants that the named
assumption allows.

`TaskQueueProofs` (all sets of tasks, handlers and lease ids, all capacities
and durations; `QueueAssumption`):

- `TypeCorrect`: `Spec => []TypeOK`. One step per action; the assumption is needed
  for the constants' types only.
- `OnePlaceAlways`: `Spec => []OnePlace`. `OnePlace` as it stands is inductive
  relative to `TypeOK`, because it contains what the argument needs besides
  disjointness: distinct leases name distinct tasks, distinct carriers carry
  distinct tasks, and a handler that carries a task has let its lease go
  (`HandsFree`; otherwise its next retry could overwrite what it carries). The
  lemmas about sequences (`AppendFacts`, `PushFrontFacts`, `WithoutFacts`) say what
  the three writes do to a deque of distinct tasks; each action has a lemma saying
  from which place to which it moves a task.
- `LedgerImplemented`: `Spec => ImplementsLedger`. From the same lemmas: every
  step moves at most one task, and along an edge of the ledger.
- `FirstDeliveryInOrderAlways`: `HSpec => []FirstDeliveryInOrder`, about the past of
  `TaskQueueHistory`. What was handed out says nothing of what is still to come, so
  `DeliveryInv` adds where the rest is: a task that was never handed out is in the
  queue and available (`Pending`), and such tasks stand in the deque in the order
  in which they arrived (`InLine`), whatever is requeued at the back or revived at
  the front between them. `AppendInLine`, `PushFrontInLine` and `WithoutInLine` say
  that the three writes keep that order; `FirstTaken` that a reservation takes the
  first of its type and priority.

`CoordinatorProofs` (all sets of jobs, URLs and workers, all link graphs, depths,
capacities, failures and expiries; `CoordinatorAssumption`):

- `CoordInvariant`: `Spec => []CoordInv`, the inductive invariant. For
  `EnqueuedOnce` it adds where the right to enqueue a link is (`OnceInv`): a link
  that was accepted is known to the frontier (`AcceptedKnown`), one in a handler's
  hand is known and not accepted yet (`InHand`), and no two handlers hold the same
  link (`InOneHand`), because only the handler whose insertion was new gets it.
  For the depth limit it adds that a handler with links left works above the
  limit (`Below`). For completion it adds what lies between a fetch and a status
  (`Tried`, `PastFetch`, `SeedStored`).
- `CoordTypeCorrect`, `EnqueuedOnceAlways`, `CompletedIsEarnedAlways`: the three
  invariants of `MCCoordinator`.

`CrawlEngineProofs` (all sites, filters, sitemaps, numbers of workers, limits,
retries and frontier sizes; `EngineAssumption`, of which the argument needs the
constants' types and that the workers are finitely many and at least one):

- `EngineInvariant`: `Spec => []EngineInv`, the inductive invariant the other four
  follow from. Its parts: `TypeOK`; `HasTarget` (a worker in a handler holds a
  target); `ActiveCounts`; `Committed`; `Counted`; `DoneJoined` (a concluded crawl
  has joined its workers). Its proof has one lemma, `WorkerStep`, that says what a
  worker that moves from one step to another has to do to the counters, and one
  case per action that shows it does; `MoveFacts` is the fact about cardinalities
  they all rest on.
- `EngineTypeCorrect`: `Spec => []TypeOK`. Not inductive: `active` is decremented
  without a look, and stays a natural number because it is the number of handlers.
- `ActiveCountsAlways`: `Spec => []ActiveCounts`.
- `OvershootAlways`: `Spec => []OvershootBounded`. Not inductive: a worker that
  has passed the check may still count. `Committed` adds the workers between the
  check and their count: pages crawled plus these workers is at most
  `Limit + |Workers| - 1`. A check adds one of them only below the limit, and a
  count moves one from one summand to the other.
- `CountersMatchAlways`: `Spec => []CountersMatchPages`. `Counted` adds the workers
  that have counted a page and not yet collected it; at the end there are none,
  because the monitor joins.
- `EveryUrlOnceAlways`: `Spec => []EveryUrlOnce`. It counts the places of each URL,
  and a pop, a push or an offer moves one URL from one place to the next:
  `OnceOffer`, `OncePop`, `OnceDrop` and `OncePush` show each keeps the sum. To be
  inductive it needs that a worker has a target only while it handles one
  (`OnlyWhileHandled`), or a target could be counted with a worker that is through
  with it.

`ServiceProofs`, first part, about `CrawlJobs` (all sets of jobs and requests, every
size of the store; `JobsAssumption`, the names of what is absent):

- `JobsInvariant`: `Spec => []JobsInv`, the inductive invariant: `TypeOK`, what the
  task of a job has written at each of its steps (`TaskInv`), and what a request
  has read (`ClientInv`). The heart is `ReadsOver`: a request that has read a final
  status waits no more for the writer, since the status is released only with the
  last of the three writes; so the time and the result it reads next are there.
- `JobsTypeCorrect`, `SnapshotWholeAlways`.
- `SeenAdvancesAlways`: `Spec => SeenAdvances`, an action property. A poll that
  began before another step may end after it, so `SeenInv` relates three copies of
  a status: what a client has seen is not ahead of the job (`NotAhead`), and what it
  is reading is not behind what it has seen (`NotBehind`).

`ServiceProofs`, second part, about `SiteMap` (all sites, sitemaps and requests, every
finite number of calls, all limits and whatever the cache holds at the start;
`BoundsAssumption`, `CallsAssumption`, `AddressesAssumption`: a normal form is its own
normal form and of the same host and path, `PagesAssumption`: what a page or a
sitemap names is an address, and `CachedAssumption`: the cache starts with maps, none
by these calls):

- `MapInvariant`: `MapSpec => []MapInv`, the inductive invariant. `Phase` says of a call
  at each place in the code what it has found so far; `CacheOK` that an entry is of a
  call that has gone on since, so that what a call is served is never its own map;
  `RoomKept` that entries and calls about to store are together at most `MaxEntries`
  and one for each of the other calls. The size check and the insertion are apart, so
  the cache alone may pass its size, and by how much is not inductive by itself.
- `Exploring` is what `NothingMissed` needs in the middle of the walk. While there is
  room, each address that was entered is listed (`Placed`); a page in the queue is as
  far away as it says (`OnTheWay`); of a page that answered every allowed link is known,
  and a page in the queue for it is at most one step deeper (`LinksKnown`). That
  last part holds only because pages are read in the order of their depth
  (`InOrder`): a page that was entered from afar first would not have its links
  followed, though a shorter way leads to it.
- `BatchKeeps` and `TakenKeeps`: a batch is taken out of the queue, read together, and
  its pages' links entered one by one; each of these keeps `Exploring`. `WalkReaches`:
  when no page is left, what is n links away is known and on no page that is deeper,
  level by level; `WalkConcludes` that it is then listed, or the links are as many as
  the walk may collect.
- `RankedFacts`: ranking gives the same links once each in the order of the scores;
  `MapConcludes`, `ResultsFacts`, `ScrapedFacts` that cutting to the limit, filtering and
  scraping keep what was shown.
- Each recursive function has a lemma that it exists and goes step by step
  (`OfSteps` to `AwaySteps`), by `Recursion` and `Climb` (below, under `KnowledgeProofs`).
- `MapTypeCorrect`, `AnswersSoundAlways`, `NothingMissedAlways`: the three invariants of
  `MCSiteMap`.

`ScrapeServiceProofs` (all sets of scrapes, bodies and configurations, all limits;
`ScrapeAssumption`, of which the argument needs that the scrapes are finitely many
and that a pool has a place):

- `ServiceInvariant`: `Spec => []ServiceInv`, the inductive invariant. To `TypeOK`,
  which counts the permits, it adds where a scrape with a page in hand may be and
  how it may end (`PageInv`), that a cell is empty while its lock is held by a
  launch, and filled for good afterwards (`LockInv`), and whose the tabs are
  (`TabInv`): a render's that holds its permit, so that tabs of that kind are no more than
  the permits, or one of `left`. `Moved` is the fact about cardinalities the permits rest on: a scrape
  that moves takes one, gives one back, or neither.
- `ServiceTypeCorrect`; `HttpContentNeverLostAlways` from `PageInv`;
  `BrowserSharedAlways` from `LockInv` and `TabInv`.

`ExtractionProofs` (all sets of requests, pages, schemas and answers, all limits;
`LimitsAssumption` and `InputsAssumption`, which says that the addresses of a request
have pages and that an answer lists its objects):

- `ExtractionInvariant`: `Spec => []ExtractionInv`, the inductive invariant: permits
  and slots are with the requests that hold them (`PermitInv`, `SlotInv`), what a
  request has cost by its place (`CostInv`), and that a result is sound wherever it
  is: checked, to be stored, returned, or in the cache (`CheckedInv`, `StoredInv`,
  `OutInv`, `CacheInv`). The cache is the point: a hit returns what another request
  computed, for a schema that is the same only because it is a part of the key.
- `DeduplicatedValid`: the objects that are left of a valid array are valid. What is
  kept is the k-th of a set of indices; that it exists is proved by a least
  counterexample (`LeastElement`, `KthElement`), the form of induction over the
  naturals the provers can follow.
- `ExtractionTypeCorrect`, `ValidatedIsValidAlways`, `CallsReportedAlways`.

`AgentJobProofs` (all sets of addresses and passages, all requests, plans and
budgets; `AgentAssumption`):

- `AgentInvariant`: `Spec => []AgentInv`, the inductive invariant. The counters pass
  their limits, because they are raised before they are compared; so the work is
  bounded by relating it to the counters (`BudgetInv`): no more pages were visited
  than counted, and none beyond the limit. `StoreInv` says that a page is visited
  when its scrape starts, and that the evidence is of visited pages, no passage
  twice; `AnswerInv` that an answer is given when the evidence changes no more.
- `WorkWithinBudgetAlways`, `CitationsGroundedAlways`.

`KnowledgeProofs` (all sets of calls, indexes, documents and chunks, every answer of
the provider, all rankings and all limits; `BoundsAssumption`, and `InputsAssumption`,
which says that documents hold chunks, of which there are finitely many, that no call
has the identifier of an index that is there from the start, that a call puts a
document there is, and that the limit it asks for is a natural number):

- `KnowledgeInvariant`: `Spec => []KnowledgeInv`, the inductive invariant. Every
  action touches one call's place and at most a part of what is shared; the lemmas
  `StepFrame` and `StepActs` say so once, and a lemma for each part of the invariant
  (`PlaceStep`, `RegistryStep`, `TasksStep`, `PermitStep`, `EntriesStep`,
  `EmbeddingStep`, `KeptStep`) looks only at what its part reads.
- `KeptInv` is what `IndexedIsFound` needs. For each of the three stores: a chunk that
  a call has supplied (`Supplies`) to an index that is there is in that store, or some
  rebuild owes it (`Owes`): it has emptied that store and not supplied the chunk
  itself. The stores are kept apart because a rebuild empties them one after the
  other. Said of all three together, two rebuilds that are half through would each
  be excused by the other, and none would be left to put the chunk back.
- That an index is never made again after it was deleted (`Made`, `PlaceInv`) keeps
  a late put or rebuild of a deleted index from counting.
- `BatchesCover`: every chunk is in the cache or in a batch; it is about a recursive
  function, and proved by a least counterexample (`LeastElement`). `CacheStep`: what is in
  the cache is right, and `CacheBounded` is inductive with the tasks that have looked and
  not inserted yet (`Rooms`): entries and these tasks are together at most the limit and one
  less than the permits, since a task looks only while it holds a permit. With
  `TaskInv` and `EmbeddingInv`, which tie each task to a batch that was sent and not
  collected, the vectors that are stored are those of their own chunks, in whatever
  order the tasks end.
- `HitsInv` is what `AnswersGrounded` needs: whatever a call has found so far, in this
  query or an earlier one, it may see (`Seen`), and what it has packed is each chunk
  once and within its limits (`Fits`). It rests on `TenantsInv`: an entry is of the
  tenant of its index also after that index is gone, because an identifier is never
  used twice. Nothing is assumed of the scores. `RankedFacts` and `FusedBrings` say
  that ranking, fusion and the choice by document bring nothing that was not matched,
  and no chunk twice; `SortedOnce` and `PackedFacts` that what is sorted once over all
  queries and cut to the budget keeps both. The tags are kept by a
  search by vectors alone, and `Seen` says no more.
- `KnowledgeTypeCorrect`, `IndexedIsFoundAlways`, `AnswersGroundedAlways`.

Its last part is about `Chunking` (all documents, of any length, and all three limits;
`TokensAssumption` and `DocumentsAssumption`):

- `Recursion` says that a function that is defined step by step exists and obeys its
  definition, `Climb` that what holds at the start and is kept by each step holds at the
  end. From them come the facts about sums and flattened sequences (`SumConcat`,
  `FlattenConcat`), about the runs of a block (`RunsFacts`: together they are the block,
  and each is within the limit or a single part) and about the text looked at
  (`SpokenFacts`).
- The estimate does not add up, so `ChunksBounded` relates two counts of the same chunk:
  the sum the chunker compared with its limits, and `token_count`, of the joined text.
  `EstimateAbove` and `EstimateBelow` bound the estimate of a text by its characters and
  words from both sides (`Blend`, with the rounding of `CeilingFacts`); `SumsWeighed` adds
  that up over the texts of a chunk, and `Recounted` concludes that their joined text, in
  fences and with at most two characters between two texts, comes to no more than
  `Allowed`. `JoinedFacts`, `WholeFacts` and `SizesFacts` supply it with what blocks,
  pieces and groups are made of.
- `ChunkingInvariant`: the inductive invariant. `NothingLost` needs that the group holds
  places of blocks that were looked at, `ChunksBounded` that `tokens` is the sum of
  its blocks' counts and that this sum is within the bound of a chunk (`Bounded`), `SectionsKept`
  that the path ends with the last separator before the next block (`PathKept`) and that
  the blocks of the group are all of the section that goes on (`Grouped`).
- `NothingLostAlways`, `ChunksBoundedAlways`, `SectionsKeptAlways`: the three invariants
  of `MCChunking`, for documents of any length and limits in any order.

### Only model-checked

Everything under fairness, since the prover has neither ENABLED nor weak fairness:
`AbandonedTaskReturns`, `KnownIsFetched`, `Concludes`, `AcceptedEnds`,
`ScrapesAnswered`, `ExtractionsAnswered`, `JobEnds` and `CallsAnswered`. All other
properties of the passing runs are theorems. `CrawlRules` is checked by the assumptions
of `MCCrawlEngine` on concrete inputs only: its folds over lines and sitemaps take an
operator as an argument, which the provers do not instantiate, so `CrawlEngineProofs`
takes what they decide as constants. `CompletedIsFinished` does not hold.

What a recursive function computes is proved where a property needs it, and no more:
that `TokensIn` is within the budget, for one, needs nothing of what it computes,
since `Packed` compares that very sum.

## Observations, not run

Statements about the code that reading it for the models brought up. Those that
disagree with a comment, test or document quote it.

Distributed mode:

- Every lease is numbered attempt 1 (queue/memory.rs:122), and no requeue keeps a
  count: with `max_attempts` of 2 or more, `fail` never buries a task as "Max
  attempts exceeded" (memory.rs:173).
- `reclaim_stale_leases` collects expired keys and removes each later without a
  second look (memory.rs:243): a lease renewed in between is taken, and the
  handler's ack then takes the branch "Already ACKed or expired" (memory.rs:148).
- `reserve` scans six of nine task types (queue/memory.rs:77-84): tasks of the
  types IndexChunk, EmbedChunk and AgentTask are never handed out, although
  `can_handle` (models.rs:161-177) gives each a worker type and an agent job is
  seeded with one (scheduler.rs:73). In `TaskQueue` they are never `Candidates`.
- The loop writes Completed to a job it listed some awaits earlier
  (scheduler.rs:227): a cancellation in between is overwritten, although
  `test_job_submission_and_lifecycle` expects a cancelled job to stay so
  (scheduler.rs:289).
- Only `resume_job` writes `Running`: a submitted job stays Queued, and the loop
  never lists it (scheduler.rs:57, 211). No code spawns the loop, or renews a
  lease.
- `dlq_retry` takes the record out of the dead letters before it enqueues
  (memory.rs:291-302): a task that a full queue refuses is then nowhere. It is the edge
  of the ledger from reviving to lost.
- A discovered link is known to the frontier before it is enqueued, and a refusal by the
  queue is ignored (runtime.rs:277-295): it is never fetched. `KnownIsFetched` excuses
  exactly these. A handler that panicked between the two would lose its link as well; in
  `Coordinator` a handler may lose its lease there, but not die.
- A handler whose lease was taken away writes its task's status all the same
  (runtime.rs:200-214): a late Failed may overwrite a Completed.
- Requeued tasks go to the front of their deque (memory.rs:185, 249), so a task that keeps
  being requeued keeps others waiting; nothing bounds that, because attempts are not
  counted.
- The seed is not entered into the distributed frontier (scheduler.rs:109): a page
  that links to it gets it fetched a second time.
- The host limiter holds a read guard across its sleep, and the insertion that
  follows blocks a thread on it (limiter/host_limiter.rs:19-40); two holders of a
  permit read the same last access and skip the delay between them.
- Each command of the command line builds its own in-memory queue
  (main.rs:1157-1310): a worker command never sees the tasks of another process.
- The webhook dispatcher is called by no code outside its file.

Crawls:

- A target is popped before `active_workers` is counted up (engine.rs:176, 179), and
  the two looks at 204-206 are apart: a worker can declare the crawl finished while
  another holds a target, whose links are then lost. The comment says "If queue is
  empty and no workers are currently fetching/parsing, we are done" (engine.rs:202).
- `process_crawl_target` never asks its `CrawlScheduler` (crawl/worker.rs:24): the
  number of workers is the only bound on fetches of one host.
- The page limit of a crawl is passed by up to one page per other worker
  (engine.rs:169-173); `OvershootBounded` is the bound that does hold.
- Two requests may both find the last place of the job store free and insert
  (job_store.rs:34), and each later creation evicts one: it then holds more than
  the "Maximum concurrent background crawl jobs retained in memory"
  (src/README.md:97).
- `evict_oldest_completed` (job_store.rs:85) evicts the oldest job, running or not:
  such a job runs on and can no longer be found or cancelled.
- robots.rs:133 says "If disallow matches and is strictly longer than allow match,
  block"; the code blocks on a tie as well.
- In robots.txt, a group whose only rule is an empty "Disallow:" does not end
  (robots.rs:42-44): its agent gets the rules of the next group. Of several groups
  for "*" the last counts, of several that fit the first, and an agent fits if the
  user agent contains it. The delay is parsed and never used.
- A robots.txt that could not be fetched is cached as one that forbids nothing, for
  the whole crawl (robots.rs:199-209).
- In a glob, "**/secret" matches "/docs/mysecret": the slash after "**" is skipped
  (utils/patterns.rs:27). Of a repeated query key only the last value is kept
  (dedupe.rs:59-66).
- An incremental crawl looks for a baseline that nothing but a successful
  incremental crawl saves; without one it answers that there is none. Pages of
  the baseline that a crawl did not reach for its limit count as deleted.

Scrapes, extraction, agent:

- A browser that died is never replaced: the cell keeps it (browser/manager.rs:57).
  A render that the total timeout drops leaves its tab open
  (browser/manager.rs:114-131), as does a request whose client goes away. The answer of
  `page.close()` is ignored (browser/page.rs:52, 59, 139, 149, 166), and the permit comes
  back in each case, so tabs may be more than the permits. `active_pages` in the health
  report (browser/manager.rs:41) counts permits, not tabs.
- An item of a batch that panics is counted as failed and has no entry in the results
  (extraction/service.rs:556-565): `total` is then less than the items sent.
- Evidence is said to be inserted "deduplicating identical content hashes from the same
  URL" (agent/evidence.rs:75); the check looks at the hash alone (evidence.rs:78), so a
  passage that two pages have is stored for the first only. `WorkWithinBudget` states
  what the code does.
- The prompt says "return null or omit it" of a value that is not there
  (extraction/llm.rs:35); the repair enters a null for what was omitted
  when missing fields are to be null
  (extraction/repair.rs:111), and a null fails the validation of an optional field. An array given for an object becomes an empty object.
- The key of the extraction cache has neither the mode nor what to do with missing
  fields, nor provenance or deduplication (extraction/cache.rs:23-37). `Error` for
  missing fields behaves like `Omit`. Data found by rules that fails validation
  is still a success. A cut inside a character panics (extraction/context.rs,
  provenance.rs). The extraction job store is called by no code.
- A background research job that ended stays in the map of active jobs, whose clone
  copied its entries (agent/service.rs:95): pause, "Pauses an active research job"
  (agent/service.rs:182), resume and cancel then overwrite its status.
- A pause ends the research and the job completes; a cancellation after the last
  look at the flag is answered as cancelled and the job completes.
- "removing invalid hallucinations" (agent/citations.rs:33): the citations are
  removed, their marks in the text stay.
- `stats.pages_examined` counts pages the budget refused.

Knowledge, discovery, search:

- A rebuild takes the documents of every index and tenant (knowledge/service.rs:473):
  those of others come into this index, and those of deleted ones come back.
- Two creations of one name may leave an index that no name leads to
  (service.rs:153-162). A document that is being indexed when its index is deleted
  leaves entries behind. A failed embedding leaves a rebuilt index half empty.
- A filter is "Strongly typed filter applied before/during retrieval"
  (knowledge/models.rs:130). The lexical index never looks at its tags
  (lexical/index.rs:294-346), which the vector store does (vector/memory.rs:208), and
  neither looks at `content_type`, `date_from` or `date_to`: a search by words, and a
  hybrid one, bring documents without the tags asked for, and no search minds the last
  three. `AnswersGrounded` claims the tags of a search by vectors only.
- The cache of embeddings checks its size and inserts without a lock over both
  (embeddings/cache.rs:69-73): tasks that run side by side take it beyond
  `max_entries`, by up to one less than the permits.
- A chunk is not held to its limit by its own `token_count`, which counts the joined text
  with its fences and blank lines (chunking/structural.rs:512-513), while the limits were
  compared with sums of estimates each rounded by itself. How far the two differ is the
  second half of `ChunksBounded`.
- Every put is a new document, and `document_count` grows with each rebuild. Search
  by words only ignores `max_chunks_per_document`.
- Chunking says it is "preserving heading hierarchy" (knowledge/chunking/structural.rs:44);
  when a level is skipped, a later heading of the same level nests under its
  sibling (line 80). A section with a heading only is in no chunk; `overlap_tokens`
  is not used.
- A map that was cached for another limit, depth or set of filters is returned as it
  is (discovery/service.rs:68), although a map is to "Enforce limit"
  (discovery/service.rs:150). `AnswersSound` speaks of maps that were made for the
  request, and of searches over any map.
- Pages that a sitemap lists are never read for links; when sitemaps give exactly as
  many links as were asked for, no page is read at all. A host that merely ends
  with the name of the site counts as a subdomain (discovery). A search for a
  domain written with its scheme finds nothing.
- Nothing is ever put into the local search index.

## Not modelled

- Host limiter: what it is for is wall-clock time between two requests, and its
  hazard turns on which thread of the runtime is blocked.
- Webhook dispatcher, crawl scheduler, stores of extraction jobs and deliveries, the
  pool of document parsers: no code calls them.
- Events and the registry of workers: nothing acts on them.
- Incremental crawl: cannot succeed as the program calls it (above).
- Parsers of HTML and documents, main content, Markdown, links: pure functions of
  text.
- API routes, command line, configuration, errors: formatting, and constants that
  the models take as parameters. The measuring tool is not part of the program.
- Of the modelled components: the cache of robots.txt per host, statistics nothing
  decides on, retry delays, captured network responses, the agent's table of MCP
  tools, the deduplication of chunks, and reading or deleting stored results.

## What is left

Liveness beyond the instances that TLC checks, the components listed above, and a
`CrawlEngine` whose rules are those of `CrawlRules` for every site and not only for
that of its run.
