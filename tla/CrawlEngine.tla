---------------------------- MODULE CrawlEngine ----------------------------
(***************************************************************************)
(* One multi-page crawl: execute_crawl (src/src/crawl/engine.rs), the      *)
(* page handler process_crawl_target (worker.rs), the bounded frontier     *)
(* (frontier.rs), the filter with its deduplicator (filters.rs, dedupe.rs) *)
(* and the counters (progress.rs).                                         *)
(*                                                                         *)
(* The workers, the sitemap task and the monitor are tokio tasks on        *)
(* several threads.  A step is the code between two accesses to what they  *)
(* share: the frontier, the atomics, the page list, the cancel token.      *)
(* Filtering a URL and pushing it are one step: the links of a page come   *)
(* in any order, so a push that comes later is a URL offered later.        *)
(* A page is its URL; what it links to and what robots.txt, the filters    *)
(* and the network say of it are constants or choices.                     *)
(***************************************************************************)
EXTENDS Naturals, Sequences, FiniteSets, Functions

CONSTANTS Urls, Seed, Workers,
          Links,        \* [Urls -> SUBSET Urls], links and canonical hint of a page
          Eligible,     \* URLs the scheme, host, asset, domain and path filters let through
          Blocked,      \* URLs robots.txt disallows
          SitemapUrls,  \* what the sitemaps list; {} without use_sitemap
          Limit, MaxDepth, MaxRetries, FrontierCapacity

Targets == [url : Urls, depth : Nat]
NoTarget == <<>>

ASSUME EngineAssumption ==
    /\ Links \in [Urls -> SUBSET Urls]
    /\ Seed \in Eligible /\ Eligible \subseteq Urls
    /\ Blocked \subseteq Urls /\ SitemapUrls \subseteq Urls
    /\ {Limit, MaxDepth, MaxRetries} \subseteq Nat
    /\ FrontierCapacity \in Nat \ {0}
    /\ IsFiniteSet(Workers) /\ Workers # {}
    /\ Cardinality(Workers) <= Limit \/ Cardinality(Workers) = 1  \* max_workers

VARIABLES
    frontier,   \* the queue of targets, oldest first
    visited,    \* the deduplicator's set
    stats,      \* CrawlProgress: its atomic counters
    active,     \* active_workers
    finished,   \* crawl_finished
    cancelled,  \* the cancel token
    pages,      \* the URLs of the collected pages
    at, target, tries, todo,  \* per worker: next step, target, attempts, links left
    sitemap,    \* the sitemap task: "off", "fetching", "pushing", "done"
    mapTodo,    \*   and the URLs it has still to push
    monitor,    \* "running", "joining", "Completed", "Cancelled"
    \* history
    refused,    \* URLs a full frontier refused
    dropped     \* URLs whose target a cancelled handler gave up

worker == <<at, target, tries, todo>>
sitemapTask == <<sitemap, mapTodo>>
vars == <<frontier, visited, stats, active, finished, cancelled, pages, worker,
          sitemapTask, monitor, refused, dropped>>

Counters == [crawled : Nat, succeeded : Nat, failed : Nat, blocked : Nat, queued : Nat]
Steps == {"loop", "pop", "popped", "process", "scrape", "wait", "links", "push",
          "leave", "none", "empty", "idle", "exit"}

TypeOK ==
    /\ frontier \in Seq(Targets) /\ visited \subseteq Urls
    /\ stats \in Counters /\ active \in Nat
    /\ finished \in BOOLEAN /\ cancelled \in BOOLEAN
    /\ pages \in Seq(Urls)
    /\ at \in [Workers -> Steps]
    /\ target \in [Workers -> Targets \cup {NoTarget}]
    /\ tries \in [Workers -> 0 .. MaxRetries]
    /\ todo \in [Workers -> SUBSET Urls]
    /\ sitemap \in {"off", "fetching", "pushing", "done"} /\ mapTodo \subseteq Urls
    /\ monitor \in {"running", "joining", "Completed", "Cancelled"}
    /\ refused \subseteq Urls /\ dropped \subseteq Urls

\* The seed is filtered and pushed before any task is spawned.
Init ==
    /\ frontier = <<[url |-> Seed, depth |-> 0]>> /\ visited = {Seed}
    /\ stats = [crawled |-> 0, succeeded |-> 0, failed |-> 0, blocked |-> 0, queued |-> 1]
    /\ active = 0 /\ finished = FALSE /\ cancelled = FALSE
    /\ pages = <<>>
    /\ at = [w \in Workers |-> "loop"]
    /\ target = [w \in Workers |-> NoTarget]
    /\ tries = [w \in Workers |-> 0] /\ todo = [w \in Workers |-> {}]
    /\ sitemap = IF SitemapUrls = {} THEN "off" ELSE "fetching"
    /\ mapTodo = {}
    /\ monitor = "running"
    /\ refused = {} /\ dropped = {}

Goto(w, step) == at' = [at EXCEPT ![w] = step]

-----------------------------------------------------------------------------
\* evaluate_url_for_crawl.
\* (variant: the deduplicator is not asked)
AllowedAgain(u, depth) == depth <= MaxDepth /\ u \in Eligible
Allowed(u, depth) == depth <= MaxDepth /\ u \in Eligible /\ u \notin visited

\* Filter a URL, enter it into the deduplicator and push it (try_push): a full
\* frontier refuses it, and it stays known.
Offer(u, depth) ==
    IF Allowed(u, depth)
    THEN /\ visited' = visited \cup {u}
         /\ IF Len(frontier) < FrontierCapacity
            THEN /\ frontier' = Append(frontier, [url |-> u, depth |-> depth])
                 /\ stats' = [stats EXCEPT !.queued = @ + 1]
                 /\ UNCHANGED refused
            ELSE refused' = refused \cup {u} /\ UNCHANGED <<frontier, stats>>
    ELSE UNCHANGED <<frontier, visited, stats, refused>>

-----------------------------------------------------------------------------
\* The loop of a worker task.
Exit(w) ==
    /\ at[w] = "loop" /\ (cancelled \/ finished)
    /\ Goto(w, "exit")
    /\ UNCHANGED <<frontier, visited, stats, active, finished, cancelled, pages, target,
                   tries, todo, sitemapTask, monitor, refused, dropped>>

\* (variant: the limit is passed before the loop notices)
LimitPassed == stats.crawled > Limit
LimitReached == stats.crawled >= Limit

Check(w) ==
    /\ at[w] = "loop" /\ ~cancelled /\ ~finished
    /\ IF LimitReached
       THEN finished' = TRUE /\ Goto(w, "exit")
       ELSE UNCHANGED finished /\ Goto(w, "pop")
    /\ UNCHANGED <<frontier, visited, stats, active, cancelled, pages, target, tries,
                   todo, sitemapTask, monitor, refused, dropped>>

TryPop(w) ==
    /\ at[w] = "pop"
    /\ IF frontier = <<>>
       THEN Goto(w, "none") /\ UNCHANGED <<frontier, target>>
       ELSE /\ frontier' = Tail(frontier)
            /\ target' = [target EXCEPT ![w] = Head(frontier)]
            /\ Goto(w, "popped")
    /\ UNCHANGED <<visited, stats, active, finished, cancelled, pages, tries, todo,
                   sitemapTask, monitor, refused, dropped>>

\* active_workers is counted up only after the pop; the handler first looks at
\* the cancel token, and gives a target up without a page.
Drop(w) ==
    /\ dropped' = dropped \cup {target[w].url}
    /\ target' = [target EXCEPT ![w] = NoTarget]
    /\ Goto(w, "leave")

Enter(w) ==
    /\ at[w] = "popped"
    /\ active' = active + 1
    /\ tries' = [tries EXCEPT ![w] = 0]
    /\ IF cancelled THEN Drop(w) ELSE Goto(w, "process") /\ UNCHANGED <<target, dropped>>
    /\ UNCHANGED <<frontier, visited, stats, finished, cancelled, pages, todo,
                   sitemapTask, monitor, refused>>

\* (variant: a worker that is through with its target stays counted)
StillActive == active
OneLess == active - 1

Leave(w) ==
    /\ at[w] = "leave"
    /\ active' = OneLess
    /\ Goto(w, "loop")
    /\ UNCHANGED <<frontier, visited, stats, finished, cancelled, pages, target, tries,
                   todo, sitemapTask, monitor, refused, dropped>>

\* The frontier was empty: when nobody is active, wait 50 ms, look at the
\* frontier and at active again, and finish; else wait 15 ms and go round.
LookActive(w) ==
    /\ at[w] = "none"
    /\ Goto(w, IF active = 0 THEN "empty" ELSE "loop")
    /\ UNCHANGED <<frontier, visited, stats, active, finished, cancelled, pages, target,
                   tries, todo, sitemapTask, monitor, refused, dropped>>

LookEmpty(w) ==
    /\ at[w] = "empty"
    /\ Goto(w, IF frontier = <<>> THEN "idle" ELSE "loop")
    /\ UNCHANGED <<frontier, visited, stats, active, finished, cancelled, pages, target,
                   tries, todo, sitemapTask, monitor, refused, dropped>>

DeclareFinished(w) ==
    /\ at[w] = "idle"
    /\ IF active = 0
       THEN finished' = TRUE /\ Goto(w, "exit")
       ELSE UNCHANGED finished /\ Goto(w, "loop")
    /\ UNCHANGED <<frontier, visited, stats, active, cancelled, pages, target, tries,
                   todo, sitemapTask, monitor, refused, dropped>>

-----------------------------------------------------------------------------
\* process_crawl_target.
Count(bySort) == stats' = [stats EXCEPT !.crawled = @ + 1, ![bySort] = @ + 1]

\* Cancelled before the fetch or in the wait before a retry: no page.
GiveUp(w) ==
    /\ at[w] \in {"process", "wait"} /\ cancelled
    /\ Drop(w)
    /\ UNCHANGED <<frontier, visited, stats, active, finished, cancelled, pages, tries,
                   todo, sitemapTask, monitor, refused>>

\* A page robots.txt disallows is counted and collected, not fetched.  When
\* robots.txt cannot be read it disallows nothing; it is read by each worker
\* that does not find it in the cache yet.
RobotsBlock(w) ==
    /\ at[w] = "process" /\ target[w].url \in Blocked
    /\ Count("blocked")
    /\ Goto(w, "push")
    /\ UNCHANGED <<frontier, visited, active, finished, cancelled, pages, target, tries,
                   todo, sitemapTask, monitor, refused, dropped>>

\* The token is looked at once more, then the page is fetched.
BeginScrape(w) ==
    /\ at[w] = "process" /\ ~cancelled
    /\ Goto(w, "scrape")
    /\ UNCHANGED <<frontier, visited, stats, active, finished, cancelled, pages, target,
                   tries, todo, sitemapTask, monitor, refused, dropped>>

\* (variant: one retry more than max_retries)
OneMoreRetry(w) == tries[w] <= MaxRetries
RetryLeft(w) == tries[w] < MaxRetries

\* An error or a retryable status with retries left: wait, and fetch again.
ScrapeAgain(w) ==
    /\ at[w] = "scrape" /\ RetryLeft(w)
    /\ tries' = [tries EXCEPT ![w] = @ + 1]
    /\ Goto(w, "wait")
    /\ UNCHANGED <<frontier, visited, stats, active, finished, cancelled, pages, target,
                   todo, sitemapTask, monitor, refused, dropped>>

Retry(w) ==
    /\ at[w] = "wait"
    /\ Goto(w, "scrape")
    /\ UNCHANGED <<frontier, visited, stats, active, finished, cancelled, pages, target,
                   tries, todo, sitemapTask, monitor, refused, dropped>>

\* A response: of status 2xx or 3xx, or another that is not retried (any more).
\* Its links are followed below the depth limit.
ScrapeOk(w) ==
    /\ at[w] = "scrape"
    /\ Count("succeeded") \/ Count("failed")
    /\ todo' = [todo EXCEPT ![w] =
                  IF target[w].depth < MaxDepth THEN Links[target[w].url] ELSE {}]
    /\ Goto(w, "links")
    /\ UNCHANGED <<frontier, visited, active, finished, cancelled, pages, target, tries,
                   sitemapTask, monitor, refused, dropped>>

\* No response and no retry left: the page is collected with its error.
ScrapeErr(w) ==
    /\ at[w] = "scrape" /\ ~RetryLeft(w)
    /\ Count("failed")
    /\ Goto(w, "push")
    /\ UNCHANGED <<frontier, visited, active, finished, cancelled, pages, target, tries,
                   todo, sitemapTask, monitor, refused, dropped>>

\* The links of the page, then its canonical hint, in any order.
OfferLink(w) ==
    /\ at[w] = "links"
    /\ \E u \in todo[w] :
          /\ todo' = [todo EXCEPT ![w] = @ \ {u}]
          /\ Offer(u, target[w].depth + 1)
    /\ UNCHANGED <<active, finished, cancelled, pages, at, target, tries, sitemapTask,
                   monitor, dropped>>

LinksDone(w) ==
    /\ at[w] = "links" /\ todo[w] = {}
    /\ Goto(w, "push")
    /\ UNCHANGED <<frontier, visited, stats, active, finished, cancelled, pages, target,
                   tries, todo, sitemapTask, monitor, refused, dropped>>

\* Back in the worker's loop: the page joins the list.
PushPage(w) ==
    /\ at[w] = "push"
    /\ pages' = Append(pages, target[w].url)
    /\ target' = [target EXCEPT ![w] = NoTarget]
    /\ Goto(w, "leave")
    /\ UNCHANGED <<frontier, visited, stats, active, finished, cancelled, tries, todo,
                   sitemapTask, monitor, refused, dropped>>

-----------------------------------------------------------------------------
\* The sitemap task: nobody waits for it.  A file that cannot be fetched lists
\* nothing.
SitemapFetched ==
    /\ sitemap = "fetching"
    /\ IF cancelled
       THEN sitemap' = "done" /\ UNCHANGED mapTodo
       ELSE sitemap' = "pushing" /\ mapTodo' \in SUBSET SitemapUrls
    /\ UNCHANGED <<frontier, visited, stats, active, finished, cancelled, pages, worker,
                   monitor, refused, dropped>>

SitemapPush ==
    /\ sitemap = "pushing" /\ ~cancelled
    /\ \E u \in mapTodo : mapTodo' = mapTodo \ {u} /\ Offer(u, 1)
    /\ UNCHANGED <<active, finished, cancelled, pages, worker, sitemap, monitor, dropped>>

SitemapEnd ==
    /\ sitemap = "pushing" /\ (cancelled \/ mapTodo = {})
    /\ sitemap' = "done" /\ mapTodo' = {}
    /\ UNCHANGED <<frontier, visited, stats, active, finished, cancelled, pages, worker,
                   monitor, refused, dropped>>

\* The monitor stops on cancellation, on its timeout or on crawl_finished, raises
\* crawl_finished, and joins the workers.
StopWaiting(timeout) ==
    /\ monitor = "running"
    /\ cancelled \/ finished \/ timeout
    /\ finished' = TRUE /\ monitor' = "joining"
    /\ UNCHANGED <<frontier, visited, stats, active, cancelled, pages, worker, sitemapTask,
                   refused, dropped>>

\* (variant: the workers are not joined)
NoJoin == TRUE
AllJoined == \A w \in Workers : at[w] = "exit"

Conclude ==
    /\ monitor = "joining" /\ AllJoined
    /\ monitor' = IF cancelled THEN "Cancelled" ELSE "Completed"
    /\ UNCHANGED <<frontier, visited, stats, active, finished, cancelled, pages, worker,
                   sitemapTask, refused, dropped>>

Cancel ==
    /\ ~cancelled /\ monitor \in {"running", "joining"}
    /\ cancelled' = TRUE
    /\ UNCHANGED <<frontier, visited, stats, active, finished, pages, worker, sitemapTask,
                   monitor, refused, dropped>>

-----------------------------------------------------------------------------
Work(w) ==
    \/ Exit(w) \/ Check(w) \/ TryPop(w) \/ Enter(w) \/ Leave(w)
    \/ LookActive(w) \/ LookEmpty(w) \/ DeclareFinished(w)
    \/ GiveUp(w) \/ RobotsBlock(w) \/ BeginScrape(w) \/ ScrapeAgain(w)
    \/ Retry(w) \/ ScrapeOk(w) \/ ScrapeErr(w) \/ OfferLink(w) \/ LinksDone(w) \/ PushPage(w)
Sitemap == SitemapFetched \/ SitemapPush \/ SitemapEnd
Monitor == StopWaiting(FALSE) \/ Conclude

Next == (\E w \in Workers : Work(w)) \/ Sitemap \/ Monitor \/ StopWaiting(TRUE) \/ Cancel

Spec == Init /\ [][Next]_vars

\* Every task runs; fetches return (their clients have timeouts).  Neither the
\* time limit nor a cancellation is counted on.
Fairness == (\A w \in Workers : WF_vars(Work(w))) /\ WF_vars(Sitemap) /\ WF_vars(Monitor)
FairSpec == Spec /\ Fairness

-----------------------------------------------------------------------------
InHand == {target[w].url : w \in {v \in Workers : target[v] # NoTarget}}
Pending == {frontier[i].url : i \in DOMAIN frontier}
Done == monitor \in {"Completed", "Cancelled"}

\* Every URL the deduplicator took is in exactly one place: waiting, with one
\* worker, collected once, refused by a full frontier or given up because of a
\* cancellation (engine.rs 176-199, worker.rs 207-234).
EveryUrlOnce ==
    /\ visited = Pending \cup InHand \cup Range(pages) \cup refused \cup dropped
    /\ Cardinality(visited) =
          Len(frontier) + Cardinality({w \in Workers : target[w] # NoTarget}) + Len(pages)
            + Cardinality(refused) + Cardinality(dropped)

\* When the crawl has concluded, the counters agree with the page list: no page
\* is counted and missing, or collected and not counted (engine.rs 247-277).
CountersMatchPages ==
    Done => /\ stats.crawled = Len(pages)
            /\ stats.crawled = stats.succeeded + stats.failed + stats.blocked

\* active_workers is the number of workers between its two updates (engine.rs
\* 179-199), whatever way the handler returned.
HandlerSteps == {"process", "scrape", "wait", "links", "push", "leave"}
ActiveCounts ==
    active = Cardinality({w \in Workers : at[w] \in HandlerSteps})

\* The limit is checked before a pop and counted after a fetch: each worker may
\* pass it by one page, no more (engine.rs 169-173, worker.rs 46, 170, 315).
OvershootBounded == stats.crawled <= Limit + Cardinality(Workers) - 1

\* The crawl concludes by itself: the limit is reached or the frontier drains,
\* and no worker waits for work for ever (engine.rs 162-249).
Concludes == <>Done
=============================================================================
