---------------------------- MODULE ScrapeService ----------------------------
(***************************************************************************)
(* Scrapes that run at once: ScraperService::scrape with its fetcher, its  *)
(* choice of a renderer and the browser that all of them share             *)
(* (src/src/service/, fetch/, detect/, render/, browser/).  A step ends    *)
(* where the code awaits something outside of the process or a permit.     *)
(* What a server, the parsers or the browser answer is a choice.  The      *)
(* addresses asked for parse as URLs.                                      *)
(***************************************************************************)
EXTENDS Naturals, Integers, FiniteSets, Sequences

CONSTANTS
    Scrapes,         \* the requests
    Bodies,          \* what servers send: see Body
    Threshold,       \* config.render_auto_threshold
    Configs,         \* browser_enabled, max_browser_pages, max_concurrent_scrapes
    MaxRedirects,    \* config.max_redirects
    MaxSize,         \* config.max_response_size
    MaxActions,      \* config.max_browser_actions
    NoBody, NoRequest

Kinds == {"pdf", "docx", "json", "rss", "atom", "html", "xml", "csv", "tsv", "text", "unknown"}

(* A body: the formats it shows signs of, what its header and its address  *)
(* say, whether it is printable, whether its parser accepts it; and of an  *)
(* HTML page what HttpScrapeAnalysis counts.                               *)
Body == [signs : SUBSET Kinds, header : Kinds, extension : Kinds, printable : BOOLEAN, parses : BOOLEAN,
         text : Nat, main : Nat, scripts : Nat, paragraphs : Nat,
         emptyRoot : BOOLEAN, asksForJs : BOOLEAN, skeleton : BOOLEAN, framework : BOOLEAN]

ASSUME ScrapeAssumption ==
    /\ Bodies \subseteq Body
    /\ {MaxRedirects, MaxSize, MaxActions} \subseteq Nat
    /\ Threshold \in Int /\ Configs \subseteq [enabled : BOOLEAN, pages : Nat \ {0}, scrapes : Nat \ {0}]
    /\ NoBody \notin Bodies /\ IsFiniteSet(Scrapes)

VARIABLES
    pc, asked,               \* per scrape: its place, and the request it serves
    slots,                   \* free permits of the service
    hop, size, sent,         \* the fetch: redirects, bytes read, the body
    kept,                    \* the HTTP page a scrape falls back on
    reply,                   \* the answer
    config,                  \* the configuration, read at the start
    permits,                 \* free permits of the browser
    holder,                  \* who holds the lock of the browser cell
    cell, alive,             \* a browser was launched; it still runs
    open,                    \* tabs, by the scrape that opened each
    left,                    \* history: scrapes that ended without closing their tab
    spawned                  \* history: browsers put into the cell

fetch   == <<hop, size, sent>>
browser == <<config, permits, holder, cell, alive, open, spawned>>
vars    == <<pc, asked, slots, kept, reply, left, fetch, browser>>

-----------------------------------------------------------------------------
(* What a body is, and whether HTTP is enough for it *)

Precedence == <<"pdf", "docx", "json", "rss", "atom", "html", "xml", "csv", "tsv">>

Declared(b) ==
    IF b.header # "unknown" THEN b.header
    ELSE IF b.extension # "unknown" THEN b.extension
    ELSE IF b.printable THEN "text" ELSE "unknown"

Detected(b) ==
    LET signs == SelectSeq(Precedence, LAMBDA k : k \in b.signs)
    IN IF signs = <<>> THEN Declared(b) ELSE Head(signs)

Weight(condition, n) == IF condition THEN n ELSE 0

Score(b) ==
      Weight(b.text < 200, 3)
    + Weight(b.main = 0 \/ b.text = 0, 3)
    + Weight(b.emptyRoot, 3)
    + Weight(b.asksForJs, 5)
    + Weight(b.scripts >= 5 /\ b.text < 500, 2)
    + Weight(b.skeleton /\ b.text < 400, 2)
    + Weight(b.framework /\ b.text < 300, 2)
    - Weight(b.main >= 500, 5)
    - Weight(b.text > 3000, 4)
    - Weight(b.paragraphs >= 4, 3)

NeedsBrowser(b) == Score(b) >= Threshold

(* HTML goes its own way; every other kind but the unknown has a parser.   *)
Parsed(b) == IF Detected(b) # "unknown" /\ b.parses THEN "document" ELSE "error"

-----------------------------------------------------------------------------
Init ==
    /\ pc = [s \in Scrapes |-> "new"]
    /\ asked = [s \in Scrapes |-> NoRequest]
    /\ config \in Configs /\ slots = config.scrapes /\ permits = config.pages
    /\ hop = [s \in Scrapes |-> 0] /\ size = [s \in Scrapes |-> 0] /\ sent = [s \in Scrapes |-> NoBody]
    /\ kept = {} /\ reply = [s \in Scrapes |-> "none"]
    /\ holder = {} /\ cell = FALSE /\ alive = FALSE /\ open = {}
    /\ left = {} /\ spawned = 0

(* The places a scrape goes to: an answer gives its slot back, and drops   *)
(* the request with the rest of the scrape.                                *)
Goto(s, place) == pc' = [pc EXCEPT ![s] = place] /\ UNCHANGED <<asked, reply, slots>>
Answer(s, what) ==
    /\ pc' = [pc EXCEPT ![s] = "done"] /\ asked' = [asked EXCEPT ![s] = NoRequest]
    /\ reply' = [reply EXCEPT ![s] = what] /\ slots' = slots + 1

(* scrape_browser failed: the page that HTTP brought is the answer.        *)
Lost(has)    == "error"   \* variant: the page at hand is forgotten
Without(has) == IF has THEN "fallback" ELSE "error"

Fallback(s) == Answer(s, Without(s \in kept))

ToBrowser(s, has) == IF config.enabled THEN Goto(s, "acquiring") ELSE Answer(s, Without(has))

Modes == {"auto", "http", "browser"}

Start(s) ==
    /\ pc[s] = "new"
    /\ \E m \in Modes, n \in 0..MaxActions + 1 :
          IF slots = 0 \/ (m = "browser" /\ ~config.enabled)
          THEN /\ pc' = [pc EXCEPT ![s] = "done"]
               /\ reply' = [reply EXCEPT ![s] = IF slots = 0 THEN "overloaded" ELSE "error"]
               /\ UNCHANGED <<asked, slots>>
          ELSE /\ slots' = slots - 1 /\ UNCHANGED reply
               /\ asked' = [asked EXCEPT ![s] = [mode |-> m, actions |-> n]]
               /\ pc' = [pc EXCEPT ![s] = IF m = "browser" THEN "acquiring" ELSE "fetching"]
    /\ UNCHANGED <<kept, left, fetch, browser>>

-----------------------------------------------------------------------------
(* HttpFetcher::fetch *)

(* The fetch is over, and what it held is gone.                            *)
Drop(s) == /\ hop' = [hop EXCEPT ![s] = 0] /\ size' = [size EXCEPT ![s] = 0]
           /\ sent' = [sent EXCEPT ![s] = NoBody]

FetchFails(s) == Drop(s) /\ IF asked[s].mode = "auto" THEN ToBrowser(s, FALSE) ELSE Answer(s, "error")

(* One request of the chain: refused before it is sent or without answer,  *)
(* redirected, or answered with a body whose length it may declare.        *)
Refused(s) ==
    /\ pc[s] = "fetching" /\ FetchFails(s)
    /\ UNCHANGED <<kept, left, browser>>

OneTooMany(n) == n > MaxRedirects + 1   \* variant: off by one
TooMany(n)    == n > MaxRedirects

Redirected(s) ==
    /\ pc[s] = "fetching"
    /\ \/ /\ ~TooMany(hop[s] + 1) /\ Goto(s, "fetching")
          /\ hop' = [hop EXCEPT ![s] = @ + 1] /\ UNCHANGED <<size, sent>>
       \/ FetchFails(s)
    /\ UNCHANGED <<kept, left, browser>>

Fits(n) == n <= MaxSize

Answered(s) ==
    /\ pc[s] = "fetching"
    /\ \E b \in Bodies, length \in 0..MaxSize + 1 :     \* 0: not declared
          IF Fits(length) THEN /\ Goto(s, "reading")
                               /\ sent' = [sent EXCEPT ![s] = b] /\ UNCHANGED <<hop, size>>
                          ELSE FetchFails(s)
    /\ UNCHANGED <<kept, left, browser>>

Chunk(s) ==
    /\ pc[s] = "reading"
    /\ \E n \in 1..MaxSize + 1 :
          IF Fits(size[s] + n) THEN /\ Goto(s, "reading")
                                    /\ size' = [size EXCEPT ![s] = @ + n] /\ UNCHANGED <<hop, sent>>
                               ELSE FetchFails(s)
    /\ UNCHANGED <<kept, left, browser>>

StreamBreaks(s) ==
    /\ pc[s] = "reading" /\ FetchFails(s)
    /\ UNCHANGED <<kept, left, browser>>

IsHtml(s) == Detected(sent[s]) = "html"

ReadHttp(s) ==
    /\ pc[s] = "reading" /\ asked[s].mode = "http" /\ Drop(s)
    /\ Answer(s, IF IsHtml(s) THEN "http" ELSE Parsed(sent[s]))
    /\ UNCHANGED <<kept, left, browser>>

ReadAuto(s) ==
    /\ pc[s] = "reading" /\ asked[s].mode = "auto" /\ Drop(s)
    /\ IF IsHtml(s) /\ NeedsBrowser(sent[s])
       THEN ToBrowser(s, TRUE) /\ kept' = kept \cup {s}
       ELSE Answer(s, IF IsHtml(s) THEN "http" ELSE Parsed(sent[s])) /\ UNCHANGED kept
    /\ UNCHANGED <<left, browser>>

-----------------------------------------------------------------------------
(* BrowserManager::render *)

Acquire(s) ==
    /\ pc[s] = "acquiring" /\ permits > 0
    /\ permits' = permits - 1 /\ Goto(s, "locking")
    /\ UNCHANGED <<kept, left, fetch, config, holder, cell, alive, open, spawned>>

AcquireTimesOut(s) ==
    /\ pc[s] = "acquiring" /\ permits = 0 /\ Fallback(s)
    /\ UNCHANGED <<kept, left, fetch, browser>>

(* The lock is given up at once when there is a browser, running or not,   *)
(* and held while one is launched when there is none.                      *)
Holds(s) == holder             \* variant: a failed launch leaves the lock held
Frees(s) == holder \ {s}

Lock(s) ==
    /\ pc[s] = "locking" /\ holder = {}
    /\ IF cell THEN Goto(s, "opening") /\ UNCHANGED holder
               ELSE Goto(s, "launching") /\ holder' = holder \cup {s}
    /\ UNCHANGED <<kept, left, fetch, config, permits, cell, alive, open, spawned>>

Launched(s) ==
    /\ pc[s] = "launching" /\ Goto(s, "opening")
    /\ holder' = Frees(s) /\ cell' = TRUE /\ alive' = TRUE /\ spawned' = spawned + 1
    /\ UNCHANGED <<kept, left, fetch, config, permits, open>>

LaunchFails(s) ==
    /\ pc[s] = "launching" /\ Fallback(s)
    /\ holder' = Frees(s) /\ permits' = permits + 1
    /\ UNCHANGED <<kept, left, fetch, config, cell, alive, open, spawned>>

BrowserDies ==
    /\ alive /\ alive' = FALSE /\ open' = {}
    /\ UNCHANGED <<pc, asked, slots, kept, reply, left, fetch, config, permits, holder, cell, spawned>>

Rendering == {"opening", "navigating", "settling", "acting", "content", "closing", "abandoning"}
AtBrowser == Rendering \cup {"locking", "launching"}    \* with a permit of the browser

(* render_page: the tab, the navigation, the waiting and scrolling whose   *)
(* errors are only logged, the actions, the content.                       *)
Fails(s) == Fallback(s) /\ permits' = permits + 1

(* A render that stops where it stands: its tab stays, and one that was    *)
(* being opened may yet come.                                              *)
LeavesTab(s) ==
    /\ left' = IF pc[s] \in Rendering THEN left \cup {s} ELSE left
    /\ open' \in {open} \cup (IF pc[s] = "opening" /\ alive THEN {open \cup {s}} ELSE {})

OpenTab(s) ==
    /\ pc[s] = "opening"
    /\ \/ /\ alive /\ open' = open \cup {s} /\ Goto(s, "navigating")
          /\ UNCHANGED <<permits, left>>
       \/ Fails(s) /\ LeavesTab(s)
    /\ UNCHANGED <<kept, fetch, config, holder, cell, alive, spawned>>

Advance(s, from, to) ==
    /\ pc[s] = from /\ Goto(s, to)
    /\ UNCHANGED <<kept, left, fetch, browser>>

Navigated(s) == alive /\ Advance(s, "navigating", "settling")

Settled(s) ==
    /\ pc[s] = "settling"
    /\ Advance(s, "settling", IF asked[s].actions = 0 THEN "content" ELSE "acting")

Acted(s) ==
    /\ pc[s] = "acting" /\ alive /\ asked[s].actions <= MaxActions
    /\ Advance(s, "acting", "content")

GotContent(s) == alive /\ Advance(s, "content", "closing")

\* (variant: an error returns without an attempt to close the tab)
ReturnsAtOnce(s) ==
    /\ pc[s] \in {"navigating", "acting", "content"} /\ Fails(s)
    /\ UNCHANGED <<kept, left, fetch, config, holder, cell, alive, open, spawned>>
Abandon(s) == \E from \in {"navigating", "acting", "content"} : Advance(s, from, "abandoning")

Rendered(s) == Answer(s, "browser")

(* The answer of close is ignored: a tab that could not be closed stays.   *)
CloseTab(s) ==
    /\ \/ pc[s] = "closing" /\ Rendered(s)
       \/ pc[s] = "abandoning" /\ Fallback(s)
    /\ permits' = permits + 1
    /\ \/ open' = open \ {s} /\ UNCHANGED left
       \/ UNCHANGED open /\ left' = left \cup {s}
    /\ UNCHANGED <<kept, fetch, config, holder, cell, alive, spawned>>

(* The total timeout drops render_page where it stands.                    *)
RenderTimesOut(s) ==
    /\ pc[s] \in Rendering /\ Fails(s) /\ LeavesTab(s)
    /\ UNCHANGED <<kept, fetch, config, holder, cell, alive, spawned>>

(* The client goes and the server drops the scrape where it stands: what   *)
(* it holds is given back, a launch under way is lost, and no tab closed.  *)
ClientGone(s) ==
    /\ pc[s] \notin {"new", "done"} /\ Answer(s, "dropped") /\ Drop(s)
    /\ permits' = IF pc[s] \in AtBrowser THEN permits + 1 ELSE permits
    /\ holder' = Frees(s) /\ LeavesTab(s)
    /\ UNCHANGED <<kept, config, cell, alive, spawned>>

-----------------------------------------------------------------------------
Fetching(s) == Refused(s) \/ Redirected(s) \/ Answered(s) \/ Chunk(s) \/ StreamBreaks(s)
               \/ ReadHttp(s) \/ ReadAuto(s)

Render(s) ==
    \/ Acquire(s) \/ AcquireTimesOut(s) \/ Lock(s) \/ Launched(s) \/ LaunchFails(s)
    \/ OpenTab(s) \/ Navigated(s) \/ Settled(s) \/ Acted(s) \/ GotContent(s) \/ Abandon(s)
    \/ CloseTab(s) \/ RenderTimesOut(s)

Step(s) == Start(s) \/ Fetching(s) \/ Render(s)

Next == BrowserDies \/ \E s \in Scrapes : Step(s) \/ ClientGone(s)

Spec     == Init /\ [][Next]_vars
FairSpec == Spec /\ \A s \in Scrapes : WF_vars(Step(s))

-----------------------------------------------------------------------------
Busy == {s \in Scrapes : pc[s] \notin {"new", "done"}}

(* The permits of the service and of the browser are those that running    *)
(* scrapes do not hold, and a fetch stays within its bounds of redirects   *)
(* and bytes whatever it ends in (src/src/fetch/client.rs fetch).          *)
TypeOK ==
    /\ slots = config.scrapes - Cardinality(Busy)
    /\ permits = config.pages - Cardinality({s \in Scrapes : pc[s] \in AtBrowser})
    /\ slots \in Nat /\ permits \in Nat
    /\ open \subseteq Scrapes /\ kept \subseteq Scrapes /\ holder \subseteq Scrapes
    /\ \A s \in Scrapes : hop[s] \in 0..MaxRedirects /\ size[s] \in 0..MaxSize
    /\ (alive => cell) /\ (open # {} => alive)

(* A page that HTTP brought is never lost to the browser: an automatic     *)
(* scrape that has HTML in hand answers with a page whatever the pool, the *)
(* launch, the rendering or a dying browser do, unless its client goes     *)
(* first; and a rendered page is one that a browser gave                   *)
(* (src/src/service/mod.rs scrape).                                        *)
HttpContentNeverLost ==
    \A s \in Scrapes : pc[s] = "done" =>
        /\ s \in kept => reply[s] \in {"browser", "fallback", "dropped"}
        /\ reply[s] = "browser" => cell

(* The requests share one browser: at most one ever gets into the cell,    *)
(* only a scrape that launches it holds the lock, so no request that fails *)
(* or goes keeps the others waiting.  Every error of a render comes to the *)
(* closing of its tab: a tab is of a running render, which holds a permit  *)
(* for it, or was left by a scrape whose close failed, whose tab failed to *)
(* open, which timed out or whose client went; so the tabs beyond the pool *)
(* are those (src/src/browser/manager.rs, page.rs).                        *)
BrowserShared ==
    /\ spawned <= 1
    /\ holder = {s \in Scrapes : pc[s] = "launching"}
    /\ \A s \in holder : ~cell /\ holder = {s}
    /\ \A s \in open : pc[s] \in Rendering \ {"opening"} \/ s \in left
    /\ Cardinality(open \ left) + permits <= config.pages

(* Every scrape comes to an end: no wait for a permit, the lock or a page  *)
(* is without one, also when the client of another goes.                   *)
ScrapesAnswered == \A s \in Scrapes : <>(pc[s] = "done")
=============================================================================
