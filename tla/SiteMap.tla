------------------------------ MODULE SiteMap ------------------------------
(***************************************************************************)
(* MapService (discovery/service.rs) with its cache (cache/store.rs), and  *)
(* SearchService (search/service.rs), which maps a site or asks a provider.*)
(* The site is a constant: its addresses, what they normalise to, the      *)
(* links of its pages and its sitemaps; whether a fetch is answered is a   *)
(* choice.  Calls run at the same time and meet in the cache.              *)
(***************************************************************************)
EXTENDS Integers, Sequences, SequencesExt, FiniteSets

CONSTANTS
    Calls,
    Requests,        \* what the calls ask for: [Calls -> requests]
    Normal, Bare,    \* normalised addresses, with and without their query
    HostOf, PathOf,
    Within,          \* [hosts -> the hosts whose names end with that name]
    LinksOf,         \* [addresses -> the addresses their pages link to]
    RobotsSitemaps,  \* the sitemaps robots.txt names, in their order
    Files,           \* the sitemaps there are: [addresses -> sequences of tags]
    Fit,             \* [tokens -> [addresses -> [title, path, text: 0 .. 2]]]
    SiteOf,          \* [domains of a search -> the addresses that are mapped for them]
    Containing,      \* [domains -> the hosts that contain them]
    Provided,        \* [the providers that are registered -> what they answer]
    MaxFiles, MaxUrls, MaxSitemapDepth,
    MaxLinks,        \* max_page_links_discovered
    MaxConcurrent,   \* max_concurrent_discovery_fetches
    MaxResults, MaxScrapes,
    CacheEnabled, MaxEntries, TimeToLive,
    Cached,          \* [keys -> answers]: what earlier calls left in the cache
    MaxTime,         \* bound of the clock
    Nothing

ASSUME BoundsAssumption ==
    /\ {MaxConcurrent, MaxResults, MaxEntries} \subseteq Nat \ {0}
    /\ {MaxFiles, MaxUrls, MaxSitemapDepth, MaxLinks, MaxScrapes, TimeToLive, MaxTime}
          \subseteq Nat
    /\ Cardinality(DOMAIN Cached) <= MaxEntries

Addresses == DOMAIN Normal

\* There are calls, and a request has a limit that is a number of links.
ASSUME CallsAssumption ==
    /\ IsFiniteSet(Calls) /\ Calls # {} /\ Nothing \notin Calls
    /\ \A asked \in Requests : \A c \in Calls :
          /\ asked[c].kind \in {"map", "search"}
          /\ asked[c].limit \in Nat
          /\ asked[c].search \in Seq(DOMAIN Fit) \cup {Nothing}
          /\ asked[c].kind = "map" => asked[c].depth \in Nat

\* A normal form has one of its own, with the host and the path of its address
\* (normalize_crawl_url): a fragment, a default port and parts of a query go.
ASSUME AddressesAssumption ==
    \A form \in {Normal, Bare} :
       /\ form \in [Addresses -> Addresses]
       /\ \A u \in Addresses : /\ form[form[u]] = form[u]
                               /\ HostOf[form[u]] = HostOf[u] /\ PathOf[form[u]] = PathOf[u]

\* What a link, a sitemap or a provider names has been parsed as an address.
ASSUME PagesAssumption ==
    /\ \A u \in DOMAIN LinksOf : LinksOf[u] \in Seq(Addresses)
    /\ \A p \in DOMAIN Provided : Provided[p] \in Seq(Addresses)
    /\ \A u \in DOMAIN Files :
          /\ DOMAIN Files[u] = 1 .. Len(Files[u]) /\ Len(Files[u]) \in Nat
          /\ \A n \in DOMAIN Files[u] :
                Files[u][n].kind = "url" => Files[u][n].loc \in Addresses

VARIABLES
    cache,     \* [keys -> answers]
    now,
    pc, req,
    ask,       \* the request for a map, that of a call or the one its search makes
    maps,      \* sitemaps to read: sequences of [url, depth]
    visited,   \* sitemaps read
    found,     \* the links so far, with where they come from and if they were read
    known,      \* addresses in found or in the queue
    queue,     \* pages to read: sequences of [url, depth]
    tried,     \* history: [url, depth, ok] of the pages that were asked for
    reply

exploring == <<maps, visited, found, known, queue, tried>>
mapping == <<cache, now, pc, req, ask, exploring, reply>>

Sources == {"sitemap", "seed", "link", "web"}
Links == [url : Addresses, source : Sources, read : BOOLEAN, score : Int \cup {Nothing}]

\* What the cache holds when the calls begin nobody of them has made.
ASSUME CachedAssumption ==
    /\ IsFiniteSet(DOMAIN Cached)
    /\ \A k \in DOMAIN Cached :
          Cached[k] \in [ok : {TRUE}, by : {Nothing}, made : {0}, links : Seq(Links)]

First(n, s) == SubSeq(s, 1, IF Len(s) < n THEN Len(s) ELSE n)
Set(f, c, value) == [f EXCEPT ![c] = value]
Goto(c, step) == pc' = Set(pc, c, step)
Return(c, answer) == Goto(c, "done") /\ reply' = Set(reply, c, answer)
Fail(c, kind) == Return(c, [ok |-> FALSE, error |-> kind])

MapInit ==
    /\ cache = Cached /\ now = 0
    /\ pc = [c \in Calls |-> "new"]
    /\ req \in Requests
    /\ ask = [c \in Calls |-> Nothing]
    /\ maps = [c \in Calls |-> << >>]
    /\ visited = [c \in Calls |-> {}]
    /\ found = [c \in Calls |-> << >>]
    /\ known = [c \in Calls |-> {}]
    /\ queue = [c \in Calls |-> << >>]
    /\ tried = [c \in Calls |-> {}]
    /\ reply = [c \in Calls |-> Nothing]

-----------------------------------------------------------------------------
\* The rules a request sets for its links.

Normalised(u, r) == IF r.bare THEN Bare[u] ELSE Normal[u]

Allowed(u, r) ==
    /\ IF r.subdomains THEN HostOf[u] \in Within[HostOf[r.url]] ELSE HostOf[u] = HostOf[r.url]
    /\ r.include # {} => PathOf[u] \in r.include
    /\ PathOf[u] \notin r.exclude

Link(u, source, read) == [url |-> u, source |-> source, read |-> read, score |-> Nothing]
Urls(links) == {links[i].url : i \in DOMAIN links}

\* The places of the tags of a kind among the first n.
Of(kind, tags, n) ==
    LET of[k \in 0 .. n] ==
            IF k = 0 THEN << >>
            ELSE IF tags[k].kind = kind THEN Append(of[k - 1], k) ELSE of[k - 1]
    IN  of[n]

\* A sitemap's tags in their order until there are enough of a kind.  It is an
\* index if a sitemap is in it; one that breaks off at once is an error.
Parsed(tags) ==
    LET ends == {n \in DOMAIN tags : \/ tags[n].kind = "broken"
                                     \/ /\ tags[n].kind # "root"
                                        /\ Len(Of(tags[n].kind, tags, n)) >= MaxUrls}
        last == IF ends = {} THEN Len(tags) ELSE CHOOSE n \in ends : \A m \in ends : n <= m
        urls == Of("url", tags, last)
        children == Of("sitemap", tags, last)
    IN  [ok |-> urls # << >> \/ children # << >> \/ Of("broken", tags, last) = << >>,
         index |-> children # << >> \/ Of("root", tags, last) # << >>,
         urls |-> [i \in DOMAIN urls |-> tags[urls[i]].loc],
         children |-> [i \in DOMAIN children |-> tags[children[i]].loc]]

\* Variant for the mutants: an address is entered however often it is found.
Listed(s, u, r) ==
    LET n == Normalised(u, r) IN
    IF Len(s.found) >= 2 * r.limit \/ ~Allowed(n, r) THEN s
    ELSE [found |-> Append(s.found, Link(n, "sitemap", FALSE)), known |-> s.known \cup {n}]

\* One address of a sitemap, unless there are enough.
Entered(s, u, r) ==
    LET n == Normalised(u, r) IN
    IF Len(s.found) >= 2 * r.limit \/ ~Allowed(n, r) \/ n \in s.known THEN s
    ELSE [found |-> Append(s.found, Link(n, "sitemap", FALSE)), known |-> s.known \cup {n}]

EnteredAll(s, urls, r) ==
    LET entered[n \in 0 .. Len(urls)] ==
            IF n = 0 THEN s ELSE Entered(entered[n - 1], urls[n], r)
    IN  entered[Len(urls)]

\* What a page that was read gives: its first links, normalised.
PageLinks(u) ==
    LET links == First(MaxLinks, LinksOf[u]) IN [i \in DOMAIN links |-> Normal[links[i]]]

\* One of these links, of a page that was read at this depth.
Followed(s, u, r, depth) ==
    LET n == Normalised(u, r) IN
    IF ~Allowed(n, r) \/ n \in s.known THEN s
    ELSE [known |-> s.known \cup {n},
          queue |-> Append(s.queue, [url |-> n, depth |-> depth + 1]),
          found |-> IF Len(s.found) < 2 * r.limit
                    THEN Append(s.found, Link(n, "link", FALSE)) ELSE s.found]

FollowedAll(s, links, r, depth) ==
    LET followed[n \in 0 .. Len(links)] ==
            IF n = 0 THEN s ELSE Followed(followed[n - 1], links[n], r, depth)
    IN  followed[Len(links)]

\* A page that was read: what it is called is kept with its link, or it becomes one.
Noted(links, p, r) ==
    LET n == Normalised(p.url, r) IN
    IF n \in Urls(links)
    THEN [i \in DOMAIN links |-> IF links[i].url = n THEN [links[i] EXCEPT !.read = TRUE] ELSE links[i]]
    ELSE IF Allowed(p.url, r)
    THEN Append(links, Link(n, IF p.depth = 0 THEN "seed" ELSE "link", TRUE))
    ELSE links

\* Variant for the mutants: the links of the pages one step earlier are left out.
TakenEarly(s, p, r) ==
    LET noted == [s EXCEPT !.found = Noted(s.found, p, r)] IN
    IF p.depth + 1 >= r.depth THEN noted
    ELSE FollowedAll(noted, PageLinks(p.url), r, p.depth)

Taken(s, p, r) ==
    LET noted == [s EXCEPT !.found = Noted(s.found, p, r)] IN
    IF p.depth >= r.depth THEN noted
    ELSE FollowedAll(noted, PageLinks(p.url), r, p.depth)

\* The pages of a batch in their order; one that could not be read is passed over.
TakenAll(s, batch, ok, r) ==
    LET taken[n \in 0 .. Len(batch)] ==
            IF n = 0 THEN s
            ELSE IF ok[n] THEN Taken(taken[n - 1], batch[n], r) ELSE taken[n - 1]
    IN  taken[Len(batch)]

\* Ranking.  A token counts 40 or 20 tenths for a title, 25 or 12 for a path and
\* 10 or 5 for a description; titles and descriptions are those of pages read.
Weight(n, whole, part) == CASE n = 2 -> whole [] n = 1 -> part [] OTHER -> 0

Points(l, q) ==
    Weight(Fit[q][l.url].path, 25, 12)
    + (IF l.read THEN Weight(Fit[q][l.url].title, 40, 20) + Weight(Fit[q][l.url].text, 10, 5)
       ELSE 0)

Total(l, tokens) ==
    LET total[n \in 0 .. Len(tokens)] ==
            IF n = 0 THEN 0 ELSE total[n - 1] + Points(l, tokens[n])
    IN  total[Len(tokens)]

Score(l, tokens) ==
    LET percent == (Total(l, tokens) * 200 + 75 * Len(tokens)) \div (150 * Len(tokens))
    IN  IF percent < 1 THEN 1 ELSE IF percent > 99 THEN 99 ELSE percent

Scored(l, tokens) == [l EXCEPT !.score = Score(l, tokens)]

\* A link comes before those of a lower score: the sort is stable.
RankedIn(links, l) ==
    LET lower == {n \in DOMAIN links : links[n].score < l.score}
        place == IF lower = {} THEN Len(links) + 1
                 ELSE CHOOSE n \in lower : \A m \in lower : n <= m
    IN  InsertAt(links, place, l)

Ranked(links, tokens) ==
    LET ranked[n \in 0 .. Len(links)] ==
            IF n = 0 THEN << >> ELSE RankedIn(ranked[n - 1], Scored(links[n], tokens))
    IN  IF tokens \in {Nothing, << >>} THEN links ELSE ranked[Len(links)]

-----------------------------------------------------------------------------
\* What is common to a map that was made or cached: the call returns it, or goes
\* on with its search.
Served(c, map) ==
    IF req[c].kind = "map" THEN Return(c, map)
    ELSE Goto(c, "filter") /\ reply' = Set(reply, c, map)

Key(r) == <<r.url, r.search>>

\* The request of a search for one site (search/service.rs).
SiteMapOf(r, limit) ==
    [kind |-> "map", url |-> SiteOf[r.domain], limit |-> limit, search |-> r.search, subdomains |-> FALSE,
     sitemap |-> TRUE, include |-> {}, exclude |-> {}, bare |-> TRUE, depth |-> 2]

Clamped(limit) == IF limit < 1 THEN 1 ELSE IF limit > MaxResults THEN MaxResults ELSE limit

\* The map service is asked for a map, its own request or one for a search.
Asks(c, r) ==
    IF r.url \notin Addresses THEN Fail(c, "invalidUrl") /\ ask' = ask
    ELSE ask' = Set(ask, c, r) /\ Goto(c, "lookup") /\ reply' = reply

Start(c) ==
    /\ pc[c] = "new"
    /\ LET r == req[c] IN
       IF r.kind = "map" THEN Asks(c, r)
       ELSE IF r.mode = "local" THEN   \* nothing is ever put into the local index
            Served(c, [ok |-> TRUE, by |-> c, made |-> now, links |-> << >>]) /\ ask' = ask
       ELSE IF r.mode = "site" /\ r.domain # Nothing THEN
            Asks(c, SiteMapOf(r, Clamped(r.limit)))
       ELSE IF r.provider \notin DOMAIN Provided THEN Fail(c, "notConfigured") /\ ask' = ask
       ELSE Goto(c, "provider") /\ UNCHANGED <<ask, reply>>
    /\ UNCHANGED <<cache, now, req, exploring>>

Provider(c) ==
    /\ pc[c] = "provider"
    /\ \/ Fail(c, "provider")
       \/ LET urls == Provided[req[c].provider] IN
          Served(c, [ok |-> TRUE, by |-> c, made |-> now,
                     links |-> [i \in DOMAIN urls |-> Link(urls[i], "web", FALSE)]])
    /\ UNCHANGED <<cache, now, req, ask, exploring>>

\* The key is the address and the query, whatever else the request asks for.
Lookup(c) ==
    /\ pc[c] = "lookup"
    /\ LET k == Key(ask[c]) IN
       IF ~CacheEnabled \/ k \notin DOMAIN cache THEN Goto(c, "robots") /\ reply' = reply
       ELSE IF now >= cache[k].made + TimeToLive THEN Goto(c, "expired") /\ reply' = reply
       ELSE Served(c, cache[k])
    /\ UNCHANGED <<cache, now, req, ask, exploring>>

\* Whatever is under the key by now.
Expire(c) ==
    /\ pc[c] = "expired"
    /\ cache' = [k \in DOMAIN cache \ {Key(ask[c])} |-> cache[k]]
    /\ Goto(c, "robots")
    /\ UNCHANGED <<now, req, ask, exploring, reply>>

ToPages(c) ==
    /\ queue' = Set(queue, c, <<[url |-> ask[c].url, depth |-> 0]>>)
    /\ known' = Set(known, c, known[c] \cup {Normalised(ask[c].url, ask[c])})
    /\ Goto(c, "pages")

\* Links enough come from the sitemaps, or the pages are read too.
AfterSitemaps(c) ==
    IF Len(found[c]) >= ask[c].limit
    THEN Goto(c, "concluding") /\ UNCHANGED <<queue, known>>
    ELSE ToPages(c)

\* The standard places are tried after those that robots.txt names, if it answers.
StandardSitemaps == <<"sitemap.xml", "sitemap_index.xml">>

Robots(c) ==
    /\ pc[c] = "robots"
    /\ IF ~ask[c].sitemap THEN AfterSitemaps(c) /\ maps' = maps
       ELSE /\ \E named \in {RobotsSitemaps, << >>} :
                  LET all == named \o SelectSeq(StandardSitemaps, LAMBDA m : m \notin Range(named))
                  IN  maps' = Set(maps, c, [i \in DOMAIN all |-> [url |-> all[i], depth |-> 0]])
            /\ Goto(c, "sitemaps")
            /\ UNCHANGED <<queue, known>>
    /\ UNCHANGED <<cache, now, req, ask, visited, found, tried, reply>>

MoreSitemaps(c) ==
    maps[c] # << >> /\ Cardinality(visited[c]) < MaxFiles /\ maps[c][1].depth <= MaxSitemapDepth

\* One sitemap of the queue, which may not answer.  The sitemaps of an index are
\* entered one level deeper; with links enough the rest of the queue is dropped.
ReadSitemap(c) ==
    /\ pc[c] = "sitemaps" /\ MoreSitemaps(c)
    /\ LET m == maps[c][1]
           opened == visited[c] \cup {m.url}
           file == IF m.url \in DOMAIN Files THEN Parsed(Files[m.url]) ELSE [ok |-> FALSE]
           read == EnteredAll([found |-> found[c], known |-> known[c]], file.urls, ask[c])
       IN  /\ visited' = Set(visited, c, opened)
           /\ \/ maps' = Set(maps, c, Tail(maps[c])) /\ UNCHANGED <<found, known>>
              \/ /\ m.url \notin visited[c] /\ file.ok /\ file.index
                 /\ maps' = Set(maps, c, FoldLeft(
                        LAMBDA q, u : IF u \in opened \/ Len(q) >= MaxFiles THEN q
                                      ELSE Append(q, [url |-> u, depth |-> m.depth + 1]),
                        Tail(maps[c]), file.children))
                 /\ UNCHANGED <<found, known>>
              \/ /\ m.url \notin visited[c] /\ file.ok /\ ~file.index
                 /\ found' = Set(found, c, read.found)
                 /\ known' = Set(known, c, read.known)
                 /\ maps' = Set(maps, c, IF Len(read.found) >= 2 * ask[c].limit THEN << >>
                                         ELSE Tail(maps[c]))
    /\ UNCHANGED <<cache, now, pc, req, ask, queue, tried, reply>>

SitemapsRead(c) ==
    /\ pc[c] = "sitemaps" /\ ~MoreSitemaps(c)
    /\ AfterSitemaps(c)
    /\ UNCHANGED <<cache, now, req, ask, maps, visited, found, tried, reply>>

\* The first pages of the queue are read side by side, and taken in their order
\* when they have answered; a page that cannot be read is passed over.
ReadPages(c) ==
    /\ pc[c] = "pages" /\ queue[c] # << >> /\ Len(found[c]) < 2 * ask[c].limit
    /\ LET batch == First(MaxConcurrent, queue[c]) IN
       \E ok \in [DOMAIN batch -> BOOLEAN] :
          LET start == [found |-> found[c], known |-> known[c],
                        queue |-> SubSeq(queue[c], Len(batch) + 1, Len(queue[c]))]
              s == TakenAll(start, batch, ok, ask[c])
          IN  /\ \A i \in DOMAIN batch : ok[i] => batch[i].url \in DOMAIN LinksOf
              /\ found' = Set(found, c, s.found)
              /\ known' = Set(known, c, s.known)
              /\ queue' = Set(queue, c, s.queue)
              /\ tried' = Set(tried, c, tried[c] \cup {[url |-> batch[i].url, depth |-> batch[i].depth,
                                                        ok |-> ok[i]] : i \in DOMAIN batch})
    /\ UNCHANGED <<cache, now, pc, req, ask, maps, visited, reply>>

PagesRead(c) ==
    /\ pc[c] = "pages" /\ (queue[c] = << >> \/ Len(found[c]) >= 2 * ask[c].limit)
    /\ Goto(c, "concluding")
    /\ UNCHANGED <<cache, now, req, ask, exploring, reply>>

Conclude(c) ==
    /\ pc[c] = "concluding"
    /\ LET map == [ok |-> TRUE, by |-> c, made |-> now,
                   links |-> First(ask[c].limit, Ranked(found[c], ask[c].search))] IN
       IF TimeToLive = 0 \/ ~CacheEnabled THEN Served(c, map)
       ELSE Goto(c, "full") /\ reply' = Set(reply, c, map)
    /\ UNCHANGED <<cache, now, req, ask, exploring>>

-----------------------------------------------------------------------------
\* put

SweepSize == 20

Sweep(c) ==
    /\ pc[c] = "full"
    /\ IF Cardinality(DOMAIN cache) < MaxEntries THEN cache' = cache /\ Goto(c, "storing")
       ELSE /\ LET expired == {k \in DOMAIN cache : now >= cache[k].made + TimeToLive} IN
               \E gone \in SUBSET expired :
                  /\ gone = expired \/ Cardinality(gone) = SweepSize
                  /\ Cardinality(gone) <= SweepSize
                  /\ cache' = [k \in DOMAIN cache \ gone |-> cache[k]]
            /\ Goto(c, "evicting")
    /\ UNCHANGED <<now, req, ask, exploring, reply>>

\* Variant for the mutants: the sweep is thought to have made room.
NoEviction(c) ==
    /\ pc[c] = "evicting"
    /\ cache' = cache
    /\ Goto(c, "storing")
    /\ UNCHANGED <<now, req, ask, exploring, reply>>

\* Still full: any one entry goes.
EvictEntry(c) ==
    /\ pc[c] = "evicting"
    /\ IF Cardinality(DOMAIN cache) < MaxEntries THEN cache' = cache
       ELSE \E k \in DOMAIN cache : cache' = [l \in DOMAIN cache \ {k} |-> cache[l]]
    /\ Goto(c, "storing")
    /\ UNCHANGED <<now, req, ask, exploring, reply>>

Store(c) ==
    /\ pc[c] = "storing"
    /\ cache' = [k \in DOMAIN cache \cup {Key(ask[c])} |->
                   IF k = Key(ask[c]) THEN reply[c] ELSE cache[k]]
    /\ Served(c, reply[c])
    /\ UNCHANGED <<now, req, ask, exploring>>

-----------------------------------------------------------------------------
\* The second half of a search.

Wanted(host, r) ==
    /\ r.domain # Nothing => host \in Containing[r.domain]
    /\ \A d \in r.excluded : host \notin Containing[d]

\* Variant for the mutants: one page is given as often as it is found.
KeptTwice(results, l, r) ==
    LET u == Normal[l.url] IN
    IF Wanted(HostOf[u], r) THEN Append(results, Link(u, l.source, FALSE)) ELSE results

\* Each result once, of the domain that was asked for and no other that was not
\* wanted.
Kept(results, l, r) ==
    LET u == Normal[l.url] IN
    IF Wanted(HostOf[u], r) /\ u \notin Urls(results)
    THEN Append(results, Link(u, l.source, FALSE)) ELSE results

Results(links, r) ==
    LET kept[n \in 0 .. Len(links)] ==
            IF n = 0 THEN << >> ELSE Kept(kept[n - 1], links[n], r)
    IN  First(Clamped(r.limit), kept[Len(links)])

Filter(c) ==
    /\ pc[c] = "filter"
    /\ LET results == Results(reply[c].links, req[c])
           answer == [reply[c] EXCEPT !.links = results]
       IN  IF req[c].scrape /\ results # << >>
           THEN Goto(c, "scraping") /\ reply' = Set(reply, c, answer)
           ELSE Return(c, answer)
    /\ UNCHANGED <<cache, now, req, ask, exploring>>

\* The first results are scraped side by side; one that fails stays without.
ScrapeResults(c) ==
    /\ pc[c] = "scraping"
    /\ \E ok \in SUBSET (1 .. MaxScrapes) :
          LET links == reply[c].links IN
          Return(c, [reply[c] EXCEPT !.links =
              [i \in DOMAIN links |-> Link(links[i].url, links[i].source, i \in ok)]])
    /\ UNCHANGED <<cache, now, req, ask, exploring>>

Tick ==
    /\ now < MaxTime
    /\ now' = now + 1
    /\ UNCHANGED <<cache, pc, req, ask, exploring, reply>>

Step(c) ==
    \/ Start(c) \/ Provider(c) \/ Lookup(c) \/ Expire(c) \/ Robots(c) \/ ReadSitemap(c)
    \/ SitemapsRead(c) \/ ReadPages(c) \/ PagesRead(c) \/ Conclude(c)
    \/ Sweep(c) \/ EvictEntry(c) \/ Store(c) \/ Filter(c) \/ ScrapeResults(c)

MapNext == Tick \/ \E c \in Calls : Step(c)

MapSpec == MapInit /\ [][MapNext]_mapping

-----------------------------------------------------------------------------
\* Calls that find the cache full at the same time each make room for one: it
\* passes its size by no more than there are other calls (cache/store.rs).
MapTypeOK ==
    /\ Cardinality(DOMAIN cache) <= MaxEntries + Cardinality(Calls) - 1
    /\ \A k \in DOMAIN cache : cache[k].ok /\ cache[k].by \in Calls \cup {Nothing} /\ cache[k].made <= now
    /\ \A c \in Calls : Urls(found[c]) \cup known[c] \subseteq Addresses

Made(c) == pc[c] = "done" /\ req[c].kind = "map" /\ reply[c].ok /\ reply[c].by = c

\* What is n links away from the address of a request, by pages that answered.
LinkedFrom(us, r, pages) ==
    LET answered == {t.url : t \in {t \in pages : t.ok /\ t.url \in us}}
        linked == UNION {{Normalised(l, r) : l \in Range(PageLinks(u))} : u \in answered}
    IN  {u \in linked : Allowed(u, r)}

Away(r, pages) ==
    LET level[n \in 0 .. r.depth] ==
            IF n = 0 THEN {r.url} ELSE LinkedFrom(level[n - 1], r, pages)
    IN  level

\* Each address is in the links once.
Distinct(links) == \A i, j \in DOMAIN links : links[i].url = links[j].url => i = j

\* A link keeps to the rules of its request, and is no farther away than it asks.
SoundLink(l, r, pages) ==
    /\ Allowed(l.url, r)
    /\ l.source = "link" => \E n \in 1 .. r.depth : l.url \in Away(r, pages)[n]
    /\ l.source = "seed" => l.url = Normalised(r.url, r)

SoundMap(links, r, pages) ==
    /\ Distinct(links) /\ Len(links) <= r.limit
    /\ \A i \in DOMAIN links : SoundLink(links[i], r, pages)
    /\ r.search \notin {Nothing, << >>} =>
          \A i, j \in DOMAIN links : i < j => links[i].score >= links[j].score

\* A map that was made for a request has each address once, keeps to the rules
\* and the limit it sets, holds nothing that is farther away than it asks or in
\* no sitemap, and is in the order of the scores (map).
MapsSound == \A c \in Calls : Made(c) => SoundMap(reply[c].links, ask[c], tried[c])

\* Whatever is within reach is in the links, and was asked for if no sitemap
\* lists it.
CompleteMap(links, r, pages) ==
    \A n \in 1 .. r.depth : \A u \in Away(r, pages)[n] :
       \E i \in DOMAIN links :
          /\ links[i].url = u
          /\ links[i].source # "sitemap" => \E t \in pages : Normalised(t.url, r) = u

\* A map with fewer links than it may have has all that can be reached in as
\* many steps as it asks for, and each of these pages was asked for, but those
\* that a sitemap lists (crawl_html_discovery).
NothingMissed ==
    \A c \in Calls :
       Made(c) /\ Len(reply[c].links) < ask[c].limit =>
          CompleteMap(reply[c].links, ask[c], tried[c])

\* A search has each address once, within its limit, of the domains that were
\* asked for and none that was not wanted, whether the map it rests on was made
\* or cached (search/service.rs).
SoundResults(links, r) ==
    /\ Distinct(links) /\ Len(links) <= Clamped(r.limit)
    /\ \A i \in DOMAIN links : Wanted(HostOf[links[i].url], r)

SearchesSound ==
    \A c \in Calls :
       pc[c] = "done" /\ req[c].kind = "search" /\ reply[c].ok => SoundResults(reply[c].links, req[c])

\* Whatever a call is answered is sound: a map that was made, and a search.
AnswersSound == MapsSound /\ SearchesSound
=============================================================================
