----------------------------- MODULE MCSiteMap -----------------------------
(***************************************************************************)
(* A site of a few pages with a query, a fragment and a subdomain, an      *)
(* index of sitemaps that names itself, and calls that share the cache.    *)
(***************************************************************************)
EXTENDS SiteMap, TLC

MCNormal == "/" :> "/" @@ "/a" :> "/a" @@ "/a?q" :> "/a?q" @@ "/a#f" :> "/a" @@ "/b" :> "/b"
         @@ "/c" :> "/c" @@ "sub/" :> "sub/" @@ "far/" :> "far/"
MCBare == [MCNormal EXCEPT !["/a?q"] = "/a"]
MCHostOf == [u \in DOMAIN MCNormal |-> IF u \in {"sub/", "far/"} THEN u ELSE "site"]
MCPathOf == [u \in DOMAIN MCNormal |-> IF u \in {"sub/", "far/"} THEN "/" ELSE MCBare[u]]
MCWithin == "site" :> {"site", "sub/"}
MCLinksOf == "/" :> <<"/a#f", "/a?q", "far/", "sub/">> @@ "/a" :> <<"/b", "/">>
          @@ "/a?q" :> <<"/c", "/a">> @@ "/b" :> <<"/c">> @@ "sub/" :> <<"/c">>

MCRobotsSitemaps == <<"sitemap.xml", "news">>
Tag(kind, loc) == [kind |-> kind, loc |-> loc]
MCFiles == "sitemap.xml" :> <<Tag("root", ""), Tag("sitemap", "sitemap.xml"), Tag("sitemap", "m1")>>
        @@ "m1" :> <<Tag("url", "/a#f"), Tag("url", "/c"), Tag("broken", ""), Tag("url", "/b")>>
        @@ "news" :> <<Tag("broken", "")>>
        @@ "sitemap_index.xml" :> <<Tag("url", "/a?q"), Tag("url", "/b"), Tag("url", "/c")>>

Fits(t, p, x) == [title |-> t, path |-> p, text |-> x]
MCFit == "q" :> [u \in DOMAIN MCNormal |-> CASE u = "/c" -> Fits(2, 1, 0) [] u = "/a" -> Fits(0, 2, 1)
                                              [] u = "sub/" -> Fits(1, 0, 2) [] OTHER -> Fits(0, 0, 0)]
MCSiteOf == "site" :> "/" @@ "http://site" :> "/"
MCContaining == "site" :> {"site"} @@ "http://site" :> {} @@ "far" :> {"far/"}
MCProvided == "external" :> <<"/a#f", "/a", "far/", "/b", "/c">>

\* The cache is full, of a map that nobody asks for any more.
MCCached == <<"/old", Nothing>> :> [ok |-> TRUE, by |-> Nothing, made |-> 0, links |-> << >>]

Map == [kind |-> "map", url |-> "/", limit |-> 5, search |-> Nothing, subdomains |-> FALSE,
        sitemap |-> FALSE, include |-> {}, exclude |-> {}, bare |-> FALSE, depth |-> 2]
Search == [kind |-> "search", mode |-> "web", search |-> <<"q">>, limit |-> 2, domain |-> Nothing,
           excluded |-> {"far"}, provider |-> "external", scrape |-> TRUE]

Meeting(a, b) == {[c \in Calls |-> IF c = "c1" THEN a ELSE b]}
MCRequests ==
    UNION {Meeting(Map, [Map EXCEPT !.limit = 1]),
           Meeting([Map EXCEPT !.subdomains = TRUE, !.search = <<"q">>, !.depth = 1], Map),
           Meeting([Map EXCEPT !.search = <<"q">>, !.exclude = {"/b"}],
                   [Search EXCEPT !.mode = "site", !.domain = "site"]),
           Meeting([Map EXCEPT !.sitemap = TRUE, !.limit = 2, !.include = {"/a", "/c"}, !.bare = TRUE],
                   [Search EXCEPT !.mode = "site", !.domain = "http://site"]),
           Meeting([Map EXCEPT !.sitemap = TRUE, !.limit = 6], [Map EXCEPT !.url = "ftp:"]),
           Meeting(Search, [Search EXCEPT !.mode = "local"]),
           Meeting([Search EXCEPT !.scrape = FALSE], [Search EXCEPT !.provider = "mock"])}
=============================================================================
