--------------------------- MODULE MCCrawlEngine ---------------------------
(***************************************************************************)
(* Instances of CrawlEngine on a small site, and the rules of CrawlRules   *)
(* against reference definitions.  home links to a and b, a back to home   *)
(* and to c, with links the filters refuse among them; b is disallowed by  *)
(* robots.txt; an index of sitemaps lists c.                               *)
(***************************************************************************)
EXTENDS CrawlEngine, CrawlRules, TLC

CONSTANTS home, a, b, c

\* The site: what each page links to, as the parser finds it.
Plain(path) == [scheme |-> "https", host |-> <<"site", "org">>, path |-> path, ext |-> "",
                query |-> << >>, fragment |-> ""]
With(path, query) == [Plain(path) EXCEPT !.query = query]
Options == [documentTypes |-> {"html", "pdf"}, subdomains |-> TRUE, include |-> {},
            exclude |-> {<<"**", "/", "x", "/", "*">>}, allowPrivate |-> FALSE,
            privateHosts |-> {<<"localhost">>}, ignoreQuery |-> FALSE, removeTracking |-> TRUE,
            tracking |-> {"ref"}]
Address == home :> Plain(<<"/">>) @@ a :> Plain(<<"/", "a">>) @@ b :> Plain(<<"/", "b">>)
        @@ c :> With(<<"/", "c">>, <<<<"q", "1">>>>)
Hrefs ==
    home :> {With(<<"/", "a">>, <<<<"ref", "home">>>>), Plain(<<"/", "b">>),
             [Plain(<<"/", "logo">>) EXCEPT !.ext = "png"], Plain(<<"/", "a", "/", "x", "/", "y">>)}
 @@ a :> {[Plain(<<"/">>) EXCEPT !.fragment = "top"],
          With(<<"/", "c">>, <<<<"q", "0">>, <<"ref", "a">>, <<"q", "1">>>>),
          [Plain(<<"/">>) EXCEPT !.host = <<"my", "site", "com">>]}
 @@ b :> {} @@ c :> {}

Robots == ParseRobots(<<
    [key |-> "user-agent", value |-> "other"], [key |-> "disallow", value |-> <<"/">>],
    [key |-> "user-agent", value |-> "*"], [key |-> "disallow", value |-> <<"/", "b">>],
    [key |-> "allow", value |-> <<"/">>], [key |-> "sitemap", value |-> "index"]>>)
Files == "index" :> <<[sitemap |-> TRUE, loc |-> "index"], [sitemap |-> TRUE, loc |-> "pages"]>>
      @@ "pages" :> <<[sitemap |-> FALSE, loc |-> c]>>

\* The engine's constants, and that they are what the rules make of the site: the
\* filters see an address as it is found, the deduplicator its normal form.
MCLinks == home :> {a, b} @@ a :> {home, c} @@ b :> {} @@ c :> {}
MCBlocked == {b}
ASSUME SiteFollowsRules ==
    LET Form(u) == Normalize(Address[u], Options)
        Passing(hrefs) == {l \in hrefs : PassesFilters(l, Address[home], Options)}
    IN  /\ Eligible = {u \in Urls : PassesFilters(Address[u], Address[home], Options)}
        /\ \A u \in Urls : Links[u] = {v \in Urls : \E l \in Passing(Hrefs[u]) :
                                                      Normalize(l, Options) = Form(v)}
        /\ \A u \in Urls : Cardinality(Passing(Hrefs[u])) = Cardinality(Links[u])
        /\ Blocked = {u \in Urls : ~RobotsAllow(Robots, {"rustcrawler"}, Address[u].path)}
        /\ SitemapUrls = Range(DiscoverSitemapUrls(Robots.sitemaps, "default", Files, Limit))
Symmetry == Permutations(Workers)

-----------------------------------------------------------------------------
Texts(symbols, n) == UNION {[1 .. k -> symbols] : k \in 0 .. n}

\* robots.txt: a path is allowed when every rule that disallows it is beaten by
\* a longer one that allows it, and the group of the user agent is the one that
\* is asked (robots.rs 107-141).
RuleLines == {[key |-> k, value |-> v] : k \in {"allow", "disallow"}, v \in Texts({"/", "b"}, 2)}
ASSUME RobotsLongestMatch ==
    \A l, m, n \in RuleLines, path \in Texts({"/", "b"}, 3) :
       LET lines == <<[key |-> "user-agent", value |-> "us"], l, m,
                      [key |-> "user-agent", value |-> "*"], n>>
           Beaten(rules, r) == \E s \in rules : /\ s.key = "allow" /\ IsPrefix(s.value, path)
                                                /\ Len(s.value) > Len(r.value)
           Free(rules) == \A r \in rules :
              r.key = "disallow" /\ r.value # << >> /\ IsPrefix(r.value, path) => Beaten(rules, r)
           heard == \E r \in {l, m} : r.value # << >>
       IN  /\ heard => RobotsAllow(ParseRobots(lines), {"us"}, path) = Free({l, m})
           /\ heard => RobotsAllow(ParseRobots(lines), {"them"}, path) = Free({n})
           /\ ~heard => RobotsAllow(ParseRobots(lines), {"us"}, path) = Free({n})

\* Globs: a pattern matches the paths that can be cut into one piece for each
\* of its tokens; "**" takes any piece, with a "/" that follows it
\* (utils/patterns.rs 1-64).
Tokens(pattern) ==
    SelectSeq([i \in DOMAIN pattern |-> IF i > 1 /\ pattern[i] = "/" /\ pattern[i - 1] = "**"
                                        THEN "" ELSE pattern[i]], LAMBDA t : t # "")
Denotes(token, piece) ==
    CASE token = "**" -> TRUE
      [] token = "*" -> "/" \notin Range(piece)
      [] token = "?" -> Len(piece) = 1 /\ piece # <<"/">>
      [] OTHER -> piece = <<token>>
ASSUME GlobsCutPaths ==
    \A pattern \in Texts({"/", "x", "?", "*", "**"}, 3), path \in Texts({"/", "x"}, 3) :
       LET tokens == Tokens(pattern)
           n == Len(tokens)
           Cuts == {f \in [0 .. n -> 0 .. Len(path)] : f[0] = 0 /\ f[n] = Len(path)}
       IN  MatchesGlob(pattern, path) <=>
              \E f \in Cuts : \A i \in 1 .. n :
                 f[i - 1] <= f[i] /\ Denotes(tokens[i], SubSeq(path, f[i - 1] + 1, f[i]))
=============================================================================
