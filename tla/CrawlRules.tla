----------------------------- MODULE CrawlRules -----------------------------
(***************************************************************************)
(* What a crawl may fetch, as operators: the rules of robots.txt           *)
(* (crawl/robots.rs), the static filters of a candidate URL                *)
(* (crawl/filters.rs, utils/patterns.rs, utils/domain.rs), the normal form *)
(* by which URLs are deduplicated (crawl/dedupe.rs), and the URLs that     *)
(* the sitemaps list (crawl/sitemap.rs).                                   *)
(*                                                                         *)
(* A path or a rule is a sequence of symbols, "/" among them; a host is    *)
(* the sequence of its labels.  A URL is a record of its scheme, host,     *)
(* path, extension, query (a sequence of pairs) and fragment.              *)
(***************************************************************************)
EXTENDS Naturals, Sequences, SequencesExt, FiniteSetsExt

-----------------------------------------------------------------------------
\* ParsedRobots::parse, line by line.  A line is a key and a value; the rules
\* of a group go to all user-agent lines before its first rule.
NoRules == [allows |-> {}, disallows |-> {}, delay |-> 0]
NoRobots == [agents |-> << >>, rules |-> NoRules, groups |-> << >>, default |-> NoRules,
             sitemaps |-> << >>]

\* The group ends: the last one for "*" is the default, the others are kept.
EndGroup(robots) ==
    LET Assign(r, agent) ==
          IF agent = "*" THEN [r EXCEPT !.default = r.rules]
          ELSE [r EXCEPT !.groups = Append(@, [agent |-> agent, rules |-> r.rules])]
    IN  [FoldLeft(Assign, robots, robots.agents) EXCEPT !.agents = << >>, !.rules = NoRules]

\* A rule without a value is no rule, and does not end the list of agents.
ReadLine(robots, line) ==
    CASE line.key = "user-agent" ->
           LET r == IF robots.rules = NoRules THEN robots ELSE EndGroup(robots)
           IN  [r EXCEPT !.agents = Append(@, line.value)]
      [] line.key = "allow" /\ line.value # << >> ->
           [robots EXCEPT !.rules.allows = @ \cup {line.value}]
      [] line.key = "disallow" /\ line.value # << >> ->
           [robots EXCEPT !.rules.disallows = @ \cup {line.value}]
      [] line.key = "crawl-delay" /\ line.value > 0 -> [robots EXCEPT !.rules.delay = line.value]
      [] line.key = "sitemap" -> [robots EXCEPT !.sitemaps = Append(@, line.value)]
      [] OTHER -> robots

ParseRobots(lines) == EndGroup(FoldLeft(ReadLine, NoRobots, lines))

\* get_rules_for_agent: the first group whose agent the user agent contains;
\* userAgent is the set of the agents it contains.
RulesFor(robots, userAgent) ==
    LET named == SelectSeq(robots.groups, LAMBDA g : g.agent \in userAgent)
    IN  IF named = << >> THEN robots.default ELSE named[1].rules

Longest(rules, path) == Max({0} \cup {Len(r) : r \in {s \in rules : IsPrefix(s, path)}})

\* is_path_allowed: the longest match decides, and of two the disallow.
RobotsAllow(robots, userAgent, path) ==
    LET rules == RulesFor(robots, userAgent)
        disallowed == Longest(rules.disallows, path)
    IN  disallowed = 0 \/ disallowed < Longest(rules.allows, path)

-----------------------------------------------------------------------------
\* matches_glob: "*" stays within a segment, "**" does not, and takes a "/"
\* that follows it along.  matches[p, s]: the pattern from p on matches the
\* path from s on.
MatchesGlob(pattern, path) ==
    LET end == Len(path) + 1
        After(p) == IF pattern[p + 1] = "/" THEN p + 2 ELSE p + 1
        matches[p \in 1 .. Len(pattern) + 2, s \in 1 .. end] ==
          IF p > Len(pattern) THEN s = end
          ELSE IF pattern[p] = "**" THEN
                 p = Len(pattern) \/ \E t \in s .. end : matches[After(p), t]
          ELSE IF pattern[p] = "*" THEN
                 \E t \in s .. end : /\ \A i \in s .. t - 1 : path[i] # "/"
                                     /\ matches[p + 1, t]
          ELSE /\ s < end
               /\ pattern[p] = path[s] \/ (pattern[p] = "?" /\ path[s] # "/")
               /\ matches[p + 1, s + 1]
    IN  matches[1, 1]

\* is_path_allowed of utils/patterns.rs: exclusions go first, and a list of
\* inclusions must have one that matches.
PathAllowed(path, include, exclude) ==
    /\ \A p \in exclude : p = << >> \/ ~MatchesGlob(p, path)
    /\ include = {} \/ (\E p \in include : p # << >> /\ MatchesGlob(p, path))

\* is_same_domain: the host of the seed, or one that ends with a dot and it.
SameDomain(seed, url, subdomains) ==
    \/ url.host = seed.host
    \/ subdomains /\ IsSuffix(seed.host, url.host)

\* is_static_asset_url_filtered: extensions of the enabled document types pass.
AssetExtensions ==
    {"jpg", "jpeg", "png", "gif", "webp", "svg", "ico", "bmp", "tiff", "mp4", "webm", "mp3", "wav",
     "ogg", "zip", "rar", "7z", "tar", "gz", "woff", "woff2", "ttf", "eot", "css", "js", "map",
     "pdf", "docx", "xlsx", "pptx", "exe", "dmg", "pkg", "deb", "rpm", "iso"}
Extensions(type) ==
    {type} \cup CASE type = "plain_text" -> {"txt", "text", "md"}
                  [] type = "feed" -> {"rss", "atom"}
                  [] OTHER -> {}
StaticAsset(url, documentTypes) ==
    /\ url.ext \in AssetExtensions
    /\ \A type \in documentTypes : url.ext \notin Extensions(type)

\* evaluate_url_for_crawl but for the depth and the deduplicator; hosts inside
\* the network are a set of the options.
PassesFilters(url, seed, options) ==
    /\ url.scheme \in {"http", "https"}
    /\ options.allowPrivate \/ url.host \notin options.privateHosts
    /\ ~StaticAsset(url, options.documentTypes)
    /\ SameDomain(seed, url, options.subdomains)
    /\ PathAllowed(url.path, options.include, options.exclude)

\* normalize_crawl_url: no fragment, and the query as a map: sorted, without the
\* tracking parameters, and with the last value of a repeated key.
Normalize(url, options) ==
    LET kept == SelectSeq(url.query, LAMBDA q : ~(options.removeTracking /\ q[1] \in options.tracking))
        pairs == IF options.ignoreQuery THEN << >> ELSE kept
        LastOf(key) == Max({i \in DOMAIN pairs : pairs[i][1] = key})
    IN  [scheme |-> url.scheme, host |-> url.host, path |-> url.path, ext |-> url.ext,
         query |-> [key \in {pairs[i][1] : i \in DOMAIN pairs} |-> pairs[LastOf(key)][2]]]

-----------------------------------------------------------------------------
\* discover_sitemap_urls: three rounds over the sitemaps and the sitemaps they
\* list, up to max URLs.  A file is a sequence of entries; what cannot be
\* fetched or parsed is not in files.
MaxSitemapRounds == 3
DiscoverSitemapUrls(custom, default, files, max) ==
    LET Entry(d, e) ==
          IF Len(d.found) >= max THEN d
          ELSE IF ~e.sitemap THEN [d EXCEPT !.found = Append(@, e.loc)]
          ELSE IF e.loc \in d.visited THEN d
          ELSE [d EXCEPT !.next = Append(@, e.loc)]
        ReadFile(d, m) ==
          IF Len(d.found) >= max \/ m \in d.visited THEN d
          ELSE FoldLeft(Entry, [d EXCEPT !.visited = @ \cup {m}],
                        IF m \in DOMAIN files THEN files[m] ELSE << >>)
        Round(d, n) == FoldLeft(ReadFile, [d EXCEPT !.next = << >>], d.next)
        first == IF custom = << >> THEN <<default>> ELSE custom
    IN  FoldLeft(Round, [next |-> first, visited |-> {}, found |-> << >>],
                 [n \in 1 .. MaxSitemapRounds |-> n]).found
=============================================================================
