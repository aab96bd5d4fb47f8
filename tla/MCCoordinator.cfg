SPECIFICATION FairSpec
CONSTANTS
    job = job  home = home  a = a  b = b
    w1 = w1  w2 = w2
    Jobs = {job}
    Urls = {home, a}
    Workers = {w1, w2}
    Types = {"Crawl", "Map", "Search"}
    Seed <- MCSeed
    Links <- MCLinks
    SitemapUrls <- MCSitemapUrls
    MaxDepth = 1
    Capacity = 1
    MaxFailures = 1
    MaxExpiries = 1
    NoTask = NoTask
    NoUrl = NoUrl
    NoWorker = NoWorker
    NoJob = NoJob
INVARIANTS TypeOK EnqueuedOnce CompletedIsEarned
PROPERTY KnownIsFetched
