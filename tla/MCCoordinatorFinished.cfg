SPECIFICATION Spec
CONSTANTS
    job = job  home = home  a = a  b = b
    w1 = w1  w2 = w2
    Jobs = {job}
    Urls = {home, a}
    Workers = {w1}
    Types = {"Crawl"}
    Seed <- MCSeed
    Links <- MCLinks
    SitemapUrls <- MCSitemapUrls
    MaxDepth = 1
    Capacity = 1
    MaxFailures = 0
    MaxExpiries = 0
    NoTask = NoTask
    NoUrl = NoUrl
    NoWorker = NoWorker
    NoJob = NoJob
INVARIANT CompletedIsFinished
