SPECIFICATION FairSpec
CONSTANTS
    home = home  a = a  b = b  c = c
    Urls = {home, a, b, c}
    Seed = home
    Workers = {w1, w2}
    Links <- MCLinks
    Eligible = {home, a, b, c}
    Blocked <- MCBlocked
    SitemapUrls = {c}
    Limit = 2
    MaxDepth = 2
    MaxRetries = 1
    FrontierCapacity = 1
INVARIANTS TypeOK EveryUrlOnce CountersMatchPages ActiveCounts OvershootBounded
PROPERTY Concludes
CHECK_DEADLOCK FALSE
