SPECIFICATION MapSpec
CONSTANTS
    Calls = {"c1", "c2"}
    Requests <- MCRequests
    Normal <- MCNormal
    Bare <- MCBare
    HostOf <- MCHostOf
    PathOf <- MCPathOf
    Within <- MCWithin
    LinksOf <- MCLinksOf
    RobotsSitemaps <- MCRobotsSitemaps
    Files <- MCFiles
    Fit <- MCFit
    SiteOf <- MCSiteOf
    Containing <- MCContaining
    Provided <- MCProvided
    MaxFiles = 4
    MaxUrls = 2
    MaxSitemapDepth = 1
    MaxLinks = 3
    MaxConcurrent = 2
    MaxResults = 3
    MaxScrapes = 2
    CacheEnabled = TRUE
    MaxEntries = 1
    Cached <- MCCached
    TimeToLive = 1
    MaxTime = 2
    Nothing = Nothing
INVARIANTS MapTypeOK AnswersSound NothingMissed
CHECK_DEADLOCK FALSE
