SPECIFICATION FairSpec
CONSTANTS
    Scrapes = {s1, s2}
    Bodies <- MCBodies
    Threshold = 5
    Configs <- MCConfigs
    MaxRedirects = 1
    MaxSize = 1
    MaxActions = 1
    NoBody = NoBody
    NoRequest = NoRequest
INVARIANTS TypeOK HttpContentNeverLost BrowserShared
PROPERTY ScrapesAnswered
CHECK_DEADLOCK FALSE
