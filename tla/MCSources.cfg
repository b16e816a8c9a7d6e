SPECIFICATION MCSpec
CONSTANTS
    Connectors = {"rss", "arxiv", "trello", "linkedin", "meta", "github", "bluesky", "semantic-scholar", "imap", "notion.page", "steam.reviews", "steam.news", "gitlab", "jira", "gcalendar", "outlook", "teams", "youtube", "gmail", "hackernews", "notion.database", "x", "gdrive", "onedrive"}
    MaxEntries = 3
    Page = 2
    PollCaps = {0, 1}
    SourceCaps = {1}
    Rejections = {0, 2}
    MaxFaults = 1
    CameraEvents = {1, 2}
    MaxFrames = 2
    Hooks = {"github", "meta", "x", "unifi"}
    MaxPushFaults = 1
    Imports <- MCImports
    WriteEveryN = 2
    MaxUpsets = 2
    Files = 3
    Candidates = 2
    Purchases = {1}
    Pool = 2
    MaxTreeFaults = 2
    MaxRuns = 2
INVARIANTS FeedSafe PushSafe  
PROPERTIES NothingWaitsForever
CHECK_DEADLOCK FALSE
