SPECIFICATION FeedSpec
CONSTANTS
    Connectors = {"semantic-scholar"}
    MaxEntries = 3
    Page = 2
    PollCaps = {0}
    Rejections = {0}
    SourceCaps = {}
    MaxFaults = 0
INVARIANT NoNewPaperSkipped
CHECK_DEADLOCK FALSE
