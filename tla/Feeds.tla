------------------------------- MODULE Feeds -------------------------------
(***************************************************************************)
(* The polling source connectors (connectors/rss, meta, github, imap, ...):*)
(* each poll lists what its service has, goes through the listing entry by *)
(* entry, stages every new one and keeps a bookmark in the checkpoint file.*)
(*                                                                         *)
(* Entries are numbered in the order they were published; a number is the  *)
(* entry's id and its timestamp.  One source of one connector is followed: *)
(* the sources of a connector share nothing but the per-poll cap.  A poll  *)
(* of a connector is one definition, whose disjuncts are the steps of its  *)
(* loop: the listing, an entry passed over, the cap, an entry staged, the  *)
(* end.  A listing that fails, that is empty or that no rule matches ends  *)
(* the poll with nothing changed and is not a step here.                   *)
(***************************************************************************)
EXTENDS Integers, Sequences, FiniteSets, SequencesExt

CONSTANTS
    Connectors,     \* the connectors followed
    MaxEntries,     \* entries the service ever publishes
    Page,           \* how many entries one listing shows
    PollCaps,       \* values of fetch_limits.per_poll (0: none)
    SourceCaps,     \* values of fetch_limits.per_source (0: none)
    Rejections,     \* which entry the ingest endpoint refuses for good (0: none)
    MaxFaults       \* failures and crashes in one behaviour

ASSUME FeedsAssumption ==
    /\ MaxEntries \in Nat \ {0} /\ Page \in Nat \ {0}
    /\ PollCaps \subseteq Nat /\ SourceCaps \subseteq Nat
    /\ Rejections \subseteq 0..MaxEntries /\ MaxFaults \in Nat

VARIABLES
    conn,           \* the connector
    pollCap, sourceCap,
    rejected,       \* an entry the ingest endpoint refuses for good (0: none)
    posted,         \* entries 1..posted have been published
    gone,           \* entries their author deleted
    cp,             \* the bookmark in the checkpoint file (0: none)
    staged,         \* how often each entry was staged, counted up to two
    pc, todo,       \* the poll under way and the entries it still has to do
    high,           \* the bookmark it will save at its end
    count,          \* FetchCounter: entries this poll was allowed
    faults,
    passed,         \* history: entries a poll took for old
    left,           \* history: entries a cap cut off
    unread,         \* history: entries that could not be read
    missed          \* history: entries no listing will show again

feedVars == <<conn, pollCap, sourceCap, rejected, posted, gone, cp, staged, pc, todo,
              high, count, faults, passed, left, unread, missed>>
setup == <<conn, pollCap, sourceCap, rejected>>
service == <<posted, gone>>
histories == <<passed, left, unread, missed>>

Entries == 1..MaxEntries
\* The entries of S from the oldest on.
Oldest(S) ==
    CHOOSE q \in [1..Cardinality(S) -> S] : \A i, j \in DOMAIN q : i < j => q[i] < q[j]
Newest(S) == Reverse(Oldest(S))

\* TryFetch (connector/fetchlimit.go): runPoll clears the counter before a
\* poll, the per-poll cap is looked at first.
TryFetch ==
    IF pollCap > 0 /\ count >= pollCap THEN "poll"
    ELSE IF sourceCap > 0 /\ count >= sourceCap THEN "source"
    ELSE "allowed"

-----------------------------------------------------------------------------
(* What the services answer. *)

Published == (1..posted) \ gone
\* The services that show the newest entries only; the others list in
\* ascending order from the bookmark, so nothing is pushed off their page.
Slides == conn \notin {"jira", "gcalendar", "outlook", "imap", "gdrive", "onedrive"}
Width == IF conn = "notion.page" THEN 1 ELSE Page
Recent(S) == {e \in S : Cardinality({f \in S : f > e}) < Width}
Earliest(S) == {e \in S : Cardinality({f \in S : f < e}) < Width}
Since == {e \in Published : e > cp}
\* Entries a listing does not show yet and a later one will.
Later == IF Slides THEN {} ELSE Since

\* The entries behind the bookmarked one in a listing, or all of them when
\* the bookmarked one is not in it (startIdx, foundIdx).
After(q) ==
    IF cp \in Range(q) THEN SubSeq(q, 1 + CHOOSE i \in DOMAIN q : q[i] = cp, Len(q)) ELSE q

\* The entries of a listing whose timestamp is after the bookmark, in its order.
Newer(q) ==
    LET later == Oldest({i \in DOMAIN q : q[i] > cp})
    IN  [k \in DOMAIN later |-> q[later[k]]]

-----------------------------------------------------------------------------
(* The steps of a poll. *)

\* The listing: q is what the loop will go through, mark the bookmark it
\* starts from, used what other sources took of the per-poll cap before.
ListAfter(used, q, mark) ==
    /\ pc = "idle"
    /\ pc' = "loop" /\ todo' = q /\ high' = mark /\ count' = used
    /\ passed' = passed \cup ((1..posted) \ (Range(todo') \cup Later))
    /\ UNCHANGED <<setup, service, cp, staged, faults, left, unread, missed>>

List(q, mark) == ListAfter(0, q, mark)

\* The first poll of a connector that follows a token: the token is for now.
Baseline ==
    /\ pc = "idle"
    /\ pc' = "loop" /\ todo' = <<>> /\ high' = posted /\ count' = 0
    /\ passed' = passed \cup 1..posted
    /\ missed' = missed \cup {e \in 1..posted : staged[e] = 0}
    /\ UNCHANGED <<setup, service, cp, staged, faults, left, unread>>

EndPoll == pc' = "idle" /\ todo' = <<>> /\ high' = 0 /\ count' = 0
GoOn == pc' = pc /\ todo' = Tail(todo)
Fault == faults < MaxFaults /\ faults' = faults + 1

\* The cap is reached: the rest of the listing is not looked at.  A connector
\* breaks out of its loop, or returns at once.
Cut(status) ==
    /\ pc = "loop" /\ todo # <<>> /\ TryFetch = status
    /\ left' = left \cup Range(todo)
    /\ UNCHANGED <<setup, service, cp, staged, faults, passed, unread, missed>>
Break(status) == Cut(status) /\ todo' = <<>> /\ UNCHANGED <<pc, high, count>>
Return(status) == Cut(status) /\ EndPoll

\* An entry that cannot be read is passed over and the loop goes on; counted
\* says whether it already took its place under the cap.
PassOver(counted) ==
    /\ pc = "loop" /\ todo # <<>> /\ (counted => TryFetch = "allowed")
    /\ Fault /\ GoOn
    /\ unread' = unread \cup {Head(todo)}
    /\ count' = IF counted THEN count + 1 ELSE count
    /\ UNCHANGED <<setup, service, cp, staged, high, passed, left, missed>>

\* Mutant: the poll goes on behind an entry that could not be staged.
Refused_goOn ==
    /\ pc = "loop" /\ todo # <<>> /\ TryFetch = "allowed"
    /\ IF Head(todo) = rejected THEN faults' = faults ELSE Fault
    /\ GoOn /\ UNCHANGED <<setup, service, cp, staged, high, count, histories>>

\* NewItem, WriteContent or Commit fails: the poll returns the error.
Refused ==
    /\ pc = "loop" /\ todo # <<>> /\ TryFetch = "allowed"
    /\ IF Head(todo) = rejected THEN faults' = faults ELSE Fault
    /\ EndPoll /\ UNCHANGED <<setup, service, cp, staged, histories>>

Staged(e) == staged' = [staged EXCEPT ![e] = IF @ = 2 THEN 2 ELSE @ + 1]
Stageable == pc = "loop" /\ todo # <<>> /\ TryFetch = "allowed" /\ Head(todo) # rejected

\* The entry is committed and its bookmark saved before the next one; when
\* the save fails, or the process dies in between, the poll is over.
StageAndSave ==
    /\ Stageable /\ Staged(Head(todo))
    /\ \/ cp' = Head(todo) /\ GoOn /\ count' = count + 1 /\ UNCHANGED <<high, faults>>
       \/ Fault /\ EndPoll /\ cp' = cp
    /\ UNCHANGED <<setup, service, histories>>

\* The entry is committed; the loop only remembers the highest so far.
StageOnly ==
    /\ Stageable /\ Staged(Head(todo))
    /\ high' = IF Head(todo) > high THEN Head(todo) ELSE high
    /\ GoOn /\ count' = count + 1
    /\ UNCHANGED <<setup, service, cp, faults, histories>>

\* The loop is through.
Done == pc = "loop" /\ todo = <<>> /\ EndPoll /\ UNCHANGED <<setup, service, cp, staged, faults, histories>>
DoneSave ==
    /\ pc = "loop" /\ todo = <<>> /\ EndPoll
    /\ \/ cp' = (IF high > 0 THEN high ELSE cp) /\ faults' = faults
       \/ Fault /\ cp' = cp
    /\ UNCHANGED <<setup, service, staged, histories>>

-----------------------------------------------------------------------------
(* The connectors that go through the listing oldest first from behind the *)
(* bookmarked id and save the bookmark entry by entry. *)

\* connectors/rss: parseFeed turns the feed's newest-first order round.
rss_parseFeed == Oldest(Recent(Published))
rss_pollFeed ==
    /\ conn = "rss"
    /\ \/ List(After(rss_parseFeed), 0)
       \/ Return("poll") \/ Break("source")
       \/ Refused \/ StageAndSave
       \/ Done

\* connectors/arxiv: sorted by submission date, descending, and turned round.
arxiv_parseArxivFeed == Oldest(Recent(Published))
arxiv_pollQuery ==
    /\ conn = "arxiv"
    /\ \/ List(After(arxiv_parseArxivFeed), 0)
       \/ Return("poll") \/ Break("source")
       \/ Refused \/ StageAndSave
       \/ Done

trello_fetchActions == Newest(Recent(Published))
trello_pollBoard ==
    /\ conn = "trello"
    /\ \/ List(After(Reverse(trello_fetchActions)), 0)
       \/ Return("poll") \/ Break("source")
       \/ Refused \/ StageAndSave
       \/ Done

linkedin_fetchAPI == Newest(Recent(Published))
linkedin_pollFeed ==
    /\ conn = "linkedin"
    /\ \/ List(After(Reverse(linkedin_fetchAPI)), 0)
       \/ Return("poll") \/ Break("source")
       \/ Refused \/ StageAndSave
       \/ Done

meta_fetchAPI == Newest(Recent(Published))
meta_pollFeed ==
    /\ conn = "meta"
    /\ \/ List(After(Reverse(meta_fetchAPI)), 0)
       \/ Break("poll") \/ Break("source")
       \/ Refused \/ StageAndSave
       \/ Done

github_fetchAPI == Newest(Recent(Published))
github_pollRepo ==
    /\ conn = "github"
    /\ \/ List(After(Reverse(github_fetchAPI)), 0)
       \/ Break("poll") \/ Break("source")
       \/ Refused \/ StageAndSave
       \/ Done

\* connectors/bluesky: a post whose record cannot be decoded is passed over.
bluesky_fetchAuthorFeed == Newest(Recent(Published))
bluesky_Poll ==
    /\ conn = "bluesky"
    /\ \/ List(After(Reverse(bluesky_fetchAuthorFeed)), 0)
       \/ Break("poll") \/ Break("source")
       \/ PassOver(TRUE)
       \/ Refused \/ StageAndSave
       \/ Done

\* connectors/semantic-scholar: as above, but in the order of the answer,
\* newest first: what is behind the bookmarked paper is older than it.
semanticscholar_fetchPapers == Newest(Recent(Published))
semanticscholar_pollQuery ==
    /\ conn = "semantic-scholar"
    /\ \/ List(After(semanticscholar_fetchPapers), 0)
       \/ Return("poll") \/ Break("source")
       \/ Refused \/ StageAndSave
       \/ Done

\* connectors/imap: the UIDs above the bookmark, ascending; a message that
\* cannot be fetched or decoded is passed over.
imap_SearchSinceUID == Oldest(Since)
imap_Poll ==
    /\ conn = "imap"
    /\ \/ List(imap_SearchSinceUID, 0)
       \/ Return("poll") \/ Break("source")
       \/ PassOver(TRUE)
       \/ Refused \/ StageAndSave
       \/ Done

\* connectors/notion, a single page: entries are its versions, and only the
\* present one can be read; it is staged when its text is not the bookmarked
\* one.  Its databases and earlier pages may have used up the per-poll cap.
notion_pollPage ==
    /\ conn = "notion.page"
    /\ \/ \E used \in 0..pollCap :
             ListAfter(used, Oldest(Recent(Published) \ {cp}), 0)
       \/ Return("poll")
       \/ Refused \/ StageAndSave
       \/ Done

-----------------------------------------------------------------------------
(* The connectors that save the bookmark once, at the end of the poll. *)

\* connectors/steam, reviews and news: newest first, walked from the end.
steam_fetchURL == Newest(Recent(Published))
steam_pollReviews ==
    /\ conn = "steam.reviews"
    /\ \/ List(Newer(Reverse(steam_fetchURL)), 0)
       \/ Return("poll") \/ Break("source")
       \/ Refused \/ StageOnly
       \/ DoneSave
steam_pollNews ==
    /\ conn = "steam.news"
    /\ \/ List(Newer(Reverse(steam_fetchURL)), 0)
       \/ Return("poll") \/ Break("source")
       \/ Refused \/ StageOnly
       \/ DoneSave

\* connectors/gitlab: all pages of the project's events, turned round; an
\* event that cannot be decoded is passed over before it is counted.
gitlab_fetchAllEvents == Newest(Recent(Published))
gitlab_pollProject ==
    /\ conn = "gitlab"
    /\ \/ List(Newer(Reverse(gitlab_fetchAllEvents)), 0)
       \/ Break("poll") \/ Break("source")
       \/ PassOver(FALSE)
       \/ Refused \/ StageOnly
       \/ DoneSave

\* connectors/jira: "updated > bookmark ORDER BY updated ASC".
jira_searchIssues == Oldest(Earliest(Since))
jira_pollProject ==
    /\ conn = "jira"
    /\ \/ List(jira_searchIssues, 0)
       \/ Break("poll") \/ Break("source")
       \/ Refused \/ StageOnly
       \/ DoneSave

\* connectors/gcalendar: orderBy=updated from updatedMin on, which includes
\* the bookmarked event; the loop drops it.
gcalendar_fetchAPI == Oldest(Earliest({e \in Published : e >= cp}))
gcalendar_pollCalendar ==
    /\ conn = "gcalendar"
    /\ \/ List(Newer(gcalendar_fetchAPI), cp)
       \/ Break("poll") \/ Break("source")
       \/ Refused \/ StageOnly
       \/ DoneSave

\* connectors/outlook: "receivedDateTime gt bookmark", ordered by it.
outlook_ListMessages == Oldest(Earliest(Since))
outlook_Poll ==
    /\ conn = "outlook"
    /\ \/ List(outlook_ListMessages, 0)
       \/ Return("poll") \/ Break("source")
       \/ Refused \/ StageOnly
       \/ DoneSave

\* connectors/teams: the newest messages of the channel in the order of the
\* answer, newest first.
teams_fetchAPI == Newest(Recent(Since))
teams_pollChannel ==
    /\ conn = "teams"
    /\ \/ List(Newer(teams_fetchAPI), cp)
       \/ Break("poll") \/ Break("source")
       \/ Refused \/ StageOnly
       \/ DoneSave

\* connectors/youtube: order=date, newest first; a video whose details cannot
\* be read is passed over before it is counted.
youtube_fetchAPI == Newest(Recent(Published))
youtube_pollChannel ==
    /\ conn = "youtube"
    /\ \/ List(Newer(youtube_fetchAPI), 0)
       \/ Break("poll") \/ Break("source")
       \/ PassOver(FALSE)
       \/ Refused \/ StageOnly
       \/ DoneSave

\* connectors/gmail: the bookmark is cut to the second, so the listing may
\* show the bookmarked message again; newest first.
gmail_ListMessages(S) == Newest(Recent(S))
gmail_Poll ==
    /\ conn = "gmail"
    /\ \/ \E S \in {Since, Since \cup ({cp} \cap Published)} : List(gmail_ListMessages(S), 0)
       \/ Return("poll") \/ Break("source")
       \/ PassOver(TRUE)
       \/ Refused \/ StageOnly
       \/ DoneSave

\* connectors/hackernews: story ids in the order of the front page, which is
\* any order; a story that cannot be fetched is passed over.
hackernews_fetchStoryIDs == SetToSeqs(Recent(Published))
hackernews_pollFeed ==
    /\ conn = "hackernews"
    /\ \/ \E q \in hackernews_fetchStoryIDs : List(Newer(q), cp)
       \/ Return("poll") \/ Break("source")
       \/ PassOver(TRUE)
       \/ Refused \/ StageOnly
       \/ DoneSave

\* connectors/notion, a database: edited after the bookmark, in no stated order.
notion_pollDatabase ==
    /\ conn = "notion.database"
    /\ \/ \E q \in SetToSeqs(Recent(Since)) : List(Newer(q), 0)
       \/ Break("poll") \/ Break("source")
       \/ Refused \/ StageOnly
       \/ DoneSave

-----------------------------------------------------------------------------
(* The connectors whose bookmark is the position of the whole answer. *)

\* connectors/x: since_id, turned round; the newest id of the answer is saved.
x_fetchAPI == Newest(Recent(Since))
x_pollMentions ==
    /\ conn = "x"
    /\ \/ x_fetchAPI # <<>> /\ List(Reverse(x_fetchAPI), Head(x_fetchAPI))
       \/ Break("poll") \/ Break("source")
       \/ Refused \/ StageOnly
       \/ DoneSave

\* connectors/gdrive: without a token the first poll takes one for "now",
\* so what the drive held before is not delivered.
gdrive_fetchChanges == Oldest(Since)
gdrive_Poll ==
    /\ conn = "gdrive"
    /\ \/ cp > 0 /\ List(gdrive_fetchChanges, posted)
       \/ cp = 0 /\ posted > 0 /\ Baseline
       \/ Break("poll") \/ Break("source")
       \/ Refused \/ StageOnly
       \/ DoneSave

onedrive_fetchDelta == Oldest(Since)
onedrive_Poll ==
    /\ conn = "onedrive"
    /\ \/ List(onedrive_fetchDelta, posted)
       \/ Break("poll") \/ Break("source")
       \/ Refused \/ StageOnly
       \/ DoneSave

-----------------------------------------------------------------------------
(* The service and the process. *)

Publish ==
    /\ posted < MaxEntries /\ posted' = posted + 1
    /\ missed' = missed \cup
          (IF Slides THEN {e \in Published \ Recent(Published \cup {posted + 1}) : staged[e] = 0} ELSE {})
    /\ UNCHANGED <<setup, gone, cp, staged, pc, todo, high, count, faults, passed, left, unread>>

\* The author deletes an entry.
Delete(e) ==
    /\ faults < MaxFaults /\ faults' = faults + 1
    /\ gone' = gone \cup {e}
    /\ missed' = IF staged[e] = 0 THEN missed \cup {e} ELSE missed
    /\ UNCHANGED <<setup, posted, cp, staged, pc, todo, high, count, passed, left, unread>>

\* The process is killed; the checkpoint file stays.
Crash == pc = "loop" /\ Fault /\ EndPoll /\ UNCHANGED <<setup, service, cp, staged, histories>>

FeedInit ==
    /\ conn \in Connectors
    /\ \/ pollCap \in PollCaps /\ sourceCap = 0
       \/ pollCap = 0 /\ sourceCap \in SourceCaps
    /\ rejected \in Rejections
    /\ posted = 0 /\ gone = {} /\ cp = 0 /\ staged = [e \in Entries |-> 0]
    /\ pc = "idle" /\ todo = <<>> /\ high = 0 /\ count = 0 /\ faults = 0
    /\ passed = {} /\ left = {} /\ unread = {} /\ missed = {}

Poll ==
    \/ rss_pollFeed \/ arxiv_pollQuery \/ trello_pollBoard \/ linkedin_pollFeed \/ meta_pollFeed
    \/ github_pollRepo \/ bluesky_Poll \/ semanticscholar_pollQuery \/ imap_Poll \/ notion_pollPage
    \/ steam_pollReviews \/ steam_pollNews \/ gitlab_pollProject \/ jira_pollProject
    \/ gcalendar_pollCalendar \/ outlook_Poll \/ teams_pollChannel \/ youtube_pollChannel
    \/ gmail_Poll \/ hackernews_pollFeed \/ notion_pollDatabase
    \/ x_pollMentions \/ gdrive_Poll \/ onedrive_Poll

FeedNext == Poll \/ Publish \/ (\E e \in Published : Delete(e)) \/ Crash

\* The poll ticker goes on (runPollLoop).
FeedSpec == FeedInit /\ [][FeedNext]_feedVars /\ WF_feedVars(Poll)

-----------------------------------------------------------------------------
(* Properties. *)

SavesEach == {"rss", "arxiv", "trello", "linkedin", "meta", "github", "bluesky",
              "semantic-scholar", "imap", "notion.page"}
\* Connectors whose bookmark may pass entries a cap cut off: they go newest
\* first, in no order, or save the position of the whole answer.
LosesCutOff == {"teams", "youtube", "gmail", "hackernews", "notion.database", "x", "gdrive", "onedrive"}
PassesUnread == {"bluesky", "imap", "gitlab", "youtube", "gmail", "hackernews"}
\* Connectors that save at the end and return without it at the per-poll cap.
ForgetsAtPollCap == {"steam.reviews", "steam.news", "outlook", "gmail", "hackernews"}

FeedTypeOK ==
    /\ posted \in 0..MaxEntries /\ gone \subseteq 1..posted
    /\ cp \in 0..posted /\ high \in 0..posted
    /\ staged \in [Entries -> 0..2] /\ \A e \in Entries : staged[e] > 0 => e <= posted
    /\ pc \in {"idle", "loop"} /\ Range(todo) \subseteq 1..posted /\ IsInjective(todo)
    /\ (pollCap > 0 => count <= pollCap) /\ (sourceCap > 0 => count <= sourceCap)
    /\ faults \in 0..MaxFaults

\* What a poll takes for old was delivered.  An entry the bookmark puts behind
\* it has been staged, was gone before anyone could list it, or is of the one
\* kind its connector is known to lose: cut off by a cap, or unreadable when
\* its turn came.  An entry the endpoint rejects is never passed over; it
\* stops its feed instead (rss/connector.go, pollFeed).
NothingPassedOver ==
    conn # "semantic-scholar" =>
    \A e \in passed :
        \/ staged[e] > 0 \/ e \in missed
        \/ conn \in LosesCutOff /\ e \in left
        \/ conn \in PassesUnread /\ e \in unread

\* No new paper is taken for old (semantic-scholar/connector.go, pollQuery).
NoNewPaperSkipped == \A e \in passed : staged[e] > 0 \/ e \in missed

\* Without failures, deletions and rejections an entry is staged once,
\* whatever the caps; the connectors that save at the end need the per-poll
\* cap out of the way (steam/connector.go, pollReviews).
OnceWhenQuiet ==
    /\ faults = 0 /\ conn \notin {"gmail", "semantic-scholar"}
    /\ (conn \notin SavesEach) => rejected = 0 /\ (pollCap = 0 \/ conn \notin ForgetsAtPollCap)
    => \A e \in Entries : staged[e] <= 1

\* The entry is staged, or one of the things happened that may prevent it: it
\* was gone, its connector lost it in the ways above, an entry the endpoint
\* rejects is in the way, its connector forgets the polls the per-poll cap cuts
\* short, or (a Notion page) other sources use up the per-poll cap every time.
EntryDone(e) ==
    \/ staged[e] > 0 \/ e \in missed \/ rejected \in 1..posted
    \/ conn \in LosesCutOff /\ e \in left
    \/ conn \in PassesUnread /\ e \in unread
    \/ pollCap > 0 /\ conn \in ForgetsAtPollCap \cup {"notion.page"}
    \/ conn = "semantic-scholar"

\* The bookmark is honest, whatever the caps, the failures, the deletions and
\* the crashes between a commit and its save: what it passes was staged (or is
\* of the one kind its connector is known to lose), nothing is staged twice
\* while nothing goes wrong, and no poll exceeds its caps (pollFeed of each
\* connector, FetchCounter).
FeedSafe == FeedTypeOK /\ NothingPassedOver /\ OnceWhenQuiet
=============================================================================
