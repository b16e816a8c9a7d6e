---------------------------- MODULE DetailQueue ----------------------------
(* The assignment_detail surface of the Schoology connector: every poll plans *)
(* which assignments' details are due (new and changed rows before slow       *)
(* refreshes, the kids taking turns, each kid's longest-waiting row first),   *)
(* reads at most max_per_poll of them, kid by kid after one switch of the     *)
(* session's view, and remembers each row it handled.                         *)
(*                                                                            *)
(* Time is counted in polls, as ages: how many polls ago a row was read or   *)
(* first waited, up to MaxAge.  A row's list entry and its detail page are    *)
(* version numbers.                                                            *)
EXTENDS Naturals, Sequences, FiniteSets

CONSTANTS
  KidSeq,      \* the kids the surface is enabled for, in configuration order
  Row,         \* Row[k]: the assignments of kid k, in list order
  Listed0,     \* the assignments on the lists at first
  Caps,        \* the values of max_per_poll
  Refresh,     \* refresh interval, in polls
  MaxSeen,     \* maxSeenIDs
  Poison,      \* assignments whose page answers with a server error for good
  MaxAge, MaxEvents                  \* bounds of the exploration

StaleFactor == 3      \* detailStaleFactor
GracePolls  == 3      \* detailRowGracePolls

Kid == {KidSeq[i] : i \in 1..Len(KidSeq)}
RowsOf(k) == {Row[k][i] : i \in 1..Len(Row[k])}
AllIds == UNION {RowsOf(k) : k \in Kid}

\* The kids have distinct names, and an assignment is known by kid and id, so
\* that the ids stand for pairs; plan skips the ids that are not positive.
ASSUME QueueAssumption ==
  /\ Caps \subseteq Nat \ {0} /\ Refresh \in Nat \ {0} /\ MaxSeen \in Nat \ {0}
  /\ MaxAge \in Nat /\ MaxEvents \in Nat
  /\ KidSeq \in Seq(Kid) /\ KidSeq # <<>> /\ "none" \notin Kid
  /\ \A i, j \in 1..Len(KidSeq) : KidSeq[i] = KidSeq[j] => i = j
  /\ \A k \in Kid : Row[k] \in Seq(Nat \ {0})
  /\ \A j, k \in Kid : j # k => RowsOf(j) \cap RowsOf(k) = {}
  /\ Listed0 \subseteq AllIds /\ \A k \in Kid : Cardinality(Listed0 \cap RowsOf(k)) <= MaxSeen
KidOf == [id \in AllIds |-> CHOOSE k \in Kid : id \in RowsOf(k)]
Never == MaxAge + 1          \* no time recorded

VARIABLES
  maxPerPoll, \* configuration: max_per_poll
  shown,      \* the assignments on the lists
  entry,      \* entry[id]: version of the list row
  detail,     \* detail[id]: version of the detail page
  row,        \* checkpoint: row[id] = [known, fp, at, since, missing]
  seen,       \* checkpoint: seen[id], the version last staged, 0 none
  turn,       \* checkpoint: index of the kid who goes first
  work,       \* the reads of this poll, in order
  view,       \* the kid the session's view was switched to, "none" at first
  step,       \* "idle" or "execute"
  forgotten,  \* history: ids that left the list since they were last staged
  given,      \* history: <<id, version>> staged
  twice,      \* history: stagings of something already staged
  edits, outages

detailVars == <<maxPerPoll, shown, entry, detail, row, seen, turn, work, view, step, forgotten, given, twice,
                edits, outages>>
NoRow == [known |-> FALSE, fp |-> 0, at |-> Never, since |-> Never, missing |-> 0]

DetailInit ==
  /\ maxPerPoll \in Caps /\ shown = Listed0
  /\ entry = [id \in AllIds |-> 1] /\ detail = [id \in AllIds |-> 1]
  /\ row = [id \in AllIds |-> NoRow] /\ seen = [id \in AllIds |-> 0]
  /\ turn = 0 /\ work = <<>> /\ view = "none" /\ step = "idle"
  /\ forgotten = {} /\ given = {} /\ twice = 0 /\ edits = 0 /\ outages = 0

\* The portal, between polls: a list row or a detail page changes, or the list
\* moves on, a row leaving and another joining (no list is longer than
\* maxSeenIDs).
Edit(id) ==
  /\ step = "idle" /\ edits + outages < MaxEvents /\ edits' = edits + 1
  /\ \/ /\ entry' = [entry EXCEPT ![id] = 3 - @] /\ UNCHANGED <<detail, shown, forgotten>>
     \/ /\ detail' = [detail EXCEPT ![id] = @ + 1] /\ UNCHANGED <<entry, shown, forgotten>>
     \/ \E out \in SUBSET {id}, in \in {{}} \cup {{a} : a \in RowsOf(KidOf[id]) \ shown} :
          /\ out \subseteq shown /\ out \cup in # {}
          /\ shown' = (shown \ out) \cup in /\ forgotten' = forgotten \cup out
          /\ Cardinality(shown' \cap RowsOf(KidOf[id])) <= MaxSeen
          /\ UNCHANGED <<entry, detail>>
  /\ UNCHANGED <<maxPerPoll, row, seen, turn, work, view, step, given, twice, outages>>

-----------------------------------------------------------------------------
(* plan.                                                                     *)
older(a) == IF a < MaxAge THEN a + 1 ELSE a
PollPassed(r) == [r EXCEPT !.at = IF @ = Never THEN @ ELSE older(@),
                          !.since = IF @ = Never THEN @ ELSE older(@)]

\* ageDetailRows: a row off the list is kept for GracePolls listings.
ageDetailRows(r, isListed) ==
  IF isListed THEN [r EXCEPT !.missing = 0]
  ELSE IF r.missing + 1 >= GracePolls THEN NoRow
  ELSE [r EXCEPT !.missing = IF r.known THEN @ + 1 ELSE 0]

\* Rows whose detail must be read, and for how long they have been waiting.
isFresh(r, id)   == r.at = Never \/ r.fp # entry[id]
isOverdue(r)     == r.at # Never /\ r.at >= StaleFactor * Refresh
isRefresh(r, id) == ~isFresh(r, id) /\ ~isOverdue(r) /\ r.at >= Refresh
waiting(r, id)   == IF isFresh(r, id) THEN (IF r.since = Never THEN 0 ELSE r.since) ELSE r.at

\* The place of an assignment in the lists the poll read, kid after kid.
place ==
  [id \in AllIds |->
  LET k == KidOf[id]
      kidAt == CHOOSE i \in 1..Len(KidSeq) : KidSeq[i] = k
      rowAt == CHOOSE i \in 1..Len(Row[k]) : Row[k][i] = id
  IN  <<kidAt, rowAt>>]
earlier(a, b) == a[1] < b[1] \/ (a[1] = b[1] /\ a[2] < b[2])

\* Stable sort, the longest waiting first: a row's number in its kid's queue of
\* rows that must be read, or among the refreshes of all kids.
ahead(r, a, b) == \/ waiting(r[a], a) > waiting(r[b], b)
                  \/ (waiting(r[a], a) = waiting(r[b], b) /\ earlier(place[a], place[b]))
queued(r, due) ==
  [id \in due |->
    Cardinality({a \in due : /\ isRefresh(r[a], a) = isRefresh(r[id], id)
                             /\ KidOf[a] = KidOf[id] \/ isRefresh(r[a], a)
                             /\ ahead(r, a, id)})]

\* The order of the plan: the i-th row of every kid's queue before any
\* (i+1)-th, kid number first going first, then the refreshes.
interleave(r, number, first, kids) ==
  LET kidNumber(id) == Cardinality({i \in 1..(place[id][1] - 1) : KidSeq[i] \in kids})
      cell(id) == IF isRefresh(r[id], id) THEN <<Len(KidSeq) + Cardinality(AllIds), number[id]>>
                  ELSE <<number[id], (kidNumber(id) + Cardinality(kids) - first) % Cardinality(kids)>>
  IN  [id \in DOMAIN number |-> Cardinality({a \in DOMAIN number : earlier(cell(a), cell(id))})]

\* Whose turn it is to go first, among the n kids whose list was read.
nextTurn(n) == IF n <= 1 THEN 0 ELSE turn % n

\* markWaiting: since when a row the cap left out has waited.
markWaiting(r, id) ==
  IF r.since = Never /\ ~isRefresh(r, id) THEN [r EXCEPT !.known = TRUE, !.since = waiting(r, id)] ELSE r

\* The rows after the lists of kids were read, and the rows then due.
agedRows(kids) ==
  [id \in AllIds |-> IF KidOf[id] \in kids THEN ageDetailRows(PollPassed(row[id]), id \in shown)
                                            ELSE PollPassed(row[id])]
dueRows(r, kids) == {id \in shown : KidOf[id] \in kids /\ (isFresh(r[id], id) \/ r[id].at >= Refresh)}

\* The reads the cap allows are made kid by kid, in the order the kids appear
\* in the plan.
groupByKid(reads, order) ==
  LET lead(id) == CHOOSE m \in {order[a] : a \in reads} :
                    /\ \E a \in reads : KidOf[a] = KidOf[id] /\ order[a] = m
                    /\ \A a \in reads : KidOf[a] = KidOf[id] => m <= order[a]
      before(a, b) == earlier(<<lead(a), order[a]>>, <<lead(b), order[b]>>)
  IN  [i \in 1..Cardinality(reads) |->
         CHOOSE id \in reads : Cardinality({a \in reads : before(a, id)}) = i - 1]

\* One poll: kids are the ones whose list could be read.
pollOf(kids) ==
  /\ step = "idle"
  /\ outages' = outages + Cardinality(Kid \ kids) /\ outages' + edits <= MaxEvents
  /\ \E aged \in {agedRows(kids)}, n \in {Cardinality(kids)} :
     \E number \in {queued(aged, dueRows(aged, kids))} :
     \E order \in {interleave(aged, number, nextTurn(n), kids)} :
       LET reads == {id \in DOMAIN order : order[id] < maxPerPoll} IN
       /\ work' = groupByKid(reads, order)
       /\ step' = IF reads = {} THEN "idle" ELSE "execute"
       /\ turn' = IF n <= 1 THEN turn ELSE (nextTurn(n) + 1) % n
       /\ row' = [id \in AllIds |-> IF id \in DOMAIN order \ reads THEN markWaiting(aged[id], id)
                                                                    ELSE aged[id]]
  /\ view' = "none"
  /\ UNCHANGED <<maxPerPoll, shown, entry, detail, seen, forgotten, given, twice, edits>>
ProcessAssignmentDetails == \E kids \in SUBSET Kid : pollOf(kids)

-----------------------------------------------------------------------------
(* execute.                                                                  *)
id0 == Head(work)
\* A request for id0's page is made, its kid's view being selected.
fetch == step = "execute" /\ view = KidOf[id0]
endSurface == work' = <<>> /\ step' = "idle"
Advance == work' = Tail(work) /\ step' = IF Len(work) = 1 THEN "idle" ELSE "execute"
Outage(n) == outages + n + edits <= MaxEvents /\ outages' = outages + n

\* switchTo: refused for this kid alone, its reads are left out; any other
\* failure ends the surface for this poll.
switchTo ==
  /\ step = "execute" /\ view # KidOf[id0]
  /\ \/ view' = KidOf[id0] /\ Outage(0) /\ UNCHANGED <<work, step>>
     \/ /\ Outage(1) /\ UNCHANGED view
        /\ \/ endSurface
           \/ /\ work' = SubSeq(work, 1 + Cardinality({i \in 1..Len(work) : KidOf[work[i]] = KidOf[id0]}),
                              Len(work))
              /\ step' = IF work' = <<>> THEN "idle" ELSE "execute"
  /\ UNCHANGED <<maxPerPoll, shown, entry, detail, row, seen, turn, forgotten, given, twice, edits>>

rememberRow(id) == row' = [row EXCEPT ![id] = [NoRow EXCEPT !.known = TRUE, !.fp = entry[id], !.at = 0]]

\* Mutant: the smallest id goes, listed or not.
boundDetailSeen_smallest(s, k) ==
  LET kept == {id \in RowsOf(k) : s[id] # 0} IN
  IF Cardinality(kept) <= MaxSeen THEN s
  ELSE [s EXCEPT ![CHOOSE id \in kept : \A j \in kept : id <= j] = 0]

\* boundDetailSeen: with one entry over the limit an unlisted one goes first,
\* the smallest id of them.
boundDetailSeen(s, k) ==
  LET kept == {id \in RowsOf(k) : s[id] # 0}
      first == IF kept \ shown # {} THEN kept \ shown ELSE kept IN
  IF Cardinality(kept) <= MaxSeen THEN s
  ELSE [s EXCEPT ![CHOOSE id \in first : \A j \in first : id <= j] = 0]

\* What is staged under its content hash.
Give(id) ==
  /\ given' = given \cup {<<id, detail[id]>>}
  /\ twice' = IF <<id, detail[id]>> \in given /\ id \notin forgotten THEN twice + 1 ELSE twice
  /\ forgotten' = forgotten \ {id}

\* fetch and handle of one assignment: its page is staged if it differs from
\* what was staged last, or it is refused (a page that is not this
\* assignment's, one that is not allowed, an item staging will not take);
\* either way the row is remembered.
handle ==
  /\ fetch /\ id0 \notin Poison
  /\ \/ /\ seen[id0] = detail[id0] /\ UNCHANGED <<seen, given, twice, forgotten>> /\ Outage(0)
     \/ /\ seen[id0] # detail[id0] /\ Outage(0) /\ Give(id0)
        /\ seen' = boundDetailSeen([seen EXCEPT ![id0] = detail[id0]], KidOf[id0])
     \/ UNCHANGED <<seen, given, twice, forgotten>> /\ Outage(1)
  /\ rememberRow(id0) /\ Advance
  /\ UNCHANGED <<maxPerPoll, shown, entry, detail, turn, view, edits>>

\* The process ends between staging an item and saving the checkpoint.
detailCrash ==
  /\ fetch /\ id0 \notin Poison
  /\ seen[id0] # detail[id0] /\ Give(id0) /\ Outage(1) /\ endSurface
  /\ UNCHANGED <<maxPerPoll, shown, entry, detail, row, seen, turn, view, edits>>

\* A failure that is not about this assignment (network, server, staging,
\* the window's end, the session) ends the surface; nothing is remembered.
hardFailure ==
  /\ fetch
  /\ IF id0 \in Poison THEN Outage(0) ELSE Outage(1)
  /\ endSurface
  /\ UNCHANGED <<maxPerPoll, shown, entry, detail, row, seen, turn, view, forgotten, given, twice, edits>>

DetailNext ==
  \/ \E id \in AllIds : Edit(id)
  \/ ProcessAssignmentDetails \/ switchTo \/ handle \/ hardFailure \/ detailCrash
DetailSpec == DetailInit /\ [][DetailNext]_detailVars

\* Polls keep coming with both lists read, and a poll that has begun ends.
DetailWork == pollOf(Kid) \/ ((switchTo \/ handle \/ hardFailure) /\ outages' = outages)
DetailFairness == WF_detailVars(DetailWork)

-----------------------------------------------------------------------------
(* Properties.                                                               *)

\* Type correctness of the surface's checkpoint and of the poll in progress:
\* the reads never exceed the cap and no age outgrows its bound.
DetailTypeOK ==
  /\ shown \subseteq AllIds /\ entry \in [AllIds -> 1..2] /\ detail \in [AllIds -> 1..(1 + MaxEvents)]
  /\ row \in [AllIds -> [known : BOOLEAN, fp : 0..2, at : 0..Never, since : 0..Never, missing : 0..2]]
  /\ seen \in [AllIds -> 0..(1 + MaxEvents)] /\ turn \in 0..(Len(KidSeq) - 1)
  /\ maxPerPoll \in Caps /\ Len(work) <= maxPerPoll /\ step \in {"idle", "execute"} /\ view \in Kid \cup {"none"}
  /\ edits + outages \in 0..MaxEvents

\* An assignment that stays on its list is staged once per content: only a
\* crash between staging and saving stages it again, however the bounded set
\* of fingerprints was pruned in between (boundDetailSeen keeps what is
\* listed).
ListedStagedOnce == twice <= outages

\* A listed assignment's detail page is looked at again and again, so that a
\* comment or a grade on it is found even though its list row never changes:
\* slow refreshes are not starved by new rows.
Refreshed == \A id \in AllIds : []<>(id \notin shown \/ row[id].at < StaleFactor * Refresh)

\* The plan of the detail surface stays within its cap and its ages, and an
\* assignment that stays listed is staged once per content (plan,
\* boundDetailSeen).
DetailSafe == DetailTypeOK /\ ListedStagedOnce
=============================================================================
