--------------------------- MODULE SchoologyPoll ---------------------------
(* The Schoology connector: the catch-up poll of a new process, then the     *)
(* Watch loop with one scheduled poll per window and triggered polls in      *)
(* between.  A poll works through the surfaces (each kid's assignments and   *)
(* feed with its attachments, then the messages, then the assignment         *)
(* details), stages every id the checkpoint's seen-set does not hold and      *)
(* adds it there.  A refused session ends the process, which then waits for  *)
(* a different session.                                                       *)
(*                                                                            *)
(* An item is its id on its surface; ids grow.  Bodies, tags, spans and       *)
(* counters are left out.  The assignment details have a module of their own *)
(* (DetailQueue); here they are the last surface, which stages nothing.      *)
EXTENDS Naturals, Sequences, FiniteSets

CONSTANTS
  Surfaces,    \* the poll's surfaces in order, each a <<parser, scope>>
  Listed,      \* Listed[s]: the ids on surface s at first
  Growing,     \* the surfaces on which something new appears
  MaxSeen,     \* maxSeenIDs
  Drift,       \* the schema-drift threshold
  Sessions,    \* 1..n, in the order the operator puts them in place
  MaxId, MaxTriggers, MaxWindows, MaxMishaps   \* bounds of the exploration

ASSUME SchoologyAssumption ==
  /\ Surfaces \in Seq({"assignments", "feed", "messages"} \X STRING) /\ Surfaces # << >>
  /\ MaxSeen \in Nat \ {0} /\ Drift \in Nat \ {0} /\ Sessions \in Nat \ {0}
  /\ MaxId \in Nat /\ MaxTriggers \in Nat /\ MaxWindows \in Nat /\ MaxMishaps \in Nat

Range1 == {Surfaces[i] : i \in 1..Len(Surfaces)}

\* A list is never longer than the seen-set: "the smallest ids are the least
\* likely to be listed again".
ASSUME ListedAssumption ==
  Listed \in [Range1 -> {S \in SUBSET (1..MaxId) : Cardinality(S) <= MaxSeen}]

Feeds == {s \in Range1 : s[1] = "feed"}
\* The attachments of a feed keep a seen-set of their own.
AttachmentsOf(s) == <<"attachment", s[2]>>
Scopes == Range1 \cup {AttachmentsOf(s) : s \in Feeds}
HasAttachment(s, id) == s \in Feeds /\ id % 2 = 1
NoTodo == [s |-> <<"none", "">>, ids |-> {}, att |-> 0]

VARIABLES
  listed,     \* listed[s]: the ids Schoology lists on surface s
  seenIDs,    \* checkpoint: seenIDs[s]
  session,    \* the session in the credentials file
  dead,       \* sessions Schoology no longer accepts
  marked,     \* the refused session on record (rejected-session file), 0 none
  st,         \* the process: "poll", "watch", "refused", "stopped", "waiting"
  using,      \* the session the process was started with
  step,       \* index of the surface being polled
  catchUp,    \* the poll is the process's first
  todo,       \* the surface being polled: the ids left to stage, and the
              \*  post whose attachment comes next
  dedup,      \* (parser, class) pairs observed in this poll
  produced, errs, drift,
  signal,     \* the pollSignal channel holds a signal
  debounced,  \* a trigger was accepted less than the debounce time ago
  notBefore,  \* the current window's scheduled poll has fired
  out,        \* history: <<scope, id>> staged
  again,      \* history: stagings of something already staged
  receipts,   \* history: receipts of this poll, per pair
  owed,       \* history: a trigger was answered 202 and no poll began since
  fired,      \* history: scheduled polls of this process in this window
  wasted,     \* history: polls begun with a session already refused
  tally       \* [triggers, windows, mishaps]

pollVars == <<listed, seenIDs, session, dead, marked, st, using, step, catchUp, todo, dedup,
              produced, errs, drift, signal, debounced, notBefore, out, again, receipts,
              owed, fired, wasted, tally>>
outside == <<listed, session, dead>>
trig    == <<signal, debounced, owed>>
window  == <<notBefore, fired>>
results == <<produced, errs, drift, catchUp>>
history == <<out, again>>

Mishap(n) == /\ tally.mishaps + n <= MaxMishaps
             /\ tally' = [tally EXCEPT !.mishaps = @ + n]

SchoologyInit ==
  /\ listed = Listed /\ seenIDs = [s \in Scopes |-> {}]
  /\ session = 1 /\ dead = {} /\ marked = 0
  /\ st = "poll" /\ using = 1 /\ step = 1 /\ catchUp = TRUE /\ todo = NoTodo /\ dedup = {}
  /\ produced = 0 /\ errs = FALSE /\ drift = 0
  /\ signal = FALSE /\ debounced = FALSE /\ notBefore = FALSE
  /\ out = {} /\ again = 0 /\ receipts = {} /\ owed = FALSE /\ fired = 0 /\ wasted = 0
  /\ tally = [triggers |-> 0, windows |-> 0, mishaps |-> 0]

-----------------------------------------------------------------------------
(* Outside.  Listings and the session change between polls.                  *)
Settled == st \in {"watch", "waiting"}

\* Something new is listed; the oldest entry drops off a full list, which is
\* never longer than the seen-set.
Publish(s, off) ==
  /\ Settled /\ s \in Growing /\ \E id \in 1..MaxId :
       /\ \A i \in listed[s] : i < id
       /\ id = 1 + Cardinality({i \in 1..MaxId : \E j \in listed[s] : i <= j})
       /\ LET all == listed[s] \cup {id}
              low == CHOOSE i \in all : \A j \in all : i <= j IN
          /\ off \/ Cardinality(all) <= MaxSeen
          /\ listed' = [listed EXCEPT ![s] = IF off THEN all \ {low} ELSE all]
  /\ UNCHANGED <<session, dead, seenIDs, marked, st, using, step, todo, dedup, results,
                 trig, window, history, receipts, wasted, tally>>

SessionDies ==
  /\ Settled /\ session \notin dead
  /\ Mishap(1) /\ dead' = dead \cup {session}
  /\ UNCHANGED <<listed, session, seenIDs, marked, st, using, step, todo, dedup, results,
                 trig, window, history, receipts, wasted>>

NewSession ==
  /\ Settled /\ session < Sessions /\ session' = session + 1
  /\ UNCHANGED <<listed, dead, seenIDs, marked, st, using, step, todo, dedup, results,
                 trig, window, history, receipts, wasted, tally>>

DebouncePasses ==
  /\ debounced /\ debounced' = FALSE
  /\ UNCHANGED <<outside, seenIDs, marked, st, using, step, todo, dedup, results, signal, owed,
                 window, history, receipts, wasted, tally>>

WindowPasses ==
  /\ st = "watch" /\ tally.windows < MaxWindows
  /\ notBefore' = FALSE /\ fired' = 0
  /\ tally' = [tally EXCEPT !.windows = @ + 1]
  /\ UNCHANGED <<outside, seenIDs, marked, st, using, step, todo, dedup, results, trig,
                 history, receipts, wasted>>

\* Mutant: a trigger that comes during a poll is dropped.
handlePoll_busy ==
  /\ st \in {"poll", "watch", "refused"} /\ tally.triggers < MaxTriggers
  /\ ~debounced
  /\ signal' = (st = "watch") /\ debounced' = TRUE /\ owed' = TRUE
  /\ tally' = [tally EXCEPT !.triggers = @ + 1]
  /\ UNCHANGED <<outside, seenIDs, marked, st, using, step, todo, dedup, results, window,
                 history, receipts, wasted>>

\* handlePoll: a trigger within the debounce time is turned away; otherwise
\* it is put in the one-slot channel, or joins the one already there.
handlePoll ==
  /\ st \in {"poll", "watch", "refused"} /\ tally.triggers < MaxTriggers
  /\ ~debounced
  /\ signal' = TRUE /\ debounced' = IF signal THEN debounced ELSE TRUE
  /\ owed' = TRUE
  /\ tally' = [tally EXCEPT !.triggers = @ + 1]
  /\ UNCHANGED <<outside, seenIDs, marked, st, using, step, todo, dedup, results, window,
                 history, receipts, wasted>>

-----------------------------------------------------------------------------
(* Starting a poll.                                                          *)
Begin ==
  /\ st' = "poll" /\ step' = 1 /\ todo' = NoTodo
  /\ dedup' = {} /\ receipts' = {} /\ produced' = 0 /\ errs' = FALSE
  /\ owed' = FALSE /\ catchUp' = FALSE
  /\ wasted' = IF using \in dead THEN wasted + 1 ELSE wasted

\* The schedule's timer; the next one is computed from the window's end.
scheduledPoll ==
  /\ st = "watch" /\ ~notBefore /\ Begin
  /\ notBefore' = TRUE /\ fired' = fired + 1
  /\ UNCHANGED <<outside, seenIDs, marked, using, drift, signal, debounced, history, tally>>

triggeredPoll ==
  /\ st = "watch" /\ signal /\ Begin
  /\ signal' = FALSE
  /\ UNCHANGED <<outside, seenIDs, marked, using, drift, debounced, window, history, tally>>

-----------------------------------------------------------------------------
(* One surface: processAssignments, ProcessFeed, ProcessMessages.            *)
surface == Surfaces[step]
\* ReceiptDedup.Observe and the receipt it calls for.
Observe(parser, class) ==
  /\ dedup' = dedup \cup {<<parser, class>>}
  /\ receipts' = IF <<parser, class>> \in dedup THEN receipts
                                                ELSE receipts \cup {<<parser, class, 1>>}

\* The list is read: what the seen-set does not hold is to be staged.  Rows
\* that do not parse are reported and left out.
list ==
  /\ st = "poll" /\ step <= Len(Surfaces) /\ todo = NoTodo
  /\ using \notin dead
  /\ \E bad \in SUBSET listed[surface] :
       /\ Cardinality(bad) <= 1 /\ Mishap(Cardinality(bad))
       /\ todo' = [s |-> surface, ids |-> (listed[surface] \ seenIDs[surface]) \ bad, att |-> 0]
       /\ IF bad = {} THEN UNCHANGED <<dedup, receipts, errs>>
                      ELSE Observe(surface[1], "row_parse") /\ errs' = TRUE
  /\ UNCHANGED <<outside, seenIDs, marked, st, using, step, produced, drift, catchUp, trig, window,
                 history, wasted>>

\* The list cannot be read; the poll goes on with the next surface.
listFails ==
  /\ st = "poll" /\ step <= Len(Surfaces) /\ todo = NoTodo
  /\ \/ using \in dead /\ Mishap(0) /\ Observe(surface[1], "auth")
     \/ Mishap(1) /\ Observe(surface[1], "network")
  /\ errs' = TRUE /\ step' = step + 1
  /\ UNCHANGED <<outside, seenIDs, marked, st, using, todo, produced, drift, catchUp, trig, window,
                 history, wasted>>

SaveLastSeenID(s, id) ==
  LET all == seenIDs[s] \cup {id} IN
  seenIDs' = [seenIDs EXCEPT ![s] =
                IF Cardinality(all) > MaxSeen
                  THEN all \ {CHOOSE i \in all : \A j \in all : i <= j} ELSE all]
Stage(s, id) ==
  /\ out' = out \cup {<<s, id>>}
  /\ again' = IF <<s, id>> \in out THEN again + 1 ELSE again
  /\ produced' = produced + 1

\* In list order, newest first: an item is staged, then its id saved; a
\* staging that fails leaves the id for the next poll, a save that fails is
\* only logged.  The attachments of
\* a post follow at once, and only when the post was staged in this poll.
stageItem(id) ==
  /\ st = "poll" /\ id \in todo.ids /\ (\A i \in todo.ids : i <= id) /\ todo.att = 0
  /\ \/ Stage(todo.s, id) /\ SaveLastSeenID(todo.s, id) /\ Mishap(0)
     \/ Stage(todo.s, id) /\ UNCHANGED seenIDs /\ Mishap(1)
     \/ UNCHANGED <<history, produced, seenIDs>> /\ Mishap(1)
  /\ todo' = [todo EXCEPT !.ids = @ \ {id},
                          !.att = IF produced' > produced /\ HasAttachment(todo.s, id) THEN id ELSE 0]
  /\ UNCHANGED <<outside, marked, st, using, step, dedup, errs, drift, catchUp, trig,
                 window, receipts, wasted>>

\* ProcessAttachments for the post just staged: a download or a staging that
\* fails skips the attachment.
ProcessAttachments ==
  /\ st = "poll" /\ todo.att # 0
  /\ LET s == AttachmentsOf(todo.s)  id == todo.att IN
     \/ id \in seenIDs[s] /\ UNCHANGED <<history, produced, seenIDs>> /\ Mishap(0)
     \/ /\ id \notin seenIDs[s]
        /\ \/ Stage(s, id) /\ SaveLastSeenID(s, id) /\ Mishap(0)
           \/ UNCHANGED <<history, produced, seenIDs>> /\ Mishap(1)
  /\ todo' = [todo EXCEPT !.att = 0]
  /\ UNCHANGED <<outside, marked, st, using, step, dedup, errs, drift, catchUp, trig,
                 window, receipts, wasted>>

\* The three surfaces: the same steps, with attachments on a feed.
isSurface(parser) == st = "poll" /\ step <= Len(Surfaces) /\ surface[1] = parser
stepOfSurface == list \/ listFails \/ \E id \in 1..MaxId : stageItem(id)
processAssignments == isSurface("assignments") /\ stepOfSurface
ProcessFeed        == isSurface("feed") /\ (stepOfSurface \/ ProcessAttachments)
ProcessMessages    == isSurface("messages") /\ stepOfSurface

surfaceDone ==
  /\ st = "poll" /\ todo # NoTodo /\ todo.ids = {} /\ todo.att = 0
  /\ todo' = NoTodo /\ step' = step + 1
  /\ UNCHANGED <<outside, seenIDs, marked, st, using, dedup, results, trig, window, history,
                 receipts, wasted, tally>>

-----------------------------------------------------------------------------
(* The end of a poll.                                                        *)
sessionRefused == \E o \in dedup : o[2] = "auth"

\* RecordPoll: a poll that produced something resets the drift counter, one
\* that produced nothing and met errors counts, a quiet one changes nothing.
RecordPoll(e) == drift' = IF produced > 0 THEN 0 ELSE IF e THEN drift + 1 ELSE drift

\* The details are left out of a poll whose session was refused; they may
\* find it refused themselves.  A refused session is put on record and ends
\* the process; so does the drift threshold, checked after every poll but
\* the catch-up one.
finish ==
  /\ st = "poll" /\ step > Len(Surfaces)
  /\ \E refused \in {sessionRefused, sessionRefused \/ using \in dead} :
       /\ RecordPoll(errs \/ refused)
       /\ st' = IF refused THEN "refused"
                ELSE IF ~catchUp /\ drift' >= Drift THEN "stopped" ELSE "watch"
  /\ UNCHANGED <<outside, seenIDs, marked, using, step, todo, dedup, produced, errs, catchUp, trig,
                 window, history, receipts, wasted, tally>>

markRejected ==
  /\ st = "refused" /\ st' = "stopped"
  /\ \/ marked' = using /\ Mishap(0)
     \/ UNCHANGED marked /\ Mishap(1)
  /\ UNCHANGED <<outside, seenIDs, using, step, todo, dedup, results, trig, window, history,
                 receipts, wasted>>

\* A new process: it waits while the credentials hold the session on record
\* as refused, and then polls at once.
Process(s) ==
  /\ st' = "poll" /\ catchUp' = TRUE /\ using' = s /\ step' = 1 /\ todo' = NoTodo
  /\ dedup' = {} /\ receipts' = {} /\ produced' = 0 /\ errs' = FALSE /\ drift' = 0
  /\ signal' = FALSE /\ debounced' = FALSE /\ owed' = FALSE /\ notBefore' = FALSE /\ fired' = 0
  /\ wasted' = IF s \in dead THEN wasted + 1 ELSE wasted

restart ==
  /\ st = "stopped"
  /\ IF session = marked
       THEN /\ st' = "waiting"
            /\ UNCHANGED <<using, step, todo, dedup, results, trig, window, receipts, wasted>>
       ELSE Process(session)
  /\ UNCHANGED <<outside, seenIDs, marked, history, tally>>

WaitForFreshCredentials ==
  /\ st = "waiting" /\ session # marked
  /\ Process(session)
  /\ UNCHANGED <<outside, seenIDs, marked, history, tally>>

\* The process dies; between a staging and its save the id is not saved.
crash ==
  /\ st \in {"poll", "watch", "refused"} /\ Mishap(1) /\ st' = "stopped"
  /\ \/ UNCHANGED <<history, produced>>
     \/ \E id \in todo.ids : (\A i \in todo.ids : i <= id) /\ todo.att = 0 /\ Stage(todo.s, id)
     \/ /\ todo.att # 0 /\ todo.att \notin seenIDs[AttachmentsOf(todo.s)]
        /\ Stage(AttachmentsOf(todo.s), todo.att)
  /\ UNCHANGED <<outside, seenIDs, marked, using, step, todo, dedup, errs, drift, catchUp, trig, window,
                 receipts, wasted>>

SchoologyNext ==
  \/ \E s \in Range1, off \in BOOLEAN : Publish(s, off)
  \/ SessionDies \/ NewSession \/ DebouncePasses \/ WindowPasses \/ handlePoll
  \/ scheduledPoll \/ triggeredPoll
  \/ processAssignments \/ ProcessFeed \/ ProcessMessages
  \/ surfaceDone \/ finish \/ markRejected \/ restart \/ WaitForFreshCredentials \/ crash

-----------------------------------------------------------------------------
SchoologyTypeOK ==
  /\ listed \in [Range1 -> SUBSET (1..MaxId)]
  /\ seenIDs \in [Scopes -> SUBSET (1..MaxId)]
  /\ \A s \in Scopes : Cardinality(seenIDs[s]) <= MaxSeen
  /\ session \in 1..Sessions /\ using \in 1..Sessions /\ marked \in 0..Sessions
  /\ st \in {"poll", "watch", "refused", "stopped", "waiting"}
  /\ step \in 1..(Len(Surfaces) + 1) /\ drift \in Nat
  /\ st = "watch" => drift <= Drift

\* What the seen-sets hold has been staged: no failed staging, crash or
\* failed poll passes an item over.
NoIdPassedOver == \A s \in Scopes : \A id \in seenIDs[s] : <<s, id>> \in out

\* With lists no longer than the seen-set, an item is staged a second time
\* only after a crash or a failed save: dropping the smallest ids is enough.
StagedAgainOnlyAfterMishap == again <= tally.mishaps

\* A post's attachment is only missed through a mishap, and each mishap
\* misses one at most: nothing else comes between a post and its attachment.
missing == {p \in out : /\ p[1] \in Feeds /\ HasAttachment(p[1], p[2])
                        /\ <<AttachmentsOf(p[1]), p[2]>> \notin out}
MissedAttachmentsCounted ==
  Cardinality(missing) <= tally.mishaps + (IF st = "poll" /\ todo.att # 0 THEN 1 ELSE 0)

\* A poll writes one receipt per parser and class, however many kids and
\* rows meet the error.
OneReceiptPerClass == \A r \in receipts : r[3] = 1

\* A trigger answered 202 that no poll has followed is still in the channel,
\* also when it arrived during a poll or joined another.
TriggerNotLost == owed /\ st \in {"poll", "watch"} => signal

\* A process polls each window at most once on schedule.
ScheduledOncePerWindow == fired <= 1

\* A session Schoology refused is polled with at most once: it is recorded
\* before the process ends and waited out by every later one, unless
\* recording it fails.
RefusedSessionLeft == wasted <= Cardinality(dead) + tally.mishaps

\* Through failed stagings, crashes, triggers during polls and refused
\* sessions, Schoology's seen-sets pass nothing over and forget nothing still
\* listed, a missed attachment is accounted for, an error class has one
\* receipt per poll, a trigger answered 202 is followed by a poll, a window is
\* polled once on schedule, and a refused session is left alone.
SchoologySafe ==
  /\ SchoologyTypeOK /\ NoIdPassedOver /\ StagedAgainOnlyAfterMishap /\ MissedAttachmentsCounted
  /\ OneReceiptPerClass /\ TriggerNotLost /\ ScheduledOncePerWindow /\ RefusedSessionLeft
=============================================================================
