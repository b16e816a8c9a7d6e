-------------------------------- MODULE Push --------------------------------
(***************************************************************************)
(* The sources that push: the UniFi Protect subscription (connectors/unifi,*)
(* protect.go), whose frames are merged into one item per camera event, and*)
(* the webhook endpoints of connectors/github, meta, x and unifi.          *)
(*                                                                         *)
(* A camera event is followed frame by frame; its frames are numbered in   *)
(* the order they are read from the subscription, an item holds the        *)
(* numbers merged into it.  A delivery is one webhook request its sender   *)
(* repeats until it is answered with 200.                                  *)
(***************************************************************************)
EXTENDS Integers, FiniteSets

CONSTANTS
    CameraEvents,   \* ids of camera events
    MaxFrames,      \* frames read for one event
    Hooks,          \* the connectors with a webhook endpoint
    MaxPushFaults   \* failures, lost answers, dropped connections and crashes

ASSUME PushAssumption == MaxFrames \in Nat \ {0} /\ MaxPushFaults \in Nat

VARIABLES
    read,           \* [event -> number of frames read so far]
    ended,          \* events whose closing frame was read
    open,           \* [event -> frames merged in the open-event table; {}: absent]
    stale,          \* open events with no frame for maxOpenAge
    closing,        \* a closed event handleFrame is about to stage, or none
    sweeping,       \* events flushStale has taken from the table, not yet staged
    watching,       \* the subscription is up
    items,          \* staged items
    lost,           \* frames of events whose staging failed or that a crash wiped
    aged,           \* history: events that were once swept, or hit by a crash or failure
    hook,           \* the webhook endpoint followed
    post,           \* what the delivery its sender repeats has met
    hits,           \* how often each of its two parts was staged, up to two
    trouble         \* faults so far

pushVars == <<read, ended, open, stale, closing, sweeping, watching, items, lost, aged,
              hook, post, hits, trouble>>
cameraVars == <<read, ended, open, stale, closing, sweeping, watching, items, lost, aged>>
hookVars == <<hook, post, hits>>

Trouble == trouble < MaxPushFaults /\ trouble' = trouble + 1
Item(e, frames, whole) == [event |-> e, frames |-> frames, incomplete |-> ~whole]

-----------------------------------------------------------------------------
(* The Protect subscription. *)

\* handleFrame, up to the unlock: the frame is merged into its event's entry;
\* the closing one takes the entry out of the table.
handleFrame(e, last) ==
    /\ watching /\ closing = {}
    /\ e \notin ended /\ read[e] < MaxFrames
    /\ read' = [read EXCEPT ![e] = @ + 1]
    /\ stale' = stale \ {e}
    /\ LET merged == open[e] \cup {read[e] + 1} IN
       IF last THEN /\ open' = [open EXCEPT ![e] = {}]
                    /\ closing' = {Item(e, merged, TRUE)}
                    /\ ended' = ended \cup {e}
       ELSE open' = [open EXCEPT ![e] = merged] /\ UNCHANGED <<closing, ended>>
    /\ UNCHANGED <<sweeping, watching, items, lost, aged, hookVars, trouble>>

\* Mutant: a swept entry passes for a closed one.
flushStale_whole ==
    /\ watching /\ stale # {}
    /\ sweeping' = sweeping \cup {Item(e, open[e], TRUE) : e \in stale}
    /\ open' = [e \in CameraEvents |-> IF e \in stale THEN {} ELSE open[e]]
    /\ aged' = aged \cup stale
    /\ stale' = {}
    /\ UNCHANGED <<read, ended, closing, watching, items, lost, hookVars, trouble>>

\* flushStale, up to the unlock: every stale entry leaves the table at once.
flushStale ==
    /\ watching /\ stale # {}
    /\ sweeping' = sweeping \cup {Item(e, open[e], FALSE) : e \in stale}
    /\ open' = [e \in CameraEvents |-> IF e \in stale THEN {} ELSE open[e]]
    /\ aged' = aged \cup stale
    /\ stale' = {}
    /\ UNCHANGED <<read, ended, closing, watching, items, lost, hookVars, trouble>>

\* stage: one item handed to staging.  A failure is logged and the event,
\* which left the table before, is dropped.
stage(i) ==
    /\ closing' = closing \ {i} /\ sweeping' = sweeping \ {i}
    /\ \/ items' = items \cup {i} /\ UNCHANGED <<lost, aged, trouble>>
       \/ /\ Trouble /\ items' = items
          /\ lost' = [lost EXCEPT ![i.event] = @ \cup i.frames]
          /\ aged' = aged \cup {i.event}
    /\ UNCHANGED <<read, ended, open, stale, watching, hookVars>>

StageClosed == \E i \in closing : stage(i)
StageSwept == \E i \in sweeping : stage(i)

\* maxOpenAge goes by without a frame.
Age(e) ==
    /\ open[e] # {} /\ e \notin stale /\ stale' = stale \cup {e}
    /\ UNCHANGED <<read, ended, open, closing, sweeping, watching, items, lost, aged, hookVars, trouble>>

\* The subscription ends (a read fails, or runWatchLoop cancels it for its
\* periodic poll) and is set up again; the table is kept in between, frames
\* sent meanwhile never arrive.
Watch ==
    /\ closing = {}
    /\ IF watching THEN Trouble ELSE trouble' = trouble
    /\ watching' = ~watching
    /\ UNCHANGED <<read, ended, open, stale, closing, sweeping, items, lost, aged, hookVars>>

PushCrash ==
    /\ Trouble /\ watching' = FALSE
    /\ open' = [e \in CameraEvents |-> {}] /\ stale' = {} /\ closing' = {} /\ sweeping' = {}
    /\ lost' = [e \in CameraEvents |->
                   lost[e] \cup open[e] \cup UNION {i.frames : i \in {j \in closing \cup sweeping : j.event = e}}]
    /\ aged' = aged \cup {e \in CameraEvents : open[e] # {} \/ \E i \in closing \cup sweeping : i.event = e}
    /\ UNCHANGED <<read, ended, items, hookVars>>

-----------------------------------------------------------------------------
(* The webhook endpoints. *)

\* The endpoint's answer to one request: the parts it staged and the status.
\* The answer may be lost on its way.
Answer(parts, status) ==
    /\ post = "pending"
    /\ hits' = [p \in {1, 2} |-> IF p \in parts /\ hits[p] < 2 THEN hits[p] + 1 ELSE hits[p]]
    /\ \/ post' = (IF status = 200 THEN "delivered" ELSE "pending")
          /\ IF status = 500 THEN Trouble ELSE trouble' = trouble
       \/ Trouble /\ post' = post
    /\ UNCHANGED <<cameraVars, hook>>

\* A request no rule is for is answered with 200 and not staged.  For X the
\* event type is whichever key of the body comes first in a Go map, so that a
\* repeat of a body may meet another rule.
NoRule ==
    /\ post = "pending" /\ (hook = "x" \/ hits[1] = 0)
    /\ post' = "unmatched"
    /\ UNCHANGED <<cameraVars, hook, hits, trouble>>

\* One body is one item (its part 1).
github_Handler ==
    /\ hook = "github"
    /\ \/ Answer({1}, 200)
       \/ Answer({}, 500)
       \/ NoRule
meta_handleWebhookEvent ==
    /\ hook = "meta"
    /\ \/ Answer({1}, 200)
       \/ Answer({}, 500)
       \/ NoRule
x_handleWebhook ==
    /\ hook = "x"
    /\ \/ Answer({1}, 200)
       \/ Answer({}, 500)
       \/ NoRule
\* A UniFi body may hold several events: they are staged in order and the
\* first failure answers 500, whatever was staged before it.
unifi_surfaceHandler ==
    /\ hook = "unifi"
    /\ \/ Answer({1, 2}, 200)
       \/ \E n \in 0..1 : Answer(1..n, 500)
       \/ NoRule

-----------------------------------------------------------------------------
PushInit ==
    /\ read = [e \in CameraEvents |-> 0] /\ ended = {}
    /\ open = [e \in CameraEvents |-> {}] /\ stale = {}
    /\ closing = {} /\ sweeping = {} /\ watching = FALSE
    /\ items = {} /\ lost = [e \in CameraEvents |-> {}] /\ aged = {}
    /\ hook \in Hooks /\ post = "pending" /\ hits = [p \in {1, 2} |-> 0]
    /\ trouble = 0

Hook == github_Handler \/ meta_handleWebhookEvent \/ x_handleWebhook \/ unifi_surfaceHandler

PushNext ==
    \/ \E e \in CameraEvents, last \in BOOLEAN : handleFrame(e, last)
    \/ \E e \in CameraEvents : Age(e)
    \/ flushStale \/ StageClosed \/ StageSwept \/ Watch \/ PushCrash
    \/ Hook

\* The sweep ticker, the two staging goroutines, the watch loop and the clock
\* go on; senders repeat what was not answered with 200.
PushSpec ==
    /\ PushInit /\ [][PushNext]_pushVars
    /\ WF_pushVars(StageClosed) /\ WF_pushVars(StageSwept)
    /\ WF_pushVars(Watch /\ ~watching)
    /\ WF_pushVars(Hook)
    /\ WF_pushVars(flushStale)
    /\ \A e \in CameraEvents : WF_pushVars(Age(e))

-----------------------------------------------------------------------------
FramesOf(e, S) == UNION {i.frames : i \in {j \in S : j.event = e}}
OnTheWay == items \cup sweeping \cup closing

PushTypeOK ==
    /\ \A e \in CameraEvents : read[e] \in 0..MaxFrames /\ open[e] \subseteq 1..read[e] /\ lost[e] \subseteq 1..read[e]
    /\ ended \subseteq CameraEvents /\ stale \subseteq {e \in CameraEvents : open[e] # {}}
    /\ Cardinality(closing) <= 1 /\ aged \subseteq CameraEvents
    /\ \A i \in OnTheWay : i.frames # {} /\ i.frames \subseteq 1..read[i.event]
    /\ trouble \in 0..MaxPushFaults
    /\ post \in {"pending", "delivered", "unmatched"} /\ hits \in [{1, 2} -> 0..2]

\* Every frame read is in exactly one place: the open table, an item on its
\* way, one staged item, or among those a failure or a crash lost
\* (handleFrame and flushStale hand an entry on under the one lock).
FramesAccounted ==
    /\ \A e \in CameraEvents :
         /\ open[e] \cup lost[e] \cup FramesOf(e, OnTheWay) = 1..read[e]
         /\ open[e] \cap lost[e] = {} /\ (open[e] \cup lost[e]) \cap FramesOf(e, OnTheWay) = {}
    /\ \A i, j \in OnTheWay : i.event = j.event /\ i # j => i.frames \cap j.frames = {}
    /\ items \cap sweeping = {} /\ (items \cup sweeping) \cap closing = {}

\* An item says it is incomplete exactly when the frame that closes its event
\* is not in it (protect.go, stage).
IncompleteIsTold ==
    \A i \in items : i.incomplete <=> ~(i.event \in ended /\ read[i.event] \in i.frames)

\* An event that was never left open for maxOpenAge, and met no failure, is
\* one item (the comment on openEvent: staged once, when it ends).
OneItemPerEvent ==
    \A e \in CameraEvents : e \notin aged => Cardinality({i \in items : i.event = e}) <= 1

\* A webhook sender is told 200 only for a body that is staged whole, or that
\* no rule is for; and a body is staged again only when an answer was lost or
\* a part of it failed.
DeliveredIsStaged ==
    /\ post = "delivered" => hits[1] > 0 /\ (hook = "unifi" => hits[2] > 0)
    /\ post = "unmatched" /\ hook # "x" => hits[1] = 0
    /\ trouble = 0 => hits[1] <= 1

\* What is pushed is staged as it was sent, whichever of the frame reader, the
\* sweep and the watch loop's restarts takes it: every frame is in exactly one
\* place, an item says when its event's end is missing, an event that is not
\* left open too long is one item, and a sender is told 200 only for a body
\* that is staged (handleFrame, flushStale, the webhook handlers).
PushSafe ==
    PushTypeOK /\ FramesAccounted /\ IncompleteIsTold /\ OneItemPerEvent /\ DeliveredIsStaged
=============================================================================
