---------------------------- MODULE SessionGate ----------------------------
(***************************************************************************)
(* The PowerSchool connector's process: when it polls, whether it has a    *)
(* session to poll with, and how it asks for one.                          *)
(*                                                                         *)
(* A poll starts from the schedule (Watch) or, once after a start, as a    *)
(* catch-up (Poll).  pollNow runs the session gate (SessionGate.Ensure),   *)
(* which reads the session file, asks the portal about the session and,    *)
(* when it is dead, asks for a login in one of the two ways a deployment   *)
(* chooses: the login broker answers with the outcome; the request         *)
(* mailbox is a field of a ConfigMap, and the session arrives in the file. *)
(* With neither, the process exits and waits for another session.          *)
(*                                                                         *)
(* What the kids' turns read is abstracted to how pollKids ends; the login *)
(* broker is abstracted to its answers (module Login has its inside).      *)
(* Time is in ticks, and the day the model runs through ends at MaxTime.   *)
(***************************************************************************)
EXTENDS Integers, Sequences, FiniteSets

CONSTANTS
    Modes,          \* the deployments considered: "broker", "mailbox", "off"
    MaxTime,        \* bound: the last tick of the modelled day
    Windows,        \* poll_schedule.windows: a sequence of [start, end)
    Blackout,       \* the ticks psportal.FloorBlocksLoginAt refuses
    Wait,           \* login_on_demand.wait_seconds
    MinInterval,    \* login_on_demand.min_interval_minutes
    FreshAge,       \* freshFileAge
    MaxUnanswered,  \* maxUnansweredRequests
    FailureThreshold, \* failure_threshold
    ExpiresAt,      \* the tick from which a dead session's document is expired too
    MaxSessions,    \* bound: sessions ever made
    MaxLogins,      \* bound: sessions made before the login workload stops
    MaxGateFaults,  \* bound: crashes, checks without an answer, failed calls
    MaxResets       \* bound: POWERSCHOOL_LOGIN_BACKOFF_RESET values

ASSUME GateAssumption ==
    /\ Modes \subseteq {"broker", "mailbox", "off"}
    /\ {MaxTime, Wait, MinInterval, FreshAge, MaxUnanswered, FailureThreshold,
        ExpiresAt, MaxSessions, MaxLogins, MaxGateFaults, MaxResets} \subseteq Nat
    /\ FailureThreshold > 0 /\ MaxSessions > 0
    /\ Windows \in Seq([start : 0..MaxTime, end : 0..MaxTime])
    /\ \A i \in DOMAIN Windows : Windows[i].start < Windows[i].end

Never == -1         \* a time that was never recorded
NoSession == 0      \* the fingerprint of no session
NoHold == [fp |-> -1, until |-> 0]
NoStrikes == [n |-> 0, fp |-> NoSession]
SessionIds == 1..MaxSessions

VARIABLES
    mode,       \* the deployment
    now,        \* the clock
    status,     \* per session: "unmade", "live", "dead", "expired"
    file,       \* the session file: its session and when it was written
    box,        \* the request ConfigMap: the time of the last request
    token,      \* the operator's reset token (0: not set)
    disk,       \* what survives a restart: checkpoint and state files
    mem,        \* the process
    faults,     \* faults so far
    upToNow     \* history the properties are stated over

gateVars == <<mode, now, status, file, box, token, disk, mem, faults, upToNow>>
env == <<mode, now, status, file, box, token>>

----------------------------------------------------------------------------
(* The schedule *)

windowEnd(t) ==
    LET in == {i \in DOMAIN Windows : Windows[i].start <= t /\ t < Windows[i].end}
    IN  IF in = {} THEN t ELSE Windows[CHOOSE i \in in : TRUE].end

\* The latest window opening at or before t (Never: none yet).
lastWindowStart(t) ==
    LET starts == {Windows[i].start : i \in DOMAIN Windows}
        opened == {s \in starts : s <= t}
    IN  IF opened = {} THEN Never ELSE CHOOSE s \in opened : \A r \in opened : r <= s

\* A window whose random moment falls before "from" is passed over for the
\* next one, so a window that has opened may or may not be used.
computeNextPollTime(from) ==
    {t \in from..MaxTime :
        \E k \in DOMAIN Windows :
            /\ Windows[k].start <= t /\ t < Windows[k].end
            /\ \A j \in 1..(k - 1) : Windows[j].start < from}

Later(s, t) == IF s < t THEN t ELSE s

\* Mutant: the time to wait until is not kept.
deferUntil_never(m, t) == m

deferUntil(m, t) == [m EXCEPT !.notBefore = Later(m.notBefore, t)]

----------------------------------------------------------------------------
(* Session state, session file and checkpoint *)

\* The process before it has done anything.
Fresh == [pc |-> "down", fp |-> NoSession, held |-> FALSE, replaced |-> NoSession,
          asked |-> FALSE, failed |-> 0, notBefore |-> 0, next |-> Never,
          dead |-> NoSession, deadline |-> Never, turn |-> "ensure"]

\* SessionState.Set and SetSubject: a change of state drops the subject, and
\* both are written to the state file.
SetState(d, st, subj) ==
    [d EXCEPT !.st = st, !.subj = IF st = "waiting" THEN subj ELSE NoSession]

reload(m) ==
    IF file.fp = NoSession \/ (m.held /\ file.fp = m.replaced /\ file.fp # m.fp)
      THEN m
      ELSE [m EXCEPT !.fp = file.fp, !.held = FALSE, !.replaced = NoSession]

adopt(m, s) ==
    [m EXCEPT !.replaced = IF m.held THEN m.replaced ELSE m.fp,
              !.held = TRUE, !.fp = s]

honourReset(d) ==
    IF token = 0 \/ d.token = token
      THEN d
      ELSE [d EXCEPT !.token = token, !.unans = NoStrikes, !.hold = NoHold]

clearUnanswered(d) == [d EXCEPT !.unans = NoStrikes]
clearBrokerHold(d) == [d EXCEPT !.hold = NoHold]
saveBrokerHold(d, fp, until) == [d EXCEPT !.hold = [fp |-> fp, until |-> until]]

\* bumpUnanswered: the count, and the session in use when it gave up.
bumpUnanswered(d, m) == [d EXCEPT !.unans = [n |-> d.unans.n + 1, fp |-> m.fp]]

\* NewSessionProbe, ClassifyHomeResponse: what the portal answers.  A fault is
\* an answer that says nothing, or one that refuses an accepted session.
probe(s) ==
    IF status[s] = "live"
      THEN {"live"} \union IF faults < MaxGateFaults THEN {"unknown", "dead"} ELSE {}
      ELSE {"dead"} \union IF faults < MaxGateFaults THEN {"unknown"} ELSE {}

\* SessionGate.check: no session and an expired document are dead without
\* asking the portal.
check(fp) ==
    IF fp = NoSession \/ status[fp] = "expired" THEN {"dead"} ELSE probe(fp)

\* Whether verdict v about fp is one of those faults.
Spend(fp, v) ==
    IF v = "unknown" \/ (v = "dead" /\ fp # NoSession /\ status[fp] = "live") THEN 1 ELSE 0

----------------------------------------------------------------------------
(* How a gate result ends or continues the poll *)

Idle(m) == [m EXCEPT !.pc = "idle", !.next = Never, !.asked = FALSE, !.dead = NoSession,
                     !.deadline = Never, !.turn = "ensure"]

\* countFailedPoll: at the threshold the process exits.
countFailedPoll(m) ==
    IF m.failed + 1 >= FailureThreshold THEN Fresh
                                 ELSE [Idle(m) EXCEPT !.failed = m.failed + 1]

reportSessionState(d, m, result) ==
    CASE result = "live"    -> SetState(d, "usable", NoSession)
      [] result = "unknown" -> SetState(d, "unknown", NoSession)
      [] OTHER              -> SetState(d, "waiting", m.fp)

\* pollNow's switch on the result of Ensure, and its use of Renew's.
Conclude(d, m, result) ==
    /\ disk' = IF m.turn = "renew" /\ result # "live"
                 THEN SetState(d, "waiting", m.fp)
                 ELSE reportSessionState(d, m, result)
    /\ mem' = CASE result = "live" -> [m EXCEPT !.pc = "reading"]
                [] result = "failed" /\ mode = "mailbox" -> countFailedPoll(m)
                [] result = "blocked" /\ mode = "mailbox" -> Fresh
                [] OTHER -> Idle(m)

\* sessionRejected (on-demand login off): the session is marked and the
\* process exits.
sessionRejected(d, m) ==
    /\ disk' = [SetState(d, "waiting", m.fp) EXCEPT
                   !.rejected = IF m.fp = NoSession THEN @ ELSE m.fp]
    /\ mem' = Fresh

Accepted(h) == [h EXCEPT !.wasted = 0, !.wastedFp = NoSession, !.told = NoHold, !.lastDead = NoSession, !.ok = TRUE]
Refused(h, fp) == [h EXCEPT !.lastDead = fp, !.ok = FALSE]

\* requestAndWait with the login broker, for the session m.fp found dead.
AskBroker(d, m, h) ==
    \/ /\ d.unans.n >= MaxUnanswered
       /\ Conclude(d, m, "blocked")
       /\ upToNow' = h
    \/ /\ d.unans.n < MaxUnanswered
       /\ d.hold.fp = m.fp /\ now < d.hold.until
       /\ Conclude(d, m, "skip")
       /\ upToNow' = h
    \/ /\ d.unans.n < MaxUnanswered
       /\ ~(d.hold.fp = m.fp /\ now < d.hold.until)
       /\ disk' = d
       /\ mem' = [m EXCEPT !.pc = "asking", !.dead = m.fp, !.asked = TRUE]
       /\ upToNow' = [h EXCEPT !.asks = h.asks + 1,
                            !.early = h.told.fp = m.fp /\ now < h.told.until]

\* Mutant: the time of the request is not saved.
AskMailbox_unsaved(d, m, h) ==
    LET lifted == d.unans.n >= MaxUnanswered /\ d.unans.fp # m.fp
        d1 == IF lifted THEN clearUnanswered(d) ELSE d
        h1 == IF lifted /\ h.wastedFp # m.fp THEN [h EXCEPT !.wasted = 0, !.wastedFp = NoSession] ELSE h
        since == now - d1.lastReq
        recent == d1.lastReq # Never /\ since < MinInterval
    IN  \/ /\ d1.unans.n >= MaxUnanswered
           /\ Conclude(d1, m, "blocked")
           /\ upToNow' = h1
        \/ /\ d1.unans.n < MaxUnanswered
           /\ \/ m.fp # NoSession /\ now - file.mtime < FreshAge
              \/ now \in Blackout
              \/ recent /\ since >= Wait
           /\ Conclude(d1, m, "skip")
           /\ upToNow' = h1
        \/ /\ d1.unans.n < MaxUnanswered
           /\ ~(m.fp # NoSession /\ now - file.mtime < FreshAge)
           /\ now \notin Blackout
           /\ \/ /\ recent /\ since < Wait
                 /\ disk' = d1
                 /\ mem' = [m EXCEPT !.pc = "waiting", !.dead = m.fp,
                                     !.deadline = d1.lastReq + Wait]
              \/ /\ ~recent
                 /\ disk' = d1
                 /\ mem' = [m EXCEPT !.pc = "requesting", !.dead = m.fp,
                                     !.deadline = now + Wait]
           /\ upToNow' = h1

\* requestAndWait with the mailbox.  The request's time is saved before the
\* request is made; one made moments ago is waited for.
AskMailbox(d, m, h) ==
    LET lifted == d.unans.n >= MaxUnanswered /\ d.unans.fp # m.fp
        d1 == IF lifted THEN clearUnanswered(d) ELSE d
        h1 == IF lifted /\ h.wastedFp # m.fp THEN [h EXCEPT !.wasted = 0, !.wastedFp = NoSession] ELSE h
        since == now - d1.lastReq
        recent == d1.lastReq # Never /\ since < MinInterval
    IN  \/ /\ d1.unans.n >= MaxUnanswered
           /\ Conclude(d1, m, "blocked")
           /\ upToNow' = h1
        \/ /\ d1.unans.n < MaxUnanswered
           /\ \/ m.fp # NoSession /\ now - file.mtime < FreshAge
              \/ now \in Blackout
              \/ recent /\ since >= Wait
           /\ Conclude(d1, m, "skip")
           /\ upToNow' = h1
        \/ /\ d1.unans.n < MaxUnanswered
           /\ ~(m.fp # NoSession /\ now - file.mtime < FreshAge)
           /\ now \notin Blackout
           /\ \/ /\ recent /\ since < Wait
                 /\ disk' = d1
                 /\ mem' = [m EXCEPT !.pc = "waiting", !.dead = m.fp,
                                     !.deadline = d1.lastReq + Wait]
              \/ /\ ~recent
                 /\ disk' = [d1 EXCEPT !.lastReq = now]
                 /\ mem' = [m EXCEPT !.pc = "requesting", !.dead = m.fp,
                                     !.deadline = now + Wait]
           /\ upToNow' = h1

----------------------------------------------------------------------------
(* pollNow: the poll's time is saved, then the gate *)

\* SessionGate.Ensure from the state (d, m) the poll starts in.
Ensure(d, m) ==
    LET d0 == honourReset(d)
        m0 == reload([m EXCEPT !.asked = FALSE, !.turn = "ensure"])
        h0 == [upToNow EXCEPT !.asks = 0, !.polls = upToNow.polls + 1, !.fileAt = file.fp,
                           !.wasted = IF d0.token # d.token THEN 0 ELSE @,
                           !.told = IF d0.token # d.token \/ @.fp # m0.fp THEN NoHold ELSE @,
                           !.lastDead = IF d0.token # d.token THEN NoSession ELSE @]
        onHold == mode = "broker" /\ d0.hold.fp = m0.fp
    IN  \/ /\ onHold
           /\ AskBroker(d0, m0, h0)
           /\ UNCHANGED faults
        \/ /\ ~onHold
           /\ \E v \in check(m0.fp) :
                LET contacted == m0.fp # NoSession /\ status[m0.fp] # "expired"
                    h == [h0 EXCEPT !.reprobed = h0.reprobed \/
                            (contacted /\ mode # "mailbox" /\ m0.fp = h0.lastDead)]
                IN
                /\ faults' = faults + Spend(m0.fp, v)
                /\ CASE v = "live" ->
                          /\ Conclude(clearBrokerHold(clearUnanswered(d0)), m0, "live")
                          /\ upToNow' = Accepted(h)
                     [] v = "unknown" ->
                          /\ Conclude(d0, m0, "unknown")
                          /\ upToNow' = h
                     [] v = "dead" /\ mode = "off" ->
                          /\ sessionRejected(d0, m0)
                          /\ upToNow' = Refused(h, m0.fp)
                     [] v = "dead" /\ mode = "broker" ->
                          AskBroker(saveBrokerHold(d0, m0.fp, 0), m0, Refused(h, m0.fp))
                     [] v = "dead" /\ mode = "mailbox" ->
                          AskMailbox(d0, m0, Refused(h, m0.fp))

pollNow(m) ==
    /\ now + Wait <= MaxTime
    /\ Ensure([disk EXCEPT !.lastPoll = now], deferUntil(m, windowEnd(now)))
    /\ UNCHANGED env

\* The first poll after a start: skipped when no window has opened since the
\* last one.
Poll ==
    /\ mem.pc = "started"
    /\ LET m == IF disk.lastPoll = Never THEN mem
                ELSE deferUntil(mem, windowEnd(disk.lastPoll))
       IN  IF disk.lastPoll # Never /\ disk.lastPoll >= lastWindowStart(now)
             THEN /\ mem' = Idle(m)
                  /\ UNCHANGED <<env, disk, faults, upToNow>>
             ELSE pollNow(m)

\* Watch: the next poll is drawn, and made when its time has come.
WatchSchedule ==
    /\ mem.pc = "idle" /\ mem.next = Never
    /\ \E t \in computeNextPollTime(Later(now, mem.notBefore)) :
          mem' = [mem EXCEPT !.next = t]
    /\ UNCHANGED <<env, disk, faults, upToNow>>

WatchFire ==
    /\ mem.pc = "idle" /\ mem.next # Never /\ now >= mem.next
    /\ pollNow(deferUntil(mem, windowEnd(mem.next)))

----------------------------------------------------------------------------
(* The broker's answer *)

\* secondOpinion: the broker says the refused session is alive; the portal is
\* asked once more.
secondOpinion(v) ==
    CASE v = "live" ->
           /\ Conclude(clearUnanswered(clearBrokerHold(disk)), mem, "live")
           /\ upToNow' = Accepted(upToNow)
      [] v = "dead" ->
           LET d == bumpUnanswered(saveBrokerHold(disk, mem.fp, 0), mem)
           IN  /\ Conclude(d, mem, IF d.unans.n >= MaxUnanswered THEN "blocked" ELSE "failed")
               /\ upToNow' = [Refused(upToNow, mem.fp) EXCEPT !.wasted = @ + 1, !.told = NoHold]
      [] OTHER ->
           /\ Conclude(clearBrokerHold(disk), mem, "failed")
           /\ upToNow' = [upToNow EXCEPT !.told = NoHold, !.lastDead = NoSession]

\* The broker answers with session s (it was current, or has just been made),
\* and what the portal says of it decides.
BrokerSession(s) ==
    IF mem.dead # NoSession /\ s = mem.dead
      THEN \E v \in check(s) :
             faults' = faults + Spend(s, v) /\ secondOpinion(v)
      ELSE LET m == adopt(mem, s)
               h == [upToNow EXCEPT !.told = NoHold, !.base = IF mem.held THEN @ ELSE upToNow.fileAt]
           IN
           \E v \in check(s) :
             /\ faults' = faults + Spend(s, v)
             /\ CASE v = "live" ->
                       /\ Conclude(clearBrokerHold(clearUnanswered(disk)), m, "live")
                       /\ upToNow' = Accepted(h)
                  [] v = "dead" ->
                       LET d == bumpUnanswered(saveBrokerHold(disk, s, 0), m)
                       IN  /\ Conclude(d, m, IF d.unans.n >= MaxUnanswered THEN "blocked" ELSE "failed")
                           /\ upToNow' = [Refused(h, s) EXCEPT !.wasted = @ + 1]
                  [] OTHER ->
                       /\ Conclude(disk, m, "failed")
                       /\ upToNow' = h

Newest == LET made == {s \in SessionIds : status[s] # "unmade"}
          IN  IF made = {} THEN NoSession ELSE CHOOSE s \in made : \A r \in made : r <= s

\* external: the broker's store holds a session that is not the refused one,
\* or that it finds alive.
BrokerCurrent ==
    /\ mem.pc = "asking"
    /\ Newest # NoSession /\ (Newest # mem.dead \/ status[Newest] = "live")
    /\ BrokerSession(Newest)
    /\ UNCHANGED env

\* external: the broker logs in.  The session may be dead by the time it is
\* used here.
BrokerRefreshed ==
    /\ mem.pc = "asking"
    /\ Newest < MaxSessions
    /\ now \notin Blackout
    /\ status' = [status EXCEPT ![Newest + 1] = "live"]
    /\ disk' = disk /\ upToNow' = upToNow
    /\ mem' = [mem EXCEPT !.pc = "answered"]
    /\ UNCHANGED <<mode, now, file, box, token, faults>>

AnswerArrives ==
    /\ mem.pc = "answered"
    /\ BrokerSession(Newest)
    /\ UNCHANGED env

\* deferred and budget_exhausted: not before a time, or without one.
BrokerDeferred ==
    /\ mem.pc = "asking"
    /\ \E until \in {0, now + MinInterval} :
          /\ Conclude(saveBrokerHold(disk, mem.dead, until), mem, "skip")
          /\ upToNow' = [upToNow EXCEPT !.told = [fp |-> mem.dead, until |-> until]]
    /\ UNCHANGED <<env, faults>>

BrokerLatched ==
    /\ mem.pc = "asking"
    /\ Conclude(disk, mem, "blocked")
    /\ UNCHANGED <<env, faults, upToNow>>

\* unreachable, inconclusive, failed, or no usable session in the answer.
BrokerFails ==
    /\ mem.pc \in {"asking", "answered"} /\ faults < MaxGateFaults
    /\ faults' = faults + 1
    /\ Conclude(disk, mem, "failed")
    /\ UNCHANGED <<env, upToNow>>

----------------------------------------------------------------------------
(* The mailbox *)

RequestLogin ==
    /\ mem.pc = "requesting"
    /\ \/ /\ box' = mem.deadline - Wait
          /\ mem' = [mem EXCEPT !.pc = "waiting"]
          /\ UNCHANGED <<disk, faults>>
       \/ /\ faults < MaxGateFaults
          /\ faults' = faults + 1
          /\ Conclude(disk, mem, "failed")
          /\ UNCHANGED box
    /\ UNCHANGED <<mode, now, status, file, token, upToNow>>

\* waitForNewSession: the file is read again until it holds another session,
\* which is checked, or the wait is over.
GiveUp(m) ==
    LET d == bumpUnanswered(disk, m)
    IN  Conclude(d, m, IF d.unans.n >= MaxUnanswered THEN "blocked" ELSE "failed")

waitForNewSession ==
    /\ mem.pc = "waiting"
    /\ LET m == reload(mem) IN
       \/ /\ m.fp # NoSession /\ m.fp # mem.dead
          /\ \E v \in check(m.fp) :
               /\ faults' = faults + Spend(m.fp, v)
               /\ IF v = "live"
                    THEN /\ Conclude(clearUnanswered(disk), m, "live")
                         /\ upToNow' = Accepted(upToNow)
                    ELSE /\ GiveUp(m)
                         /\ upToNow' = [upToNow EXCEPT !.wasted = @ + 1, !.wastedFp = m.fp,
                                                 !.ok = (v # "dead") /\ upToNow.ok]
       \/ /\ m.fp = NoSession \/ m.fp = mem.dead
          /\ now >= mem.deadline
          /\ GiveUp(m)
          /\ upToNow' = [upToNow EXCEPT !.wasted = @ + 1, !.wastedFp = m.fp]
          /\ UNCHANGED faults
    /\ UNCHANGED env

----------------------------------------------------------------------------
(* The kids' turns *)

ReadDone ==
    /\ mem.pc = "reading" /\ status[mem.fp] = "live"
    /\ mem' = [Idle(mem) EXCEPT !.failed = 0]
    /\ UNCHANGED <<env, disk, faults, upToNow>>

\* No kid could be read, and it was not the session.
ReadNothing ==
    /\ mem.pc = "reading" /\ faults < MaxGateFaults
    /\ faults' = faults + 1
    /\ mem' = countFailedPoll(mem)
    /\ UNCHANGED <<env, disk, upToNow>>

\* A read was refused for want of a session.  With the broker the gate is
\* asked once more (Renew) and the turns run again.
Renew(d, m, h) ==
    LET d1 == saveBrokerHold(d, m.fp, 0)
    IN  IF m.asked
          THEN Conclude(d1, m, "skip") /\ upToNow' = h
          ELSE AskBroker(d1, m, h)

ReadRefused ==
    /\ mem.pc = "reading" /\ status[mem.fp] # "live"
    /\ LET h == Refused(upToNow, mem.fp) IN
       CASE mode = "broker" /\ mem.turn = "ensure" ->
              Renew(disk, [mem EXCEPT !.turn = "renew"], h)
         [] mode = "off" -> sessionRejected(disk, mem) /\ upToNow' = h
         [] OTHER -> /\ disk' = SetState(disk, "waiting", mem.fp)
                     /\ mem' = Idle(mem)
                     /\ upToNow' = [upToNow EXCEPT !.ok = FALSE]
    /\ UNCHANGED <<env, faults>>

----------------------------------------------------------------------------
(* Starts and stops *)

\* PersistTo: of the states, a wait is restored from the state file.
PersistTo(d) == IF d.st = "waiting" THEN d ELSE SetState(d, "unknown", NoSession)

\* EndWaitIfReplaced: a restored wait ends when another session is in place.
EndWaitIfReplaced(d) ==
    IF d.st = "waiting" /\ file.fp # NoSession /\ d.subj # NoSession /\ d.subj # file.fp
      THEN SetState(d, "unknown", NoSession)
      ELSE d

\* WaitForFreshSession: a refused session is waited out, and an unusable
\* document ends the start; the portal is not contacted meanwhile.
FreshSession == file.fp # NoSession /\ status[file.fp] # "expired" /\ file.fp # disk.rejected

\* main, with on-demand login.
StartOnDemand ==
    /\ mode # "off"
    /\ disk' = EndWaitIfReplaced(PersistTo(disk))

\* main, without: waitForSession.
StartWaiting ==
    /\ mode = "off"
    /\ FreshSession
    /\ disk' = SetState(disk, "unknown", NoSession)

Start ==
    /\ mem.pc = "down"
    /\ StartOnDemand \/ StartWaiting
    /\ mem' = [Fresh EXCEPT !.pc = "started"]
    /\ UNCHANGED <<env, faults, upToNow>>

\* The process is killed.
GateCrash ==
    /\ mem.pc # "down" /\ faults < MaxGateFaults
    /\ faults' = faults + 1
    /\ mem' = Fresh
    /\ UNCHANGED <<env, disk, upToNow>>

----------------------------------------------------------------------------
(* Everyone else *)

\* external: the portal ends a session, or its document's expiry passes.
SessionEnds ==
    /\ \E s \in SessionIds :
          /\ status[s] = "live"
          /\ status' = [status EXCEPT ![s] = IF now < ExpiresAt THEN "dead" ELSE "expired"]
    /\ UNCHANGED <<mode, now, file, box, token, disk, mem, faults, upToNow>>

\* external: the login workload logs in, for a request or by hand.  With the
\* broker, logins are the broker's.
LoginMade ==
    /\ mode # "broker" /\ Newest < MaxLogins
    /\ now \notin Blackout
    /\ status' = [status EXCEPT ![Newest + 1] = "live"]
    /\ UNCHANGED <<mode, now, file, box, token, disk, mem, faults, upToNow>>

\* external: a session made since reaches the file, not always the last.
FileSynced ==
    /\ \E s \in (file.fp + 1)..Newest : file' = [fp |-> s, mtime |-> now]
    /\ UNCHANGED <<mode, now, status, box, token, disk, mem, faults, upToNow>>

\* external: an operator sets a new reset token for the next start, once the
\* connector has stopped asking.
Operator ==
    /\ mem.pc = "down" /\ token < MaxResets
    /\ disk.unans.n >= MaxUnanswered \/ disk.hold # NoHold
    /\ token' = token + 1
    /\ UNCHANGED <<mode, now, status, file, box, disk, mem, faults, upToNow>>

Tick ==
    /\ now < MaxTime
    /\ now' = now + 1
    /\ upToNow' = IF lastWindowStart(now + 1) = now + 1 THEN [upToNow EXCEPT !.polls = 0] ELSE upToNow
    /\ UNCHANGED <<mode, status, file, box, token, disk, mem, faults>>

----------------------------------------------------------------------------

GateInit ==
    /\ mode \in Modes
    /\ now = 0
    /\ status = [s \in SessionIds |-> IF s = 1 THEN "live" ELSE "unmade"]
    /\ file = [fp |-> 1, mtime |-> Never]
    /\ box = Never
    /\ token = 0
    /\ disk = [lastPoll |-> Never, lastReq |-> Never, unans |-> NoStrikes,
               hold |-> NoHold, token |-> 0, rejected |-> NoSession,
               st |-> "unknown", subj |-> NoSession]
    /\ mem = Fresh
    /\ faults = 0
    /\ upToNow = [asks |-> 0, early |-> FALSE, polls |-> 0, wasted |-> 0, wastedFp |-> NoSession,
               told |-> NoHold, lastDead |-> NoSession, reprobed |-> FALSE, ok |-> FALSE,
               fileAt |-> NoSession, base |-> NoSession]

Connector ==
    \/ Poll \/ WatchSchedule \/ WatchFire
    \/ BrokerCurrent \/ BrokerRefreshed \/ AnswerArrives \/ BrokerDeferred
    \/ BrokerLatched \/ BrokerFails
    \/ RequestLogin \/ waitForNewSession
    \/ ReadDone \/ ReadNothing \/ ReadRefused

GateNext ==
    \/ Connector \/ Start \/ GateCrash
    \/ SessionEnds \/ LoginMade \/ FileSynced \/ Operator \/ Tick

GateSpec == GateInit /\ [][GateNext]_gateVars
----------------------------------------------------------------------------
(* Properties *)

Fps == 0..MaxSessions
Times == Never..(MaxTime + Wait + MinInterval)

\* The variables keep their types.
GateTypeOK ==
    /\ mode \in Modes /\ now \in 0..MaxTime 
    /\ status \in [SessionIds -> {"unmade", "live", "dead", "expired"}]
    /\ file \in [fp : Fps, mtime : Times]
    /\ box \in Times
    /\ token \in 0..MaxResets /\ faults \in 0..MaxGateFaults
    /\ disk \in [lastPoll : Times, lastReq : Times,
                 unans : [n : 0..(MaxUnanswered + 1), fp : Fps],
                 hold : [fp : Fps \union {-1}, until : Times],
                 token : 0..MaxResets, rejected : Fps,
                 st : {"unknown", "usable", "waiting"}, subj : Fps]
    /\ mem \in [pc : {"down", "started", "idle", "asking", "answered", "requesting",
                      "waiting", "reading"},
                fp : Fps, held : BOOLEAN, replaced : Fps, asked : BOOLEAN,
                failed : 0..(FailureThreshold - 1), notBefore : Times, next : Times,
                dead : Fps, deadline : Times, turn : {"ensure", "renew"}]

\* However often the process restarts, one opening of a window leads to one
\* poll: the poll's time is saved before the portal is contacted, a catch-up
\* needs a window that opened since, and the schedule starts after the
\* window already used (Poll, Watch, pollNow, deferUntil).
OnePollPerWindow == upToNow.polls <= 1

\* One poll asks the login broker once, also when the session it was given
\* stops being accepted while the kids are read (Ensure, Renew).
OneAskPerPoll == upToNow.asks <= 1

\* A broker that said when a login may next be made is not asked before then
\* while the session it was asked about stays in place, by this process or by
\* the next (askBroker, requestAndWait, saveBrokerHold).
DeferralKept == ~upToNow.early

\* At most MaxUnanswered logins in a row are spent without a session the
\* portal accepts; more need an accepted session, an operator, or (with the
\* mailbox) another session in place than when the connector gave up
\* (bumpUnanswered, requestAndWait, waitForNewSession, secondOpinion).
StrikesBounded == upToNow.wasted <= MaxUnanswered

\* The portal is not contacted again at the start of a poll with the session
\* it refused last, across restarts, until an operator resets the backoff or
\* the broker's second opinion clears the upToNow (Ensure, brokerHold,
\* RejectedSession).  With the mailbox it is, by design, and so is a session
\* that the broker gave in this poll and that its reads were refused with.
DeadNotReprobed == ~upToNow.reprobed

\* Between polls /status and the metric say "usable" only when the last thing
\* the portal said of the session in use was that it is accepted
\* (reportSessionState, pollNow).
UsableMeansAccepted == mem.pc = "idle" /\ disk.st = "usable" => upToNow.ok

\* Two requests in the mailbox are min_interval apart, across crashes
\* between recording a request and making it (requestAndWait).
RequestsPaced ==
    [][box' # box => box = Never \/ box' - box >= MinInterval]_gateVars

\* The session file does not bring back an older session than the broker's
\* while it still is as it was when the poll that adopted one began (adopt,
\* reload).
HeldSessionKept ==
    [][mem.held /\ mem'.pc # "down" /\ mem'.fp < mem.fp => file.fp # upToNow.base]_gateVars

\* The session gate keeps its promises across crashes and restarts: one poll
\* per window, one question to the broker per poll, none before the time the
\* broker named, a bounded number of logins spent in vain, no probe with a
\* session known to be refused, and a status that tells the truth (pollNow,
\* Ensure, Renew, requestAndWait).
GateSafe ==
    /\ GateTypeOK /\ OnePollPerWindow /\ OneAskPerPoll /\ DeferralKept
    /\ StrikesBounded /\ DeadNotReprobed /\ UsableMeansAccepted
============================================================================
