------------------------------- MODULE Login -------------------------------
(***************************************************************************)
(* The logins of one portal account.  Two workloads may make them: the     *)
(* login broker (internal/loginbroker), which answers connectors that ask  *)
(* for a session, and the refresher job                                    *)
(* (connectors/powerschool-auth-refresher), which runs on a schedule or    *)
(* because a request was left for it.  They share one record and one       *)
(* session in Vault (internal/loginvault), both written check-and-set, and *)
(* a portal on which a login ends the session before it.                   *)
(*                                                                         *)
(* A version number is modelled by whether the record (cur) or the session *)
(* (scur) is still as the workload read it.  Time is a clock of coarse     *)
(* ticks; a run is cancelled when it has lasted its timeout, one call of   *)
(* the portal's login when it has lasted the login headroom.               *)
(***************************************************************************)
EXTENDS Integers

CONSTANTS Callers,          \* connectors asking the broker
          Creds, FirstCred, \* the credentials ever configured, and the first
          MaxClock, DayLen, \* the largest horizon; ticks in a local day
          Blackout,         \* the ticks of a day inside a blackout window
          Headroom, OpTimeout, RunTimeout, AttemptFreshFor,
          MinInterval, Cooldown, RecentLogin, MinSessionAge, RequestMaxAge,
          MaxFailures, MaxUnconfirmed, WriteAttempts,
          Deployments       \* which workloads run, and how much goes wrong:
            \* horizon: the last tick; budget: logins a day; runs: bounds on the refreshes and on the runs of the job; asks:
            \* the job also serves requests; lossy: answers of Vault get lost;
            \* rash: the operator deletes the record during a run; faults:
            \* bound on failed calls, lost answers and crashes; events: bound on
            \* what the owner, the operator and the connector do

\* A workload gives up before its attempt marker is taken for a dead one
\* (loginvault.go: "longer than any workload lets a login run").
ASSUME TimingAssumption ==
  /\ {MaxClock, DayLen, Headroom, OpTimeout, RunTimeout, MinInterval} \subseteq Nat \ {0}
  /\ {AttemptFreshFor, Cooldown, RecentLogin, MinSessionAge, RequestMaxAge} \subseteq Nat
  /\ OpTimeout < AttemptFreshFor /\ RunTimeout < AttemptFreshFor
  /\ {MaxFailures, MaxUnconfirmed, WriteAttempts} \subseteq Nat \ {0}

ASSUME DeploymentAssumption ==
  /\ FirstCred \in Creds /\ "no credential" \notin Creds
  /\ \A d \in Deployments :
       /\ d.horizon \in 0 .. MaxClock /\ d.budget \in Nat \ {0} /\ d.runs \in [{"broker", "job"} -> Nat]
       /\ {d.faults, d.events} \subseteq Nat /\ {d.asks, d.lossy, d.rash} \subseteq BOOLEAN

None == -1                  \* the zero time, no request
NoSession == 0
NoCred == "no credential"
Workloads == {"broker", "job"}

VARIABLES dep,              \* the deployment
          clock, cred,      \* the time; the configured credentials
          rec, sess,        \* Vault: the login record, the stored session
          live,             \* the session the portal accepts
          ask,              \* the request left in the ConfigMap
          op,               \* what each workload is doing
          unsaved,          \* the broker's session Vault did not take
          waiting,          \* the callers waiting for the broker's answer
          hist              \* what happened, for the properties

vars == <<dep, clock, cred, rec, sess, live, ask, op, unsaved, waiting, hist>>

Day(t) == t \div DayLen
Later(a, b) == IF a > b THEN a ELSE b
NoRequest == [at |-> None, fp |-> NoSession]

\* by stands for the second of the marker, which the ticks are too coarse to
\* tell: markers of two workloads are of different seconds.
EmptyRecord == [marker |-> None, by |-> "none", reqAt |-> None, fails |-> 0, blocked |-> FALSE,
                fp |-> NoCred, cooldown |-> None, day |-> None, count |-> 0,
                served |-> NoRequest]

Idle == [pc |-> "idle", t0 |-> 0, st |-> EmptyRecord, cur |-> FALSE, tries |-> 0,
         unsure |-> FALSE, sid |-> NoSession, sat |-> None, scur |-> FALSE,
         redone |-> FALSE, started |-> None, lt |-> None, again |-> FALSE,
         kind |-> "none", out |-> "none", retry |-> None, req |-> NoRequest]

Timeout(p) == IF p = "broker" THEN OpTimeout ELSE RunTimeout

\* The context of p's run may be cancelled within this tick.
Lapsing(p) == clock = op[p].t0 + Timeout(p)

\* A session is a number; one that nobody holds any more is used again.
Sessions == 1 .. 10
InUse == {sess.id, live, unsaved.id, ask.fp, hist.won}
           \cup UNION {{op[p].sid, op[p].req.fp} : p \in Workloads}
NewSession == CHOOSE i \in Sessions : i \notin InUse

-----------------------------------------------------------------------------
(* The record *)

AttemptInProgress(st) == st.marker # None /\ clock - st.marker < AttemptFreshFor

LoginsOn(st, d) == IF st.day = d THEN st.count ELSE 0

CountLogin(st, d) == [st EXCEPT !.day = d, !.count = LoginsOn(st, d) + 1]

countFailure(st, max) == [st EXCEPT !.fails = @ + 1, !.blocked = @ \/ st.fails + 1 >= max]

\* Mutants: a dead attempt is not counted for the day, or not as a failure.
Settled_uncounted(p, st) ==
  countFailure([st EXCEPT !.marker = None, !.by = "none", !.reqAt = st.marker], 9)
\* An attempt marker nobody cleared: its login counts, as a failure.
Settled(p, st) ==
  LET counted == CountLogin([st EXCEPT !.marker = None, !.by = "none", !.reqAt = st.marker],
                            Day(st.marker))
      failed  == countFailure(counted, IF p = "broker" THEN MaxFailures ELSE MaxUnconfirmed)
  IN  IF p = "job" /\ failed.blocked /\ ~st.blocked THEN [failed EXCEPT !.fp = cred] ELSE failed

Unlatched(st) == IF st.blocked THEN [st EXCEPT !.blocked = FALSE, !.fails = 0] ELSE st

\* Whether some moment of a login begun now could fall in a window.
BlocksAt(t) == \E d \in 0 .. Headroom : (t + d) % DayLen \in Blackout

NextClear(t) == IF \E u \in t .. t + 2 * DayLen : ~BlocksAt(u)
                THEN CHOOSE u \in t .. t + 2 * DayLen :
                        ~BlocksAt(u) /\ \A w \in t .. u - 1 : BlocksAt(w)
                ELSE None

\* Whether a login may start at t: "open", or the first reason why not.
gate(t, st, sat) ==
  LET last == Later(st.reqAt, sat)
  IN  IF BlocksAt(t) THEN "blackout"
      ELSE IF last # None /\ t - last < MinInterval THEN "min_interval"
      ELSE IF t < st.cooldown THEN "cooldown"
      ELSE IF LoginsOn(st, Day(t)) >= dep.budget THEN "budget"
      ELSE "open"

\* When the broker says a login may be made.
RetryAfter(code, st, sat) ==
  CASE code = "blackout"          -> NextClear(clock)
    [] code = "min_interval"      -> NextClear(Later(st.reqAt, sat) + MinInterval)
    [] code = "cooldown"          -> NextClear(st.cooldown)
    [] code = "login_in_progress" -> NextClear(st.marker + AttemptFreshFor)
    [] code = "budget"            -> (Day(clock) + 1) * DayLen
    [] OTHER                      -> None

-----------------------------------------------------------------------------
(* The calls of Vault.  A result: what is stored, what the caller is told, *)
(* and the fault it takes.                                                 *)

Faulty == hist.faults < dep.faults

Told(r, wrote, res, cost) == [rec |-> r, wrote |-> wrote, res |-> res, cost |-> cost]

\* Mutant: the record is written whatever its version.
Put_blind(p, r) == {Told(r, TRUE, "ok", 0)}

Put(p, r) ==
  (IF op[p].cur
     THEN {Told(r, TRUE, "ok", 0)} \cup (IF dep.lossy THEN {Told(r, TRUE, "retry", 1)} ELSE {})
     ELSE IF op[p].unsure /\ rec = r
            THEN {Told(rec, FALSE, "ok", 0), Told(rec, FALSE, "cas", 1)}
            ELSE {Told(rec, FALSE, "cas", 0)})
  \cup {Told(rec, FALSE, res, 1) : res \in {"retry", "refused"}}
  \cup (IF Lapsing(p) THEN {Told(rec, FALSE, "down", 0)} ELSE {})

\* The others no longer hold the record p has written.
Overtaken(f, p, wrote) ==
  [q \in Workloads |-> IF wrote /\ q # p THEN [f[q] EXCEPT !.cur = FALSE] ELSE f[q]]

MoreTries(o) == o.tries + 1 < WriteAttempts

\* WriteStateOnce: write r; a lost answer is retried, and a mismatch after
\* one is a success when the stored record is the one being written.
WriteStateOnce(p, r, ok, cas, down) ==
  \E w \in Put(p, r) :
     /\ w.cost = 1 => Faulty
     /\ rec' = w.rec
     /\ hist' = [hist EXCEPT !.faults = @ + w.cost]
     /\ LET o == op[p]
            next == CASE w.res = "ok" -> [ok EXCEPT !.cur = TRUE, !.tries = 0, !.unsure = FALSE]
                      [] w.res = "retry" /\ MoreTries(o) ->
                           [o EXCEPT !.tries = @ + 1, !.unsure = TRUE, !.cur = @ /\ ~w.wrote]
                      [] w.res = "cas" -> [cas EXCEPT !.tries = 0, !.unsure = FALSE]
                      [] OTHER -> [down EXCEPT !.tries = 0, !.unsure = FALSE,
                                               !.cur = @ /\ ~w.wrote]
        IN op' = Overtaken([op EXCEPT ![p] = next], p, w.wrote)

\* A read that fails: a fault, or the run's deadline.
ReadFails(p) == \/ Faulty /\ hist' = [hist EXCEPT !.faults = @ + 1]
                \/ Lapsing(p) /\ UNCHANGED hist

\* What a probe of session s may say.
ProbeSays(s) == {IF live = s /\ s # NoSession THEN "alive" ELSE "dead", "unknown"}

Reply(o, out) == [Idle EXCEPT !.pc = "answer", !.t0 = o.t0, !.out = out, !.sid = o.sid]
Defer(o, code) == [Reply(o, "deferred") EXCEPT !.kind = code, !.st = o.st, !.sat = o.sat,
                                               !.retry = RetryAfter(code, o.st, o.sat)]

To(p, o) == op' = [op EXCEPT ![p] = o]

-----------------------------------------------------------------------------
(* The broker *)

\* One refresh at a time; whoever asks during it waits for its answer.
Refresh(c, fp) ==
  /\ c \notin waiting
  /\ waiting' = waiting \cup {c}
  /\ \/ /\ op["broker"].pc = "idle" /\ hist.runs["broker"] < dep.runs["broker"]
        /\ To("broker", [Idle EXCEPT !.pc = "open", !.t0 = clock, !.req.fp = fp])
        /\ hist' = [hist EXCEPT !.runs["broker"] = @ + 1]
     \/ op["broker"].pc # "idle" /\ UNCHANGED <<op, hist>>
  /\ UNCHANGED <<dep, clock, cred, rec, sess, live, ask, unsaved>>

\* The caller's own context ends; the refresh goes on without it.
Leave(c) ==
  /\ c \in waiting
  /\ waiting' = waiting \ {c}
  /\ UNCHANGED <<dep, clock, cred, rec, sess, live, ask, op, unsaved, hist>>

\* The latch stops everything, for the credentials it was set for.
BrPastLatch(o) == IF o.st.blocked /\ o.st.fp = cred THEN Reply(o, "latched")
                  ELSE [o EXCEPT !.pc = "read", !.st = Unlatched(o.st)]

BrOpen ==
  LET o == [op["broker"] EXCEPT !.st = rec, !.cur = TRUE] IN
  /\ o.pc = "open"
  /\ \/ ReadFails("broker") /\ To("broker", Reply(o, "failed"))
     \/ /\ UNCHANGED hist
        /\ To("broker", CASE AttemptInProgress(rec) -> Defer(o, "login_in_progress")
                          [] ~AttemptInProgress(rec) /\ rec.marker # None ->
                               [o EXCEPT !.pc = "settle", !.st = Settled("broker", rec)]
                          [] OTHER -> BrPastLatch(o))
  /\ UNCHANGED <<dep, clock, cred, rec, sess, live, ask, unsaved, waiting>>

BrSettle ==
  LET o == op["broker"] IN
  /\ o.pc = "settle"
  /\ WriteStateOnce("broker", o.st, BrPastLatch(o), Defer(o, "state_conflict"), Reply(o, "failed"))
  /\ UNCHANGED <<dep, clock, cred, sess, live, ask, unsaved, waiting>>

\* The stored session, or the newer one Vault did not take.
BrRead ==
  LET o    == op["broker"]
      mine == unsaved.id # NoSession /\ (sess.id = NoSession \/ unsaved.at > sess.at)
      src  == IF mine THEN unsaved ELSE sess
      got  == [o EXCEPT !.sid = src.id, !.sat = src.at, !.scur = TRUE,
                        !.kind = IF mine THEN "rewrite" ELSE "keep"]
      current == IF mine THEN [got EXCEPT !.pc = "save", !.out = "current"]
                 ELSE Reply(got, "current")
  IN
  /\ o.pc = "read"
  /\ \/ ReadFails("broker") /\ To("broker", Reply(o, "failed"))
     \/ /\ UNCHANGED hist
        /\ To("broker", CASE src.id = NoSession -> [got EXCEPT !.pc = "gate"]
                          [] src.id # NoSession /\ src.id # o.req.fp
                               /\ clock - src.at < RecentLogin -> current
                          [] OTHER -> [got EXCEPT !.pc = "probe"])
  /\ UNCHANGED <<dep, clock, cred, rec, sess, live, ask, unsaved, waiting>>

\* An alive session is the answer; one that may be alive is not replaced.
BrProbe ==
  LET o == op["broker"] IN
  /\ o.pc = "probe"
  /\ \E says \in ProbeSays(o.sid) :
        To("broker", CASE says = "dead"    -> [o EXCEPT !.pc = "gate"]
                       [] says = "unknown" -> Reply(o, "inconclusive")
                       [] OTHER -> IF o.kind = "rewrite"
                                     THEN [o EXCEPT !.pc = "save", !.out = "current"]
                                     ELSE Reply(o, "current"))
  /\ UNCHANGED <<dep, clock, cred, rec, sess, live, ask, unsaved, waiting, hist>>

\* The gate, and the check that Vault would take the session.
BrGate ==
  LET o == op["broker"]
      code == gate(clock, o.st, o.sat)
  IN
  /\ o.pc = "gate"
  /\ \/ /\ code # "open" /\ To("broker", Defer(o, code)) /\ UNCHANGED hist
     \/ /\ code = "open" /\ Faulty
        /\ hist' = [hist EXCEPT !.faults = @ + 1] /\ To("broker", Reply(o, "failed"))
     \/ /\ code = "open" /\ UNCHANGED hist
        /\ To("broker", [o EXCEPT !.pc = "mark", !.started = clock,
                                  !.st.fp = cred, !.st.marker = clock, !.st.by = "broker"])
  /\ UNCHANGED <<dep, clock, cred, rec, sess, live, ask, unsaved, waiting>>

\* Recorded before the login, against the record that was read: no login
\* on a record somebody has changed.
BrMark ==
  LET o == op["broker"] IN
  /\ o.pc = "mark"
  /\ WriteStateOnce("broker", o.st, [o EXCEPT !.pc = "attempt"],
                    Defer(o, "state_conflict"), Reply(o, "failed"))
  /\ UNCHANGED <<dep, clock, cred, sess, live, ask, unsaved, waiting>>

\* The clock is read and the gate applied before every call of the driver;
\* the pause before a second one may be cut short.
BrAttempt ==
  LET o == op["broker"]
      code == gate(clock, o.st, o.sat)
      stop == [o EXCEPT !.pc = "commit", !.kind = IF o.again THEN "not_submitted" ELSE "held",
                        !.out = IF o.again THEN "failed" ELSE code, !.retry = clock + Cooldown]
  IN
  /\ o.pc = "attempt"
  /\ \/ code = "open" /\ To("broker", [o EXCEPT !.pc = "login", !.lt = clock])
     \/ code # "open" /\ To("broker", stop)
     \/ o.again /\ Lapsing("broker") /\ To("broker", stop)
  /\ UNCHANGED <<dep, clock, cred, rec, sess, live, ask, unsaved, waiting, hist>>

\* How a call of the portal's login ends: what the workload is told, whether
\* the credentials were submitted, and whether the portal began a session.
LoginEnds ==
  {[says |-> "session", submitted |-> TRUE, began |-> TRUE],
   [says |-> "rejected", submitted |-> TRUE, began |-> FALSE],
   [says |-> "not_submitted", submitted |-> FALSE, began |-> FALSE]}
  \cup {[says |-> x, submitted |-> TRUE, began |-> b] :
           x \in {"unknown", "no_session"}, b \in BOOLEAN}

Submitted(p, e) ==
  IF ~e.submitted THEN hist
  ELSE [hist EXCEPT !.day[Day(op[p].started)] = @ + 1, !.last[p] = op[p].started,
                    !.misses = IF p = "job" /\ e.says = "unknown" THEN @ ELSE @ + 1]

BrLogin ==
  LET o == op["broker"] IN
  /\ o.pc = "login"
  /\ \E e \in LoginEnds :
       /\ live' = IF e.began THEN NewSession ELSE live
       /\ hist' = Submitted("broker", e)
       /\ To("broker",
             CASE e.says = "session" -> [o EXCEPT !.pc = "confirm", !.sid = NewSession]
               [] e.says = "not_submitted" /\ ~o.again -> [o EXCEPT !.pc = "attempt", !.again = TRUE]
               [] OTHER -> [o EXCEPT !.pc = "commit", !.out = "failed", !.retry = clock + Cooldown,
                              !.kind = IF e.says \in {"rejected", "not_submitted"}
                                         THEN e.says ELSE "failed"])
  /\ UNCHANGED <<dep, clock, cred, rec, sess, ask, unsaved, waiting>>

BrConfirm ==
  LET o == op["broker"] IN
  /\ o.pc = "confirm"
  /\ \E says \in ProbeSays(o.sid) :
       /\ To("broker", [o EXCEPT !.pc = "commit", !.sat = clock,
                           !.kind = IF says = "alive" THEN "success" ELSE "failed",
                           !.out = IF says = "alive" THEN "refreshed" ELSE "failed"])
       /\ hist' = IF says = "alive" THEN [hist EXCEPT !.misses = 0, !.won = o.sid] ELSE hist
  /\ UNCHANGED <<dep, clock, cred, rec, sess, live, ask, unsaved, waiting>>

\* What the broker records of an attempt that ended; the end of the cooldown
\* was fixed when it did.
BrOutcome(o, st) ==
  LET cleared == [st EXCEPT !.marker = None, !.by = "none"]
      made    == CountLogin([cleared EXCEPT !.reqAt = o.started], Day(o.started))
  IN  CASE o.kind = "held"          -> cleared
        [] o.kind = "not_submitted" -> [cleared EXCEPT !.cooldown = o.retry]
        [] o.kind = "rejected"      -> [made EXCEPT !.blocked = TRUE]
        [] o.kind = "failed"        -> countFailure(made, MaxFailures)
        [] o.kind = "success"       -> [made EXCEPT !.fails = 0, !.cooldown = None]

\* After the record: a session is stored, anything else is answered.
BrRecorded(o, st) ==
  CASE o.kind = "success" -> [o EXCEPT !.pc = "save", !.st = EmptyRecord]
    [] o.kind = "held"    -> Defer(o, o.out)
    [] OTHER -> Reply(o, IF st.blocked THEN "latched" ELSE "failed")

\* commit: record what has happened.  A record somebody else has changed is
\* read again and the outcome applied to that.
BrCommit ==
  LET o == op["broker"]
      r == BrOutcome(o, o.st)
  IN
  /\ o.pc = "commit"
  /\ WriteStateOnce("broker", r, BrRecorded(o, r), [o EXCEPT !.pc = "reread"], BrRecorded(o, r))
  /\ UNCHANGED <<dep, clock, cred, sess, live, ask, unsaved, waiting>>

BrReread ==
  LET o == op["broker"] IN
  /\ o.pc = "reread"
  /\ \/ ReadFails("broker") /\ To("broker", BrRecorded(o, BrOutcome(o, o.st)))
     \/ UNCHANGED hist /\ To("broker", [o EXCEPT !.pc = "rewrite", !.st = rec, !.cur = TRUE])
  /\ UNCHANGED <<dep, clock, cred, rec, sess, live, ask, unsaved, waiting>>

BrRewrite ==
  LET o == op["broker"]
      r == BrOutcome(o, o.st)
  IN
  /\ o.pc = "rewrite"
  /\ WriteStateOnce("broker", r, BrRecorded(o, r), BrRecorded(o, r), BrRecorded(o, r))
  /\ UNCHANGED <<dep, clock, cred, sess, live, ask, unsaved, waiting>>

\* The session of p's login reaches Vault.
Stored(p, o) ==
  /\ sess' = [id |-> op[p].sid, at |-> op[p].sat]
  /\ op' = [q \in Workloads |-> IF q = p THEN o ELSE [op[q] EXCEPT !.scur = FALSE]]

\* writeSession.  A mismatch is settled once, by asking the portal which
\* session is alive; what became of the session is stored, kept or superseded.
WriteSession(p, end, stored, kept, superseded) ==
  LET o == op[p] IN
  \/ /\ o.scur
     /\ Stored(p, end) /\ stored /\ UNCHANGED hist
  \/ /\ o.scur /\ Faulty                        \* applied, the answer lost
     /\ MoreTries(o)
     /\ dep.lossy /\ hist' = [hist EXCEPT !.faults = @ + 1]
     /\ Stored(p, [o EXCEPT !.scur = FALSE, !.tries = @ + 1]) /\ UNCHANGED unsaved
  \/ /\ Faulty \/ Lapsing(p)                     \* every try failed, or refused
     /\ hist' = IF Lapsing(p) THEN hist ELSE [hist EXCEPT !.faults = @ + 1]
     /\ To(p, end) /\ kept /\ UNCHANGED sess
  \/ /\ ~o.scur /\ ~o.redone /\ live = o.sid
     /\ To(p, [o EXCEPT !.scur = TRUE, !.redone = TRUE]) /\ UNCHANGED <<sess, unsaved, hist>>
  \/ /\ ~o.scur /\ ~o.redone                     \* dead, or the portal did not say
     /\ To(p, [end EXCEPT !.out = "failed"]) /\ superseded /\ UNCHANGED sess
  \/ /\ ~o.scur /\ o.redone                      \* changed again: a refusal
     /\ To(p, end) /\ kept /\ UNCHANGED <<sess, hist>>

BrSave ==
  LET o == op["broker"] IN
  /\ o.pc = "save"
  /\ WriteSession("broker", Reply(o, o.out),
        unsaved' = [id |-> NoSession, at |-> None],
        unsaved' = [id |-> o.sid, at |-> o.sat],
        /\ unsaved' = [id |-> NoSession, at |-> None]
        /\ hist' = [hist EXCEPT !.won = NoSession])
  /\ UNCHANGED <<dep, clock, cred, rec, live, ask, waiting>>

\* Mutant: the answer wakes nobody.
BrAnswer_silent ==
  /\ op["broker"].pc = "answer"
  /\ To("broker", Idle)
  /\ UNCHANGED <<dep, clock, cred, rec, sess, live, ask, unsaved, waiting, hist>>

\* Everyone waiting has the one answer.
BrAnswer ==
  /\ op["broker"].pc = "answer"
  /\ To("broker", Idle)
  /\ waiting' = {}
  /\ UNCHANGED <<dep, clock, cred, rec, sess, live, ask, unsaved, hist>>

-----------------------------------------------------------------------------
(* The refresher job.  Idle is its exit. *)

\* A run starts outside the blackout; a run for requests only for one that
\* somebody may still be waiting for.
JobStart(forRequest) ==
  /\ op["job"].pc = "idle" /\ hist.runs["job"] < dep.runs["job"]
  /\ ~BlocksAt(clock)
  /\ forRequest => dep.asks /\ ask # NoRequest /\ clock - ask.at <= RequestMaxAge
  /\ To("job", [Idle EXCEPT !.pc = "open", !.t0 = clock,
                            !.req = IF forRequest THEN ask ELSE NoRequest])
  /\ hist' = [hist EXCEPT !.runs["job"] = @ + 1]
  /\ UNCHANGED <<dep, clock, cred, rec, sess, live, ask, unsaved, waiting>>

JobPastLatch(o) ==
  IF \/ o.st.blocked /\ o.st.fp = cred
     \/ /\ o.req # NoRequest
        /\ \/ o.st.served = o.req
           \/ o.st.reqAt # None /\ clock - o.st.reqAt < MinInterval
  THEN Idle
  ELSE [o EXCEPT !.pc = "read", !.st = Unlatched(o.st)]

JobOpen ==
  LET o == [op["job"] EXCEPT !.st = rec, !.cur = TRUE] IN
  /\ o.pc = "open"
  /\ \/ ReadFails("job") /\ To("job", Idle)
     \/ /\ UNCHANGED hist
        /\ To("job", CASE AttemptInProgress(rec) -> Idle
                       [] ~AttemptInProgress(rec) /\ rec.marker # None ->
                            [o EXCEPT !.pc = "settle", !.st = Settled("job", rec)]
                       [] OTHER -> JobPastLatch(o))
  /\ UNCHANGED <<dep, clock, cred, rec, sess, live, ask, unsaved, waiting>>

JobSettle ==
  LET o == op["job"] IN
  /\ o.pc = "settle"
  /\ WriteStateOnce("job", o.st, JobPastLatch(o), Idle, Idle)
  /\ UNCHANGED <<dep, clock, cred, sess, live, ask, unsaved, waiting>>

\* Whether the stored session is replaced without asking the portal: the one
\* the request calls dead, an old one, or none.
keepNo(o) == \/ sess.id = NoSession
             \/ o.req # NoRequest /\ sess.id = o.req.fp
             \/ clock - sess.at >= MinSessionAge

\* A session newer than the request answers it; one that is kept is probed.
JobRead ==
  LET o   == op["job"]
      got == [o EXCEPT !.sid = sess.id, !.sat = sess.at, !.scur = TRUE]
      answered == o.req # NoRequest /\ sess.id # NoSession /\ sess.at >= o.req.at
  IN
  /\ o.pc = "read"
  /\ \/ ReadFails("job") /\ To("job", Idle)
     \/ /\ UNCHANGED hist
        /\ To("job", IF answered THEN Idle
                     ELSE [got EXCEPT !.pc = IF keepNo(o) THEN "gate" ELSE "probe"])
  /\ UNCHANGED <<dep, clock, cred, rec, sess, live, ask, unsaved, waiting>>

JobProbe ==
  LET o == op["job"] IN
  /\ o.pc = "probe"
  /\ \E says \in ProbeSays(o.sid) :
        To("job", CASE says = "dead" -> [o EXCEPT !.pc = "gate"]
                    [] says = "alive" /\ o.req # NoRequest ->
                         [o EXCEPT !.pc = "serve", !.st.served = o.req]
                    [] OTHER -> Idle)
  /\ UNCHANGED <<dep, clock, cred, rec, sess, live, ask, unsaved, waiting, hist>>

JobServe ==
  LET o == op["job"] IN
  /\ o.pc = "serve"
  /\ WriteStateOnce("job", o.st, Idle, Idle, Idle)
  /\ UNCHANGED <<dep, clock, cred, sess, live, ask, unsaved, waiting>>

\* Vault would take the session and the sign-in page is the expected one, or
\* the run ends.
JobGate ==
  LET o == op["job"]
      marked == [o.st EXCEPT !.fp = cred, !.marker = clock, !.by = "job",
                             !.served = IF o.req # NoRequest THEN o.req ELSE @,
                             !.reqAt = IF o.req # NoRequest THEN clock ELSE @]
  IN
  /\ o.pc = "gate"
  /\ \/ ReadFails("job") /\ To("job", Idle)
     \/ /\ UNCHANGED hist
        /\ To("job", [o EXCEPT !.pc = "mark", !.started = clock, !.st = marked])
  /\ UNCHANGED <<dep, clock, cred, rec, sess, live, ask, unsaved, waiting>>

JobMark ==
  LET o == op["job"] IN
  /\ o.pc = "mark"
  /\ WriteStateOnce("job", o.st, [o EXCEPT !.pc = "attempt"], Idle, Idle)
  /\ UNCHANGED <<dep, clock, cred, sess, live, ask, unsaved, waiting>>

JobAttempt ==
  LET o == op["job"]
      stop == [o EXCEPT !.pc = "commit", !.kind = "not_submitted"]
  IN
  /\ o.pc = "attempt"
  /\ \/ ~BlocksAt(clock) /\ To("job", [o EXCEPT !.pc = "login", !.lt = clock])
     \/ BlocksAt(clock) /\ To("job", stop)
     \/ o.again /\ Lapsing("job") /\ To("job", stop)
  /\ UNCHANGED <<dep, clock, cred, rec, sess, live, ask, unsaved, waiting, hist>>

JobLogin ==
  LET o == op["job"] IN
  /\ o.pc = "login"
  /\ \E e \in LoginEnds :
       /\ live' = IF e.began THEN NewSession ELSE live
       /\ hist' = Submitted("job", e)
       /\ To("job",
             CASE e.says = "session" -> [o EXCEPT !.pc = "confirm", !.sid = NewSession, !.sat = clock]
               [] e.says = "not_submitted" /\ ~o.again -> [o EXCEPT !.pc = "attempt", !.again = TRUE]
               [] OTHER -> [o EXCEPT !.pc = "commit",
                              !.kind = IF e.says = "no_session" THEN "unconfirmed" ELSE e.says])
  /\ UNCHANGED <<dep, clock, cred, rec, sess, ask, unsaved, waiting>>

JobConfirm ==
  LET o == op["job"] IN
  /\ o.pc = "confirm"
  /\ \E says \in ProbeSays(o.sid) :
       /\ To("job", [o EXCEPT !.pc = "commit",
                              !.kind = IF says = "alive" THEN "success" ELSE "unconfirmed"])
       /\ hist' = IF says = "alive" THEN [hist EXCEPT !.misses = 0] ELSE hist
  /\ UNCHANGED <<dep, clock, cred, rec, sess, live, ask, unsaved, waiting>>

\* What the job records; a login that failed after the submit counts for the
\* day and for nothing else.
JobOutcome(o) ==
  LET cleared == [o.st EXCEPT !.marker = None, !.by = "none"]
      made    == CountLogin(cleared, Day(o.started))
  IN  CASE o.kind = "not_submitted" -> cleared
        [] o.kind = "unknown"       -> made
        [] o.kind = "rejected"      -> [made EXCEPT !.blocked = TRUE]
        [] o.kind = "unconfirmed"   -> countFailure(made, MaxUnconfirmed)
        [] o.kind = "success"       -> [made EXCEPT !.fails = 0]

\* One write, whatever comes of it; the session is stored after it.
JobCommit ==
  LET o == op["job"]
      next == IF o.kind = "success" THEN [o EXCEPT !.pc = "save", !.st = EmptyRecord] ELSE Idle
  IN
  /\ o.pc = "commit"
  /\ WriteStateOnce("job", JobOutcome(o), next, next, next)
  /\ UNCHANGED <<dep, clock, cred, sess, live, ask, unsaved, waiting>>

JobSave ==
  /\ op["job"].pc = "save"
  /\ WriteSession("job", Idle, UNCHANGED unsaved, UNCHANGED unsaved, UNCHANGED <<unsaved, hist>>)
  /\ UNCHANGED <<dep, clock, cred, rec, live, ask, waiting>>

-----------------------------------------------------------------------------
(* The world *)

\* Time passes while nothing is at its limit.
Tick ==
  /\ clock < dep.horizon
  /\ \A p \in Workloads :
       /\ op[p].pc # "idle" => clock < op[p].t0 + Timeout(p)
       /\ op[p].pc = "login" => clock < op[p].lt + Headroom
  /\ clock' = clock + 1
  /\ UNCHANGED <<dep, cred, rec, sess, live, ask, op, unsaved, waiting, hist>>

\* A workload dies, perhaps just after submitting the credentials.
Crash(p) ==
  /\ Faulty /\ op[p].pc # "idle"
  /\ \E e \in {x \in LoginEnds : op[p].pc = "login" \/ x.says = "not_submitted"} :
       /\ live' = IF e.began THEN NewSession ELSE live
       /\ hist' = [Submitted(p, e) EXCEPT !.faults = @ + 1,
                                          !.won = IF p = "broker" THEN NoSession ELSE @]
  /\ To(p, Idle)
  /\ IF p = "broker" THEN unsaved' = [id |-> NoSession, at |-> None] /\ waiting' = {}
                     ELSE UNCHANGED <<unsaved, waiting>>
  /\ UNCHANGED <<dep, clock, cred, rec, sess, ask>>

\* A connector in request mode leaves a request about the session it has.
LeaveRequest ==
  /\ dep.asks /\ hist.events < dep.events
  /\ ask' = [at |-> clock, fp |-> sess.id]
  /\ hist' = [hist EXCEPT !.events = @ + 1]
  /\ UNCHANGED <<dep, clock, cred, rec, sess, live, op, unsaved, waiting>>

\* The account's owner signs in: the portal ends the session it had.
OwnerSignsIn ==
  /\ hist.events < dep.events /\ live # NoSession
  /\ live' = NoSession
  /\ hist' = [hist EXCEPT !.events = @ + 1]
  /\ UNCHANGED <<dep, clock, cred, rec, sess, ask, op, unsaved, waiting>>

\* The operator deletes the record, which also forgets the day's count.
DeleteRecord ==
  /\ hist.events < dep.events
  /\ dep.rash \/ \A p \in Workloads : op[p].pc = "idle"
  /\ rec' = EmptyRecord
  /\ op' = [p \in Workloads |-> [op[p] EXCEPT !.cur = FALSE]]
  /\ hist' = [hist EXCEPT !.events = @ + 1, !.misses = 0, !.day = [d \in DOMAIN @ |-> 0],
                          !.last = [p \in Workloads |-> None]]
  /\ UNCHANGED <<dep, clock, cred, sess, live, ask, unsaved, waiting>>

\* New credentials are read by a new process.
ChangeCredentials ==
  /\ hist.events < dep.events
  /\ \A p \in Workloads : op[p].pc = "idle"
  /\ cred' \in Creds \ {cred}
  /\ unsaved' = [id |-> NoSession, at |-> None]
  /\ hist' = [hist EXCEPT !.events = @ + 1, !.misses = 0, !.won = NoSession]
  /\ UNCHANGED <<dep, clock, rec, sess, live, ask, op, waiting>>

Init ==
  /\ dep \in Deployments
  /\ clock = 0 /\ cred = FirstCred
  /\ rec = EmptyRecord /\ sess = [id |-> NoSession, at |-> None]
  /\ live = NoSession /\ ask = NoRequest
  /\ op = [p \in Workloads |-> Idle]
  /\ unsaved = [id |-> NoSession, at |-> None] /\ waiting = {}
  /\ hist = [day |-> [d \in 0 .. Day(MaxClock) |-> 0], misses |-> 0,
             last |-> [p \in Workloads |-> None], won |-> NoSession,
             runs |-> [p \in Workloads |-> 0], faults |-> 0, events |-> 0]

Broker == \/ BrOpen \/ BrSettle \/ BrRead \/ BrProbe \/ BrGate \/ BrMark \/ BrAttempt
          \/ BrLogin \/ BrConfirm \/ BrCommit \/ BrReread \/ BrRewrite \/ BrSave \/ BrAnswer
Job == \/ JobOpen \/ JobSettle \/ JobRead \/ JobProbe \/ JobServe \/ JobGate \/ JobMark
       \/ JobAttempt \/ JobLogin \/ JobConfirm \/ JobCommit \/ JobSave

Next == \/ Broker \/ Job \/ Tick
        \/ \E c \in Callers : Leave(c) \/ \E fp \in {NoSession, sess.id} : Refresh(c, fp)
        \/ \E b \in BOOLEAN : JobStart(b)
        \/ \E p \in Workloads : Crash(p)
        \/ LeaveRequest \/ OwnerSignsIn \/ DeleteRecord \/ ChangeCredentials

Spec == Init /\ [][Next]_vars /\ WF_vars(Broker)

-----------------------------------------------------------------------------
(* Properties *)

TypeOK ==
  /\ clock \in 0 .. MaxClock /\ cred \in Creds
  /\ {live, sess.id, unsaved.id} \subseteq Sessions \cup {NoSession}
  /\ waiting \subseteq Callers
  /\ rec.fails \in Nat /\ rec.blocked \in BOOLEAN /\ rec.fp \in Creds \cup {NoCred}
  /\ \A p \in Workloads : op[p].tries < WriteAttempts /\ op[p].started \in None .. MaxClock

Begins(p) == op[p].pc = "attempt" /\ op'[p].pc = "login"

\* The two workloads are never logging in at the same time, whatever they read
\* before: the marker written check-and-set before a login keeps the other
\* out until it has ended, crashes included (run.go:363).  With both of them at
\* work it takes a Vault whose answers arrive: commit clears what it finds
\* after a mismatch, the other's marker included (broker.go:632).
SoleLogin == ~(op["broker"].pc = "login" /\ op["job"].pc = "login")

\* The broker starts a login only when fewer than the day's budget have been
\* submitted that day by anybody, those whose workload died or whose outcome
\* Vault did not take included (broker.go:589).
BudgetKept == [][Begins("broker") => hist.day[Day(op["broker"].started)] < dep.budget]_vars

\* The broker starts no login after MaxFailures submissions in a row without
\* a confirmed session: crashes and failed writes are counted from the marker
\* (broker.go:392, broker.go:778).
LockoutBounded == [][Begins("broker") => hist.misses < MaxFailures]_vars

\* Two logins of the broker are MinInterval apart, across crashes and lost
\* writes (broker.go:568).
BrokerPaced ==
  [][Begins("broker") => \/ hist.last["broker"] = None
                         \/ clock - hist.last["broker"] >= MinInterval]_vars

\* No login is in progress inside a blackout window (dailywindow.go:142).
OutsideBlackout == \A p \in Workloads : op[p].pc = "login" => clock % DayLen \notin Blackout

\* A session the broker has confirmed, and the portal still accepts, is in
\* Vault, in memory for the next request, or on its way there
\* (broker.go:886).
SessionKept ==
  hist.won # NoSession /\ live = hist.won =>
    \/ hist.won \in {sess.id, unsaved.id}
    \/ op["broker"].sid = hist.won /\ op["broker"].pc \in {"commit", "reread", "rewrite", "save"}

\* The time the broker gives with "not now" is one at which the same record
\* would not be refused for the same reason (broker.go:838).
RetryHonest ==
  LET o == op["broker"] IN
  o.pc = "answer" /\ o.out = "deferred" /\ o.retry # None =>
    /\ o.kind \in {"blackout", "min_interval", "cooldown", "budget"} =>
         gate(o.retry, o.st, o.sat) # o.kind
    /\ o.kind = "login_in_progress" => o.retry - o.st.marker >= AttemptFreshFor

\* Whoever waits for the broker stops waiting: with an answer, or because one
\* of them went away (broker.go:314).
Answered == \A c \in Callers : c \in waiting ~> c \notin waiting

\* The login record keeps the two workloads apart and honest, crashes included,
\* and lost answers of Vault where one of them works alone: never two logins at
\* once, none in a blackout, no session lost that was paid for, and no retry
\* time that would be refused again (broker.go, run.go, loginvault.go).
LoginSafe == TypeOK /\ SoleLogin /\ OutsideBlackout /\ SessionKept /\ RetryHonest

\* The broker begins a login only within the day's budget, below the lockout
\* limit, and MinInterval after its last one (gate).
LoginPermitted == BudgetKept /\ LockoutBounded /\ BrokerPaced

=============================================================================
