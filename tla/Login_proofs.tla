---------------------------- MODULE Login_proofs ----------------------------
(***************************************************************************)
(* Proofs about Login, for any callers, credentials, bounds on the runs,   *)
(* failures and events, and any timing that TimingAssumption allows.       *)
(*                                                                         *)
(* Three invariants, each resting on the one before it.                    *)
(*   BaseInv   what holds in every deployment: the types, what a workload  *)
(*             at each step may hold, and where a confirmed session is.    *)
(*             LoginHonest.                                                *)
(*   Locked    the record as a lock: from its marker to its outcome a run  *)
(*             that is logging in holds the record as it is stored.  It    *)
(*             needs WritersApart.  LoginIsSafe.                           *)
(*   CountInv  the record as an account: every login submitted is in its   *)
(*             counts, or is its marker.  It needs LimitsAgree too.        *)
(*             LoginIsPermitted.                                           *)
(* Each action has a lemma XIs, which says where it leads (XTo), and a     *)
(* lemma for each invariant: XKeeps, XLocked, XCounts.                     *)
(***************************************************************************)
EXTENDS Login, FiniteSetTheorems, WellFoundedInduction, TLAPS
-----------------------------------------------------------------------------
(* The invariant, whatever the deployment. *)

Times == None .. MaxClock
Ids == Sessions \cup {NoSession}
Requests == [at : Times, fp : Ids]
Days == 0 .. Day(MaxClock)
RecordType == [marker : Times, by : Workloads \cup {"none"}, reqAt : Times, fails : Nat,
               blocked : BOOLEAN, fp : Creds \cup {NoCred}, cooldown : Int,
               day : Days \cup {None}, count : Nat, served : Requests]
Steps == {"idle", "open", "settle", "read", "probe", "serve", "gate", "mark", "attempt",
          "login", "confirm", "commit", "reread", "rewrite", "save", "answer"}
Words == {"none", "keep", "rewrite", "open", "blackout", "min_interval", "cooldown", "budget",
          "login_in_progress", "state_conflict", "held", "not_submitted", "rejected", "failed",
          "success", "unknown", "unconfirmed", "current", "deferred", "latched",
          "inconclusive", "refreshed"}
OpType == [pc : Steps, t0 : 0 .. MaxClock, st : RecordType, cur : BOOLEAN,
           tries : 0 .. WriteAttempts - 1, unsure : BOOLEAN, sid : Ids, sat : Times,
           scur : BOOLEAN, redone : BOOLEAN, started : Times, lt : Times, again : BOOLEAN,
           kind : Words, out : Words, retry : Int, req : Requests]
HistType == [day : [Days -> Nat], misses : Nat, last : [Workloads -> Times], won : Ids,
             runs : [Workloads -> Nat], faults : Nat, events : Nat]

RestTyped ==
  /\ cred \in Creds
  /\ sess \in [id : Ids, at : Times] /\ unsaved \in [id : Ids, at : Times]
  /\ live \in Ids /\ ask \in Requests /\ hist \in HistType
  /\ waiting \subseteq Callers

Types ==
  /\ dep \in Deployments /\ clock \in 0 .. MaxClock
  /\ rec \in RecordType /\ op \in [Workloads -> OpType]
  /\ RestTyped

Inside == {"attempt", "login", "confirm"}
Ending == {"commit", "reread", "rewrite"}
Begun == {"mark"} \cup Inside \cup Ending
Gates == {"blackout", "min_interval", "cooldown", "budget"}

\* No time a record holds is still to come.
Past(st) == st.marker <= clock /\ st.reqAt <= clock /\ st.day <= Day(clock)

\* A run lasts no longer than its timeout, a call of the portal's login no
\* longer than the headroom that was clear when it began.
Timely(o, p) ==
  /\ o.pc # "idle" => o.t0 <= clock /\ clock <= o.t0 + Timeout(p)
  /\ o.pc = "login" => o.lt \in Nat /\ o.lt <= clock /\ clock <= o.lt + Headroom /\ ~BlocksAt(o.lt)
  /\ o.pc \in Begun => o.t0 <= o.started /\ o.started <= clock
  /\ Past(o.st)
  /\ dep.runs[p] = 0 => o.pc = "idle"

\* How an attempt can end, for the broker and for the job.
Ended(o, p) ==
  /\ p = "broker" =>
       /\ o.pc # "serve"
       /\ o.pc \in Ending => o.kind \in {"held", "not_submitted", "rejected", "failed", "success"}
       /\ o.pc \in Ending /\ o.kind = "held" => o.out \in Gates
  /\ p = "job" =>
       /\ o.pc \notin {"reread", "rewrite", "answer"}
       /\ o.pc = "commit" =>
            o.kind \in {"not_submitted", "unknown", "rejected", "unconfirmed", "success"}

\* The time given with "not now" is not refused for the same reason.
Honest(o) ==
  o.pc = "answer" /\ o.out = "deferred" /\ o.retry # None =>
    /\ o.kind \in Gates => gate(o.retry, o.st, o.sat) # o.kind
    /\ o.kind = "login_in_progress" => o.retry - o.st.marker >= AttemptFreshFor

Sane(o, p) == o \in OpType /\ Timely(o, p) /\ Ended(o, p) /\ (p = "broker" => Honest(o))

Running == Past(rec) /\ \A p \in Workloads : Sane(op[p], p)

\* The broker holds the session it confirmed until it is stored.
Bringing(b) == b.sid = hist.won /\ (b.pc = "save" \/ (b.pc \in Ending /\ b.kind = "success"))

\* The job's session is its own login's.
Fresh(j) == j.pc \in {"confirm", "save"} \/ (j.pc = "commit" /\ j.kind = "success")

\* What the broker has confirmed is nobody else's, and the job writes its
\* session only over one it has read, or that is dead.
Kept ==
  LET b == op["broker"]  j == op["job"] IN
  /\ hist.won # NoSession /\ live = hist.won => hist.won \in {sess.id, unsaved.id} \/ Bringing(b)
  /\ b.pc = "confirm" => b.sid \notin {NoSession, sess.id, hist.won}
  /\ b.pc = "confirm" /\ Fresh(j) => j.sid # b.sid
  /\ b.pc \in Ending /\ b.kind = "success" => b.sid = hist.won /\ b.sid # NoSession
  /\ b.pc = "probe" /\ b.kind = "rewrite" => b.sid = unsaved.id /\ b.sid # NoSession
  /\ b.pc = "save" => b.sid \in {hist.won, unsaved.id} /\ b.sid # NoSession
  /\ Fresh(j) => j.sid \notin {NoSession, hist.won}
  /\ Fresh(j) /\ j.scur /\ live = hist.won /\ hist.won # NoSession => sess.id # hist.won
  /\ unsaved.id # NoSession /\ hist.won # NoSession => unsaved.id = hist.won \/ Bringing(b)

BaseInv == Types /\ Running /\ Kept

-----------------------------------------------------------------------------
(* The constants, the calendar and the sessions. *)

LEMMA Bounds ==
  /\ MaxClock \in Nat \ {0} /\ DayLen \in Nat \ {0} /\ Headroom \in Nat \ {0}
  /\ OpTimeout \in Nat \ {0} /\ RunTimeout \in Nat \ {0} /\ MinInterval \in Nat \ {0}
  /\ AttemptFreshFor \in Nat /\ Cooldown \in Nat /\ RecentLogin \in Nat
  /\ OpTimeout < AttemptFreshFor /\ RunTimeout < AttemptFreshFor
  /\ MaxFailures \in Nat \ {0} /\ MaxUnconfirmed \in Nat \ {0} /\ WriteAttempts \in Nat \ {0}
<1>1. {MaxClock, DayLen, Headroom, OpTimeout, RunTimeout, MinInterval} \subseteq Nat \ {0}
  BY TimingAssumption
<1>2. {AttemptFreshFor, Cooldown, RecentLogin, MinSessionAge, RequestMaxAge} \subseteq Nat
  BY TimingAssumption
<1>3. {MaxFailures, MaxUnconfirmed, WriteAttempts} \subseteq Nat \ {0}
  BY TimingAssumption
<1>4. OpTimeout < AttemptFreshFor /\ RunTimeout < AttemptFreshFor
  BY TimingAssumption
<1> QED
  BY <1>1, <1>2, <1>3, <1>4

LEMMA DayType ==
  ASSUME NEW t \in 0 .. MaxClock
  PROVE  Day(t) \in Days /\ Day(t) \in Nat
BY Bounds DEF Days, Day

LEMMA DayGrows ==
  ASSUME NEW a \in Nat, NEW b \in Nat, a <= b
  PROVE  Day(a) <= Day(b)
BY Bounds DEF Day

LEMMA NextDay ==
  ASSUME NEW t \in Nat
  PROVE  Day((Day(t) + 1) * DayLen) = Day(t) + 1 /\ (Day(t) + 1) * DayLen \in Nat
BY Bounds DEF Day

\* A nonempty set of numbers has a least element.
LEMMA LeastExists ==
  ASSUME NEW S \in SUBSET Nat, S # {}
  PROVE  \E x \in S : \A y \in S : x <= y
<1> DEFINE R == OpToRel(<, Nat)
<1>1. IsWellFoundedOn(R, Nat)
  BY NatLessThanWellFounded
<1>r. \A a, b \in Nat : a < b => <<a, b>> \in R
  BY DEF R, OpToRel
<1> HIDE DEF R
<1>2. PICK x \in S : \A y \in S : <<y, x>> \notin R
  BY <1>1, WFMin
<1>3. ASSUME NEW y \in S PROVE x <= y
  <2>1. x \in Nat /\ y \in Nat
    OBVIOUS
  <2>2. ~(y < x)
    BY <1>2, <1>r, <2>1, Zenon
  <2> QED BY <2>1, <2>2
<1> QED BY <1>3

LEMMA OneMore ==
  ASSUME NEW S, IsFiniteSet(S), NEW x
  PROVE  /\ IsFiniteSet(S \cup {x}) /\ Cardinality(S) \in Nat
         /\ Cardinality(S \cup {x}) \in Nat /\ Cardinality(S \cup {x}) <= Cardinality(S) + 1
<1>1. Cardinality(S) \in Nat
  BY FS_CardinalityType
<1>2. IsFiniteSet(S \cup {x}) /\ Cardinality(S \cup {x}) = IF x \in S THEN Cardinality(S) ELSE Cardinality(S) + 1
  BY FS_AddElement
<1> QED
  BY <1>1, <1>2

LEMMA NewSessionIsNew ==
  NewSession \in Sessions /\ NewSession \notin InUse
<1> DEFINE T == {sess.id, live, unsaved.id, ask.fp, hist.won, op["broker"].sid, op["broker"].req.fp,
                 op["job"].sid, op["job"].req.fp}
<1>1. InUse = T
  BY DEF InUse, Workloads
<1>2. PICK a1, a2, a3, a4, a5, a6, a7, a8, a9 : T = {a1, a2, a3, a4, a5, a6, a7, a8, a9}
  BY Zenon
<1> HIDE DEF T
<1>3. IsFiniteSet({a1, a2, a3, a4, a5, a6, a7, a8, a9})
      /\ Cardinality({a1, a2, a3, a4, a5, a6, a7, a8, a9}) <= 9
  <2> DEFINE A1 == {a1}           A2 == A1 \cup {a2}  A3 == A2 \cup {a3}
             A4 == A3 \cup {a4}   A5 == A4 \cup {a5}  A6 == A5 \cup {a6}
             A7 == A6 \cup {a7}   A8 == A7 \cup {a8}  A9 == A8 \cup {a9}
  <2>1. IsFiniteSet(A1) /\ Cardinality(A1) = 1
    BY FS_Singleton
  <2> HIDE DEF A1
  <2>2. IsFiniteSet(A2) /\ Cardinality(A2) <= 2
    <3>1. /\ IsFiniteSet(A2) /\ Cardinality(A1) \in Nat
          /\ Cardinality(A2) \in Nat /\ Cardinality(A2) <= Cardinality(A1) + 1
      BY <2>1, OneMore
    <3> QED
      BY <3>1, <2>1
  <2> HIDE DEF A2
  <2>3. IsFiniteSet(A3) /\ Cardinality(A3) <= 3
    <3>1. /\ IsFiniteSet(A3) /\ Cardinality(A2) \in Nat
          /\ Cardinality(A3) \in Nat /\ Cardinality(A3) <= Cardinality(A2) + 1
      BY <2>2, OneMore
    <3> QED
      BY <3>1, <2>2
  <2> HIDE DEF A3
  <2>4. IsFiniteSet(A4) /\ Cardinality(A4) <= 4
    <3>1. /\ IsFiniteSet(A4) /\ Cardinality(A3) \in Nat
          /\ Cardinality(A4) \in Nat /\ Cardinality(A4) <= Cardinality(A3) + 1
      BY <2>3, OneMore
    <3> QED
      BY <3>1, <2>3
  <2> HIDE DEF A4
  <2>5. IsFiniteSet(A5) /\ Cardinality(A5) <= 5
    <3>1. /\ IsFiniteSet(A5) /\ Cardinality(A4) \in Nat
          /\ Cardinality(A5) \in Nat /\ Cardinality(A5) <= Cardinality(A4) + 1
      BY <2>4, OneMore
    <3> QED
      BY <3>1, <2>4
  <2> HIDE DEF A5
  <2>6. IsFiniteSet(A6) /\ Cardinality(A6) <= 6
    <3>1. /\ IsFiniteSet(A6) /\ Cardinality(A5) \in Nat
          /\ Cardinality(A6) \in Nat /\ Cardinality(A6) <= Cardinality(A5) + 1
      BY <2>5, OneMore
    <3> QED
      BY <3>1, <2>5
  <2> HIDE DEF A6
  <2>7. IsFiniteSet(A7) /\ Cardinality(A7) <= 7
    <3>1. /\ IsFiniteSet(A7) /\ Cardinality(A6) \in Nat
          /\ Cardinality(A7) \in Nat /\ Cardinality(A7) <= Cardinality(A6) + 1
      BY <2>6, OneMore
    <3> QED
      BY <3>1, <2>6
  <2> HIDE DEF A7
  <2>8. IsFiniteSet(A8) /\ Cardinality(A8) <= 8
    <3>1. /\ IsFiniteSet(A8) /\ Cardinality(A7) \in Nat
          /\ Cardinality(A8) \in Nat /\ Cardinality(A8) <= Cardinality(A7) + 1
      BY <2>7, OneMore
    <3> QED
      BY <3>1, <2>7
  <2> HIDE DEF A8
  <2>9. IsFiniteSet(A9) /\ Cardinality(A9) <= 9
    <3>1. /\ IsFiniteSet(A9) /\ Cardinality(A8) \in Nat
          /\ Cardinality(A9) \in Nat /\ Cardinality(A9) <= Cardinality(A8) + 1
      BY <2>8, OneMore
    <3> QED
      BY <3>1, <2>8
  <2>10. A9 = {a1, a2, a3, a4, a5, a6, a7, a8, a9}
    BY DEF A1, A2, A3, A4, A5, A6, A7, A8
  <2> QED
    BY <2>9, <2>10
<1>4. \E i \in Sessions : i \notin InUse
  <2>1. SUFFICES ASSUME Sessions \subseteq T
                 PROVE  FALSE
    BY <1>1
  <2>2. Cardinality(1 .. 10) = 10
    <3>1. ASSUME NEW n \in Nat
          PROVE  Cardinality(1 .. n) = n
      BY FS_Interval
    <3> QED
      BY <3>1
  <2>3. Cardinality(Sessions) <= Cardinality(T)
    BY <2>1, <1>2, <1>3, FS_Subset
  <2> QED
    BY <2>2, <2>3, <1>2, <1>3, FS_CardinalityType DEF Sessions
<1> QED
  BY <1>4 DEF NewSession

LEMMA NextClearHonest ==
  ASSUME NEW t \in Int
  PROVE  /\ NextClear(t) \in Int
         /\ NextClear(t) # None => NextClear(t) >= t /\ ~BlocksAt(NextClear(t))
<1> DEFINE R == t .. t + 2 * DayLen
           P(u) == ~BlocksAt(u)
<1>1. CASE \E u \in R : P(u)
  <2>1. PICK u0 \in R : P(u0)
    BY <1>1
  <2> DEFINE Q(k) == k \in Nat /\ t + k \in R /\ P(t + k)
             K == {k \in Nat : Q(k)}
  <2>2. u0 - t \in K
    BY <2>1, Bounds
  <2> HIDE DEF P
  <2>3. PICK k \in K : \A j \in K : k <= j
    <3>1. K \in SUBSET Nat /\ K # {}
      BY <2>2
    <3> HIDE DEF K
    <3> QED
      BY <3>1, LeastExists
  <2>4. t + k \in R /\ P(t + k) /\ \A w \in t .. (t + k) - 1 : ~P(w)
    <3>1. k \in Nat /\ t + k \in R /\ P(t + k)
      BY <2>3
    <3>2. ASSUME NEW w \in t .. (t + k) - 1, P(w)
          PROVE  FALSE
      <4>1. w - t \in Nat /\ w - t < k /\ t + (w - t) = w /\ w \in R
        BY <3>1, <3>2, Bounds
      <4>2. w - t \in K
        BY <4>1, <3>2
      <4> QED
        BY <4>1, <4>2, <2>3, <3>1
    <3> QED
      BY <3>1, <3>2
  <2>5. \E u \in R : ~BlocksAt(u) /\ \A w \in t .. u - 1 : BlocksAt(w)
    BY <2>4 DEF P
  <2> DEFINE n == CHOOSE u \in R : ~BlocksAt(u) /\ \A w \in t .. u - 1 : BlocksAt(w)
  <2>6. n \in R /\ ~BlocksAt(n)
    BY <2>5
  <2>7. NextClear(t) = n
    BY <1>1 DEF NextClear, P
  <2> QED
    BY <2>6, <2>7, Bounds
<1>2. CASE ~ \E u \in R : P(u)
  BY <1>2 DEF NextClear, None
<1> QED
  BY <1>1, <1>2

-----------------------------------------------------------------------------
(* What the pieces of a step are. *)

\* The numbers a state holds.
LEMMA Numbers ==
  ASSUME Types
  PROVE  /\ clock \in Nat /\ clock \in 0 .. MaxClock /\ clock \in Times
         /\ Day(clock) \in Nat /\ Day(clock) \in Days /\ cred \in Creds
         /\ dep \in Deployments /\ dep.horizon \in 0 .. MaxClock /\ dep.budget \in Nat \ {0}
         /\ dep.runs \in [Workloads -> Nat] /\ dep.faults \in Nat /\ dep.events \in Nat
         /\ dep.asks \in BOOLEAN /\ dep.lossy \in BOOLEAN /\ dep.rash \in BOOLEAN
<1>1. clock \in Nat /\ clock \in 0 .. MaxClock /\ clock \in Times /\ cred \in Creds /\ dep \in Deployments
  BY Bounds DEF Types, RestTyped, Times, None
<1>2. Day(clock) \in Nat /\ Day(clock) \in Days
  BY <1>1, DayType
<1>3. \A d \in Deployments :
        /\ d.horizon \in 0 .. MaxClock /\ d.budget \in Nat \ {0} /\ d.runs \in [{"broker", "job"} -> Nat]
        /\ {d.faults, d.events} \subseteq Nat /\ {d.asks, d.lossy, d.rash} \subseteq BOOLEAN
  BY DeploymentAssumption
<1>4. /\ dep.horizon \in 0 .. MaxClock /\ dep.budget \in Nat \ {0} /\ dep.runs \in [{"broker", "job"} -> Nat]
      /\ {dep.faults, dep.events} \subseteq Nat /\ {dep.asks, dep.lossy, dep.rash} \subseteq BOOLEAN
  BY <1>1, <1>3
<1> QED
  BY <1>1, <1>2, <1>4 DEF Workloads

LEMMA TimeoutType ==
  ASSUME NEW p \in Workloads
  PROVE  Timeout(p) \in Nat \ {0} /\ Timeout(p) < AttemptFreshFor
BY Bounds DEF Timeout

LEMMA EmptyTypes ==
  /\ None \in Int /\ None \in Times /\ None < 0 /\ NoSession \in Ids
  /\ NoRequest \in Requests /\ EmptyRecord \in RecordType /\ Idle \in OpType
  /\ Idle.pc = "idle" /\ Idle.st = EmptyRecord /\ ~Idle.cur
  /\ EmptyRecord.marker = None /\ EmptyRecord.reqAt = None /\ EmptyRecord.day = None
<1>1. None \in Int /\ None \in Times /\ None < 0 /\ NoSession \in Ids /\ 0 \in 0 .. MaxClock
  BY Bounds DEF None, NoSession, Times, Ids
<1>2. NoRequest \in Requests /\ EmptyRecord \in RecordType
  BY <1>1 DEF NoRequest, Requests, EmptyRecord, RecordType
<1>4. 0 \in 0 .. WriteAttempts - 1 /\ "idle" \in Steps /\ "none" \in Words
  BY Bounds DEF Steps, Words
<1>3. Idle \in OpType
  BY <1>1, <1>2, <1>4 DEF Idle, OpType
<1> QED
  BY <1>1, <1>2, <1>3 DEF Idle, EmptyRecord

LEMMA LoginsType ==
  ASSUME NEW st \in RecordType, NEW d
  PROVE  LoginsOn(st, d) \in Nat
BY DEF LoginsOn, RecordType

LEMMA CountLoginIs ==
  ASSUME NEW st \in RecordType, NEW d \in Days
  PROVE  /\ CountLogin(st, d) = [st EXCEPT !.day = d, !.count = LoginsOn(st, d) + 1]
         /\ CountLogin(st, d) \in RecordType
<1>1. LoginsOn(st, d) + 1 \in Nat
  BY LoginsType
<1> HIDE DEF LoginsOn
<1> QED
  BY <1>1 DEF CountLogin, RecordType

LEMMA FailureIs ==
  ASSUME NEW st \in RecordType, NEW m \in Nat
  PROVE  countFailure(st, m) \in RecordType
<1> DEFINE b == st.blocked \/ st.fails + 1 >= m
<1>1. b \in BOOLEAN /\ st.fails + 1 \in Nat
  BY DEF RecordType
<1>2. countFailure(st, m) = [st EXCEPT !.fails = st.fails + 1, !.blocked = b]
  BY DEF countFailure
<1> HIDE DEF b
<1> QED
  BY <1>1, <1>2 DEF RecordType

\* The record of a dead attempt, once it is counted.
LEMMA SettledIs ==
  ASSUME NEW p \in Workloads, NEW st \in RecordType, st.marker # None, cred \in Creds
  PROVE  LET s == Settled(p, st)
             max == IF p = "broker" THEN MaxFailures ELSE MaxUnconfirmed
         IN  /\ s \in RecordType
             /\ s.marker = None /\ s.by = "none" /\ s.reqAt = st.marker
             /\ s.day = Day(st.marker) /\ s.count = LoginsOn(st, Day(st.marker)) + 1
             /\ s.fails = st.fails + 1 /\ (s.blocked <=> (st.blocked \/ st.fails + 1 >= max))
             /\ s.fp = IF p = "job" /\ s.blocked /\ ~st.blocked THEN cred ELSE st.fp
             /\ s.cooldown = st.cooldown /\ s.served = st.served
<1> DEFINE base == [st EXCEPT !.marker = None, !.by = "none", !.reqAt = st.marker]
           d == Day(st.marker)
           made == CountLogin(base, d)
           max == IF p = "broker" THEN MaxFailures ELSE MaxUnconfirmed
           failed == countFailure(made, max)
<1>1. st.marker \in 0 .. MaxClock
  BY DEF RecordType, Times, None
<1>2. d \in Days
  BY <1>1, DayType
<1>3. /\ base \in RecordType /\ base.marker = None /\ base.by = "none" /\ base.reqAt = st.marker
      /\ base.day = st.day /\ base.count = st.count /\ base.fails = st.fails /\ base.blocked = st.blocked
      /\ base.fp = st.fp /\ base.cooldown = st.cooldown /\ base.served = st.served
  BY EmptyTypes DEF RecordType
<1>4. LoginsOn(base, d) = LoginsOn(st, d)
  BY <1>3 DEF LoginsOn
<1> HIDE DEF base, d
<1>5. /\ made \in RecordType /\ made.marker = None /\ made.by = "none" /\ made.reqAt = st.marker
      /\ made.day = d /\ made.count = LoginsOn(st, d) + 1 /\ made.fails = st.fails
      /\ made.blocked = st.blocked
      /\ made.fp = st.fp /\ made.cooldown = st.cooldown /\ made.served = st.served
  <2>1. made = [base EXCEPT !.day = d, !.count = LoginsOn(st, d) + 1] /\ made \in RecordType
    BY <1>2, <1>3, <1>4, CountLoginIs
  <2> HIDE DEF made
  <2> QED
    BY <2>1, <1>3 DEF RecordType
<1> HIDE DEF made
<1>6. max \in Nat
  BY Bounds
<1> HIDE DEF max
<1>7. /\ failed \in RecordType /\ failed.marker = None /\ failed.by = "none" /\ failed.reqAt = st.marker
      /\ failed.day = d /\ failed.count = LoginsOn(st, d) + 1 /\ failed.fails = st.fails + 1
      /\ (failed.blocked <=> (st.blocked \/ st.fails + 1 >= max))
      /\ failed.fp = st.fp /\ failed.cooldown = st.cooldown /\ failed.served = st.served
  <2>1. failed = [made EXCEPT !.fails = @ + 1, !.blocked = @ \/ made.fails + 1 >= max]
    BY DEF countFailure
  <2>2. failed \in RecordType
    BY <1>5, <1>6, FailureIs
  <2>3. failed.blocked <=> (made.blocked \/ made.fails + 1 >= max)
    <3> HIDE DEF failed
    <3> QED
      BY <2>1, <1>5 DEF RecordType
  <2> HIDE DEF failed
  <2> QED
    BY <2>1, <2>2, <2>3, <1>5 DEF RecordType
<1>8. Settled(p, st) = IF p = "job" /\ failed.blocked /\ ~st.blocked THEN [failed EXCEPT !.fp = cred] ELSE failed
  BY DEF Settled, failed, made, base, d, max
<1> HIDE DEF failed
<1>9. CASE p = "job" /\ failed.blocked /\ ~st.blocked
  <2>1. Settled(p, st) = [failed EXCEPT !.fp = cred]
    BY <1>8, <1>9
  <2>2. [failed EXCEPT !.fp = cred] \in RecordType
    BY <1>7 DEF RecordType
  <2> QED
    BY <2>1, <2>2, <1>7, <1>9 DEF max, d, RecordType
<1>10. CASE ~(p = "job" /\ failed.blocked /\ ~st.blocked)
  <2>1. Settled(p, st) = failed
    BY <1>8, <1>10
  <2> QED
    BY <2>1, <1>7, <1>10 DEF max, d
<1> QED
  BY <1>9, <1>10

-----------------------------------------------------------------------------
(* What the broker answers. *)

LEMMA GateIs ==
  ASSUME NEW t, NEW st, NEW sat
  PROVE  gate(t, st, sat) \in Gates \cup {"open"}
BY DEF gate, Gates

LEMMA GateRules ==
  ASSUME NEW t, NEW st, NEW sat
  PROVE  /\ gate(t, st, sat) = "blackout" <=> BlocksAt(t)
         /\ gate(t, st, sat) = "min_interval" =>
              Later(st.reqAt, sat) # None /\ t - Later(st.reqAt, sat) < MinInterval
         /\ gate(t, st, sat) = "cooldown" => t < st.cooldown
         /\ gate(t, st, sat) = "budget" => LoginsOn(st, Day(t)) >= dep.budget
         /\ gate(t, st, sat) = "open" =>
              /\ ~BlocksAt(t) /\ ~(LoginsOn(st, Day(t)) >= dep.budget)
              /\ Later(st.reqAt, sat) = None \/ ~(t - Later(st.reqAt, sat) < MinInterval)
BY DEF gate

LEMMA LaterType ==
  ASSUME NEW a \in Times, NEW b \in Times
  PROVE  Later(a, b) \in Times /\ Later(a, b) >= a /\ Later(a, b) >= b /\ Later(a, b) \in Int
BY EmptyTypes, Bounds DEF Later, Times

\* The retry time of a deferral is past what deferred it.
LEMMA RetryIs ==
  ASSUME Types, NEW st \in RecordType, Past(st), NEW sat \in Times, NEW code
  PROVE  LET r == RetryAfter(code, st, sat) IN
         /\ r \in Int
         /\ code \in Gates /\ r # None => gate(r, st, sat) # code
         /\ code = "login_in_progress" /\ r # None => r - st.marker >= AttemptFreshFor
<1> DEFINE r == RetryAfter(code, st, sat)
           last == Later(st.reqAt, sat)
<1>1. /\ clock \in Nat /\ Day(clock) \in Nat /\ dep.budget \in Nat \ {0} /\ None \in Int /\ None < 0
      /\ MinInterval \in Nat /\ AttemptFreshFor \in Nat
  BY Numbers, EmptyTypes, Bounds
<1>2. st.reqAt \in Times /\ st.marker \in Times /\ st.marker \in Int /\ st.cooldown \in Int
      /\ st.day \in Int /\ st.day <= Day(clock)
  BY EmptyTypes, Bounds, <1>1 DEF RecordType, Times, Days, Past
<1>3. last \in Int
  BY <1>2, LaterType
<1>4. CASE code = "blackout"
  <2>1. r = NextClear(clock)
    BY <1>4 DEF RetryAfter
  <2>2. r \in Int /\ (r # None => ~BlocksAt(r))
    BY <2>1, <1>1, NextClearHonest
  <2> HIDE DEF r
  <2> QED
    BY <2>2, <1>4, GateRules DEF r
<1>5. CASE code = "min_interval"
  <2>1. r = NextClear(last + MinInterval)
    BY <1>5 DEF RetryAfter
  <2>2. last + MinInterval \in Int
    BY <1>1, <1>3
  <2>3. r \in Int /\ (r # None => r >= last + MinInterval)
    BY <2>1, <2>2, NextClearHonest
  <2> HIDE DEF r, last
  <2>4. r # None => ~(r - last < MinInterval)
    BY <2>3, <1>1, <1>3
  <2>5. r # None => gate(r, st, sat) # "min_interval"
    BY <2>4, GateRules DEF last
  <2> QED
    BY <2>3, <2>5, <1>5 DEF r
<1>6. CASE code = "cooldown"
  <2>1. r = NextClear(st.cooldown)
    BY <1>6 DEF RetryAfter
  <2>2. r \in Int /\ (r # None => r >= st.cooldown)
    BY <2>1, <1>2, NextClearHonest
  <2> HIDE DEF r
  <2>3. r # None => gate(r, st, sat) # "cooldown"
    BY <2>2, <1>2, GateRules
  <2> QED
    BY <2>2, <2>3, <1>6 DEF r
<1>7. CASE code = "login_in_progress"
  <2>1. r = NextClear(st.marker + AttemptFreshFor)
    BY <1>7 DEF RetryAfter
  <2>2. st.marker + AttemptFreshFor \in Int
    BY <1>1, <1>2
  <2>3. r \in Int /\ (r # None => r >= st.marker + AttemptFreshFor)
    BY <2>1, <2>2, NextClearHonest
  <2> HIDE DEF r
  <2>4. r # None => r - st.marker >= AttemptFreshFor
    BY <2>3, <1>1, <1>2
  <2> QED
    BY <2>3, <2>4, <1>7 DEF r, Gates
<1>8. CASE code = "budget"
  <2>1. r = (Day(clock) + 1) * DayLen
    BY <1>8 DEF RetryAfter
  <2>2. r \in Nat /\ Day(r) = Day(clock) + 1
    BY <2>1, <1>1, NextDay
  <2> HIDE DEF r
  <2>3. LoginsOn(st, Day(r)) = 0
    BY <2>2, <1>2, <1>1 DEF LoginsOn
  <2>4. gate(r, st, sat) # "budget"
    BY <2>3, <1>1, GateRules
  <2> QED
    BY <2>2, <2>4, <1>8 DEF r
<1>9. CASE code \notin Gates \cup {"login_in_progress"}
  <2>1. r = None
    BY <1>9 DEF RetryAfter, Gates
  <2> HIDE DEF r
  <2> QED
    BY <2>1, <1>1, <1>9 DEF r
<1> QED
  BY <1>4, <1>5, <1>6, <1>7, <1>8, <1>9 DEF Gates

LEMMA ReplyIs ==
  ASSUME NEW o \in OpType, NEW out \in Words
  PROVE  /\ Reply(o, out) \in OpType /\ Reply(o, out).pc = "answer" /\ Reply(o, out).t0 = o.t0
         /\ Reply(o, out).out = out /\ Reply(o, out).retry = None /\ Reply(o, out).st = EmptyRecord
         /\ Reply(o, out).sid = o.sid /\ Reply(o, out).sat = None /\ ~Reply(o, out).cur
         /\ Reply(o, out).kind = "none"
<1>1. "answer" \in Steps
  BY DEF Steps
<1>2. Idle \in OpType /\ Idle.retry = None /\ Idle.st = EmptyRecord /\ Idle.sat = None /\ ~Idle.cur
      /\ Idle.kind = "none"
  BY EmptyTypes DEF Idle
<1>3. Reply(o, out) = [Idle EXCEPT !.pc = "answer", !.t0 = o.t0, !.out = out, !.sid = o.sid]
  BY DEF Reply
<1> DEFINE n == Reply(o, out)
<1> HIDE DEF n
<1>4. n = [Idle EXCEPT !.pc = "answer", !.t0 = o.t0, !.out = out, !.sid = o.sid]
  BY <1>3 DEF n
<1>5. n \in OpType
  BY <1>1, <1>2, <1>4 DEF OpType
<1>6. /\ n.pc = "answer" /\ n.t0 = o.t0 /\ n.out = out /\ n.retry = Idle.retry /\ n.st = Idle.st
      /\ n.sid = o.sid /\ n.sat = Idle.sat /\ n.cur = Idle.cur /\ n.kind = Idle.kind
  BY <1>2, <1>4 DEF OpType
<1> QED
  BY <1>2, <1>5, <1>6 DEF n

\* The run goes on, whatever it does next.
Ongoing(o, p) == o \in OpType /\ o.t0 <= clock /\ clock <= o.t0 + Timeout(p) /\ dep.runs[p] # 0

LEMMA ReplySane ==
  ASSUME Types, NEW o, Ongoing(o, "broker"), NEW out \in Words
  PROVE  Sane(Reply(o, out), "broker")
<1> DEFINE n == Reply(o, out)
<1>1. /\ n \in OpType /\ n.pc = "answer" /\ n.t0 = o.t0 /\ n.retry = None /\ n.st = EmptyRecord
  BY ReplyIs DEF Ongoing
<1>2. Past(EmptyRecord)
  BY EmptyTypes, Numbers DEF Past
<1> HIDE DEF n
<1>3. Timely(n, "broker")
  BY <1>1, <1>2, Numbers DEF Timely, Ongoing, Begun, Inside, Ending
<1>4. Ended(n, "broker") /\ Honest(n)
  BY <1>1 DEF Ended, Ending, Honest
<1> QED
  BY <1>1, <1>3, <1>4 DEF Sane, n

LEMMA DeferIs ==
  ASSUME Types, NEW o, Ongoing(o, "broker"), Past(o.st), NEW code \in Words
  PROVE  /\ Sane(Defer(o, code), "broker") /\ Defer(o, code).pc = "answer"
         /\ Defer(o, code).sid = o.sid /\ Defer(o, code).st = o.st /\ ~Defer(o, code).cur
<1> DEFINE n == Defer(o, code)  b == Reply(o, "deferred")  r == RetryAfter(code, o.st, o.sat)
<1>1. o.st \in RecordType /\ o.sat \in Times /\ o \in OpType /\ "deferred" \in Words
  BY DEF Ongoing, OpType, Words
<1>2. b \in OpType /\ b.pc = "answer" /\ b.t0 = o.t0 /\ b.out = "deferred" /\ ~b.cur /\ b.sid = o.sid
  BY <1>1, ReplyIs
<1>3. /\ r \in Int
      /\ code \in Gates /\ r # None => gate(r, o.st, o.sat) # code
      /\ code = "login_in_progress" /\ r # None => r - o.st.marker >= AttemptFreshFor
  BY <1>1, RetryIs
<1>4. n = [b EXCEPT !.kind = code, !.st = o.st, !.sat = o.sat, !.retry = r]
  BY DEF Defer
<1> HIDE DEF n, b, r
<1>5. /\ n \in OpType /\ n.pc = "answer" /\ n.t0 = o.t0 /\ n.retry = r /\ n.st = o.st /\ n.sat = o.sat
      /\ n.kind = code /\ ~n.cur /\ n.sid = o.sid
  BY <1>1, <1>2, <1>3, <1>4 DEF OpType
<1>6. Timely(n, "broker")
  BY <1>5 DEF Timely, Ongoing, Begun, Inside, Ending
<1>7. Ended(n, "broker")
  BY <1>5 DEF Ended, Ending
<1>8. Honest(n)
  BY <1>5, <1>3 DEF Honest
<1> QED
  BY <1>5, <1>6, <1>7, <1>8 DEF Sane, n

\* A run that goes on to a step before its login.
LEMMA EarlySane ==
  ASSUME NEW p \in Workloads, NEW o \in OpType, Ongoing(o, p), Past(o.st),
         o.pc \in {"settle", "read", "probe", "gate", "save"} \/ (p = "job" /\ o.pc = "serve")
  PROVE  Sane(o, p)
<1>1. Timely(o, p)
  BY DEF Timely, Ongoing, Begun, Inside, Ending
<1>2. Ended(o, p)
  BY DEF Ended, Ending
<1>3. Honest(o)
  BY DEF Honest
<1> QED
  BY <1>1, <1>2, <1>3 DEF Sane

LEMMA UnlatchedIs ==
  ASSUME NEW st \in RecordType
  PROVE  /\ Unlatched(st) \in RecordType
         /\ ~Unlatched(st).blocked /\ Unlatched(st).fails = IF st.blocked THEN 0 ELSE st.fails
         /\ Unlatched(st).marker = st.marker /\ Unlatched(st).by = st.by
         /\ Unlatched(st).reqAt = st.reqAt /\ Unlatched(st).day = st.day
         /\ Unlatched(st).count = st.count /\ Unlatched(st).fp = st.fp
         /\ Unlatched(st).cooldown = st.cooldown /\ Unlatched(st).served = st.served
<1>1. CASE st.blocked
  BY <1>1 DEF Unlatched, RecordType
<1>2. CASE ~st.blocked
  BY <1>2 DEF Unlatched, RecordType
<1> QED
  BY <1>1, <1>2

LEMMA BrPastLatchIs ==
  ASSUME Types, NEW o, Ongoing(o, "broker"), Past(o.st)
  PROVE  /\ Sane(BrPastLatch(o), "broker")
         /\ \/ BrPastLatch(o).pc = "answer"
            \/ /\ ~(o.st.blocked /\ o.st.fp = cred)
               /\ BrPastLatch(o) = [o EXCEPT !.pc = "read", !.st = Unlatched(o.st)]
<1> DEFINE n == BrPastLatch(o)
<1>1. CASE o.st.blocked /\ o.st.fp = cred
  <2>1. n = Reply(o, "latched")
    BY <1>1 DEF BrPastLatch
  <2>2. "latched" \in Words /\ o \in OpType
    BY DEF Words, Ongoing
  <2>3. Sane(Reply(o, "latched"), "broker") /\ Reply(o, "latched").pc = "answer"
    BY <2>2, ReplySane, ReplyIs
  <2> QED
    BY <2>1, <2>3
<1>2. CASE ~(o.st.blocked /\ o.st.fp = cred)
  <2> DEFINE u == Unlatched(o.st)
  <2>1. n = [o EXCEPT !.pc = "read", !.st = u]
    BY <1>2 DEF BrPastLatch
  <2>2. o.st \in RecordType /\ o \in OpType
    BY DEF Ongoing, OpType
  <2>3. u \in RecordType /\ Past(u)
    BY <2>2, UnlatchedIs DEF Past
  <2> HIDE DEF n, u
  <2>4. n \in OpType /\ n.pc = "read" /\ n.st = u /\ n.t0 = o.t0
    BY <2>1, <2>2, <2>3 DEF OpType, Steps
  <2>5. Ongoing(n, "broker")
    BY <2>4 DEF Ongoing
  <2>6. Sane(n, "broker")
    BY <2>3, <2>4, <2>5, EarlySane DEF Workloads
  <2> QED
    BY <2>1, <2>6, <1>2 DEF n, u
<1> QED
  BY <1>1, <1>2

-----------------------------------------------------------------------------
(* A write of the record. *)

\* n is o, but for what a write leaves in the three flags.
Flagged(n, o) == n \in OpType /\ n = [o EXCEPT !.cur = n.cur, !.tries = n.tries, !.unsure = n.unsure]

LEMMA FlaggedIs ==
  ASSUME NEW n, NEW o, Flagged(n, o), o \in OpType
  PROVE  /\ n \in OpType /\ n.pc = o.pc /\ n.t0 = o.t0 /\ n.st = o.st /\ n.sid = o.sid /\ n.sat = o.sat
         /\ n.scur = o.scur /\ n.redone = o.redone /\ n.started = o.started /\ n.lt = o.lt
         /\ n.again = o.again /\ n.kind = o.kind /\ n.out = o.out /\ n.retry = o.retry /\ n.req = o.req
BY DEF Flagged, OpType

LEMMA FlaggedSane ==
  ASSUME NEW p \in Workloads, NEW n, NEW o, Flagged(n, o), Sane(o, p)
  PROVE  Sane(n, p)
<1>1. o \in OpType
  BY DEF Sane
<1>2. /\ n \in OpType /\ n.pc = o.pc /\ n.t0 = o.t0 /\ n.st = o.st /\ n.sat = o.sat
      /\ n.started = o.started /\ n.lt = o.lt
      /\ n.kind = o.kind /\ n.out = o.out /\ n.retry = o.retry
  BY <1>1, FlaggedIs
<1>3. Timely(n, p)
  BY <1>2 DEF Sane, Timely
<1>4. Ended(n, p)
  BY <1>2 DEF Sane, Ended
<1>5. p = "broker" => Honest(n)
  BY <1>2 DEF Sane, Honest
<1> QED
  BY <1>2, <1>3, <1>4, <1>5 DEF Sane

\* A write takes the record from everybody else.
Overtaking(p, n) == [q \in Workloads |-> IF q = p THEN n ELSE [op[q] EXCEPT !.cur = FALSE]]

\* How a write ends that lands, and one that changes nothing.
WriteLands(p, n, ok, down) ==
  /\ op[p].cur
  /\ \/ Flagged(n, ok) /\ n.cur
     \/ dep.lossy /\ ~n.cur /\ (Flagged(n, down) \/ (Flagged(n, op[p]) /\ n.unsure))

WriteMisses(p, n, r, ok, cas, down) ==
  \/ ~op[p].cur /\ op[p].unsure /\ rec = r /\ Flagged(n, ok) /\ n.cur
  \/ Flagged(n, op[p]) /\ n.cur = op[p].cur
  \/ ~op[p].cur /\ Flagged(n, cas) /\ n.cur = cas.cur
  \/ Flagged(n, down) /\ n.cur = down.cur

\* A write of r by p, which becomes n.
WriteGoes(p, n, r, ok, cas, down) ==
  /\ Sane(n, p)
  /\ \/ op' = Overtaking(p, n) /\ rec' = r /\ WriteLands(p, n, ok, down)
     \/ op' = [op EXCEPT ![p] = n] /\ rec' = rec /\ WriteMisses(p, n, r, ok, cas, down)

LEMMA Written ==
  ASSUME Types, Running, UNCHANGED <<dep, clock>>, NEW p \in Workloads, NEW r \in RecordType,
         NEW ok, NEW cas, NEW down, Sane(ok, p), Sane(cas, p), Sane(down, p),
         WriteStateOnce(p, r, ok, cas, down)
  PROVE  /\ hist'.faults \in Nat /\ hist' = [hist EXCEPT !.faults = hist'.faults]
         /\ \E n : WriteGoes(p, n, r, ok, cas, down)
<1> DEFINE o == op[p]
           next(w) == CASE w.res = "ok" -> [ok EXCEPT !.cur = TRUE, !.tries = 0, !.unsure = FALSE]
                        [] w.res = "retry" /\ MoreTries(o) ->
                             [o EXCEPT !.tries = @ + 1, !.unsure = TRUE, !.cur = @ /\ ~w.wrote]
                        [] w.res = "cas" -> [cas EXCEPT !.tries = 0, !.unsure = FALSE]
                        [] OTHER -> [down EXCEPT !.tries = 0, !.unsure = FALSE, !.cur = @ /\ ~w.wrote]
<1>1. PICK w \in Put(p, r) :
        /\ rec' = w.rec
        /\ hist' = [hist EXCEPT !.faults = @ + w.cost]
        /\ op' = Overtaken([op EXCEPT ![p] = next(w)], p, w.wrote)
  BY DEF WriteStateOnce
<1>o. o \in OpType /\ Sane(o, p) /\ ok \in OpType /\ cas \in OpType /\ down \in OpType
      /\ op \in [Workloads -> OpType] /\ hist.faults \in Nat /\ WriteAttempts \in Nat \ {0}
  BY Bounds DEF Types, RestTyped, Running, Sane, HistType
<1>2. \/ o.cur /\ w = Told(r, TRUE, "ok", 0)
      \/ o.cur /\ dep.lossy /\ w = Told(r, TRUE, "retry", 1)
      \/ ~o.cur /\ o.unsure /\ rec = r /\ w = Told(rec, FALSE, "ok", 0)
      \/ ~o.cur /\ \E c \in {0, 1} : w = Told(rec, FALSE, "cas", c)
      \/ \E res \in {"retry", "refused"} : w = Told(rec, FALSE, res, 1)
      \/ w = Told(rec, FALSE, "down", 0)
  BY <1>1 DEF Put
<1>w. \/ w.wrote = TRUE /\ w.rec = r /\ (w.cost = 0 \/ w.cost = 1)
      \/ w.wrote = FALSE /\ w.rec = rec /\ (w.cost = 0 \/ w.cost = 1)
  <2>1. ASSUME NEW x, NEW b \in BOOLEAN, NEW res, NEW c, w = Told(x, b, res, c)
        PROVE  w.wrote = b /\ w.rec = x /\ w.cost = c
    BY <2>1 DEF Told
  <2> QED
    BY <1>2, <2>1
<1>3. /\ w.wrote \in BOOLEAN /\ w.cost \in {0, 1} /\ rec' = IF w.wrote THEN r ELSE rec
  BY <1>1, <1>w
<1>4. hist'.faults \in Nat /\ hist' = [hist EXCEPT !.faults = hist'.faults]
  <2>1. hist.faults + w.cost \in Nat
    BY <1>o, <1>3
  <2> QED
    BY <1>1, <2>1, <1>o DEF Types, RestTyped, HistType
<1>5. /\ w.wrote => op' = Overtaking(p, next(w))
      /\ ~w.wrote => op' = [op EXCEPT ![p] = next(w)]
  <2> HIDE DEF next
  <2>1. w.wrote => Overtaken([op EXCEPT ![p] = next(w)], p, w.wrote) = Overtaking(p, next(w))
    BY <1>o, <1>3 DEF Overtaken, Overtaking
  <2>2. ~w.wrote => Overtaken([op EXCEPT ![p] = next(w)], p, w.wrote) = [op EXCEPT ![p] = next(w)]
    BY <1>o, <1>3 DEF Overtaken
  <2> QED
    BY <1>1, <2>1, <2>2
<1>z. 0 \in 0 .. WriteAttempts - 1
  BY <1>o
<1>6. Sane(next(w), p) /\ (w.wrote => WriteLands(p, next(w), ok, down))
      /\ (~w.wrote => WriteMisses(p, next(w), r, ok, cas, down))
  <2>1. CASE w.res = "ok"
    <3> DEFINE n == [ok EXCEPT !.cur = TRUE, !.tries = 0, !.unsure = FALSE]
    <3>4. n = [ok EXCEPT !.cur = TRUE, !.tries = 0, !.unsure = FALSE]
      OBVIOUS
    <3> HIDE DEF n
    <3>1. Flagged(n, ok) /\ n.cur
      <4>1. n \in OpType /\ n.cur = TRUE /\ n.tries = 0 /\ n.unsure = FALSE
        BY <3>4, <1>o, <1>z DEF OpType
      <4> QED
        BY <4>1, <3>4 DEF Flagged
    <3>2. next(w) = n
      BY <2>1 DEF n
    <3>3. \/ w.wrote /\ o.cur
          \/ ~w.wrote /\ ~o.cur /\ o.unsure /\ rec = r
      BY <1>2, <2>1 DEF Told
    <3> HIDE DEF next
    <3> QED
      BY <3>1, <3>2, <3>3, <1>o, FlaggedSane DEF WriteLands, WriteMisses
  <2>2. CASE w.res = "retry" /\ MoreTries(o)
    <3> DEFINE c == o.cur /\ ~w.wrote
               t == o.tries + 1
               n == [o EXCEPT !.cur = c, !.tries = t, !.unsure = TRUE]
    <3>1. c \in BOOLEAN /\ t \in 0 .. WriteAttempts - 1
      BY <1>o, <2>2 DEF MoreTries, OpType
    <3>2. next(w) = n
      BY <2>2
    <3> HIDE DEF c, t
    <3>7. n = [o EXCEPT !.cur = c, !.tries = t, !.unsure = TRUE]
      OBVIOUS
    <3> HIDE DEF n, next, o
    <3>3. Flagged(n, o) /\ n.cur = c /\ n.unsure
      <4>1. n \in OpType /\ n.cur = c /\ n.tries = t /\ n.unsure = TRUE
        BY <3>7, <1>o, <3>1 DEF OpType
      <4> QED
        BY <4>1, <3>7 DEF Flagged
    <3>4. \/ w.wrote /\ o.cur /\ dep.lossy
          \/ ~w.wrote
      BY <1>2, <2>2 DEF Told
    <3>5. w.wrote => ~n.cur
      BY <3>3 DEF c
    <3>6. ~w.wrote => n.cur = o.cur
      BY <3>3, <1>o DEF c, OpType
    <3> QED
      BY <3>2, <3>3, <3>4, <3>5, <3>6, <1>o, FlaggedSane DEF WriteLands, WriteMisses, o
  <2>3. CASE w.res = "cas"
    <3> DEFINE n == [cas EXCEPT !.cur = cas.cur, !.tries = 0, !.unsure = FALSE]
    <3>1. next(w) = n
      BY <2>3, <1>o DEF OpType
    <3>2. cas.cur \in BOOLEAN
      BY <1>o DEF OpType
    <3>5. n = [cas EXCEPT !.cur = cas.cur, !.tries = 0, !.unsure = FALSE]
      OBVIOUS
    <3> HIDE DEF n, next
    <3>3. Flagged(n, cas) /\ n.cur = cas.cur
      <4>1. n \in OpType /\ n.cur = cas.cur /\ n.tries = 0 /\ n.unsure = FALSE
        BY <3>5, <1>o, <1>z, <3>2 DEF OpType
      <4> QED
        BY <4>1, <3>5 DEF Flagged
    <3>4. ~w.wrote /\ ~o.cur
      BY <1>2, <2>3 DEF Told
    <3> QED
      BY <3>1, <3>3, <3>4, <1>o, FlaggedSane DEF WriteLands, WriteMisses
  <2>4. CASE w.res # "ok" /\ w.res # "cas" /\ ~(w.res = "retry" /\ MoreTries(o))
    <3> DEFINE c == down.cur /\ ~w.wrote
               n == [down EXCEPT !.cur = c, !.tries = 0, !.unsure = FALSE]
    <3>1. c \in BOOLEAN
      BY <1>o DEF OpType
    <3>2. next(w) = n
      BY <2>4
    <3> HIDE DEF c
    <3>7. n = [down EXCEPT !.cur = c, !.tries = 0, !.unsure = FALSE]
      OBVIOUS
    <3> HIDE DEF n, next
    <3>3. Flagged(n, down) /\ n.cur = c
      <4>1. n \in OpType /\ n.cur = c /\ n.tries = 0 /\ n.unsure = FALSE
        BY <3>7, <1>o, <1>z, <3>1 DEF OpType
      <4> QED
        BY <4>1, <3>7 DEF Flagged
    <3>4. \/ w.wrote /\ o.cur /\ dep.lossy
          \/ ~w.wrote
      BY <1>2, <2>4 DEF Told
    <3>5. w.wrote => ~n.cur
      BY <3>3 DEF c
    <3>6. ~w.wrote => n.cur = down.cur
      BY <3>3, <1>o DEF c, OpType
    <3> QED
      BY <3>2, <3>3, <3>4, <3>5, <3>6, <1>o, FlaggedSane DEF WriteLands, WriteMisses
  <2> QED
    BY <2>1, <2>2, <2>3, <2>4
<1> HIDE DEF next, o
<1>8. PICK n : n = next(w)
  OBVIOUS
<1>9. CASE w.wrote
  <2>1. /\ Sane(n, p) /\ op' = Overtaking(p, n) /\ rec' = r
        /\ WriteLands(p, n, ok, down)
    BY <1>3, <1>5, <1>6, <1>8, <1>9
  <2> QED
    BY <2>1, <1>4 DEF WriteGoes
<1>10. CASE ~w.wrote
  <2>1. /\ Sane(n, p) /\ op' = [op EXCEPT ![p] = n] /\ rec' = rec
        /\ WriteMisses(p, n, r, ok, cas, down)
    BY <1>3, <1>5, <1>6, <1>8, <1>10
  <2> QED
    BY <2>1, <1>4 DEF WriteGoes
<1> QED
  BY <1>9, <1>10

-----------------------------------------------------------------------------
(* What an attempt leaves in the record. *)

\* st is what the workload applies its outcome to, r what it writes.
Cleared(r, st) ==
  /\ r \in RecordType /\ r.marker = None /\ r.by = "none" /\ r.fp = st.fp /\ r.served = st.served

Uncounted(r, st) ==
  r.day = st.day /\ r.count = st.count /\ r.fails = st.fails /\ r.blocked = st.blocked

Made(r, st, t) == r.day = Day(t) /\ r.count = LoginsOn(st, Day(t)) + 1

\* One more failure, and the latch if it is one too many.
Failed(r, st, m) == r.fails = st.fails + 1 /\ (r.blocked <=> (st.blocked \/ st.fails + 1 >= m))

BrLeaves(r, o, st) ==
  /\ Cleared(r, st)
  /\ o.kind \in {"held", "not_submitted"} => Uncounted(r, st) /\ r.reqAt = st.reqAt
  /\ o.kind \in {"rejected", "failed", "success"} => Made(r, st, o.started) /\ r.reqAt = o.started
  /\ o.kind = "rejected" => r.fails = st.fails /\ r.blocked
  /\ o.kind = "failed" => Failed(r, st, MaxFailures)
  /\ o.kind = "success" => r.fails = 0 /\ r.blocked = st.blocked

JobLeaves(r, o, st) ==
  /\ Cleared(r, st) /\ r.reqAt = st.reqAt
  /\ o.kind = "not_submitted" => Uncounted(r, st)
  /\ o.kind \in {"unknown", "rejected", "unconfirmed", "success"} => Made(r, st, o.started)
  /\ o.kind = "unknown" => r.fails = st.fails /\ r.blocked = st.blocked
  /\ o.kind = "rejected" => r.fails = st.fails /\ r.blocked
  /\ o.kind = "unconfirmed" => Failed(r, st, MaxUnconfirmed)
  /\ o.kind = "success" => r.fails = 0 /\ r.blocked = st.blocked

LEMMA MadeIs ==
  ASSUME NEW st \in RecordType, NEW t \in 0 .. MaxClock, NEW r, r = CountLogin(st, Day(t))
  PROVE  /\ r \in RecordType /\ Made(r, st, t)
         /\ r.marker = st.marker /\ r.by = st.by /\ r.reqAt = st.reqAt /\ r.fp = st.fp
         /\ r.fails = st.fails /\ r.blocked = st.blocked /\ r.served = st.served
<1> DEFINE d == Day(t)
<1>1. d \in Days
  BY DayType
<1> HIDE DEF d
<1>2. r = [st EXCEPT !.day = d, !.count = LoginsOn(st, d) + 1] /\ r \in RecordType
  BY <1>1, CountLoginIs DEF d
<1>3. LoginsOn(st, d) + 1 \in Nat
  BY LoginsType
<1> DEFINE c == LoginsOn(st, d) + 1
<1> HIDE DEF c
<1>4. r = [st EXCEPT !.day = d, !.count = c]
  BY <1>2 DEF c
<1>5. /\ r.day = d /\ r.count = c
      /\ r.marker = st.marker /\ r.by = st.by /\ r.reqAt = st.reqAt /\ r.fp = st.fp
      /\ r.fails = st.fails /\ r.blocked = st.blocked /\ r.served = st.served
  BY <1>4 DEF RecordType
<1> QED
  BY <1>2, <1>5 DEF Made, d, c

LEMMA FailedIs ==
  ASSUME NEW st \in RecordType, NEW m \in Nat, NEW r, r = countFailure(st, m)
  PROVE  /\ r \in RecordType /\ Failed(r, st, m)
         /\ r.marker = st.marker /\ r.by = st.by /\ r.reqAt = st.reqAt /\ r.fp = st.fp
         /\ r.day = st.day /\ r.count = st.count /\ r.served = st.served
<1> DEFINE b == st.blocked \/ st.fails + 1 >= m
<1>1. b \in BOOLEAN /\ st.fails + 1 \in Nat
  BY DEF RecordType
<1>2. r = [st EXCEPT !.fails = st.fails + 1, !.blocked = b]
  BY DEF countFailure
<1> HIDE DEF b
<1>3. /\ r.fails = st.fails + 1 /\ r.blocked = b /\ r \in RecordType
      /\ r.marker = st.marker /\ r.by = st.by /\ r.reqAt = st.reqAt /\ r.fp = st.fp
      /\ r.day = st.day /\ r.count = st.count /\ r.served = st.served
  BY <1>1, <1>2 DEF RecordType
<1> QED
  BY <1>3 DEF b, Failed

LEMMA BrOutcomeIs ==
  ASSUME NEW o \in OpType, o.started \in 0 .. MaxClock, NEW st \in RecordType,
         o.kind \in {"held", "not_submitted", "rejected", "failed", "success"}
  PROVE  BrLeaves(BrOutcome(o, st), o, st)
<1> DEFINE cleared == [st EXCEPT !.marker = None, !.by = "none"]
           timed == [cleared EXCEPT !.reqAt = o.started]
           made == CountLogin(timed, Day(o.started))
           r == BrOutcome(o, st)
<1>1. /\ cleared \in RecordType /\ Cleared(cleared, st) /\ Uncounted(cleared, st)
      /\ cleared.reqAt = st.reqAt
  BY EmptyTypes DEF RecordType, Cleared, Uncounted
<1>2. o.started \in Times
  BY DEF Times, None
<1> HIDE DEF cleared
<1>3. /\ timed \in RecordType /\ Cleared(timed, st) /\ Uncounted(timed, st)
      /\ timed.reqAt = o.started
  BY <1>1, <1>2 DEF RecordType, Cleared, Uncounted
<1> HIDE DEF timed
<1>4. LoginsOn(timed, Day(o.started)) = LoginsOn(st, Day(o.started))
  BY <1>3 DEF LoginsOn, Uncounted
<1>5. /\ made \in RecordType /\ Made(made, timed, o.started)
      /\ made.marker = timed.marker /\ made.by = timed.by /\ made.reqAt = timed.reqAt
      /\ made.fp = timed.fp
      /\ made.fails = timed.fails /\ made.blocked = timed.blocked /\ made.served = timed.served
  BY <1>3, MadeIs
<1> HIDE DEF made
<1>6. /\ made \in RecordType /\ Cleared(made, st) /\ Made(made, st, o.started)
      /\ made.reqAt = o.started /\ made.fails = st.fails /\ made.blocked = st.blocked
  BY <1>3, <1>4, <1>5 DEF Cleared, Uncounted, Made
<1>7. r = CASE o.kind = "held"          -> cleared
            [] o.kind = "not_submitted" -> [cleared EXCEPT !.cooldown = o.retry]
            [] o.kind = "rejected"      -> [made EXCEPT !.blocked = TRUE]
            [] o.kind = "failed"        -> countFailure(made, MaxFailures)
            [] o.kind = "success"       -> [made EXCEPT !.fails = 0, !.cooldown = None]
  BY DEF BrOutcome, made, timed, cleared
<1> HIDE DEF r
<1>8. CASE o.kind = "held"
  <2>1. r = cleared
    BY <1>7, <1>8
  <2> QED
    BY <2>1, <1>1, <1>8 DEF BrLeaves, r
<1>9. CASE o.kind = "not_submitted"
  <2>1. r = [cleared EXCEPT !.cooldown = o.retry] /\ o.retry \in Int
    BY <1>7, <1>9 DEF OpType
  <2>2. Cleared(r, st) /\ Uncounted(r, st) /\ r.reqAt = st.reqAt
    BY <2>1, <1>1 DEF RecordType, Cleared, Uncounted
  <2> QED
    BY <2>2, <1>9 DEF BrLeaves, r
<1>10. CASE o.kind = "rejected"
  <2>1. r = [made EXCEPT !.blocked = TRUE]
    BY <1>7, <1>10
  <2>2. Cleared(r, st) /\ Made(r, st, o.started) /\ r.reqAt = o.started /\ r.fails = st.fails
    BY <2>1, <1>6 DEF RecordType, Cleared, Made
  <2>3. r.blocked
    BY <2>1, <1>6 DEF RecordType
  <2> QED
    BY <2>2, <2>3, <1>10 DEF BrLeaves, r
<1>11. CASE o.kind = "failed"
  <2>1. r = countFailure(made, MaxFailures) /\ MaxFailures \in Nat
    BY <1>7, <1>11, Bounds
  <2>2. /\ r \in RecordType /\ Failed(r, made, MaxFailures)
        /\ r.marker = made.marker /\ r.by = made.by /\ r.reqAt = made.reqAt /\ r.fp = made.fp
        /\ r.day = made.day /\ r.count = made.count /\ r.served = made.served
    <3>1. made \in RecordType
      BY <1>6
    <3> QED
      BY <2>1, <3>1, FailedIs
  <2>3. Cleared(r, st) /\ Made(r, st, o.started) /\ r.reqAt = o.started
    BY <2>2, <1>6 DEF Cleared, Made
  <2>4. Failed(r, st, MaxFailures)
    BY <2>2, <1>6 DEF Failed
  <2> QED
    BY <2>3, <2>4, <1>11 DEF BrLeaves, r
<1>12. CASE o.kind = "success"
  <2>1. r = [made EXCEPT !.fails = 0, !.cooldown = None]
    BY <1>7, <1>12
  <2>2. Cleared(r, st) /\ Made(r, st, o.started) /\ r.reqAt = o.started /\ r.fails = 0
    BY <2>1, <1>6, EmptyTypes DEF RecordType, Cleared, Made
  <2>3. r.blocked = st.blocked
    BY <2>1, <1>6 DEF RecordType
  <2> QED
    BY <2>2, <2>3, <1>12 DEF BrLeaves, r
<1> QED
  BY <1>8, <1>9, <1>10, <1>11, <1>12

LEMMA JobOutcomeIs ==
  ASSUME NEW o \in OpType, o.started \in 0 .. MaxClock,
         o.kind \in {"not_submitted", "unknown", "rejected", "unconfirmed", "success"}
  PROVE  JobLeaves(JobOutcome(o), o, o.st)
<1> DEFINE st == o.st
           cleared == [st EXCEPT !.marker = None, !.by = "none"]
           made == CountLogin(cleared, Day(o.started))
           r == JobOutcome(o)
<1>0. st \in RecordType
  BY DEF OpType
<1>7. r = CASE o.kind = "not_submitted" -> cleared
            [] o.kind = "unknown"       -> made
            [] o.kind = "rejected"      -> [made EXCEPT !.blocked = TRUE]
            [] o.kind = "unconfirmed"   -> countFailure(made, MaxUnconfirmed)
            [] o.kind = "success"       -> [made EXCEPT !.fails = 0]
  BY DEF JobOutcome
<1> HIDE DEF r, st
<1>1. /\ cleared \in RecordType /\ Cleared(cleared, st) /\ Uncounted(cleared, st)
      /\ cleared.reqAt = st.reqAt
  BY <1>0, EmptyTypes DEF RecordType, Cleared, Uncounted
<1> HIDE DEF cleared
<1>4. LoginsOn(cleared, Day(o.started)) = LoginsOn(st, Day(o.started))
  BY <1>1 DEF LoginsOn, Uncounted
<1>5. /\ made \in RecordType /\ Made(made, cleared, o.started)
      /\ made.marker = cleared.marker /\ made.by = cleared.by /\ made.reqAt = cleared.reqAt
      /\ made.fp = cleared.fp
      /\ made.fails = cleared.fails /\ made.blocked = cleared.blocked /\ made.served = cleared.served
  BY <1>1, MadeIs
<1> HIDE DEF made
<1>6. /\ made \in RecordType /\ Cleared(made, st) /\ Made(made, st, o.started)
      /\ made.reqAt = st.reqAt /\ made.fails = st.fails /\ made.blocked = st.blocked
  BY <1>1, <1>4, <1>5 DEF Cleared, Uncounted, Made
<1>8. CASE o.kind = "not_submitted"
  <2>1. r = cleared
    BY <1>7, <1>8
  <2> QED
    BY <2>1, <1>1, <1>8 DEF JobLeaves, r, st
<1>9. CASE o.kind = "unknown"
  <2>1. r = made
    BY <1>7, <1>9
  <2> QED
    BY <2>1, <1>6, <1>9 DEF JobLeaves, r, st
<1>10. CASE o.kind = "rejected"
  <2>1. r = [made EXCEPT !.blocked = TRUE]
    BY <1>7, <1>10
  <2>2. Cleared(r, st) /\ Made(r, st, o.started) /\ r.reqAt = st.reqAt /\ r.fails = st.fails
    BY <2>1, <1>6 DEF RecordType, Cleared, Made
  <2>3. r.blocked
    BY <2>1, <1>6 DEF RecordType
  <2> QED
    BY <2>2, <2>3, <1>10 DEF JobLeaves, r, st
<1>11. CASE o.kind = "unconfirmed"
  <2>1. r = countFailure(made, MaxUnconfirmed) /\ MaxUnconfirmed \in Nat
    BY <1>7, <1>11, Bounds
  <2>2. /\ r \in RecordType /\ Failed(r, made, MaxUnconfirmed)
        /\ r.marker = made.marker /\ r.by = made.by /\ r.reqAt = made.reqAt /\ r.fp = made.fp
        /\ r.day = made.day /\ r.count = made.count /\ r.served = made.served
    <3>1. made \in RecordType
      BY <1>6
    <3> QED
      BY <2>1, <3>1, FailedIs
  <2>3. Cleared(r, st) /\ Made(r, st, o.started) /\ r.reqAt = st.reqAt
    BY <2>2, <1>6 DEF Cleared, Made
  <2>4. Failed(r, st, MaxUnconfirmed)
    BY <2>2, <1>6 DEF Failed
  <2> QED
    BY <2>3, <2>4, <1>11 DEF JobLeaves, r, st
<1>12. CASE o.kind = "success"
  <2>1. r = [made EXCEPT !.fails = 0]
    BY <1>7, <1>12
  <2>2. Cleared(r, st) /\ Made(r, st, o.started) /\ r.reqAt = st.reqAt /\ r.fails = 0
    BY <2>1, <1>6 DEF RecordType, Cleared, Made
  <2>3. r.blocked = st.blocked
    BY <2>1, <1>6 DEF RecordType
  <2> QED
    BY <2>2, <2>3, <1>12 DEF JobLeaves, r, st
<1> QED
  BY <1>8, <1>9, <1>10, <1>11, <1>12

-----------------------------------------------------------------------------
(* Types and Running, action by action. *)

LEMMA SaneKept ==
  ASSUME NEW n, NEW p, Sane(n, p), UNCHANGED <<dep, clock>>
  PROVE  Sane(n, p)'
<1>1. n \in OpType /\ Timely(n, p) /\ Ended(n, p) /\ (p = "broker" => Honest(n))
  BY DEF Sane
<1>2. Timely(n, p)'
  BY <1>1 DEF Timely, Past
<1>3. \A t, st, sat : gate(t, st, sat)' = gate(t, st, sat)
  BY DEF gate
<1>4. p = "broker" => Honest(n)'
  BY <1>1, <1>3 DEF Honest
<1>5. Ended(n, p)'
  BY <1>1 DEF Ended
<1> QED
  BY <1>1, <1>2, <1>4, <1>5 DEF Sane

LEMMA Move ==
  ASSUME Types, Running, NEW p \in Workloads, NEW n, Sane(n, p), op' = [op EXCEPT ![p] = n],
         UNCHANGED <<dep, clock, rec>>, RestTyped'
  PROVE  Types' /\ Running' /\ op'[p] = n /\ \A q \in Workloads : q # p => op'[q] = op[q]
<1>1. n \in OpType /\ op \in [Workloads -> OpType]
  BY DEF Sane, Types
<1>2. op'[p] = n /\ \A q \in Workloads : q # p => op'[q] = op[q]
  BY <1>1
<1>3. Types'
  BY <1>1 DEF Types
<1>4. ASSUME NEW q \in Workloads
      PROVE  Sane(op[q], q)' 
  <2>1. PICK m : m = op'[q]
    OBVIOUS
  <2>2. Sane(m, q)
    BY <2>1, <1>2 DEF Running
  <2>3. Sane(m, q)'
    BY <2>2, SaneKept
  <2> QED
    BY <2>1, <2>3
<1>5. Past(rec)'
  BY DEF Running, Past
<1> QED
  BY <1>2, <1>3, <1>4, <1>5 DEF Running

LEMMA UncurSane ==
  ASSUME NEW q \in Workloads, NEW o, Sane(o, q), NEW n, n = [o EXCEPT !.cur = FALSE]
  PROVE  Sane(n, q) /\ Flagged(n, o) /\ ~n.cur
<1>1. o \in OpType
  BY DEF Sane
<1>2. n \in OpType /\ n.cur = FALSE /\ n.tries = o.tries /\ n.unsure = o.unsure
  BY <1>1 DEF OpType
<1>3. n = [o EXCEPT !.cur = FALSE, !.tries = o.tries, !.unsure = o.unsure]
  BY <1>1 DEF OpType
<1>4. Flagged(n, o) /\ ~n.cur
  BY <1>2, <1>3 DEF Flagged
<1>5. Sane(n, q)
  BY <1>4, FlaggedSane
<1> QED
  BY <1>4, <1>5

LEMMA Overtake ==
  ASSUME Types, Running, NEW p \in Workloads, NEW n, Sane(n, p), op' = Overtaking(p, n),
         UNCHANGED <<dep, clock>>, rec' \in RecordType, Past(rec'), RestTyped'
  PROVE  /\ Types' /\ Running' /\ op'[p] = n
         /\ \A q \in Workloads : q # p => Flagged(op'[q], op[q]) /\ ~op'[q].cur
<1>1. n \in OpType /\ op \in [Workloads -> OpType]
  BY DEF Sane, Types
<1>2. op'[p] = n /\ \A q \in Workloads : q # p => op'[q] = [op[q] EXCEPT !.cur = FALSE]
  BY <1>1 DEF Overtaking
<1>3. \A q \in Workloads : q # p => Sane(op'[q], q) /\ Flagged(op'[q], op[q]) /\ ~op'[q].cur
  <2> SUFFICES ASSUME NEW q \in Workloads, q # p
               PROVE  Sane(op'[q], q) /\ Flagged(op'[q], op[q]) /\ ~op'[q].cur
    OBVIOUS
  <2>1. PICK o, m : o = op[q] /\ m = op'[q]
    OBVIOUS
  <2>2. Sane(o, q) /\ m = [o EXCEPT !.cur = FALSE]
    BY <1>2, <2>1 DEF Running
  <2>3. Sane(m, q) /\ Flagged(m, o) /\ ~m.cur
    BY <2>2, UncurSane
  <2> QED
    BY <2>1, <2>3
<1>4. ASSUME NEW q \in Workloads
      PROVE  Sane(op[q], q)' /\ op'[q] \in OpType
  <2>1. PICK m : m = op'[q]
    OBVIOUS
  <2>2. Sane(m, q)
    BY <2>1, <1>2, <1>3
  <2>3. Sane(m, q)'
    BY <2>2, SaneKept
  <2> QED
    BY <2>1, <2>2, <2>3 DEF Sane
<1>5. op' \in [Workloads -> OpType]
  <2>1. op' = [q \in Workloads |-> op'[q]]
    BY DEF Overtaking
  <2> QED
    BY <1>4, <2>1
<1>6. Types'
  BY <1>5 DEF Types
<1>7. Past(rec)'
  BY DEF Past
<1> QED
  BY <1>2, <1>3, <1>4, <1>6, <1>7 DEF Running

LEMMA ReadFailsIs ==
  ASSUME Types, NEW p, ReadFails(p)
  PROVE  hist' \in HistType /\ hist' = [hist EXCEPT !.faults = hist'.faults]
<1>1. hist \in HistType
  BY DEF Types, RestTyped
<1>2. CASE hist' = [hist EXCEPT !.faults = @ + 1]
  BY <1>1, <1>2 DEF HistType
<1>3. CASE UNCHANGED hist
  BY <1>1, <1>3 DEF HistType
<1> QED
  BY <1>2, <1>3 DEF ReadFails

\* The workload at work.
LEMMA Underway ==
  ASSUME Types, Running, NEW p \in Workloads, op[p].pc # "idle"
  PROVE  /\ op[p] \in OpType /\ Ongoing(op[p], p) /\ Past(op[p].st) /\ Ended(op[p], p)
         /\ op[p].st \in RecordType /\ rec \in RecordType /\ Past(rec)
         /\ op[p].pc \in Begun => /\ op[p].started \in 0 .. MaxClock
                                  /\ op[p].t0 <= op[p].started /\ op[p].started <= clock
<1>1. Sane(op[p], p) /\ op[p] \in OpType /\ Past(rec) /\ rec \in RecordType
  BY DEF Running, Types
<1>2. Timely(op[p], p)
  BY <1>1 DEF Sane
<1>3. Ongoing(op[p], p) /\ Past(op[p].st)
  BY <1>1, <1>2 DEF Timely, Ongoing
<1>4. op[p].pc \in Begun => /\ op[p].started \in 0 .. MaxClock
                            /\ op[p].t0 <= op[p].started /\ op[p].started <= clock
  <2>1. op[p].t0 \in 0 .. MaxClock /\ op[p].started \in Times
    BY <1>1 DEF OpType
  <2> QED
    BY <1>2, <2>1, Bounds DEF Timely, Times, None
<1> QED
  BY <1>1, <1>3, <1>4 DEF OpType, Sane

LEMMA StepSane ==
  ASSUME NEW p \in Workloads, NEW n \in OpType, Ongoing(n, p), Past(n.st),
         n.pc \notin {"login", "answer"}, Ended(n, p),
         n.pc \in Begun => n.t0 <= n.started /\ n.started <= clock
  PROVE  Sane(n, p)
<1>1. Timely(n, p)
  BY DEF Timely, Ongoing
<1>2. Honest(n)
  BY DEF Honest
<1> QED
  BY <1>1, <1>2 DEF Sane

\* An attempt that has ended without a call of the portal under way.
LEMMA EndingSane ==
  ASSUME NEW n \in OpType, Ongoing(n, "broker"), Past(n.st), n.pc \in Ending,
         n.t0 <= n.started, n.started <= clock,
         n.kind \in {"held", "not_submitted", "rejected", "failed", "success"},
         n.kind = "held" => n.out \in Gates
  PROVE  Sane(n, "broker")
<1>1. Ended(n, "broker")
  BY DEF Ended, Ending
<1>2. n.pc \notin {"login", "answer"}
  BY DEF Ending
<1> QED
  BY <1>1, <1>2, StepSane DEF Workloads

-----------------------------------------------------------------------------
(* The steps of the broker, each as what its run becomes. *)

BrGoesTo(n) == Sane(n, "broker") /\ op' = [op EXCEPT !["broker"] = n]

BrOpenTo(n) ==
  \/ n.pc = "answer"
  \/ /\ n.pc = "settle" /\ n.cur /\ n.st = Settled("broker", rec)
     /\ rec.marker # None /\ ~AttemptInProgress(rec)
  \/ /\ n.pc = "read" /\ n.cur /\ n.st = Unlatched(rec)
     /\ rec.marker = None /\ ~(rec.blocked /\ rec.fp = cred)

LEMMA BrOpenIs ==
  ASSUME Types, Running, BrOpen
  PROVE  /\ \E n : BrGoesTo(n) /\ BrOpenTo(n)
         /\ hist' \in HistType /\ hist' = [hist EXCEPT !.faults = hist'.faults]
         /\ op["broker"].pc = "open"
<1> DEFINE b == op["broker"]
<1>1. PICK o : o = [b EXCEPT !.st = rec, !.cur = TRUE]
  OBVIOUS
<1>2. /\ o.pc = "open"
      /\ \/ ReadFails("broker") /\ To("broker", Reply(o, "failed"))
         \/ /\ UNCHANGED hist
            /\ To("broker", CASE AttemptInProgress(rec) -> Defer(o, "login_in_progress")
                          [] ~AttemptInProgress(rec) /\ rec.marker # None ->
                               [o EXCEPT !.pc = "settle", !.st = Settled("broker", rec)]
                          [] OTHER -> BrPastLatch(o))
  BY <1>1 DEF BrOpen
<1>3. b \in OpType
  BY DEF Types, Workloads
<1>4. b.pc = "open"
  BY <1>1, <1>2, <1>3 DEF OpType
<1> HIDE DEF b
<1>5. /\ Ongoing(b, "broker") /\ rec \in RecordType /\ Past(rec)
  BY <1>4, Underway DEF Workloads, b
<1>6. o \in OpType /\ o.st = rec /\ o.cur = TRUE /\ o.t0 = b.t0
  BY <1>1, <1>3, <1>5 DEF OpType
<1>7. Ongoing(o, "broker") /\ Past(o.st)
  BY <1>5, <1>6 DEF Ongoing
<1>8. hist' \in HistType /\ hist' = [hist EXCEPT !.faults = hist'.faults]
  <2>1. CASE ReadFails("broker")
    BY <2>1, ReadFailsIs
  <2>2. CASE UNCHANGED hist
    BY <2>2 DEF Types, RestTyped, HistType
  <2> QED
    BY <1>2, <2>1, <2>2
<1>9. \E n : BrGoesTo(n) /\ BrOpenTo(n)
  <2>1. CASE To("broker", Reply(o, "failed"))
    <3>1. PICK n : n = Reply(o, "failed")
      OBVIOUS
    <3>2. Sane(n, "broker") /\ n.pc = "answer"
      BY <3>1, <1>6, <1>7, ReplySane, ReplyIs DEF Words
    <3> QED
      BY <2>1, <3>1, <3>2 DEF To, BrGoesTo, BrOpenTo
  <2>2. CASE AttemptInProgress(rec) /\ To("broker", Defer(o, "login_in_progress"))
    <3>1. PICK n : n = Defer(o, "login_in_progress")
      OBVIOUS
    <3>2. Sane(n, "broker") /\ n.pc = "answer"
      BY <3>1, <1>6, <1>7, DeferIs DEF Words
    <3> QED
      BY <2>2, <3>1, <3>2 DEF To, BrGoesTo, BrOpenTo
  <2>3. CASE /\ ~AttemptInProgress(rec) /\ rec.marker # None
             /\ To("broker", [o EXCEPT !.pc = "settle", !.st = Settled("broker", rec)])
    <3>1. PICK s : s = Settled("broker", rec)
      OBVIOUS
    <3>2. s \in RecordType /\ s.marker = None /\ s.reqAt = rec.marker /\ s.day = Day(rec.marker)
      BY <3>1, <2>3, <1>5, Numbers, SettledIs DEF Workloads
    <3>3. Past(s)
      <4>1. rec.marker \in Nat /\ rec.marker <= clock
        BY <1>5, <2>3 DEF Past, RecordType, Times, None
      <4>2. Day(rec.marker) <= Day(clock)
        BY <4>1, DayGrows, Numbers
      <4> QED
        BY <3>2, <4>1, <4>2, EmptyTypes, Numbers DEF Past
    <3>4. PICK n : n = [o EXCEPT !.pc = "settle", !.st = s]
      OBVIOUS
    <3>5. n \in OpType /\ n.pc = "settle" /\ n.st = s /\ n.t0 = o.t0 /\ n.cur = o.cur
      BY <3>2, <3>4, <1>6 DEF OpType, Steps
    <3>6. Sane(n, "broker")
      BY <3>3, <3>5, <1>7, EarlySane DEF Workloads, Ongoing
    <3>7. op' = [op EXCEPT !["broker"] = n]
      BY <3>1, <3>4, <2>3 DEF To
    <3> QED
      BY <2>3, <3>1, <3>5, <3>6, <3>7, <1>6 DEF BrGoesTo, BrOpenTo
  <2>4. CASE /\ rec.marker = None /\ To("broker", BrPastLatch(o))
    <3>1. PICK n : n = BrPastLatch(o)
      OBVIOUS
    <3>2. /\ Sane(n, "broker")
          /\ \/ n.pc = "answer"
             \/ ~(rec.blocked /\ rec.fp = cred) /\ n = [o EXCEPT !.pc = "read", !.st = Unlatched(o.st)]
      BY <3>1, <1>6, <1>7, BrPastLatchIs
    <3>3. PICK u : u = Unlatched(o.st)
      OBVIOUS
    <3>4. \/ n.pc = "answer"
          \/ ~(rec.blocked /\ rec.fp = cred) /\ n.pc = "read" /\ n.st = u /\ n.cur
      BY <3>2, <3>3, <1>6 DEF OpType
    <3>5. BrOpenTo(n)
      BY <2>4, <3>3, <3>4, <1>6 DEF BrOpenTo
    <3> QED
      BY <2>4, <3>1, <3>2, <3>5 DEF To, BrGoesTo
  <2> QED
    <3>1. CASE ReadFails("broker") /\ To("broker", Reply(o, "failed"))
      BY <2>1, <3>1
    <3>2. CASE To("broker", CASE AttemptInProgress(rec) -> Defer(o, "login_in_progress")
                          [] ~AttemptInProgress(rec) /\ rec.marker # None ->
                               [o EXCEPT !.pc = "settle", !.st = Settled("broker", rec)]
                          [] OTHER -> BrPastLatch(o))
      <4>1. CASE AttemptInProgress(rec)
        BY <2>2, <3>2, <4>1
      <4>2. CASE ~AttemptInProgress(rec) /\ rec.marker # None
        BY <2>3, <3>2, <4>2
      <4>3. CASE ~AttemptInProgress(rec) /\ rec.marker = None
        BY <2>4, <3>2, <4>3
      <4> QED
        BY <4>1, <4>2, <4>3
    <3> QED
      BY <1>2, <3>1, <3>2
<1> QED
  BY <1>4, <1>8, <1>9 DEF b

\* Past the latch, or stopped by it.
BrPast(m, o) ==
  \/ m.pc = "answer"
  \/ m.pc = "read" /\ m.st = Unlatched(o.st) /\ ~(o.st.blocked /\ o.st.fp = cred)

BrSettleTo(n, ok, cas, down) ==
  LET o == op["broker"] IN
  /\ WriteGoes("broker", n, o.st, ok, cas, down)
  /\ Sane(ok, "broker") /\ Sane(cas, "broker") /\ Sane(down, "broker")
  /\ BrPast(ok, o) /\ cas.pc = "answer" /\ down.pc = "answer"

LEMMA BrSettleIs ==
  ASSUME Types, Running, BrSettle
  PROVE  /\ \E n, ok, cas, down : BrSettleTo(n, ok, cas, down)
         /\ hist'.faults \in Nat /\ hist' = [hist EXCEPT !.faults = hist'.faults]
         /\ op["broker"].pc = "settle"
<1>1. PICK o : o = op["broker"]
  OBVIOUS
<1>2. /\ o.pc = "settle"
      /\ WriteStateOnce("broker", o.st, BrPastLatch(o), Defer(o, "state_conflict"), Reply(o, "failed"))
      /\ UNCHANGED <<dep, clock>>
  BY <1>1 DEF BrSettle
<1>3. o \in OpType /\ Ongoing(o, "broker") /\ Past(o.st) /\ o.st \in RecordType
  BY <1>1, <1>2, Underway DEF Workloads
<1>4. PICK ok, cas, down :
        ok = BrPastLatch(o) /\ cas = Defer(o, "state_conflict") /\ down = Reply(o, "failed")
  OBVIOUS
<1>5. Sane(ok, "broker") /\ BrPast(ok, o)
  <2>1. /\ Sane(ok, "broker")
        /\ \/ ok.pc = "answer"
           \/ ~(o.st.blocked /\ o.st.fp = cred) /\ ok = [o EXCEPT !.pc = "read", !.st = Unlatched(o.st)]
    BY <1>3, <1>4, BrPastLatchIs
  <2>2. PICK u : u = Unlatched(o.st)
    OBVIOUS
  <2> QED
    BY <2>1, <2>2, <1>3 DEF BrPast, OpType
<1>6. Sane(cas, "broker") /\ cas.pc = "answer"
  BY <1>3, <1>4, DeferIs DEF Words
<1>7. Sane(down, "broker") /\ down.pc = "answer"
  BY <1>3, <1>4, ReplySane, ReplyIs DEF Words
<1>8. WriteStateOnce("broker", o.st, ok, cas, down)
  BY <1>2, <1>4
<1>9. /\ hist'.faults \in Nat /\ hist' = [hist EXCEPT !.faults = hist'.faults]
      /\ \E n : WriteGoes("broker", n, o.st, ok, cas, down)
  BY <1>2, <1>3, <1>5, <1>6, <1>7, <1>8, Written DEF Workloads
<1> QED
  BY <1>1, <1>2, <1>5, <1>6, <1>7, <1>9 DEF BrSettleTo

BrReadTo(n) ==
  LET o == op["broker"] IN
  \/ n.pc = "answer"
  \/ /\ n.pc \in {"gate", "probe", "save"} /\ n.st = o.st /\ n.cur = o.cur
     /\ n.kind = "rewrite" \/ n.pc = "save" => n.sid = unsaved.id /\ n.sid # NoSession

LEMMA BrReadIs ==
  ASSUME Types, Running, BrRead
  PROVE  /\ \E n : BrGoesTo(n) /\ BrReadTo(n)
         /\ hist' \in HistType /\ hist' = [hist EXCEPT !.faults = hist'.faults]
         /\ op["broker"].pc = "read"
<1>1. PICK o : o = op["broker"]
  OBVIOUS
<1>2. PICK mine \in BOOLEAN :
        mine <=> unsaved.id # NoSession /\ (sess.id = NoSession \/ unsaved.at > sess.at)
  BY Zenon
<1>3. PICK src : src = IF mine THEN unsaved ELSE sess
  OBVIOUS
<1>4. PICK k : k = IF mine THEN "rewrite" ELSE "keep"
  OBVIOUS
<1>5. PICK got : got = [o EXCEPT !.sid = src.id, !.sat = src.at, !.scur = TRUE, !.kind = k]
  OBVIOUS
<1>6. PICK current : current = IF mine THEN [got EXCEPT !.pc = "save", !.out = "current"]
                               ELSE Reply(got, "current")
  OBVIOUS
<1>7. /\ o.pc = "read"
      /\ \/ ReadFails("broker") /\ To("broker", Reply(o, "failed"))
         \/ /\ UNCHANGED hist
            /\ \/ To("broker", [got EXCEPT !.pc = "gate"])
               \/ To("broker", current)
               \/ To("broker", [got EXCEPT !.pc = "probe"])
  <2>1. CASE mine
    BY <1>1, <1>2, <1>3, <1>4, <1>5, <1>6, <2>1 DEF BrRead
  <2>2. CASE ~mine
    BY <1>1, <1>2, <1>3, <1>4, <1>5, <1>6, <2>2 DEF BrRead
  <2> QED
    BY <2>1, <2>2
<1>8. o \in OpType /\ Ongoing(o, "broker") /\ Past(o.st) /\ o.st \in RecordType
  BY <1>1, <1>7, Underway DEF Workloads
<1>9. src \in [id : Ids, at : Times] /\ k \in Words
  BY <1>3, <1>4 DEF Types, RestTyped, Words
<1>10. /\ got \in OpType /\ got.sid = src.id /\ got.st = o.st /\ got.cur = o.cur /\ got.t0 = o.t0
       /\ got.kind = k
  BY <1>5, <1>8, <1>9 DEF OpType
<1>11. Ongoing(got, "broker") /\ Past(got.st)
  BY <1>8, <1>10 DEF Ongoing
<1>12. hist' \in HistType /\ hist' = [hist EXCEPT !.faults = hist'.faults]
  <2>1. CASE ReadFails("broker")
    BY <2>1, ReadFailsIs
  <2>2. CASE UNCHANGED hist
    BY <2>2 DEF Types, RestTyped, HistType
  <2> QED
    BY <1>7, <2>1, <2>2
<1>13. got.kind = "rewrite" => mine /\ got.sid = unsaved.id /\ got.sid # NoSession
  BY <1>2, <1>3, <1>4, <1>10
<1>14. ASSUME NEW pc \in {"gate", "probe", "save"}, NEW out \in Words,
              pc = "save" => mine,
              To("broker", [got EXCEPT !.pc = pc, !.out = out])
       PROVE  \E n : BrGoesTo(n) /\ BrReadTo(n)
  <2>1. PICK n : n = [got EXCEPT !.pc = pc, !.out = out]
    OBVIOUS
  <2>2. /\ n \in OpType /\ n.pc = pc /\ n.st = got.st /\ n.cur = got.cur /\ n.t0 = got.t0
        /\ n.kind = got.kind /\ n.sid = got.sid
    BY <2>1, <1>10 DEF OpType, Steps
  <2>3. Sane(n, "broker")
    BY <2>2, <1>11, EarlySane DEF Workloads, Ongoing
  <2>4. n.pc = "save" => n.sid = unsaved.id /\ n.sid # NoSession
    BY <2>2, <1>2, <1>10, <1>3, <1>14
  <2>5. BrReadTo(n)
    BY <2>2, <2>4, <1>1, <1>10, <1>13 DEF BrReadTo
  <2> QED
    BY <2>1, <2>3, <2>5, <1>14 DEF To, BrGoesTo
<1>15. ASSUME NEW m \in OpType, Ongoing(m, "broker"), NEW out \in Words, To("broker", Reply(m, out))
       PROVE  \E n : BrGoesTo(n) /\ BrReadTo(n)
  <2>1. PICK n : n = Reply(m, out)
    OBVIOUS
  <2>2. Sane(n, "broker") /\ n.pc = "answer"
    BY <2>1, <1>15, ReplySane, ReplyIs
  <2> QED
    BY <2>1, <2>2, <1>15 DEF To, BrGoesTo, BrReadTo
<1>16. \E n : BrGoesTo(n) /\ BrReadTo(n)
  <2>1. CASE To("broker", Reply(o, "failed"))
    BY <2>1, <1>8, <1>15 DEF Words
  <2>2. CASE To("broker", [got EXCEPT !.pc = "gate"])
    <3>1. [got EXCEPT !.pc = "gate"] = [got EXCEPT !.pc = "gate", !.out = got.out] /\ got.out \in Words
      BY <1>10 DEF OpType
    <3> QED
      BY <2>2, <3>1, <1>14
  <2>3. CASE To("broker", [got EXCEPT !.pc = "probe"])
    <3>1. [got EXCEPT !.pc = "probe"] = [got EXCEPT !.pc = "probe", !.out = got.out] /\ got.out \in Words
      BY <1>10 DEF OpType
    <3> QED
      BY <2>3, <3>1, <1>14
  <2>4. CASE To("broker", current)
    <3>1. CASE mine
      <4>1. To("broker", [got EXCEPT !.pc = "save", !.out = "current"])
        BY <2>4, <3>1, <1>6
      <4> QED
        BY <4>1, <3>1, <1>14 DEF Words
    <3>2. CASE ~mine
      <4>1. To("broker", Reply(got, "current"))
        BY <2>4, <3>2, <1>6
      <4> QED
        BY <4>1, <1>10, <1>11, <1>15 DEF Words
    <3> QED
      BY <3>1, <3>2
  <2> QED
    BY <1>7, <2>1, <2>2, <2>3, <2>4
<1> QED
  BY <1>1, <1>7, <1>12, <1>16

BrProbeTo(n) ==
  LET o == op["broker"] IN
  \/ n.pc = "answer"
  \/ n.pc = "gate" /\ n.st = o.st /\ n.cur = o.cur
  \/ n.pc = "save" /\ o.kind = "rewrite" /\ n.sid = o.sid

LEMMA BrProbeIs ==
  ASSUME Types, Running, BrProbe
  PROVE  (\E n : BrGoesTo(n) /\ BrProbeTo(n)) /\ op["broker"].pc = "probe"
<1>1. PICK o : o = op["broker"]
  OBVIOUS
<1>2. /\ o.pc = "probe"
      /\ \/ To("broker", [o EXCEPT !.pc = "gate"])
         \/ To("broker", Reply(o, "inconclusive"))
         \/ o.kind = "rewrite" /\ To("broker", [o EXCEPT !.pc = "save", !.out = "current"])
         \/ To("broker", Reply(o, "current"))
  BY <1>1 DEF BrProbe
<1>3. o \in OpType /\ Ongoing(o, "broker") /\ Past(o.st) /\ o.st \in RecordType
  BY <1>1, <1>2, Underway DEF Workloads
<1>4. ASSUME NEW out \in Words, To("broker", Reply(o, out))
      PROVE  \E n : BrGoesTo(n) /\ BrProbeTo(n)
  <2>1. PICK n : n = Reply(o, out)
    OBVIOUS
  <2>2. Sane(n, "broker") /\ n.pc = "answer"
    BY <2>1, <1>3, ReplySane, ReplyIs
  <2> QED
    BY <2>1, <2>2, <1>4 DEF To, BrGoesTo, BrProbeTo
<1>5. CASE To("broker", [o EXCEPT !.pc = "gate"])
  <2>1. PICK n : n = [o EXCEPT !.pc = "gate"]
    OBVIOUS
  <2>2. n \in OpType /\ n.pc = "gate" /\ n.st = o.st /\ n.cur = o.cur /\ n.t0 = o.t0
    BY <2>1, <1>3 DEF OpType, Steps
  <2>3. Sane(n, "broker")
    BY <2>2, <1>3, EarlySane DEF Workloads, Ongoing
  <2>4. BrProbeTo(n)
    BY <2>2, <1>1, <1>5 DEF BrProbeTo
  <2> QED
    BY <2>1, <2>3, <2>4, <1>1, <1>2, <1>5 DEF To, BrGoesTo
<1>6. CASE o.kind = "rewrite" /\ To("broker", [o EXCEPT !.pc = "save", !.out = "current"])
  <2>1. PICK n : n = [o EXCEPT !.pc = "save", !.out = "current"]
    OBVIOUS
  <2>2. n \in OpType /\ n.pc = "save" /\ n.st = o.st /\ n.sid = o.sid /\ n.t0 = o.t0
    BY <2>1, <1>3 DEF OpType, Steps, Words
  <2>3. Sane(n, "broker")
    BY <2>2, <1>3, EarlySane DEF Workloads, Ongoing
  <2>4. BrProbeTo(n)
    BY <2>2, <1>1, <1>6 DEF BrProbeTo
  <2> QED
    BY <2>1, <2>3, <2>4, <1>1, <1>2, <1>6 DEF To, BrGoesTo
<1> QED
  BY <1>1, <1>2, <1>4, <1>5, <1>6 DEF Words

\* Marked: a login is due, and the record of it is to be written.
BrGateTo(n) ==
  LET o == op["broker"] IN
  \/ n.pc = "answer"
  \/ /\ n.pc = "mark" /\ gate(clock, o.st, o.sat) = "open"
     /\ n.started = clock /\ n.cur = o.cur
     /\ n.st = [o.st EXCEPT !.fp = cred, !.marker = clock, !.by = "broker"]

LEMMA BrGateIs ==
  ASSUME Types, Running, BrGate
  PROVE  /\ \E n : BrGoesTo(n) /\ BrGateTo(n)
         /\ hist' \in HistType /\ hist' = [hist EXCEPT !.faults = hist'.faults]
         /\ op["broker"].pc = "gate"
<1>1. PICK o : o = op["broker"]
  OBVIOUS
<1>2. PICK code : code = gate(clock, o.st, o.sat)
  OBVIOUS
<1>3. PICK st : st = [o.st EXCEPT !.fp = cred, !.marker = clock, !.by = "broker"]
  OBVIOUS
<1>4. /\ o.pc = "gate"
      /\ \/ code # "open" /\ To("broker", Defer(o, code)) /\ UNCHANGED hist
         \/ hist' = [hist EXCEPT !.faults = @ + 1] /\ To("broker", Reply(o, "failed"))
         \/ /\ code = "open" /\ UNCHANGED hist
            /\ To("broker", [o EXCEPT !.pc = "mark", !.started = clock,
                                      !.st.fp = cred, !.st.marker = clock, !.st.by = "broker"])
  BY <1>1, <1>2 DEF BrGate
<1>5. o \in OpType /\ Ongoing(o, "broker") /\ Past(o.st) /\ o.st \in RecordType
  BY <1>1, <1>4, Underway DEF Workloads
<1>6. CASE code # "open" /\ To("broker", Defer(o, code)) /\ UNCHANGED hist
  <2>1. PICK n : n = Defer(o, code)
    OBVIOUS
  <2>2. code \in Words
    BY <1>2, GateIs DEF Gates, Words
  <2>3. Sane(n, "broker") /\ n.pc = "answer"
    BY <2>1, <2>2, <1>5, DeferIs
  <2>4. hist' \in HistType /\ hist' = [hist EXCEPT !.faults = hist'.faults]
    BY <1>6 DEF Types, RestTyped, HistType
  <2> QED
    BY <2>1, <2>3, <2>4, <1>1, <1>4, <1>6 DEF To, BrGoesTo, BrGateTo
<1>7. CASE hist' = [hist EXCEPT !.faults = @ + 1] /\ To("broker", Reply(o, "failed"))
  <2>1. PICK n : n = Reply(o, "failed")
    OBVIOUS
  <2>2. Sane(n, "broker") /\ n.pc = "answer"
    BY <2>1, <1>5, ReplySane, ReplyIs DEF Words
  <2>3. hist' \in HistType /\ hist' = [hist EXCEPT !.faults = hist'.faults]
    BY <1>7 DEF Types, RestTyped, HistType
  <2> QED
    BY <2>1, <2>2, <2>3, <1>1, <1>4, <1>7 DEF To, BrGoesTo, BrGateTo
<1>8. CASE /\ code = "open" /\ UNCHANGED hist
           /\ To("broker", [o EXCEPT !.pc = "mark", !.started = clock,
                                      !.st.fp = cred, !.st.marker = clock, !.st.by = "broker"])
  <2>1. PICK n : n = [o EXCEPT !.pc = "mark", !.started = clock, !.st = st]
    OBVIOUS
  <2>2. st \in RecordType /\ Past(st)
    <3>1. clock \in Times /\ cred \in Creds /\ "broker" \in Workloads
      BY Numbers DEF Workloads
    <3>2. /\ st \in RecordType /\ st.marker = clock /\ st.reqAt = o.st.reqAt /\ st.day = o.st.day
      BY <1>3, <1>5, <3>1 DEF RecordType
    <3> QED
      BY <3>2, <1>5, Numbers DEF Past
  <2>3. /\ n \in OpType /\ n.pc = "mark" /\ n.st = st /\ n.cur = o.cur /\ n.t0 = o.t0
        /\ n.started = clock
    BY <2>1, <2>2, <1>5, Numbers DEF OpType, Steps
  <2>4. Sane(n, "broker")
    <3>1. Ongoing(n, "broker") /\ n.t0 <= n.started /\ n.started <= clock
      BY <2>3, <1>5, Numbers DEF Ongoing
    <3>2. Ended(n, "broker")
      BY <2>3 DEF Ended, Ending
    <3> QED
      BY <2>2, <2>3, <3>1, <3>2, StepSane DEF Workloads
  <2>5. [o EXCEPT !.pc = "mark", !.started = clock,
                  !.st.fp = cred, !.st.marker = clock, !.st.by = "broker"] = n
    BY <2>1, <1>3, <1>5 DEF OpType
  <2>6. hist' \in HistType /\ hist' = [hist EXCEPT !.faults = hist'.faults]
    BY <1>8 DEF Types, RestTyped, HistType
  <2>7. BrGateTo(n)
    BY <2>3, <1>1, <1>2, <1>3, <1>8 DEF BrGateTo
  <2> QED
    BY <2>4, <2>5, <2>6, <2>7, <1>1, <1>4, <1>8 DEF To, BrGoesTo
<1> QED
  BY <1>4, <1>6, <1>7, <1>8

BrMarkTo(n, ok, cas, down) ==
  LET o == op["broker"] IN
  /\ WriteGoes("broker", n, o.st, ok, cas, down)
  /\ Sane(ok, "broker") /\ Sane(cas, "broker") /\ Sane(down, "broker")
  /\ ok.pc = "attempt" /\ ok.st = o.st /\ ok.started = o.started
  /\ cas.pc = "answer" /\ down.pc = "answer"

LEMMA BrMarkIs ==
  ASSUME Types, Running, BrMark
  PROVE  /\ \E n, ok, cas, down : BrMarkTo(n, ok, cas, down)
         /\ hist'.faults \in Nat /\ hist' = [hist EXCEPT !.faults = hist'.faults]
         /\ op["broker"].pc = "mark"
<1>1. PICK o : o = op["broker"]
  OBVIOUS
<1>2. /\ o.pc = "mark"
      /\ WriteStateOnce("broker", o.st, [o EXCEPT !.pc = "attempt"],
                        Defer(o, "state_conflict"), Reply(o, "failed"))
      /\ UNCHANGED <<dep, clock>>
  BY <1>1 DEF BrMark
<1>3. /\ o \in OpType /\ Ongoing(o, "broker") /\ Past(o.st) /\ o.st \in RecordType
      /\ o.t0 <= o.started /\ o.started <= clock
  BY <1>1, <1>2, Underway DEF Workloads, Begun
<1>4. PICK ok, cas, down :
        /\ ok = [o EXCEPT !.pc = "attempt"] /\ cas = Defer(o, "state_conflict")
        /\ down = Reply(o, "failed")
  OBVIOUS
<1>5. Sane(ok, "broker") /\ ok.pc = "attempt" /\ ok.st = o.st /\ ok.started = o.started
  <2>1. ok \in OpType /\ ok.pc = "attempt" /\ ok.st = o.st /\ ok.t0 = o.t0 /\ ok.started = o.started
    BY <1>3, <1>4 DEF OpType, Steps
  <2>2. Ongoing(ok, "broker") /\ Ended(ok, "broker")
    BY <2>1, <1>3 DEF Ongoing, Ended, Ending
  <2> QED
    BY <2>1, <2>2, <1>3, StepSane DEF Workloads
<1>6. Sane(cas, "broker") /\ cas.pc = "answer"
  BY <1>3, <1>4, DeferIs DEF Words
<1>7. Sane(down, "broker") /\ down.pc = "answer"
  BY <1>3, <1>4, ReplySane, ReplyIs DEF Words
<1>8. WriteStateOnce("broker", o.st, ok, cas, down)
  BY <1>2, <1>4
<1>9. /\ hist'.faults \in Nat /\ hist' = [hist EXCEPT !.faults = hist'.faults]
      /\ \E n : WriteGoes("broker", n, o.st, ok, cas, down)
  BY <1>2, <1>3, <1>5, <1>6, <1>7, <1>8, Written DEF Workloads
<1> QED
  BY <1>1, <1>2, <1>5, <1>6, <1>7, <1>9 DEF BrMarkTo

\* The login begins, or the attempt is over before it.
BrAttemptTo(n) ==
  LET o == op["broker"] IN
  /\ n.st = o.st /\ n.cur = o.cur /\ n.started = o.started
  /\ \/ n.pc = "login" /\ n.lt = clock /\ gate(clock, o.st, o.sat) = "open"
     \/ n.pc = "commit" /\ n.kind \in {"held", "not_submitted"}

LEMMA BrAttemptIs ==
  ASSUME Types, Running, BrAttempt
  PROVE  (\E n : BrGoesTo(n) /\ BrAttemptTo(n)) /\ op["broker"].pc = "attempt"
<1>1. PICK o : o = op["broker"]
  OBVIOUS
<1>2. PICK code : code = gate(clock, o.st, o.sat)
  OBVIOUS
<1>3. PICK kind, out, retry :
        /\ kind = IF o.again THEN "not_submitted" ELSE "held"
        /\ out = IF o.again THEN "failed" ELSE code
        /\ retry = clock + Cooldown
  OBVIOUS
<1>4. PICK stop : stop = [o EXCEPT !.pc = "commit", !.kind = kind, !.out = out, !.retry = retry]
  OBVIOUS
<1>5. /\ o.pc = "attempt"
      /\ \/ code = "open" /\ To("broker", [o EXCEPT !.pc = "login", !.lt = clock])
         \/ code # "open" /\ To("broker", stop)
         \/ o.again /\ To("broker", stop)
  BY <1>1, <1>2, <1>3, <1>4 DEF BrAttempt
<1>6. /\ o \in OpType /\ Ongoing(o, "broker") /\ Past(o.st) /\ o.st \in RecordType
      /\ o.t0 <= o.started /\ o.started <= clock
  BY <1>1, <1>5, Underway DEF Workloads, Begun, Inside
<1>7. CASE code = "open" /\ To("broker", [o EXCEPT !.pc = "login", !.lt = clock])
  <2>1. PICK n : n = [o EXCEPT !.pc = "login", !.lt = clock]
    OBVIOUS
  <2>2. /\ n \in OpType /\ n.pc = "login" /\ n.lt = clock /\ n.st = o.st /\ n.cur = o.cur
        /\ n.t0 = o.t0 /\ n.started = o.started
    BY <2>1, <1>6, Numbers DEF OpType, Steps
  <2>3. ~BlocksAt(clock)
    BY <1>2, <1>7, GateRules
  <2>4. Timely(n, "broker")
    BY <2>2, <2>3, <1>6, Numbers, Bounds DEF Timely, Ongoing
  <2>5. Ended(n, "broker") /\ Honest(n)
    BY <2>2 DEF Ended, Ending, Honest
  <2>6. Sane(n, "broker") /\ BrAttemptTo(n)
    BY <2>2, <2>4, <2>5, <1>1, <1>2, <1>7 DEF Sane, BrAttemptTo
  <2> QED
    BY <2>1, <2>6, <1>1, <1>5, <1>7 DEF To, BrGoesTo
<1>8. CASE (o.again \/ code # "open") /\ To("broker", stop)
  <2>1. kind \in {"held", "not_submitted"} /\ (kind = "held" => out \in Gates)
    BY <1>2, <1>3, <1>8, GateIs
  <2>2. out \in Words /\ kind \in Words /\ retry \in Int
    <3>1. out \in Words
      BY <1>2, <1>3, GateIs DEF Gates, Words
    <3> QED
      BY <3>1, <2>1, <1>3, Numbers, Bounds DEF Words
  <2>3. /\ stop \in OpType /\ stop.pc = "commit" /\ stop.kind = kind /\ stop.out = out
        /\ stop.st = o.st /\ stop.cur = o.cur /\ stop.t0 = o.t0 /\ stop.started = o.started
    BY <1>4, <1>6, <2>2 DEF OpType, Steps
  <2>4. Sane(stop, "broker")
    BY <2>1, <2>3, <1>6, EndingSane DEF Ongoing, Ending
  <2>5. BrAttemptTo(stop)
    BY <2>1, <2>3, <1>1 DEF BrAttemptTo
  <2> QED
    BY <2>4, <2>5, <1>1, <1>5, <1>8 DEF To, BrGoesTo
<1> QED
  BY <1>5, <1>7, <1>8

-----------------------------------------------------------------------------
(* The broker's login, and its outcome. *)

LEMMA LoginEndsIs ==
  ASSUME NEW e \in LoginEnds
  PROVE  /\ e.says \in {"session", "rejected", "not_submitted", "unknown", "no_session"}
         /\ e.submitted \in BOOLEAN /\ e.began \in BOOLEAN
         /\ e.submitted <=> e.says # "not_submitted"
         /\ e.says = "session" => e.began
         /\ e.says \in {"rejected", "not_submitted"} => ~e.began
<1>1. CASE e \in {[says |-> x, submitted |-> TRUE, began |-> b] :
                    x \in {"unknown", "no_session"}, b \in BOOLEAN}
  <2>1. PICK x \in {"unknown", "no_session"}, b \in BOOLEAN :
          e = [says |-> x, submitted |-> TRUE, began |-> b]
    BY <1>1
  <2>2. e.says = x /\ e.submitted = TRUE /\ e.began = b
    BY <2>1
  <2> QED
    BY <2>2
<1>2. CASE e = [says |-> "session", submitted |-> TRUE, began |-> TRUE]
  BY <1>2
<1>3. CASE e = [says |-> "rejected", submitted |-> TRUE, began |-> FALSE]
  BY <1>3
<1>4. CASE e = [says |-> "not_submitted", submitted |-> FALSE, began |-> FALSE]
  BY <1>4
<1> QED
  BY <1>1, <1>2, <1>3, <1>4 DEF LoginEnds

\* What a submission adds to the history.
Submits(p, e, h) ==
  /\ h \in HistType /\ h.won = hist.won /\ h.faults = hist.faults
  /\ ~e.submitted => h = hist
  /\ e.submitted =>
       /\ h.day = [hist.day EXCEPT ![Day(op[p].started)] = @ + 1]
       /\ h.last = [hist.last EXCEPT ![p] = op[p].started]
       /\ h.misses = IF p = "job" /\ e.says = "unknown" THEN hist.misses ELSE hist.misses + 1

LEMMA SubmittedIs ==
  ASSUME Types, NEW p \in Workloads, NEW e \in LoginEnds, op[p].started \in 0 .. MaxClock
  PROVE  Submits(p, e, Submitted(p, e))
<1>1. hist \in HistType /\ op[p].started \in Times
  BY DEF Types, RestTyped, Times, None
<1>2. CASE ~e.submitted
  BY <1>1, <1>2 DEF Submitted, Submits
<1>3. CASE e.submitted
  <2> DEFINE d == Day(op[p].started)
             m == IF p = "job" /\ e.says = "unknown" THEN hist.misses ELSE hist.misses + 1
             days == [hist.day EXCEPT ![d] = @ + 1]
             last == [hist.last EXCEPT ![p] = op[p].started]
             h == Submitted(p, e)
  <2>1. h = [hist EXCEPT !.day = days, !.last = last, !.misses = m]
    <3>1. h = [hist EXCEPT !.day[Day(op[p].started)] = @ + 1, !.last[p] = op[p].started,
                           !.misses = IF p = "job" /\ e.says = "unknown" THEN @ ELSE @ + 1]
      BY <1>3 DEF Submitted
    <3> QED
      BY <3>1, <1>1 DEF HistType
  <2>2. d \in Days
    BY DayType
  <2>3. days \in [Days -> Nat] /\ last \in [Workloads -> Times] /\ m \in Nat
    BY <1>1, <2>2 DEF HistType
  <2> HIDE DEF h, days, last, m
  <2>4. /\ h \in HistType /\ h.won = hist.won /\ h.faults = hist.faults
        /\ h.day = days /\ h.last = last /\ h.misses = m
    BY <1>1, <2>1, <2>3 DEF HistType
  <2> QED
    BY <2>4, <1>3 DEF Submits, h, days, last, m, d
<1> QED
  BY <1>2, <1>3

BrLoginTo(n, e) ==
  LET o == op["broker"] IN
  /\ n.st = o.st /\ n.cur = o.cur /\ n.started = o.started
  /\ \/ n.pc = "confirm" /\ e.says = "session" /\ n.sid = NewSession
     \/ n.pc = "attempt" /\ ~e.submitted
     \/ /\ n.pc = "commit" /\ n.kind \in {"rejected", "not_submitted", "failed"}
        /\ n.kind = "not_submitted" <=> ~e.submitted

LEMMA BrLoginIs ==
  ASSUME Types, Running, BrLogin
  PROVE  /\ \E e \in LoginEnds, n \in OpType :
               /\ BrGoesTo(n) /\ BrLoginTo(n, e) /\ Submits("broker", e, hist')
               /\ live' = IF e.began THEN NewSession ELSE live
         /\ op["broker"].pc = "login"
<1>1. PICK o : o = op["broker"]
  OBVIOUS
<1>2. PICK sid : sid = NewSession
  OBVIOUS
<1>3. PICK e \in LoginEnds :
        /\ o.pc = "login"
        /\ live' = IF e.began THEN NewSession ELSE live
        /\ hist' = Submitted("broker", e)
        /\ \/ e.says = "session" /\ To("broker", [o EXCEPT !.pc = "confirm", !.sid = sid])
           \/ e.says = "not_submitted" /\ To("broker", [o EXCEPT !.pc = "attempt", !.again = TRUE])
           \/ /\ e.says # "session"
              /\ To("broker", [o EXCEPT !.pc = "commit", !.out = "failed", !.retry = clock + Cooldown,
                                !.kind = IF e.says \in {"rejected", "not_submitted"}
                                           THEN e.says ELSE "failed"])
  BY <1>1, <1>2 DEF BrLogin
<1>4. /\ o \in OpType /\ Ongoing(o, "broker") /\ Past(o.st) /\ o.st \in RecordType
      /\ o.t0 <= o.started /\ o.started <= clock /\ o.started \in 0 .. MaxClock
  BY <1>1, <1>3, Underway DEF Workloads, Begun, Inside
<1>5. Submits("broker", e, hist')
  BY <1>1, <1>3, <1>4, SubmittedIs DEF Workloads
<1>6. sid \in Ids
  BY <1>2, NewSessionIsNew DEF Ids
<1>7. \E n \in OpType : BrGoesTo(n) /\ BrLoginTo(n, e)
  <2>1. CASE e.says = "session" /\ To("broker", [o EXCEPT !.pc = "confirm", !.sid = sid])
    <3>1. PICK n : n = [o EXCEPT !.pc = "confirm", !.sid = sid]
      OBVIOUS
    <3>2. /\ n \in OpType /\ n.pc = "confirm" /\ n.st = o.st /\ n.t0 = o.t0 /\ n.started = o.started
          /\ n.cur = o.cur /\ n.sid = sid
      BY <3>1, <1>4, <1>6 DEF OpType, Steps
    <3>3. Ongoing(n, "broker") /\ Ended(n, "broker")
      BY <3>2, <1>4 DEF Ongoing, Ended, Ending
    <3>4. Sane(n, "broker")
      BY <3>2, <3>3, <1>4, StepSane DEF Workloads
    <3>5. BrLoginTo(n, e)
      BY <3>2, <2>1, <1>1, <1>2 DEF BrLoginTo
    <3> QED
      BY <3>1, <3>2, <3>4, <3>5, <2>1 DEF To, BrGoesTo
  <2>2. CASE e.says = "not_submitted" /\ To("broker", [o EXCEPT !.pc = "attempt", !.again = TRUE])
    <3>1. PICK n : n = [o EXCEPT !.pc = "attempt", !.again = TRUE]
      OBVIOUS
    <3>2. /\ n \in OpType /\ n.pc = "attempt" /\ n.st = o.st /\ n.t0 = o.t0 /\ n.started = o.started
          /\ n.cur = o.cur
      BY <3>1, <1>4 DEF OpType, Steps
    <3>3. Ongoing(n, "broker") /\ Ended(n, "broker")
      BY <3>2, <1>4 DEF Ongoing, Ended, Ending
    <3>4. Sane(n, "broker")
      BY <3>2, <3>3, <1>4, StepSane DEF Workloads
    <3>5. BrLoginTo(n, e)
      BY <3>2, <2>2, <1>1, LoginEndsIs DEF BrLoginTo
    <3> QED
      BY <3>1, <3>2, <3>4, <3>5, <2>2 DEF To, BrGoesTo
  <2>3. CASE /\ e.says # "session"
             /\ To("broker", [o EXCEPT !.pc = "commit", !.out = "failed", !.retry = clock + Cooldown,
                                !.kind = IF e.says \in {"rejected", "not_submitted"}
                                           THEN e.says ELSE "failed"])
    <3>0. PICK kind, retry : /\ kind = IF e.says \in {"rejected", "not_submitted"} THEN e.says ELSE "failed"
                             /\ retry = clock + Cooldown
      OBVIOUS
    <3>1. PICK n : n = [o EXCEPT !.pc = "commit", !.out = "failed", !.retry = retry, !.kind = kind]
      OBVIOUS
    <3>6. /\ kind \in {"rejected", "not_submitted", "failed"} /\ kind \in Words
          /\ kind = "not_submitted" <=> ~e.submitted
          /\ retry \in Int /\ "failed" \in Words
      BY <3>0, LoginEndsIs, Numbers, Bounds DEF Words
    <3>2. /\ n \in OpType /\ n.pc = "commit" /\ n.st = o.st /\ n.t0 = o.t0 /\ n.started = o.started
          /\ n.cur = o.cur /\ n.kind = kind
      BY <3>1, <3>6, <1>4 DEF OpType, Steps
    <3>4. Sane(n, "broker")
      BY <3>2, <3>6, <1>4, EndingSane DEF Ongoing, Ending
    <3>5. BrLoginTo(n, e)
      BY <3>2, <3>6, <1>1 DEF BrLoginTo
    <3>7. op' = [op EXCEPT !["broker"] = n]
      BY <3>0, <3>1, <2>3 DEF To
    <3> QED
      BY <3>2, <3>4, <3>5, <3>7 DEF BrGoesTo
  <2> QED
    BY <1>3, <2>1, <2>2, <2>3
<1> QED
  BY <1>1, <1>3, <1>5, <1>7

BrConfirmTo(n) ==
  LET o == op["broker"] IN
  /\ n.pc = "commit" /\ n.st = o.st /\ n.cur = o.cur /\ n.started = o.started /\ n.sid = o.sid
  /\ \/ n.kind = "success" /\ hist' = [hist EXCEPT !.misses = 0, !.won = o.sid]
     \/ n.kind = "failed" /\ hist' = hist

LEMMA BrConfirmIs ==
  ASSUME Types, Running, BrConfirm
  PROVE  (\E n : BrGoesTo(n) /\ BrConfirmTo(n)) /\ op["broker"].pc = "confirm" /\ hist' \in HistType
<1>1. PICK o : o = op["broker"]
  OBVIOUS
<1>2. PICK kind, out :
        /\ o.pc = "confirm"
        /\ To("broker", [o EXCEPT !.pc = "commit", !.sat = clock, !.kind = kind, !.out = out])
        /\ \/ kind = "success" /\ out = "refreshed" /\ hist' = [hist EXCEPT !.misses = 0, !.won = o.sid]
           \/ kind = "failed" /\ out = "failed" /\ hist' = hist
  <2>1. PICK says \in ProbeSays(o.sid) :
        /\ o.pc = "confirm"
        /\ To("broker", [o EXCEPT !.pc = "commit", !.sat = clock,
                           !.kind = IF says = "alive" THEN "success" ELSE "failed",
                           !.out = IF says = "alive" THEN "refreshed" ELSE "failed"])
        /\ hist' = IF says = "alive" THEN [hist EXCEPT !.misses = 0, !.won = o.sid] ELSE hist
    BY <1>1 DEF BrConfirm
  <2>2. CASE says = "alive"
    BY <2>1, <2>2
  <2>3. CASE says # "alive"
    BY <2>1, <2>3
  <2> QED
    BY <2>2, <2>3
<1>3. /\ o \in OpType /\ Ongoing(o, "broker") /\ Past(o.st) /\ o.st \in RecordType
      /\ o.t0 <= o.started /\ o.started <= clock
  BY <1>1, <1>2, Underway DEF Workloads, Begun, Inside
<1>4. PICK n : n = [o EXCEPT !.pc = "commit", !.sat = clock, !.kind = kind, !.out = out]
  OBVIOUS
<1>5. /\ n \in OpType /\ n.pc = "commit" /\ n.st = o.st /\ n.t0 = o.t0 /\ n.started = o.started
      /\ n.cur = o.cur /\ n.kind = kind /\ n.sid = o.sid
  <2>1. kind \in Words /\ out \in Words /\ clock \in Times
    BY <1>2, Numbers DEF Words
  <2> QED
    BY <2>1, <1>3, <1>4 DEF OpType, Steps
<1>6. Sane(n, "broker")
  BY <1>2, <1>3, <1>5, EndingSane DEF Ongoing, Ending
<1>7. BrConfirmTo(n)
  BY <1>1, <1>2, <1>5 DEF BrConfirmTo
<1>8. hist' \in HistType
  <2>1. hist \in HistType /\ o.sid \in Ids
    BY <1>3 DEF Types, RestTyped, OpType
  <2> QED
    <3>1. CASE hist' = [hist EXCEPT !.misses = 0, !.won = o.sid]
      BY <2>1, <3>1 DEF HistType
    <3>2. CASE hist' = hist
      BY <2>1, <3>2
    <3> QED
      BY <1>2, <3>1, <3>2
<1> QED
  BY <1>1, <1>2, <1>4, <1>6, <1>7, <1>8 DEF To, BrGoesTo

\* Recorded: answered, or the session still to be stored.
BrRecordedTo(m, o) ==
  /\ Sane(m, "broker")
  /\ \/ m.pc = "answer" /\ o.kind # "success"
     \/ m.pc = "save" /\ o.kind = "success" /\ m.sid = o.sid

LEMMA BrRecordedIs ==
  ASSUME Types, NEW o \in OpType, Ongoing(o, "broker"), Past(o.st), o.pc \in Ending,
         Ended(o, "broker"), NEW st
  PROVE  BrRecordedTo(BrRecorded(o, st), o)
<1>1. PICK m : m = BrRecorded(o, st)
  OBVIOUS
<1>0. o.kind \in {"held", "not_submitted", "rejected", "failed", "success"}
      /\ (o.kind = "held" => o.out \in Gates)
  BY DEF Ended
<1>2. CASE o.kind = "success"
  <2>1. m = [o EXCEPT !.pc = "save", !.st = EmptyRecord]
    BY <1>1, <1>2 DEF BrRecorded
  <2>2. m \in OpType /\ m.pc = "save" /\ m.st = EmptyRecord /\ m.sid = o.sid /\ m.t0 = o.t0
    BY <2>1, EmptyTypes DEF OpType, Steps
  <2>3. Past(m.st)
    BY <2>2, EmptyTypes, Numbers DEF Past
  <2>4. Sane(m, "broker")
    BY <2>2, <2>3, EarlySane DEF Workloads, Ongoing
  <2> QED
    BY <1>1, <1>2, <2>2, <2>4 DEF BrRecordedTo
<1>3. CASE o.kind = "held"
  <2>1. m = Defer(o, o.out) /\ o.out \in Words
    BY <1>0, <1>1, <1>3 DEF BrRecorded, OpType
  <2>2. Sane(m, "broker") /\ m.pc = "answer"
    BY <2>1, DeferIs
  <2> QED
    BY <1>1, <1>3, <2>2 DEF BrRecordedTo
<1>4. CASE o.kind # "success" /\ o.kind # "held"
  <2>1. \E out \in Words : m = Reply(o, out)
    <3>1. CASE st.blocked
      BY <1>0, <1>1, <1>4, <3>1 DEF BrRecorded, Words
    <3>2. CASE ~st.blocked
      BY <1>0, <1>1, <1>4, <3>2 DEF BrRecorded, Words
    <3> QED
      BY <3>1, <3>2
  <2>2. Sane(m, "broker") /\ m.pc = "answer"
    BY <2>1, ReplySane, ReplyIs
  <2> QED
    BY <1>1, <1>4, <2>2 DEF BrRecordedTo
<1> QED
  BY <1>2, <1>3, <1>4

BrCommitTo(n, r, ok, cas, down) ==
  LET o == op["broker"] IN
  /\ WriteGoes("broker", n, r, ok, cas, down)
  /\ BrLeaves(r, o, o.st) /\ BrRecordedTo(ok, o) /\ BrRecordedTo(down, o)
  /\ Sane(cas, "broker")
  /\ cas.pc = "reread" /\ cas.sid = o.sid /\ cas.kind = o.kind /\ cas.started = o.started
  /\ cas.cur = o.cur

\* What the broker leaves in a record is not of the future.
LEMMA LeavesPast ==
  ASSUME Types, NEW o, NEW st, NEW r, BrLeaves(r, o, st), st \in RecordType, Past(st),
         o.kind \in {"held", "not_submitted", "rejected", "failed", "success"},
         o.started \in 0 .. MaxClock, o.started <= clock
  PROVE  r \in RecordType /\ Past(r)
<1>1. r \in RecordType /\ r.marker = None
  BY DEF BrLeaves, Cleared
<1>2. Day(o.started) <= Day(clock) /\ Day(o.started) \in Nat /\ clock \in Nat /\ Day(clock) \in Nat
  BY DayGrows, DayType, Numbers
<1>3. CASE o.kind \in {"held", "not_submitted"}
  BY <1>1, <1>2, <1>3, EmptyTypes DEF BrLeaves, Uncounted, Past
<1>4. CASE o.kind \in {"rejected", "failed", "success"}
  BY <1>1, <1>2, <1>4, EmptyTypes DEF BrLeaves, Made, Past
<1> QED
  BY <1>1, <1>3, <1>4

LEMMA BrCommitIs ==
  ASSUME Types, Running, BrCommit
  PROVE  /\ \E n, r, ok, cas, down : BrCommitTo(n, r, ok, cas, down)
         /\ hist'.faults \in Nat /\ hist' = [hist EXCEPT !.faults = hist'.faults]
         /\ op["broker"].pc = "commit"
<1>1. PICK o : o = op["broker"]
  OBVIOUS
<1>2. PICK r : r = BrOutcome(o, o.st)
  OBVIOUS
<1>3. PICK ok, cas, down :
        ok = BrRecorded(o, r) /\ cas = [o EXCEPT !.pc = "reread"] /\ down = BrRecorded(o, r)
  OBVIOUS
<1>4. /\ o.pc = "commit"
      /\ WriteStateOnce("broker", r, ok, cas, down)
      /\ UNCHANGED <<dep, clock>>
  BY <1>1, <1>2, <1>3 DEF BrCommit
<1>5. /\ o \in OpType /\ Ongoing(o, "broker") /\ Past(o.st) /\ o.st \in RecordType
      /\ o.t0 <= o.started /\ o.started <= clock /\ o.started \in 0 .. MaxClock
      /\ Ended(o, "broker") /\ o.pc \in Ending
  BY <1>1, <1>4, Underway DEF Workloads, Begun, Ending
<1>6. o.kind \in {"held", "not_submitted", "rejected", "failed", "success"}
      /\ (o.kind = "held" => o.out \in Gates)
  BY <1>5 DEF Ended
<1>7. BrLeaves(r, o, o.st)
  BY <1>2, <1>5, <1>6, BrOutcomeIs
<1>8. r \in RecordType /\ Past(r)
  BY <1>5, <1>6, <1>7, LeavesPast
<1>9. BrRecordedTo(ok, o) /\ BrRecordedTo(down, o)
  BY <1>3, <1>5, BrRecordedIs
<1>10. /\ Sane(cas, "broker") /\ cas.pc = "reread" /\ cas.sid = o.sid /\ cas.kind = o.kind
       /\ cas.started = o.started /\ cas.cur = o.cur
  <2>1. /\ cas \in OpType /\ cas.pc = "reread" /\ cas.st = o.st /\ cas.t0 = o.t0
        /\ cas.started = o.started
        /\ cas.cur = o.cur /\ cas.kind = o.kind /\ cas.sid = o.sid /\ cas.out = o.out
    BY <1>3, <1>5 DEF OpType, Steps
  <2>2. Sane(cas, "broker")
    BY <2>1, <1>5, <1>6, EndingSane DEF Ongoing, Ending
  <2> QED
    BY <2>1, <2>2
<1>11. /\ hist'.faults \in Nat /\ hist' = [hist EXCEPT !.faults = hist'.faults]
       /\ \E n : WriteGoes("broker", n, r, ok, cas, down)
  BY <1>4, <1>8, <1>9, <1>10, Written DEF Workloads, BrRecordedTo
<1> QED
  BY <1>1, <1>4, <1>7, <1>9, <1>10, <1>11 DEF BrCommitTo

\* The record is as somebody else has left it.
BrRereadTo(n) ==
  LET o == op["broker"] IN
  \/ BrRecordedTo(n, o)
  \/ /\ n.pc = "rewrite" /\ n.st = rec /\ n.cur
     /\ n.sid = o.sid /\ n.kind = o.kind /\ n.started = o.started

LEMMA BrRereadIs ==
  ASSUME Types, Running, BrReread
  PROVE  /\ \E n : BrGoesTo(n) /\ BrRereadTo(n)
         /\ hist' \in HistType /\ hist' = [hist EXCEPT !.faults = hist'.faults]
         /\ op["broker"].pc = "reread"
<1>1. PICK o : o = op["broker"]
  OBVIOUS
<1>2. /\ o.pc = "reread"
      /\ \/ ReadFails("broker") /\ To("broker", BrRecorded(o, BrOutcome(o, o.st)))
         \/ UNCHANGED hist /\ To("broker", [o EXCEPT !.pc = "rewrite", !.st = rec, !.cur = TRUE])
  BY <1>1 DEF BrReread
<1>3. /\ o \in OpType /\ Ongoing(o, "broker") /\ Past(o.st) /\ o.st \in RecordType
      /\ o.t0 <= o.started /\ o.started <= clock /\ o.started \in 0 .. MaxClock
      /\ Ended(o, "broker") /\ o.pc \in Ending /\ rec \in RecordType /\ Past(rec)
  BY <1>1, <1>2, Underway DEF Workloads, Begun, Ending
<1>4. CASE ReadFails("broker") /\ To("broker", BrRecorded(o, BrOutcome(o, o.st)))
  <2>1. PICK n : n = BrRecorded(o, BrOutcome(o, o.st))
    OBVIOUS
  <2>2. PICK r : r = BrOutcome(o, o.st)
    OBVIOUS
  <2>3. BrRecordedTo(n, o)
    BY <2>1, <2>2, <1>3, BrRecordedIs
  <2>4. hist' \in HistType /\ hist' = [hist EXCEPT !.faults = hist'.faults]
    BY <1>4, ReadFailsIs
  <2>5. BrGoesTo(n) /\ BrRereadTo(n)
    BY <2>1, <2>3, <1>1, <1>4 DEF To, BrGoesTo, BrRereadTo, BrRecordedTo
  <2> QED
    BY <2>4, <2>5, <1>1, <1>2
<1>5. CASE UNCHANGED hist /\ To("broker", [o EXCEPT !.pc = "rewrite", !.st = rec, !.cur = TRUE])
  <2>1. PICK n : n = [o EXCEPT !.pc = "rewrite", !.st = rec, !.cur = TRUE]
    OBVIOUS
  <2>2. /\ n \in OpType /\ n.pc = "rewrite" /\ n.st = rec /\ n.t0 = o.t0 /\ n.started = o.started
        /\ n.cur = TRUE /\ n.kind = o.kind /\ n.sid = o.sid /\ n.out = o.out
    BY <2>1, <1>3 DEF OpType, Steps
  <2>3. o.kind \in {"held", "not_submitted", "rejected", "failed", "success"}
        /\ (o.kind = "held" => o.out \in Gates)
    BY <1>3 DEF Ended
  <2>4. Sane(n, "broker")
    BY <2>2, <2>3, <1>3, EndingSane DEF Ongoing, Ending
  <2>5. hist' \in HistType /\ hist' = [hist EXCEPT !.faults = hist'.faults]
    BY <1>5 DEF Types, RestTyped, HistType
  <2>6. BrRereadTo(n)
    BY <2>2, <1>1 DEF BrRereadTo
  <2>7. BrGoesTo(n)
    BY <2>1, <2>4, <1>5 DEF To, BrGoesTo
  <2> QED
    BY <2>5, <2>6, <2>7, <1>1, <1>2
<1> QED
  BY <1>2, <1>4, <1>5

BrRewriteTo(n, r, end) ==
  LET o == op["broker"] IN
  /\ WriteGoes("broker", n, r, end, end, end)
  /\ BrLeaves(r, o, o.st) /\ BrRecordedTo(end, o)

LEMMA BrRewriteIs ==
  ASSUME Types, Running, BrRewrite
  PROVE  /\ \E n, r, end : BrRewriteTo(n, r, end)
         /\ hist'.faults \in Nat /\ hist' = [hist EXCEPT !.faults = hist'.faults]
         /\ op["broker"].pc = "rewrite"
<1>1. PICK o : o = op["broker"]
  OBVIOUS
<1>2. PICK r : r = BrOutcome(o, o.st)
  OBVIOUS
<1>3. PICK end : end = BrRecorded(o, r)
  OBVIOUS
<1>4. /\ o.pc = "rewrite"
      /\ WriteStateOnce("broker", r, end, end, end)
      /\ UNCHANGED <<dep, clock>>
  BY <1>1, <1>2, <1>3 DEF BrRewrite
<1>5. /\ o \in OpType /\ Ongoing(o, "broker") /\ Past(o.st) /\ o.st \in RecordType
      /\ o.t0 <= o.started /\ o.started <= clock /\ o.started \in 0 .. MaxClock
      /\ Ended(o, "broker") /\ o.pc \in Ending
  BY <1>1, <1>4, Underway DEF Workloads, Begun, Ending
<1>6. o.kind \in {"held", "not_submitted", "rejected", "failed", "success"}
  BY <1>5 DEF Ended
<1>7. BrLeaves(r, o, o.st)
  BY <1>2, <1>5, <1>6, BrOutcomeIs
<1>8. r \in RecordType /\ Past(r)
  BY <1>5, <1>6, <1>7, LeavesPast
<1>9. BrRecordedTo(end, o)
  BY <1>3, <1>5, BrRecordedIs
<1>11. /\ hist'.faults \in Nat /\ hist' = [hist EXCEPT !.faults = hist'.faults]
       /\ \E n : WriteGoes("broker", n, r, end, end, end)
  BY <1>4, <1>8, <1>9, Written DEF Workloads, BrRecordedTo
<1> QED
  BY <1>1, <1>4, <1>7, <1>9, <1>11 DEF BrRewriteTo

-----------------------------------------------------------------------------
(* The session on its way to Vault. *)

\* m is o, which no longer knows the stored session.
Unaware(m, o) == m = [o EXCEPT !.scur = FALSE]

LEMMA UnawareIs ==
  ASSUME NEW q \in Workloads, NEW o, Sane(o, q), NEW m, Unaware(m, o)
  PROVE  /\ Sane(m, q) /\ m.pc = o.pc /\ m.t0 = o.t0 /\ m.st = o.st /\ m.cur = o.cur
         /\ m.unsure = o.unsure
         /\ m.sid = o.sid /\ m.started = o.started /\ m.kind = o.kind /\ ~m.scur
<1>1. o \in OpType
  BY DEF Sane
<1>2. /\ m \in OpType /\ m.pc = o.pc /\ m.t0 = o.t0 /\ m.st = o.st /\ m.cur = o.cur
      /\ m.sid = o.sid /\ m.started = o.started /\ m.kind = o.kind /\ m.out = o.out
      /\ m.sat = o.sat /\ m.lt = o.lt /\ m.retry = o.retry /\ m.unsure = o.unsure
  BY <1>1 DEF Unaware, OpType
<1>3. ~m.scur
  BY <1>1 DEF Unaware, OpType
<1>4. Timely(m, q)
  BY <1>2 DEF Sane, Timely
<1>5. Ended(m, q) /\ (q = "broker" => Honest(m))
  BY <1>2 DEF Sane, Ended, Honest
<1> QED
  BY <1>2, <1>3, <1>4, <1>5 DEF Sane

LEMMA StoreMove ==
  ASSUME Types, Running, NEW p \in Workloads, NEW n, Sane(n, p), Stored(p, n),
         UNCHANGED <<dep, clock, rec>>, RestTyped'
  PROVE  /\ Types' /\ Running' /\ op'[p] = n
         /\ \A q \in Workloads : q # p => Unaware(op'[q], op[q])
<1>1. /\ op' = [q \in Workloads |-> IF q = p THEN n ELSE [op[q] EXCEPT !.scur = FALSE]]
      /\ n \in OpType
  BY DEF Stored, Sane
<1>2. op'[p] = n /\ \A q \in Workloads : q # p => Unaware(op'[q], op[q])
  BY <1>1 DEF Unaware
<1>3. ASSUME NEW q \in Workloads
      PROVE  Sane(op[q], q)' /\ op'[q] \in OpType
  <2>1. PICK m, o : m = op'[q] /\ o = op[q]
    OBVIOUS
  <2>2. Sane(o, q)
    BY <2>1 DEF Running
  <2>3. Sane(m, q)
    <3>1. CASE q = p
      BY <3>1, <2>1, <1>2
    <3>2. CASE q # p
      <4>1. Unaware(m, o)
        BY <3>2, <2>1, <1>2
      <4> QED
        BY <4>1, <2>2, UnawareIs
    <3> QED
      BY <3>1, <3>2
  <2>4. Sane(m, q)'
    BY <2>3, SaneKept
  <2> QED
    BY <2>1, <2>3, <2>4 DEF Sane
<1>4. op' \in [Workloads -> OpType]
  BY <1>1, <1>3
<1>5. Types'
  BY <1>4 DEF Types
<1>6. Past(rec)'
  BY DEF Running, Past
<1> QED
  BY <1>2, <1>3, <1>5, <1>6 DEF Running


BrSaveTo(n) ==
  LET o == op["broker"]
      none == [id |-> NoSession, at |-> None]
      mine == [id |-> o.sid, at |-> o.sat]
  IN
  \/ /\ Stored("broker", n) /\ n.pc = "answer" /\ unsaved' = none /\ hist' = hist
  \/ /\ Stored("broker", n) /\ n.pc = "save" /\ n.sid = o.sid
     /\ unsaved' = unsaved /\ hist' = [hist EXCEPT !.faults = hist'.faults]
  \/ /\ op' = [op EXCEPT !["broker"] = n] /\ sess' = sess
     /\ \/ n.pc = "answer" /\ unsaved' = mine /\ hist' = [hist EXCEPT !.faults = hist'.faults]
        \/ n.pc = "answer" /\ unsaved' = none /\ hist' = [hist EXCEPT !.won = NoSession]
        \/ n.pc = "save" /\ n.sid = o.sid /\ unsaved' = unsaved /\ hist' = hist

LEMMA BrSaveIs ==
  ASSUME Types, Running, BrSave
  PROVE  /\ \E n : Sane(n, "broker") /\ BrSaveTo(n)
         /\ hist' \in HistType /\ op["broker"].pc = "save"
<1>1. PICK o : o = op["broker"]
  OBVIOUS
<1>2. PICK end : end = Reply(o, o.out)
  OBVIOUS
<1> DEFINE p == "broker"
           none == [id |-> NoSession, at |-> None]
           mine == [id |-> o.sid, at |-> o.sat]
           fault == hist' = [hist EXCEPT !.faults = @ + 1] \/ hist' = hist
<1>3. /\ o.pc = "save"
      /\ \/ Stored(p, end) /\ unsaved' = none /\ UNCHANGED hist
         \/ /\ MoreTries(o) /\ hist' = [hist EXCEPT !.faults = @ + 1]
            /\ Stored(p, [o EXCEPT !.scur = FALSE, !.tries = @ + 1]) /\ UNCHANGED unsaved
         \/ fault /\ To(p, end) /\ unsaved' = mine /\ UNCHANGED sess
         \/ To(p, [o EXCEPT !.scur = TRUE, !.redone = TRUE]) /\ UNCHANGED <<sess, unsaved, hist>>
         \/ /\ To(p, [end EXCEPT !.out = "failed"]) /\ UNCHANGED sess
            /\ unsaved' = none /\ hist' = [hist EXCEPT !.won = NoSession]
         \/ To(p, end) /\ unsaved' = mine /\ UNCHANGED <<sess, hist>>
  BY <1>1, <1>2 DEF BrSave, WriteSession
<1>4. o \in OpType /\ Ongoing(o, p) /\ Past(o.st) /\ o.out \in Words /\ hist \in HistType
      /\ hist.faults \in Nat
  BY <1>1, <1>3, Underway DEF Workloads, OpType, Types, RestTyped, HistType
<1>5. Sane(end, p) /\ end.pc = "answer" /\ end \in OpType
  BY <1>2, <1>4, ReplySane, ReplyIs
<1> DEFINE faulted == hist' = [hist EXCEPT !.faults = hist'.faults] /\ hist' \in HistType
<1>6. ASSUME hist' = [hist EXCEPT !.faults = @ + 1]
      PROVE  faulted
  BY <1>4, <1>6 DEF HistType
<1>7. ASSUME hist' = hist
      PROVE  faulted
  BY <1>4, <1>7 DEF HistType
<1>8. CASE Stored(p, end) /\ unsaved' = none /\ UNCHANGED hist
  BY <1>1, <1>3, <1>5, <1>7, <1>8 DEF BrSaveTo
<1>9. CASE /\ MoreTries(o) /\ hist' = [hist EXCEPT !.faults = @ + 1]
           /\ Stored(p, [o EXCEPT !.scur = FALSE, !.tries = @ + 1]) /\ UNCHANGED unsaved
  <2>0. PICK n : n = [o EXCEPT !.scur = FALSE, !.tries = o.tries + 1]
    OBVIOUS
  <2>1. o.tries + 1 \in 0 .. WriteAttempts - 1
    BY <1>4, <1>9, Bounds DEF MoreTries, OpType
  <2>2. n \in OpType /\ n.pc = "save" /\ n.st = o.st /\ n.t0 = o.t0 /\ n.sid = o.sid
    BY <2>0, <2>1, <1>3, <1>4 DEF OpType
  <2>3. Sane(n, p)
    BY <2>2, <1>4, EarlySane DEF Workloads, Ongoing
  <2>4. Stored(p, n)
    BY <2>0, <1>9
  <2>5. BrSaveTo(n)
    BY <2>2, <2>4, <1>1, <1>6, <1>9 DEF BrSaveTo
  <2> QED
    BY <2>3, <2>5, <1>1, <1>3, <1>6, <1>9
<1>10. CASE fault /\ To(p, end) /\ unsaved' = mine /\ UNCHANGED sess
  <2>1. faulted
    BY <1>6, <1>7, <1>10
  <2>2. BrSaveTo(end)
    BY <2>1, <1>1, <1>5, <1>10 DEF BrSaveTo, To
  <2> QED
    BY <2>1, <2>2, <1>1, <1>3, <1>5
<1>11. CASE To(p, [o EXCEPT !.scur = TRUE, !.redone = TRUE]) /\ UNCHANGED <<sess, unsaved, hist>>
  <2>0. PICK n : n = [o EXCEPT !.scur = TRUE, !.redone = TRUE]
    OBVIOUS
  <2>2. n \in OpType /\ n.pc = "save" /\ n.st = o.st /\ n.t0 = o.t0 /\ n.sid = o.sid
    BY <2>0, <1>3, <1>4 DEF OpType
  <2>3. Sane(n, p)
    BY <2>2, <1>4, EarlySane DEF Workloads, Ongoing
  <2>4. op' = [op EXCEPT ![p] = n]
    BY <2>0, <1>11 DEF To
  <2>5. BrSaveTo(n)
    BY <2>2, <2>4, <1>1, <1>11 DEF BrSaveTo
  <2> QED
    BY <2>3, <2>5, <1>1, <1>3, <1>7, <1>11
<1>12. CASE /\ To(p, [end EXCEPT !.out = "failed"]) /\ UNCHANGED sess
            /\ unsaved' = none /\ hist' = [hist EXCEPT !.won = NoSession]
  <2>0. PICK n : n = Reply(o, "failed")
    OBVIOUS
  <2>1. [end EXCEPT !.out = "failed"] = n
    BY <2>0, <1>2, EmptyTypes DEF Reply, OpType
  <2>2. Sane(n, p) /\ n.pc = "answer"
    BY <2>0, <1>4, ReplySane, ReplyIs DEF Words
  <2>3. BrSaveTo(n)
    BY <2>1, <2>2, <1>1, <1>12 DEF BrSaveTo, To
  <2>4. hist' \in HistType
    BY <1>4, <1>12, EmptyTypes DEF HistType
  <2> QED
    BY <2>2, <2>3, <2>4, <1>1, <1>3
<1>13. CASE To(p, end) /\ unsaved' = mine /\ UNCHANGED <<sess, hist>>
  <2>1. BrSaveTo(end)
    BY <1>1, <1>5, <1>7, <1>13 DEF BrSaveTo, To
  <2> QED
    BY <2>1, <1>1, <1>3, <1>5, <1>7, <1>13
<1> QED
  BY <1>3, <1>8, <1>9, <1>10, <1>11, <1>12, <1>13

-----------------------------------------------------------------------------
(* The steps of the job. *)

JobGoesTo(n) == Sane(n, "job") /\ op' = [op EXCEPT !["job"] = n]

LEMMA IdleSane ==
  ASSUME Types, NEW p \in Workloads
  PROVE  Sane(Idle, p)
<1>1. Idle \in OpType /\ Idle.pc = "idle" /\ Idle.st = EmptyRecord
  BY EmptyTypes
<1>2. Past(EmptyRecord)
  BY EmptyTypes, Numbers DEF Past
<1>3. Timely(Idle, p)
  BY <1>1, <1>2 DEF Timely, Begun, Inside, Ending
<1> QED
  BY <1>1, <1>3 DEF Sane, Ended, Ending, Honest

JobOpenTo(n) ==
  \/ n = Idle
  \/ /\ n.pc = "settle" /\ n.cur /\ n.st = Settled("job", rec)
     /\ rec.marker # None /\ ~AttemptInProgress(rec)
  \/ /\ n.pc = "read" /\ n.cur /\ n.st = Unlatched(rec)
     /\ rec.marker = None /\ ~(rec.blocked /\ rec.fp = cred)

JobPast(m, o) ==
  \/ m = Idle
  \/ m.pc = "read" /\ m.cur = o.cur /\ m.st = Unlatched(o.st) /\ ~(o.st.blocked /\ o.st.fp = cred)

LEMMA JobPastLatchIs ==
  ASSUME Types, NEW o \in OpType, Ongoing(o, "job"), Past(o.st)
  PROVE  Sane(JobPastLatch(o), "job") /\ JobPast(JobPastLatch(o), o)
<1>1. PICK m : m = JobPastLatch(o)
  OBVIOUS
<1>2. CASE m = Idle
  BY <1>1, <1>2, IdleSane DEF Workloads, JobPast
<1>3. CASE m # Idle
  <2>1. PICK u : u = Unlatched(o.st)
    OBVIOUS
  <2>2. m = [o EXCEPT !.pc = "read", !.st = u] /\ ~(o.st.blocked /\ o.st.fp = cred)
    BY <1>1, <1>3, <2>1 DEF JobPastLatch
  <2>3. o.st \in RecordType
    BY DEF OpType
  <2>4. u \in RecordType /\ Past(u)
    BY <2>1, <2>3, UnlatchedIs DEF Past
  <2>5. m \in OpType /\ m.pc = "read" /\ m.st = u /\ m.t0 = o.t0 /\ m.cur = o.cur
    BY <2>2, <2>4 DEF OpType, Steps
  <2>6. Sane(m, "job")
    BY <2>4, <2>5, EarlySane DEF Workloads, Ongoing
  <2>7. JobPast(m, o)
    BY <2>1, <2>2, <2>5 DEF JobPast
  <2> QED
    BY <1>1, <2>6, <2>7
<1> QED
  BY <1>2, <1>3

LEMMA JobOpenIs ==
  ASSUME Types, Running, JobOpen
  PROVE  /\ \E n : JobGoesTo(n) /\ JobOpenTo(n)
         /\ hist' \in HistType /\ hist' = [hist EXCEPT !.faults = hist'.faults]
         /\ op["job"].pc = "open"
<1> DEFINE b == op["job"]
<1>1. PICK o : o = [b EXCEPT !.st = rec, !.cur = TRUE]
  OBVIOUS
<1>2. /\ o.pc = "open"
      /\ \/ ReadFails("job") /\ To("job", Idle)
         \/ /\ UNCHANGED hist
            /\ To("job", CASE AttemptInProgress(rec) -> Idle
                          [] ~AttemptInProgress(rec) /\ rec.marker # None ->
                               [o EXCEPT !.pc = "settle", !.st = Settled("job", rec)]
                          [] OTHER -> JobPastLatch(o))
  BY <1>1 DEF JobOpen
<1>3. b \in OpType
  BY DEF Types, Workloads
<1>4. b.pc = "open"
  BY <1>1, <1>2, <1>3 DEF OpType
<1> HIDE DEF b
<1>5. /\ Ongoing(b, "job") /\ rec \in RecordType /\ Past(rec)
  BY <1>4, Underway DEF Workloads, b
<1>6. o \in OpType /\ o.st = rec /\ o.cur = TRUE /\ o.t0 = b.t0
  BY <1>1, <1>3, <1>5 DEF OpType
<1>7. Ongoing(o, "job") /\ Past(o.st)
  BY <1>5, <1>6 DEF Ongoing
<1>8. hist' \in HistType /\ hist' = [hist EXCEPT !.faults = hist'.faults]
  <2>1. CASE ReadFails("job")
    BY <2>1, ReadFailsIs
  <2>2. CASE UNCHANGED hist
    BY <2>2 DEF Types, RestTyped, HistType
  <2> QED
    BY <1>2, <2>1, <2>2
<1>9. \E n : JobGoesTo(n) /\ JobOpenTo(n)
  <2>1. CASE To("job", Idle)
    <3>1. Sane(Idle, "job")
      BY IdleSane DEF Workloads
    <3> QED
      BY <2>1, <3>1 DEF To, JobGoesTo, JobOpenTo
  <2>3. CASE /\ ~AttemptInProgress(rec) /\ rec.marker # None
             /\ To("job", [o EXCEPT !.pc = "settle", !.st = Settled("job", rec)])
    <3>1. PICK s : s = Settled("job", rec)
      OBVIOUS
    <3>2. s \in RecordType /\ s.marker = None /\ s.reqAt = rec.marker /\ s.day = Day(rec.marker)
      BY <3>1, <2>3, <1>5, Numbers, SettledIs DEF Workloads
    <3>3. Past(s)
      <4>1. rec.marker \in Nat /\ rec.marker <= clock
        BY <1>5, <2>3 DEF Past, RecordType, Times, None
      <4>2. Day(rec.marker) <= Day(clock)
        BY <4>1, DayGrows, Numbers
      <4> QED
        BY <3>2, <4>1, <4>2, EmptyTypes, Numbers DEF Past
    <3>4. PICK n : n = [o EXCEPT !.pc = "settle", !.st = s]
      OBVIOUS
    <3>5. n \in OpType /\ n.pc = "settle" /\ n.st = s /\ n.t0 = o.t0 /\ n.cur = o.cur
      BY <3>2, <3>4, <1>6 DEF OpType, Steps
    <3>6. Sane(n, "job")
      BY <3>3, <3>5, <1>7, EarlySane DEF Workloads, Ongoing
    <3>7. op' = [op EXCEPT !["job"] = n]
      BY <3>1, <3>4, <2>3 DEF To
    <3> QED
      BY <2>3, <3>1, <3>5, <3>6, <3>7, <1>6 DEF JobGoesTo, JobOpenTo
  <2>4. CASE /\ rec.marker = None /\ To("job", JobPastLatch(o))
    <3>1. PICK n : n = JobPastLatch(o)
      OBVIOUS
    <3>2. Sane(n, "job") /\ JobPast(n, o)
      BY <3>1, <1>6, <1>7, JobPastLatchIs
    <3>3. JobOpenTo(n)
      BY <2>4, <3>2, <1>6 DEF JobPast, JobOpenTo
    <3> QED
      BY <2>4, <3>1, <3>2, <3>3 DEF To, JobGoesTo
  <2> QED
    <3>1. CASE To("job", Idle)
      BY <2>1, <3>1
    <3>2. CASE To("job", CASE AttemptInProgress(rec) -> Idle
                          [] ~AttemptInProgress(rec) /\ rec.marker # None ->
                               [o EXCEPT !.pc = "settle", !.st = Settled("job", rec)]
                          [] OTHER -> JobPastLatch(o))
      <4>1. CASE AttemptInProgress(rec)
        BY <2>1, <3>2, <4>1
      <4>2. CASE ~AttemptInProgress(rec) /\ rec.marker # None
        BY <2>3, <3>2, <4>2
      <4>3. CASE ~AttemptInProgress(rec) /\ rec.marker = None
        BY <2>4, <3>2, <4>3
      <4> QED
        BY <4>1, <4>2, <4>3
    <3> QED
      BY <1>2, <3>1, <3>2
<1> QED
  BY <1>4, <1>8, <1>9 DEF b

JobSettleTo(n, ok) ==
  LET o == op["job"] IN
  WriteGoes("job", n, o.st, ok, Idle, Idle) /\ Sane(ok, "job") /\ JobPast(ok, o)

LEMMA JobSettleIs ==
  ASSUME Types, Running, JobSettle
  PROVE  /\ \E n, ok : JobSettleTo(n, ok)
         /\ hist'.faults \in Nat /\ hist' = [hist EXCEPT !.faults = hist'.faults]
         /\ op["job"].pc = "settle" /\ Sane(Idle, "job")
<1>1. PICK o : o = op["job"]
  OBVIOUS
<1>2. PICK ok, idle : ok = JobPastLatch(o) /\ idle = Idle
  OBVIOUS
<1>3. /\ o.pc = "settle" /\ WriteStateOnce("job", o.st, ok, idle, idle)
      /\ UNCHANGED <<dep, clock>>
  BY <1>1, <1>2 DEF JobSettle
<1>4. o \in OpType /\ Ongoing(o, "job") /\ Past(o.st) /\ o.st \in RecordType
  BY <1>1, <1>3, Underway DEF Workloads
<1>5. Sane(ok, "job") /\ JobPast(ok, o)
  BY <1>2, <1>4, JobPastLatchIs
<1>6. Sane(idle, "job")
  BY <1>2, IdleSane DEF Workloads
<1>7. /\ hist'.faults \in Nat /\ hist' = [hist EXCEPT !.faults = hist'.faults]
      /\ \E n : WriteGoes("job", n, o.st, ok, idle, idle)
  BY <1>3, <1>4, <1>5, <1>6, Written DEF Workloads
<1> QED
  BY <1>1, <1>2, <1>3, <1>5, <1>6, <1>7 DEF JobSettleTo

JobReadTo(n) ==
  LET o == op["job"] IN
  n = Idle \/ (n.pc \in {"gate", "probe"} /\ n.st = o.st /\ n.cur = o.cur)

LEMMA JobReadIs ==
  ASSUME Types, Running, JobRead
  PROVE  /\ \E n : JobGoesTo(n) /\ JobReadTo(n)
         /\ hist' \in HistType /\ hist' = [hist EXCEPT !.faults = hist'.faults]
         /\ op["job"].pc = "read"
<1>1. PICK o : o = op["job"]
  OBVIOUS
<1>2. PICK got : got = [o EXCEPT !.sid = sess.id, !.sat = sess.at, !.scur = TRUE]
  OBVIOUS
<1>3. /\ o.pc = "read"
      /\ \/ ReadFails("job") /\ To("job", Idle)
         \/ UNCHANGED hist /\ To("job", Idle)
         \/ UNCHANGED hist /\ \E pc \in {"gate", "probe"} : To("job", [got EXCEPT !.pc = pc])
  <2>1. PICK answered \in BOOLEAN :
          answered <=> o.req # NoRequest /\ sess.id # NoSession /\ sess.at >= o.req.at
    BY Zenon
  <2>2. PICK keep \in BOOLEAN : keep <=> keepNo(o)
    BY Zenon
  <2>3. /\ o.pc = "read"
        /\ \/ ReadFails("job") /\ To("job", Idle)
           \/ /\ UNCHANGED hist
              /\ To("job", IF answered THEN Idle
                           ELSE [got EXCEPT !.pc = IF keep THEN "gate" ELSE "probe"])
    <3>1. CASE keepNo(o)
      BY <1>1, <1>2, <2>1, <2>2, <3>1 DEF JobRead
    <3>2. CASE ~keepNo(o)
      BY <1>1, <1>2, <2>1, <2>2, <3>2 DEF JobRead
    <3> QED
      BY <3>1, <3>2
  <2>4. CASE answered
    BY <2>3, <2>4
  <2>5. CASE ~answered /\ keep
    BY <2>3, <2>5
  <2>6. CASE ~answered /\ ~keep
    BY <2>3, <2>6
  <2> QED
    BY <2>4, <2>5, <2>6
<1>4. o \in OpType /\ Ongoing(o, "job") /\ Past(o.st) /\ o.st \in RecordType
  BY <1>1, <1>3, Underway DEF Workloads
<1>5. hist' \in HistType /\ hist' = [hist EXCEPT !.faults = hist'.faults]
  <2>1. CASE ReadFails("job")
    BY <2>1, ReadFailsIs
  <2>2. CASE UNCHANGED hist
    BY <2>2 DEF Types, RestTyped, HistType
  <2> QED
    BY <1>3, <2>1, <2>2
<1>6. Sane(Idle, "job")
  BY IdleSane DEF Workloads
<1>7. ASSUME NEW pc \in {"gate", "probe"}, To("job", [got EXCEPT !.pc = pc])
      PROVE  \E n : JobGoesTo(n) /\ JobReadTo(n)
  <2>1. PICK n : n = [got EXCEPT !.pc = pc]
    OBVIOUS
  <2>2. sess.id \in Ids /\ sess.at \in Times
    BY DEF Types, RestTyped
  <2>3. n \in OpType /\ n.pc = pc /\ n.st = o.st /\ n.t0 = o.t0 /\ n.cur = o.cur
    BY <1>2, <1>4, <2>1, <2>2 DEF OpType, Steps
  <2>4. Sane(n, "job")
    BY <2>3, <1>4, EarlySane DEF Workloads, Ongoing
  <2>5. JobReadTo(n)
    BY <2>3, <1>1 DEF JobReadTo
  <2> QED
    BY <2>1, <2>4, <2>5, <1>7 DEF To, JobGoesTo
<1>8. \E n : JobGoesTo(n) /\ JobReadTo(n)
  BY <1>3, <1>6, <1>7 DEF To, JobGoesTo, JobReadTo
<1> QED
  BY <1>1, <1>3, <1>5, <1>8

JobProbeTo(n) ==
  LET o == op["job"] IN
  \/ n = Idle
  \/ n.pc = "gate" /\ n.st = o.st /\ n.cur = o.cur
  \/ n.pc = "serve" /\ n.st = [o.st EXCEPT !.served = o.req] /\ n.cur = o.cur

LEMMA JobProbeIs ==
  ASSUME Types, Running, JobProbe
  PROVE  (\E n : JobGoesTo(n) /\ JobProbeTo(n)) /\ op["job"].pc = "probe"
<1>1. PICK o : o = op["job"]
  OBVIOUS
<1>2. /\ o.pc = "probe"
      /\ \/ To("job", [o EXCEPT !.pc = "gate"])
         \/ To("job", [o EXCEPT !.pc = "serve", !.st.served = o.req])
         \/ To("job", Idle)
  BY <1>1 DEF JobProbe
<1>3. o \in OpType /\ Ongoing(o, "job") /\ Past(o.st) /\ o.st \in RecordType
  BY <1>1, <1>2, Underway DEF Workloads
<1>4. CASE To("job", Idle)
  <2>1. Sane(Idle, "job")
    BY IdleSane DEF Workloads
  <2> QED
    BY <2>1, <1>1, <1>2, <1>4 DEF To, JobGoesTo, JobProbeTo
<1>5. CASE To("job", [o EXCEPT !.pc = "gate"])
  <2>1. PICK n : n = [o EXCEPT !.pc = "gate"]
    OBVIOUS
  <2>2. n \in OpType /\ n.pc = "gate" /\ n.st = o.st /\ n.cur = o.cur /\ n.t0 = o.t0
    BY <2>1, <1>3 DEF OpType, Steps
  <2>3. Sane(n, "job")
    BY <2>2, <1>3, EarlySane DEF Workloads, Ongoing
  <2>4. JobProbeTo(n)
    BY <2>2, <1>1 DEF JobProbeTo
  <2> QED
    BY <2>1, <2>3, <2>4, <1>1, <1>2, <1>5 DEF To, JobGoesTo
<1>6. CASE To("job", [o EXCEPT !.pc = "serve", !.st.served = o.req])
  <2>1. PICK s : s = [o.st EXCEPT !.served = o.req]
    OBVIOUS
  <2>2. PICK n : n = [o EXCEPT !.pc = "serve", !.st = s]
    OBVIOUS
  <2>3. o.req \in Requests
    BY <1>3 DEF OpType
  <2>4. /\ s \in RecordType /\ s.marker = o.st.marker /\ s.reqAt = o.st.reqAt /\ s.day = o.st.day
    BY <2>1, <2>3, <1>3 DEF RecordType
  <2>5. Past(s)
    BY <2>4, <1>3 DEF Past
  <2>6. n \in OpType /\ n.pc = "serve" /\ n.st = s /\ n.cur = o.cur /\ n.t0 = o.t0
    BY <2>2, <2>4, <1>3 DEF OpType, Steps
  <2>7. Sane(n, "job")
    BY <2>5, <2>6, <1>3, EarlySane DEF Workloads, Ongoing
  <2>8. [o EXCEPT !.pc = "serve", !.st.served = o.req] = n
    BY <2>1, <2>2, <1>3 DEF OpType
  <2>9. JobProbeTo(n)
    BY <2>1, <2>6, <1>1 DEF JobProbeTo
  <2> QED
    BY <2>7, <2>8, <2>9, <1>1, <1>2, <1>6 DEF To, JobGoesTo
<1> QED
  BY <1>2, <1>4, <1>5, <1>6

JobServeTo(n) == WriteGoes("job", n, op["job"].st, Idle, Idle, Idle)

LEMMA JobServeIs ==
  ASSUME Types, Running, JobServe
  PROVE  /\ \E n : JobServeTo(n)
         /\ hist'.faults \in Nat /\ hist' = [hist EXCEPT !.faults = hist'.faults]
         /\ op["job"].pc = "serve" /\ Sane(Idle, "job")
<1>1. PICK o, idle : o = op["job"] /\ idle = Idle
  OBVIOUS
<1>3. /\ o.pc = "serve" /\ WriteStateOnce("job", o.st, idle, idle, idle)
      /\ UNCHANGED <<dep, clock>>
  BY <1>1 DEF JobServe
<1>4. o \in OpType /\ Ongoing(o, "job") /\ Past(o.st) /\ o.st \in RecordType
  BY <1>1, <1>3, Underway DEF Workloads
<1>6. Sane(idle, "job")
  BY <1>1, IdleSane DEF Workloads
<1>7. /\ hist'.faults \in Nat /\ hist' = [hist EXCEPT !.faults = hist'.faults]
      /\ \E n : WriteGoes("job", n, o.st, idle, idle, idle)
  BY <1>3, <1>4, <1>6, Written DEF Workloads
<1> QED
  BY <1>1, <1>3, <1>6, <1>7 DEF JobServeTo

\* A login is due, and the record of it is to be written.
JobGateTo(n) ==
  LET o == op["job"] IN
  \/ n = Idle
  \/ /\ n.pc = "mark" /\ n.started = clock /\ n.cur = o.cur
     /\ n.st.marker = clock /\ n.st.by = "job" /\ n.st.fp = cred
     /\ n.st.reqAt = o.st.reqAt \/ n.st.reqAt = clock
     /\ n.st.fails = o.st.fails /\ n.st.blocked = o.st.blocked
     /\ n.st.day = o.st.day /\ n.st.count = o.st.count

LEMMA JobGateIs ==
  ASSUME Types, Running, JobGate
  PROVE  /\ \E n : JobGoesTo(n) /\ JobGateTo(n)
         /\ hist' \in HistType /\ hist' = [hist EXCEPT !.faults = hist'.faults]
         /\ op["job"].pc = "gate"
<1>1. PICK o : o = op["job"]
  OBVIOUS
<1>2. PICK served, reqAt : /\ served = IF o.req # NoRequest THEN o.req ELSE o.st.served
                           /\ reqAt = IF o.req # NoRequest THEN clock ELSE o.st.reqAt
  OBVIOUS
<1>3. PICK s : s = [o.st EXCEPT !.fp = cred, !.marker = clock, !.by = "job",
                                !.served = served, !.reqAt = reqAt]
  OBVIOUS
<1>4. o.pc = "gate"
  BY <1>1 DEF JobGate
<1>5. o \in OpType /\ Ongoing(o, "job") /\ Past(o.st) /\ o.st \in RecordType
  BY <1>1, <1>4, Underway DEF Workloads
<1>6. [o.st EXCEPT !.fp = cred, !.marker = clock, !.by = "job",
                             !.served = IF o.req # NoRequest THEN o.req ELSE @,
                             !.reqAt = IF o.req # NoRequest THEN clock ELSE @] = s
  BY <1>2, <1>3, <1>5 DEF RecordType
<1>7. \/ ReadFails("job") /\ To("job", Idle)
      \/ /\ UNCHANGED hist
         /\ To("job", [o EXCEPT !.pc = "mark", !.started = clock, !.st = s])
  BY <1>1, <1>6 DEF JobGate
<1>8. CASE ReadFails("job") /\ To("job", Idle)
  <2>1. Sane(Idle, "job")
    BY IdleSane DEF Workloads
  <2>2. hist' \in HistType /\ hist' = [hist EXCEPT !.faults = hist'.faults]
    BY <1>8, ReadFailsIs
  <2> QED
    BY <2>1, <2>2, <1>1, <1>4, <1>8 DEF To, JobGoesTo, JobGateTo
<1>9. CASE /\ UNCHANGED hist
           /\ To("job", [o EXCEPT !.pc = "mark", !.started = clock, !.st = s])
  <2>1. PICK n : n = [o EXCEPT !.pc = "mark", !.started = clock, !.st = s]
    OBVIOUS
  <2>2. served \in Requests /\ reqAt \in Times /\ reqAt <= clock /\ (reqAt = o.st.reqAt \/ reqAt = clock)
    <3>1. CASE o.req # NoRequest
      BY <1>2, <1>5, <3>1, Numbers DEF OpType
    <3>2. CASE o.req = NoRequest
      BY <1>2, <1>5, <3>2, Numbers DEF RecordType, Past
    <3> QED
      BY <3>1, <3>2
  <2>3. /\ s \in RecordType /\ s.marker = clock /\ s.by = "job" /\ s.fp = cred /\ s.reqAt = reqAt
        /\ s.fails = o.st.fails /\ s.blocked = o.st.blocked
        /\ s.day = o.st.day /\ s.count = o.st.count
    <3>1. clock \in Times /\ cred \in Creds /\ "job" \in Workloads
      BY Numbers DEF Workloads
    <3> QED
      BY <1>3, <1>5, <2>2, <3>1 DEF RecordType
  <2>4. Past(s)
    BY <2>2, <2>3, <1>5, Numbers DEF Past
  <2>5. /\ n \in OpType /\ n.pc = "mark" /\ n.st = s /\ n.cur = o.cur /\ n.t0 = o.t0
        /\ n.started = clock
    BY <2>1, <2>3, <1>5, Numbers DEF OpType, Steps
  <2>6. Sane(n, "job")
    <3>1. Ongoing(n, "job") /\ n.t0 <= n.started /\ n.started <= clock
      BY <2>5, <1>5, Numbers DEF Ongoing
    <3>2. Ended(n, "job")
      BY <2>5 DEF Ended
    <3> QED
      BY <2>4, <2>5, <3>1, <3>2, StepSane DEF Workloads
  <2>7. JobGateTo(n)
    BY <2>2, <2>3, <2>5, <1>1 DEF JobGateTo
  <2>8. hist' \in HistType /\ hist' = [hist EXCEPT !.faults = hist'.faults]
    BY <1>9 DEF Types, RestTyped, HistType
  <2> QED
    BY <2>1, <2>6, <2>7, <2>8, <1>1, <1>4, <1>9 DEF To, JobGoesTo
<1> QED
  BY <1>7, <1>8, <1>9

JobMarkTo(n, ok) ==
  LET o == op["job"] IN
  /\ WriteGoes("job", n, o.st, ok, Idle, Idle) /\ Sane(ok, "job")
  /\ ok.pc = "attempt" /\ ok.st = o.st /\ ok.started = o.started

LEMMA JobMarkIs ==
  ASSUME Types, Running, JobMark
  PROVE  /\ \E n, ok : JobMarkTo(n, ok)
         /\ hist'.faults \in Nat /\ hist' = [hist EXCEPT !.faults = hist'.faults]
         /\ op["job"].pc = "mark" /\ Sane(Idle, "job")
<1>1. PICK o, idle : o = op["job"] /\ idle = Idle
  OBVIOUS
<1>2. PICK ok : ok = [o EXCEPT !.pc = "attempt"]
  OBVIOUS
<1>3. /\ o.pc = "mark" /\ WriteStateOnce("job", o.st, ok, idle, idle)
      /\ UNCHANGED <<dep, clock>>
  BY <1>1, <1>2 DEF JobMark
<1>4. /\ o \in OpType /\ Ongoing(o, "job") /\ Past(o.st) /\ o.st \in RecordType
      /\ o.t0 <= o.started /\ o.started <= clock
  BY <1>1, <1>3, Underway DEF Workloads, Begun
<1>5. Sane(ok, "job") /\ ok.pc = "attempt" /\ ok.st = o.st /\ ok.started = o.started
  <2>1. ok \in OpType /\ ok.pc = "attempt" /\ ok.st = o.st /\ ok.t0 = o.t0 /\ ok.started = o.started
    BY <1>2, <1>4 DEF OpType, Steps
  <2>2. Ongoing(ok, "job") /\ Ended(ok, "job")
    BY <2>1, <1>4 DEF Ongoing, Ended
  <2> QED
    BY <2>1, <2>2, <1>4, StepSane DEF Workloads
<1>6. Sane(idle, "job")
  BY <1>1, IdleSane DEF Workloads
<1>7. /\ hist'.faults \in Nat /\ hist' = [hist EXCEPT !.faults = hist'.faults]
      /\ \E n : WriteGoes("job", n, o.st, ok, idle, idle)
  BY <1>3, <1>4, <1>5, <1>6, Written DEF Workloads
<1> QED
  BY <1>1, <1>3, <1>5, <1>6, <1>7 DEF JobMarkTo

JobAttemptTo(n) ==
  LET o == op["job"] IN
  /\ n.st = o.st /\ n.cur = o.cur /\ n.started = o.started
  /\ \/ n.pc = "login" /\ n.lt = clock
     \/ n.pc = "commit" /\ n.kind = "not_submitted"

LEMMA JobAttemptIs ==
  ASSUME Types, Running, JobAttempt
  PROVE  (\E n : JobGoesTo(n) /\ JobAttemptTo(n)) /\ op["job"].pc = "attempt"
<1>1. PICK o : o = op["job"]
  OBVIOUS
<1>2. /\ o.pc = "attempt"
      /\ \/ ~BlocksAt(clock) /\ To("job", [o EXCEPT !.pc = "login", !.lt = clock])
         \/ To("job", [o EXCEPT !.pc = "commit", !.kind = "not_submitted"])
  BY <1>1 DEF JobAttempt
<1>3. /\ o \in OpType /\ Ongoing(o, "job") /\ Past(o.st) /\ o.st \in RecordType
      /\ o.t0 <= o.started /\ o.started <= clock
  BY <1>1, <1>2, Underway DEF Workloads, Begun, Inside
<1>4. CASE ~BlocksAt(clock) /\ To("job", [o EXCEPT !.pc = "login", !.lt = clock])
  <2>1. PICK n : n = [o EXCEPT !.pc = "login", !.lt = clock]
    OBVIOUS
  <2>2. /\ n \in OpType /\ n.pc = "login" /\ n.lt = clock /\ n.st = o.st /\ n.cur = o.cur
        /\ n.t0 = o.t0 /\ n.started = o.started
    BY <2>1, <1>3, Numbers DEF OpType, Steps
  <2>3. Timely(n, "job")
    BY <2>2, <1>3, <1>4, Numbers, Bounds DEF Timely, Ongoing
  <2>4. Ended(n, "job")
    BY <2>2 DEF Ended
  <2>5. Sane(n, "job") /\ JobAttemptTo(n)
    BY <2>2, <2>3, <2>4, <1>1 DEF Sane, JobAttemptTo
  <2> QED
    BY <2>1, <2>5, <1>1, <1>2, <1>4 DEF To, JobGoesTo
<1>5. CASE To("job", [o EXCEPT !.pc = "commit", !.kind = "not_submitted"])
  <2>1. PICK n : n = [o EXCEPT !.pc = "commit", !.kind = "not_submitted"]
    OBVIOUS
  <2>2. /\ n \in OpType /\ n.pc = "commit" /\ n.kind = "not_submitted" /\ n.st = o.st /\ n.cur = o.cur
        /\ n.t0 = o.t0 /\ n.started = o.started
    BY <2>1, <1>3 DEF OpType, Steps, Words
  <2>3. Ongoing(n, "job") /\ Ended(n, "job")
    BY <2>2, <1>3 DEF Ongoing, Ended
  <2>4. Sane(n, "job") /\ JobAttemptTo(n)
    BY <2>2, <2>3, <1>1, <1>3, StepSane DEF JobAttemptTo, Workloads
  <2> QED
    BY <2>1, <2>4, <1>1, <1>2, <1>5 DEF To, JobGoesTo
<1> QED
  BY <1>2, <1>4, <1>5

JobLoginTo(n, e) ==
  LET o == op["job"] IN
  /\ n.st = o.st /\ n.cur = o.cur /\ n.started = o.started
  /\ \/ n.pc = "confirm" /\ e.says = "session" /\ n.sid = NewSession
     \/ n.pc = "attempt" /\ ~e.submitted
     \/ /\ n.pc = "commit" /\ n.kind \in {"rejected", "not_submitted", "unknown", "unconfirmed"}
        /\ n.kind = "not_submitted" <=> ~e.submitted
        /\ n.kind = "unknown" <=> e.says = "unknown"

LEMMA JobLoginIs ==
  ASSUME Types, Running, JobLogin
  PROVE  /\ \E e \in LoginEnds, n \in OpType :
               /\ JobGoesTo(n) /\ JobLoginTo(n, e) /\ Submits("job", e, hist')
               /\ live' = IF e.began THEN NewSession ELSE live
         /\ op["job"].pc = "login"
<1>1. PICK o : o = op["job"]
  OBVIOUS
<1>2. PICK sid : sid = NewSession
  OBVIOUS
<1>3. PICK e \in LoginEnds :
        /\ o.pc = "login"
        /\ live' = IF e.began THEN NewSession ELSE live
        /\ hist' = Submitted("job", e)
        /\ \/ e.says = "session" /\ To("job", [o EXCEPT !.pc = "confirm", !.sid = sid, !.sat = clock])
           \/ e.says = "not_submitted" /\ To("job", [o EXCEPT !.pc = "attempt", !.again = TRUE])
           \/ /\ e.says # "session"
              /\ To("job", [o EXCEPT !.pc = "commit",
                                     !.kind = IF e.says = "no_session" THEN "unconfirmed" ELSE e.says])
  BY <1>1, <1>2 DEF JobLogin
<1>4. /\ o \in OpType /\ Ongoing(o, "job") /\ Past(o.st) /\ o.st \in RecordType
      /\ o.t0 <= o.started /\ o.started <= clock /\ o.started \in 0 .. MaxClock
  BY <1>1, <1>3, Underway DEF Workloads, Begun, Inside
<1>5. Submits("job", e, hist')
  BY <1>1, <1>3, <1>4, SubmittedIs DEF Workloads
<1>6. sid \in Ids
  BY <1>2, NewSessionIsNew DEF Ids
<1>7. \E n \in OpType : JobGoesTo(n) /\ JobLoginTo(n, e)
  <2>1. CASE e.says = "session" /\ To("job", [o EXCEPT !.pc = "confirm", !.sid = sid, !.sat = clock])
    <3>1. PICK n : n = [o EXCEPT !.pc = "confirm", !.sid = sid, !.sat = clock]
      OBVIOUS
    <3>2. /\ n \in OpType /\ n.pc = "confirm" /\ n.st = o.st /\ n.t0 = o.t0 /\ n.started = o.started
          /\ n.cur = o.cur /\ n.sid = sid
      BY <3>1, <1>4, <1>6, Numbers DEF OpType, Steps
    <3>3. Ongoing(n, "job") /\ Ended(n, "job")
      BY <3>2, <1>4 DEF Ongoing, Ended
    <3>4. Sane(n, "job")
      BY <3>2, <3>3, <1>4, StepSane DEF Workloads
    <3>5. JobLoginTo(n, e)
      BY <3>2, <2>1, <1>1, <1>2 DEF JobLoginTo
    <3> QED
      BY <3>1, <3>2, <3>4, <3>5, <2>1 DEF To, JobGoesTo
  <2>2. CASE e.says = "not_submitted" /\ To("job", [o EXCEPT !.pc = "attempt", !.again = TRUE])
    <3>1. PICK n : n = [o EXCEPT !.pc = "attempt", !.again = TRUE]
      OBVIOUS
    <3>2. /\ n \in OpType /\ n.pc = "attempt" /\ n.st = o.st /\ n.t0 = o.t0 /\ n.started = o.started
          /\ n.cur = o.cur
      BY <3>1, <1>4 DEF OpType, Steps
    <3>3. Ongoing(n, "job") /\ Ended(n, "job")
      BY <3>2, <1>4 DEF Ongoing, Ended
    <3>4. Sane(n, "job")
      BY <3>2, <3>3, <1>4, StepSane DEF Workloads
    <3>5. JobLoginTo(n, e)
      BY <3>2, <2>2, <1>1, LoginEndsIs DEF JobLoginTo
    <3> QED
      BY <3>1, <3>2, <3>4, <3>5, <2>2 DEF To, JobGoesTo
  <2>3. CASE /\ e.says # "session"
             /\ To("job", [o EXCEPT !.pc = "commit",
                                    !.kind = IF e.says = "no_session" THEN "unconfirmed" ELSE e.says])
    <3>0. PICK kind : kind = IF e.says = "no_session" THEN "unconfirmed" ELSE e.says
      OBVIOUS
    <3>1. PICK n : n = [o EXCEPT !.pc = "commit", !.kind = kind]
      OBVIOUS
    <3>6. /\ kind \in {"rejected", "not_submitted", "unknown", "unconfirmed"}
          /\ kind = "not_submitted" <=> ~e.submitted
          /\ kind = "unknown" <=> e.says = "unknown"
      BY <3>0, <2>3, LoginEndsIs
    <3>8. kind \in Words
      BY <3>6 DEF Words
    <3>2. /\ n \in OpType /\ n.pc = "commit" /\ n.st = o.st /\ n.t0 = o.t0 /\ n.started = o.started
          /\ n.cur = o.cur /\ n.kind = kind
      BY <3>1, <3>8, <1>4 DEF OpType, Steps
    <3>3. Ongoing(n, "job") /\ Ended(n, "job")
      BY <3>2, <3>6, <1>4 DEF Ongoing, Ended
    <3>4. Sane(n, "job")
      BY <3>2, <3>3, <1>4, StepSane DEF Workloads
    <3>5. JobLoginTo(n, e)
      BY <3>2, <3>6, <1>1 DEF JobLoginTo
    <3>7. op' = [op EXCEPT !["job"] = n]
      BY <3>0, <3>1, <2>3 DEF To
    <3> QED
      BY <3>2, <3>4, <3>5, <3>7 DEF JobGoesTo
  <2> QED
    BY <1>3, <2>1, <2>2, <2>3
<1> QED
  BY <1>1, <1>3, <1>5, <1>7

JobConfirmTo(n) ==
  LET o == op["job"] IN
  /\ n.pc = "commit" /\ n.st = o.st /\ n.cur = o.cur /\ n.started = o.started
  /\ n.sid = o.sid /\ n.scur = o.scur
  /\ \/ n.kind = "success" /\ hist' = [hist EXCEPT !.misses = 0]
     \/ n.kind = "unconfirmed" /\ hist' = hist

LEMMA JobConfirmIs ==
  ASSUME Types, Running, JobConfirm
  PROVE  (\E n : JobGoesTo(n) /\ JobConfirmTo(n)) /\ op["job"].pc = "confirm" /\ hist' \in HistType
<1>1. PICK o : o = op["job"]
  OBVIOUS
<1>2. PICK kind :
        /\ o.pc = "confirm"
        /\ To("job", [o EXCEPT !.pc = "commit", !.kind = kind])
        /\ \/ kind = "success" /\ hist' = [hist EXCEPT !.misses = 0]
           \/ kind = "unconfirmed" /\ hist' = hist
  <2>1. PICK says \in ProbeSays(o.sid) :
        /\ o.pc = "confirm"
        /\ To("job", [o EXCEPT !.pc = "commit",
                               !.kind = IF says = "alive" THEN "success" ELSE "unconfirmed"])
        /\ hist' = IF says = "alive" THEN [hist EXCEPT !.misses = 0] ELSE hist
    BY <1>1 DEF JobConfirm
  <2>2. CASE says = "alive"
    BY <2>1, <2>2
  <2>3. CASE says # "alive"
    BY <2>1, <2>3
  <2> QED
    BY <2>2, <2>3
<1>3. /\ o \in OpType /\ Ongoing(o, "job") /\ Past(o.st) /\ o.st \in RecordType
      /\ o.t0 <= o.started /\ o.started <= clock
  BY <1>1, <1>2, Underway DEF Workloads, Begun, Inside
<1>4. PICK n : n = [o EXCEPT !.pc = "commit", !.kind = kind]
  OBVIOUS
<1>5. /\ n \in OpType /\ n.pc = "commit" /\ n.st = o.st /\ n.t0 = o.t0 /\ n.started = o.started
      /\ n.cur = o.cur /\ n.kind = kind /\ n.sid = o.sid /\ n.scur = o.scur
  <2>1. kind \in Words
    BY <1>2 DEF Words
  <2> QED
    BY <2>1, <1>3, <1>4 DEF OpType, Steps
<1>6. Sane(n, "job")
  <2>1. Ongoing(n, "job") /\ Ended(n, "job")
    BY <1>2, <1>3, <1>5 DEF Ongoing, Ended
  <2> QED
    BY <2>1, <1>3, <1>5, StepSane DEF Workloads
<1>7. JobConfirmTo(n)
  BY <1>1, <1>2, <1>5 DEF JobConfirmTo
<1>8. hist' \in HistType
  <2>1. hist \in HistType
    BY DEF Types, RestTyped
  <2> QED
    <3>1. CASE hist' = [hist EXCEPT !.misses = 0]
      BY <2>1, <3>1 DEF HistType
    <3>2. CASE hist' = hist
      BY <2>1, <3>2
    <3> QED
      BY <1>2, <3>1, <3>2
<1> QED
  BY <1>1, <1>2, <1>4, <1>6, <1>7, <1>8 DEF To, JobGoesTo

JobCommitTo(n, r, end) ==
  LET o == op["job"] IN
  /\ WriteGoes("job", n, r, end, end, end)
  /\ JobLeaves(r, o, o.st) /\ Sane(end, "job")
  /\ end = Idle \/ (/\ o.kind = "success" /\ end.pc = "save" /\ end.sid = o.sid /\ end.scur = o.scur)

LEMMA JobLeavesPast ==
  ASSUME Types, NEW o, NEW st, NEW r, JobLeaves(r, o, st), st \in RecordType, Past(st),
         o.kind \in {"not_submitted", "unknown", "rejected", "unconfirmed", "success"},
         o.started \in 0 .. MaxClock, o.started <= clock
  PROVE  r \in RecordType /\ Past(r)
<1>1. r \in RecordType /\ r.marker = None /\ r.reqAt = st.reqAt
  BY DEF JobLeaves, Cleared
<1>2. Day(o.started) <= Day(clock) /\ Day(o.started) \in Nat /\ clock \in Nat /\ Day(clock) \in Nat
  BY DayGrows, DayType, Numbers
<1>3. CASE o.kind = "not_submitted"
  BY <1>1, <1>2, <1>3, EmptyTypes DEF JobLeaves, Uncounted, Past
<1>4. CASE o.kind # "not_submitted"
  BY <1>1, <1>2, <1>4, EmptyTypes DEF JobLeaves, Made, Past
<1> QED
  BY <1>1, <1>3, <1>4

LEMMA JobCommitIs ==
  ASSUME Types, Running, JobCommit
  PROVE  /\ \E n, r, end : JobCommitTo(n, r, end)
         /\ hist'.faults \in Nat /\ hist' = [hist EXCEPT !.faults = hist'.faults]
         /\ op["job"].pc = "commit"
<1>1. PICK o : o = op["job"]
  OBVIOUS
<1>2. PICK r : r = JobOutcome(o)
  OBVIOUS
<1>3. PICK end : end = IF o.kind = "success" THEN [o EXCEPT !.pc = "save", !.st = EmptyRecord] ELSE Idle
  OBVIOUS
<1>4. /\ o.pc = "commit"
      /\ WriteStateOnce("job", r, end, end, end)
      /\ UNCHANGED <<dep, clock>>
  BY <1>1, <1>2, <1>3 DEF JobCommit
<1>5. /\ o \in OpType /\ Ongoing(o, "job") /\ Past(o.st) /\ o.st \in RecordType
      /\ o.t0 <= o.started /\ o.started <= clock /\ o.started \in 0 .. MaxClock
      /\ Ended(o, "job")
  BY <1>1, <1>4, Underway DEF Workloads, Begun, Ending
<1>6. o.kind \in {"not_submitted", "unknown", "rejected", "unconfirmed", "success"}
  BY <1>4, <1>5 DEF Ended
<1>7. JobLeaves(r, o, o.st)
  BY <1>2, <1>5, <1>6, JobOutcomeIs
<1>8. r \in RecordType /\ Past(r)
  BY <1>5, <1>6, <1>7, JobLeavesPast
<1>9. /\ Sane(end, "job")
      /\ end = Idle \/ (/\ o.kind = "success" /\ end.pc = "save" /\ end.sid = o.sid /\ end.scur = o.scur)
  <2>1. CASE o.kind = "success"
    <3>1. end = [o EXCEPT !.pc = "save", !.st = EmptyRecord]
      BY <1>3, <2>1
    <3>2. /\ end \in OpType /\ end.pc = "save" /\ end.st = EmptyRecord /\ end.sid = o.sid
          /\ end.scur = o.scur /\ end.t0 = o.t0
      BY <3>1, <1>5, EmptyTypes DEF OpType, Steps
    <3>3. Past(end.st)
      BY <3>2, EmptyTypes, Numbers DEF Past
    <3>4. Sane(end, "job")
      BY <3>2, <3>3, <1>5, EarlySane DEF Workloads, Ongoing
    <3> QED
      BY <2>1, <3>2, <3>4
  <2>2. CASE o.kind # "success"
    BY <2>2, <1>3, IdleSane DEF Workloads
  <2> QED
    BY <2>1, <2>2
<1>11. /\ hist'.faults \in Nat /\ hist' = [hist EXCEPT !.faults = hist'.faults]
       /\ \E n : WriteGoes("job", n, r, end, end, end)
  BY <1>4, <1>8, <1>9, Written DEF Workloads
<1> QED
  BY <1>1, <1>4, <1>7, <1>9, <1>11 DEF JobCommitTo

JobSaveTo(n) ==
  LET o == op["job"] IN
  /\ hist' = [hist EXCEPT !.faults = hist'.faults] /\ unsaved' = unsaved
  /\ \/ Stored("job", n) /\ o.scur /\ (n.pc = "idle" \/ (n.pc = "save" /\ n.sid = o.sid /\ ~n.scur))
     \/ /\ op' = [op EXCEPT !["job"] = n] /\ sess' = sess
        /\ n.pc = "idle" \/ (n.pc = "save" /\ n.sid = o.sid /\ live = n.sid)

LEMMA JobSaveIs ==
  ASSUME Types, Running, JobSave
  PROVE  /\ \E n : Sane(n, "job") /\ JobSaveTo(n)
         /\ hist' \in HistType /\ op["job"].pc = "save"
<1>1. PICK o : o = op["job"]
  OBVIOUS
<1>2. PICK idle : idle = Idle
  OBVIOUS
<1> DEFINE p == "job"
           fault == hist' = [hist EXCEPT !.faults = @ + 1] \/ hist' = hist
<1>3. /\ o.pc = "save" /\ UNCHANGED unsaved
      /\ \/ o.scur /\ Stored(p, idle) /\ UNCHANGED hist
         \/ /\ o.scur /\ MoreTries(o) /\ hist' = [hist EXCEPT !.faults = @ + 1]
            /\ Stored(p, [o EXCEPT !.scur = FALSE, !.tries = @ + 1])
         \/ fault /\ To(p, idle) /\ UNCHANGED sess
         \/ /\ live = o.sid
            /\ To(p, [o EXCEPT !.scur = TRUE, !.redone = TRUE]) /\ UNCHANGED <<sess, hist>>
         \/ To(p, [idle EXCEPT !.out = "failed"]) /\ UNCHANGED <<sess, hist>>
  BY <1>1, <1>2 DEF JobSave, WriteSession
<1>4. o \in OpType /\ Ongoing(o, p) /\ Past(o.st) /\ hist \in HistType /\ hist.faults \in Nat
  BY <1>1, <1>3, Underway DEF Workloads, Types, RestTyped, HistType
<1>5. Sane(idle, p) /\ idle.pc = "idle" /\ idle \in OpType /\ idle.st = EmptyRecord
  BY <1>2, IdleSane, EmptyTypes DEF Workloads
<1> DEFINE faulted == hist' = [hist EXCEPT !.faults = hist'.faults] /\ hist' \in HistType
<1>6. ASSUME hist' = [hist EXCEPT !.faults = @ + 1]
      PROVE  faulted
  BY <1>4, <1>6 DEF HistType
<1>7. ASSUME hist' = hist
      PROVE  faulted
  BY <1>4, <1>7 DEF HistType
<1>8. CASE o.scur /\ Stored(p, idle) /\ UNCHANGED hist
  <2>1. faulted /\ unsaved' = unsaved
    BY <1>3, <1>7, <1>8
  <2> QED
    BY <2>1, <1>1, <1>3, <1>5, <1>8 DEF JobSaveTo
<1>9. CASE /\ o.scur /\ MoreTries(o) /\ hist' = [hist EXCEPT !.faults = @ + 1]
           /\ Stored(p, [o EXCEPT !.scur = FALSE, !.tries = @ + 1])
  <2>0. PICK n : n = [o EXCEPT !.scur = FALSE, !.tries = o.tries + 1]
    OBVIOUS
  <2>1. o.tries + 1 \in 0 .. WriteAttempts - 1
    BY <1>4, <1>9, Bounds DEF MoreTries, OpType
  <2>2. n \in OpType /\ n.pc = "save" /\ n.st = o.st /\ n.t0 = o.t0 /\ n.sid = o.sid
    BY <2>0, <2>1, <1>3, <1>4 DEF OpType
  <2>6. ~n.scur
    BY <2>0, <1>4 DEF OpType
  <2>3. Sane(n, p)
    BY <2>2, <1>4, EarlySane DEF Workloads, Ongoing
  <2>4. Stored(p, n)
    BY <2>0, <1>9
  <2>7. faulted /\ unsaved' = unsaved /\ o.scur
    BY <1>3, <1>6, <1>9
  <2>5. JobSaveTo(n)
    BY <2>2, <2>4, <2>6, <2>7, <1>1 DEF JobSaveTo
  <2> QED
    BY <2>3, <2>5, <2>7, <1>1, <1>3
<1>10. CASE fault /\ To(p, idle) /\ UNCHANGED sess
  <2>1. faulted /\ unsaved' = unsaved
    BY <1>3, <1>6, <1>7, <1>10
  <2>2. JobSaveTo(idle)
    BY <2>1, <1>1, <1>5, <1>10 DEF JobSaveTo, To
  <2> QED
    BY <2>1, <2>2, <1>1, <1>3, <1>5
<1>11. CASE /\ live = o.sid
            /\ To(p, [o EXCEPT !.scur = TRUE, !.redone = TRUE]) /\ UNCHANGED <<sess, hist>>
  <2>0. PICK n : n = [o EXCEPT !.scur = TRUE, !.redone = TRUE]
    OBVIOUS
  <2>2. n \in OpType /\ n.pc = "save" /\ n.st = o.st /\ n.t0 = o.t0 /\ n.sid = o.sid
    BY <2>0, <1>3, <1>4 DEF OpType
  <2>3. Sane(n, p)
    BY <2>2, <1>4, EarlySane DEF Workloads, Ongoing
  <2>4. op' = [op EXCEPT ![p] = n]
    BY <2>0, <1>11 DEF To
  <2>7. faulted /\ unsaved' = unsaved
    BY <1>3, <1>7, <1>11
  <2>5. JobSaveTo(n)
    BY <2>2, <2>4, <2>7, <1>1, <1>11 DEF JobSaveTo
  <2> QED
    BY <2>3, <2>5, <2>7, <1>1, <1>3
<1>12. CASE To(p, [idle EXCEPT !.out = "failed"]) /\ UNCHANGED <<sess, hist>>
  <2>0. PICK n : n = [idle EXCEPT !.out = "failed"]
    OBVIOUS
  <2>2. n \in OpType /\ n.pc = "idle" /\ n.st = EmptyRecord
    BY <2>0, <1>5 DEF OpType, Words
  <2>3. Sane(n, p)
    <3>1. Past(EmptyRecord)
      BY EmptyTypes, Numbers DEF Past
    <3>2. Timely(n, p)
      BY <2>2, <3>1 DEF Timely, Begun, Inside, Ending
    <3> QED
      BY <2>2, <3>2 DEF Sane, Ended
  <2>7. faulted /\ unsaved' = unsaved
    BY <1>3, <1>7, <1>12
  <2>5. JobSaveTo(n)
    BY <2>0, <2>2, <2>7, <1>1, <1>12 DEF JobSaveTo, To
  <2> QED
    BY <2>3, <2>5, <2>7, <1>1, <1>3
<1> QED
  BY <1>3, <1>8, <1>9, <1>10, <1>11, <1>12

-----------------------------------------------------------------------------
(* What holds in every deployment: the sessions. *)

\* A broker that becomes n keeps hold of the session it confirmed, and takes
\* no other for it.
Carried(n) ==
  LET b == op["broker"] IN
  /\ Bringing(b) => Bringing(n)
  /\ n.pc = "confirm" => b.pc = "confirm" /\ n.sid = b.sid
  /\ n.pc \in Ending /\ n.kind = "success" => b.pc \in Ending /\ b.kind = "success" /\ n.sid = b.sid
  /\ n.pc = "probe" /\ n.kind = "rewrite" => n.sid = unsaved.id /\ n.sid # NoSession
  /\ n.pc = "save" => n.sid \in {hist.won, unsaved.id} /\ n.sid # NoSession

\* A job that becomes n has no session but the one it had.
Own(n) ==
  LET j == op["job"] IN
  Fresh(n) => Fresh(j) /\ n.sid = j.sid /\ (n.scur => j.scur)

LEMMA KeptStill ==
  ASSUME Kept, UNCHANGED <<sess, unsaved, live>>, hist'.won = hist.won,
         NEW n, NEW m, op'["broker"] = n, op'["job"] = m, Carried(n), Own(m)
  PROVE  Kept'
<1>1. PICK b, j : b = op["broker"] /\ j = op["job"]
  OBVIOUS
<1>2. hist.won # NoSession /\ live = hist.won => hist.won \in {sess.id, unsaved.id} \/ Bringing(n)'
  BY <1>1 DEF Kept, Carried, Bringing
<1>3. /\ n.pc = "confirm" => n.sid \notin {NoSession, sess.id, hist.won}
      /\ n.pc = "confirm" /\ Fresh(m) => m.sid # n.sid
      /\ n.pc \in Ending /\ n.kind = "success" => n.sid = hist.won /\ n.sid # NoSession
      /\ n.pc = "probe" /\ n.kind = "rewrite" => n.sid = unsaved.id /\ n.sid # NoSession
      /\ n.pc = "save" => n.sid \in {hist.won, unsaved.id} /\ n.sid # NoSession
  BY <1>1 DEF Kept, Carried, Own
<1>4. /\ Fresh(m) => m.sid \notin {NoSession, hist.won}
      /\ Fresh(m) /\ m.scur /\ live = hist.won /\ hist.won # NoSession => sess.id # hist.won
  BY <1>1 DEF Kept, Own
<1>5. unsaved.id # NoSession /\ hist.won # NoSession => unsaved.id = hist.won \/ Bringing(n)'
  BY <1>1 DEF Kept, Carried, Bringing
<1> QED
  BY <1>2, <1>3, <1>4, <1>5 DEF Kept, Fresh

LEMMA CarriedSelf ==
  ASSUME Kept
  PROVE  Carried(op["broker"]) /\ Own(op["job"])
BY DEF Kept, Carried, Own

LEMMA CarriedAlike ==
  ASSUME NEW n, NEW m, n.pc = m.pc, n.kind = m.kind, n.sid = m.sid, n.scur = m.scur
  PROVE  /\ Carried(m) => Carried(n)
         /\ Own(m) => Own(n)
BY DEF Carried, Own, Bringing, Fresh

LEMMA CarriedFlagged ==
  ASSUME NEW n, NEW m \in OpType, Flagged(n, m)
  PROVE  /\ Carried(m) => Carried(n)
         /\ Own(m) => Own(n)
BY FlaggedIs, CarriedAlike

LEMMA RestStill ==
  ASSUME Types, UNCHANGED <<cred, sess, unsaved, live, ask>>, waiting' \subseteq Callers, hist' \in HistType
  PROVE  RestTyped'
BY DEF Types, RestTyped

LEMMA FaultsOnly ==
  ASSUME Types, NEW f \in Nat, hist' = [hist EXCEPT !.faults = f]
  PROVE  /\ hist' \in HistType /\ hist'.won = hist.won /\ hist'.day = hist.day
         /\ hist'.misses = hist.misses /\ hist'.last = hist.last
BY DEF Types, RestTyped, HistType

LEMMA BrMoves ==
  ASSUME BaseInv, UNCHANGED <<dep, clock, rec, sess, unsaved, live>>, RestTyped', hist'.won = hist.won,
         NEW n, BrGoesTo(n), Carried(n)
  PROVE  BaseInv' /\ op'["broker"] = n /\ op'["job"] = op["job"]
<1>1. Types' /\ Running' /\ op'["broker"] = n /\ op'["job"] = op["job"]
  BY Move DEF BaseInv, BrGoesTo, Workloads
<1>2. Own(op["job"])
  BY CarriedSelf DEF BaseInv
<1>3. Kept'
  BY <1>1, <1>2, KeptStill DEF BaseInv
<1> QED
  BY <1>1, <1>3 DEF BaseInv

LEMMA JobMoves ==
  ASSUME BaseInv, UNCHANGED <<dep, clock, rec, sess, unsaved, live>>, RestTyped', hist'.won = hist.won,
         NEW n, JobGoesTo(n), Own(n)
  PROVE  BaseInv' /\ op'["job"] = n /\ op'["broker"] = op["broker"]
<1>1. Types' /\ Running' /\ op'["job"] = n /\ op'["broker"] = op["broker"]
  BY Move DEF BaseInv, JobGoesTo, Workloads
<1>2. Carried(op["broker"])
  BY CarriedSelf DEF BaseInv
<1>3. Kept'
  BY <1>1, <1>2, KeptStill DEF BaseInv
<1> QED
  BY <1>1, <1>3 DEF BaseInv

\* What is left after a write is one of the three ends, or what was there.
LEMMA WriteEnds ==
  ASSUME NEW p, NEW n, NEW r, NEW ok, NEW cas, NEW down, WriteGoes(p, n, r, ok, cas, down)
  PROVE  Flagged(n, ok) \/ Flagged(n, cas) \/ Flagged(n, down) \/ Flagged(n, op[p])
BY DEF WriteGoes, WriteLands, WriteMisses

LEMMA WriteKeeps ==
  ASSUME Types, Running, UNCHANGED <<dep, clock>>, RestTyped', NEW p \in Workloads,
         NEW n, NEW r \in RecordType, Past(r), NEW ok, NEW cas, NEW down,
         WriteGoes(p, n, r, ok, cas, down)
  PROVE  /\ Types' /\ Running' /\ op'[p] = n
         /\ \A q \in Workloads : q # p => op'[q] = op[q] \/ Flagged(op'[q], op[q])
<1>1. CASE op' = Overtaking(p, n) /\ rec' = r
  BY <1>1, Overtake DEF WriteGoes
<1>2. CASE op' = [op EXCEPT ![p] = n] /\ rec' = rec
  BY <1>2, Move DEF WriteGoes
<1> QED
  BY <1>1, <1>2 DEF WriteGoes

LEMMA BrWrites ==
  ASSUME BaseInv, UNCHANGED <<dep, clock, sess, unsaved, live>>, RestTyped', hist'.won = hist.won,
         NEW n, NEW r \in RecordType, Past(r), NEW ok \in OpType, NEW cas \in OpType, NEW down \in OpType,
         WriteGoes("broker", n, r, ok, cas, down), Carried(ok), Carried(cas), Carried(down)
  PROVE  BaseInv'
<1>1. PICK b, j, m : b = op["broker"] /\ j = op["job"] /\ m = op'["job"]
  OBVIOUS
<1>2. b \in OpType /\ j \in OpType
  BY <1>1 DEF BaseInv, Types, Workloads
<1>3. Types' /\ Running' /\ op'["broker"] = n /\ (m = j \/ Flagged(m, j))
  BY <1>1, WriteKeeps DEF BaseInv, Workloads
<1>4. Flagged(n, ok) \/ Flagged(n, cas) \/ Flagged(n, down) \/ Flagged(n, b)
  BY <1>1, WriteEnds
<1>5. Carried(b) /\ Own(j)
  BY <1>1, CarriedSelf DEF BaseInv
<1>6. Carried(n) /\ Own(m)
  BY <1>2, <1>3, <1>4, <1>5, CarriedFlagged
<1>7. Kept'
  BY <1>1, <1>3, <1>6, KeptStill DEF BaseInv
<1> QED
  BY <1>3, <1>7 DEF BaseInv

LEMMA JobWrites ==
  ASSUME BaseInv, UNCHANGED <<dep, clock, sess, unsaved, live>>, RestTyped', hist'.won = hist.won,
         NEW n, NEW r \in RecordType, Past(r), NEW ok \in OpType, NEW cas \in OpType, NEW down \in OpType,
         WriteGoes("job", n, r, ok, cas, down), Own(ok), Own(cas), Own(down)
  PROVE  BaseInv'
<1>1. PICK b, j, m : b = op["broker"] /\ j = op["job"] /\ m = op'["broker"]
  OBVIOUS
<1>2. b \in OpType /\ j \in OpType
  BY <1>1 DEF BaseInv, Types, Workloads
<1>3. Types' /\ Running' /\ op'["job"] = n /\ (m = b \/ Flagged(m, b))
  BY <1>1, WriteKeeps DEF BaseInv, Workloads
<1>4. Flagged(n, ok) \/ Flagged(n, cas) \/ Flagged(n, down) \/ Flagged(n, j)
  BY <1>1, WriteEnds
<1>5. Carried(b) /\ Own(j)
  BY <1>1, CarriedSelf DEF BaseInv
<1>6. Own(n) /\ Carried(m)
  BY <1>2, <1>3, <1>4, <1>5, CarriedFlagged
<1>7. Kept'
  BY <1>1, <1>3, <1>6, KeptStill DEF BaseInv
<1> QED
  BY <1>3, <1>7 DEF BaseInv

-----------------------------------------------------------------------------
(* Every step of the broker keeps BaseInv. *)

LEMMA HistStill ==
  ASSUME Types, hist' \in HistType, hist' = [hist EXCEPT !.faults = hist'.faults]
  PROVE  hist'.won = hist.won
BY DEF Types, RestTyped, HistType

LEMMA BrOpenKeeps ==
  ASSUME BaseInv, BrOpen
  PROVE  BaseInv'
<1>1. UNCHANGED <<dep, clock, cred, rec, sess, live, ask, unsaved, waiting>>
  BY DEF BrOpen
<1>2. PICK n : BrGoesTo(n) /\ BrOpenTo(n)
  BY BrOpenIs DEF BaseInv
<1>3. op["broker"].pc = "open" /\ hist' \in HistType /\ hist'.won = hist.won
  BY BrOpenIs, HistStill DEF BaseInv
<1>4. RestTyped'
  BY <1>1, <1>3, RestStill DEF BaseInv, Types, RestTyped
<1>5. Carried(n)
  BY <1>2, <1>3 DEF Carried, BrOpenTo, Bringing, Ending, BaseInv, Kept
<1> QED
  BY <1>1, <1>2, <1>3, <1>4, <1>5, BrMoves

LEMMA BrReadKeeps ==
  ASSUME BaseInv, BrRead
  PROVE  BaseInv'
<1>1. UNCHANGED <<dep, clock, cred, rec, sess, live, ask, unsaved, waiting>>
  BY DEF BrRead
<1>2. PICK n : BrGoesTo(n) /\ BrReadTo(n)
  BY BrReadIs DEF BaseInv
<1>3. op["broker"].pc = "read" /\ hist' \in HistType /\ hist'.won = hist.won
  BY BrReadIs, HistStill DEF BaseInv
<1>4. RestTyped'
  BY <1>1, <1>3, RestStill DEF BaseInv, Types, RestTyped
<1>5. Carried(n)
  BY <1>2, <1>3 DEF Carried, BrReadTo, Bringing, Ending, BaseInv, Kept
<1> QED
  BY <1>1, <1>2, <1>3, <1>4, <1>5, BrMoves

LEMMA BrProbeKeeps ==
  ASSUME BaseInv, BrProbe
  PROVE  BaseInv'
<1>1. UNCHANGED <<dep, clock, cred, rec, sess, live, ask, unsaved, waiting>>
  BY DEF BrProbe
<1>2. PICK n : BrGoesTo(n) /\ BrProbeTo(n)
  BY BrProbeIs DEF BaseInv
<1>3. op["broker"].pc = "probe" /\ hist' \in HistType /\ hist'.won = hist.won
  BY BrProbeIs DEF BaseInv, BrProbe, Types, RestTyped
<1>4. RestTyped'
  BY <1>1, <1>3, RestStill DEF BaseInv, Types, RestTyped
<1>5. Carried(n)
  BY <1>2, <1>3 DEF Carried, BrProbeTo, Bringing, Ending, BaseInv, Kept
<1> QED
  BY <1>1, <1>2, <1>3, <1>4, <1>5, BrMoves

LEMMA BrGateKeeps ==
  ASSUME BaseInv, BrGate
  PROVE  BaseInv'
<1>1. UNCHANGED <<dep, clock, cred, rec, sess, live, ask, unsaved, waiting>>
  BY DEF BrGate
<1>2. PICK n : BrGoesTo(n) /\ BrGateTo(n)
  BY BrGateIs DEF BaseInv
<1>3. op["broker"].pc = "gate" /\ hist' \in HistType /\ hist'.won = hist.won
  BY BrGateIs, HistStill DEF BaseInv
<1>4. RestTyped'
  BY <1>1, <1>3, RestStill DEF BaseInv, Types, RestTyped
<1>5. Carried(n)
  BY <1>2, <1>3 DEF Carried, BrGateTo, Bringing, Ending, BaseInv, Kept
<1> QED
  BY <1>1, <1>2, <1>3, <1>4, <1>5, BrMoves

LEMMA BrAttemptKeeps ==
  ASSUME BaseInv, BrAttempt
  PROVE  BaseInv'
<1>1. UNCHANGED <<dep, clock, cred, rec, sess, live, ask, unsaved, waiting>>
  BY DEF BrAttempt
<1>2. PICK n : BrGoesTo(n) /\ BrAttemptTo(n)
  BY BrAttemptIs DEF BaseInv
<1>3. op["broker"].pc = "attempt" /\ hist' \in HistType /\ hist'.won = hist.won
  BY BrAttemptIs DEF BaseInv, BrAttempt, Types, RestTyped
<1>4. RestTyped'
  BY <1>1, <1>3, RestStill DEF BaseInv, Types, RestTyped
<1>5. Carried(n)
  BY <1>2, <1>3 DEF Carried, BrAttemptTo, Bringing, Ending, BaseInv, Kept
<1> QED
  BY <1>1, <1>2, <1>3, <1>4, <1>5, BrMoves

LEMMA BrRereadKeeps ==
  ASSUME BaseInv, BrReread
  PROVE  BaseInv'
<1>1. UNCHANGED <<dep, clock, cred, rec, sess, live, ask, unsaved, waiting>>
  BY DEF BrReread
<1>2. PICK n : BrGoesTo(n) /\ BrRereadTo(n)
  BY BrRereadIs DEF BaseInv
<1>3. op["broker"].pc = "reread" /\ hist' \in HistType /\ hist'.won = hist.won
  BY BrRereadIs, HistStill DEF BaseInv
<1>4. RestTyped'
  BY <1>1, <1>3, RestStill DEF BaseInv, Types, RestTyped
<1>5. Carried(n)
  BY <1>2, <1>3 DEF Carried, BrRereadTo, BrRecordedTo, Bringing, Ending, BaseInv, Kept
<1> QED
  BY <1>1, <1>2, <1>3, <1>4, <1>5, BrMoves

LEMMA BrSettleKeeps ==
  ASSUME BaseInv, BrSettle
  PROVE  BaseInv'
<1>1. UNCHANGED <<dep, clock, cred, sess, live, ask, unsaved, waiting>>
  BY DEF BrSettle
<1>2. PICK n, ok, cas, down : BrSettleTo(n, ok, cas, down)
  BY BrSettleIs DEF BaseInv
<1>3. op["broker"].pc = "settle" /\ hist' \in HistType /\ hist'.won = hist.won
  BY BrSettleIs, FaultsOnly DEF BaseInv
<1>4. RestTyped'
  BY <1>1, <1>3, RestStill DEF BaseInv, Types, RestTyped
<1>5. PICK o : o = op["broker"]
  OBVIOUS
<1>6. o.st \in RecordType /\ Past(o.st)
  BY <1>3, <1>5, Underway DEF BaseInv, Workloads
<1>7. /\ WriteGoes("broker", n, o.st, ok, cas, down)
      /\ ok \in OpType /\ cas \in OpType /\ down \in OpType
  BY <1>2, <1>5 DEF BrSettleTo, Sane
<1>8. Carried(ok) /\ Carried(cas) /\ Carried(down)
  BY <1>2, <1>3 DEF Carried, BrSettleTo, BrPast, Bringing, Ending
<1> QED
  BY <1>1, <1>3, <1>4, <1>6, <1>7, <1>8, BrWrites

LEMMA BrMarkKeeps ==
  ASSUME BaseInv, BrMark
  PROVE  BaseInv'
<1>1. UNCHANGED <<dep, clock, cred, sess, live, ask, unsaved, waiting>>
  BY DEF BrMark
<1>2. PICK n, ok, cas, down : BrMarkTo(n, ok, cas, down)
  BY BrMarkIs DEF BaseInv
<1>3. op["broker"].pc = "mark" /\ hist' \in HistType /\ hist'.won = hist.won
  BY BrMarkIs, FaultsOnly DEF BaseInv
<1>4. RestTyped'
  BY <1>1, <1>3, RestStill DEF BaseInv, Types, RestTyped
<1>5. PICK o : o = op["broker"]
  OBVIOUS
<1>6. o.st \in RecordType /\ Past(o.st)
  BY <1>3, <1>5, Underway DEF BaseInv, Workloads
<1>7. /\ WriteGoes("broker", n, o.st, ok, cas, down)
      /\ ok \in OpType /\ cas \in OpType /\ down \in OpType
  BY <1>2, <1>5 DEF BrMarkTo, Sane
<1>8. Carried(ok) /\ Carried(cas) /\ Carried(down)
  BY <1>2, <1>3 DEF Carried, BrMarkTo, Bringing, Ending
<1> QED
  BY <1>1, <1>3, <1>4, <1>6, <1>7, <1>8, BrWrites

LEMMA BrCommitKeeps ==
  ASSUME BaseInv, BrCommit
  PROVE  BaseInv'
<1>1. UNCHANGED <<dep, clock, cred, sess, live, ask, unsaved, waiting>>
  BY DEF BrCommit
<1>2. PICK n, r, ok, cas, down : BrCommitTo(n, r, ok, cas, down)
  BY BrCommitIs DEF BaseInv
<1>3. op["broker"].pc = "commit" /\ hist' \in HistType /\ hist'.won = hist.won
  BY BrCommitIs, FaultsOnly DEF BaseInv
<1>4. RestTyped'
  BY <1>1, <1>3, RestStill DEF BaseInv, Types, RestTyped
<1>5. PICK o : o = op["broker"]
  OBVIOUS
<1>6. /\ o.st \in RecordType /\ Past(o.st) /\ o.pc \in Ending
      /\ o.started \in 0 .. MaxClock /\ o.started <= clock
      /\ o.kind \in {"held", "not_submitted", "rejected", "failed", "success"}
  BY <1>3, <1>5, Underway DEF BaseInv, Workloads, Begun, Ending, Ended
<1>7. /\ WriteGoes("broker", n, r, ok, cas, down) /\ BrLeaves(r, o, o.st)
      /\ ok \in OpType /\ cas \in OpType /\ down \in OpType
  BY <1>2, <1>5 DEF BrCommitTo, BrRecordedTo, Sane
<1>8. r \in RecordType /\ Past(r)
  BY <1>6, <1>7, LeavesPast DEF BaseInv
<1>9. o.kind = "success" => o.sid = hist.won /\ o.sid # NoSession
  BY <1>5, <1>6 DEF BaseInv, Kept
<1>10. Carried(ok) /\ Carried(cas) /\ Carried(down)
  BY <1>2, <1>5, <1>6, <1>9 DEF Carried, BrCommitTo, BrRecordedTo, Bringing, Ending
<1> QED
  BY <1>1, <1>3, <1>4, <1>7, <1>8, <1>10, BrWrites

LEMMA BrRewriteKeeps ==
  ASSUME BaseInv, BrRewrite
  PROVE  BaseInv'
<1>1. UNCHANGED <<dep, clock, cred, sess, live, ask, unsaved, waiting>>
  BY DEF BrRewrite
<1>2. PICK n, r, end : BrRewriteTo(n, r, end)
  BY BrRewriteIs DEF BaseInv
<1>3. op["broker"].pc = "rewrite" /\ hist' \in HistType /\ hist'.won = hist.won
  BY BrRewriteIs, FaultsOnly DEF BaseInv
<1>4. RestTyped'
  BY <1>1, <1>3, RestStill DEF BaseInv, Types, RestTyped
<1>5. PICK o : o = op["broker"]
  OBVIOUS
<1>6. /\ o.st \in RecordType /\ Past(o.st) /\ o.pc \in Ending
      /\ o.started \in 0 .. MaxClock /\ o.started <= clock
      /\ o.kind \in {"held", "not_submitted", "rejected", "failed", "success"}
  BY <1>3, <1>5, Underway DEF BaseInv, Workloads, Begun, Ending, Ended
<1>7. /\ WriteGoes("broker", n, r, end, end, end) /\ BrLeaves(r, o, o.st)
      /\ end \in OpType
  BY <1>2, <1>5 DEF BrRewriteTo, BrRecordedTo, Sane
<1>8. r \in RecordType /\ Past(r)
  BY <1>6, <1>7, LeavesPast DEF BaseInv
<1>9. o.kind = "success" => o.sid = hist.won /\ o.sid # NoSession
  BY <1>5, <1>6 DEF BaseInv, Kept
<1>10. Carried(end)
  BY <1>2, <1>5, <1>6, <1>9 DEF Carried, BrRewriteTo, BrRecordedTo, Bringing, Ending
<1> QED
  BY <1>1, <1>3, <1>4, <1>7, <1>8, <1>10, BrWrites

LEMMA BrLoginKeeps ==
  ASSUME BaseInv, BrLogin
  PROVE  BaseInv'
<1>1. UNCHANGED <<dep, clock, cred, rec, sess, ask, unsaved, waiting>>
  BY DEF BrLogin
<1>2. PICK e \in LoginEnds, n \in OpType :
        /\ BrGoesTo(n) /\ BrLoginTo(n, e) /\ Submits("broker", e, hist')
        /\ live' = IF e.began THEN NewSession ELSE live
  BY BrLoginIs DEF BaseInv
<1>3. PICK b, j : b = op["broker"] /\ j = op["job"]
  OBVIOUS
<1>4. b.pc = "login" /\ hist' \in HistType /\ hist'.won = hist.won
  BY <1>2, <1>3, BrLoginIs DEF BaseInv, Submits
<1>5. PICK s : s = NewSession
  OBVIOUS
<1>6. /\ s \in Ids /\ s \notin {NoSession, sess.id, live, unsaved.id, hist.won, j.sid}
  BY <1>3, <1>5, NewSessionIsNew DEF InUse, Workloads, Ids, Sessions, NoSession
<1>7. live' \in {s, live}
  BY <1>2, <1>5
<1>8. RestTyped'
  BY <1>1, <1>4, <1>6, <1>7 DEF BaseInv, Types, RestTyped
<1>9. Types' /\ Running' /\ op'["broker"] = n /\ op'["job"] = j
  BY <1>1, <1>2, <1>3, <1>8, Move DEF BaseInv, BrGoesTo, Workloads
<1>10. /\ n.pc \in {"confirm", "attempt", "commit"} /\ (n.pc = "confirm" => n.sid = s)
       /\ n.pc = "commit" => n.kind # "success"
  BY <1>2, <1>5 DEF BrLoginTo
<1>11. Kept'
  BY <1>1, <1>3, <1>4, <1>6, <1>7, <1>9, <1>10 DEF BaseInv, Kept, Bringing, Fresh, Ending
<1> QED
  BY <1>9, <1>11 DEF BaseInv

LEMMA BrConfirmKeeps ==
  ASSUME BaseInv, BrConfirm
  PROVE  BaseInv'
<1>1. UNCHANGED <<dep, clock, cred, rec, sess, live, ask, unsaved, waiting>>
  BY DEF BrConfirm
<1>2. PICK n : BrGoesTo(n) /\ BrConfirmTo(n)
  BY BrConfirmIs DEF BaseInv
<1>3. PICK b, j : b = op["broker"] /\ j = op["job"]
  OBVIOUS
<1>4. b.pc = "confirm" /\ hist' \in HistType
  BY <1>3, BrConfirmIs DEF BaseInv
<1>5. RestTyped'
  BY <1>1, <1>4, RestStill DEF BaseInv, Types, RestTyped
<1>6. Types' /\ Running' /\ op'["broker"] = n /\ op'["job"] = j
  BY <1>1, <1>2, <1>3, <1>5, Move DEF BaseInv, BrGoesTo, Workloads
<1>7. /\ n.pc = "commit" /\ n.sid = b.sid
      /\ \/ n.kind = "success" /\ hist'.won = b.sid
         \/ n.kind = "failed" /\ hist'.won = hist.won
  <2>1. CASE n.kind = "success" /\ hist' = [hist EXCEPT !.misses = 0, !.won = b.sid]
    BY <1>2, <1>3, <2>1 DEF BrConfirmTo, BaseInv, Types, RestTyped, HistType
  <2>2. CASE n.kind = "failed" /\ hist' = hist
    BY <1>2, <1>3, <2>2 DEF BrConfirmTo
  <2> QED
    BY <1>2, <1>3, <2>1, <2>2 DEF BrConfirmTo
<1>8. Kept'
  <2>1. CASE n.kind = "success" /\ hist'.won = b.sid
    BY <1>1, <1>3, <1>4, <1>6, <1>7, <2>1 DEF BaseInv, Kept, Bringing, Fresh, Ending
  <2>2. CASE n.kind = "failed" /\ hist'.won = hist.won
    BY <1>1, <1>3, <1>4, <1>6, <1>7, <2>2 DEF BaseInv, Kept, Bringing, Fresh, Ending
  <2> QED
    BY <1>7, <2>1, <2>2
<1> QED
  BY <1>6, <1>8 DEF BaseInv

LEMMA BrSaveKeeps ==
  ASSUME BaseInv, BrSave
  PROVE  BaseInv'
<1>1. UNCHANGED <<dep, clock, cred, rec, live, ask, waiting>>
  BY DEF BrSave
<1>2. PICK n : Sane(n, "broker") /\ BrSaveTo(n)
  BY BrSaveIs DEF BaseInv
<1>3. PICK b, j : b = op["broker"] /\ j = op["job"]
  OBVIOUS
<1>4. b.pc = "save" /\ hist' \in HistType /\ hist \in HistType /\ b \in OpType
  BY <1>3, BrSaveIs DEF BaseInv, Types, RestTyped, Workloads
<1> DEFINE none == [id |-> NoSession, at |-> None]
           mine == [id |-> b.sid, at |-> b.sat]
<1>5. none \in [id : Ids, at : Times] /\ mine \in [id : Ids, at : Times]
      /\ none.id = NoSession /\ mine.id = b.sid
  BY <1>4, EmptyTypes DEF OpType
<1>6. /\ b.sid # NoSession /\ b.sid \in {hist.won, unsaved.id}
      /\ hist.won # NoSession => b.sid = hist.won
  BY <1>3, <1>4 DEF BaseInv, Kept, Bringing, Ending
<1>7. \/ n.pc = "answer"
      \/ n.pc = "save" /\ n.sid = b.sid
  BY <1>2, <1>3 DEF BrSaveTo
<1> HIDE DEF none, mine
<1>8. ASSUME Stored("broker", n), hist'.won = hist.won,
             (n.pc = "answer" /\ unsaved' = none) \/ (n.pc = "save" /\ unsaved' = unsaved)
      PROVE  BaseInv'
  <2>1. sess' = mine
    BY <1>3, <1>8 DEF Stored, mine
  <2>3. RestTyped'
    BY <1>1, <1>4, <1>5, <1>8, <2>1 DEF BaseInv, Types, RestTyped
  <2>4. PICK m : m = op'["job"]
    OBVIOUS
  <2>5. Types' /\ Running' /\ op'["broker"] = n /\ Unaware(m, j)
    BY <1>1, <1>2, <1>3, <1>8, <2>3, <2>4, StoreMove DEF BaseInv, Workloads, BrSave
  <2>6. Sane(j, "job")
    BY <1>3 DEF BaseInv, Running, Workloads
  <2>7. m.pc = j.pc /\ m.kind = j.kind /\ m.sid = j.sid /\ ~m.scur
    BY <2>5, <2>6, UnawareIs DEF Workloads
  <2>8. sess'.id = b.sid /\ unsaved'.id \in {NoSession, unsaved.id}
        /\ (n.pc = "save" => unsaved'.id = unsaved.id)
    BY <1>5, <1>8, <2>1
  <2>9. Fresh(j) => j.sid \notin {NoSession, hist.won}
    BY <1>3 DEF BaseInv, Kept
  <2>10. Fresh(m) <=> Fresh(j)
    BY <2>7 DEF Fresh
  <2>11. \/ n.pc = "answer" /\ unsaved'.id = NoSession
         \/ n.pc = "save" /\ n.sid = b.sid /\ unsaved'.id = unsaved.id
    BY <1>5, <1>7, <1>8
  <2>12. Kept'
    BY <1>1, <1>6, <1>8, <2>4, <2>5, <2>7, <2>8, <2>9, <2>10, <2>11
    DEF Kept, Bringing, Ending, Fresh
  <2> QED
    BY <2>5, <2>12 DEF BaseInv
<1>9. ASSUME op' = [op EXCEPT !["broker"] = n], sess' = sess,
             \/ n.pc = "answer" /\ unsaved' = mine /\ hist'.won = hist.won
             \/ n.pc = "answer" /\ unsaved' = none /\ hist'.won = NoSession
             \/ n.pc = "save" /\ unsaved' = unsaved /\ hist'.won = hist.won
      PROVE  BaseInv'
  <2>1. RestTyped'
    BY <1>1, <1>4, <1>5, <1>9 DEF BaseInv, Types, RestTyped
  <2>2. Types' /\ Running' /\ op'["broker"] = n /\ op'["job"] = j
    BY <1>1, <1>2, <1>3, <1>9, <2>1, Move DEF BaseInv, Workloads
  <2>3. \/ n.pc = "answer" /\ unsaved'.id = b.sid /\ hist'.won = hist.won
        \/ n.pc = "answer" /\ unsaved'.id = NoSession /\ hist'.won = NoSession
        \/ n.pc = "save" /\ n.sid = b.sid /\ unsaved'.id = unsaved.id /\ hist'.won = hist.won
    BY <1>5, <1>7, <1>9
  <2>4. /\ Fresh(j) => j.sid \notin {NoSession, hist.won}
        /\ Fresh(j) /\ j.scur /\ live = hist.won /\ hist.won # NoSession => sess.id # hist.won
    BY <1>3 DEF BaseInv, Kept
  <2>5. Kept'
    BY <1>1, <1>6, <1>9, <2>2, <2>3, <2>4 DEF Kept, Bringing, Ending, Fresh
  <2> QED
    BY <2>2, <2>5 DEF BaseInv
<1>10. \A f : hist' = [hist EXCEPT !.faults = f] => hist'.won = hist.won
  BY <1>4 DEF HistType
<1>11. hist' = [hist EXCEPT !.won = NoSession] => hist'.won = NoSession
  BY <1>4 DEF HistType
<1>12. \/ Stored("broker", n) /\ n.pc = "answer" /\ unsaved' = none /\ hist' = hist
       \/ /\ Stored("broker", n) /\ n.pc = "save" /\ unsaved' = unsaved
          /\ hist' = [hist EXCEPT !.faults = hist'.faults]
       \/ /\ op' = [op EXCEPT !["broker"] = n] /\ sess' = sess
          /\ \/ n.pc = "answer" /\ unsaved' = mine /\ hist' = [hist EXCEPT !.faults = hist'.faults]
             \/ n.pc = "answer" /\ unsaved' = none /\ hist' = [hist EXCEPT !.won = NoSession]
             \/ n.pc = "save" /\ unsaved' = unsaved /\ hist' = hist
  BY <1>2, <1>3 DEF BrSaveTo, none, mine
<1> QED
  BY <1>8, <1>9, <1>10, <1>11, <1>12

-----------------------------------------------------------------------------
(* Every step of the job keeps BaseInv. *)

LEMMA JobOpenKeeps ==
  ASSUME BaseInv, JobOpen
  PROVE  BaseInv'
<1>1. UNCHANGED <<dep, clock, cred, rec, sess, live, ask, unsaved, waiting>>
  BY DEF JobOpen
<1>2. PICK n : JobGoesTo(n) /\ JobOpenTo(n)
  BY JobOpenIs DEF BaseInv
<1>3. op["job"].pc = "open" /\ hist' \in HistType /\ hist'.won = hist.won
  BY JobOpenIs, HistStill DEF BaseInv
<1>4. RestTyped'
  BY <1>1, <1>3, RestStill DEF BaseInv, Types, RestTyped
<1>5. Own(n)
  BY <1>2, <1>3, EmptyTypes DEF Own, JobOpenTo, Fresh, JobPast
<1> QED
  BY <1>1, <1>2, <1>3, <1>4, <1>5, JobMoves

LEMMA JobReadKeeps ==
  ASSUME BaseInv, JobRead
  PROVE  BaseInv'
<1>1. UNCHANGED <<dep, clock, cred, rec, sess, live, ask, unsaved, waiting>>
  BY DEF JobRead
<1>2. PICK n : JobGoesTo(n) /\ JobReadTo(n)
  BY JobReadIs DEF BaseInv
<1>3. op["job"].pc = "read" /\ hist' \in HistType /\ hist'.won = hist.won
  BY JobReadIs, HistStill DEF BaseInv
<1>4. RestTyped'
  BY <1>1, <1>3, RestStill DEF BaseInv, Types, RestTyped
<1>5. Own(n)
  BY <1>2, <1>3, EmptyTypes DEF Own, JobReadTo, Fresh, JobPast
<1> QED
  BY <1>1, <1>2, <1>3, <1>4, <1>5, JobMoves

LEMMA JobProbeKeeps ==
  ASSUME BaseInv, JobProbe
  PROVE  BaseInv'
<1>1. UNCHANGED <<dep, clock, cred, rec, sess, live, ask, unsaved, waiting>>
  BY DEF JobProbe
<1>2. PICK n : JobGoesTo(n) /\ JobProbeTo(n)
  BY JobProbeIs DEF BaseInv
<1>3. op["job"].pc = "probe" /\ hist' \in HistType /\ hist'.won = hist.won
  BY JobProbeIs DEF BaseInv, JobProbe, Types, RestTyped
<1>4. RestTyped'
  BY <1>1, <1>3, RestStill DEF BaseInv, Types, RestTyped
<1>5. Own(n)
  BY <1>2, <1>3, EmptyTypes DEF Own, JobProbeTo, Fresh, JobPast
<1> QED
  BY <1>1, <1>2, <1>3, <1>4, <1>5, JobMoves

LEMMA JobGateKeeps ==
  ASSUME BaseInv, JobGate
  PROVE  BaseInv'
<1>1. UNCHANGED <<dep, clock, cred, rec, sess, live, ask, unsaved, waiting>>
  BY DEF JobGate
<1>2. PICK n : JobGoesTo(n) /\ JobGateTo(n)
  BY JobGateIs DEF BaseInv
<1>3. op["job"].pc = "gate" /\ hist' \in HistType /\ hist'.won = hist.won
  BY JobGateIs, HistStill DEF BaseInv
<1>4. RestTyped'
  BY <1>1, <1>3, RestStill DEF BaseInv, Types, RestTyped
<1>5. Own(n)
  BY <1>2, <1>3, EmptyTypes DEF Own, JobGateTo, Fresh, JobPast
<1> QED
  BY <1>1, <1>2, <1>3, <1>4, <1>5, JobMoves

LEMMA JobAttemptKeeps ==
  ASSUME BaseInv, JobAttempt
  PROVE  BaseInv'
<1>1. UNCHANGED <<dep, clock, cred, rec, sess, live, ask, unsaved, waiting>>
  BY DEF JobAttempt
<1>2. PICK n : JobGoesTo(n) /\ JobAttemptTo(n)
  BY JobAttemptIs DEF BaseInv
<1>3. op["job"].pc = "attempt" /\ hist' \in HistType /\ hist'.won = hist.won
  BY JobAttemptIs DEF BaseInv, JobAttempt, Types, RestTyped
<1>4. RestTyped'
  BY <1>1, <1>3, RestStill DEF BaseInv, Types, RestTyped
<1>5. Own(n)
  BY <1>2, <1>3, EmptyTypes DEF Own, JobAttemptTo, Fresh, JobPast
<1> QED
  BY <1>1, <1>2, <1>3, <1>4, <1>5, JobMoves

\* The ends of the job's writes: the exit, or on with the run, without a
\* session of its own.
LEMMA JobWriteKeeps ==
  ASSUME BaseInv, op["job"].pc # "idle", UNCHANGED <<dep, clock, cred, sess, live, ask, unsaved, waiting>>,
         hist'.faults \in Nat, hist' = [hist EXCEPT !.faults = hist'.faults],
         NEW n, NEW ok \in OpType, ~Fresh(ok),
         WriteGoes("job", n, op["job"].st, ok, Idle, Idle)
  PROVE  BaseInv'
<1>1. hist' \in HistType /\ hist'.won = hist.won
  BY FaultsOnly DEF BaseInv
<1>2. RestTyped'
  BY <1>1, RestStill DEF BaseInv, Types, RestTyped
<1>3. PICK st, idle : st = op["job"].st /\ idle = Idle
  OBVIOUS
<1>4. st \in RecordType /\ Past(st) /\ idle \in OpType /\ idle.pc = "idle"
  BY <1>3, Underway, EmptyTypes DEF BaseInv, Workloads
<1>5. Own(ok) /\ Own(idle)
  BY <1>4 DEF Own, Fresh
<1>6. WriteGoes("job", n, st, ok, idle, idle)
  BY <1>3
<1> QED
  BY <1>1, <1>2, <1>4, <1>5, <1>6, JobWrites

LEMMA JobSettleKeeps ==
  ASSUME BaseInv, JobSettle
  PROVE  BaseInv'
<1>1. UNCHANGED <<dep, clock, cred, sess, live, ask, unsaved, waiting>>
  BY DEF JobSettle
<1>2. PICK n, ok : JobSettleTo(n, ok)
  BY JobSettleIs DEF BaseInv
<1>3. op["job"].pc = "settle" /\ hist'.faults \in Nat /\ hist' = [hist EXCEPT !.faults = hist'.faults]
  BY JobSettleIs DEF BaseInv
<1>4. WriteGoes("job", n, op["job"].st, ok, Idle, Idle) /\ ok \in OpType
      /\ (ok = Idle \/ ok.pc = "read")
  BY <1>2 DEF JobSettleTo, JobPast, Sane
<1>5. ~Fresh(ok)
  BY <1>4, EmptyTypes DEF Fresh
<1> QED
  BY <1>1, <1>3, <1>4, <1>5, JobWriteKeeps

LEMMA JobServeKeeps ==
  ASSUME BaseInv, JobServe
  PROVE  BaseInv'
<1>1. UNCHANGED <<dep, clock, cred, sess, live, ask, unsaved, waiting>>
  BY DEF JobServe
<1>2. PICK n : JobServeTo(n)
  BY JobServeIs DEF BaseInv
<1>3. op["job"].pc = "serve" /\ hist'.faults \in Nat /\ hist' = [hist EXCEPT !.faults = hist'.faults]
  BY JobServeIs DEF BaseInv
<1>4. WriteGoes("job", n, op["job"].st, Idle, Idle, Idle) /\ Idle \in OpType /\ ~Fresh(Idle)
  BY <1>2, EmptyTypes DEF JobServeTo, Fresh
<1> QED
  BY <1>1, <1>3, <1>4, JobWriteKeeps

LEMMA JobMarkKeeps ==
  ASSUME BaseInv, JobMark
  PROVE  BaseInv'
<1>1. UNCHANGED <<dep, clock, cred, sess, live, ask, unsaved, waiting>>
  BY DEF JobMark
<1>2. PICK n, ok : JobMarkTo(n, ok)
  BY JobMarkIs DEF BaseInv
<1>3. op["job"].pc = "mark" /\ hist'.faults \in Nat /\ hist' = [hist EXCEPT !.faults = hist'.faults]
  BY JobMarkIs DEF BaseInv
<1>4. WriteGoes("job", n, op["job"].st, ok, Idle, Idle) /\ ok \in OpType /\ ok.pc = "attempt"
  BY <1>2 DEF JobMarkTo, Sane
<1>5. ~Fresh(ok)
  BY <1>4 DEF Fresh
<1> QED
  BY <1>1, <1>3, <1>4, <1>5, JobWriteKeeps

LEMMA JobCommitKeeps ==
  ASSUME BaseInv, JobCommit
  PROVE  BaseInv'
<1>1. UNCHANGED <<dep, clock, cred, sess, live, ask, unsaved, waiting>>
  BY DEF JobCommit
<1>2. PICK n, r, end : JobCommitTo(n, r, end)
  BY JobCommitIs DEF BaseInv
<1>3. op["job"].pc = "commit" /\ hist' \in HistType /\ hist'.won = hist.won
  BY JobCommitIs, FaultsOnly DEF BaseInv
<1>4. RestTyped'
  BY <1>1, <1>3, RestStill DEF BaseInv, Types, RestTyped
<1>5. PICK o : o = op["job"]
  OBVIOUS
<1>6. /\ o.st \in RecordType /\ Past(o.st)
      /\ o.started \in 0 .. MaxClock /\ o.started <= clock
      /\ o.kind \in {"not_submitted", "unknown", "rejected", "unconfirmed", "success"}
  BY <1>3, <1>5, Underway DEF BaseInv, Workloads, Begun, Ending, Ended
<1>7. /\ WriteGoes("job", n, r, end, end, end) /\ JobLeaves(r, o, o.st) /\ end \in OpType
  BY <1>2, <1>5 DEF JobCommitTo, Sane
<1>8. r \in RecordType /\ Past(r)
  BY <1>6, <1>7, JobLeavesPast DEF BaseInv
<1>9. Own(end)
  <2>1. CASE end = Idle
    BY <2>1, EmptyTypes DEF Own, Fresh
  <2>2. CASE o.kind = "success" /\ end.pc = "save" /\ end.sid = o.sid /\ end.scur = o.scur
    BY <2>2, <1>3, <1>5 DEF Own, Fresh
  <2> QED
    BY <2>1, <2>2, <1>2, <1>5 DEF JobCommitTo
<1> QED
  BY <1>1, <1>3, <1>4, <1>7, <1>8, <1>9, JobWrites

LEMMA JobLoginKeeps ==
  ASSUME BaseInv, JobLogin
  PROVE  BaseInv'
<1>1. UNCHANGED <<dep, clock, cred, rec, sess, ask, unsaved, waiting>>
  BY DEF JobLogin
<1>2. PICK e \in LoginEnds, n \in OpType :
        /\ JobGoesTo(n) /\ JobLoginTo(n, e) /\ Submits("job", e, hist')
        /\ live' = IF e.began THEN NewSession ELSE live
  BY JobLoginIs DEF BaseInv
<1>3. PICK b, j : b = op["broker"] /\ j = op["job"]
  OBVIOUS
<1>4. j.pc = "login" /\ hist' \in HistType /\ hist'.won = hist.won
  BY <1>2, <1>3, JobLoginIs DEF BaseInv, Submits
<1>5. PICK s : s = NewSession
  OBVIOUS
<1>6. /\ s \in Ids /\ s \notin {NoSession, sess.id, live, unsaved.id, hist.won, b.sid}
  BY <1>3, <1>5, NewSessionIsNew DEF InUse, Workloads, Ids, Sessions, NoSession
<1>7. live' \in {s, live} /\ (n.pc = "confirm" => live' = s)
  BY <1>2, <1>5, LoginEndsIs DEF JobLoginTo
<1>8. RestTyped'
  BY <1>1, <1>4, <1>6, <1>7 DEF BaseInv, Types, RestTyped
<1>9. Types' /\ Running' /\ op'["job"] = n /\ op'["broker"] = b
  BY <1>1, <1>2, <1>3, <1>8, Move DEF BaseInv, JobGoesTo, Workloads
<1>10. /\ n.pc \in {"confirm", "attempt", "commit"} /\ (n.pc = "confirm" => n.sid = s)
       /\ n.pc = "commit" => n.kind # "success"
  BY <1>2, <1>5 DEF JobLoginTo
<1>11. Kept'
  BY <1>1, <1>3, <1>4, <1>6, <1>7, <1>9, <1>10 DEF BaseInv, Kept, Bringing, Fresh, Ending
<1> QED
  BY <1>9, <1>11 DEF BaseInv

LEMMA JobConfirmKeeps ==
  ASSUME BaseInv, JobConfirm
  PROVE  BaseInv'
<1>1. UNCHANGED <<dep, clock, cred, rec, sess, live, ask, unsaved, waiting>>
  BY DEF JobConfirm
<1>2. PICK n : JobGoesTo(n) /\ JobConfirmTo(n)
  BY JobConfirmIs DEF BaseInv
<1>3. op["job"].pc = "confirm" /\ hist' \in HistType
  BY JobConfirmIs DEF BaseInv
<1>4. RestTyped'
  BY <1>1, <1>3, RestStill DEF BaseInv, Types, RestTyped
<1>5. hist'.won = hist.won
  BY <1>2 DEF JobConfirmTo, BaseInv, Types, RestTyped, HistType
<1>6. Own(n)
  BY <1>2, <1>3 DEF Own, JobConfirmTo, Fresh
<1> QED
  BY <1>1, <1>2, <1>4, <1>5, <1>6, JobMoves

LEMMA JobSaveKeeps ==
  ASSUME BaseInv, JobSave
  PROVE  BaseInv'
<1>1. UNCHANGED <<dep, clock, cred, rec, live, ask, waiting>>
  BY DEF JobSave
<1>2. PICK n : Sane(n, "job") /\ JobSaveTo(n)
  BY JobSaveIs DEF BaseInv
<1>3. PICK b, j : b = op["broker"] /\ j = op["job"]
  OBVIOUS
<1>4. j.pc = "save" /\ hist' \in HistType /\ hist \in HistType /\ j \in OpType
  BY <1>3, JobSaveIs DEF BaseInv, Types, RestTyped, Workloads
<1>5. unsaved' = unsaved /\ hist'.won = hist.won
  BY <1>2, <1>4 DEF JobSaveTo, HistType
<1>6. /\ j.sid \notin {NoSession, hist.won}
      /\ j.scur /\ live = hist.won /\ hist.won # NoSession => sess.id # hist.won
  BY <1>3, <1>4 DEF BaseInv, Kept, Fresh
<1>7. CASE Stored("job", n) /\ j.scur /\ (n.pc = "idle" \/ (n.pc = "save" /\ n.sid = j.sid /\ ~n.scur))
  <2>1. sess' = [id |-> j.sid, at |-> j.sat]
    BY <1>3, <1>7 DEF Stored
  <2>2. sess' \in [id : Ids, at : Times] /\ sess'.id = j.sid
    BY <2>1, <1>4 DEF OpType
  <2>3. RestTyped'
    BY <1>1, <1>4, <1>5, <2>2 DEF BaseInv, Types, RestTyped
  <2>4. PICK m : m = op'["broker"]
    OBVIOUS
  <2>5. Types' /\ Running' /\ op'["job"] = n /\ Unaware(m, b)
    BY <1>1, <1>2, <1>3, <1>7, <2>3, <2>4, StoreMove DEF BaseInv, Workloads, JobSave
  <2>6. Sane(b, "broker")
    BY <1>3 DEF BaseInv, Running, Workloads
  <2>7. m.pc = b.pc /\ m.kind = b.kind /\ m.sid = b.sid
    BY <2>5, <2>6, UnawareIs DEF Workloads
  <2>8. Bringing(b) => Bringing(m)'
    BY <1>5, <2>7 DEF Bringing
  <2>9. b.pc = "confirm" => b.sid # j.sid
    BY <1>3, <1>4 DEF BaseInv, Kept, Fresh
  <2>10. Kept'
    <3>1. hist.won # NoSession /\ live = hist.won => hist.won \in {sess'.id, unsaved.id} \/ Bringing(m)'
      BY <1>3, <1>6, <1>7, <2>8 DEF BaseInv, Kept
    <3>2. /\ m.pc = "confirm" => m.sid \notin {NoSession, sess'.id, hist.won}
          /\ m.pc = "confirm" /\ Fresh(n) => n.sid # m.sid
          /\ m.pc \in Ending /\ m.kind = "success" => m.sid = hist.won /\ m.sid # NoSession
          /\ m.pc = "probe" /\ m.kind = "rewrite" => m.sid = unsaved.id /\ m.sid # NoSession
          /\ m.pc = "save" => m.sid \in {hist.won, unsaved.id} /\ m.sid # NoSession
          /\ unsaved.id # NoSession /\ hist.won # NoSession => unsaved.id = hist.won \/ Bringing(m)'
      BY <1>3, <1>7, <2>2, <2>7, <2>8, <2>9 DEF BaseInv, Kept, Fresh
    <3>3. /\ Fresh(n) => n.sid \notin {NoSession, hist.won} /\ ~n.scur
      BY <1>6, <1>7 DEF Fresh
    <3> QED
      BY <1>1, <1>5, <2>4, <2>5, <3>1, <3>2, <3>3 DEF Kept, Fresh
  <2> QED
    BY <2>5, <2>10 DEF BaseInv
<1>8. CASE /\ op' = [op EXCEPT !["job"] = n] /\ sess' = sess
           /\ n.pc = "idle" \/ (n.pc = "save" /\ n.sid = j.sid /\ live = n.sid)
  <2>1. RestTyped'
    BY <1>1, <1>4, <1>5, <1>8 DEF BaseInv, Types, RestTyped
  <2>2. Types' /\ Running' /\ op'["job"] = n /\ op'["broker"] = b
    BY <1>1, <1>2, <1>3, <1>5, <1>8, <2>1, Move DEF BaseInv, Workloads
  <2>3. Carried(b)
    BY <1>3, CarriedSelf DEF BaseInv
  <2>4. CASE n.pc = "idle"
    <3>1. Own(n)
      BY <2>4 DEF Own, Fresh
    <3>2. Kept'
      BY <1>1, <1>5, <1>8, <2>2, <2>3, <3>1, KeptStill DEF BaseInv
    <3> QED
      BY <2>2, <3>2 DEF BaseInv
  <2>5. CASE n.pc = "save" /\ n.sid = j.sid /\ live = n.sid
    <3>1. Fresh(n) /\ n.sid \notin {NoSession, hist.won} /\ live # hist.won
      BY <2>5, <1>6 DEF Fresh
    <3>2. (b.pc = "confirm" => b.sid # j.sid) /\ (Bringing(b) => Bringing(b)')
      BY <1>3, <1>4, <1>5 DEF BaseInv, Kept, Fresh, Bringing
    <3>3. Kept'
      BY <1>1, <1>3, <1>5, <1>8, <2>2, <2>5, <3>1, <3>2 DEF BaseInv, Kept, Fresh
    <3> QED
      BY <2>2, <3>3 DEF BaseInv
  <2> QED
    BY <1>8, <2>4, <2>5
<1> QED
  BY <1>2, <1>3, <1>7, <1>8 DEF JobSaveTo

-----------------------------------------------------------------------------
(* Callers, the clock, and the world around. *)

LEMMA Waits ==
  ASSUME BaseInv, UNCHANGED <<dep, clock, rec, op, sess, unsaved>>, RestTyped', hist'.won = hist.won,
         live' \in {live, NoSession}
  PROVE  BaseInv'
<1>1. Types' /\ Past(rec)'
  BY DEF BaseInv, Types, Running, Past
<1>2. ASSUME NEW q \in Workloads
      PROVE  Sane(op[q], q)'
  <2>1. PICK m : m = op'[q]
    OBVIOUS
  <2>2. Sane(m, q)
    BY <2>1 DEF BaseInv, Running
  <2>3. Sane(m, q)'
    BY <2>2, SaneKept
  <2> QED
    BY <2>1, <2>3
<1>3. Kept'
  BY DEF BaseInv, Kept, Bringing, Fresh
<1> QED
  BY <1>1, <1>2, <1>3 DEF BaseInv, Running

LEMMA HistCounts ==
  ASSUME Types, NEW h,
         \/ h = [hist EXCEPT !.events = @ + 1]
         \/ \E p \in Workloads : h = [hist EXCEPT !.runs[p] = @ + 1]
  PROVE  /\ h \in HistType /\ h.won = hist.won /\ h.day = hist.day /\ h.misses = hist.misses
         /\ h.last = hist.last
<1>1. hist \in HistType
  BY DEF Types, RestTyped
<1>2. CASE h = [hist EXCEPT !.events = @ + 1]
  BY <1>1, <1>2 DEF HistType
<1>3. ASSUME NEW p \in Workloads, h = [hist EXCEPT !.runs[p] = @ + 1]
      PROVE  /\ h \in HistType /\ h.won = hist.won /\ h.day = hist.day /\ h.misses = hist.misses
             /\ h.last = hist.last
  <2> DEFINE rs == [hist.runs EXCEPT ![p] = @ + 1]
  <2>1. rs \in [Workloads -> Nat] /\ h = [hist EXCEPT !.runs = rs]
    BY <1>1, <1>3 DEF HistType
  <2> HIDE DEF rs
  <2> QED
    BY <1>1, <2>1 DEF HistType
<1> QED
  BY <1>2, <1>3

LEMMA LeaveKeeps ==
  ASSUME BaseInv, NEW c \in Callers, Leave(c)
  PROVE  BaseInv'
<1>1. RestTyped'
  BY DEF Leave, BaseInv, Types, RestTyped
<1> QED
  BY <1>1, Waits DEF Leave

LEMMA LeaveRequestKeeps ==
  ASSUME BaseInv, LeaveRequest
  PROVE  BaseInv'
<1>1. /\ ask' = [at |-> clock, fp |-> sess.id]
      /\ hist' = [hist EXCEPT !.events = @ + 1]
      /\ UNCHANGED <<dep, clock, cred, rec, sess, live, op, unsaved, waiting>>
  BY DEF LeaveRequest
<1>2. hist' \in HistType /\ hist'.won = hist.won
  BY <1>1, HistCounts DEF BaseInv
<1>3. ask' \in Requests
  BY <1>1, Numbers DEF BaseInv, Types, RestTyped, Requests
<1>4. RestTyped'
  BY <1>1, <1>2, <1>3 DEF BaseInv, Types, RestTyped
<1> QED
  BY <1>1, <1>2, <1>4, Waits

LEMMA OwnerSignsInKeeps ==
  ASSUME BaseInv, OwnerSignsIn
  PROVE  BaseInv'
<1>1. /\ live' = NoSession /\ hist' = [hist EXCEPT !.events = @ + 1]
      /\ UNCHANGED <<dep, clock, cred, rec, sess, ask, op, unsaved, waiting>>
  BY DEF OwnerSignsIn
<1>2. hist' \in HistType /\ hist'.won = hist.won
  BY <1>1, HistCounts DEF BaseInv
<1>4. RestTyped'
  BY <1>1, <1>2, EmptyTypes DEF BaseInv, Types, RestTyped
<1> QED
  BY <1>1, <1>2, <1>4, Waits

LEMMA BrAnswerKeeps ==
  ASSUME BaseInv, BrAnswer
  PROVE  BaseInv' /\ op["broker"].pc = "answer" /\ BrGoesTo(Idle)
<1>1. PICK n : n = Idle
  OBVIOUS
<1>2. /\ op["broker"].pc = "answer" /\ op' = [op EXCEPT !["broker"] = n] /\ waiting' = {}
      /\ UNCHANGED <<dep, clock, cred, rec, sess, live, ask, unsaved, hist>>
  BY <1>1 DEF BrAnswer, To
<1>3. Sane(n, "broker") /\ n.pc = "idle"
  BY <1>1, IdleSane, EmptyTypes DEF BaseInv, Workloads
<1>4. RestTyped'
  BY <1>2 DEF BaseInv, Types, RestTyped
<1>5. BrGoesTo(n) /\ Carried(n)
  BY <1>2, <1>3 DEF BrGoesTo, Carried, Bringing, Ending
<1> QED
  BY <1>1, <1>2, <1>4, <1>5, BrMoves

\* A run that begins.
LEMMA OpenedIs ==
  ASSUME Types, NEW p \in Workloads, NEW r \in Requests, hist.runs[p] < dep.runs[p],
         NEW n, n = [Idle EXCEPT !.pc = "open", !.t0 = clock, !.req = r]
  PROVE  Sane(n, p) /\ n.pc = "open" /\ ~n.cur
<1>1. /\ Idle \in OpType /\ Idle.st = EmptyRecord /\ clock \in 0 .. MaxClock /\ ~Idle.cur
      /\ Past(EmptyRecord)
  BY EmptyTypes, Numbers DEF Past
<1>2. /\ n \in OpType /\ n.pc = "open" /\ n.t0 = clock /\ n.st = EmptyRecord /\ n.cur = Idle.cur
  BY <1>1 DEF OpType, Steps
<1>3. dep.runs[p] # 0
  BY Numbers DEF Types, RestTyped, HistType
<1>4. Timely(n, p)
  BY <1>1, <1>2, <1>3, TimeoutType, Bounds DEF Timely, Begun, Inside, Ending
<1> QED
  BY <1>1, <1>2, <1>4 DEF Sane, Ended, Ending, Honest

LEMMA RefreshKeeps ==
  ASSUME BaseInv, NEW c \in Callers, NEW fp \in {NoSession, sess.id}, Refresh(c, fp)
  PROVE  /\ BaseInv'
         /\ \/ op' = op /\ hist' = hist
            \/ \E n : /\ op["broker"].pc = "idle" /\ BrGoesTo(n) /\ n.pc = "open" /\ ~n.cur
                      /\ hist'.day = hist.day /\ hist'.misses = hist.misses /\ hist'.last = hist.last
<1>1. /\ waiting' \subseteq Callers
      /\ UNCHANGED <<dep, clock, cred, rec, sess, live, ask, unsaved>>
  BY DEF Refresh, BaseInv, Types, RestTyped
<1>2. CASE UNCHANGED <<op, hist>>
  <2>1. RestTyped'
    BY <1>1, <1>2 DEF BaseInv, Types, RestTyped
  <2> QED
    BY <1>1, <1>2, <2>1, Waits
<1>3. CASE /\ op["broker"].pc = "idle" /\ hist.runs["broker"] < dep.runs["broker"]
           /\ To("broker", [Idle EXCEPT !.pc = "open", !.t0 = clock, !.req.fp = fp])
           /\ hist' = [hist EXCEPT !.runs["broker"] = @ + 1]
  <2>1. PICK r : r = [NoRequest EXCEPT !.fp = fp]
    OBVIOUS
  <2>2. r \in Requests
    BY <2>1, EmptyTypes DEF BaseInv, Types, RestTyped, Requests
  <2>3. PICK n : n = [Idle EXCEPT !.pc = "open", !.t0 = clock, !.req = r]
    OBVIOUS
  <2>4. n = [Idle EXCEPT !.pc = "open", !.t0 = clock, !.req.fp = fp]
    BY <2>1, <2>3 DEF Idle
  <2>5. Sane(n, "broker") /\ n.pc = "open" /\ ~n.cur
    BY <1>3, <2>2, <2>3, OpenedIs DEF BaseInv, Workloads
  <2>6. op' = [op EXCEPT !["broker"] = n]
    BY <1>3, <2>4 DEF To
  <2>7. /\ hist' \in HistType /\ hist'.won = hist.won /\ hist'.day = hist.day
        /\ hist'.misses = hist.misses /\ hist'.last = hist.last
    BY <1>3, HistCounts DEF BaseInv, Workloads
  <2>8. RestTyped'
    BY <1>1, <2>7, RestStill DEF BaseInv
  <2>9. BrGoesTo(n) /\ Carried(n)
    BY <1>3, <2>5, <2>6 DEF BrGoesTo, Carried, Bringing, Ending
  <2> QED
    BY <1>1, <1>3, <2>5, <2>7, <2>8, <2>9, BrMoves
<1> QED
  BY <1>2, <1>3 DEF Refresh

LEMMA JobStartKeeps ==
  ASSUME BaseInv, NEW forRequest \in BOOLEAN, JobStart(forRequest)
  PROVE  /\ BaseInv'
         /\ \E n : /\ op["job"].pc = "idle" /\ JobGoesTo(n) /\ n.pc = "open" /\ ~n.cur
                   /\ hist'.day = hist.day /\ hist'.misses = hist.misses /\ hist'.last = hist.last
<1>1. PICK r : r = IF forRequest THEN ask ELSE NoRequest
  OBVIOUS
<1>2. r \in Requests
  BY <1>1, EmptyTypes DEF BaseInv, Types, RestTyped
<1>3. PICK n : n = [Idle EXCEPT !.pc = "open", !.t0 = clock, !.req = r]
  OBVIOUS
<1>4. /\ op["job"].pc = "idle" /\ hist.runs["job"] < dep.runs["job"]
      /\ op' = [op EXCEPT !["job"] = n]
      /\ hist' = [hist EXCEPT !.runs["job"] = @ + 1]
      /\ UNCHANGED <<dep, clock, cred, rec, sess, live, ask, unsaved, waiting>>
  BY <1>1, <1>3 DEF JobStart, To
<1>5. Sane(n, "job") /\ n.pc = "open" /\ ~n.cur
  BY <1>2, <1>3, <1>4, OpenedIs DEF BaseInv, Workloads
<1>6. /\ hist' \in HistType /\ hist'.won = hist.won /\ hist'.day = hist.day
      /\ hist'.misses = hist.misses /\ hist'.last = hist.last
  BY <1>4, HistCounts DEF BaseInv, Workloads
<1>7. RestTyped'
  BY <1>4, <1>6, RestStill DEF BaseInv, Types, RestTyped
<1>8. JobGoesTo(n) /\ Own(n)
  BY <1>4, <1>5 DEF JobGoesTo, Own, Fresh
<1> QED
  BY <1>4, <1>5, <1>6, <1>7, <1>8, JobMoves

LEMMA TickKeeps ==
  ASSUME BaseInv, Tick
  PROVE  BaseInv'
<1>1. /\ clock < dep.horizon /\ clock' = clock + 1
      /\ UNCHANGED <<dep, cred, rec, sess, live, ask, op, unsaved, waiting, hist>>
  BY DEF Tick
<1>2. clock \in Nat /\ dep.horizon \in 0 .. MaxClock /\ clock \in 0 .. MaxClock
  BY Numbers DEF BaseInv
<1>3. clock' \in 0 .. MaxClock /\ clock <= clock' /\ clock' \in Nat
  BY <1>1, <1>2, Bounds
<1>4. Types' /\ Kept'
  BY <1>1, <1>3 DEF BaseInv, Types, RestTyped, Kept, Bringing, Fresh
<1>5. ASSUME NEW st \in RecordType, Past(st)
      PROVE  Past(st)'
  <2>1. st.marker \in Int /\ st.reqAt \in Int /\ st.day \in Int
    BY EmptyTypes, Bounds, DayType, <1>2 DEF RecordType, Times, Days
  <2>2. PICK c, d : c = clock /\ d = clock'
    OBVIOUS
  <2>3. Day(c) <= Day(d) /\ Day(c) \in Nat /\ Day(d) \in Nat
    BY <1>2, <1>3, <2>2, DayGrows, DayType
  <2>4. Day(clock) = Day(c) /\ Day(clock)' = Day(d)
    BY <2>2
  <2>5. st.marker <= c /\ st.reqAt <= c /\ st.day <= Day(c)
    BY <1>5, <2>2, <2>4 DEF Past
  <2>6. st.marker <= d /\ st.reqAt <= d /\ st.day <= Day(d)
    BY <1>2, <1>3, <2>1, <2>2, <2>3, <2>5
  <2> QED
    BY <2>2, <2>4, <2>6 DEF Past
<1>6. Past(rec)'
  BY <1>1, <1>5 DEF BaseInv, Types, Running, Past
<1>7. ASSUME NEW q \in Workloads
      PROVE  Sane(op[q], q)'
  <2>1. PICK o : o = op[q]
    OBVIOUS
  <2>2. /\ o \in OpType /\ Timely(o, q) /\ Ended(o, q) /\ (q = "broker" => Honest(o))
        /\ o.pc # "idle" => clock < o.t0 + Timeout(q)
        /\ o.pc = "login" => clock < o.lt + Headroom
    BY <2>1 DEF BaseInv, Running, Sane, Tick
  <2>3. o.t0 \in Nat /\ o.lt \in Int /\ o.started \in Int /\ o.st \in RecordType
    BY <2>2, Bounds, EmptyTypes DEF OpType, Times
  <2>4. Past(o.st)'
    BY <2>2, <2>3, <1>5 DEF Timely
  <2>5. Timely(o, q)'
    BY <1>1, <1>2, <1>3, <2>2, <2>3, <2>4, TimeoutType, Bounds DEF Timely
  <2>6. \A t, st, sat : gate(t, st, sat)' = gate(t, st, sat)
    BY <1>1 DEF gate
  <2>7. (q = "broker" => Honest(o)')
    BY <2>2, <2>6 DEF Honest
  <2>8. Ended(o, q)'
    BY <2>2 DEF Ended
  <2>9. Sane(o, q)'
    BY <2>2, <2>5, <2>7, <2>8 DEF Sane
  <2> QED
    BY <1>1, <2>1, <2>9
<1> QED
  BY <1>4, <1>6, <1>7 DEF BaseInv, Running

\* A workload that dies, perhaps with its credentials just submitted.
CrashTo(p, e, h) ==
  /\ Submits(p, e, h) /\ (e.submitted => op[p].pc = "login") /\ (~e.submitted => ~e.began)
  /\ live' = IF e.began THEN NewSession ELSE live
  /\ hist'.day = h.day /\ hist'.misses = h.misses /\ hist'.last = h.last
  /\ hist'.won = IF p = "broker" THEN NoSession ELSE hist.won

LEMMA CrashIs ==
  ASSUME BaseInv, NEW p \in Workloads, Crash(p)
  PROVE  /\ op[p].pc # "idle" /\ op' = [op EXCEPT ![p] = Idle] /\ hist' \in HistType
         /\ \E e \in LoginEnds : \E h : CrashTo(p, e, h)
<1>1. PICK e \in LoginEnds :
        /\ op[p].pc = "login" \/ e.says = "not_submitted"
        /\ live' = IF e.began THEN NewSession ELSE live
        /\ hist' = [Submitted(p, e) EXCEPT !.faults = @ + 1,
                                           !.won = IF p = "broker" THEN NoSession ELSE @]
  BY DEF Crash
<1>2. op[p].pc # "idle" /\ op' = [op EXCEPT ![p] = Idle]
  BY DEF Crash, To
<1>3. PICK h : h = Submitted(p, e)
  OBVIOUS
<1>4. /\ e.submitted => e.says # "not_submitted"
      /\ ~e.submitted => ~e.began
  BY LoginEndsIs
<1>5. Submits(p, e, h)
  <2>1. CASE e.submitted
    <3>1. op[p].started \in 0 .. MaxClock
      BY <1>1, <1>2, <1>4, <2>1, Underway DEF BaseInv, Begun, Inside
    <3> QED
      BY <1>3, <3>1, SubmittedIs DEF BaseInv
  <2>2. CASE ~e.submitted
    BY <1>3, <2>2 DEF Submitted, Submits, BaseInv, Types, RestTyped
  <2> QED
    BY <2>1, <2>2
<1>6. h \in HistType /\ h.won = hist.won
  BY <1>5 DEF Submits
<1>7. PICK w : w = IF p = "broker" THEN NoSession ELSE h.won
  OBVIOUS
<1>8. w \in Ids /\ h.faults + 1 \in Nat
  BY <1>6, <1>7, EmptyTypes DEF HistType
<1>9. hist' = [h EXCEPT !.faults = h.faults + 1, !.won = w]
  BY <1>1, <1>3, <1>7
<1>10. /\ hist' \in HistType /\ hist'.day = h.day /\ hist'.misses = h.misses /\ hist'.last = h.last
       /\ hist'.won = w
  BY <1>6, <1>8, <1>9 DEF HistType
<1>11. CrashTo(p, e, h)
  BY <1>1, <1>2, <1>4, <1>5, <1>6, <1>7, <1>10 DEF CrashTo
<1> QED
  BY <1>2, <1>10, <1>11

LEMMA CrashKeeps ==
  ASSUME BaseInv, NEW p \in Workloads, Crash(p)
  PROVE  BaseInv'
<1>1. PICK e \in LoginEnds : \E h : CrashTo(p, e, h)
  BY CrashIs
<1>2. PICK n : n = Idle
  OBVIOUS
<1>3. /\ op[p].pc # "idle" /\ op' = [op EXCEPT ![p] = n] /\ hist' \in HistType
      /\ Sane(n, p) /\ n.pc = "idle"
  BY <1>2, CrashIs, IdleSane, EmptyTypes DEF BaseInv
<1>4. UNCHANGED <<dep, clock, cred, rec, sess, ask>>
  BY DEF Crash
<1>5. PICK s : s = NewSession
  OBVIOUS
<1>6. /\ s \in Ids /\ s \notin {NoSession, sess.id, live, unsaved.id, hist.won}
  BY <1>5, NewSessionIsNew DEF InUse, Workloads, Ids, Sessions, NoSession
<1>7. live' \in {s, live}
  BY <1>1, <1>5 DEF CrashTo
<1>8. unsaved' \in [id : Ids, at : Times] /\ waiting' \subseteq Callers
      /\ (p = "broker" => unsaved'.id = NoSession) /\ (p # "broker" => unsaved' = unsaved)
  BY EmptyTypes DEF Crash, BaseInv, Types, RestTyped
<1>9. RestTyped'
  BY <1>3, <1>4, <1>6, <1>7, <1>8 DEF BaseInv, Types, RestTyped
<1>10. Types' /\ Running' /\ op'[p] = n /\ \A q \in Workloads : q # p => op'[q] = op[q]
  BY <1>3, <1>4, <1>9, Move DEF BaseInv
<1>11. Kept'
  <2>1. CASE p = "broker"
    <3>1. PICK j : j = op["job"]
      OBVIOUS
    <3>2. op'["broker"] = n /\ op'["job"] = j /\ hist'.won = NoSession /\ unsaved'.id = NoSession
      BY <1>1, <1>8, <1>10, <2>1, <3>1 DEF Workloads, CrashTo
    <3>3. Fresh(j) => j.sid # NoSession
      BY <3>1 DEF BaseInv, Kept
    <3> QED
      BY <1>3, <3>2, <3>3 DEF Kept, Bringing, Fresh, Ending
  <2>2. CASE p = "job"
    <3>1. PICK b : b = op["broker"]
      OBVIOUS
    <3>2. op'["job"] = n /\ op'["broker"] = b /\ hist'.won = hist.won /\ unsaved' = unsaved
      BY <1>1, <1>8, <1>10, <2>2, <3>1 DEF Workloads, CrashTo
    <3> QED
      BY <1>3, <1>4, <1>6, <1>7, <3>1, <3>2 DEF BaseInv, Kept, Bringing, Fresh
  <2> QED
    BY <2>1, <2>2 DEF Workloads
<1> QED
  BY <1>10, <1>11 DEF BaseInv

LEMMA DeleteRecordIs ==
  ASSUME Types, DeleteRecord
  PROVE  /\ hist' \in HistType /\ hist'.won = hist.won /\ hist'.misses = 0
         /\ hist'.day = [d \in Days |-> 0] /\ hist'.last = [p \in Workloads |-> None]
         /\ rec' = EmptyRecord
         /\ \A q \in Workloads : op'[q] = [op[q] EXCEPT !.cur = FALSE]
<1>1. hist \in HistType
  BY DEF Types, RestTyped
<1>2. DOMAIN hist.day = Days
  BY <1>1 DEF HistType
<1> DEFINE z == [d \in Days |-> 0]
           l == [p \in Workloads |-> None]
<1>3. z \in [Days -> Nat] /\ l \in [Workloads -> Times]
  BY EmptyTypes
<1>6. PICK n \in Nat : n = hist.events + 1
  BY <1>1 DEF HistType
<1>4. hist' = [hist EXCEPT !.events = n, !.misses = 0, !.day = z, !.last = l]
  BY <1>2, <1>6 DEF DeleteRecord
<1> HIDE DEF z, l
<1>5. /\ hist' \in HistType /\ hist'.won = hist.won /\ hist'.misses = 0
      /\ hist'.day = z /\ hist'.last = l
  BY <1>1, <1>3, <1>4 DEF HistType
<1> QED
  BY <1>5 DEF DeleteRecord, z, l

LEMMA DeleteRecordKeeps ==
  ASSUME BaseInv, DeleteRecord
  PROVE  BaseInv'
<1>1. UNCHANGED <<dep, clock, cred, sess, live, ask, unsaved, waiting>>
  BY DEF DeleteRecord
<1>2. /\ hist' \in HistType /\ hist'.won = hist.won /\ rec' = EmptyRecord
      /\ \A q \in Workloads : op'[q] = [op[q] EXCEPT !.cur = FALSE]
  BY DeleteRecordIs DEF BaseInv
<1>3. \A q \in Workloads : Sane(op'[q], q) /\ Flagged(op'[q], op[q])
  <2> SUFFICES ASSUME NEW q \in Workloads
               PROVE  Sane(op'[q], q) /\ Flagged(op'[q], op[q])
    OBVIOUS
  <2>1. PICK o, m : o = op[q] /\ m = op'[q]
    OBVIOUS
  <2>2. Sane(o, q) /\ m = [o EXCEPT !.cur = FALSE]
    BY <1>2, <2>1 DEF BaseInv, Running
  <2> QED
    BY <2>1, <2>2, UncurSane
<1>4. ASSUME NEW q \in Workloads
      PROVE  Sane(op[q], q)' /\ op'[q] \in OpType
  <2>1. PICK m : m = op'[q]
    OBVIOUS
  <2>2. Sane(m, q)
    BY <2>1, <1>3
  <2>3. Sane(m, q)'
    BY <2>2, <1>1, SaneKept
  <2> QED
    BY <2>1, <2>2, <2>3 DEF Sane
<1>5. op' \in [Workloads -> OpType]
  <2>1. op' = [q \in Workloads |-> op'[q]]
    BY DEF DeleteRecord
  <2> QED
    BY <1>4, <2>1
<1>6. Past(rec)'
  BY <1>1, <1>2, EmptyTypes, Numbers DEF BaseInv, Past
<1>7. RestTyped'
  BY <1>1, <1>2, RestStill DEF BaseInv, Types, RestTyped
<1>8. Types'
  BY <1>1, <1>2, <1>5, <1>7, EmptyTypes DEF BaseInv, Types
<1>9. PICK b, j, n, m : b = op["broker"] /\ j = op["job"] /\ n = op'["broker"] /\ m = op'["job"]
  OBVIOUS
<1>10. b \in OpType /\ j \in OpType /\ Flagged(n, b) /\ Flagged(m, j) /\ Carried(b) /\ Own(j)
  BY <1>3, <1>9, CarriedSelf DEF BaseInv, Types, Workloads
<1>11. Carried(n) /\ Own(m)
  BY <1>10, CarriedFlagged
<1>12. Kept'
  BY <1>1, <1>2, <1>9, <1>11, KeptStill DEF BaseInv
<1> QED
  BY <1>4, <1>6, <1>8, <1>12 DEF BaseInv, Running

LEMMA ChangeCredentialsIs ==
  ASSUME Types, ChangeCredentials
  PROVE  /\ hist' \in HistType /\ hist'.won = NoSession /\ hist'.misses = 0
         /\ hist'.day = hist.day /\ hist'.last = hist.last
         /\ unsaved' = [id |-> NoSession, at |-> None]
<1>1. hist \in HistType
  BY DEF Types, RestTyped
<1>2. PICK n \in Nat : n = hist.events + 1
  BY <1>1 DEF HistType
<1>3. hist' = [hist EXCEPT !.events = n, !.misses = 0, !.won = NoSession]
  BY <1>2 DEF ChangeCredentials
<1>4. /\ hist' \in HistType /\ hist'.won = NoSession /\ hist'.misses = 0
      /\ hist'.day = hist.day /\ hist'.last = hist.last
  BY <1>1, <1>3, EmptyTypes DEF HistType
<1> QED
  BY <1>4 DEF ChangeCredentials

LEMMA ChangeCredentialsKeeps ==
  ASSUME BaseInv, ChangeCredentials
  PROVE  BaseInv'
<1>1. /\ UNCHANGED <<dep, clock, rec, sess, live, ask, op, waiting>> /\ cred' \in Creds
      /\ \A p \in Workloads : op[p].pc = "idle"
  BY DEF ChangeCredentials
<1>2. hist' \in HistType /\ hist'.won = NoSession /\ unsaved' = [id |-> NoSession, at |-> None]
  BY ChangeCredentialsIs DEF BaseInv
<1>3. unsaved' \in [id : Ids, at : Times] /\ unsaved'.id = NoSession
  BY <1>2, EmptyTypes
<1>4. Types'
  BY <1>1, <1>2, <1>3 DEF BaseInv, Types, RestTyped
<1>5. Past(rec)'
  BY <1>1 DEF BaseInv, Running, Past
<1>6. ASSUME NEW q \in Workloads
      PROVE  Sane(op[q], q)'
  <2>1. PICK m : m = op'[q]
    OBVIOUS
  <2>2. Sane(m, q)
    BY <1>1, <2>1 DEF BaseInv, Running
  <2>3. Sane(m, q)'
    BY <1>1, <2>2, SaneKept
  <2> QED
    BY <2>1, <2>3
<1>7. Kept'
  BY <1>1, <1>2, <1>3 DEF Kept, Fresh, Bringing, Ending, Workloads
<1> QED
  BY <1>4, <1>5, <1>6, <1>7 DEF BaseInv, Running

LEMMA InitBase ==
  ASSUME Init
  PROVE  BaseInv
<1>0. FirstCred \in Creds
  BY DeploymentAssumption
<1>1. 0 \in 0 .. MaxClock /\ FirstCred \in Creds /\ 0 \in Nat
  BY <1>0, Bounds
<1>2. op["broker"] = Idle /\ op["job"] = Idle /\ \A q \in Workloads : op[q] = Idle
  BY DEF Init, Workloads
<1>3. hist \in HistType /\ hist.won = NoSession
  BY <1>1, EmptyTypes DEF Init, HistType, Days
<1>4. RestTyped
  BY <1>1, <1>3, EmptyTypes DEF Init, RestTyped
<1>5. Types
  BY <1>1, <1>4, EmptyTypes DEF Init, Types
<1>6. Past(rec)
  BY <1>5, EmptyTypes, Numbers DEF Init, Past
<1>7. Running
  BY <1>2, <1>5, <1>6, IdleSane DEF Running
<1>8. unsaved.id = NoSession
  BY DEF Init
<1>9. Kept
  BY <1>2, <1>3, <1>8, EmptyTypes DEF Kept, Fresh, Ending
<1> QED
  BY <1>5, <1>7, <1>9 DEF BaseInv

LEMMA NextBase ==
  ASSUME BaseInv, [Next]_vars
  PROVE  BaseInv'
<1>1. CASE Broker
  BY <1>1, BrOpenKeeps, BrSettleKeeps, BrReadKeeps, BrProbeKeeps, BrGateKeeps, BrMarkKeeps,
     BrAttemptKeeps, BrLoginKeeps, BrConfirmKeeps, BrCommitKeeps, BrRereadKeeps, BrRewriteKeeps,
     BrSaveKeeps, BrAnswerKeeps DEF Broker
<1>2. CASE Job
  BY <1>2, JobOpenKeeps, JobSettleKeeps, JobReadKeeps, JobProbeKeeps, JobServeKeeps, JobGateKeeps,
     JobMarkKeeps, JobAttemptKeeps, JobLoginKeeps, JobConfirmKeeps, JobCommitKeeps, JobSaveKeeps
  DEF Job
<1>3. CASE \E c \in Callers : Leave(c) \/ \E fp \in {NoSession, sess.id} : Refresh(c, fp)
  BY <1>3, LeaveKeeps, RefreshKeeps
<1>4. CASE \E b \in BOOLEAN : JobStart(b)
  BY <1>4, JobStartKeeps
<1>5. CASE \E p \in Workloads : Crash(p)
  BY <1>5, CrashKeeps
<1>6. CASE UNCHANGED vars
  <2>1. UNCHANGED <<dep, clock, rec, op, sess, unsaved>> /\ RestTyped' /\ hist'.won = hist.won /\ live' = live
    BY <1>6 DEF vars, BaseInv, Types, RestTyped
  <2> QED
    BY <2>1, Waits
<1> QED
  BY <1>1, <1>2, <1>3, <1>4, <1>5, <1>6, TickKeeps, LeaveRequestKeeps, OwnerSignsInKeeps,
     DeleteRecordKeeps, ChangeCredentialsKeeps DEF Next

LEMMA BaseAlways == Spec => []BaseInv
<1>1. Init => BaseInv
  BY InitBase
<1>2. BaseInv /\ [Next]_vars => BaseInv'
  BY NextBase
<1> QED
  BY <1>1, <1>2, PTL DEF Spec

-----------------------------------------------------------------------------

LEMMA BaseSuffices ==
  ASSUME BaseInv
  PROVE  TypeOK /\ OutsideBlackout /\ SessionKept /\ RetryHonest
<1>1. TypeOK
  <2>1. \A p \in Workloads : op[p] \in OpType /\ op[p].tries < WriteAttempts /\ op[p].started \in None .. MaxClock
    BY Bounds DEF BaseInv, Types, OpType, Times
  <2> QED
    BY <2>1 DEF TypeOK, BaseInv, Types, RestTyped, RecordType, Ids
<1>2. OutsideBlackout
  <2> SUFFICES ASSUME NEW p \in Workloads, op[p].pc = "login"
               PROVE  clock % DayLen \notin Blackout
    BY DEF OutsideBlackout
  <2>1. PICK lt : lt = op[p].lt
    OBVIOUS
  <2>2. lt \in Nat /\ lt <= clock /\ clock <= lt + Headroom /\ ~BlocksAt(lt) /\ clock \in Nat
    BY <2>1, Numbers DEF BaseInv, Running, Sane, Timely
  <2>3. clock - lt \in 0 .. Headroom /\ lt + (clock - lt) = clock
    BY <2>2, Bounds
  <2> QED
    BY <2>2, <2>3 DEF BlocksAt
<1>3. SessionKept
  BY DEF BaseInv, Kept, Bringing, SessionKept, Ending
<1>4. RetryHonest
  BY DEF BaseInv, Running, Sane, Honest, RetryHonest, Gates, Workloads
<1> QED
  BY <1>1, <1>2, <1>3, <1>4

\* Whatever goes wrong, crashes, lost answers and records deleted under a run
\* included: nobody is logging in inside a blackout window, a session the
\* broker confirmed is not lost, and the time given with "not now" is not
\* refused for the same reason (dailywindow.go, broker.go).
THEOREM LoginHonest ==
  Spec => [](TypeOK /\ OutsideBlackout /\ SessionKept /\ RetryHonest)
<1>1. BaseInv => TypeOK /\ OutsideBlackout /\ SessionKept /\ RetryHonest
  BY BaseSuffices
<1> QED
  BY <1>1, BaseAlways, PTL

-----------------------------------------------------------------------------
(* The lock: a record whose writers are apart. *)

\* The two workloads share a record whose answers are not lost, or only one of
\* them runs; and no record is deleted during a run.
WritersApart == \A d \in Deployments : ~d.rash /\ (d.lossy => \E p \in Workloads : d.runs[p] = 0)

\* A record by itself.
Sound(r) ==
  /\ r.marker = None <=> r.by = "none"
  /\ r.marker # None => r.reqAt <= r.marker /\ r.day <= Day(r.marker) /\ ~r.blocked

Choosing == {"read", "probe", "serve", "gate"}

\* What p has decided, whatever became of the record it read.
Decided(o, p) ==
  /\ o.pc \in {"settle"} \cup Choosing => o.st.marker = None /\ o.st.by = "none"
  /\ o.pc \in Choosing => ~o.st.blocked
  /\ o.pc = "mark" =>
       /\ o.st.marker = o.started /\ o.st.by = p /\ o.st.fp = cred /\ ~o.st.blocked
       /\ o.st.reqAt <= o.started /\ o.st.day <= Day(o.started)

\* What p decides on is the record r it read, as long as nobody has written.
Current(o, p, r) ==
  o.cur =>
    /\ o.pc = "settle" => r.marker # None /\ ~AttemptInProgress(r) /\ o.st = Settled(p, r)
    /\ o.pc \in Choosing \cup {"mark"} =>
         /\ r.marker = None /\ ~(r.blocked /\ r.fp = cred)
         /\ o.st.day = r.day /\ o.st.count = r.count
         /\ o.st.fails = IF r.blocked THEN 0 ELSE r.fails
         /\ r.reqAt <= o.st.reqAt
    /\ o.pc = "rewrite" => r = o.st

\* Between its marker and its outcome the record is p's alone.
Holding(o, p, r) ==
  /\ o.pc \in Choosing \cup {"mark"} /\ r.by = p => dep.lossy /\ o.pc = "mark" /\ ~o.cur
  /\ o.pc \in Inside \/ (o.pc = "commit" /\ o.cur) =>
       o.cur /\ r = o.st /\ r.by = p /\ r.marker = o.started /\ r.fp = cred
  /\ o.pc \in Ending /\ ~(o.pc = "commit" /\ o.cur) => dep.lossy /\ r.marker = None /\ r.fp = cred

Fits(o, p, r) == Decided(o, p) /\ Current(o, p, r) /\ Holding(o, p, r)

Locked == Sound(rec) /\ \A p \in Workloads : Fits(op[p], p, rec)

\* A run that has no opinion of the record.
Quiet(o) == o.pc \in {"idle", "open", "answer", "save"}

LEMMA QuietFits ==
  ASSUME NEW o, NEW p, NEW r, Quiet(o)
  PROVE  Fits(o, p, r)
BY DEF Quiet, Fits, Decided, Current, Holding, Choosing, Inside, Ending

LEMMA FitsStill ==
  ASSUME NEW o, NEW p, NEW r, Fits(o, p, r), UNCHANGED <<dep, clock, cred>>
  PROVE  Fits(o, p, r)'
<1>1. AttemptInProgress(r)' = AttemptInProgress(r) /\ Settled(p, r)' = Settled(p, r)
  BY DEF AttemptInProgress, Settled
<1>2. Decided(o, p)' /\ Holding(o, p, r)'
  BY DEF Fits, Decided, Holding
<1>3. Current(o, p, r)'
  BY <1>1 DEF Fits, Current
<1> QED
  BY <1>2, <1>3 DEF Fits

\* Only the flag cur of the three tells.
LEMMA FitsFlagged ==
  ASSUME NEW o \in OpType, NEW m, Flagged(m, o), NEW p, NEW r, m.cur = o.cur, Fits(o, p, r)
  PROVE  Fits(m, p, r)
<1>1. m.pc = o.pc /\ m.st = o.st /\ m.started = o.started
  BY FlaggedIs
<1> QED
  BY <1>1 DEF Fits, Decided, Current, Holding

\* The record stays as it is and p becomes n.
LEMMA MoveLocked ==
  ASSUME Locked, UNCHANGED <<dep, clock, cred, rec>>, NEW p \in Workloads, NEW n, Fits(n, p, rec),
         op'[p] = n, \A q \in Workloads : q # p => op'[q] = op[q]
  PROVE  Locked'
<1>1. PICK r : r = rec
  OBVIOUS
<1>2. ASSUME NEW q \in Workloads
      PROVE  Fits(op[q], q, rec)'
  <2>1. PICK m : m = op'[q]
    OBVIOUS
  <2>2. Fits(m, q, r)
    BY <1>1, <2>1 DEF Locked
  <2>3. Fits(m, q, r)'
    BY <2>2, FitsStill
  <2> QED
    BY <1>1, <2>1, <2>3
<1>3. Sound(rec)'
  BY DEF Locked, Sound
<1> QED
  BY <1>2, <1>3 DEF Locked

\* Whoever can write, nobody else is between its marker and its outcome.
LEMMA Exclusive ==
  ASSUME WritersApart, BaseInv, Locked, NEW p \in Workloads, NEW q \in Workloads, q # p,
         op[p].cur, ~Quiet(op[p]), op[p].pc # "reread"
  PROVE  op[q].pc \notin Inside \cup Ending
<1>1. PICK o, m, r : o = op[p] /\ m = op[q] /\ r = rec
  OBVIOUS
<1>2. SUFFICES ASSUME m.pc \in Inside \cup Ending
               PROVE  FALSE
  BY <1>1
<1>3. Fits(o, p, r) /\ Fits(m, q, r) /\ Sound(r) /\ o \in OpType /\ r \in RecordType
  BY <1>1 DEF Locked, BaseInv, Types
<1>4. ~dep.lossy
  <2>1. dep \in Deployments /\ o.pc # "idle" /\ m.pc # "idle"
    BY <1>1, <1>2 DEF BaseInv, Types, Quiet, Inside, Ending
  <2>2. dep.runs[p] # 0 /\ dep.runs[q] # 0
    BY <1>1, <2>1 DEF BaseInv, Running, Sane, Timely
  <2>3. \A x \in Workloads : x = p \/ x = q
    BY DEF Workloads
  <2> QED
    BY <2>1, <2>2, <2>3 DEF WritersApart
<1>5. m.cur /\ r = m.st /\ r.by = q /\ r.marker = m.started
  BY <1>2, <1>3, <1>4 DEF Fits, Holding
<1>6. /\ m.t0 \in Nat /\ m.started \in Nat /\ clock \in Nat
      /\ m.t0 <= m.started /\ clock <= m.t0 + Timeout(q)
  <2>1. m.pc # "idle" /\ m.pc \in Begun
    BY <1>2 DEF Begun, Inside, Ending
  <2>2. /\ m \in OpType /\ Ongoing(m, q) /\ m.started \in 0 .. MaxClock /\ m.t0 <= m.started
    BY <1>1, <2>1, Underway DEF BaseInv
  <2> QED
    BY <2>2, Bounds, Numbers DEF BaseInv, Ongoing, OpType
<1>7. AttemptInProgress(r) /\ r.marker # None
  BY <1>5, <1>6, TimeoutType, Bounds DEF AttemptInProgress, None
<1>8. o.pc \notin Choosing \cup {"settle", "mark"}
  BY <1>1, <1>3, <1>7 DEF Fits, Current
<1>9. o.pc \notin Ending \cup Inside
  BY <1>1, <1>3, <1>4, <1>5 DEF Fits, Holding
<1>10. o.pc \in Steps
  BY <1>3 DEF OpType
<1> QED
  BY <1>1, <1>8, <1>9, <1>10 DEF Steps, Quiet, Choosing, Inside, Ending

\* p has the record when it is as p writes it, and has it not when the answer
\* to its write is lost.
Takes(p, r, ok) ==
  /\ op[p].cur => Sound(r) /\ r.by \in {"none", p}
  /\ \A m : Flagged(m, ok) /\ m.cur => Fits(m, p, r)
  /\ op[p].cur /\ dep.lossy => \A m : Flagged(m, op[p]) /\ ~m.cur => Fits(m, p, r)

LEMMA QuietFlagged ==
  ASSUME NEW o \in OpType, NEW m, Flagged(m, o), Quiet(o), NEW p, NEW r
  PROVE  Fits(m, p, r)
<1>1. Quiet(m)
  BY FlaggedIs DEF Quiet
<1> QED
  BY <1>1, QuietFits

LEMMA WriteLocked ==
  ASSUME WritersApart, BaseInv, Locked, UNCHANGED <<dep, clock, cred>>, NEW p \in Workloads,
         NEW n, NEW r \in RecordType, NEW ok \in OpType, NEW cas \in OpType, NEW down \in OpType,
         WriteGoes(p, n, r, ok, cas, down), op[p].pc \in {"settle", "serve", "mark", "commit", "rewrite"},
         Takes(p, r, ok), Quiet(down), Quiet(cas) \/ (cas.pc = "reread" /\ op[p].pc = "commit")
  PROVE  Locked'
<1>1. PICK o, s : o = op[p] /\ s = rec
  OBVIOUS
<1>2. /\ o \in OpType /\ s \in RecordType /\ Fits(o, p, s) /\ n \in OpType /\ op \in [Workloads -> OpType]
      /\ ~Quiet(o) /\ o.pc # "reread"
  BY <1>1 DEF Locked, BaseInv, Types, WriteGoes, Sane, Quiet
<1>3. CASE op' = Overtaking(p, n) /\ rec' = r /\ WriteLands(p, n, ok, down)
  <2>1. o.cur /\ op'[p] = n
    BY <1>1, <1>2, <1>3 DEF WriteLands, Overtaking
  <2>2. Fits(n, p, r)
    <3>1. CASE Flagged(n, ok) /\ n.cur
      BY <3>1 DEF Takes
    <3>2. CASE Flagged(n, down)
      BY <3>2, QuietFlagged
    <3>3. CASE dep.lossy /\ ~n.cur /\ Flagged(n, o)
      BY <3>3, <1>1, <2>1 DEF Takes
    <3> QED
      BY <1>1, <1>3, <3>1, <3>2, <3>3 DEF WriteLands
  <2>3. ASSUME NEW q \in Workloads, q # p
        PROVE  Fits(op'[q], q, r)
    <3>1. PICK m, l : m = op'[q] /\ l = op[q]
      OBVIOUS
    <3>2. Sane(l, q) /\ l \in OpType /\ m = [l EXCEPT !.cur = FALSE]
      BY <1>2, <1>3, <2>3, <3>1 DEF Overtaking, BaseInv, Running
    <3>3. Flagged(m, l) /\ ~m.cur
      BY <3>2, UncurSane
    <3>4. l.pc \notin Inside \cup Ending
      BY <1>1, <1>2, <2>1, <2>3, <3>1, Exclusive
    <3>5. m.pc = l.pc /\ m.st = l.st /\ m.started = l.started
      BY <3>2, <3>3, FlaggedIs
    <3>6. r.by # q
      BY <1>1, <2>1, <2>3 DEF Takes, Workloads
    <3>7. Decided(m, q)
      BY <3>1, <3>5 DEF Locked, Fits, Decided
    <3>8. Current(m, q, r) /\ Holding(m, q, r)
      BY <3>3, <3>4, <3>5, <3>6 DEF Current, Holding, Ending
    <3> QED
      BY <3>1, <3>7, <3>8 DEF Fits
  <2>4. ASSUME NEW q \in Workloads
        PROVE  Fits(op[q], q, rec)'
    <3>1. PICK m : m = op'[q]
      OBVIOUS
    <3>2. Fits(m, q, r)
      BY <2>1, <2>2, <2>3, <3>1
    <3>3. Fits(m, q, r)'
      BY <3>2, FitsStill
    <3> QED
      BY <1>3, <3>1, <3>3
  <2>5. Sound(rec)'
    BY <1>1, <1>3, <2>1 DEF Takes, Sound
  <2> QED
    BY <2>4, <2>5 DEF Locked
<1>4. CASE op' = [op EXCEPT ![p] = n] /\ rec' = rec /\ WriteMisses(p, n, r, ok, cas, down)
  <2>1. op'[p] = n /\ \A q \in Workloads : q # p => op'[q] = op[q]
    BY <1>2, <1>4
  <2>2. Fits(n, p, s)
    <3>1. CASE rec = r /\ Flagged(n, ok) /\ n.cur
      BY <1>1, <3>1 DEF Takes
    <3>2. CASE Flagged(n, o) /\ n.cur = o.cur
      BY <1>2, <3>2, FitsFlagged
    <3>3. CASE ~o.cur /\ Flagged(n, cas)
      <4>1. CASE Quiet(cas)
        BY <3>3, <4>1, QuietFlagged
      <4>2. CASE cas.pc = "reread" /\ o.pc = "commit"
        <5>1. n.pc = "reread"
          BY <3>3, <4>2, FlaggedIs
        <5>2. dep.lossy /\ s.marker = None /\ s.fp = cred
          BY <1>2, <3>3, <4>2 DEF Fits, Holding, Ending
        <5> QED
          BY <5>1, <5>2 DEF Fits, Decided, Current, Holding, Choosing, Inside, Ending
      <4> QED
        BY <1>1, <4>1, <4>2
    <3>4. CASE Flagged(n, down)
      BY <3>4, QuietFlagged
    <3> QED
      BY <1>1, <1>4, <3>1, <3>2, <3>3, <3>4 DEF WriteMisses
  <2> QED
    BY <1>1, <1>4, <2>1, <2>2, MoveLocked
<1> QED
  BY <1>3, <1>4 DEF WriteGoes

\* Steps that go on with the record as it was read.
LEMMA ChoosingFits ==
  ASSUME NEW o, NEW n, NEW p \in Workloads, NEW r, Fits(o, p, r), o.pc \in Choosing, n.pc \in Choosing,
         n.cur = o.cur, n.st.marker = o.st.marker, n.st.by = o.st.by, n.st.blocked = o.st.blocked,
         n.st.day = o.st.day, n.st.count = o.st.count, n.st.fails = o.st.fails,
         n.st.reqAt = o.st.reqAt
  PROVE  Fits(n, p, r)
<1>1. Decided(n, p)
  BY DEF Fits, Decided, Choosing
<1>2. Current(n, p, r)
  BY DEF Fits, Current, Choosing
<1>3. Holding(n, p, r)
  BY DEF Fits, Holding, Choosing, Inside, Ending
<1> QED
  BY <1>1, <1>2, <1>3 DEF Fits

LEMMA InsideFits ==
  ASSUME NEW o, NEW n, NEW p \in Workloads, NEW r, Fits(o, p, r), o.pc \in Inside,
         n.pc \in Inside \cup {"commit"}, n.cur = o.cur, n.st = o.st, n.started = o.started
  PROVE  Fits(n, p, r)
BY DEF Fits, Decided, Current, Holding, Inside, Choosing, Ending

\* What is read is what is there.
LEMMA OpenFits ==
  ASSUME Types, Sound(rec), NEW p \in Workloads, NEW n,
         \/ /\ n.pc = "settle" /\ n.cur /\ n.st = Settled(p, rec)
            /\ rec.marker # None /\ ~AttemptInProgress(rec)
         \/ /\ n.pc = "read" /\ n.cur /\ n.st = Unlatched(rec)
            /\ rec.marker = None /\ ~(rec.blocked /\ rec.fp = cred)
  PROVE  Fits(n, p, rec)
<1>1. rec \in RecordType /\ cred \in Creds
  BY DEF Types, RestTyped
<1>2. CASE /\ n.pc = "settle" /\ n.cur /\ n.st = Settled(p, rec)
           /\ rec.marker # None /\ ~AttemptInProgress(rec)
  <2>1. n.st.marker = None /\ n.st.by = "none"
    BY <1>1, <1>2, SettledIs
  <2> QED
    BY <1>2, <2>1 DEF Fits, Decided, Current, Holding, Choosing, Inside, Ending
<1>3. CASE /\ n.pc = "read" /\ n.cur /\ n.st = Unlatched(rec)
           /\ rec.marker = None /\ ~(rec.blocked /\ rec.fp = cred)
  <2>1. /\ ~n.st.blocked /\ n.st.fails = IF rec.blocked THEN 0 ELSE rec.fails
        /\ n.st.marker = None /\ n.st.by = rec.by /\ n.st.reqAt = rec.reqAt
        /\ n.st.day = rec.day /\ n.st.count = rec.count
    BY <1>1, <1>3, UnlatchedIs
  <2>2. rec.by = "none" /\ rec.reqAt <= rec.reqAt /\ p # "none"
    BY <1>1, <1>3, Bounds, EmptyTypes DEF Sound, RecordType, Times, Workloads
  <2> QED
    BY <1>3, <2>1, <2>2 DEF Fits, Decided, Current, Holding, Choosing, Inside, Ending
<1> QED
  BY <1>2, <1>3

LEMMA MarkFits ==
  ASSUME Types, NEW o \in OpType, NEW n, NEW p \in Workloads, NEW r, Fits(o, p, r), o.pc \in Choosing,
         Past(o.st), r \in RecordType, Past(r),
         n.pc = "mark", n.started = clock, n.cur = o.cur, n.st.marker = clock, n.st.by = p, n.st.fp = cred,
         n.st.reqAt \in {o.st.reqAt, clock}, n.st.fails = o.st.fails, n.st.blocked = o.st.blocked,
         n.st.day = o.st.day, n.st.count = o.st.count
  PROVE  Fits(n, p, r)
<1>1. ~o.st.blocked /\ o.st.reqAt <= clock /\ o.st.day <= Day(clock) /\ clock <= clock
  BY Numbers DEF Fits, Decided, Past
<1>2. r.reqAt <= clock
  BY DEF Past
<1>3. Decided(n, p)
  BY <1>1 DEF Decided, Choosing
<1>4. Current(n, p, r)
  BY <1>2 DEF Fits, Current, Choosing
<1>5. Holding(n, p, r)
  BY DEF Fits, Holding, Choosing, Inside, Ending
<1> QED
  BY <1>3, <1>4, <1>5 DEF Fits


-----------------------------------------------------------------------------
(* Every step keeps the record locked. *)

LEMMA GoesLocked ==
  ASSUME BaseInv, Locked, UNCHANGED <<dep, clock, cred, rec>>, NEW p \in Workloads, NEW n,
         op' = [op EXCEPT ![p] = n], Fits(n, p, rec)
  PROVE  Locked'
<1>1. op'[p] = n /\ \A q \in Workloads : q # p => op'[q] = op[q]
  BY DEF BaseInv, Types
<1> QED
  BY <1>1, MoveLocked

\* What a locked state says of one workload.
LEMMA LockedIs ==
  ASSUME BaseInv, Locked, NEW p \in Workloads
  PROVE  /\ Fits(op[p], p, rec) /\ Sound(rec) /\ op[p] \in OpType /\ rec \in RecordType
         /\ Past(rec) /\ Past(op[p].st) /\ op[p].st \in RecordType
BY DEF BaseInv, Locked, Types, Running, Sane, Timely, OpType

LEMMA BrOpenLocked ==
  ASSUME BaseInv, Locked, BrOpen
  PROVE  Locked'
<1>1. UNCHANGED <<dep, clock, cred, rec>>
  BY DEF BrOpen
<1>2. PICK n : BrGoesTo(n) /\ BrOpenTo(n)
  BY BrOpenIs DEF BaseInv
<1>3. Fits(n, "broker", rec)
  <2>1. CASE n.pc = "answer"
    BY <2>1, QuietFits DEF Quiet
  <2>2. CASE n.pc # "answer"
    BY <1>2, <2>2, OpenFits DEF BrOpenTo, BaseInv, Locked, Workloads
  <2> QED
    BY <2>1, <2>2
<1> QED
  BY <1>1, <1>2, <1>3, GoesLocked DEF BrGoesTo, Workloads

LEMMA BrReadLocked ==
  ASSUME BaseInv, Locked, BrRead
  PROVE  Locked'
<1>1. UNCHANGED <<dep, clock, cred, rec>>
  BY DEF BrRead
<1>2. PICK n : BrGoesTo(n) /\ BrReadTo(n)
  BY BrReadIs DEF BaseInv
<1>3. PICK o : o = op["broker"]
  OBVIOUS
<1>4. o.pc = "read" /\ Fits(o, "broker", rec)
  BY <1>3, BrReadIs, LockedIs DEF BaseInv, Workloads
<1>5. Fits(n, "broker", rec)
  <2>1. CASE n.pc \in {"answer", "save"}
    BY <2>1, QuietFits DEF Quiet
  <2>2. CASE n.pc \in {"gate", "probe"} /\ n.st = o.st /\ n.cur = o.cur
    BY <1>4, <2>2, ChoosingFits DEF Choosing, Workloads
  <2> QED
    BY <1>2, <1>3, <2>1, <2>2 DEF BrReadTo
<1> QED
  BY <1>1, <1>2, <1>5, GoesLocked DEF BrGoesTo, Workloads

LEMMA BrProbeLocked ==
  ASSUME BaseInv, Locked, BrProbe
  PROVE  Locked'
<1>1. UNCHANGED <<dep, clock, cred, rec>>
  BY DEF BrProbe
<1>2. PICK n : BrGoesTo(n) /\ BrProbeTo(n)
  BY BrProbeIs DEF BaseInv
<1>3. PICK o : o = op["broker"]
  OBVIOUS
<1>4. o.pc = "probe" /\ Fits(o, "broker", rec)
  BY <1>3, BrProbeIs, LockedIs DEF BaseInv, Workloads
<1>5. Fits(n, "broker", rec)
  <2>1. CASE n.pc \in {"answer", "save"}
    BY <2>1, QuietFits DEF Quiet
  <2>2. CASE n.pc = "gate" /\ n.st = o.st /\ n.cur = o.cur
    BY <1>4, <2>2, ChoosingFits DEF Choosing, Workloads
  <2> QED
    BY <1>2, <1>3, <2>1, <2>2 DEF BrProbeTo
<1> QED
  BY <1>1, <1>2, <1>5, GoesLocked DEF BrGoesTo, Workloads

LEMMA BrGateLocked ==
  ASSUME BaseInv, Locked, BrGate
  PROVE  Locked'
<1>1. UNCHANGED <<dep, clock, cred, rec>>
  BY DEF BrGate
<1>2. PICK n : BrGoesTo(n) /\ BrGateTo(n)
  BY BrGateIs DEF BaseInv
<1>3. PICK o : o = op["broker"]
  OBVIOUS
<1>4. /\ o.pc = "gate" /\ Fits(o, "broker", rec) /\ o \in OpType /\ o.st \in RecordType
      /\ Past(o.st) /\ rec \in RecordType /\ Past(rec)
  BY <1>3, BrGateIs, LockedIs DEF BaseInv, Workloads
<1>5. Fits(n, "broker", rec)
  <2>1. CASE n.pc = "answer"
    BY <2>1, QuietFits DEF Quiet
  <2>2. CASE /\ n.pc = "mark" /\ n.started = clock /\ n.cur = o.cur
             /\ n.st = [o.st EXCEPT !.fp = cred, !.marker = clock, !.by = "broker"]
    <3>1. /\ n.st.marker = clock /\ n.st.by = "broker" /\ n.st.fp = cred /\ n.st.reqAt = o.st.reqAt
          /\ n.st.fails = o.st.fails /\ n.st.blocked = o.st.blocked
          /\ n.st.day = o.st.day /\ n.st.count = o.st.count
      BY <1>4, <2>2 DEF RecordType
    <3> QED
      BY <1>4, <2>2, <3>1, MarkFits DEF BaseInv, Choosing, Workloads
  <2> QED
    BY <1>2, <1>3, <2>1, <2>2 DEF BrGateTo
<1> QED
  BY <1>1, <1>2, <1>5, GoesLocked DEF BrGoesTo, Workloads

LEMMA BrAttemptLocked ==
  ASSUME BaseInv, Locked, BrAttempt
  PROVE  Locked'
<1>1. UNCHANGED <<dep, clock, cred, rec>>
  BY DEF BrAttempt
<1>2. PICK n : BrGoesTo(n) /\ BrAttemptTo(n)
  BY BrAttemptIs DEF BaseInv
<1>3. PICK o : o = op["broker"]
  OBVIOUS
<1>4. o.pc = "attempt" /\ Fits(o, "broker", rec)
  BY <1>3, BrAttemptIs, LockedIs DEF BaseInv, Workloads
<1>5. Fits(n, "broker", rec)
  BY <1>2, <1>3, <1>4, InsideFits DEF BrAttemptTo, Inside, Workloads
<1> QED
  BY <1>1, <1>2, <1>5, GoesLocked DEF BrGoesTo, Workloads

LEMMA BrLoginLocked ==
  ASSUME BaseInv, Locked, BrLogin
  PROVE  Locked'
<1>1. UNCHANGED <<dep, clock, cred, rec>>
  BY DEF BrLogin
<1>2. PICK e \in LoginEnds, n \in OpType : BrGoesTo(n) /\ BrLoginTo(n, e)
  BY BrLoginIs DEF BaseInv
<1>3. PICK o : o = op["broker"]
  OBVIOUS
<1>4. o.pc = "login" /\ Fits(o, "broker", rec)
  BY <1>3, BrLoginIs, LockedIs DEF BaseInv, Workloads
<1>5. Fits(n, "broker", rec)
  BY <1>2, <1>3, <1>4, InsideFits DEF BrLoginTo, Inside, Workloads
<1> QED
  BY <1>1, <1>2, <1>5, GoesLocked DEF BrGoesTo, Workloads

LEMMA BrConfirmLocked ==
  ASSUME BaseInv, Locked, BrConfirm
  PROVE  Locked'
<1>1. UNCHANGED <<dep, clock, cred, rec>>
  BY DEF BrConfirm
<1>2. PICK n : BrGoesTo(n) /\ BrConfirmTo(n)
  BY BrConfirmIs DEF BaseInv
<1>3. PICK o : o = op["broker"]
  OBVIOUS
<1>4. o.pc = "confirm" /\ Fits(o, "broker", rec)
  BY <1>3, BrConfirmIs, LockedIs DEF BaseInv, Workloads
<1>5. Fits(n, "broker", rec)
  BY <1>2, <1>3, <1>4, InsideFits DEF BrConfirmTo, Inside, Workloads
<1> QED
  BY <1>1, <1>2, <1>5, GoesLocked DEF BrGoesTo, Workloads

LEMMA BrRereadLocked ==
  ASSUME BaseInv, Locked, BrReread
  PROVE  Locked'
<1>1. UNCHANGED <<dep, clock, cred, rec>>
  BY DEF BrReread
<1>2. PICK n : BrGoesTo(n) /\ BrRereadTo(n)
  BY BrRereadIs DEF BaseInv
<1>3. PICK o : o = op["broker"]
  OBVIOUS
<1>4. o.pc = "reread" /\ Fits(o, "broker", rec)
  BY <1>3, BrRereadIs, LockedIs DEF BaseInv, Workloads
<1>5. Fits(n, "broker", rec)
  <2>1. CASE n.pc \in {"answer", "save"}
    BY <2>1, QuietFits DEF Quiet
  <2>2. CASE n.pc = "rewrite" /\ n.st = rec /\ n.cur
    BY <1>4, <2>2 DEF Fits, Decided, Current, Holding, Choosing, Inside, Ending
  <2> QED
    BY <1>2, <1>3, <2>1, <2>2 DEF BrRereadTo, BrRecordedTo
<1> QED
  BY <1>1, <1>2, <1>5, GoesLocked DEF BrGoesTo, Workloads

\* The end of a write that leaves nothing to decide.
LEMMA TakesQuietly ==
  ASSUME NEW p \in Workloads, NEW r, NEW ok \in OpType, Quiet(ok), r.marker = None, r.by = "none",
         op[p].cur /\ dep.lossy => \A m : Flagged(m, op[p]) /\ ~m.cur => Fits(m, p, r)
  PROVE  Takes(p, r, ok)
<1>1. Sound(r)
  BY DEF Sound
<1>2. \A m : Flagged(m, ok) => Fits(m, p, r)
  BY QuietFlagged
<1> QED
  BY <1>1, <1>2 DEF Takes

\* A settled record that p takes.
LEMMA SettleTakes ==
  ASSUME BaseInv, Locked, NEW p \in Workloads, op[p].pc = "settle", NEW o, o = op[p], NEW ok \in OpType,
         \/ Quiet(ok)
         \/ ok.pc = "read" /\ ok.st = Unlatched(o.st) /\ ~(o.st.blocked /\ o.st.fp = cred)
  PROVE  Takes(p, o.st, ok)
<1>1. Fits(o, p, rec) /\ o \in OpType /\ o.st \in RecordType
  BY LockedIs
<1>2. o.st.marker = None /\ o.st.by = "none" /\ p # "none"
  BY <1>1 DEF Fits, Decided, Workloads
<1>3. ASSUME NEW m, Flagged(m, ok), m.cur
      PROVE  Fits(m, p, o.st)
  <2>1. m.pc = ok.pc /\ m.st = ok.st
    BY <1>3, FlaggedIs
  <2>2. CASE Quiet(ok)
    BY <1>3, <2>2, QuietFlagged
  <2>3. CASE ok.pc = "read" /\ ok.st = Unlatched(o.st) /\ ~(o.st.blocked /\ o.st.fp = cred)
    <3>1. PICK r, u : r = o.st /\ u = Unlatched(r)
      OBVIOUS
    <3>2. /\ ~u.blocked /\ u.fails = (IF r.blocked THEN 0 ELSE r.fails) /\ u.marker = r.marker
          /\ u.by = r.by /\ u.reqAt = r.reqAt /\ u.day = r.day /\ u.count = r.count
      BY <1>1, <3>1, UnlatchedIs
    <3>3. r.reqAt <= r.reqAt
      BY <1>1, <3>1, EmptyTypes, Bounds DEF RecordType, Times
    <3>4. Decided(m, p)
      BY <1>2, <2>1, <2>3, <3>1, <3>2 DEF Decided, Choosing
    <3>5. Current(m, p, r)
      BY <1>2, <2>1, <2>3, <3>1, <3>2, <3>3 DEF Current, Choosing
    <3>6. Holding(m, p, r)
      BY <1>2, <2>1, <2>3, <3>1 DEF Holding, Choosing, Inside, Ending
    <3> QED
      BY <3>1, <3>4, <3>5, <3>6 DEF Fits
  <2> QED
    BY <2>2, <2>3
<1>4. ASSUME NEW m, Flagged(m, o), ~m.cur
      PROVE  Fits(m, p, o.st)
  <2>1. m.pc = "settle" /\ m.st = o.st
    BY <1>1, <1>4, FlaggedIs
  <2> QED
    BY <1>2, <1>4, <2>1 DEF Fits, Decided, Current, Holding, Choosing, Inside, Ending
<1>5. Sound(o.st)
  BY <1>2 DEF Sound
<1> QED
  BY <1>2, <1>3, <1>4, <1>5 DEF Takes

\* The marker that p writes.
LEMMA MarkTakes ==
  ASSUME BaseInv, Locked, NEW p \in Workloads, op[p].pc = "mark", NEW o, o = op[p],
         NEW ok \in OpType, ok.pc = "attempt", ok.st = o.st, ok.started = o.started
  PROVE  Takes(p, o.st, ok)
<1>1. Fits(o, p, rec) /\ o \in OpType /\ o.st \in RecordType
  BY LockedIs
<1>2. o.started \in 0 .. MaxClock
  BY Underway DEF BaseInv, Begun
<1>3. /\ o.st.marker = o.started /\ o.st.by = p /\ o.st.fp = cred /\ ~o.st.blocked
      /\ o.st.reqAt <= o.started /\ o.st.day <= Day(o.started)
  BY <1>1 DEF Fits, Decided
<1>4. Sound(o.st)
  BY <1>2, <1>3, Bounds DEF Sound, None, Workloads
<1>5. ASSUME NEW m, Flagged(m, ok), m.cur
      PROVE  Fits(m, p, o.st)
  <2>1. m.pc = "attempt" /\ m.st = o.st /\ m.started = o.started
    BY <1>5, FlaggedIs
  <2> QED
    BY <1>3, <1>5, <2>1 DEF Fits, Decided, Current, Holding, Choosing, Inside, Ending
<1>6. ASSUME dep.lossy, NEW m, Flagged(m, o), ~m.cur
      PROVE  Fits(m, p, o.st)
  <2>1. m.pc = "mark" /\ m.st = o.st /\ m.started = o.started
    BY <1>1, <1>6, FlaggedIs
  <2>2. Decided(m, p)
    BY <1>3, <2>1 DEF Decided, Choosing
  <2> QED
    BY <1>6, <2>1, <2>2 DEF Fits, Current, Holding, Inside, Ending
<1> QED
  BY <1>3, <1>4, <1>5, <1>6 DEF Takes

\* The outcome that p records: the record it held, or the one it read again.
LEMMA OutcomeTakes ==
  ASSUME BaseInv, Locked, NEW p \in Workloads, op[p].pc \in {"commit", "rewrite"}, NEW o, o = op[p],
         NEW r, Cleared(r, o.st), NEW ok \in OpType, Quiet(ok)
  PROVE  Takes(p, r, ok)
<1>1. Fits(o, p, rec) /\ o \in OpType
  BY LockedIs
<1>2. r.marker = None /\ r.by = "none" /\ r.fp = o.st.fp
  BY DEF Cleared
<1>3. ASSUME o.cur, dep.lossy, NEW m, Flagged(m, o), ~m.cur
      PROVE  Fits(m, p, r)
  <2>1. m.pc = o.pc
    BY <1>1, <1>3, FlaggedIs
  <2>2. rec = o.st /\ rec.fp = cred
    BY <1>1, <1>3 DEF Fits, Current, Holding, Ending
  <2> QED
    BY <1>2, <1>3, <2>1, <2>2 DEF Fits, Decided, Current, Holding, Choosing, Inside, Ending
<1> QED
  BY <1>2, <1>3, TakesQuietly

LEMMA BrSettleLocked ==
  ASSUME WritersApart, BaseInv, Locked, BrSettle
  PROVE  Locked'
<1>1. UNCHANGED <<dep, clock, cred>>
  BY DEF BrSettle
<1>2. PICK n, ok, cas, down : BrSettleTo(n, ok, cas, down)
  BY BrSettleIs DEF BaseInv
<1>3. PICK o : o = op["broker"]
  OBVIOUS
<1>4. o.pc = "settle" /\ o.st \in RecordType
  BY <1>3, BrSettleIs, LockedIs DEF BaseInv, Workloads
<1>5. /\ WriteGoes("broker", n, o.st, ok, cas, down)
      /\ ok \in OpType /\ cas \in OpType /\ down \in OpType /\ Quiet(cas) /\ Quiet(down)
      /\ \/ Quiet(ok)
         \/ ok.pc = "read" /\ ok.st = Unlatched(o.st) /\ ~(o.st.blocked /\ o.st.fp = cred)
  BY <1>2, <1>3 DEF BrSettleTo, BrPast, Sane, Quiet
<1>6. Takes("broker", o.st, ok)
  BY <1>3, <1>4, <1>5, SettleTakes DEF Workloads
<1> QED
  BY <1>1, <1>3, <1>4, <1>5, <1>6, WriteLocked DEF Workloads

LEMMA BrMarkLocked ==
  ASSUME WritersApart, BaseInv, Locked, BrMark
  PROVE  Locked'
<1>1. UNCHANGED <<dep, clock, cred>>
  BY DEF BrMark
<1>2. PICK n, ok, cas, down : BrMarkTo(n, ok, cas, down)
  BY BrMarkIs DEF BaseInv
<1>3. PICK o : o = op["broker"]
  OBVIOUS
<1>4. o.pc = "mark" /\ o.st \in RecordType
  BY <1>3, BrMarkIs, LockedIs DEF BaseInv, Workloads
<1>5. /\ WriteGoes("broker", n, o.st, ok, cas, down)
      /\ ok \in OpType /\ cas \in OpType /\ down \in OpType /\ Quiet(cas) /\ Quiet(down)
      /\ ok.pc = "attempt" /\ ok.st = o.st /\ ok.started = o.started
  BY <1>2, <1>3 DEF BrMarkTo, Sane, Quiet
<1>6. Takes("broker", o.st, ok)
  BY <1>3, <1>4, <1>5, MarkTakes DEF Workloads
<1> QED
  BY <1>1, <1>3, <1>4, <1>5, <1>6, WriteLocked DEF Workloads

LEMMA BrCommitLocked ==
  ASSUME WritersApart, BaseInv, Locked, BrCommit
  PROVE  Locked'
<1>1. UNCHANGED <<dep, clock, cred>>
  BY DEF BrCommit
<1>2. PICK n, r, ok, cas, down : BrCommitTo(n, r, ok, cas, down)
  BY BrCommitIs DEF BaseInv
<1>3. PICK o : o = op["broker"]
  OBVIOUS
<1>4. o.pc = "commit"
  BY <1>3, BrCommitIs DEF BaseInv
<1>5. /\ WriteGoes("broker", n, r, ok, cas, down) /\ Cleared(r, o.st) /\ r \in RecordType
      /\ ok \in OpType /\ cas \in OpType /\ down \in OpType /\ Quiet(ok) /\ Quiet(down)
      /\ cas.pc = "reread"
  BY <1>2, <1>3 DEF BrCommitTo, BrLeaves, Cleared, BrRecordedTo, Sane, Quiet
<1>6. Takes("broker", r, ok)
  BY <1>3, <1>4, <1>5, OutcomeTakes DEF Workloads
<1> QED
  BY <1>1, <1>3, <1>4, <1>5, <1>6, WriteLocked DEF Workloads

LEMMA BrRewriteLocked ==
  ASSUME WritersApart, BaseInv, Locked, BrRewrite
  PROVE  Locked'
<1>1. UNCHANGED <<dep, clock, cred>>
  BY DEF BrRewrite
<1>2. PICK n, r, end : BrRewriteTo(n, r, end)
  BY BrRewriteIs DEF BaseInv
<1>3. PICK o : o = op["broker"]
  OBVIOUS
<1>4. o.pc = "rewrite"
  BY <1>3, BrRewriteIs DEF BaseInv
<1>5. /\ WriteGoes("broker", n, r, end, end, end) /\ Cleared(r, o.st) /\ r \in RecordType
      /\ end \in OpType /\ Quiet(end)
  BY <1>2, <1>3 DEF BrRewriteTo, BrLeaves, Cleared, BrRecordedTo, Sane, Quiet
<1>6. Takes("broker", r, end)
  BY <1>3, <1>4, <1>5, OutcomeTakes DEF Workloads
<1> QED
  BY <1>1, <1>3, <1>4, <1>5, <1>6, WriteLocked DEF Workloads

\* The session that p stores is not the others' business here.
LEMMA StoresLocked ==
  ASSUME BaseInv, Locked, UNCHANGED <<dep, clock, cred, rec>>, NEW p \in Workloads, NEW n,
         Fits(n, p, rec), Stored(p, n) \/ op' = [op EXCEPT ![p] = n]
  PROVE  Locked'
<1>1. CASE op' = [op EXCEPT ![p] = n]
  BY <1>1, GoesLocked
<1>2. CASE Stored(p, n)
  <2>1. PICK r : r = rec
    OBVIOUS
  <2>2. ASSUME NEW q \in Workloads
        PROVE  Fits(op[q], q, rec)'
    <3>1. PICK m, o : m = op'[q] /\ o = op[q]
      OBVIOUS
    <3>2. Fits(m, q, r)
      <4>1. CASE q = p
        <5>1. m = n
          BY <1>2, <3>1, <4>1 DEF Stored
        <5> QED
          BY <5>1, <4>1, <2>1
      <4>2. CASE q # p
        <5>1. Fits(o, q, r) /\ Sane(o, q)
          BY <2>1, <3>1 DEF Locked, BaseInv, Running
        <5>2. Unaware(m, o)
          BY <1>2, <3>1, <4>2 DEF Stored, Unaware
        <5>3. m.pc = o.pc /\ m.st = o.st /\ m.cur = o.cur /\ m.started = o.started
          BY <5>1, <5>2, UnawareIs
        <5> QED
          BY <5>1, <5>3 DEF Fits, Decided, Current, Holding
      <4> QED
        BY <4>1, <4>2
    <3>3. Fits(m, q, r)'
      BY <3>2, FitsStill
    <3> QED
      BY <2>1, <3>1, <3>3
  <2>3. Sound(rec)'
    BY DEF Locked, Sound
  <2> QED
    BY <2>2, <2>3 DEF Locked
<1> QED
  BY <1>1, <1>2

LEMMA BrSaveLocked ==
  ASSUME BaseInv, Locked, BrSave
  PROVE  Locked'
<1>1. UNCHANGED <<dep, clock, cred, rec>>
  BY DEF BrSave
<1>2. PICK n : BrSaveTo(n)
  BY BrSaveIs DEF BaseInv
<1>3. Quiet(n) /\ (Stored("broker", n) \/ op' = [op EXCEPT !["broker"] = n])
  BY <1>2 DEF BrSaveTo, Quiet
<1>4. Fits(n, "broker", rec)
  BY <1>3, QuietFits
<1> QED
  BY <1>1, <1>3, <1>4, StoresLocked DEF Workloads

LEMMA BrAnswerLocked ==
  ASSUME BaseInv, Locked, BrAnswer
  PROVE  Locked'
<1>1. UNCHANGED <<dep, clock, cred, rec>>
  BY DEF BrAnswer
<1>2. PICK n : n = Idle
  OBVIOUS
<1>3. op' = [op EXCEPT !["broker"] = n] /\ Quiet(n)
  BY <1>2, EmptyTypes DEF BrAnswer, To, Quiet
<1>4. Fits(n, "broker", rec)
  BY <1>3, QuietFits
<1> QED
  BY <1>1, <1>3, <1>4, GoesLocked DEF Workloads

LEMMA JobOpenLocked ==
  ASSUME BaseInv, Locked, JobOpen
  PROVE  Locked'
<1>1. UNCHANGED <<dep, clock, cred, rec>>
  BY DEF JobOpen
<1>2. PICK n : JobGoesTo(n) /\ JobOpenTo(n)
  BY JobOpenIs DEF BaseInv
<1>3. Fits(n, "job", rec)
  <2>1. CASE n = Idle
    <3>1. Quiet(n)
      BY <2>1, EmptyTypes DEF Quiet
    <3> QED
      BY <3>1, QuietFits
  <2>2. CASE n # Idle
    BY <1>2, <2>2, OpenFits DEF JobOpenTo, BaseInv, Locked, Workloads
  <2> QED
    BY <2>1, <2>2
<1> QED
  BY <1>1, <1>2, <1>3, GoesLocked DEF JobGoesTo, Workloads

LEMMA JobReadLocked ==
  ASSUME BaseInv, Locked, JobRead
  PROVE  Locked'
<1>1. UNCHANGED <<dep, clock, cred, rec>>
  BY DEF JobRead
<1>2. PICK n : JobGoesTo(n) /\ JobReadTo(n)
  BY JobReadIs DEF BaseInv
<1>3. PICK o : o = op["job"]
  OBVIOUS
<1>4. o.pc = "read" /\ Fits(o, "job", rec)
  BY <1>3, JobReadIs, LockedIs DEF BaseInv, Workloads
<1>5. Fits(n, "job", rec)
  <2>1. CASE n = Idle
    <3>1. Quiet(n)
      BY <2>1, EmptyTypes DEF Quiet
    <3> QED
      BY <3>1, QuietFits
  <2>2. CASE n.pc \in {"gate", "probe"} /\ n.st = o.st /\ n.cur = o.cur
    BY <1>4, <2>2, ChoosingFits DEF Choosing, Workloads
  <2> QED
    BY <1>2, <1>3, <2>1, <2>2 DEF JobReadTo
<1> QED
  BY <1>1, <1>2, <1>5, GoesLocked DEF JobGoesTo, Workloads

LEMMA JobProbeLocked ==
  ASSUME BaseInv, Locked, JobProbe
  PROVE  Locked'
<1>1. UNCHANGED <<dep, clock, cred, rec>>
  BY DEF JobProbe
<1>2. PICK n : JobGoesTo(n) /\ JobProbeTo(n)
  BY JobProbeIs DEF BaseInv
<1>3. PICK o : o = op["job"]
  OBVIOUS
<1>4. o.pc = "probe" /\ Fits(o, "job", rec) /\ o.st \in RecordType
  BY <1>3, JobProbeIs, LockedIs DEF BaseInv, Workloads
<1>5. Fits(n, "job", rec)
  <2>1. CASE n = Idle
    <3>1. Quiet(n)
      BY <2>1, EmptyTypes DEF Quiet
    <3> QED
      BY <3>1, QuietFits
  <2>2. CASE n.pc = "gate" /\ n.st = o.st /\ n.cur = o.cur
    BY <1>4, <2>2, ChoosingFits DEF Choosing, Workloads
  <2>3. CASE n.pc = "serve" /\ n.st = [o.st EXCEPT !.served = o.req] /\ n.cur = o.cur
    <3>1. /\ n.st.marker = o.st.marker /\ n.st.by = o.st.by /\ n.st.blocked = o.st.blocked
          /\ n.st.day = o.st.day /\ n.st.count = o.st.count /\ n.st.fails = o.st.fails
          /\ n.st.reqAt = o.st.reqAt
      BY <1>4, <2>3 DEF RecordType
    <3> QED
      BY <1>4, <2>3, <3>1, ChoosingFits DEF Choosing, Workloads
  <2> QED
    BY <1>2, <1>3, <2>1, <2>2, <2>3 DEF JobProbeTo
<1> QED
  BY <1>1, <1>2, <1>5, GoesLocked DEF JobGoesTo, Workloads

LEMMA JobGateLocked ==
  ASSUME BaseInv, Locked, JobGate
  PROVE  Locked'
<1>1. UNCHANGED <<dep, clock, cred, rec>>
  BY DEF JobGate
<1>2. PICK n : JobGoesTo(n) /\ JobGateTo(n)
  BY JobGateIs DEF BaseInv
<1>3. PICK o : o = op["job"]
  OBVIOUS
<1>4. /\ o.pc = "gate" /\ Fits(o, "job", rec) /\ o \in OpType
      /\ Past(o.st) /\ rec \in RecordType /\ Past(rec)
  BY <1>3, JobGateIs, LockedIs DEF BaseInv, Workloads
<1>5. Fits(n, "job", rec)
  <2>1. CASE n = Idle
    <3>1. Quiet(n)
      BY <2>1, EmptyTypes DEF Quiet
    <3> QED
      BY <3>1, QuietFits
  <2>2. CASE n # Idle
    BY <1>2, <1>3, <1>4, <2>2, MarkFits DEF JobGateTo, BaseInv, Choosing, Workloads
  <2> QED
    BY <2>1, <2>2
<1> QED
  BY <1>1, <1>2, <1>5, GoesLocked DEF JobGoesTo, Workloads

LEMMA JobAttemptLocked ==
  ASSUME BaseInv, Locked, JobAttempt
  PROVE  Locked'
<1>1. UNCHANGED <<dep, clock, cred, rec>>
  BY DEF JobAttempt
<1>2. PICK n : JobGoesTo(n) /\ JobAttemptTo(n)
  BY JobAttemptIs DEF BaseInv
<1>3. PICK o : o = op["job"]
  OBVIOUS
<1>4. o.pc = "attempt" /\ Fits(o, "job", rec)
  BY <1>3, JobAttemptIs, LockedIs DEF BaseInv, Workloads
<1>5. Fits(n, "job", rec)
  BY <1>2, <1>3, <1>4, InsideFits DEF JobAttemptTo, Inside, Workloads
<1> QED
  BY <1>1, <1>2, <1>5, GoesLocked DEF JobGoesTo, Workloads

LEMMA JobLoginLocked ==
  ASSUME BaseInv, Locked, JobLogin
  PROVE  Locked'
<1>1. UNCHANGED <<dep, clock, cred, rec>>
  BY DEF JobLogin
<1>2. PICK e \in LoginEnds, n \in OpType : JobGoesTo(n) /\ JobLoginTo(n, e)
  BY JobLoginIs DEF BaseInv
<1>3. PICK o : o = op["job"]
  OBVIOUS
<1>4. o.pc = "login" /\ Fits(o, "job", rec)
  BY <1>3, JobLoginIs, LockedIs DEF BaseInv, Workloads
<1>5. Fits(n, "job", rec)
  BY <1>2, <1>3, <1>4, InsideFits DEF JobLoginTo, Inside, Workloads
<1> QED
  BY <1>1, <1>2, <1>5, GoesLocked DEF JobGoesTo, Workloads

LEMMA JobConfirmLocked ==
  ASSUME BaseInv, Locked, JobConfirm
  PROVE  Locked'
<1>1. UNCHANGED <<dep, clock, cred, rec>>
  BY DEF JobConfirm
<1>2. PICK n : JobGoesTo(n) /\ JobConfirmTo(n)
  BY JobConfirmIs DEF BaseInv
<1>3. PICK o : o = op["job"]
  OBVIOUS
<1>4. o.pc = "confirm" /\ Fits(o, "job", rec)
  BY <1>3, JobConfirmIs, LockedIs DEF BaseInv, Workloads
<1>5. Fits(n, "job", rec)
  BY <1>2, <1>3, <1>4, InsideFits DEF JobConfirmTo, Inside, Workloads
<1> QED
  BY <1>1, <1>2, <1>5, GoesLocked DEF JobGoesTo, Workloads

LEMMA JobSettleLocked ==
  ASSUME WritersApart, BaseInv, Locked, JobSettle
  PROVE  Locked'
<1>1. UNCHANGED <<dep, clock, cred>>
  BY DEF JobSettle
<1>2. PICK n, ok : JobSettleTo(n, ok)
  BY JobSettleIs DEF BaseInv
<1>3. PICK o, i : o = op["job"] /\ i = Idle
  OBVIOUS
<1>4. o.pc = "settle" /\ o.st \in RecordType /\ i \in OpType /\ Quiet(i)
  BY <1>3, JobSettleIs, LockedIs, EmptyTypes DEF BaseInv, Workloads, Quiet
<1>5. /\ WriteGoes("job", n, o.st, ok, i, i) /\ ok \in OpType
      /\ \/ Quiet(ok)
         \/ ok.pc = "read" /\ ok.st = Unlatched(o.st) /\ ~(o.st.blocked /\ o.st.fp = cred)
  BY <1>2, <1>3, <1>4 DEF JobSettleTo, JobPast, Sane
<1>6. Takes("job", o.st, ok)
  BY <1>3, <1>4, <1>5, SettleTakes DEF Workloads
<1> QED
  BY <1>1, <1>3, <1>4, <1>5, <1>6, WriteLocked DEF Workloads

LEMMA JobServeLocked ==
  ASSUME WritersApart, BaseInv, Locked, JobServe
  PROVE  Locked'
<1>1. UNCHANGED <<dep, clock, cred>>
  BY DEF JobServe
<1>2. PICK n : JobServeTo(n)
  BY JobServeIs DEF BaseInv
<1>3. PICK o, i : o = op["job"] /\ i = Idle
  OBVIOUS
<1>4. o.pc = "serve" /\ o.st \in RecordType /\ i \in OpType /\ Quiet(i) /\ o \in OpType
      /\ Fits(o, "job", rec)
  BY <1>3, JobServeIs, LockedIs, EmptyTypes DEF BaseInv, Workloads, Quiet
<1>5. WriteGoes("job", n, o.st, i, i, i)
  BY <1>2, <1>3 DEF JobServeTo
<1>6. o.st.marker = None /\ o.st.by = "none" /\ ~o.st.blocked
  BY <1>4 DEF Fits, Decided, Choosing
<1>7. ASSUME NEW m, Flagged(m, o), ~m.cur
      PROVE  Fits(m, "job", o.st)
  <2>1. m.pc = "serve" /\ m.st = o.st
    BY <1>4, <1>7, FlaggedIs
  <2> QED
    BY <1>6, <1>7, <2>1 DEF Fits, Decided, Current, Holding, Choosing, Inside, Ending
<1>8. Takes("job", o.st, i)
  BY <1>3, <1>4, <1>6, <1>7, TakesQuietly DEF Workloads
<1> QED
  BY <1>1, <1>3, <1>4, <1>5, <1>8, WriteLocked DEF Workloads

LEMMA JobMarkLocked ==
  ASSUME WritersApart, BaseInv, Locked, JobMark
  PROVE  Locked'
<1>1. UNCHANGED <<dep, clock, cred>>
  BY DEF JobMark
<1>2. PICK n, ok : JobMarkTo(n, ok)
  BY JobMarkIs DEF BaseInv
<1>3. PICK o, i : o = op["job"] /\ i = Idle
  OBVIOUS
<1>4. o.pc = "mark" /\ o.st \in RecordType /\ i \in OpType /\ Quiet(i)
  BY <1>3, JobMarkIs, LockedIs, EmptyTypes DEF BaseInv, Workloads, Quiet
<1>5. /\ WriteGoes("job", n, o.st, ok, i, i) /\ ok \in OpType
      /\ ok.pc = "attempt" /\ ok.st = o.st /\ ok.started = o.started
  BY <1>2, <1>3 DEF JobMarkTo, Sane
<1>6. Takes("job", o.st, ok)
  BY <1>3, <1>4, <1>5, MarkTakes DEF Workloads
<1> QED
  BY <1>1, <1>3, <1>4, <1>5, <1>6, WriteLocked DEF Workloads

LEMMA JobCommitLocked ==
  ASSUME WritersApart, BaseInv, Locked, JobCommit
  PROVE  Locked'
<1>1. UNCHANGED <<dep, clock, cred>>
  BY DEF JobCommit
<1>2. PICK n, r, end : JobCommitTo(n, r, end)
  BY JobCommitIs DEF BaseInv
<1>3. PICK o : o = op["job"]
  OBVIOUS
<1>4. o.pc = "commit"
  BY <1>3, JobCommitIs DEF BaseInv
<1>5. /\ WriteGoes("job", n, r, end, end, end) /\ Cleared(r, o.st) /\ r \in RecordType
      /\ end \in OpType
  BY <1>2, <1>3 DEF JobCommitTo, JobLeaves, Cleared, Sane
<1>6. Quiet(end)
  BY <1>2, EmptyTypes DEF JobCommitTo, Quiet
<1>7. Takes("job", r, end)
  BY <1>3, <1>4, <1>5, <1>6, OutcomeTakes DEF Workloads
<1> QED
  BY <1>1, <1>3, <1>4, <1>5, <1>6, <1>7, WriteLocked DEF Workloads

LEMMA JobSaveLocked ==
  ASSUME BaseInv, Locked, JobSave
  PROVE  Locked'
<1>1. UNCHANGED <<dep, clock, cred, rec>>
  BY DEF JobSave
<1>2. PICK n : JobSaveTo(n)
  BY JobSaveIs DEF BaseInv
<1>3. Quiet(n) /\ (Stored("job", n) \/ op' = [op EXCEPT !["job"] = n])
  BY <1>2 DEF JobSaveTo, Quiet
<1>4. Fits(n, "job", rec)
  BY <1>3, QuietFits
<1> QED
  BY <1>1, <1>3, <1>4, StoresLocked DEF Workloads

LEMMA TickLocked ==
  ASSUME BaseInv, Locked, Tick
  PROVE  Locked'
<1>1. clock' = clock + 1 /\ UNCHANGED <<dep, cred, rec, op>>
  BY DEF Tick
<1>2. PICK r : r = rec
  OBVIOUS
<1>3. clock \in Nat /\ r.marker \in Int /\ AttemptFreshFor \in Nat /\ None \in Int
  BY <1>2, Numbers, EmptyTypes, Bounds DEF BaseInv, Types, RecordType, Times
<1>4. AttemptInProgress(r)' => AttemptInProgress(r)
  BY <1>1, <1>3 DEF AttemptInProgress
<1>5. ASSUME NEW q \in Workloads
      PROVE  Fits(op[q], q, rec)'
  <2>1. PICK o : o = op[q]
    OBVIOUS
  <2>2. Fits(o, q, r)
    BY <1>2, <2>1 DEF Locked
  <2>3. Settled(q, r)' = Settled(q, r)
    BY <1>1 DEF Settled
  <2>4. Decided(o, q)' /\ Holding(o, q, r)'
    BY <1>1, <2>2 DEF Fits, Decided, Holding
  <2>5. Current(o, q, r)'
    BY <1>1, <1>4, <2>2, <2>3 DEF Fits, Current
  <2>6. Fits(o, q, r)'
    BY <2>4, <2>5 DEF Fits
  <2> QED
    BY <1>1, <1>2, <2>1, <2>6
<1>6. Sound(rec)'
  BY <1>1 DEF Locked, Sound
<1> QED
  BY <1>5, <1>6 DEF Locked

\* Nothing the record is about.
LEMMA AsideLocked ==
  ASSUME Locked, UNCHANGED <<dep, clock, cred, rec, op>>
  PROVE  Locked'
<1>1. PICK n : n = op["broker"]
  OBVIOUS
<1>2. op'["broker"] = n /\ Fits(n, "broker", rec) /\ \A q \in Workloads : q # "broker" => op'[q] = op[q]
  BY <1>1 DEF Locked, Workloads
<1> QED
  BY <1>2, MoveLocked DEF Workloads

LEMMA RefreshLocked ==
  ASSUME BaseInv, Locked, NEW c \in Callers, NEW fp \in {NoSession, sess.id}, Refresh(c, fp)
  PROVE  Locked'
<1>1. UNCHANGED <<dep, clock, cred, rec>>
  BY DEF Refresh
<1>2. CASE op' = op
  BY <1>1, <1>2, AsideLocked
<1>3. CASE \E n : BrGoesTo(n) /\ n.pc = "open"
  <2>1. PICK n : BrGoesTo(n) /\ n.pc = "open"
    BY <1>3
  <2>2. Fits(n, "broker", rec)
    BY <2>1, QuietFits DEF Quiet
  <2> QED
    BY <1>1, <2>1, <2>2, GoesLocked DEF BrGoesTo, Workloads
<1> QED
  BY <1>2, <1>3, RefreshKeeps

LEMMA JobStartLocked ==
  ASSUME BaseInv, Locked, NEW b \in BOOLEAN, JobStart(b)
  PROVE  Locked'
<1>1. UNCHANGED <<dep, clock, cred, rec>>
  BY DEF JobStart
<1>2. PICK n : JobGoesTo(n) /\ n.pc = "open"
  BY JobStartKeeps
<1>3. Fits(n, "job", rec)
  BY <1>2, QuietFits DEF Quiet
<1> QED
  BY <1>1, <1>2, <1>3, GoesLocked DEF JobGoesTo, Workloads

LEMMA CrashLocked ==
  ASSUME BaseInv, Locked, NEW p \in Workloads, Crash(p)
  PROVE  Locked'
<1>1. UNCHANGED <<dep, clock, cred, rec>>
  BY DEF Crash
<1>2. PICK n : n = Idle
  OBVIOUS
<1>3. op' = [op EXCEPT ![p] = n] /\ Quiet(n)
  BY <1>2, CrashIs, EmptyTypes DEF Quiet
<1>4. Fits(n, p, rec)
  BY <1>3, QuietFits
<1> QED
  BY <1>1, <1>3, <1>4, GoesLocked

\* Nobody is running.
LEMMA RestingLocked ==
  ASSUME Sound(rec)', \A q \in Workloads : op'[q].pc = "idle"
  PROVE  Locked'
<1>1. ASSUME NEW q \in Workloads
      PROVE  Fits(op[q], q, rec)'
  <2>1. op'[q].pc = "idle"
    OBVIOUS
  <2> QED
    BY <2>1 DEF Fits, Decided, Current, Holding, Choosing, Inside, Ending
<1> QED
  BY <1>1 DEF Locked

LEMMA EmptyIsSound == Sound(EmptyRecord)
BY DEF Sound, EmptyRecord

LEMMA DeleteRecordLocked ==
  ASSUME WritersApart, BaseInv, Locked, DeleteRecord
  PROVE  Locked'
<1>1. \A q \in Workloads : op[q].pc = "idle"
  BY DEF DeleteRecord, BaseInv, Types, WritersApart
<1>2. rec' = EmptyRecord /\ \A q \in Workloads : op'[q] = [op[q] EXCEPT !.cur = FALSE]
  BY DeleteRecordIs DEF BaseInv
<1>3. ASSUME NEW q \in Workloads
      PROVE  op'[q].pc = "idle"
  <2>1. PICK o, m : o = op[q] /\ m = op'[q]
    OBVIOUS
  <2>2. Sane(o, q) /\ o \in OpType /\ m = [o EXCEPT !.cur = FALSE]
    BY <1>2, <2>1 DEF BaseInv, Running, Types
  <2>3. Flagged(m, o)
    BY <2>2, UncurSane
  <2>4. m.pc = o.pc
    BY <2>2, <2>3, FlaggedIs
  <2> QED
    BY <1>1, <2>1, <2>4
<1>4. Sound(rec)'
  BY <1>2, EmptyIsSound DEF Sound
<1> QED
  BY <1>3, <1>4, RestingLocked

LEMMA ChangeCredentialsLocked ==
  ASSUME BaseInv, Locked, ChangeCredentials
  PROVE  Locked'
<1>1. UNCHANGED <<rec, op>> /\ \A q \in Workloads : op[q].pc = "idle"
  BY DEF ChangeCredentials
<1>2. Sound(rec)'
  BY <1>1 DEF Locked, Sound
<1> QED
  BY <1>1, <1>2, RestingLocked

LEMMA InitLocked ==
  ASSUME Init
  PROVE  Locked
<1>1. Sound(rec)
  BY EmptyIsSound DEF Init
<1>2. ASSUME NEW q \in Workloads
      PROVE  Fits(op[q], q, rec)
  <2>1. Quiet(op[q])
    BY EmptyTypes DEF Init, Quiet
  <2> QED
    BY <2>1, QuietFits
<1> QED
  BY <1>1, <1>2 DEF Locked

LEMMA NextLocked ==
  ASSUME WritersApart, BaseInv, Locked, [Next]_vars
  PROVE  Locked'
<1>1. CASE Broker
  BY <1>1, BrOpenLocked, BrSettleLocked, BrReadLocked, BrProbeLocked, BrGateLocked, BrMarkLocked,
     BrAttemptLocked, BrLoginLocked, BrConfirmLocked, BrCommitLocked, BrRereadLocked, BrRewriteLocked,
     BrSaveLocked, BrAnswerLocked DEF Broker
<1>2. CASE Job
  BY <1>2, JobOpenLocked, JobSettleLocked, JobReadLocked, JobProbeLocked, JobServeLocked, JobGateLocked,
     JobMarkLocked, JobAttemptLocked, JobLoginLocked, JobConfirmLocked, JobCommitLocked, JobSaveLocked
  DEF Job
<1>3. CASE \E c \in Callers : Leave(c) \/ \E fp \in {NoSession, sess.id} : Refresh(c, fp)
  BY <1>3, RefreshLocked, AsideLocked DEF Leave
<1>4. CASE \E b \in BOOLEAN : JobStart(b)
  BY <1>4, JobStartLocked
<1>5. CASE \E p \in Workloads : Crash(p)
  BY <1>5, CrashLocked
<1>6. CASE LeaveRequest \/ OwnerSignsIn \/ UNCHANGED vars
  BY <1>6, AsideLocked DEF LeaveRequest, OwnerSignsIn, vars
<1> QED
  BY <1>1, <1>2, <1>3, <1>4, <1>5, <1>6, TickLocked, DeleteRecordLocked, ChangeCredentialsLocked DEF Next

LEMMA LockedAlways ==
  ASSUME WritersApart
  PROVE  Spec => [](BaseInv /\ Locked)
<1>1. Init => BaseInv /\ Locked
  BY InitBase, InitLocked
<1>2. BaseInv /\ Locked /\ [Next]_vars => (BaseInv /\ Locked)'
  BY NextBase, NextLocked
<1> QED
  BY <1>1, <1>2, PTL DEF Spec

\* Whoever is logging in has its own name in the record.
LEMMA LockedSuffices ==
  ASSUME Locked
  PROVE  SoleLogin
<1>1. ASSUME NEW p \in Workloads, op[p].pc = "login"
      PROVE  rec.by = p
  BY <1>1 DEF Locked, Fits, Holding, Inside
<1> QED
  BY <1>1 DEF SoleLogin, Workloads

\* Where the two workloads do not run together on a Vault whose answers get
\* lost, and the record is not deleted under a run, the marker written
\* check-and-set keeps them apart: never two logins at once, whatever crashes
\* and fails (broker.go:460, run.go:363), with all that LoginHonest says.
THEOREM LoginIsSafe ==
  ASSUME WritersApart
  PROVE  Spec => []LoginSafe
<1>1. BaseInv /\ Locked => LoginSafe
  BY BaseSuffices, LockedSuffices DEF LoginSafe
<1> QED
  BY <1>1, LockedAlways, PTL

-----------------------------------------------------------------------------
(* The counts. *)

\* The job's limit of failures is not above the broker's, or there is no job.
LimitsAgree == MaxUnconfirmed <= MaxFailures \/ \A d \in Deployments : d.runs["job"] = 0

Pending(r, d) == IF r.marker # None /\ Day(r.marker) = d THEN 1 ELSE 0

\* The record r counts every submission of its day and later, and every
\* failure unless it is latched, at the latest through its marker; the latch is
\* for the present credentials, or nothing was submitted since they changed.
Counted(r, h) ==
  /\ \A d \in Days : d >= r.day => h.day[d] <= LoginsOn(r, d) + Pending(r, d)
  /\ r.blocked \/ r.marker # None => r.fp = cred \/ h.misses = 0
  /\ ~r.blocked => /\ r.fails < MaxFailures
                   /\ h.misses <= r.fails + (IF r.marker # None THEN 1 ELSE 0)
  /\ h.last["broker"] <= r.reqAt \/ (r.by = "broker" /\ h.last["broker"] <= r.marker)

\* The marker of o is on the record r, and no login submitted under it.
Marked(o, r) ==
  \/ o.pc = "mark" /\ r = o.st
  \/ o.pc \in {"attempt", "login"}
  \/ o.pc \in Ending /\ o.kind \in {"held", "not_submitted"}

\* Until then the record counts without it.
Unspent(o, p, r, h) ==
  Marked(o, r) =>
    /\ h.day[Day(o.started)] <= LoginsOn(r, Day(o.started))
    /\ ~r.blocked /\ h.misses <= r.fails /\ (p = "broker" => h.last["broker"] <= r.reqAt)

Owed(o, p, r, h) ==
  /\ Unspent(o, p, r, h)
  /\ o.pc \in Inside \cup Ending \/ Marked(o, r) => r.day <= Day(o.started)
  /\ p = "broker" /\ o.pc \in {"mark", "attempt", "login"} => LoginsOn(o.st, Day(o.started)) < dep.budget
  /\ p = "job" /\ o.pc = "commit" /\ o.kind = "unknown" => ~r.blocked /\ h.misses <= r.fails
  /\ o.pc \in Ending /\ o.kind = "success" => h.misses = 0
  /\ p = "broker" /\ o.pc \in Ending \cup {"confirm"} /\ ~Marked(o, r) => h.last["broker"] <= o.started

CountInv == Counted(rec, hist) /\ \A p \in Workloads : Owed(op[p], p, rec, hist)

\* Before its marker and after its outcome a run owes nothing.
Calm(o) == o.pc \in {"idle", "open", "answer", "save", "settle", "read", "probe", "serve", "gate"}

LEMMA CalmOwed ==
  ASSUME NEW o, Calm(o), NEW p, NEW r, NEW h
  PROVE  Owed(o, p, r, h)
BY DEF Calm, Owed, Unspent, Marked, Inside, Ending

LEMMA OwedFlagged ==
  ASSUME NEW o \in OpType, NEW m, Flagged(m, o), NEW p, NEW r, NEW h, Owed(o, p, r, h)
  PROVE  Owed(m, p, r, h)
<1>1. m.pc = o.pc /\ m.st = o.st /\ m.started = o.started /\ m.kind = o.kind
  BY FlaggedIs
<1>2. Marked(m, r) <=> Marked(o, r)
  BY <1>1 DEF Marked
<1> QED
  BY <1>1, <1>2 DEF Owed, Unspent

\* Only what was submitted, failed and last begun of a history is counted.
LEMMA CountAlike ==
  ASSUME NEW h, NEW g, g.day = h.day, g.misses = h.misses, g.last = h.last, NEW o, NEW p, NEW r
  PROVE  /\ Owed(o, p, r, h) => Owed(o, p, r, g)
         /\ Counted(r, h) => Counted(r, g)
BY DEF Owed, Unspent, Counted

LEMMA OwedStill ==
  ASSUME NEW o, NEW p, NEW r, NEW h, Owed(o, p, r, h), UNCHANGED dep
  PROVE  Owed(o, p, r, h)'
<1>1. Marked(o, r)' = Marked(o, r) /\ Unspent(o, p, r, h)' = Unspent(o, p, r, h)
  BY DEF Marked, Unspent
<1> QED
  BY <1>1 DEF Owed

LEMMA CountedStill ==
  ASSUME NEW r, NEW h, Counted(r, h), UNCHANGED cred
  PROVE  Counted(r, h)'
BY DEF Counted, Pending

CountsStill == hist'.day = hist.day /\ hist'.misses = hist.misses /\ hist'.last = hist.last

\* What a state that counts says of one workload.
LEMMA CountIs ==
  ASSUME BaseInv, CountInv, NEW p \in Workloads
  PROVE  /\ Owed(op[p], p, rec, hist) /\ Counted(rec, hist)
         /\ hist \in HistType /\ hist.day \in [Days -> Nat] /\ hist.misses \in Nat
         /\ hist.last \in [Workloads -> Times] /\ hist.last["broker"] \in Int
<1>1. hist \in HistType
  BY DEF BaseInv, Types, RestTyped
<1>2. hist.last["broker"] \in Times
  BY <1>1 DEF HistType, Workloads
<1> QED
  BY <1>1, <1>2, EmptyTypes, Bounds DEF CountInv, HistType, Times

\* The record is the same, or r, and what everybody owes of it is counted.
LEMMA CountNext ==
  ASSUME NEW r, rec' = r, NEW h, hist' = h, UNCHANGED <<dep, cred>>, Counted(r, h),
         \A q \in Workloads : Owed(op'[q], q, r, h)
  PROVE  CountInv'
<1>1. ASSUME NEW q \in Workloads
      PROVE  Owed(op[q], q, rec, hist)'
  <2>1. PICK m : m = op'[q]
    OBVIOUS
  <2>2. Owed(m, q, r, h)'
    BY <2>1, OwedStill
  <2> QED
    BY <2>1, <2>2
<1>2. Counted(r, h)'
  BY CountedStill
<1> QED
  BY <1>1, <1>2 DEF CountInv

LEMMA CountMoves ==
  ASSUME BaseInv, CountInv, UNCHANGED <<dep, cred, rec>>, CountsStill, NEW p \in Workloads, NEW n,
         op' = [op EXCEPT ![p] = n], Owed(n, p, rec, hist)
  PROVE  CountInv'
<1>1. PICK r, h, g : r = rec /\ h = hist /\ g = hist'
  OBVIOUS
<1>2. g.day = h.day /\ g.misses = h.misses /\ g.last = h.last /\ Counted(r, h)
  BY <1>1 DEF CountsStill, CountInv
<1>3. Counted(r, g)
  BY <1>2, CountAlike
<1>4. ASSUME NEW q \in Workloads
      PROVE  Owed(op'[q], q, r, g)
  <2>1. Owed(op'[q], q, r, h)
    BY <1>1 DEF BaseInv, Types, CountInv
  <2> QED
    BY <2>1, <1>2, CountAlike
<1> QED
  BY <1>1, <1>3, <1>4, CountNext

\* What a write of the record leaves owed.
LEMMA CountWrites ==
  ASSUME WritersApart, BaseInv, Locked, CountInv, UNCHANGED <<dep, cred>>, CountsStill,
         NEW p \in Workloads, NEW n, NEW r, NEW ok \in OpType, NEW cas \in OpType, NEW down \in OpType,
         WriteGoes(p, n, r, ok, cas, down), op[p].pc \in {"settle", "serve", "mark", "commit", "rewrite"},
         op[p].cur => /\ r.by \in {"none", p} /\ Counted(r, hist)
                      /\ Owed(ok, p, r, hist) /\ Owed(op[p], p, r, hist),
         rec = r => Owed(ok, p, r, hist), Owed(cas, p, rec, hist), Calm(down)
  PROVE  CountInv'
<1>1. PICK o, s, h, g : o = op[p] /\ s = rec /\ h = hist /\ g = hist'
  OBVIOUS
<1>2. /\ o \in OpType /\ Owed(o, p, s, h) /\ ~Quiet(o) /\ o.pc # "reread"
      /\ op \in [Workloads -> OpType]
  BY <1>1 DEF CountInv, BaseInv, Types, Quiet
<1>3. g.day = h.day /\ g.misses = h.misses /\ g.last = h.last
  BY <1>1 DEF CountsStill
<1>4. CASE op' = Overtaking(p, n) /\ rec' = r /\ WriteLands(p, n, ok, down)
  <2>1. o.cur /\ op'[p] = n /\ r.by \in {"none", p} /\ Counted(r, h) /\ Owed(ok, p, r, h) /\ Owed(o, p, r, h)
    BY <1>1, <1>4 DEF WriteLands, Overtaking
  <2>2. Owed(n, p, r, h)
    <3>1. CASE Flagged(n, ok)
      BY <2>1, <3>1, OwedFlagged
    <3>2. CASE Flagged(n, down)
      <4>1. Owed(down, p, r, h)
        BY CalmOwed
      <4> QED
        BY <3>2, <4>1, OwedFlagged
    <3>3. CASE Flagged(n, o)
      BY <1>2, <2>1, <3>3, OwedFlagged
    <3> QED
      BY <1>1, <1>4, <3>1, <3>2, <3>3 DEF WriteLands
  <2>3. ASSUME NEW q \in Workloads, q # p
        PROVE  Owed(op'[q], q, r, h)
    <3>1. PICK m, l : m = op'[q] /\ l = op[q]
      OBVIOUS
    <3>2. Sane(l, q) /\ l \in OpType /\ m = [l EXCEPT !.cur = FALSE]
      BY <1>2, <1>4, <2>3, <3>1 DEF Overtaking, BaseInv, Running
    <3>3. Flagged(m, l)
      BY <3>2, UncurSane
    <3>4. l.pc \notin Inside \cup Ending
      BY <1>1, <1>2, <2>1, <2>3, <3>1, Exclusive
    <3>5. Decided(l, q) /\ Owed(l, q, s, h)
      BY <1>1, <3>1 DEF Locked, Fits, CountInv
    <3>6. ~Marked(l, r)
      BY <2>1, <2>3, <3>4, <3>5 DEF Marked, Decided, Inside, Ending, Workloads
    <3>7. Owed(l, q, r, h)
      BY <3>4, <3>5, <3>6 DEF Owed, Unspent, Inside, Ending
    <3> QED
      BY <3>1, <3>2, <3>3, <3>7, OwedFlagged
  <2>4. Counted(r, g) /\ \A q \in Workloads : Owed(op'[q], q, r, g)
    BY <1>3, <2>1, <2>2, <2>3, CountAlike
  <2> QED
    BY <1>1, <1>4, <2>4, CountNext
<1>5. CASE op' = [op EXCEPT ![p] = n] /\ rec' = rec /\ WriteMisses(p, n, r, ok, cas, down)
  <2>1. Owed(n, p, s, h)
    <3>1. CASE rec = r /\ Flagged(n, ok)
      BY <1>1, <3>1, OwedFlagged
    <3>2. CASE Flagged(n, o)
      BY <1>2, <3>2, OwedFlagged
    <3>3. CASE Flagged(n, cas)
      BY <1>1, <3>3, OwedFlagged
    <3>4. CASE Flagged(n, down)
      <4>1. Owed(down, p, s, h)
        BY CalmOwed
      <4> QED
        BY <3>4, <4>1, OwedFlagged
    <3> QED
      BY <1>1, <1>5, <3>1, <3>2, <3>3, <3>4 DEF WriteMisses
  <2> QED
    BY <1>1, <1>5, <2>1, CountMoves
<1> QED
  BY <1>4, <1>5 DEF WriteGoes

-----------------------------------------------------------------------------
(* What a record that is written counts. *)

\* One login more, of the day of t, which is the record's marker if it has one.
LEMMA DayCounts ==
  ASSUME NEW st \in RecordType, NEW r \in RecordType, NEW t \in 0 .. MaxClock, NEW h \in HistType,
         st.day <= Day(t), Made(r, st, t), st.marker = None \/ st.marker = t,
         \A d \in Days : d >= st.day => h.day[d] <= LoginsOn(st, d) + Pending(st, d)
  PROVE  \A d \in Days : d >= r.day => h.day[d] <= LoginsOn(r, d) + Pending(r, d)
<1> SUFFICES ASSUME NEW d \in Days, d >= r.day
             PROVE  h.day[d] <= LoginsOn(r, d) + Pending(r, d)
  OBVIOUS
<1>1. PICK e : e = Day(t)
  OBVIOUS
<1>2. e \in Days /\ e \in Nat /\ d \in Nat /\ st.day \in Int /\ h.day[d] \in Nat /\ st.count \in Nat
  <2>1. e \in Days /\ e \in Nat
    BY <1>1, DayType
  <2>2. d \in Nat /\ h.day[d] \in Nat
    <3>1. h.day \in [Days -> Nat]
      BY DEF HistType
    <3>2. h.day[d] \in Nat
      BY <3>1
    <3>3. d \in Nat
      BY DEF Days
    <3> QED
      BY <3>2, <3>3
  <2>3. st.day \in Days \cup {None} /\ st.count \in Nat
    BY DEF RecordType
  <2>4. st.day \in Int
    BY <2>3, EmptyTypes DEF Days
  <2> QED
    BY <2>1, <2>2, <2>3, <2>4
<1>3. r.day = e /\ r.count = LoginsOn(st, e) + 1 /\ st.day <= e /\ d >= e
  BY <1>1 DEF Made
<1>4. h.day[d] <= LoginsOn(st, d) + Pending(st, d) /\ LoginsOn(st, d) \in Nat
  BY <1>2, <1>3, LoginsType
<1>5. Pending(st, d) \in {0, 1} /\ Pending(r, d) \in {0, 1} /\ (d # e => Pending(st, d) = 0)
  BY <1>1 DEF Pending
<1>6. CASE d = e
  <2>1. LoginsOn(r, d) = LoginsOn(st, d) + 1
    BY <1>3, <1>6 DEF LoginsOn
  <2> QED
    BY <1>2, <1>4, <1>5, <2>1
<1>7. CASE d # e
  <2>1. LoginsOn(st, d) = 0 /\ LoginsOn(r, d) \in Nat
    BY <1>2, <1>3, <1>7, LoginsType DEF LoginsOn
  <2> QED
    BY <1>2, <1>4, <1>5, <1>7, <2>1
<1> QED
  BY <1>6, <1>7

\* The record that is written has the counts of the one that was read.
LEMMA SameCounts ==
  ASSUME NEW st \in RecordType, NEW r \in RecordType, NEW h \in HistType, r.day = st.day, r.count = st.count,
         \A d \in Days : d >= st.day => h.day[d] <= LoginsOn(st, d) + Pending(st, d),
         st.marker # None => h.day[Day(st.marker)] <= LoginsOn(st, Day(st.marker))
  PROVE  \A d \in Days : d >= r.day => h.day[d] <= LoginsOn(r, d) + Pending(r, d)
<1> SUFFICES ASSUME NEW d \in Days, d >= r.day
             PROVE  h.day[d] <= LoginsOn(r, d) + Pending(r, d)
  OBVIOUS
<1>1. LoginsOn(r, d) = LoginsOn(st, d) /\ LoginsOn(r, d) \in Nat /\ h.day[d] \in Nat
  BY LoginsType DEF LoginsOn, HistType
<1>2. h.day[d] <= LoginsOn(st, d) + Pending(st, d) /\ Pending(r, d) \in {0, 1}
  BY DEF Pending
<1>3. h.day[d] <= LoginsOn(st, d)
  <2>1. CASE st.marker # None /\ Day(st.marker) = d
    BY <2>1
  <2>2. CASE ~(st.marker # None /\ Day(st.marker) = d)
    <3>1. Pending(st, d) = 0
      BY <2>2 DEF Pending
    <3> QED
      BY <1>1, <1>2, <3>1
  <2> QED
    BY <2>1, <2>2
<1> QED
  BY <1>1, <1>2, <1>3

\* The limit that p applies is not above the broker's.
LEMMA LimitIs ==
  ASSUME LimitsAgree, BaseInv, NEW p \in Workloads, op[p].pc # "idle"
  PROVE  LET m == IF p = "broker" THEN MaxFailures ELSE MaxUnconfirmed IN m \in Nat /\ m <= MaxFailures
<1>1. CASE p = "broker"
  BY <1>1, Bounds
<1>2. CASE p = "job"
  <2>1. dep \in Deployments /\ dep.runs["job"] # 0
    BY <1>2 DEF BaseInv, Types, Running, Sane, Timely
  <2> QED
    BY <1>2, <2>1, Bounds DEF LimitsAgree
<1> QED
  BY <1>1, <1>2 DEF Workloads

\* A dead attempt settled.
LEMMA SettleCounts ==
  ASSUME LimitsAgree, BaseInv, Locked, CountInv, NEW p \in Workloads, NEW o, o = op[p],
         o.pc = "settle", o.cur
  PROVE  Counted(o.st, hist)
<1>1. PICK s, r, h : s = rec /\ r = o.st /\ h = hist
  OBVIOUS
<1>2. s \in RecordType /\ Fits(o, p, s) /\ Sound(s) /\ cred \in Creds
  BY <1>1, LockedIs, Numbers DEF BaseInv
<1>3. s.marker # None /\ r = Settled(p, s)
  BY <1>1, <1>2 DEF Fits, Current
<1>4. PICK m : m = IF p = "broker" THEN MaxFailures ELSE MaxUnconfirmed
  OBVIOUS
<1>5. /\ r \in RecordType /\ r.marker = None /\ r.by = "none" /\ r.reqAt = s.marker
      /\ r.day = Day(s.marker) /\ r.count = LoginsOn(s, Day(s.marker)) + 1
      /\ r.fails = s.fails + 1 /\ (r.blocked <=> (s.blocked \/ s.fails + 1 >= m))
      /\ r.fp = IF p = "job" /\ r.blocked /\ ~s.blocked THEN cred ELSE s.fp
  BY <1>2, <1>3, <1>4, SettledIs
<1>6. m \in Nat /\ m <= MaxFailures /\ MaxFailures \in Nat
  BY <1>1, <1>4, LimitIs, Bounds
<1>7. /\ Counted(s, h) /\ h \in HistType /\ h.misses \in Nat /\ h.last["broker"] \in Int
      /\ s.fails \in Nat /\ s.marker \in 0 .. MaxClock /\ s.reqAt \in Int /\ s.marker \in Int
  BY <1>1, <1>2, <1>3, CountIs, EmptyTypes, Bounds DEF RecordType, Times, None
<1>8. s.reqAt <= s.marker /\ s.day <= Day(s.marker) /\ ~s.blocked
  BY <1>2, <1>3 DEF Sound
<1>9. \A d \in Days : d >= r.day => h.day[d] <= LoginsOn(r, d) + Pending(r, d)
  <2>1. Made(r, s, s.marker)
    BY <1>5 DEF Made
  <2>2. \A d \in Days : d >= s.day => h.day[d] <= LoginsOn(s, d) + Pending(s, d)
    BY <1>7 DEF Counted
  <2> QED
    BY <1>2, <1>5, <1>7, <1>8, <2>1, <2>2, DayCounts
<1>10. r.fp = cred \/ h.misses = 0
  BY <1>3, <1>5, <1>7 DEF Counted
<1>11. h.misses <= s.fails + 1 /\ h.last["broker"] <= r.reqAt
  BY <1>3, <1>5, <1>7, <1>8 DEF Counted
<1>12. ~r.blocked => r.fails < MaxFailures /\ h.misses <= r.fails /\ r.fails \in Nat
  BY <1>5, <1>6, <1>7, <1>11
<1>13. Counted(r, h)
  BY <1>5, <1>9, <1>10, <1>11, <1>12 DEF Counted
<1> QED
  BY <1>1, <1>13

\* A decision written over the record it was made on: served, or marked.
LEMMA ChosenCounts ==
  ASSUME BaseInv, Locked, CountInv, NEW p \in Workloads, NEW o, o = op[p],
         o.pc \in {"serve", "mark"}, o.cur
  PROVE  /\ Counted(o.st, hist) /\ ~o.st.blocked /\ hist.misses <= o.st.fails
         /\ hist.last["broker"] <= o.st.reqAt
         /\ \A d \in Days : d >= o.st.day => hist.day[d] <= LoginsOn(o.st, d)
<1>1. PICK s, r, h : s = rec /\ r = o.st /\ h = hist
  OBVIOUS
<1>2. s \in RecordType /\ r \in RecordType /\ Fits(o, p, s) /\ Sound(s)
  BY <1>1, LockedIs
<1>3. /\ s.marker = None /\ ~(s.blocked /\ s.fp = cred) /\ r.day = s.day /\ r.count = s.count
      /\ r.fails = IF s.blocked THEN 0 ELSE s.fails
      /\ s.reqAt <= r.reqAt /\ ~r.blocked
      /\ r.marker = None \/ r.fp = cred
  BY <1>1, <1>2 DEF Fits, Current, Decided, Choosing
<1>4. /\ Counted(s, h) /\ h \in HistType /\ h.misses \in Nat /\ h.last["broker"] \in Int
      /\ s.fails \in Nat /\ s.reqAt \in Int /\ r.reqAt \in Int /\ MaxFailures \in Nat \ {0}
  BY <1>1, <1>2, CountIs, EmptyTypes, Bounds DEF RecordType, Times
<1>5. s.by = "none" /\ h.last["broker"] <= r.reqAt
  BY <1>2, <1>3, <1>4 DEF Counted, Sound
<1>6. h.misses <= r.fails /\ r.fails < MaxFailures
  BY <1>3, <1>4 DEF Counted
<1>7. ASSUME NEW d \in Days, d >= r.day
      PROVE  h.day[d] <= LoginsOn(r, d)
  <2>1. h.day[d] <= LoginsOn(s, d) + Pending(s, d) /\ Pending(s, d) = 0 /\ LoginsOn(s, d) = LoginsOn(r, d)
    BY <1>3, <1>4, <1>7 DEF Counted, Pending, LoginsOn
  <2>2. LoginsOn(s, d) \in Nat
    BY <1>2, LoginsType
  <2> QED
    BY <2>1, <2>2
<1>8. \A d \in Days : d >= r.day => h.day[d] <= LoginsOn(r, d) + Pending(r, d)
  <2> SUFFICES ASSUME NEW d \in Days, d >= r.day
               PROVE  h.day[d] <= LoginsOn(r, d) + Pending(r, d)
    OBVIOUS
  <2>1. h.day[d] <= LoginsOn(r, d) /\ LoginsOn(r, d) \in Nat /\ Pending(r, d) \in {0, 1} /\ h.day[d] \in Nat
    BY <1>2, <1>4, <1>7, LoginsType DEF Pending, HistType
  <2> QED
    BY <2>1
<1>9. r.fails \in Nat
  BY <1>2 DEF RecordType
<1>10. Counted(r, h)
  BY <1>3, <1>4, <1>5, <1>6, <1>8, <1>9 DEF Counted
<1> QED
  BY <1>1, <1>3, <1>5, <1>6, <1>7, <1>10

\* A run that is recording its outcome on the record it holds, or has read.
LEMMA EndingHolds ==
  ASSUME BaseInv, Locked, CountInv, NEW p \in Workloads, NEW o, o = op[p], o.pc \in {"commit", "rewrite"},
         o.cur
  PROVE  /\ rec = o.st /\ rec.fp = cred /\ rec.day <= Day(o.started) /\ o.started \in 0 .. MaxClock
         /\ rec.marker = None \/ (rec.marker = o.started /\ rec.by = p /\ ~rec.blocked)
         /\ o \in OpType /\ Ended(o, p) /\ o.pc \in Ending
<1>1. o \in OpType /\ Ended(o, p) /\ o.started \in 0 .. MaxClock /\ o.pc \in Ending
  BY Underway DEF BaseInv, Begun, Ending
<1>2. Fits(o, p, rec) /\ Sound(rec) /\ Owed(o, p, rec, hist)
  BY LockedIs, CountIs
<1>3. rec = o.st /\ rec.fp = cred /\ rec.day <= Day(o.started)
  BY <1>1, <1>2 DEF Fits, Current, Holding, Owed
<1>4. rec.marker = None \/ (rec.marker = o.started /\ rec.by = p /\ ~rec.blocked)
  BY <1>1, <1>2 DEF Fits, Holding, Sound, Ending
<1> QED
  BY <1>1, <1>3, <1>4

\* An attempt that was not submitted leaves the counts as they were.
LEMMA UncountedCounts ==
  ASSUME BaseInv, Locked, CountInv, NEW p \in Workloads, NEW o, o = op[p], o.pc \in {"commit", "rewrite"},
         o.cur, o.kind \in {"held", "not_submitted"},
         NEW r, Cleared(r, o.st), Uncounted(r, o.st), r.reqAt = o.st.reqAt
  PROVE  Counted(r, hist) /\ Owed(o, p, r, hist)
<1>1. PICK s, h : s = rec /\ h = hist
  OBVIOUS
<1>2. /\ s = o.st /\ s.fp = cred /\ s.day <= Day(o.started)
      /\ s.marker = None \/ (s.marker = o.started /\ s.by = p /\ ~s.blocked)
      /\ o.pc \in Ending
  BY <1>1, EndingHolds
<1>3. s \in RecordType /\ Sound(s) /\ r \in RecordType
  BY <1>1, LockedIs DEF Cleared
<1>4. /\ Counted(s, h) /\ Owed(o, p, s, h) /\ h \in HistType /\ h.misses \in Nat /\ h.last["broker"] \in Int
  BY <1>1, CountIs
<1>5. Marked(o, s) /\ Marked(o, r)
  BY <1>2 DEF Marked
<1>6. /\ h.day[Day(o.started)] <= LoginsOn(s, Day(o.started))
      /\ ~s.blocked /\ h.misses <= s.fails /\ (p = "broker" => h.last["broker"] <= s.reqAt)
  BY <1>4, <1>5 DEF Owed, Unspent
<1>7. /\ r.marker = None /\ r.by = "none" /\ r.fp = s.fp /\ r.day = s.day /\ r.count = s.count
      /\ r.fails = s.fails /\ r.blocked = s.blocked /\ r.reqAt = s.reqAt
  BY <1>2 DEF Cleared, Uncounted
<1>8. \A d \in Days : d >= r.day => h.day[d] <= LoginsOn(r, d) + Pending(r, d)
  <2>1. \A d \in Days : d >= s.day => h.day[d] <= LoginsOn(s, d) + Pending(s, d)
    BY <1>4 DEF Counted
  <2>2. s.marker # None => h.day[Day(s.marker)] <= LoginsOn(s, Day(s.marker))
    BY <1>2, <1>6
  <2> QED
    BY <1>3, <1>4, <1>7, <2>1, <2>2, SameCounts
<1>9. h.last["broker"] <= r.reqAt
  <2>1. CASE p = "broker"
    BY <1>6, <1>7, <2>1
  <2>2. CASE p = "job"
    BY <1>2, <1>3, <1>4, <1>7, <2>2 DEF Counted, Sound
  <2> QED
    BY <2>1, <2>2 DEF Workloads
<1>10. ~r.blocked => r.fails < MaxFailures /\ h.misses <= r.fails /\ r.fails \in Nat
  BY <1>3, <1>4, <1>6, <1>7 DEF Counted, RecordType
<1>11. Counted(r, h)
  BY <1>2, <1>7, <1>8, <1>9, <1>10 DEF Counted
<1>12. LoginsOn(r, Day(o.started)) = LoginsOn(s, Day(o.started))
  BY <1>7 DEF LoginsOn
<1>13. Owed(o, p, r, h)
  BY <1>2, <1>4, <1>5, <1>6, <1>7, <1>9, <1>12 DEF Owed, Unspent
<1> QED
  BY <1>1, <1>11, <1>13

\* One that was submitted is counted.
LEMMA MadeCounts ==
  ASSUME LimitsAgree, BaseInv, Locked, CountInv, NEW p \in Workloads, NEW o, o = op[p],
         o.pc \in {"commit", "rewrite"}, o.cur,
         o.kind \in {"unknown", "rejected", "failed", "unconfirmed", "success"},
         NEW r, Cleared(r, o.st), Made(r, o.st, o.started), NEW m, m = IF p = "broker" THEN MaxFailures ELSE MaxUnconfirmed,
         r.reqAt = IF p = "broker" THEN o.started ELSE o.st.reqAt,
         o.kind = "unknown" => p = "job" /\ o.pc = "commit" /\ r.fails = o.st.fails /\ r.blocked = o.st.blocked,
         o.kind = "rejected" => r.blocked,
         o.kind \in {"failed", "unconfirmed"} => Failed(r, o.st, m),
         o.kind = "success" => r.fails = 0 /\ r.blocked = o.st.blocked
  PROVE  Counted(r, hist) /\ Owed(o, p, r, hist)
<1>1. PICK s, h, t : s = rec /\ h = hist /\ t = o.started
  OBVIOUS
<1>2. /\ s = o.st /\ s.fp = cred /\ s.day <= Day(t) /\ t \in 0 .. MaxClock
      /\ s.marker = None \/ (s.marker = t /\ s.by = p /\ ~s.blocked)
      /\ o.pc \in Ending /\ Ended(o, p)
  BY <1>1, EndingHolds
<1>3. s \in RecordType /\ Sound(s) /\ r \in RecordType
  BY <1>1, LockedIs DEF Cleared
<1>4. /\ Counted(s, h) /\ Owed(o, p, s, h) /\ h \in HistType /\ h.misses \in Nat /\ h.last["broker"] \in Int
  BY <1>1, CountIs
<1>5. ~Marked(o, s) /\ ~Marked(o, r)
  BY <1>2 DEF Marked, Ending
<1>6. /\ r.marker = None /\ r.by = "none" /\ r.fp = cred /\ r.day = Day(t)
      /\ Made(r, s, t) /\ r.reqAt = IF p = "broker" THEN t ELSE s.reqAt
  BY <1>1, <1>2 DEF Cleared, Made
<1>7. m \in Nat /\ m <= MaxFailures /\ MaxFailures \in Nat \ {0} /\ s.fails \in Nat /\ r.fails \in Nat
  BY <1>1, <1>2, <1>3, LimitIs, Bounds DEF Ending, RecordType
<1>8. \A d \in Days : d >= r.day => h.day[d] <= LoginsOn(r, d) + Pending(r, d)
  <2>1. \A d \in Days : d >= s.day => h.day[d] <= LoginsOn(s, d) + Pending(s, d)
    BY <1>4 DEF Counted
  <2> QED
    BY <1>2, <1>3, <1>4, <1>6, <2>1, DayCounts
<1>9. h.last["broker"] <= r.reqAt
  <2>1. CASE p = "broker"
    BY <1>1, <1>2, <1>4, <1>5, <1>6, <2>1 DEF Owed
  <2>2. CASE p = "job"
    BY <1>2, <1>3, <1>4, <1>6, <2>2 DEF Counted, Sound
  <2> QED
    BY <2>1, <2>2 DEF Workloads
<1>10. ~s.blocked => s.fails < MaxFailures /\ h.misses <= s.fails + 1
  BY <1>4, <1>7 DEF Counted
<1>11. ~r.blocked => r.fails < MaxFailures /\ h.misses <= r.fails
  <2>1. CASE o.kind = "unknown"
    BY <1>2, <1>4, <1>7, <1>10, <2>1 DEF Owed
  <2>2. CASE o.kind = "rejected"
    BY <2>2
  <2>3. CASE o.kind \in {"failed", "unconfirmed"}
    BY <1>2, <1>4, <1>7, <1>10, <2>3 DEF Failed
  <2>4. CASE o.kind = "success"
    BY <1>2, <1>4, <1>7, <2>4 DEF Owed
  <2> QED
    BY <2>1, <2>2, <2>3, <2>4
<1>12. Counted(r, h)
  BY <1>6, <1>7, <1>8, <1>9, <1>11 DEF Counted
<1>13. r.day <= Day(t)
  <2>1. Day(t) \in Nat
    BY <1>2, DayType
  <2> QED
    BY <1>6, <2>1
<1>14. p = "job" /\ o.pc = "commit" /\ o.kind = "unknown" => ~r.blocked /\ h.misses <= r.fails
  BY <1>2, <1>4 DEF Owed
<1>15. Owed(o, p, r, h)
  BY <1>1, <1>2, <1>4, <1>5, <1>13, <1>14 DEF Owed, Unspent, Ending
<1> QED
  BY <1>1, <1>12, <1>15

LEMMA BrLeavesCounts ==
  ASSUME LimitsAgree, BaseInv, Locked, CountInv, NEW o, o = op["broker"],
         o.pc \in {"commit", "rewrite"}, o.cur, NEW r, BrLeaves(r, o, o.st)
  PROVE  Counted(r, hist) /\ Owed(o, "broker", r, hist) /\ r.by = "none"
<1>1. o.kind \in {"held", "not_submitted", "rejected", "failed", "success"} /\ Cleared(r, o.st)
  BY EndingHolds DEF Workloads, Ended, BrLeaves
<1>2. CASE o.kind \in {"held", "not_submitted"}
  BY <1>1, <1>2, UncountedCounts DEF BrLeaves, Workloads, Cleared
<1>3. CASE o.kind \in {"rejected", "failed", "success"}
  BY <1>1, <1>3, MadeCounts DEF BrLeaves, Workloads, Cleared
<1> QED
  BY <1>1, <1>2, <1>3

LEMMA JobLeavesCounts ==
  ASSUME LimitsAgree, BaseInv, Locked, CountInv, NEW o, o = op["job"],
         o.pc = "commit", o.cur, NEW r, JobLeaves(r, o, o.st)
  PROVE  Counted(r, hist) /\ Owed(o, "job", r, hist) /\ r.by = "none"
<1>1. o.kind \in {"not_submitted", "unknown", "rejected", "unconfirmed", "success"} /\ Cleared(r, o.st)
  BY EndingHolds DEF Workloads, Ended, JobLeaves
<1>2. CASE o.kind = "not_submitted"
  BY <1>1, <1>2, UncountedCounts DEF JobLeaves, Workloads, Cleared
<1>3. CASE o.kind \in {"unknown", "rejected", "unconfirmed", "success"}
  BY <1>1, <1>3, MadeCounts DEF JobLeaves, Workloads, Cleared
<1> QED
  BY <1>1, <1>2, <1>3

-----------------------------------------------------------------------------
(* Every step keeps the counts. *)

LEMMA FaultsStill ==
  ASSUME BaseInv, hist'.faults \in Nat, hist' = [hist EXCEPT !.faults = hist'.faults]
  PROVE  CountsStill
BY FaultsOnly DEF CountsStill, BaseInv

LEMMA FaultyStill ==
  ASSUME BaseInv, hist' \in HistType, hist' = [hist EXCEPT !.faults = hist'.faults]
  PROVE  CountsStill
<1>1. hist'.faults \in Nat
  BY DEF HistType
<1> QED
  BY <1>1, FaultsStill

\* A step of p that leads where nothing is owed.
LEMMA CalmCounts ==
  ASSUME BaseInv, CountInv, UNCHANGED <<dep, cred, rec>>, CountsStill, NEW p \in Workloads, NEW n,
         op' = [op EXCEPT ![p] = n], Calm(n)
  PROVE  CountInv'
<1>1. Owed(n, p, rec, hist)
  BY CalmOwed
<1> QED
  BY <1>1, CountMoves

LEMMA BrOpenCounts ==
  ASSUME BaseInv, CountInv, BrOpen
  PROVE  CountInv'
<1>1. UNCHANGED <<dep, cred, rec>>
  BY DEF BrOpen
<1>2. PICK n : BrGoesTo(n) /\ BrOpenTo(n)
  BY BrOpenIs DEF BaseInv
<1>3. Calm(n) /\ op' = [op EXCEPT !["broker"] = n]
  BY <1>2 DEF BrOpenTo, Calm, BrGoesTo
<1>4. CountsStill
  BY BrOpenIs, FaultyStill DEF BaseInv
<1> QED
  BY <1>1, <1>3, <1>4, CalmCounts DEF Workloads

LEMMA BrReadCounts ==
  ASSUME BaseInv, CountInv, BrRead
  PROVE  CountInv'
<1>1. UNCHANGED <<dep, cred, rec>>
  BY DEF BrRead
<1>2. PICK n : BrGoesTo(n) /\ BrReadTo(n)
  BY BrReadIs DEF BaseInv
<1>3. Calm(n) /\ op' = [op EXCEPT !["broker"] = n]
  BY <1>2 DEF BrReadTo, Calm, BrGoesTo
<1>4. CountsStill
  BY BrReadIs, FaultyStill DEF BaseInv
<1> QED
  BY <1>1, <1>3, <1>4, CalmCounts DEF Workloads

LEMMA BrProbeCounts ==
  ASSUME BaseInv, CountInv, BrProbe
  PROVE  CountInv'
<1>1. UNCHANGED <<dep, cred, rec>> /\ CountsStill
  BY DEF BrProbe, CountsStill
<1>2. PICK n : BrGoesTo(n) /\ BrProbeTo(n)
  BY BrProbeIs DEF BaseInv
<1>3. Calm(n) /\ op' = [op EXCEPT !["broker"] = n]
  BY <1>2 DEF BrProbeTo, Calm, BrGoesTo
<1> QED
  BY <1>1, <1>3, CalmCounts DEF Workloads

\* Marking a login that has not been written yet.
LEMMA MarkOwed ==
  ASSUME NEW p \in Workloads, NEW o, Fits(o, p, rec), o.pc \in Choosing, NEW n, n.pc = "mark", n.st.by = p,
         p = "broker" => LoginsOn(n.st, Day(n.started)) < dep.budget, NEW h
  PROVE  Owed(n, p, rec, h)
<1>1. rec.by # p
  BY DEF Fits, Holding, Choosing
<1>2. ~Marked(n, rec)
  BY <1>1 DEF Marked, Ending
<1> QED
  BY <1>2 DEF Owed, Unspent, Inside, Ending

LEMMA BrGateCounts ==
  ASSUME BaseInv, Locked, CountInv, BrGate
  PROVE  CountInv'
<1>1. UNCHANGED <<dep, cred, rec>>
  BY DEF BrGate
<1>2. PICK n : BrGoesTo(n) /\ BrGateTo(n)
  BY BrGateIs DEF BaseInv
<1>3. PICK o : o = op["broker"]
  OBVIOUS
<1>4. o.pc = "gate" /\ Fits(o, "broker", rec) /\ o.st \in RecordType
  BY <1>3, BrGateIs, LockedIs DEF BaseInv, Workloads
<1>5. CountsStill
  BY BrGateIs, FaultyStill DEF BaseInv
<1>6. CASE n.pc = "answer"
  <2>1. Calm(n) /\ op' = [op EXCEPT !["broker"] = n]
    BY <1>2, <1>6 DEF Calm, BrGoesTo
  <2> QED
    BY <1>1, <1>5, <2>1, CalmCounts DEF Workloads
<1>7. CASE /\ n.pc = "mark" /\ gate(clock, o.st, o.sat) = "open" /\ n.started = clock
           /\ n.st = [o.st EXCEPT !.fp = cred, !.marker = clock, !.by = "broker"]
  <2>1. n.st.by = "broker" /\ n.st.day = o.st.day /\ n.st.count = o.st.count
    BY <1>4, <1>7 DEF RecordType
  <2>2. LoginsOn(n.st, Day(clock)) = LoginsOn(o.st, Day(clock))
    BY <2>1 DEF LoginsOn
  <2>3. LoginsOn(o.st, Day(clock)) \in Nat /\ dep.budget \in Nat
    BY <1>4, LoginsType, Numbers DEF BaseInv
  <2>4. LoginsOn(n.st, Day(n.started)) < dep.budget
    BY <1>7, <2>2, <2>3, GateRules
  <2>5. Owed(n, "broker", rec, hist)
    BY <1>4, <1>7, <2>1, <2>4, MarkOwed DEF Choosing, Workloads
  <2> QED
    BY <1>1, <1>2, <1>5, <2>5, CountMoves DEF BrGoesTo, Workloads
<1> QED
  BY <1>2, <1>3, <1>6, <1>7 DEF BrGateTo

\* The login begins, or its marker is to be taken back.
LEMMA UnspentOwed ==
  ASSUME NEW p \in Workloads, NEW o, NEW r, NEW h, Owed(o, p, r, h), o.pc \in {"attempt", "login"},
         NEW n, n.st = o.st, n.started = o.started,
         \/ n.pc \in {"attempt", "login"}
         \/ n.pc = "commit" /\ n.kind \in {"held", "not_submitted"}
  PROVE  Owed(n, p, r, h)
BY DEF Owed, Unspent, Marked, Inside, Ending

LEMMA BrAttemptCounts ==
  ASSUME BaseInv, CountInv, BrAttempt
  PROVE  CountInv'
<1>1. UNCHANGED <<dep, cred, rec>> /\ CountsStill
  BY DEF BrAttempt, CountsStill
<1>2. PICK n : BrGoesTo(n) /\ BrAttemptTo(n)
  BY BrAttemptIs DEF BaseInv
<1>3. PICK o : o = op["broker"]
  OBVIOUS
<1>4. o.pc = "attempt" /\ Owed(o, "broker", rec, hist)
  BY <1>3, BrAttemptIs, CountIs DEF BaseInv, Workloads
<1>5. Owed(n, "broker", rec, hist)
  BY <1>2, <1>3, <1>4, UnspentOwed DEF BrAttemptTo, Workloads
<1> QED
  BY <1>1, <1>2, <1>5, CountMoves DEF BrGoesTo, Workloads

LEMMA JobAttemptCounts ==
  ASSUME BaseInv, CountInv, JobAttempt
  PROVE  CountInv'
<1>1. UNCHANGED <<dep, cred, rec>> /\ CountsStill
  BY DEF JobAttempt, CountsStill
<1>2. PICK n : JobGoesTo(n) /\ JobAttemptTo(n)
  BY JobAttemptIs DEF BaseInv
<1>3. PICK o : o = op["job"]
  OBVIOUS
<1>4. o.pc = "attempt" /\ Owed(o, "job", rec, hist)
  BY <1>3, JobAttemptIs, CountIs DEF BaseInv, Workloads
<1>5. Owed(n, "job", rec, hist)
  BY <1>2, <1>3, <1>4, UnspentOwed DEF JobAttemptTo, Workloads
<1> QED
  BY <1>1, <1>2, <1>5, CountMoves DEF JobGoesTo, Workloads

\* A submission is on the record, as its marker.
LEMMA SubmitCounts ==
  ASSUME WritersApart, BaseInv, Locked, CountInv, NEW p \in Workloads, op[p].pc = "login", NEW o, o = op[p],
         NEW e, NEW h, Submits(p, e, h), e.submitted
  PROVE  /\ Counted(rec, h) /\ rec.day <= Day(o.started)
         /\ p = "broker" => h.last["broker"] <= o.started
         /\ p = "job" /\ e.says = "unknown" => ~rec.blocked /\ h.misses <= rec.fails
         /\ \A q \in Workloads : q # p => Owed(op[q], q, rec, h)
<1>1. PICK s, g, t, d : s = rec /\ g = hist /\ t = o.started /\ d = Day(o.started)
  OBVIOUS
<1>2. o \in OpType /\ o.started \in 0 .. MaxClock /\ o.pc \in Inside
  BY Underway DEF BaseInv, Begun, Inside
<1>3. o.cur /\ s = o.st /\ s.by = p /\ s.marker = t /\ s.fp = cred
  BY <1>1, <1>2, LockedIs DEF Fits, Holding
<1>4. Marked(o, s) /\ Owed(o, p, s, g) /\ Counted(s, g)
  BY <1>1, CountIs DEF Marked
<1>5. /\ g.day[d] <= LoginsOn(s, d) /\ ~s.blocked /\ g.misses <= s.fails /\ s.day <= d
      /\ p = "broker" => g.last["broker"] <= s.reqAt
  BY <1>1, <1>4 DEF Owed, Unspent
<1>6. /\ h.day = [g.day EXCEPT ![d] = @ + 1] /\ h.last = [g.last EXCEPT ![p] = t]
      /\ h.misses = IF p = "job" /\ e.says = "unknown" THEN g.misses ELSE g.misses + 1
  BY <1>1 DEF Submits
<1>7. /\ g.day \in [Days -> Nat] /\ g.misses \in Nat /\ g.last \in [Workloads -> Times]
      /\ d \in Days /\ t \in Nat /\ t \in Times /\ s \in RecordType /\ s.fails \in Nat /\ t # None
  BY <1>1, <1>2, CountIs, LockedIs, DayType, Bounds DEF Times, RecordType, None
<1>8. ASSUME NEW c \in Days, c >= s.day
      PROVE  h.day[c] <= LoginsOn(s, c) + Pending(s, c)
  <2>1. g.day[c] <= LoginsOn(s, c) + Pending(s, c) /\ LoginsOn(s, c) \in Nat /\ g.day[c] \in Nat
    BY <1>4, <1>7, <1>8, LoginsType DEF Counted
  <2>2. CASE c = d
    <3>1. Pending(s, c) = 1 /\ h.day[c] = g.day[c] + 1
      BY <1>1, <1>3, <1>6, <1>7, <2>2 DEF Pending
    <3> QED
      BY <1>5, <2>1, <2>2, <3>1
  <2>3. CASE c # d
    <3>1. h.day[c] = g.day[c]
      BY <1>6, <1>7, <2>3
    <3> QED
      BY <2>1, <3>1
  <2> QED
    BY <2>2, <2>3
<1>9. h.misses <= s.fails + 1
  BY <1>5, <1>6, <1>7
<1>10. h.last["broker"] <= s.reqAt \/ (s.by = "broker" /\ h.last["broker"] <= s.marker)
  <2>1. CASE p = "broker"
    <3>1. h.last["broker"] = t
      BY <1>6, <1>7, <2>1 DEF Workloads
    <3> QED
      BY <1>3, <1>7, <2>1, <3>1
  <2>2. CASE p = "job"
    <3>1. h.last["broker"] = g.last["broker"]
      BY <1>6, <1>7, <2>2 DEF Workloads
    <3> QED
      BY <1>3, <1>4, <2>2, <3>1 DEF Counted
  <2> QED
    BY <2>1, <2>2 DEF Workloads
<1>11. Counted(s, h)
  BY <1>3, <1>4, <1>5, <1>7, <1>8, <1>9, <1>10 DEF Counted
<1>12. p = "broker" => h.last["broker"] <= t
  BY <1>6, <1>7 DEF Workloads
<1>13. p = "job" /\ e.says = "unknown" => ~s.blocked /\ h.misses <= s.fails
  BY <1>5, <1>6
<1>14. ASSUME NEW q \in Workloads, q # p
       PROVE  Owed(op[q], q, s, h)
  <2>1. PICK m : m = op[q]
    OBVIOUS
  <2>2. m.pc \notin Inside \cup Ending
    BY <1>2, <1>3, <1>14, <2>1, Exclusive DEF Quiet, Inside
  <2>3. Decided(m, q) /\ Owed(m, q, s, g)
    BY <1>1, <2>1 DEF Locked, Fits, CountInv
  <2>4. ~Marked(m, s)
    BY <1>3, <1>14, <2>2, <2>3 DEF Marked, Decided, Inside, Ending
  <2>5. Owed(m, q, s, h)
    BY <2>2, <2>3, <2>4 DEF Owed, Unspent, Inside, Ending
  <2> QED
    BY <2>1, <2>5
<1> QED
  BY <1>1, <1>5, <1>11, <1>12, <1>13, <1>14

\* A login that was submitted, and its outcome still to be recorded.
LEMMA SpentOwed ==
  ASSUME NEW p \in Workloads, NEW n, NEW r, NEW h,
         \/ n.pc = "confirm"
         \/ n.pc = "commit" /\ n.kind \in {"rejected", "failed", "unknown", "unconfirmed"}
         \/ n.pc = "commit" /\ n.kind = "success" /\ h.misses = 0,
         r.day <= Day(n.started), p = "broker" => h.last["broker"] <= n.started,
         p = "job" /\ n.pc = "commit" /\ n.kind = "unknown" => ~r.blocked /\ h.misses <= r.fails
  PROVE  Owed(n, p, r, h)
<1>1. ~Marked(n, r) /\ n.pc \in {"confirm", "commit"}
  BY DEF Marked, Ending
<1>2. n.pc \in Ending /\ n.kind = "success" => h.misses = 0
  BY DEF Ending
<1>3. p = "broker" => p # "job"
  OBVIOUS
<1> QED
  BY <1>1, <1>2, <1>3 DEF Owed, Unspent

\* p becomes n with its login submitted.
LEMMA SubmitMoves ==
  ASSUME WritersApart, BaseInv, Locked, CountInv, UNCHANGED <<dep, cred, rec>>, NEW p \in Workloads,
         op[p].pc = "login", NEW e, NEW h, Submits(p, e, h), e.submitted,
         hist'.day = h.day /\ hist'.misses = h.misses /\ hist'.last = h.last,
         NEW n, op' = [op EXCEPT ![p] = n], Owed(n, p, rec, h)
  PROVE  CountInv'
<1>1. PICK o, s, g : o = op[p] /\ s = rec /\ g = hist'
  OBVIOUS
<1>2. Counted(s, h) /\ \A q \in Workloads : q # p => Owed(op[q], q, s, h)
  BY <1>1, SubmitCounts
<1>3. \A q \in Workloads : Owed(op'[q], q, s, h)
  BY <1>1, <1>2 DEF BaseInv, Types
<1>4. Counted(s, g) /\ \A q \in Workloads : Owed(op'[q], q, s, g)
  BY <1>1, <1>2, <1>3, CountAlike
<1> QED
  BY <1>1, <1>4, CountNext

LEMMA BrLoginCounts ==
  ASSUME WritersApart, BaseInv, Locked, CountInv, BrLogin
  PROVE  CountInv'
<1>1. UNCHANGED <<dep, cred, rec>>
  BY DEF BrLogin
<1>2. PICK e \in LoginEnds, n \in OpType : BrGoesTo(n) /\ BrLoginTo(n, e) /\ Submits("broker", e, hist')
  BY BrLoginIs DEF BaseInv
<1>3. PICK o, h : o = op["broker"] /\ h = hist'
  OBVIOUS
<1>4. o.pc = "login" /\ Owed(o, "broker", rec, hist) /\ op' = [op EXCEPT !["broker"] = n]
  BY <1>2, <1>3, BrLoginIs, CountIs DEF BaseInv, Workloads, BrGoesTo
<1>5. CASE e.submitted
  <2>1. rec.day <= Day(o.started) /\ h.last["broker"] <= o.started
    BY <1>2, <1>3, <1>4, <1>5, SubmitCounts DEF Workloads
  <2>2. /\ n.started = o.started
        /\ n.pc = "confirm" \/ (n.pc = "commit" /\ n.kind \in {"rejected", "failed"})
    BY <1>2, <1>3, <1>5 DEF BrLoginTo
  <2>3. Owed(n, "broker", rec, h)
    BY <2>1, <2>2, SpentOwed DEF Workloads
  <2> QED
    BY <1>1, <1>2, <1>3, <1>4, <1>5, <2>3, SubmitMoves DEF Workloads
<1>6. CASE ~e.submitted
  <2>1. CountsStill
    BY <1>2, <1>6 DEF Submits, CountsStill
  <2>2. /\ n.st = o.st /\ n.started = o.started
        /\ n.pc = "attempt" \/ (n.pc = "commit" /\ n.kind = "not_submitted")
    BY <1>2, <1>3, <1>6, LoginEndsIs DEF BrLoginTo
  <2>3. Owed(n, "broker", rec, hist)
    BY <1>4, <2>2, UnspentOwed DEF Workloads
  <2> QED
    BY <1>1, <1>4, <2>1, <2>3, CountMoves DEF Workloads
<1> QED
  BY <1>5, <1>6

LEMMA JobLoginCounts ==
  ASSUME WritersApart, BaseInv, Locked, CountInv, JobLogin
  PROVE  CountInv'
<1>1. UNCHANGED <<dep, cred, rec>>
  BY DEF JobLogin
<1>2. PICK e \in LoginEnds, n \in OpType : JobGoesTo(n) /\ JobLoginTo(n, e) /\ Submits("job", e, hist')
  BY JobLoginIs DEF BaseInv
<1>3. PICK o, h : o = op["job"] /\ h = hist'
  OBVIOUS
<1>4. o.pc = "login" /\ Owed(o, "job", rec, hist) /\ op' = [op EXCEPT !["job"] = n]
  BY <1>2, <1>3, JobLoginIs, CountIs DEF BaseInv, Workloads, JobGoesTo
<1>5. CASE e.submitted
  <2>1. rec.day <= Day(o.started) /\ (e.says = "unknown" => ~rec.blocked /\ h.misses <= rec.fails)
    BY <1>2, <1>3, <1>4, <1>5, SubmitCounts DEF Workloads
  <2>2. /\ n.started = o.started
        /\ \/ n.pc = "confirm"
           \/ /\ n.pc = "commit" /\ n.kind \in {"rejected", "unknown", "unconfirmed"}
              /\ n.kind = "unknown" => e.says = "unknown"
    BY <1>2, <1>3, <1>5 DEF JobLoginTo
  <2>3. Owed(n, "job", rec, h)
    BY <2>1, <2>2, SpentOwed DEF Workloads
  <2> QED
    BY <1>1, <1>2, <1>3, <1>4, <1>5, <2>3, SubmitMoves DEF Workloads
<1>6. CASE ~e.submitted
  <2>1. CountsStill
    BY <1>2, <1>6 DEF Submits, CountsStill
  <2>2. /\ n.st = o.st /\ n.started = o.started
        /\ n.pc = "attempt" \/ (n.pc = "commit" /\ n.kind = "not_submitted")
    BY <1>2, <1>3, <1>6, LoginEndsIs DEF JobLoginTo
  <2>3. Owed(n, "job", rec, hist)
    BY <1>4, <2>2, UnspentOwed DEF Workloads
  <2> QED
    BY <1>1, <1>4, <2>1, <2>3, CountMoves DEF Workloads
<1> QED
  BY <1>5, <1>6

LEMMA CrashCounts ==
  ASSUME WritersApart, BaseInv, Locked, CountInv, NEW p \in Workloads, Crash(p)
  PROVE  CountInv'
<1>1. UNCHANGED <<dep, cred, rec>>
  BY DEF Crash
<1>2. PICK n : n = Idle
  OBVIOUS
<1>3. op' = [op EXCEPT ![p] = n] /\ Calm(n)
  BY <1>2, CrashIs, EmptyTypes DEF Calm
<1>a. PICK e \in LoginEnds : \E h : CrashTo(p, e, h)
  BY CrashIs
<1>4. PICK h : CrashTo(p, e, h)
  BY <1>a
<1>5. CASE e.submitted
  <2>1. Owed(n, p, rec, h)
    BY <1>3, CalmOwed
  <2> QED
    BY <1>1, <1>3, <1>4, <1>5, <2>1, SubmitMoves DEF CrashTo
<1>6. CASE ~e.submitted
  <2>1. CountsStill
    BY <1>4, <1>6 DEF CrashTo, Submits, CountsStill
  <2> QED
    BY <1>1, <1>3, <2>1, CalmCounts
<1> QED
  BY <1>5, <1>6

\* A confirmed session ends a row of failures.
LEMMA MissesEnd ==
  ASSUME NEW h \in HistType, NEW g, g.day = h.day, g.last = h.last, g.misses = 0,
         NEW o, NEW p, NEW r \in RecordType
  PROVE  /\ Owed(o, p, r, h) => Owed(o, p, r, g)
         /\ Counted(r, h) => Counted(r, g)
<1>1. r.fails \in Nat /\ h.misses \in Nat
  BY DEF RecordType, HistType
<1> QED
  BY <1>1 DEF Owed, Unspent, Counted

\* The login is confirmed, or is not.
LEMMA ConfirmMoves ==
  ASSUME BaseInv, Locked, CountInv, UNCHANGED <<dep, cred, rec>>, NEW p \in Workloads, op[p].pc = "confirm",
         NEW n, op' = [op EXCEPT ![p] = n], n.pc = "commit", n.started = op[p].started,
         \/ n.kind = "success" /\ hist'.misses = 0 /\ hist'.day = hist.day /\ hist'.last = hist.last
         \/ n.kind \in {"failed", "unconfirmed"} /\ hist' = hist
  PROVE  CountInv'
<1>1. PICK o, s, h, g : o = op[p] /\ s = rec /\ h = hist /\ g = hist'
  OBVIOUS
<1>2. Owed(o, p, s, h) /\ Counted(s, h) /\ h \in HistType /\ s \in RecordType
  BY <1>1, CountIs, LockedIs
<1>3. s.day <= Day(n.started) /\ (p = "broker" => h.last["broker"] <= n.started)
  BY <1>1, <1>2 DEF Owed, Marked, Inside, Ending
<1>4. CASE n.kind = "success" /\ g.misses = 0 /\ g.day = h.day /\ g.last = h.last
  <2>1. Owed(n, p, s, g)
    BY <1>3, <1>4, SpentOwed
  <2>2. ASSUME NEW q \in Workloads
        PROVE  Owed(op'[q], q, s, g)
    <3>1. CASE q = p
      BY <2>1, <3>1 DEF BaseInv, Types
    <3>2. CASE q # p
      <4>1. Owed(op[q], q, s, h) /\ op'[q] = op[q]
        BY <1>1, <3>2 DEF CountInv, BaseInv, Types
      <4> QED
        BY <1>2, <1>4, <4>1, MissesEnd
    <3> QED
      BY <3>1, <3>2
  <2>3. Counted(s, g)
    BY <1>2, <1>4, MissesEnd
  <2> QED
    BY <1>1, <2>2, <2>3, CountNext
<1>5. CASE n.kind \in {"failed", "unconfirmed"} /\ hist' = hist
  <2>1. Owed(n, p, rec, hist)
    BY <1>1, <1>3, <1>5, SpentOwed
  <2>2. CountsStill
    BY <1>5 DEF CountsStill
  <2> QED
    BY <2>1, <2>2, CountMoves
<1> QED
  BY <1>1, <1>4, <1>5

LEMMA BrConfirmCounts ==
  ASSUME BaseInv, Locked, CountInv, BrConfirm
  PROVE  CountInv'
<1>1. UNCHANGED <<dep, cred, rec>>
  BY DEF BrConfirm
<1>2. PICK n : BrGoesTo(n) /\ BrConfirmTo(n)
  BY BrConfirmIs DEF BaseInv
<1>3. op["broker"].pc = "confirm" /\ hist \in HistType
  BY BrConfirmIs DEF BaseInv, Types, RestTyped
<1>4. PICK w : w = op["broker"].sid
  OBVIOUS
<1>5. /\ n.pc = "commit" /\ n.started = op["broker"].started
      /\ \/ n.kind = "success" /\ hist' = [hist EXCEPT !.misses = 0, !.won = w]
         \/ n.kind = "failed" /\ hist' = hist
  BY <1>2, <1>4 DEF BrConfirmTo
<1>6. \/ n.kind = "success" /\ hist'.misses = 0 /\ hist'.day = hist.day /\ hist'.last = hist.last
      \/ n.kind = "failed" /\ hist' = hist
  BY <1>3, <1>5 DEF HistType
<1> QED
  BY <1>1, <1>2, <1>3, <1>5, <1>6, ConfirmMoves DEF BrGoesTo, Workloads

LEMMA JobConfirmCounts ==
  ASSUME BaseInv, Locked, CountInv, JobConfirm
  PROVE  CountInv'
<1>1. UNCHANGED <<dep, cred, rec>>
  BY DEF JobConfirm
<1>2. PICK n : JobGoesTo(n) /\ JobConfirmTo(n)
  BY JobConfirmIs DEF BaseInv
<1>3. op["job"].pc = "confirm" /\ hist \in HistType
  BY JobConfirmIs DEF BaseInv, Types, RestTyped
<1>5. /\ n.pc = "commit" /\ n.started = op["job"].started
      /\ \/ n.kind = "success" /\ hist' = [hist EXCEPT !.misses = 0]
         \/ n.kind = "unconfirmed" /\ hist' = hist
  BY <1>2 DEF JobConfirmTo
<1>6. \/ n.kind = "success" /\ hist'.misses = 0 /\ hist'.day = hist.day /\ hist'.last = hist.last
      \/ n.kind = "unconfirmed" /\ hist' = hist
  BY <1>3, <1>5 DEF HistType
<1> QED
  BY <1>1, <1>2, <1>3, <1>5, <1>6, ConfirmMoves DEF JobGoesTo, Workloads

-----------------------------------------------------------------------------
(* The steps that write the record. *)

LEMMA SettleOwes ==
  ASSUME WritersApart, LimitsAgree, BaseInv, Locked, CountInv, UNCHANGED <<dep, cred>>, CountsStill,
         NEW p \in Workloads, NEW o, o = op[p], o.pc = "settle", NEW n,
         NEW ok \in OpType, NEW cas \in OpType, NEW down \in OpType,
         WriteGoes(p, n, o.st, ok, cas, down), Calm(ok), Calm(cas), Calm(down)
  PROVE  CountInv'
<1>1. o.st.by = "none" /\ o.st \in RecordType
  BY LockedIs DEF Fits, Decided
<1>2. o.cur => Counted(o.st, hist)
  BY SettleCounts
<1>3. /\ Owed(ok, p, o.st, hist) /\ Owed(cas, p, rec, hist)
      /\ Owed(o, p, o.st, hist)
  BY CalmOwed DEF Calm
<1> QED
  BY <1>1, <1>2, <1>3, CountWrites

LEMMA BrSettleCounts ==
  ASSUME WritersApart, LimitsAgree, BaseInv, Locked, CountInv, BrSettle
  PROVE  CountInv'
<1>1. UNCHANGED <<dep, cred>> /\ CountsStill
  BY BrSettleIs, FaultsStill DEF BrSettle, BaseInv
<1>2. PICK n, ok, cas, down : BrSettleTo(n, ok, cas, down)
  BY BrSettleIs DEF BaseInv
<1>3. PICK o : o = op["broker"]
  OBVIOUS
<1>4. o.pc = "settle"
  BY <1>3, BrSettleIs DEF BaseInv
<1>5. /\ WriteGoes("broker", n, o.st, ok, cas, down)
      /\ ok \in OpType /\ cas \in OpType /\ down \in OpType
      /\ Calm(ok) /\ Calm(cas) /\ Calm(down)
  BY <1>2, <1>3 DEF BrSettleTo, BrPast, Sane, Calm
<1> QED
  BY <1>1, <1>3, <1>4, <1>5, SettleOwes DEF Workloads

LEMMA JobSettleCounts ==
  ASSUME WritersApart, LimitsAgree, BaseInv, Locked, CountInv, JobSettle
  PROVE  CountInv'
<1>1. UNCHANGED <<dep, cred>> /\ CountsStill
  BY JobSettleIs, FaultsStill DEF JobSettle, BaseInv
<1>2. PICK n, ok : JobSettleTo(n, ok)
  BY JobSettleIs DEF BaseInv
<1>3. PICK o, i : o = op["job"] /\ i = Idle
  OBVIOUS
<1>4. o.pc = "settle" /\ i \in OpType /\ Calm(i)
  BY <1>3, JobSettleIs, EmptyTypes DEF BaseInv, Calm
<1>5. WriteGoes("job", n, o.st, ok, i, i) /\ ok \in OpType /\ Calm(ok)
  BY <1>2, <1>3, <1>4 DEF JobSettleTo, JobPast, Sane, Calm
<1> QED
  BY <1>1, <1>3, <1>4, <1>5, SettleOwes DEF Workloads

LEMMA JobServeCounts ==
  ASSUME WritersApart, BaseInv, Locked, CountInv, JobServe
  PROVE  CountInv'
<1>1. UNCHANGED <<dep, cred>> /\ CountsStill
  BY JobServeIs, FaultsStill DEF JobServe, BaseInv
<1>2. PICK n : JobServeTo(n)
  BY JobServeIs DEF BaseInv
<1>3. PICK o, i : o = op["job"] /\ i = Idle
  OBVIOUS
<1>4. o.pc = "serve" /\ i \in OpType /\ Calm(i) /\ Calm(o)
  BY <1>3, JobServeIs, EmptyTypes DEF BaseInv, Calm
<1>5. WriteGoes("job", n, o.st, i, i, i)
  BY <1>2, <1>3 DEF JobServeTo
<1>6. o.st.by = "none" /\ o.st \in RecordType
  BY <1>3, <1>4, LockedIs DEF Fits, Decided, Choosing, Workloads
<1>7. o.cur => Counted(o.st, hist)
  BY <1>3, <1>4, ChosenCounts DEF Workloads
<1>8. Owed(i, "job", o.st, hist) /\ Owed(i, "job", rec, hist) /\ Owed(o, "job", o.st, hist)
  BY <1>4, CalmOwed
<1> QED
  BY <1>1, <1>3, <1>4, <1>5, <1>6, <1>7, <1>8, CountWrites DEF Workloads

\* The marker written over the record that was read.
LEMMA MarkCounts ==
  ASSUME BaseInv, Locked, CountInv, NEW p \in Workloads, NEW o, o = op[p], o.pc = "mark", o.cur
  PROVE  Counted(o.st, hist) /\ Owed(o, p, o.st, hist)
<1>1. PICK r, h, t : r = o.st /\ h = hist /\ t = Day(o.started)
  OBVIOUS
<1>2. /\ Counted(r, h) /\ ~r.blocked /\ h.misses <= r.fails /\ h.last["broker"] <= r.reqAt
      /\ \A d \in Days : d >= r.day => h.day[d] <= LoginsOn(r, d)
  BY <1>1, ChosenCounts
<1>3. o.started \in 0 .. MaxClock /\ t \in Days /\ t \in Int
  BY <1>1, Underway, DayType DEF BaseInv, Begun
<1>4. r.day <= t
  BY <1>1, LockedIs DEF Fits, Decided
<1>5. r.day \in Int
  <2>1. r.day \in Days \cup {None}
    BY <1>1, LockedIs DEF RecordType
  <2> QED
    BY <2>1, EmptyTypes, Bounds DEF Days
<1>6. h.day[t] <= LoginsOn(r, t)
  BY <1>2, <1>3, <1>4, <1>5
<1>7. p = "broker" => LoginsOn(r, t) < dep.budget
  BY <1>1, CountIs DEF Owed
<1>8. Owed(o, p, r, h)
  BY <1>1, <1>2, <1>4, <1>6, <1>7 DEF Owed, Unspent, Inside, Ending
<1> QED
  BY <1>1, <1>2, <1>8

LEMMA MarkOwes ==
  ASSUME WritersApart, BaseInv, Locked, CountInv, UNCHANGED <<dep, cred>>, CountsStill,
         NEW p \in Workloads, NEW o, o = op[p], o.pc = "mark", NEW n,
         NEW ok \in OpType, NEW cas \in OpType, NEW down \in OpType,
         ok.pc = "attempt", ok.st = o.st, ok.started = o.started,
         WriteGoes(p, n, o.st, ok, cas, down), Calm(cas), Calm(down)
  PROVE  CountInv'
<1>1. o.st.by = p
  BY LockedIs DEF Fits, Decided
<1>2. Owed(cas, p, rec, hist)
  BY CalmOwed
<1>3. Owed(o, p, o.st, hist) => Owed(ok, p, o.st, hist)
  <2> SUFFICES ASSUME Owed(o, p, o.st, hist)
               PROVE  Owed(ok, p, o.st, hist)
    OBVIOUS
  <2>1. Marked(o, o.st)
    BY DEF Marked
  <2> QED
    BY <2>1 DEF Owed, Unspent, Inside, Ending
<1>4. o.cur => Counted(o.st, hist) /\ Owed(o, p, o.st, hist)
  BY MarkCounts
<1>5. rec = o.st => Owed(o, p, o.st, hist)
  BY CountIs
<1> QED
  BY <1>1, <1>2, <1>3, <1>4, <1>5, LockedIs, CountWrites

LEMMA BrMarkCounts ==
  ASSUME WritersApart, BaseInv, Locked, CountInv, BrMark
  PROVE  CountInv'
<1>1. UNCHANGED <<dep, cred>> /\ CountsStill
  BY BrMarkIs, FaultsStill DEF BrMark, BaseInv
<1>2. PICK n, ok, cas, down : BrMarkTo(n, ok, cas, down)
  BY BrMarkIs DEF BaseInv
<1>3. PICK o : o = op["broker"]
  OBVIOUS
<1>4. o.pc = "mark"
  BY <1>3, BrMarkIs DEF BaseInv
<1>5. /\ WriteGoes("broker", n, o.st, ok, cas, down)
      /\ ok \in OpType /\ cas \in OpType /\ down \in OpType
      /\ ok.pc = "attempt" /\ ok.st = o.st /\ ok.started = o.started /\ Calm(cas) /\ Calm(down)
  BY <1>2, <1>3 DEF BrMarkTo, Sane, Calm
<1> QED
  BY <1>1, <1>3, <1>4, <1>5, MarkOwes DEF Workloads

LEMMA JobMarkCounts ==
  ASSUME WritersApart, BaseInv, Locked, CountInv, JobMark
  PROVE  CountInv'
<1>1. UNCHANGED <<dep, cred>> /\ CountsStill
  BY JobMarkIs, FaultsStill DEF JobMark, BaseInv
<1>2. PICK n, ok : JobMarkTo(n, ok)
  BY JobMarkIs DEF BaseInv
<1>3. PICK o, i : o = op["job"] /\ i = Idle
  OBVIOUS
<1>4. o.pc = "mark" /\ i \in OpType /\ Calm(i)
  BY <1>3, JobMarkIs, EmptyTypes DEF BaseInv, Calm
<1>5. /\ WriteGoes("job", n, o.st, ok, i, i) /\ ok \in OpType
      /\ ok.pc = "attempt" /\ ok.st = o.st /\ ok.started = o.started
  BY <1>2, <1>3, <1>4 DEF JobMarkTo, Sane
<1> QED
  BY <1>1, <1>3, <1>4, <1>5, MarkOwes DEF Workloads

LEMMA BrCommitCounts ==
  ASSUME WritersApart, LimitsAgree, BaseInv, Locked, CountInv, BrCommit
  PROVE  CountInv'
<1>1. UNCHANGED <<dep, cred>> /\ CountsStill
  BY BrCommitIs, FaultsStill DEF BrCommit, BaseInv
<1>2. PICK n, r, ok, cas, down : BrCommitTo(n, r, ok, cas, down)
  BY BrCommitIs DEF BaseInv
<1>3. PICK o : o = op["broker"]
  OBVIOUS
<1>4. o.pc = "commit" /\ Owed(o, "broker", rec, hist)
  BY <1>3, BrCommitIs, CountIs DEF BaseInv, Workloads
<1>5. /\ WriteGoes("broker", n, r, ok, cas, down) /\ BrLeaves(r, o, o.st)
      /\ ok \in OpType /\ cas \in OpType /\ down \in OpType /\ Calm(ok) /\ Calm(down)
      /\ cas.pc = "reread" /\ cas.kind = o.kind /\ cas.started = o.started
  BY <1>2, <1>3 DEF BrCommitTo, BrRecordedTo, Sane, Calm
<1>6. o.cur => Counted(r, hist) /\ Owed(o, "broker", r, hist) /\ r.by = "none"
  BY <1>3, <1>4, <1>5, BrLeavesCounts
<1>7. Owed(ok, "broker", r, hist)
  BY <1>5, CalmOwed
<1>8. Owed(cas, "broker", rec, hist)
  <2>1. cas.pc \in Ending /\ o.pc \in Ending /\ (Marked(cas, rec) <=> Marked(o, rec))
    BY <1>4, <1>5 DEF Marked, Ending
  <2> QED
    BY <1>4, <1>5, <2>1 DEF Owed, Unspent
<1> QED
  BY <1>1, <1>3, <1>4, <1>5, <1>6, <1>7, <1>8, CountWrites DEF Workloads

LEMMA BrRewriteCounts ==
  ASSUME WritersApart, LimitsAgree, BaseInv, Locked, CountInv, BrRewrite
  PROVE  CountInv'
<1>1. UNCHANGED <<dep, cred>> /\ CountsStill
  BY BrRewriteIs, FaultsStill DEF BrRewrite, BaseInv
<1>2. PICK n, r, end : BrRewriteTo(n, r, end)
  BY BrRewriteIs DEF BaseInv
<1>3. PICK o : o = op["broker"]
  OBVIOUS
<1>4. o.pc = "rewrite"
  BY <1>3, BrRewriteIs DEF BaseInv
<1>5. /\ WriteGoes("broker", n, r, end, end, end) /\ BrLeaves(r, o, o.st)
      /\ end \in OpType /\ Calm(end)
  BY <1>2, <1>3 DEF BrRewriteTo, BrRecordedTo, Sane, Calm
<1>6. o.cur => Counted(r, hist) /\ Owed(o, "broker", r, hist) /\ r.by = "none"
  BY <1>3, <1>4, <1>5, BrLeavesCounts
<1>7. Owed(end, "broker", r, hist) /\ Owed(end, "broker", rec, hist)
  BY <1>5, CalmOwed
<1> QED
  BY <1>1, <1>3, <1>4, <1>5, <1>6, <1>7, CountWrites DEF Workloads

LEMMA JobCommitCounts ==
  ASSUME WritersApart, LimitsAgree, BaseInv, Locked, CountInv, JobCommit
  PROVE  CountInv'
<1>1. UNCHANGED <<dep, cred>> /\ CountsStill
  BY JobCommitIs, FaultsStill DEF JobCommit, BaseInv
<1>2. PICK n, r, end : JobCommitTo(n, r, end)
  BY JobCommitIs DEF BaseInv
<1>3. PICK o : o = op["job"]
  OBVIOUS
<1>4. o.pc = "commit"
  BY <1>3, JobCommitIs DEF BaseInv
<1>5. WriteGoes("job", n, r, end, end, end) /\ JobLeaves(r, o, o.st) /\ end \in OpType
  BY <1>2, <1>3 DEF JobCommitTo, Sane
<1>6. Calm(end)
  BY <1>2, EmptyTypes DEF JobCommitTo, Calm
<1>7. o.cur => Counted(r, hist) /\ Owed(o, "job", r, hist) /\ r.by = "none"
  BY <1>3, <1>4, <1>5, JobLeavesCounts
<1>8. Owed(end, "job", r, hist) /\ Owed(end, "job", rec, hist)
  BY <1>6, CalmOwed
<1> QED
  BY <1>1, <1>3, <1>4, <1>5, <1>6, <1>7, <1>8, CountWrites DEF Workloads

LEMMA BrRereadCounts ==
  ASSUME BaseInv, CountInv, BrReread
  PROVE  CountInv'
<1>1. UNCHANGED <<dep, cred, rec>> /\ CountsStill
  BY BrRereadIs, FaultyStill DEF BrReread, BaseInv
<1>2. PICK n : BrGoesTo(n) /\ BrRereadTo(n)
  BY BrRereadIs DEF BaseInv
<1>3. PICK o : o = op["broker"]
  OBVIOUS
<1>4. o.pc = "reread" /\ Owed(o, "broker", rec, hist)
  BY <1>3, BrRereadIs, CountIs DEF BaseInv, Workloads
<1>5. Owed(n, "broker", rec, hist)
  <2>1. CASE n.pc \in {"answer", "save"}
    BY <2>1, CalmOwed DEF Calm
  <2>2. CASE n.pc = "rewrite" /\ n.kind = o.kind /\ n.started = o.started
    <3>1. n.pc \in Ending /\ o.pc \in Ending /\ (Marked(n, rec) <=> Marked(o, rec))
      BY <1>4, <2>2 DEF Marked, Ending
    <3> QED
      BY <1>4, <2>2, <3>1 DEF Owed, Unspent
  <2> QED
    BY <1>2, <1>3, <2>1, <2>2 DEF BrRereadTo, BrRecordedTo
<1> QED
  BY <1>1, <1>2, <1>5, CountMoves DEF BrGoesTo, Workloads

\* The session stored is none of the counts' business.
LEMMA StoresCounts ==
  ASSUME BaseInv, CountInv, UNCHANGED <<dep, cred, rec>>, CountsStill, NEW p \in Workloads, NEW n,
         Calm(n), Stored(p, n) \/ op' = [op EXCEPT ![p] = n]
  PROVE  CountInv'
<1>1. CASE op' = [op EXCEPT ![p] = n]
  BY <1>1, CalmCounts
<1>2. CASE Stored(p, n)
  <2>1. PICK r, h, g : r = rec /\ h = hist /\ g = hist'
    OBVIOUS
  <2>2. Counted(r, h) /\ g.day = h.day /\ g.misses = h.misses /\ g.last = h.last
    BY <2>1 DEF CountInv, CountsStill
  <2>3. ASSUME NEW q \in Workloads
        PROVE  Owed(op'[q], q, r, h)
    <3>1. PICK m, o : m = op'[q] /\ o = op[q]
      OBVIOUS
    <3>2. CASE q = p
      <4>1. m = n
        BY <1>2, <3>1, <3>2 DEF Stored
      <4> QED
        BY <3>1, <4>1, CalmOwed
    <3>3. CASE q # p
      <4>1. Owed(o, q, r, h) /\ Sane(o, q)
        BY <2>1, <3>1 DEF CountInv, BaseInv, Running
      <4>2. Unaware(m, o)
        BY <1>2, <3>1, <3>3 DEF Stored, Unaware
      <4>3. m.pc = o.pc /\ m.st = o.st /\ m.started = o.started /\ m.kind = o.kind
        BY <4>1, <4>2, UnawareIs
      <4>4. Marked(m, r) <=> Marked(o, r)
        BY <4>3 DEF Marked
      <4> QED
        BY <3>1, <4>1, <4>3, <4>4 DEF Owed, Unspent
    <3> QED
      BY <3>2, <3>3
  <2>4. Counted(r, g) /\ \A q \in Workloads : Owed(op'[q], q, r, g)
    BY <2>2, <2>3, CountAlike
  <2> QED
    BY <2>1, <2>4, CountNext
<1> QED
  BY <1>1, <1>2

LEMMA BrSaveCounts ==
  ASSUME BaseInv, CountInv, BrSave
  PROVE  CountInv'
<1>1. UNCHANGED <<dep, cred, rec>>
  BY DEF BrSave
<1>2. PICK n : BrSaveTo(n)
  BY BrSaveIs DEF BaseInv
<1>3. Calm(n) /\ (Stored("broker", n) \/ op' = [op EXCEPT !["broker"] = n])
  BY <1>2 DEF BrSaveTo, Calm
<1>4. hist' \in HistType
  BY BrSaveIs DEF BaseInv
<1>5. CountsStill
  <2>1. CASE hist' = hist
    BY <2>1 DEF CountsStill
  <2>2. CASE hist' = [hist EXCEPT !.faults = hist'.faults]
    BY <1>4, <2>2, FaultyStill
  <2>3. CASE hist' = [hist EXCEPT !.won = NoSession]
    <3>1. hist \in HistType
      BY DEF BaseInv, Types, RestTyped
    <3> QED
      BY <2>3, <3>1 DEF HistType, CountsStill
  <2> QED
    BY <1>2, <2>1, <2>2, <2>3 DEF BrSaveTo
<1> QED
  BY <1>1, <1>3, <1>5, StoresCounts DEF Workloads

LEMMA JobSaveCounts ==
  ASSUME BaseInv, CountInv, JobSave
  PROVE  CountInv'
<1>1. UNCHANGED <<dep, cred, rec>>
  BY DEF JobSave
<1>2. PICK n : JobSaveTo(n)
  BY JobSaveIs DEF BaseInv
<1>3. Calm(n) /\ (Stored("job", n) \/ op' = [op EXCEPT !["job"] = n])
  BY <1>2 DEF JobSaveTo, Calm
<1>4. CountsStill
  BY <1>2, JobSaveIs, FaultyStill DEF JobSaveTo, BaseInv
<1> QED
  BY <1>1, <1>3, <1>4, StoresCounts DEF Workloads

LEMMA BrAnswerCounts ==
  ASSUME BaseInv, CountInv, BrAnswer
  PROVE  CountInv'
<1>1. UNCHANGED <<dep, cred, rec>> /\ CountsStill
  BY DEF BrAnswer, CountsStill
<1>2. PICK n : n = Idle
  OBVIOUS
<1>3. op' = [op EXCEPT !["broker"] = n] /\ Calm(n)
  BY <1>2, EmptyTypes DEF BrAnswer, To, Calm
<1> QED
  BY <1>1, <1>3, CalmCounts DEF Workloads

LEMMA JobOpenCounts ==
  ASSUME BaseInv, CountInv, JobOpen
  PROVE  CountInv'
<1>1. UNCHANGED <<dep, cred, rec>> /\ CountsStill
  BY JobOpenIs, FaultyStill DEF JobOpen, BaseInv
<1>2. PICK n : JobGoesTo(n) /\ JobOpenTo(n)
  BY JobOpenIs DEF BaseInv
<1>3. Calm(n) /\ op' = [op EXCEPT !["job"] = n]
  BY <1>2, EmptyTypes DEF JobOpenTo, Calm, JobGoesTo
<1> QED
  BY <1>1, <1>3, CalmCounts DEF Workloads

LEMMA JobReadCounts ==
  ASSUME BaseInv, CountInv, JobRead
  PROVE  CountInv'
<1>1. UNCHANGED <<dep, cred, rec>> /\ CountsStill
  BY JobReadIs, FaultyStill DEF JobRead, BaseInv
<1>2. PICK n : JobGoesTo(n) /\ JobReadTo(n)
  BY JobReadIs DEF BaseInv
<1>3. Calm(n) /\ op' = [op EXCEPT !["job"] = n]
  BY <1>2, EmptyTypes DEF JobReadTo, Calm, JobGoesTo
<1> QED
  BY <1>1, <1>3, CalmCounts DEF Workloads

LEMMA JobProbeCounts ==
  ASSUME BaseInv, CountInv, JobProbe
  PROVE  CountInv'
<1>1. UNCHANGED <<dep, cred, rec>> /\ CountsStill
  BY DEF JobProbe, CountsStill
<1>2. PICK n : JobGoesTo(n) /\ JobProbeTo(n)
  BY JobProbeIs DEF BaseInv
<1>3. Calm(n) /\ op' = [op EXCEPT !["job"] = n]
  BY <1>2, EmptyTypes DEF JobProbeTo, Calm, JobGoesTo
<1> QED
  BY <1>1, <1>3, CalmCounts DEF Workloads

LEMMA JobGateCounts ==
  ASSUME BaseInv, Locked, CountInv, JobGate
  PROVE  CountInv'
<1>1. UNCHANGED <<dep, cred, rec>> /\ CountsStill
  BY JobGateIs, FaultyStill DEF JobGate, BaseInv
<1>2. PICK n : JobGoesTo(n) /\ JobGateTo(n)
  BY JobGateIs DEF BaseInv
<1>3. CASE n = Idle
  <2>1. Calm(n) /\ op' = [op EXCEPT !["job"] = n]
    BY <1>2, <1>3, EmptyTypes DEF Calm, JobGoesTo
  <2> QED
    BY <1>1, <2>1, CalmCounts DEF Workloads
<1>4. CASE n # Idle
  <2>1. PICK o : o = op["job"]
    OBVIOUS
  <2>2. o.pc = "gate" /\ Fits(o, "job", rec)
    BY <2>1, JobGateIs, LockedIs DEF BaseInv, Workloads
  <2>3. n.pc = "mark" /\ n.st.by = "job"
    BY <1>2, <1>4 DEF JobGateTo
  <2>4. Owed(n, "job", rec, hist)
    BY <2>2, <2>3, MarkOwed DEF Choosing, Workloads
  <2> QED
    BY <1>1, <1>2, <2>4, CountMoves DEF JobGoesTo, Workloads
<1> QED
  BY <1>3, <1>4

\* Nothing that is counted.
LEMMA AsideCounts ==
  ASSUME CountInv, UNCHANGED <<dep, cred, rec, op>>, CountsStill
  PROVE  CountInv'
<1>1. PICK r, h, g : r = rec /\ h = hist /\ g = hist'
  OBVIOUS
<1>2. g.day = h.day /\ g.misses = h.misses /\ g.last = h.last
  BY <1>1 DEF CountsStill
<1>3. Counted(r, g) /\ \A q \in Workloads : Owed(op'[q], q, r, g)
  <2>1. Counted(r, h) /\ \A q \in Workloads : Owed(op'[q], q, r, h)
    BY <1>1 DEF CountInv
  <2> QED
    BY <1>2, <2>1, CountAlike
<1> QED
  BY <1>1, <1>3, CountNext

LEMMA EventCounts ==
  ASSUME BaseInv, CountInv, UNCHANGED <<dep, cred, rec, op>>,
         hist' = hist \/ hist' = [hist EXCEPT !.events = @ + 1]
  PROVE  CountInv'
<1>1. CASE hist' = hist
  BY <1>1, AsideCounts DEF CountsStill
<1>2. CASE hist' = [hist EXCEPT !.events = @ + 1]
  <2>1. PICK h : h = hist'
    OBVIOUS
  <2>2. h.day = hist.day /\ h.misses = hist.misses /\ h.last = hist.last
    BY <1>2, <2>1, HistCounts DEF BaseInv
  <2> QED
    BY <2>1, <2>2, AsideCounts DEF CountsStill
<1> QED
  BY <1>1, <1>2

LEMMA RefreshCounts ==
  ASSUME BaseInv, CountInv, NEW c \in Callers, NEW fp \in {NoSession, sess.id}, Refresh(c, fp)
  PROVE  CountInv'
<1>1. UNCHANGED <<dep, cred, rec>>
  BY DEF Refresh
<1>2. CASE op' = op /\ hist' = hist
  BY <1>1, <1>2, AsideCounts DEF CountsStill
<1>3. CASE \E n : /\ BrGoesTo(n) /\ n.pc = "open"
                  /\ hist'.day = hist.day /\ hist'.misses = hist.misses /\ hist'.last = hist.last
  <2>1. PICK n : BrGoesTo(n) /\ n.pc = "open"
    BY <1>3
  <2>2. CountsStill
    BY <1>3 DEF CountsStill
  <2>3. Calm(n) /\ op' = [op EXCEPT !["broker"] = n]
    BY <2>1 DEF Calm, BrGoesTo
  <2> QED
    BY <1>1, <2>2, <2>3, CalmCounts DEF Workloads
<1> QED
  BY <1>2, <1>3, RefreshKeeps

LEMMA JobStartCounts ==
  ASSUME BaseInv, CountInv, NEW b \in BOOLEAN, JobStart(b)
  PROVE  CountInv'
<1>1. UNCHANGED <<dep, cred, rec>>
  BY DEF JobStart
<1>2. PICK n : /\ JobGoesTo(n) /\ n.pc = "open"
               /\ hist'.day = hist.day /\ hist'.misses = hist.misses /\ hist'.last = hist.last
  BY JobStartKeeps
<1>3. CountsStill /\ Calm(n) /\ op' = [op EXCEPT !["job"] = n]
  BY <1>2 DEF CountsStill, Calm, JobGoesTo
<1> QED
  BY <1>1, <1>3, CalmCounts DEF Workloads

\* Nobody is running.
LEMMA RestingCounts ==
  ASSUME Counted(rec, hist)', \A q \in Workloads : op'[q].pc = "idle"
  PROVE  CountInv'
<1>1. ASSUME NEW q \in Workloads
      PROVE  Owed(op[q], q, rec, hist)'
  <2>1. op'[q].pc = "idle"
    OBVIOUS
  <2> QED
    BY <2>1 DEF Owed, Unspent, Marked, Inside, Ending
<1> QED
  BY <1>1 DEF CountInv

\* With nothing counted, an empty record counts it.
LEMMA EmptyCounts ==
  ASSUME NEW h, h.misses = 0, h.day = [d \in Days |-> 0], h.last = [p \in Workloads |-> None]
  PROVE  Counted(EmptyRecord, h)
<1>1. PICK e : e = EmptyRecord
  OBVIOUS
<1>2. e.marker = None /\ e.by = "none" /\ e.reqAt = None /\ e.fails = 0 /\ ~e.blocked
      /\ e.day = None /\ e.count = 0
  BY <1>1 DEF EmptyRecord
<1>3. ASSUME NEW d \in Days
      PROVE  h.day[d] <= LoginsOn(e, d) + Pending(e, d)
  <2>1. h.day[d] = 0
    OBVIOUS
  <2>2. LoginsOn(e, d) = 0 /\ Pending(e, d) = 0
    BY <1>2 DEF LoginsOn, Pending
  <2> QED
    BY <2>1, <2>2
<1>4. h.last["broker"] = None
  BY DEF Workloads
<1>5. Counted(e, h)
  BY <1>2, <1>3, <1>4, Bounds DEF Counted, None
<1> QED
  BY <1>1, <1>5

LEMMA DeleteRecordCounts ==
  ASSUME WritersApart, BaseInv, Locked, CountInv, DeleteRecord
  PROVE  CountInv'
<1>1. \A q \in Workloads : op[q].pc = "idle"
  BY DEF DeleteRecord, BaseInv, Types, WritersApart
<1>2. \A q \in Workloads : op'[q] = [op[q] EXCEPT !.cur = FALSE]
  BY DeleteRecordIs DEF BaseInv
<1>3. ASSUME NEW q \in Workloads
      PROVE  op'[q].pc = "idle"
  <2>1. PICK o, m : o = op[q] /\ m = op'[q]
    OBVIOUS
  <2>2. Sane(o, q) /\ o \in OpType /\ m = [o EXCEPT !.cur = FALSE]
    BY <1>2, <2>1 DEF BaseInv, Running, Types
  <2>3. Flagged(m, o)
    BY <2>2, UncurSane
  <2>4. m.pc = o.pc
    BY <2>2, <2>3, FlaggedIs
  <2> QED
    BY <1>1, <2>1, <2>4
<1>4. PICK r, h : r = rec' /\ h = hist'
  OBVIOUS
<1>5. r = EmptyRecord /\ h.misses = 0 /\ h.day = [d \in Days |-> 0] /\ h.last = [p \in Workloads |-> None]
  BY <1>4, DeleteRecordIs DEF BaseInv
<1>6. Counted(r, h)
  BY <1>5, EmptyCounts
<1>7. cred' = cred
  BY DEF DeleteRecord
<1>8. Counted(rec, hist)'
  BY <1>4, <1>6, <1>7, CountedStill
<1> QED
  BY <1>3, <1>8, RestingCounts

LEMMA ChangeCredentialsCounts ==
  ASSUME BaseInv, CountInv, ChangeCredentials
  PROVE  CountInv'
<1>1. UNCHANGED <<rec, op>> /\ \A q \in Workloads : op[q].pc = "idle"
  BY DEF ChangeCredentials
<1>2. PICK r, h, g : r = rec /\ h = hist /\ g = hist'
  OBVIOUS
<1>3. g.misses = 0 /\ g.day = h.day /\ g.last = h.last /\ Counted(r, h) /\ h \in HistType /\ r \in RecordType
  BY <1>2, ChangeCredentialsIs DEF BaseInv, CountInv, Types, RestTyped
<1>4. r.fails \in Nat
  BY <1>3 DEF RecordType
<1>5. Counted(r, g)'
  BY <1>3, <1>4 DEF Counted, Pending
<1>6. Counted(rec, hist)'
  BY <1>1, <1>2, <1>5
<1> QED
  BY <1>1, <1>6, RestingCounts

LEMMA InitCounts ==
  ASSUME Init
  PROVE  CountInv
<1>1. PICK r, h : r = rec /\ h = hist
  OBVIOUS
<1>2. r = EmptyRecord /\ h.misses = 0 /\ h.day = [d \in Days |-> 0] /\ h.last = [p \in Workloads |-> None]
  BY <1>1 DEF Init, Days
<1>3. Counted(r, h)
  BY <1>2, EmptyCounts
<1>4. ASSUME NEW q \in Workloads
      PROVE  Owed(op[q], q, r, h)
  <2>1. Calm(op[q])
    BY EmptyTypes DEF Init, Calm
  <2> QED
    BY <2>1, CalmOwed
<1> QED
  BY <1>1, <1>3, <1>4 DEF CountInv

LEMMA NextCounts ==
  ASSUME WritersApart, LimitsAgree, BaseInv, Locked, CountInv, [Next]_vars
  PROVE  CountInv'
<1>1. CASE Broker
  BY <1>1, BrOpenCounts, BrSettleCounts, BrReadCounts, BrProbeCounts, BrGateCounts, BrMarkCounts,
     BrAttemptCounts, BrLoginCounts, BrConfirmCounts, BrCommitCounts, BrRereadCounts, BrRewriteCounts,
     BrSaveCounts, BrAnswerCounts DEF Broker
<1>2. CASE Job
  BY <1>2, JobOpenCounts, JobSettleCounts, JobReadCounts, JobProbeCounts, JobServeCounts, JobGateCounts,
     JobMarkCounts, JobAttemptCounts, JobLoginCounts, JobConfirmCounts, JobCommitCounts, JobSaveCounts
  DEF Job
<1>3. CASE \E c \in Callers : Leave(c) \/ \E fp \in {NoSession, sess.id} : Refresh(c, fp)
  BY <1>3, RefreshCounts, EventCounts DEF Leave
<1>4. CASE \E b \in BOOLEAN : JobStart(b)
  BY <1>4, JobStartCounts
<1>5. CASE \E p \in Workloads : Crash(p)
  BY <1>5, CrashCounts
<1>6. CASE LeaveRequest \/ OwnerSignsIn \/ Tick \/ UNCHANGED vars
  BY <1>6, EventCounts DEF LeaveRequest, OwnerSignsIn, Tick, vars
<1> QED
  BY <1>1, <1>2, <1>3, <1>4, <1>5, <1>6, DeleteRecordCounts, ChangeCredentialsCounts DEF Next

LEMMA CountAlways ==
  ASSUME WritersApart, LimitsAgree
  PROVE  Spec => [](BaseInv /\ Locked /\ CountInv)
<1>1. Init => BaseInv /\ Locked /\ CountInv
  BY InitBase, InitLocked, InitCounts
<1>2. BaseInv /\ Locked /\ CountInv /\ [Next]_vars => (BaseInv /\ Locked /\ CountInv)'
  BY NextBase, NextLocked, NextCounts
<1> QED
  BY <1>1, <1>2, PTL DEF Spec

-----------------------------------------------------------------------------
(* The broker begins only what the counts permit. *)

LEMMA JobWritesAside ==
  ASSUME Types, Running, NEW n, NEW r, NEW ok, NEW cas, NEW down, WriteGoes("job", n, r, ok, cas, down)
  PROVE  op'["broker"].pc = op["broker"].pc
<1>1. PICK o, m : o = op["broker"] /\ m = op'["broker"]
  OBVIOUS
<1>2. Sane(o, "broker") /\ o \in OpType /\ op \in [Workloads -> OpType]
  BY <1>1 DEF Types, Running, Workloads
<1>3. m = o \/ m = [o EXCEPT !.cur = FALSE]
  BY <1>1, <1>2 DEF WriteGoes, Overtaking, Workloads
<1>4. CASE m = [o EXCEPT !.cur = FALSE]
  <2>1. Flagged(m, o)
    BY <1>2, <1>4, UncurSane DEF Workloads
  <2> QED
    BY <1>1, <1>2, <2>1, FlaggedIs
<1> QED
  BY <1>1, <1>3, <1>4

LEMMA JobStoresAside ==
  ASSUME Types, Running, NEW n, Stored("job", n) \/ op' = [op EXCEPT !["job"] = n]
  PROVE  op'["broker"].pc = op["broker"].pc
<1>1. PICK o, m : o = op["broker"] /\ m = op'["broker"]
  OBVIOUS
<1>2. Sane(o, "broker") /\ o \in OpType /\ op \in [Workloads -> OpType]
  BY <1>1 DEF Types, Running, Workloads
<1>3. m = o \/ Unaware(m, o)
  BY <1>1, <1>2 DEF Stored, Unaware, Workloads
<1>4. CASE Unaware(m, o)
  BY <1>1, <1>2, <1>4, UnawareIs DEF Workloads
<1> QED
  BY <1>1, <1>3, <1>4

\* The job leaves the broker where it is.
LEMMA JobAside ==
  ASSUME BaseInv, Job
  PROVE  op'["broker"].pc = op["broker"].pc
<1>1. Types /\ Running
  BY DEF BaseInv
<1>2. CASE JobOpen \/ JobRead \/ JobProbe \/ JobGate \/ JobAttempt \/ JobLogin \/ JobConfirm
  <2>1. \E n : op' = [op EXCEPT !["job"] = n]
    BY <1>1, <1>2, JobOpenIs, JobReadIs, JobProbeIs, JobGateIs, JobAttemptIs, JobLoginIs, JobConfirmIs
    DEF JobGoesTo
  <2> QED
    BY <1>1, <2>1, JobStoresAside
<1>3. CASE JobSettle
  BY <1>1, <1>3, JobSettleIs, JobWritesAside DEF JobSettleTo
<1>4. CASE JobServe
  BY <1>1, <1>4, JobServeIs, JobWritesAside DEF JobServeTo
<1>5. CASE JobMark
  BY <1>1, <1>5, JobMarkIs, JobWritesAside DEF JobMarkTo
<1>6. CASE JobCommit
  BY <1>1, <1>6, JobCommitIs, JobWritesAside DEF JobCommitTo
<1>7. CASE JobSave
  BY <1>1, <1>7, JobSaveIs, JobStoresAside DEF JobSaveTo
<1> QED
  BY <1>2, <1>3, <1>4, <1>5, <1>6, <1>7 DEF Job

\* Only the gate of the broker lets it begin a login.
LEMMA BeginsIs ==
  ASSUME BaseInv, Locked, [Next]_vars, Begins("broker")
  PROVE  LET o == op["broker"] IN gate(clock, o.st, o.sat) = "open"
<1>1. PICK o, m : o = op["broker"] /\ m = op'["broker"]
  OBVIOUS
<1>2. o.pc = "attempt" /\ m.pc = "login" /\ o \in OpType
  BY <1>1, LockedIs DEF Begins, Workloads
<1>3. ~(m \in OpType /\ m.pc = o.pc)
  BY <1>2
<1>4. op \in [Workloads -> OpType] /\ \A q \in Workloads : Sane(op[q], q)
  BY DEF BaseInv, Types, Running
<1>5. CASE Broker
  <2>1. BrAttempt
    BY <1>1, <1>2, <1>5 DEF Broker, BrOpen, BrSettle, BrRead, BrProbe, BrGate, BrMark, BrLogin, BrConfirm,
       BrCommit, BrReread, BrRewrite, BrSave, BrAnswer
  <2>2. PICK n : BrGoesTo(n) /\ BrAttemptTo(n)
    BY <2>1, BrAttemptIs DEF BaseInv
  <2>3. m = n
    BY <1>1, <1>4, <2>2 DEF BrGoesTo, Workloads
  <2> QED
    BY <1>2, <2>2, <2>3 DEF BrAttemptTo
<1>6. CASE Job
  <2>1. m.pc = o.pc
    BY <1>1, <1>6, JobAside
  <2> QED
    BY <1>2, <2>1
<1>7. CASE \E c \in Callers : Leave(c) \/ \E fp \in {NoSession, sess.id} : Refresh(c, fp)
  <2>1. CASE UNCHANGED op
    BY <1>1, <1>2, <2>1
  <2>2. CASE op["broker"].pc = "idle"
    BY <1>1, <1>2, <2>2
  <2> QED
    BY <1>7, <2>1, <2>2 DEF Leave, Refresh
<1>8. CASE \E b \in BOOLEAN : JobStart(b)
  <2>1. m = o
    BY <1>1, <1>4, <1>8 DEF JobStart, To, Workloads
  <2> QED
    BY <1>2, <2>1
<1>9. CASE \E p \in Workloads : Crash(p)
  <2>1. PICK p \in Workloads : Crash(p)
    BY <1>9
  <2>2. op' = [op EXCEPT ![p] = Idle]
    BY <2>1 DEF Crash, To
  <2>3. m = o \/ m = Idle
    BY <1>1, <1>4, <2>2 DEF Workloads
  <2> QED
    BY <1>2, <2>3, EmptyTypes
<1>10. CASE DeleteRecord
  <2>1. m = [o EXCEPT !.cur = FALSE]
    BY <1>1, <1>10 DEF DeleteRecord, Workloads
  <2>2. Flagged(m, o)
    BY <1>1, <1>4, <2>1, UncurSane DEF Workloads
  <2> QED
    BY <1>2, <2>2, FlaggedIs
<1>11. CASE Tick \/ LeaveRequest \/ OwnerSignsIn \/ ChangeCredentials \/ UNCHANGED vars
  BY <1>1, <1>2, <1>11 DEF Tick, LeaveRequest, OwnerSignsIn, ChangeCredentials, vars
<1> QED
  BY <1>5, <1>6, <1>7, <1>8, <1>9, <1>10, <1>11 DEF Next

\* What the gate lets through is within the limits.
LEMMA BeginsWithin ==
  ASSUME BaseInv, Locked, CountInv, NEW o, o = op["broker"], o.pc = "attempt",
         gate(clock, o.st, o.sat) = "open"
  PROVE  /\ hist.day[Day(o.started)] < dep.budget
         /\ hist.misses < MaxFailures
         /\ hist.last["broker"] = None \/ clock - hist.last["broker"] >= MinInterval
<1>1. PICK s, h, t, z : s = rec /\ h = hist /\ t = Day(o.started) /\ z = o.sat
  OBVIOUS
<1>2. /\ o \in OpType /\ s \in RecordType /\ Fits(o, "broker", s)
      /\ Owed(o, "broker", s, h) /\ Counted(s, h) /\ h \in HistType
      /\ h.day \in [Days -> Nat] /\ h.misses \in Nat /\ h.last["broker"] \in Times
  BY <1>1, LockedIs, CountIs DEF Workloads
<1>3. s = o.st /\ Marked(o, s)
  BY <1>2 DEF Fits, Holding, Inside, Marked
<1>4. /\ h.day[t] <= LoginsOn(s, t) /\ ~s.blocked /\ h.misses <= s.fails /\ h.last["broker"] <= s.reqAt
      /\ LoginsOn(s, t) < dep.budget
  BY <1>1, <1>2, <1>3 DEF Owed, Unspent
<1>5. t \in Days
  BY <1>1, Underway, DayType DEF BaseInv, Begun, Inside, Workloads
<1>6. h.day[t] \in Nat /\ LoginsOn(s, t) \in Nat /\ dep.budget \in Nat /\ s.fails \in Nat
  <2>1. LoginsOn(s, t) \in Nat
    BY <1>2, <1>5, LoginsType
  <2>2. dep.budget \in Nat
    BY Numbers DEF BaseInv
  <2>3. h.day[t] \in Nat
    BY <1>2, <1>5
  <2>4. s.fails \in Nat
    BY <1>2 DEF RecordType
  <2> QED
    BY <2>1, <2>2, <2>3, <2>4
<1>7. h.day[t] < dep.budget
  BY <1>4, <1>6
<1>8. h.misses < MaxFailures
  <2>1. s.fails < MaxFailures /\ MaxFailures \in Nat
    BY <1>2, <1>4, Bounds DEF Counted
  <2> QED
    BY <1>2, <1>4, <1>6, <2>1
<1>9. PICK l, x : l = h.last["broker"] /\ x = Later(s.reqAt, z)
  OBVIOUS
<1>10. x \in Int /\ l \in Times /\ l <= x
  <2>1. s.reqAt \in Times /\ z \in Times
    BY <1>1, <1>2 DEF RecordType, OpType
  <2>2. x \in Int /\ x >= s.reqAt
    BY <1>9, <2>1, LaterType
  <2>3. s.reqAt \in Int /\ l \in Int
    BY <1>2, <1>9, <2>1, EmptyTypes, Bounds DEF Times
  <2> QED
    BY <1>2, <1>4, <1>9, <2>2, <2>3
<1>11. x = None \/ ~(clock - x < MinInterval)
  BY <1>1, <1>3, <1>9, GateRules
<1>12. l = None \/ clock - l >= MinInterval
  <2>1. clock \in Int /\ MinInterval \in Int /\ None = -1 /\ l \in Int /\ l >= -1
    BY <1>10, Numbers, Bounds DEF BaseInv, Times, None
  <2> QED
    BY <1>10, <1>11, <2>1
<1> QED
  BY <1>1, <1>7, <1>8, <1>9, <1>12

\* Where the two workloads are apart, and a portal's limit of failures is not
\* above the broker's for the job, the broker begins a login only within the
\* day's budget, below the limit of failures in a row, and MinInterval after
\* its last one: every login anybody has submitted is on the record, or is its
\* marker, when the gate is applied (broker.go:568, broker.go:589,
\* broker.go:778).
THEOREM LoginIsPermitted ==
  ASSUME WritersApart, LimitsAgree
  PROVE  Spec => LoginPermitted
<1>1. ASSUME BaseInv, Locked, CountInv, [Next]_vars
      PROVE  Begins("broker") =>
               /\ hist.day[Day(op["broker"].started)] < dep.budget
               /\ hist.misses < MaxFailures
               /\ \/ hist.last["broker"] = None
                  \/ clock - hist.last["broker"] >= MinInterval
  <2> SUFFICES ASSUME Begins("broker")
               PROVE  /\ hist.day[Day(op["broker"].started)] < dep.budget
                      /\ hist.misses < MaxFailures
                      /\ \/ hist.last["broker"] = None
                         \/ clock - hist.last["broker"] >= MinInterval
    OBVIOUS
  <2>1. PICK o : o = op["broker"]
    OBVIOUS
  <2>2. o.pc = "attempt" /\ gate(clock, o.st, o.sat) = "open"
    BY <1>1, <2>1, BeginsIs DEF Begins
  <2> QED
    BY <1>1, <2>1, <2>2, BeginsWithin
<1>2. Spec => [](BaseInv /\ Locked /\ CountInv)
  BY CountAlways
<1>3. Spec => BudgetKept
  BY <1>1, <1>2, PTL DEF Spec, BudgetKept
<1>4. Spec => LockoutBounded
  BY <1>1, <1>2, PTL DEF Spec, LockoutBounded
<1>5. Spec => BrokerPaced
  BY <1>1, <1>2, PTL DEF Spec, BrokerPaced
<1> QED
  BY <1>3, <1>4, <1>5, PTL DEF LoginPermitted
====
