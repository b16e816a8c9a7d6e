---------------------------- MODULE RecordSpool ----------------------------
(***************************************************************************)
(* The connector's records spool and its sender (src/connector/records),   *)
(* against the journal's records endpoint (src/internal/journal/httpapi).  *)
(*                                                                         *)
(* A poll puts snapshots into the spool directory; a sender goroutine      *)
(* drains it, scope by scope and oldest first, and deletes, rejects,       *)
(* purges or keeps a file by the journal's answer.  The spool's mutex      *)
(* makes each file operation one step here; a crash may cut an operation   *)
(* short, and requests and answers may be lost or late.                    *)
(***************************************************************************)
EXTENDS Integers, FiniteSets, Sequences, SequencesExt

CONSTANTS
  N,             \* snapshots 1..N, numbered by observed_at
  Scopes, ScopeOf,        \* [1..N -> Scopes]
  Subjects, SubjectOf,    \* [Scopes -> Subjects]
  Invalid,       \* the snapshots the journal refuses for good
  Unknown,       \* subjects that are not on the journal's roster
  MaxFiles,      \* max_bytes, counting files
  MaxFaults      \* bound on failures and crashes

ASSUME SpoolAssumption ==
  /\ N \in Nat /\ MaxFiles \in Nat \ {0} /\ MaxFaults \in Nat
  /\ ScopeOf \in [1..N -> Scopes] /\ SubjectOf \in [Scopes -> Subjects]
  /\ Invalid \subseteq 1..N /\ Unknown \subseteq Subjects

Ids == 1..N
Subj(i) == SubjectOf[ScopeOf[i]]

VARIABLES
  pending, rejected,  \* files in spool/ and in spool/rejected/
  up,        \* the connector process runs
  next,      \* the next snapshot the poll observes
  acked,     \* snapshots whose Put returned nil
  dropped,   \* [aged, bytes, erased : SUBSET Ids], the dropped counter by reason
  purged,    \* Spool.erased: subjects the journal answered 410 for
  old,       \* snapshots older than max_age
  todo,      \* the rest of the pass: the entries listed when it began
  left,      \* scopes the pass has left
  sending,   \* 0, or the entry whose answer the sender waits for
  answer,    \* the journal's answer, or None
  backoff,   \* scopes backed off, and All for globalUntil
  unread,    \* history: entries whose file could not be read when their turn came
  net,       \* requests that may still reach the journal
  stored, gone,       \* journal: snapshots stored; erased subjects
  faults

spool == <<pending, rejected, next, acked, dropped, purged, old>>
pass == <<todo, left, sending, answer, backoff>>
journal == <<net, stored, gone>>
vars == <<spool, up, pass, unread, journal, faults>>

None == "none"
All == "all"

Fail == faults < MaxFaults /\ faults' = faults + 1

Newest(P, i) == \A j \in P : ScopeOf[j] = ScopeOf[i] => j <= i

(***************************************************************************)
(* Bounds: the files enforceLocked drops from P and R.  Age takes any file;*)
(* space takes rejected files, then pending ones, oldest first, but never  *)
(* the newest of a scope.                                                  *)
(***************************************************************************)
Aged(P, R) == (P \cup R) \cap old

Spare(P, R) ==
  LET oldest(S) == CHOOSE x \in S : \A y \in S : x <= y
      cand == {i \in P : ~Newest(P, i)}
  IN IF R # {} THEN {oldest(R)} ELSE IF cand # {} THEN {oldest(cand)} ELSE {}

\* One file at a time until the spool fits or nothing may go; Put adds one
\* file, so at most two go at once.
ForSpace(P, R) ==
  LET over(p, r) == Cardinality(p) + Cardinality(r) > MaxFiles
      first == IF over(P, R) THEN Spare(P, R) ELSE {}
      second == IF over(P \ first, R \ first) THEN Spare(P \ first, R \ first) ELSE {}
  IN first \cup second

Enforced(P, R) ==
  LET a == Aged(P, R)
      b == ForSpace(P \ a, R \ a)
  IN /\ pending' = P \ (a \cup b) /\ rejected' = R \ (a \cup b)
     /\ dropped' = [dropped EXCEPT !.aged = @ \cup a, !.bytes = @ \cup b]

(***************************************************************************)
(* The poll: Emitter.Emit and Spool.Put.                                   *)
(***************************************************************************)
Put ==
  /\ up /\ next <= N
  /\ next' = next + 1 /\ acked' = acked \cup {next}
  /\ IF Subj(next) \in purged
     THEN /\ dropped' = [dropped EXCEPT !.erased = @ \cup {next}]
          /\ UNCHANGED <<pending, rejected>>
     ELSE Enforced(pending \cup {next}, rejected)
  /\ UNCHANGED <<purged, old, up, pass, journal, faults, unread>>

\* writeAtomic fails: before the rename nothing is left; when only the
\* directory sync fails the file is there although Put reports an error.
PutFails ==
  /\ up /\ next <= N /\ Fail
  /\ next' = next + 1
  /\ pending' \in {pending, pending \cup {next}}
  /\ UNCHANGED <<rejected, acked, dropped, purged, old, up, pass, journal, unread>>

(***************************************************************************)
(* The sender: Emitter.Run, Sender.Drain.                                  *)
(***************************************************************************)
Idle == todo = <<>> /\ sending = 0

\* Mutant: newest first.
GroupedBackwards(P) == SetToSortSeq(P, LAMBDA i, j : i > j)

\* groupByScope: scopes by their oldest file, each oldest first.  A file's
\* place is the number of files before it.
First(P, i) == CHOOSE j \in P : /\ ScopeOf[j] = ScopeOf[i]
                                /\ \A k \in P : ScopeOf[k] = ScopeOf[i] => j <= k
Before(P, i) == {j \in P : First(P, j) < First(P, i) \/ (First(P, j) = First(P, i) /\ j < i)}
Grouped(P) ==
  [n \in 1..Cardinality(P) |-> CHOOSE i \in P : Cardinality(Before(P, i)) = n - 1]

\* A pass begins by enforcing the bounds, then lists the files unless the
\* whole journal is backed off.
StartPass ==
  /\ up /\ Idle /\ pending # {}
  /\ Enforced(pending, rejected)
  /\ IF All \in backoff THEN UNCHANGED <<todo, left>>
     ELSE todo' = Grouped(pending') /\ left' = backoff
  /\ pending' # pending \/ All \notin backoff
  /\ UNCHANGED <<next, acked, purged, old, up, sending, answer, backoff, journal, faults, unread>>

\* The next entry: skipped when its scope was left or backed off or its
\* file has gone, else sent.
NextEntry ==
  /\ up /\ sending = 0 /\ todo # <<>>
  /\ todo' = Tail(todo)
  /\ LET i == Head(todo)
         send == ScopeOf[i] \notin left /\ i \in pending
     IN /\ sending' = IF send THEN i ELSE 0
        /\ net' = IF send THEN net \cup {i} ELSE net
  /\ UNCHANGED <<spool, up, left, answer, backoff, stored, gone, faults, unread>>

\* Body fails although the file is there: the pass goes on to the next file.
BodyFails ==
  /\ up /\ sending = 0 /\ todo # <<>> /\ Head(todo) \in pending /\ Fail
  /\ todo' = Tail(todo) /\ unread' = unread \cup {Head(todo)}
  /\ UNCHANGED <<spool, up, left, sending, answer, backoff, journal>>

\* Mutant: an unknown subject backs off the whole journal.
ClassifyGlobal(a) ==
  CASE a \in {"applied", "duplicate"} -> "delete" [] a = "erased_subject" -> "erased"
    [] a = "schema" -> "reject" [] OTHER -> "retry"

\* Classify: the action for an answer; anything the table does not name is
\* kept and retried.
Classify(a) ==
  CASE a \in {"applied", "duplicate"} -> "delete"
    [] a = "erased_subject" -> "erased"
    [] a = "schema" -> "reject"
    [] a = "unknown_subject" -> "scope"
    [] OTHER -> "retry"

Purge(s) == {i \in pending \cup rejected : Subj(i) = s}

\* The answer arrives.
Answered ==
  /\ up /\ sending # 0 /\ answer # None
  /\ LET i == sending
         act == Classify(answer)
         s == ScopeOf[i]
     IN /\ pending' = CASE act \in {"delete", "reject"} -> pending \ {i}
                        [] act = "erased" -> pending \ Purge(Subj(i)) [] OTHER -> pending
        /\ rejected' = CASE act = "reject" -> rejected \cup {i}
                         [] act = "erased" -> rejected \ Purge(Subj(i)) [] OTHER -> rejected
        /\ purged' = IF act = "erased" THEN purged \cup {Subj(i)} ELSE purged
        /\ dropped' = IF act = "erased" THEN [dropped EXCEPT !.erased = @ \cup Purge(Subj(i))] ELSE dropped
        /\ left' = CASE act = "erased" -> left \cup {x \in Scopes : SubjectOf[x] = Subj(i)}
                     [] act = "scope" -> left \cup {s} [] OTHER -> left
        /\ backoff' = CASE act \in {"delete", "reject"} -> backoff \ {s}
                        [] act = "scope" -> backoff \cup {s}
                        [] act = "retry" -> backoff \cup {All} [] OTHER -> backoff
        /\ todo' = IF act = "retry" THEN <<>> ELSE todo
  /\ sending' = 0 /\ answer' = None
  /\ UNCHANGED <<next, acked, old, up, journal, faults, unread>>

\* The file operation of the answer fails: an accepted or refused file
\* stays pending, an erased subject's files stay although Spool.erased
\* names it; the pass goes on.
AnsweredFileStays ==
  /\ up /\ sending # 0 /\ answer # None /\ Fail
  /\ LET i == sending
         act == Classify(answer)
     IN /\ act \in {"delete", "reject", "erased"}
        /\ purged' = IF act = "erased" THEN purged \cup {Subj(i)} ELSE purged
        /\ left' = IF act = "erased" THEN left \cup {x \in Scopes : SubjectOf[x] = Subj(i)} ELSE left
        /\ backoff' = IF act = "erased" THEN backoff ELSE backoff \ {ScopeOf[i]}
  /\ sending' = 0 /\ answer' = None
  /\ UNCHANGED <<pending, rejected, next, acked, dropped, old, todo, up, journal, unread>>

\* A transport error or a timeout; the request may still be on its way.
NoAnswer ==
  /\ up /\ sending # 0 /\ answer = None /\ Fail
  /\ sending' = 0 /\ todo' = <<>> /\ backoff' = backoff \cup {All}
  /\ UNCHANGED <<spool, up, left, answer, journal, unread>>

\* Backoffs and retry timers run out.
BackoffEnds ==
  /\ up /\ Idle /\ backoff # {} /\ backoff' = {}
  /\ UNCHANGED <<spool, up, todo, left, sending, answer, journal, faults, unread>>

(***************************************************************************)
(* The journal's endpoint: route, handleRecords and Apply.                 *)
(***************************************************************************)
\* What the endpoint answers to snapshot i: a resend first, then
\* validation and policy, then the ban, then the roster.
AnswerTo(i) ==
  IF i \in stored THEN "duplicate"
  ELSE IF i \in Invalid THEN "schema"
  ELSE IF Subj(i) \in gone THEN "erased_subject"
  ELSE IF Subj(i) \in Unknown THEN "unknown_subject" ELSE "applied"

\* A request is handled; its answer reaches a sender that still waits.
Handle(i) ==
  /\ i \in net /\ net' = net \ {i}
  /\ stored' = IF AnswerTo(i) = "applied" THEN stored \cup {i} ELSE stored
  /\ answer' = IF sending = i THEN AnswerTo(i) ELSE answer
  /\ UNCHANGED <<spool, up, todo, left, sending, backoff, gone, faults, unread>>

\* 503 while starting, full or without TokenReview, 401 on a stale token,
\* 500 on a database error: nothing is stored.
Unavailable(i) ==
  /\ i \in net /\ Fail
  /\ net' = net \ {i}
  /\ answer' \in IF sending = i THEN {"unavailable", "unauthenticated"} ELSE {answer}
  /\ UNCHANGED <<spool, up, todo, left, sending, backoff, stored, gone, unread>>

\* An operator erases a subject (module Journal).
EraseSubject(s) ==
  /\ s \notin gone /\ gone' = gone \cup {s}
  /\ stored' = {i \in stored : Subj(i) # s}
  /\ UNCHANGED <<spool, up, pass, net, faults, unread>>

\* The clock passes max_age of the oldest file.
Age ==
  /\ old' = old \cup {Cardinality(old) + 1} /\ Cardinality(old) + 1 < next /\ Fail
  /\ UNCHANGED <<pending, rejected, next, acked, dropped, purged, up, pass, journal, unread>>

(***************************************************************************)
(* Crashes.  A Put or a remove cut short happened or did not; a move to    *)
(* rejected/ leaves the file in either directory or in both.               *)
(***************************************************************************)
\* Mutant: the pending directory is synced before rejected/.
CrashImageNeither ==
  \/ UNCHANGED <<pending, rejected, next>>
  \/ /\ sending # 0 /\ answer # None /\ pending' = pending \ {sending}
     /\ UNCHANGED <<next, rejected>>

CrashImage ==
  \/ UNCHANGED <<pending, rejected, next>>
  \/ /\ next <= N /\ next' = next + 1
     /\ pending' = pending \cup {next} /\ UNCHANGED rejected
  \/ /\ sending # 0 /\ answer # None /\ UNCHANGED next
     /\ LET i == sending
        IN \/ /\ Classify(answer) = "delete" /\ pending' = pending \ {i} /\ UNCHANGED rejected
           \/ /\ Classify(answer) = "reject" /\ rejected' = rejected \cup {i}
              /\ pending' \in {pending, pending \ {i}}

Crash ==
  /\ up /\ Fail /\ CrashImage
  /\ up' = FALSE /\ purged' = {} /\ todo' = <<>> /\ left' = {} /\ sending' = 0
  /\ answer' = None /\ backoff' = {}
  /\ UNCHANGED <<acked, dropped, old, journal, unread>>

\* openSpool, recoverLocked: a file in both directories was being rejected.
Restart ==
  /\ ~up /\ up' = TRUE
  /\ pending' = pending \ rejected
  /\ UNCHANGED <<rejected, next, acked, dropped, purged, old, pass, journal, faults, unread>>

Init ==
  /\ pending = {} /\ rejected = {} /\ up = TRUE /\ next = 1 /\ acked = {}
  /\ dropped = [aged |-> {}, bytes |-> {}, erased |-> {}]
  /\ purged = {} /\ old = {} /\ todo = <<>> /\ left = {} /\ sending = 0 /\ answer = None
  /\ backoff = {} /\ unread = {} /\ net = {} /\ stored = {} /\ gone = {} /\ faults = 0

Next ==
  \/ Put \/ PutFails \/ StartPass \/ NextEntry \/ BodyFails \/ Answered \/ AnsweredFileStays
  \/ NoAnswer \/ BackoffEnds \/ Age \/ Crash \/ Restart
  \/ \E i \in Ids : Handle(i) \/ Unavailable(i)
  \/ \E s \in Subjects : EraseSubject(s)

Spec == Init /\ [][Next]_vars

\* The sender loop always runs again (the kick channel, the backoff timer or
\* the one-minute timer), requests are handled, a pod that died is restarted.
Fairness ==
  /\ WF_vars(StartPass) /\ WF_vars(NextEntry) /\ WF_vars(Answered) /\ WF_vars(BackoffEnds)
  /\ WF_vars(Restart) /\ \A i \in Ids : WF_vars(Handle(i))

FairSpec == Spec /\ Fairness

(***************************************************************************)
(* Properties.                                                             *)
(***************************************************************************)
\* Types, and the sender waits only for what its pass listed.
TypeOK ==
  /\ pending \subseteq 1..(next - 1) /\ rejected \subseteq 1..(next - 1)
  /\ next \in 1..(N + 1) /\ acked \subseteq 1..(next - 1) /\ sending \in 0..N
  /\ backoff \subseteq Scopes \cup {All} /\ net \subseteq Ids /\ stored \subseteq Ids
  /\ answer # None => sending # 0

\* A snapshot whose Put returned nil is on disk, or in the journal, or was
\* dropped and counted (spool.go writeAtomic, moveToRejectedLocked,
\* bounds.go): no crash, resend or failed file operation loses one.
NothingLost ==
  \A i \in acked : \/ i \in pending \cup rejected \cup stored
                   \/ i \in dropped.aged \cup dropped.bytes \cup dropped.erased
                   \/ Subj(i) \in gone

\* Making room never takes the newest snapshot of a scope (bounds.go):
\* what was dropped for space was refused by the journal or is superseded
\* by a later snapshot of its scope.
NewestKept ==
  \A i \in dropped.bytes : i \in Invalid \/ \E j \in (i + 1)..(next - 1) : ScopeOf[j] = ScopeOf[i]

\* Snapshots of one scope reach the journal oldest first (sender.go Drain):
\* when one is first stored, no older one of its scope that the journal
\* would take and the sender could read is still waiting, through retries, late requests and restarts.
OldestFirst ==
  [][\A i \in stored' \ stored : \A j \in pending :
       j < i /\ ScopeOf[j] = ScopeOf[i] => j \in stored \cup Invalid \cup unread]_vars

\* A snapshot moved to rejected/ is not sent again, also when a crash left
\* it in both directories (spool.go recoverLocked).
RejectedNotResent ==
  [][sending' # sending /\ sending' # 0 => sending' \notin rejected]_vars

\* Every pending snapshot leaves the spool in the end, unless its subject is
\* not on the roster: a blocked scope holds up no other (sender.go Drain).
Drains ==
  \A i \in Ids : (i \in pending /\ Subj(i) \notin Unknown) ~> (i \notin pending)

\* The spool is safe through crashes between any two file operations, lost and
\* late requests and its own bounds: nothing Put accepted is lost uncounted,
\* and making room never takes the newest snapshot of a scope (spool.go,
\* bounds.go).
SpoolSafe == TypeOK /\ NothingLost /\ NewestKept

\* What the sender sends, it sends in order: the oldest of its scope first, and
\* never again what was rejected (sender.go Drain, spool.go recoverLocked).
SentInOrder == OldestFirst /\ RejectedNotResent
=============================================================================
