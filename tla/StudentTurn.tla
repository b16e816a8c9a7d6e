---------------------------- MODULE StudentTurn ----------------------------
(* One poll of the PowerSchool connector: a turn per configured kid.  The     *)
(* portal keeps ONE selected student per session and answers every page for  *)
(* that student, while somebody else using the same session may select       *)
(* another at any moment; so a turn selects the kid, reads its pages, checks *)
(* who each of them is about, confirms the selection once more and only then *)
(* stages what changed, an entry at a time, saving the entry's fingerprint   *)
(* after it.                                                                  *)
(*                                                                            *)
(* A kid is identified with its student, and a student with the number the   *)
(* scores pages carry (student_api_id).  A surface's entry is a version       *)
(* number; its fingerprint is <<student, version>>.  Wording, tags, rule      *)
(* lookup and telemetry are left out.                                         *)
EXTENDS Naturals, Sequences, FiniteSets

CONSTANTS
  Kids,         \* the configured kids, each also the name of its student
  Siblings,     \* students of the account that are not configured
  KidOrder,     \* the kids in configuration order
  Quiet,        \* <<student, key>> dated before the lookback, nothing outstanding
  DescOnly,     \* versions of an assignment that change its description only
  Threshold,    \* failure_threshold
  None,
  Moving,       \* <<student, key>> whose entry changes while we look
  MaxPolls, MaxChanges, MaxSwitches, MaxFaults,  \* bounds of the exploration
  MaxEvents                                      \* and of the last three together

ASSUME TurnAssumption ==
  /\ KidOrder \in Seq(Kids) /\ {KidOrder[i] : i \in 1..Len(KidOrder)} = Kids
  /\ Len(KidOrder) > 0
  /\ \A i, j \in 1..Len(KidOrder) : KidOrder[i] = KidOrder[j] => i = j
  /\ Kids \cap Siblings = {} /\ None \notin Kids \cup Siblings
  /\ None \notin (Kids \cup Siblings) \X Nat
  /\ Threshold \in Nat /\ MaxPolls \in Nat /\ MaxChanges \in Nat
  /\ MaxSwitches \in Nat /\ MaxFaults \in Nat /\ MaxEvents \in Nat

Students == Kids \cup Siblings
HomeKeys   == {"grade", "attendance"}          \* on the home page
CourseKeys == {"course1", "course2"}           \* a scores page each
ExtraKeys  == {"term_grade", "attendance_day", "comment"}
Keys == HomeKeys \cup CourseKeys \cup ExtraKeys
\* Surfaces with a minimum interval between reads.
Timed == {"term_grade", "comment", "comment_list"}
Reads == <<"term_grade", "attendance_day", "comment_list", "comment", "course1", "course2">>
StageOrder == <<"grade", "attendance", "course1", "course2", "term_grade", "attendance_day", "comment">>

VARIABLES
  portal,    \* portal[s][x]: version of the entry
  sel,       \* the student the portal's session has selected
  fp,        \* checkpoint: fp[k][x], <<student, version>> or None
  learned,   \* checkpoint: learned[k], the student id learned, or None
  stamped,   \* checkpoint: <<k, surface>> read within the minimum interval
  lists,     \* checkpoint: kids whose list of comment terms is kept
  cfg,       \* [bound: kids with student_api_id configured, and the
             \*  surfaces enabled: assignments, extras]
  pc,        \* the step of the poll
  at,        \* position in Reads or StageOrder
  ki,        \* index of the kid whose turn it is
  page,      \* page[x]: what this turn read, <<student, version>> or None
  noted,     \* surfaces this turn read whose read time is stamped at its end
  seen,      \* binding.seen: the id this turn's scores pages carried, or None
  poll,      \* [read: kids read, auth: session refused, renewed: second pass]
  failed,    \* failedPolls
  staged,    \* history: <<kid, key, student, version>> delivered
  dups,      \* history: deliveries of something already delivered
  away,      \* history: selections by others since this turn selected its kid
  clean,     \* history: this poll found every surface due, and since it
             \*  began nothing failed and nothing outside moved
  count      \* [polls, changes, switches, faults]

vars == <<portal, sel, fp, learned, stamped, lists, cfg, pc, at, ki, page, noted,
          seen, poll, failed, staged, dups, away, clean, count>>
checkpoint == <<fp, learned, stamped, lists>>
turn  == <<page, noted, seen>>
world == <<portal, cfg>>
hist  == <<staged, dups>>

kid == KidOrder[ki]
NoPage == [x \in Keys |-> None]
events == count.changes + count.switches + count.faults
Fault(n) == /\ count.faults + n <= MaxFaults /\ events + n <= MaxEvents
            /\ count' = [count EXCEPT !.faults = @ + n]
            /\ clean' = (clean /\ n = 0)

TurnInit ==
  /\ portal = [s \in Students |-> [x \in Keys |-> 1]]
  /\ sel = KidOrder[1]
  /\ fp = [k \in Kids |-> [x \in Keys |-> None]]
  /\ learned = [k \in Kids |-> None]
  /\ stamped = {} /\ lists = {}
  /\ cfg \in [bound : SUBSET Kids, assignments : BOOLEAN, extras : BOOLEAN]
  /\ pc = "idle" /\ at = 1 /\ ki = 1
  /\ page = NoPage /\ noted = {} /\ seen = None
  /\ poll = [read |-> 0, auth |-> FALSE, renewed |-> FALSE]
  /\ failed = 0 /\ staged = {} /\ dups = 0 /\ away = 0 /\ clean = FALSE
  /\ count = [polls |-> 0, changes |-> 0, switches |-> 0, faults |-> 0]

-----------------------------------------------------------------------------
(* The world outside.  Staging reads nothing of the portal, so a step of the *)
(* outside during staging is the same step after it.                         *)
Quiescent == pc \in {"idle", "select", "read", "confirm"}

\* Somebody else of the same session selects another student.
SwitchStudent(s) ==
  /\ Quiescent /\ s # sel
  /\ count.switches < MaxSwitches /\ events < MaxEvents
  /\ sel' = s /\ away' = away + 1
  /\ clean' = FALSE
  /\ count' = [count EXCEPT !.switches = @ + 1]
  /\ UNCHANGED <<world, checkpoint, pc, at, ki, turn, poll, failed, hist>>

\* The school changes an entry.
ChangeEntry(s, x) ==
  /\ Quiescent /\ <<s, x>> \in Moving
  /\ count.changes < MaxChanges /\ events < MaxEvents
  /\ portal' = [portal EXCEPT ![s][x] = @ + 1]
  /\ clean' = FALSE
  /\ count' = [count EXCEPT !.changes = @ + 1]
  /\ UNCHANGED <<sel, cfg, checkpoint, pc, at, ki, turn, poll, failed, hist, away>>

\* The minimum interval of every stamped surface passes.
IntervalPasses ==
  /\ pc = "idle" /\ stamped # {}
  /\ stamped' = {}
  /\ UNCHANGED <<world, sel, fp, learned, lists, pc, at, ki, turn, poll, failed, hist,
                 away, clean, count>>

-----------------------------------------------------------------------------
(* pollNow and pollKids: the gate gave a client; the kids in order.          *)
pollKids ==
  /\ pc = "idle" /\ count.polls < MaxPolls
  /\ pc' = "select" /\ ki' = 1 /\ at' = 1
  /\ poll' = [read |-> 0, auth |-> FALSE, renewed |-> FALSE]
  /\ clean' = (stamped = {}) /\ away' = 0
  /\ count' = [count EXCEPT !.polls = @ + 1]
  /\ UNCHANGED <<world, sel, checkpoint, turn, failed, hist>>

\* A turn ends; whatever it read and did not stage is thrown away.  "kid"
\* goes on with the next kid, "abort" leaves the others out, "auth" ends the
\* pass with the session refused.
EndTurn(how) ==
  /\ page' = NoPage /\ noted' = {} /\ seen' = None /\ at' = 1
  /\ poll' = [poll EXCEPT !.read = IF how = "read" THEN @ + 1 ELSE @,
                          !.auth = how = "auth"]
  /\ IF how \in {"read", "kid"} /\ ki < Len(KidOrder)
       THEN ki' = ki + 1 /\ pc' = "select"
       ELSE ki' = ki /\ pc' = "end"

\* The library call that selects the kid and returns the home page, and
\* verifyKidPage on it: exactly one student marked selected, every grade
\* row of that student, and it is the kid.
SelectStudent ==
  /\ pc = "select" /\ sel' = kid
  /\ page' = [NoPage EXCEPT !["grade"] = <<kid, portal[kid]["grade"]>>,
                            !["attendance"] = <<kid, portal[kid]["attendance"]>>]
  /\ pc' = "read" /\ at' = 1 /\ away' = 0
  /\ UNCHANGED <<world, checkpoint, ki, noted, seen, poll, failed, hist, clean, count>>

\* The selection fails: an error of this kid alone (unknown, not confirmed,
\* another student's page), one of the page itself, or the session refused.
SelectFails ==
  /\ pc = "select" /\ Fault(1)
  /\ \E how \in {"kid", "abort", "auth"} : EndTurn(how)
  /\ UNCHANGED <<world, sel, checkpoint, failed, hist, away>>

-----------------------------------------------------------------------------
(* The reads of a turn: readExtraPages, then readAssignments.                *)
boundAPIID(k) == IF k \in cfg.bound THEN k ELSE learned[k]

\* Mutant: the ids of the other kids are not looked at.
others_none == {}

others == {boundAPIID(k) : k \in Kids \ {kid}} \ {None}

\* studentBinding.check on the id a scores page carries.
bindingCheck(id) ==
  /\ id \notin others
  /\ boundAPIID(kid) # None => id = boundAPIID(kid)
  /\ boundAPIID(kid) = None /\ seen # None => id = seen

surfaceDue(x) == x \in Timed => <<kid, x>> \notin stamped

\* Whether this step of Reads is made at all.
wanted(x) ==
  IF x \in CourseKeys THEN cfg.assignments
  ELSE /\ cfg.extras /\ surfaceDue(x)
       /\ x = "comment" => /\ page["comment"] = None
                           /\ "comment_list" \in noted \/ kid \in lists

NextRead == IF at < Len(Reads) THEN at' = at + 1 /\ pc' = "read"
                               ELSE at' = 1 /\ pc' = "confirm"
Skip(x) ==
  /\ ~wanted(x) /\ NextRead
  /\ UNCHANGED <<page, noted, seen, ki, poll>>

\* An extra page is about the student selected when it was served, and says
\* so itself (checkPageStudent).  The comment list comes with a page of its
\* first term, which counts only when that page confirms its term.
ReadExtra(x) ==
  /\ wanted(x) /\ x \notin CourseKeys
  /\ IF sel # kid
       THEN EndTurn("kid")
       ELSE /\ NextRead
            /\ noted' = noted \cup (IF x \in Timed THEN {x} ELSE {})
            /\ \/ x # "comment_list" /\ page' = [page EXCEPT ![x] = <<sel, portal[sel][x]>>]
               \/ x = "comment_list" /\ page' = page
               \/ x = "comment_list" /\ page' = [page EXCEPT !["comment"] = <<sel, portal[sel]["comment"]>>]
            /\ UNCHANGED <<seen, ki, poll>>

\* A scores page carries the id of the student selected when it was served;
\* the course's assignments are then asked for under that id, whoever is
\* selected by then, so the two calls are one step.
ReadCourse(x) ==
  /\ wanted(x) /\ x \in CourseKeys
  /\ IF bindingCheck(sel)
       THEN /\ NextRead
            /\ seen' = IF seen = None THEN sel ELSE seen
            /\ page' = [page EXCEPT ![x] = <<sel, portal[sel][x]>>]
            /\ UNCHANGED <<noted, ki, poll>>
       ELSE EndTurn("kid")

readStep ==
  /\ pc = "read"
  /\ Skip(Reads[at]) \/ ReadExtra(Reads[at]) \/ ReadCourse(Reads[at])
  /\ UNCHANGED <<world, sel, checkpoint, failed, hist, away, clean, count>>

\* A read that fails: the page is left out, the turn is given up (a page
\* about nobody, a timeout), or the session is refused.
readFails ==
  /\ pc = "read" /\ wanted(Reads[at]) /\ Fault(1)
  /\ \/ NextRead /\ UNCHANGED <<turn, ki, poll>>
     \/ \E how \in {"kid", "auth"} : EndTurn(how)
  /\ UNCHANGED <<world, sel, checkpoint, failed, hist, away>>

\* Whether the turn ends with a second look at the home page: always after
\* readAssignments, and after any request of readExtraPages, which asks for
\* the attendance days on every turn.
needConfirm == cfg.assignments \/ cfg.extras

\* confirmStillSelected, then binding.learn, which keeps the id this turn's
\* scores pages carried when the kid had none.
confirmStillSelected ==
  /\ pc = "confirm"
  /\ IF needConfirm /\ sel # kid
       THEN EndTurn("kid") /\ UNCHANGED learned
       ELSE /\ learned' = IF boundAPIID(kid) = None /\ seen # None
                            THEN [learned EXCEPT ![kid] = seen] ELSE learned
            /\ pc' = "stage" /\ at' = 1
            /\ UNCHANGED <<turn, ki, poll>>
  /\ UNCHANGED <<world, sel, fp, stamped, lists, failed, hist, away, clean, count>>

\* The second look fails, or the id learned cannot be saved.
confirmFails ==
  /\ pc = "confirm" /\ needConfirm /\ Fault(1)
  /\ \E how \in {"kid", "auth"} : EndTurn(how)
  /\ UNCHANGED <<world, sel, checkpoint, failed, hist, away>>

-----------------------------------------------------------------------------
(* The surfaces.  Each compares an entry with its fingerprint and stages it   *)
(* or saves the fingerprint alone (a baseline), or leaves it as it is.        *)
isNew(x)     == fp[kid][x] = None
changed(x)   == page[x] # None /\ page[x] # fp[kid][x]
\* Not seen before and dated before the lookback, nothing outstanding.
oldNews(x)   == isNew(x) /\ <<page[x][1], x>> \in Quiet
\* Only the description of an assignment due before the lookback changed.
descriptionOnly(x) == page[x][2] \in DescOnly /\ <<page[x][1], x>> \in Quiet

stageSteps == StageOrder[at]
NextStage == IF at < Len(StageOrder) THEN at' = at + 1 /\ pc' = "stage"
                                     ELSE at' = 1 /\ pc' = "stamp"
Save(x) == fp' = [fp EXCEPT ![kid][x] = page[x]]
Deliver(x) ==
  LET it == <<kid, x, page[x][1], page[x][2]>> IN
  /\ staged' = staged \cup {it}
  /\ dups' = IF it \in staged THEN dups + 1 ELSE dups

\* What a surface does with one entry.  A delivery that fails leaves the
\* fingerprint; a fingerprint that cannot be saved is only logged.
leave(x)  == Fault(0) /\ UNCHANGED <<fp, hist>>
baseline(x) ==
  /\ \/ Save(x) /\ Fault(0)
     \/ UNCHANGED fp /\ Fault(1)
  /\ UNCHANGED hist
stage(x) ==
  \/ Deliver(x) /\ Save(x) /\ Fault(0)
  \/ Deliver(x) /\ UNCHANGED fp /\ Fault(1)
  \/ UNCHANGED <<hist, fp>> /\ Fault(1)

\* A grade is compared with the one last staged.
ProcessGrades(x) == x = "grade" /\ (IF changed(x) THEN stage(x) ELSE leave(x))

\* A course without absences or tardies is neither staged nor saved while
\* nothing is known of it.
ProcessAttendance(x) ==
  x = "attendance" /\ (IF changed(x) /\ ~oldNews(x) THEN stage(x) ELSE leave(x))

\* An assignment due before the lookback with nothing outstanding is taken as
\* known when it is new, and so is one of which only the description changed.
stageAssignments(x) ==
  /\ x \in CourseKeys
  /\ IF ~changed(x) THEN leave(x)
     ELSE IF oldNews(x) \/ descriptionOnly(x) THEN baseline(x) ELSE stage(x)

\* The first reading of a term or a day before the lookback is a baseline.
ProcessTermGrades(x) ==
  /\ x = "term_grade"
  /\ IF ~changed(x) THEN leave(x) ELSE IF oldNews(x) THEN baseline(x) ELSE stage(x)
ProcessAttendanceDays(x) ==
  /\ x = "attendance_day"
  /\ IF ~changed(x) THEN leave(x) ELSE IF oldNews(x) THEN baseline(x) ELSE stage(x)
ProcessTeacherComments(x) == x = "comment" /\ (IF changed(x) THEN stage(x) ELSE leave(x))

\* The entry is handed over to staging.
delivers(x) ==
  /\ changed(x)
  /\ x \notin {"grade", "comment"} => ~oldNews(x)
  /\ x \in CourseKeys => ~descriptionOnly(x)

stageEntry(x) ==
  \/ ProcessGrades(x) \/ ProcessAttendance(x) \/ stageAssignments(x)
  \/ ProcessTermGrades(x) \/ ProcessAttendanceDays(x) \/ ProcessTeacherComments(x)

stageStep ==
  /\ pc = "stage" /\ stageEntry(stageSteps) /\ NextStage
  /\ UNCHANGED <<world, sel, learned, stamped, lists, ki, turn, poll, failed, away>>

\* The end of stageExtraPages stamps what was read, staged or not.
stampReads ==
  /\ pc = "stamp"
  /\ stamped' = stamped \cup {<<kid, x>> : x \in noted \cup
                   (IF page["comment"] # None THEN {"comment"} ELSE {})}
  /\ lists' = IF "comment_list" \in noted THEN lists \cup {kid} ELSE lists
  /\ EndTurn("read")
  /\ UNCHANGED <<world, sel, fp, learned, failed, hist, away, clean, count>>

-----------------------------------------------------------------------------
\* A refused session may be renewed once, and the kids read again from the
\* first; a poll that read nobody counts towards the threshold, at which the
\* connector stops for good.
endPoll ==
  /\ pc = "end"
  /\ \/ /\ poll.auth /\ ~poll.renewed
        /\ poll' = [poll EXCEPT !.auth = FALSE, !.renewed = TRUE]
        /\ pc' = "select" /\ ki' = 1 /\ UNCHANGED failed
     \/ /\ poll.auth /\ pc' \in {"idle", "stopped"}
        /\ UNCHANGED <<poll, ki, failed>>
     \/ /\ ~poll.auth
        /\ failed' = IF poll.read > 0 THEN 0 ELSE failed + 1
        /\ pc' = IF Threshold > 0 /\ failed' >= Threshold THEN "stopped" ELSE "idle"
        /\ UNCHANGED <<poll, ki>>
  /\ UNCHANGED <<world, sel, checkpoint, at, turn, hist, away, clean, count>>

\* The process dies anywhere and comes back with its checkpoint; between a
\* delivery and its fingerprint, the entry is delivered and not saved.
Crash ==
  /\ pc \notin {"idle", "stopped"} /\ Fault(1)
  /\ \/ UNCHANGED hist
     \/ pc = "stage" /\ delivers(stageSteps) /\ Deliver(stageSteps)
  /\ pc' = "idle" /\ at' = 1 /\ ki' = 1 /\ failed' = 0
  /\ page' = NoPage /\ noted' = {} /\ seen' = None
  /\ UNCHANGED <<world, sel, checkpoint, poll, away>>

Restart ==
  /\ pc = "stopped" /\ pc' = "idle" /\ failed' = 0
  /\ UNCHANGED <<world, sel, checkpoint, at, ki, turn, poll, hist, away, clean, count>>

TurnNext ==
  \/ \E s \in Students : SwitchStudent(s)
  \/ \E s \in Students, x \in Keys : ChangeEntry(s, x)
  \/ IntervalPasses
  \/ pollKids \/ SelectStudent \/ SelectFails \/ readStep \/ readFails
  \/ confirmStillSelected \/ confirmFails \/ stageStep \/ stampReads
  \/ endPoll \/ Crash \/ Restart

TurnSpec == TurnInit /\ [][TurnNext]_vars

-----------------------------------------------------------------------------
TurnTypeOK ==
  /\ portal \in [Students -> [Keys -> 1..(MaxChanges + 1)]]
  /\ sel \in Students /\ ki \in 1..Len(KidOrder)
  /\ \A k \in Kids, x \in Keys : fp[k][x] # None => fp[k][x] \in Students \X (1..(MaxChanges + 1))
  /\ \A x \in Keys : page[x] # None => page[x] \in Students \X (1..(MaxChanges + 1))
  /\ learned \in [Kids -> Students \cup {None}] /\ seen \in Students \cup {None}
  /\ stamped \subseteq Kids \X Timed /\ noted \subseteq Timed /\ lists \subseteq Kids
  /\ pc \in {"idle", "select", "read", "confirm", "stage", "stamp", "end", "stopped"}
  /\ at \in 1..Len(StageOrder) /\ failed \in 0..MaxPolls
  /\ pc = "read" => at <= Len(Reads)

\* What is staged for a kid is its own student's, through selections by
\* others between any two requests.  The one exception is the one binding.go
\* states: the assignments of a kid whose id was learned from another
\* student's pages.
OwnStudent ==
  \A it \in staged : \/ it[3] = it[1]
                     \/ it[2] \in CourseKeys /\ learned[it[1]] \notin {None, it[1]}

\* A wrong id is only ever learned when somebody selected another student
\* and selected the kid again within one turn.
LearnedByMistake ==
  [][\A k \in Kids : learned'[k] # learned[k] => learned'[k] = k \/ away >= 2]_vars

\* No two kids are bound to one student.
NoSharedBinding ==
  \A j, k \in Kids : j # k /\ boundAPIID(j) = boundAPIID(k) => boundAPIID(k) = None

\* A fingerprint in the checkpoint is of something staged, or of something
\* the lookback rules say to take as known: no change is passed over by a
\* failed delivery, a discarded turn or a crash.
NoChangePassedOver ==
  \A k \in Kids, x \in Keys : fp[k][x] # None =>
    LET s == fp[k][x][1]  v == fp[k][x][2] IN
    \/ <<k, x, s, v>> \in staged
    \/ <<s, x>> \in Quiet /\ x \in CourseKeys \cup {"term_grade", "attendance_day"}

\* A second delivery of the same version costs a crash or a failed save.
RestagedOnlyAfterFault == dups <= count.faults

\* A poll that nothing disturbs leaves every kid's checkpoint at what the
\* portal shows, unless a binding learned by mistake stands in the way.
misled(k) == \/ boundAPIID(k) \notin {None, k}
             \/ \E j \in Kids \ {k} : boundAPIID(j) = k
shown(x) == (x \in CourseKeys => cfg.assignments) /\ (x \in ExtraKeys => cfg.extras)
CleanPollCatchesUp ==
  pc = "idle" /\ clean =>
    \A k \in Kids, x \in Keys :
      \/ ~shown(x)
      \/ cfg.assignments /\ misled(k)
      \/ fp[k][x] = <<k, portal[k][x]>>
      \/ x = "attendance" /\ <<k, x>> \in Quiet /\ fp[k][x] = None

\* A turn keeps the kids apart and the checkpoint honest, whoever else selects
\* students in the same session and wherever the process dies: a kid gets its
\* own student's pages, no two kids share a student, no change is passed over,
\* a second delivery costs a fault, and an undisturbed poll catches up
\* (pollKids, confirmStillSelected, binding.go, stageExtraPages).
TurnSafe ==
  /\ TurnTypeOK /\ OwnStudent /\ NoSharedBinding /\ NoChangePassedOver
  /\ RestagedOnlyAfterFault /\ CleanPollCatchesUp
=============================================================================
