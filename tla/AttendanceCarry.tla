-------------------------- MODULE AttendanceCarry --------------------------
(* The attendance_day records of one student.  The portal shows a grid of    *)
(* the current term's days; a day is sent to the journal once it is settled: *)
(* past, and either without an unmarked period or followed by enough school  *)
(* days.  A coded day that is not settled yet is carried in the checkpoint,  *)
(* so that the last days of a term still settle after the grid has rolled to *)
(* the next one.                                                              *)
(*                                                                            *)
(* A day's tally is abstracted to whether a class met, whether a period is   *)
(* still unmarked and whether a period has a code; the grid covers one       *)
(* school year.                                                               *)
EXTENDS Integers, FiniteSets

CONSTANTS
  LastDay,     \* the days are 1..LastDay
  TermEnd,     \* the last day of the first term
  NoSchool,    \* days on which no class meets
  Settle,      \* attendance_day_settle_school_days
  CarryMax,    \* attendance_day_carry_max_days
  MaxMarks, MaxFailures    \* bounds: teachers' entries, failures of a poll

ASSUME CarryAssumption ==
  /\ LastDay \in Nat /\ TermEnd \in 1..LastDay /\ NoSchool \subseteq 1..LastDay
  /\ Settle \in Nat \ {0} /\ CarryMax \in Nat \ {0}
  /\ MaxMarks \in Nat /\ MaxFailures \in Nat

Days == 1..LastDay
Cell == [met : BOOLEAN, unmarked : BOOLEAN, coded : BOOLEAN]

VARIABLES
  today,
  rolled,      \* the grid shows the second term
  cell,        \* cell[d]: the portal's tally of day d
  pending,     \* checkpoint: the carried days
  journal,     \* the days the journal holds a record of
  known,       \* history: days coded when a poll last completed on them, and
               \*  not judged otherwise since
  lastSeen,    \* history: lastSeen[d], coded when a poll last judged day d
               \*  or read a code on it
  dropped,     \* history: days given up as carried too long
  marks, failures

carryVars == <<today, rolled, cell, pending, journal, known, lastSeen, dropped, marks, failures>>

CarryInit ==
  /\ today = 1 /\ rolled = FALSE
  /\ cell = [d \in Days |-> [met |-> d \notin NoSchool, unmarked |-> d \notin NoSchool, coded |-> FALSE]]
  /\ pending = {} /\ journal = {} /\ known = {} /\ dropped = {}
  /\ lastSeen = [d \in Days |-> FALSE]
  /\ marks = 0 /\ failures = 0

\* The outside: days pass, the school rolls the grid once the next term has
\* begun, teachers enter and correct marks.
NextDay ==
  /\ today < LastDay /\ today' = today + 1
  /\ UNCHANGED <<rolled, cell, pending, journal, known, lastSeen, dropped, marks, failures>>

RollGrid ==
  /\ ~rolled /\ today > TermEnd /\ rolled' = TRUE
  /\ UNCHANGED <<today, cell, pending, journal, known, lastSeen, dropped, marks, failures>>

Mark(d, u, c) ==
  /\ marks < MaxMarks /\ d <= today /\ cell[d].met
  /\ cell' = [cell EXCEPT ![d].unmarked = u, ![d].coded = c]
  /\ cell' # cell /\ marks' = marks + 1
  /\ UNCHANGED <<today, rolled, pending, journal, known, lastSeen, dropped, failures>>

-----------------------------------------------------------------------------
(* buildAttendanceDaysCarry.                                                 *)
grid == {d \in Days : rolled <=> d > TermEnd}
schoolDays == {d \in grid : d <= today /\ cell[d].met}
schoolDaysAfter(d) == Cardinality({e \in schoolDays : e > d})
isSettled(d, u, followed) == d < today /\ (u => followed >= Settle)
settled(d) == isSettled(d, cell[d].unmarked, schoolDaysAfter(d))

\* The unbroken run of settled days from the grid's first day, which is the
\* range the snapshot is complete over.
complete == {d \in grid : \A e \in grid : e <= d => settled(e)}
records == {d \in complete : cell[d].coded}

\* Mutant: today's cell is not carried.
pendingOf_past ==
  {[day |-> d, unmarked |-> cell[d].unmarked, followed |-> schoolDaysAfter(d), through |-> today] :
      d \in {e \in grid \ complete : cell[e].coded /\ e < today}}

pendingOf ==
  {[day |-> d, unmarked |-> cell[d].unmarked, followed |-> schoolDaysAfter(d), through |-> today] :
      d \in {e \in grid \ complete : cell[e].coded /\ e <= today}}

\* The carried days the grid no longer shows; one it shows is ignored, so a
\* correction is picked up.
offGrid == {c \in pending : c.day \notin grid}
expired(c) == c.day + CarryMax < today
later(a, b) == IF a < b THEN b ELSE a
followed(c) == c.followed + schoolDaysAfter(later(c.day, c.through))
settledCarried == {c \in offGrid : ~expired(c) /\ isSettled(c.day, c.unmarked, followed(c))}

carryOn ==
  {[c EXCEPT !.followed = followed(c), !.through = later(c.through, today)] :
      c \in {b \in offGrid : ~expired(b)} \ settledCarried}

\* What the snapshots make of the journal: the complete range replaces what
\* it covers, a carried day is added.
applied == (journal \ complete) \cup records \cup {c.day : c \in settledCarried}

-----------------------------------------------------------------------------
(* emitKidRecords: the snapshots are handed over, then the days to carry are *)
(* saved.                                                                    *)
Emit ==
  /\ journal' = applied
  /\ lastSeen' = [d \in Days |-> IF d \in complete \/ (d \in grid /\ cell[d].coded)
                                  THEN cell[d].coded ELSE lastSeen[d]]

savePendingDays ==
  /\ pending' = pendingOf \cup carryOn
  /\ dropped' = dropped \cup {c.day : c \in {b \in offGrid : expired(b)}}
  /\ known' = (known \ grid) \cup {d \in grid : cell[d].coded /\ d <= today}

emitKidRecords ==
  /\ Emit /\ savePendingDays
  /\ UNCHANGED <<today, rolled, cell, marks, failures>>

\* The hand-over succeeds and the days to carry are not saved: the save
\* fails, or the process dies first.
EmitOnly ==
  /\ failures < MaxFailures /\ failures' = failures + 1
  /\ Emit /\ known' = known \ {d \in complete : ~cell[d].coded}
  /\ UNCHANGED <<today, rolled, cell, pending, dropped, marks>>

CarryNext ==
  \/ NextDay \/ RollGrid
  \/ \E d \in Days, u, c \in BOOLEAN : Mark(d, u, c)
  \/ emitKidRecords \/ EmitOnly

-----------------------------------------------------------------------------
CarryTypeOK ==
  /\ today \in Days /\ rolled \in BOOLEAN /\ cell \in [Days -> Cell]
  /\ journal \subseteq Days /\ known \subseteq Days /\ dropped \subseteq Days
  /\ \A c \in pending : /\ c.day \in Days /\ c.through \in c.day..today
                        /\ c.followed \in 0..LastDay
  /\ \A b, c \in pending : b.day = c.day => b = c

\* A coded day that a completed poll saw, and none has judged otherwise
\* since, is in the journal, carried, or was given up after CarryMax days:
\* rolling the grid to the next term, and any number of failed saves, lose
\* none.
NoDayLost ==
  \A d \in known :
    \/ d \in journal
    \/ \E c \in pending : c.day = d
    \/ d \in dropped /\ d + CarryMax < today

\* A day of the journal was coded when a poll last judged it: a carried day
\* does not come back over a correction, unless a save failed between the
\* hand-over and the carried days.  (A correction that leaves the day
\* unsettled is not judged, and the journal keeps the day until it is.)
NoStaleDay == failures = 0 => \A d \in journal : lastSeen[d]

\* A day with an unmarked period enters the journal only after Settle school
\* days have really followed it, counted over both terms, each once.
reallyAfter(d) == Cardinality({e \in Days : e > d /\ e <= today /\ cell[e].met})
EnteredSettled ==
  [][\A d \in journal' \ journal :
       /\ d < today
       /\ \/ d \in grid /\ (cell[d].unmarked => reallyAfter(d) >= Settle)
          \/ \E c \in pending : c.day = d /\ (c.unmarked => reallyAfter(d) >= Settle)
    ]_carryVars

\* The end of a term loses no coded day and brings none back over a correction
\* (pendingDays, carriedDays, savePendingDays).
CarrySafe == CarryTypeOK /\ NoDayLost /\ NoStaleDay
=============================================================================
