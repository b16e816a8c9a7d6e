--------------------------- MODULE Portals_proofs ---------------------------
(***************************************************************************)
(* Proofs about the parts of the school connectors that MCPortals puts     *)
(* side by side, for any values of their constants.                        *)
(***************************************************************************)
EXTENDS MCPortals, FiniteSetTheorems, SequenceTheorems, WellFoundedInduction, TLAPS

-----------------------------------------------------------------------------
(* The carried attendance days.                                             *)

\* The school days after a and up to b.
Between(a, b) == {e \in Days : a < e /\ e <= b /\ e \notin NoSchool}

CarriedRec == [day : Days, unmarked : BOOLEAN, followed : Nat, through : Days]

CarryTypes ==
  /\ today \in Days /\ rolled \in BOOLEAN /\ cell \in [Days -> Cell]
  /\ journal \subseteq Days /\ known \subseteq Days /\ dropped \subseteq Days
  /\ pending \subseteq CarriedRec /\ lastSeen \in [Days -> BOOLEAN]
  /\ marks \in Nat /\ failures \in Nat

\* Whether a class meets on a day is the calendar's, and never changes.
CellsMet == \A d \in Days : cell[d].met <=> d \notin NoSchool

\* A carried day was seen coded, was read before today, and what is counted as
\* followed is no more than the school days that really followed.
CarriedOK(c) ==
  /\ c.day <= c.through /\ c.through <= today
  /\ c.followed <= Cardinality(Between(c.day, c.through))
  /\ failures = 0 => lastSeen[c.day]

OnePerDay == \A b, c \in pending : b.day = c.day => b = c

CarryInv ==
  /\ CarryTypes /\ CellsMet /\ OnePerDay /\ NoDayLost /\ NoStaleDay
  /\ \A c \in pending : CarriedOK(c)

LEMMA BetweenSize ==
  ASSUME NEW a \in Int, NEW b \in Int
  PROVE  /\ IsFiniteSet(Between(a, b)) /\ Cardinality(Between(a, b)) \in 0..LastDay
         /\ Cardinality(Between(a, b)) \in Nat
<1>1. IsFiniteSet(Days) /\ Cardinality(Days) = LastDay
  BY CarryAssumption, FS_Interval DEF Days
<1>2. PICK B : B = Between(a, b)
  OBVIOUS
<1>3. B \subseteq Days
  BY <1>2 DEF Between
<1>4. IsFiniteSet(B) /\ Cardinality(B) <= LastDay
  BY <1>1, <1>3, FS_Subset
<1>5. Cardinality(B) \in Nat
  BY <1>4, FS_CardinalityType
<1> QED
  BY <1>2, <1>4, <1>5, CarryAssumption

\* The days counted by the grid are among those that really followed.
LEMMA SchoolDaysCounted ==
  ASSUME CarryTypes, CellsMet, NEW a \in Days
  PROVE  schoolDaysAfter(a) \in Nat /\ schoolDaysAfter(a) <= Cardinality(Between(a, today))
<1>1. PICK B : B = Between(a, today)
  OBVIOUS
<1>2. IsFiniteSet(B)
  BY <1>1, BetweenSize DEF CarryTypes, Days
<1>3. PICK S : S = {e \in schoolDays : e > a}
  OBVIOUS
<1>4. S \subseteq B
  BY <1>1, <1>3 DEF schoolDays, grid, Between, CarryTypes, CellsMet, Days
<1>5. IsFiniteSet(S) /\ Cardinality(S) <= Cardinality(B)
  BY <1>2, <1>4, FS_Subset
<1>6. Cardinality(S) \in Nat
  BY <1>5, FS_CardinalityType
<1> QED
  BY <1>1, <1>3, <1>5, <1>6 DEF schoolDaysAfter

\* What a carried day counts after a poll is no more than what really followed.
LEMMA FollowedBounded ==
  ASSUME CarryInv, NEW c \in pending
  PROVE  /\ followed(c) \in Nat /\ followed(c) <= Cardinality(Between(c.day, today))
         /\ later(c.through, today) = today
<1>1. /\ c \in CarriedRec /\ CarriedOK(c) /\ today \in Days
      /\ c.day \in Int /\ c.through \in Int /\ today \in Int /\ c.through \in Days
  BY CarryAssumption DEF CarryInv, CarryTypes, CarriedRec, Days
<1>2. later(c.day, c.through) = c.through /\ later(c.through, today) = today
  BY <1>1 DEF later, CarriedOK
<1>3. PICK A, B, C : /\ A = Between(c.day, c.through) /\ B = Between(c.through, today)
                     /\ C = Between(c.day, today)
  OBVIOUS
<1>4. /\ IsFiniteSet(A) /\ IsFiniteSet(B) /\ IsFiniteSet(C)
      /\ Cardinality(A) \in Nat /\ Cardinality(B) \in Nat /\ Cardinality(C) \in Nat
  <2>1. ASSUME NEW i \in Int, NEW j \in Int
        PROVE  IsFiniteSet(Between(i, j)) /\ Cardinality(Between(i, j)) \in Nat
    BY BetweenSize, CarryAssumption
  <2> QED
    BY <1>1, <1>3, <2>1
<1>5. C = A \cup B /\ A \cap B = {}
  BY <1>1, <1>3 DEF Between, CarriedOK, Days
<1>6. Cardinality(C) = Cardinality(A) + Cardinality(B)
  <2>1. Cardinality(A \cup B) = Cardinality(A) + Cardinality(B) - Cardinality(A \cap B)
    BY <1>4, FS_Union
  <2> QED
    BY <1>4, <1>5, <2>1, FS_EmptySet
<1>7. schoolDaysAfter(c.through) \in Nat /\ schoolDaysAfter(c.through) <= Cardinality(B)
  BY <1>1, <1>3, SchoolDaysCounted DEF CarryInv
<1>8. c.followed \in Nat /\ c.followed <= Cardinality(A)
  BY <1>1, <1>3 DEF CarriedRec, CarriedOK
<1> QED
  BY <1>2, <1>3, <1>4, <1>6, <1>7, <1>8 DEF followed

\* The invariant gives the property.
LEMMA CarryInvSafe == CarryInv => CarrySafe
<1> SUFFICES ASSUME CarryInv PROVE CarryTypeOK
  BY DEF CarryInv, CarrySafe
<1>1. ASSUME NEW c \in pending
      PROVE  c.day \in Days /\ c.through \in c.day..today /\ c.followed \in 0..LastDay
  <2>1. c \in CarriedRec /\ CarriedOK(c)
    BY DEF CarryInv, CarryTypes
  <2>2. c.day \in Int /\ c.through \in Int /\ today \in Int
    BY <2>1, CarryAssumption DEF CarryInv, CarryTypes, CarriedRec, Days
  <2>3. Cardinality(Between(c.day, c.through)) \in 0..LastDay
    BY <2>2, BetweenSize
  <2> QED
    BY <2>1, <2>2, <2>3, CarryAssumption DEF CarriedRec, CarriedOK
<1> QED
  BY <1>1 DEF CarryInv, CarryTypes, CarryTypeOK, OnePerDay

\* Steps of the outside leave what is recorded; the calendar goes on.
LEMMA CarryOutside ==
  ASSUME CarryInv, NextDay \/ RollGrid \/ \E d \in Days, u, c \in BOOLEAN : Mark(d, u, c)
  PROVE  CarryInv'
<1>1. /\ UNCHANGED <<pending, journal, known, lastSeen, dropped, failures>>
      /\ today' \in Days /\ today <= today' /\ rolled' \in BOOLEAN /\ marks' \in Nat
  <2>1. today \in Days /\ today \in Int /\ LastDay \in Int /\ rolled \in BOOLEAN /\ marks \in Nat
    BY CarryAssumption DEF CarryInv, CarryTypes, Days
  <2>2. CASE NextDay
    BY <2>1, <2>2 DEF NextDay, Days
  <2>3. CASE RollGrid
    BY <2>1, <2>3 DEF RollGrid
  <2>4. CASE \E d \in Days, u, c \in BOOLEAN : Mark(d, u, c)
    BY <2>1, <2>4 DEF Mark
  <2> QED
    BY <2>2, <2>3, <2>4
<1>2. cell' \in [Days -> Cell] /\ CellsMet'
  <2>1. cell \in [Days -> Cell] /\ CellsMet
    BY DEF CarryInv, CarryTypes
  <2>2. CASE cell' = cell
    BY <2>1, <2>2 DEF CellsMet
  <2>3. CASE \E d \in Days, u, c \in BOOLEAN : Mark(d, u, c)
    <3>1. PICK d \in Days, u \in BOOLEAN, c \in BOOLEAN : Mark(d, u, c)
      BY <2>3
    <3>2. cell' = [cell EXCEPT ![d] = [[cell[d] EXCEPT !.unmarked = u] EXCEPT !.coded = c]]
      BY <2>1, <3>1 DEF Mark, Cell
    <3>3. /\ [[cell[d] EXCEPT !.unmarked = u] EXCEPT !.coded = c] \in Cell
          /\ [[cell[d] EXCEPT !.unmarked = u] EXCEPT !.coded = c].met = cell[d].met
      BY <2>1, <3>1 DEF Cell
    <3> QED
      BY <2>1, <3>2, <3>3 DEF CellsMet
  <2> QED
    BY <2>2, <2>3 DEF NextDay, RollGrid
<1>3. CarryTypes'
  BY <1>1, <1>2 DEF CarryInv, CarryTypes
<1>4. ASSUME NEW c \in pending PROVE CarriedOK(c)'
  <2>1. CarriedOK(c) /\ c.through \in Int /\ today \in Int /\ today' \in Int
    BY <1>1, CarryAssumption DEF CarryInv, CarryTypes, CarriedRec, Days
  <2> QED
    BY <1>1, <2>1 DEF CarriedOK, Between
<1>5. NoDayLost'
  <2>1. today \in Int /\ today' \in Int /\ known \subseteq Int
    BY <1>1, CarryAssumption DEF CarryInv, CarryTypes, Days
  <2> QED
    BY <1>1, <2>1, CarryAssumption DEF NoDayLost, CarryInv
<1> QED
  BY <1>1, <1>2, <1>3, <1>4, <1>5 DEF CarryInv, OnePerDay, NoStaleDay

\* What a poll hands over to the journal was coded when it was judged.
LEMMA EmitStep ==
  ASSUME CarryInv, Emit
  PROVE  /\ journal' \subseteq Days /\ lastSeen' \in [Days -> BOOLEAN]
         /\ failures = 0 => \A d \in journal' : lastSeen'[d]
         /\ \A d \in Days \ grid : lastSeen'[d] = lastSeen[d]
         /\ \A d \in journal : d \in journal' \/ (d \in complete /\ ~cell[d].coded)
<1>1. complete \subseteq Days /\ complete \subseteq grid /\ grid \subseteq Days
  BY DEF complete, grid
<1>2. \A c \in settledCarried : c \in pending /\ c.day \in Days /\ c.day \notin grid
  BY DEF settledCarried, offGrid, CarryInv, CarryTypes, CarriedRec
<1>3. journal' \subseteq Days
  BY <1>1, <1>2 DEF Emit, applied, records, CarryInv, CarryTypes
<1>4. lastSeen' \in [Days -> BOOLEAN]
  BY DEF Emit, CarryInv, CarryTypes, Cell
<1>5. \A d \in Days : lastSeen'[d] = IF d \in complete \/ (d \in grid /\ cell[d].coded)
                                     THEN cell[d].coded ELSE lastSeen[d]
  BY DEF Emit
<1>6. ASSUME failures = 0, NEW d \in journal' PROVE lastSeen'[d]
  <2>1. CASE d \in records
    BY <1>1, <1>5, <2>1 DEF records
  <2>2. CASE d \in journal \ complete
    <3>1. lastSeen[d] /\ d \in Days
      BY <1>6, <2>2 DEF CarryInv, NoStaleDay, CarryTypes
    <3> QED
      BY <1>5, <2>2, <3>1
  <2>3. CASE \E c \in settledCarried : c.day = d
    <3>1. d \in Days /\ d \notin grid /\ lastSeen[d]
      BY <1>2, <1>6, <2>3 DEF CarryInv, CarriedOK
    <3> QED
      BY <1>1, <1>5, <3>1
  <2> QED
    BY <2>1, <2>2, <2>3 DEF Emit, applied
<1>7. \A d \in Days \ grid : lastSeen'[d] = lastSeen[d]
  BY <1>1, <1>5
<1>8. \A d \in journal : d \in journal' \/ (d \in complete /\ ~cell[d].coded)
  BY DEF Emit, applied, records
<1> QED
  BY <1>3, <1>4, <1>6, <1>7, <1>8

\* A poll that is not saved: the carried days are those of the poll before.
LEMMA EmitOnlyStep == ASSUME CarryInv, EmitOnly PROVE CarryInv'
<1>1. /\ Emit /\ known' = known \ {d \in complete : ~cell[d].coded}
      /\ UNCHANGED <<today, rolled, cell, pending, dropped, marks>>
      /\ failures' \in Nat /\ failures' # 0
  BY DEF EmitOnly, CarryInv, CarryTypes
<1>2. CarryTypes'
  BY <1>1, EmitStep DEF CarryInv, CarryTypes
<1>3. NoDayLost'
  BY <1>1, EmitStep DEF CarryInv, NoDayLost
<1>4. \A c \in pending : CarriedOK(c)'
  BY <1>1 DEF CarryInv, CarriedOK, Between
<1> QED
  BY <1>1, <1>2, <1>3, <1>4 DEF CarryInv, NoStaleDay, OnePerDay, CellsMet

\* The carried days of a saved poll: those of the grid, and the old ones.
LEMMA SavedDays ==
  ASSUME CarryInv, NEW c \in pendingOf \cup carryOn
  PROVE  /\ c \in CarriedRec /\ c.through = today /\ c.day <= today
         /\ c.followed <= Cardinality(Between(c.day, today))
         /\ \/ c \in pendingOf /\ c.day \in grid /\ cell[c.day].coded
            \/ c \in carryOn /\ c.day \notin grid /\ \E b \in pending : c.day = b.day
<1>1. today \in Days /\ today \in Int /\ cell \in [Days -> Cell] /\ CarryTypes /\ CellsMet
  BY CarryAssumption DEF CarryInv, CarryTypes, Days
<1>2. CASE c \in pendingOf
  <2>1. PICK d \in {e \in grid \ complete : cell[e].coded /\ e <= today} :
          c = [day |-> d, unmarked |-> cell[d].unmarked, followed |-> schoolDaysAfter(d), through |-> today]
    BY <1>2 DEF pendingOf
  <2>2. d \in Days /\ d \in grid /\ cell[d].unmarked \in BOOLEAN
    BY <1>1, <2>1 DEF grid, Cell
  <2>3. schoolDaysAfter(d) \in Nat /\ schoolDaysAfter(d) <= Cardinality(Between(d, today))
    BY <1>1, <2>2, SchoolDaysCounted
  <2> QED
    BY <1>1, <1>2, <2>1, <2>2, <2>3 DEF CarriedRec
<1>3. CASE c \in carryOn
  <2>1. PICK b \in offGrid :
          c = [b EXCEPT !.followed = followed(b), !.through = later(b.through, today)]
    BY <1>3 DEF carryOn
  <2>2. b \in pending /\ b \in CarriedRec /\ b.day \notin grid /\ CarriedOK(b)
    BY <2>1 DEF offGrid, CarryInv, CarryTypes
  <2>3. /\ followed(b) \in Nat /\ followed(b) <= Cardinality(Between(b.day, today))
        /\ later(b.through, today) = today
    BY <2>2, FollowedBounded
  <2>4. c = [b EXCEPT !.followed = followed(b), !.through = today]
    BY <2>1, <2>3
  <2>5. c \in CarriedRec /\ c.day = b.day /\ c.through = today /\ c.followed = followed(b)
    BY <1>1, <2>2, <2>3, <2>4 DEF CarriedRec
  <2>6. b.day <= today
    BY <1>1, <2>2, CarryAssumption DEF CarriedOK, CarriedRec, Days
  <2> QED
    BY <1>3, <2>2, <2>3, <2>5, <2>6
<1> QED
  BY <1>2, <1>3

LEMMA SavedOnePerDay ==
  ASSUME CarryInv, NEW b \in pendingOf \cup carryOn, NEW c \in pendingOf \cup carryOn, b.day = c.day
  PROVE  b = c
<1>1. CASE b \in pendingOf /\ c \in pendingOf
  BY <1>1 DEF pendingOf
<1>2. CASE b \in carryOn /\ c \in carryOn
  <2>1. PICK x \in offGrid, y \in offGrid :
          /\ b = [x EXCEPT !.followed = followed(x), !.through = later(x.through, today)]
          /\ c = [y EXCEPT !.followed = followed(y), !.through = later(y.through, today)]
    BY <1>2 DEF carryOn
  <2>2. x \in pending /\ y \in pending /\ x \in CarriedRec /\ y \in CarriedRec
    BY <2>1 DEF offGrid, CarryInv, CarryTypes
  <2>3. x.day = y.day
    BY <2>1, <2>2 DEF CarriedRec
  <2> QED
    BY <2>1, <2>2, <2>3 DEF CarryInv, OnePerDay
<1> QED
  BY <1>1, <1>2, SavedDays

\* A poll that is saved.
LEMMA SavedStep == ASSUME CarryInv, emitKidRecords PROVE CarryInv'
<1>1. /\ Emit /\ pending' = pendingOf \cup carryOn
      /\ dropped' = dropped \cup {c.day : c \in {b \in offGrid : expired(b)}}
      /\ known' = (known \ grid) \cup {d \in grid : cell[d].coded /\ d <= today}
      /\ UNCHANGED <<today, rolled, cell, marks, failures>>
  BY DEF emitKidRecords, savePendingDays
<1>2. CarryTypes'
  <2>1. \A c \in offGrid : c.day \in Days
    BY DEF offGrid, CarryInv, CarryTypes, CarriedRec
  <2>2. grid \subseteq Days
    BY DEF grid
  <2>3. pending' \subseteq CarriedRec
    BY <1>1, SavedDays
  <2> QED
    BY <1>1, <2>1, <2>2, <2>3, EmitStep DEF CarryInv, CarryTypes
<1>3. ASSUME NEW c \in pending' PROVE CarriedOK(c)'
  <2>1. c \in pendingOf \cup carryOn
    BY <1>1
  <2>2. /\ c \in CarriedRec /\ c.through = today /\ c.day <= today /\ today \in Int
        /\ c.followed <= Cardinality(Between(c.day, c.through))
    BY <2>1, SavedDays, CarryAssumption DEF CarryInv, CarryTypes, Days
  <2>3. ASSUME failures = 0 PROVE lastSeen'[c.day]
    <3>1. CASE c.day \in grid /\ cell[c.day].coded
      BY <1>1, <2>2, <3>1 DEF Emit, CarriedRec
    <3>2. CASE c.day \notin grid /\ \E b \in pending : c.day = b.day
      <4>1. lastSeen[c.day]
        BY <2>3, <3>2 DEF CarryInv, CarriedOK
      <4> QED
        BY <1>1, <2>2, <3>2, <4>1, EmitStep DEF CarriedRec
    <3> QED
      BY <2>1, <3>1, <3>2, SavedDays
  <2> QED
    BY <1>1, <2>2, <2>3 DEF CarriedOK, Between
<1>4. OnePerDay'
  BY <1>1, SavedOnePerDay DEF OnePerDay
<1>5. ASSUME NEW d \in known'
      PROVE  d \in journal' \/ (\E c \in pending' : c.day = d) \/ (d \in dropped' /\ d + CarryMax < today)
  <2>1. CASE d \in grid /\ cell[d].coded /\ d <= today
    <3>1. CASE d \in complete
      BY <1>1, <2>1, <3>1 DEF Emit, applied, records
    <3>2. CASE d \notin complete
      <4>1. [day |-> d, unmarked |-> cell[d].unmarked, followed |-> schoolDaysAfter(d),
             through |-> today] \in pendingOf
        BY <2>1, <3>2 DEF pendingOf
      <4> QED
        BY <1>1, <4>1
    <3> QED
      BY <3>1, <3>2
  <2>2. CASE d \in known /\ d \notin grid
    <3>1. CASE d \in journal
      BY <1>1, <2>2, <3>1, EmitStep DEF complete
    <3>2. CASE d \in dropped /\ d + CarryMax < today
      BY <1>1, <3>2
    <3>3. CASE \E c \in pending : c.day = d
      <4>1. PICK c \in offGrid : c.day = d
        BY <2>2, <3>3 DEF offGrid
      <4>2. CASE expired(c)
        BY <1>1, <4>1, <4>2 DEF expired
      <4>3. CASE c \in settledCarried
        BY <1>1, <4>1, <4>3 DEF Emit, applied
      <4>4. CASE ~expired(c) /\ c \notin settledCarried
        <5>1. [c EXCEPT !.followed = followed(c), !.through = later(c.through, today)] \in carryOn
          BY <4>1, <4>4 DEF carryOn
        <5>2. c \in CarriedRec
          BY <4>1 DEF offGrid, CarryInv, CarryTypes
        <5>3. [c EXCEPT !.followed = followed(c), !.through = later(c.through, today)].day = d
          BY <4>1, <5>2 DEF CarriedRec
        <5> QED
          BY <1>1, <5>1, <5>3
      <4> QED
        BY <4>2, <4>3, <4>4
    <3> QED
      BY <2>2, <3>1, <3>2, <3>3 DEF CarryInv, NoDayLost
  <2> QED
    BY <1>1, <2>1, <2>2
<1>6. NoDayLost'
  BY <1>1, <1>5 DEF NoDayLost
<1> QED
  BY <1>1, <1>2, <1>3, <1>4, <1>6, EmitStep DEF CarryInv, NoStaleDay, CellsMet

LEMMA CarryStep == ASSUME CarryInv, [CarryNext]_carryVars PROVE CarryInv'
<1>1. CASE UNCHANGED carryVars
  BY <1>1 DEF carryVars, CarryInv, CarryTypes, CellsMet, OnePerDay, NoDayLost, NoStaleDay,
              CarriedOK, Between
<1> QED
  BY <1>1, CarryOutside, EmitOnlyStep, SavedStep DEF CarryNext

LEMMA CarryStart == CarryInit => CarryInv
<1> SUFFICES ASSUME CarryInit PROVE CarryInv
  OBVIOUS
<1>1. \A d \in Days : [met |-> d \notin NoSchool, unmarked |-> d \notin NoSchool,
                        coded |-> FALSE] \in Cell
  BY DEF Cell
<1>2. cell \in [Days -> Cell]
  BY <1>1 DEF CarryInit
<1>3. CellsMet
  BY DEF CarryInit, CellsMet
<1>4. today \in Days
  BY CarryAssumption DEF CarryInit, Days
<1>5. CarryTypes
  BY <1>2, <1>4 DEF CarryInit, CarryTypes
<1> QED
  BY <1>3, <1>5 DEF CarryInit, CarryInv, OnePerDay, NoDayLost, NoStaleDay

\* The end of a term loses no coded day and brings none back over a
\* correction, for any calendar, number of days, settling and carrying time,
\* marks and failed saves (pendingDays, carriedDays, savePendingDays).
THEOREM CarryIsKept == MCSpec => []CarryKept
<1>1. MCInit => CarryInv
  BY CarryStart DEF MCInit
<1>2. CarryInv /\ [MCNext]_<<gateVars, vars, carryVars, pollVars, part>> => CarryInv'
  BY CarryStep DEF MCNext
<1>3. CarryInv => CarryKept
  BY CarryInvSafe DEF CarryKept
<1> QED
  BY <1>1, <1>2, <1>3, PTL DEF MCSpec

\* A day enters the journal settled, on the strength of school days that
\* really followed it (isSettled, carriedDays).
LEMMA EntersSettled ==
  ASSUME CarryInv, Emit, NEW d \in journal' \ journal
  PROVE  /\ d < today
         /\ \/ d \in grid /\ (cell[d].unmarked => reallyAfter(d) >= Settle)
            \/ \E c \in pending : c.day = d /\ (c.unmarked => reallyAfter(d) >= Settle)
<1>1. today \in Int /\ CarryTypes /\ CellsMet /\ Settle \in Nat
  BY CarryAssumption DEF CarryInv, CarryTypes, Days
<1>2. ASSUME NEW e \in Days
      PROVE  reallyAfter(e) = Cardinality(Between(e, today)) /\ reallyAfter(e) \in Nat
  <2>1. {f \in Days : f > e /\ f <= today /\ cell[f].met} = Between(e, today)
    BY <1>1 DEF CellsMet, Between, Days
  <2>2. e \in Int
    BY <1>2 DEF Days
  <2>3. Cardinality(Between(e, today)) \in Nat
    BY <1>1, <2>2, BetweenSize
  <2> QED
    BY <2>1, <2>3 DEF reallyAfter
<1>3. CASE d \in records
  <2>1. d \in grid /\ d \in Days /\ settled(d)
    BY <1>3 DEF records, complete, grid, Days
  <2>2. schoolDaysAfter(d) \in Nat /\ schoolDaysAfter(d) <= Cardinality(Between(d, today))
    BY <1>1, <2>1, SchoolDaysCounted
  <2>3. cell[d].unmarked => reallyAfter(d) >= Settle
    BY <1>1, <1>2, <2>1, <2>2 DEF settled, isSettled
  <2> QED
    BY <2>1, <2>3 DEF settled, isSettled
<1>4. CASE \E c \in settledCarried : c.day = d
  <2>1. PICK c \in settledCarried : c.day = d
    BY <1>4
  <2>2. c \in pending /\ d \in Days /\ isSettled(d, c.unmarked, followed(c))
    BY <1>1, <2>1 DEF settledCarried, offGrid, CarryTypes, CarriedRec
  <2>3. followed(c) \in Nat /\ followed(c) <= Cardinality(Between(d, today))
    BY <2>1, <2>2, FollowedBounded
  <2>4. c.unmarked => reallyAfter(d) >= Settle
    BY <1>1, <1>2, <2>2, <2>3 DEF isSettled
  <2> QED
    BY <2>1, <2>2, <2>4 DEF isSettled
<1> QED
  BY <1>3, <1>4 DEF Emit, applied

\* No unsettled day enters the journal, and the school days that settle a
\* carried one are counted over both terms, each once.
THEOREM DaysEnterSettled == MCSpec => EnteredSettled
<1> DEFINE Body == \A d \in journal' \ journal :
       /\ d < today
       /\ \/ d \in grid /\ (cell[d].unmarked => reallyAfter(d) >= Settle)
          \/ \E c \in pending : c.day = d /\ (c.unmarked => reallyAfter(d) >= Settle)
<1>1. CarryInv /\ [MCNext]_<<gateVars, vars, carryVars, pollVars, part>> => [Body]_carryVars
  <2> SUFFICES ASSUME CarryInv, CarryNext PROVE Body \/ UNCHANGED carryVars
    BY DEF MCNext
  <2>1. CASE Emit
    BY <2>1, EntersSettled
  <2>2. CASE journal' = journal
    BY <2>2
  <2> QED
    BY <2>1, <2>2 DEF CarryNext, NextDay, RollGrid, Mark, emitKidRecords, EmitOnly
<1>2. MCInit => CarryInv
  BY CarryStart DEF MCInit
<1>3. CarryInv /\ [MCNext]_<<gateVars, vars, carryVars, pollVars, part>> => CarryInv'
  BY CarryStep DEF MCNext
<1> QED
  BY <1>1, <1>2, <1>3, PTL DEF MCSpec, EnteredSettled

-----------------------------------------------------------------------------
(* The turns of the kids.                                                   *)

Entries == Students \X (1..(MaxChanges + 1))
InTurn == pc \in {"read", "confirm", "stage", "stamp"}

TurnTypes ==
  /\ portal \in [Students -> [Keys -> 1..(MaxChanges + 1)]]
  /\ sel \in Students /\ ki \in 1..Len(KidOrder)
  /\ fp \in [Kids -> [Keys -> Entries \cup {None}]]
  /\ page \in [Keys -> Entries \cup {None}]
  /\ learned \in [Kids -> Students \cup {None}] /\ seen \in Students \cup {None}
  /\ stamped \subseteq Kids \X Timed /\ noted \subseteq Timed /\ lists \subseteq Kids
  /\ pc \in {"idle", "select", "read", "confirm", "stage", "stamp", "end", "stopped"}
  /\ at \in 1..7 /\ (pc = "read" => at <= 6)
  /\ cfg \in [bound : SUBSET Kids, assignments : BOOLEAN, extras : BOOLEAN]
  /\ poll \in [read : Nat, auth : BOOLEAN, renewed : BOOLEAN]
  /\ clean \in BOOLEAN

\* What is counted: versions by the changes, failed polls by the polls.
Counts ==
  /\ count \in [polls : 0..MaxPolls, changes : 0..MaxChanges, switches : Nat, faults : Nat]
  /\ \A s \in Students, x \in Keys : portal[s][x] <= count.changes + 1
  /\ failed \in 0..count.polls /\ (pc \notin {"idle", "stopped"} => failed < count.polls)
  /\ away \in Nat

\* A turn that is over has left nothing in memory.
Discarded == ~InTurn => page = NoPage /\ noted = {} /\ seen = None

\* What the turn has read: the home and extra pages are the kid's, the scores
\* pages are all of one student, who is nobody else's and, if the kid is bound,
\* the one it is bound to.
PagesOwn ==
  /\ \A x \in Keys \ CourseKeys : page[x] # None => page[x][1] = kid
  /\ \A x \in CourseKeys : page[x] # None => seen # None /\ page[x][1] = seen
  /\ seen # None => seen \notin others /\ (boundAPIID(kid) # None => seen = boundAPIID(kid))
  /\ pc \in {"stage", "stamp"} /\ seen # None => boundAPIID(kid) = seen

\* A fingerprint is of the student the kid's entry is always about, and of a
\* version that was on the portal.
FingerprintsOwn ==
  \A k \in Kids, x \in Keys : fp[k][x] # None =>
    /\ fp[k][x][1] = (IF x \in CourseKeys THEN boundAPIID(k) ELSE k)
    /\ fp[k][x][2] <= portal[fp[k][x][1]][x]

\* What was read is no older than the fingerprint.
PagesNew ==
  \A x \in Keys : page[x] # None =>
    /\ page[x][2] <= portal[page[x][1]][x]
    /\ fp[kid][x] # None => fp[kid][x][2] <= page[x][2]

BindInv == Discarded /\ PagesOwn /\ FingerprintsOwn /\ PagesNew /\ NoSharedBinding

\* Delivered and not yet in the fingerprint: each such entry may be delivered
\* once more, and each was paid for by a fault.
Debt == {it \in staged : fp[it[1]][it[2]] = None \/ fp[it[1]][it[2]][2] < it[4]}

StagedInv ==
  /\ staged \subseteq Kids \X Keys \X Students \X (1..(MaxChanges + 1))
  /\ IsFiniteSet(staged) /\ dups \in Nat
  /\ OwnStudent /\ NoChangePassedOver
  /\ dups + Cardinality(Debt) <= count.faults

\* What a poll that nothing has disturbed has done so far.
CaughtUpOn(k, x) ==
  \/ ~shown(x)
  \/ fp[k][x] = <<k, portal[k][x]>>
  \/ x = "attendance" /\ <<k, x>> \in Quiet /\ fp[k][x] = None
CaughtUp(k) == (cfg.assignments /\ misled(k)) \/ \A x \in Keys : CaughtUpOn(k, x)
Got(x) == IF x = "comment_list" THEN cfg.extras => x \in noted ELSE shown(x) => page[x] # None

\* The kids before this one are caught up, and the rest are all due.
Ahead ==
  /\ \A j \in 1..(ki - 1) : CaughtUp(KidOrder[j])
  /\ \A j \in ki..Len(KidOrder), x \in Timed : <<KidOrder[j], x>> \notin stamped

\* Nobody switched away: the pages are the kid's and of its present entries.
Undisturbed ==
  /\ sel = kid /\ seen \in {None, kid}
  /\ \A x \in HomeKeys : page[x] # None
  /\ \A x \in Keys : page[x] # None => page[x] = <<kid, portal[kid][x]>>

CleanInv ==
  clean =>
    /\ pc \in {"idle", "stopped", "end"} => \A k \in Kids : CaughtUp(k)
    /\ pc \notin {"idle", "stopped"} => ~poll.auth
    /\ pc = "select" \/ InTurn => Ahead
    /\ InTurn => Undisturbed
    /\ pc = "read" => \A i \in 1..(at - 1) : Got(Reads[i])
    /\ pc \in {"confirm", "stage", "stamp"} => \A x \in Keys : Got(x)
    /\ pc = "stage" => \A i \in 1..(at - 1) : CaughtUpOn(kid, StageOrder[i])
    /\ pc = "stamp" => \A x \in Keys : CaughtUpOn(kid, x)

TurnInv == TurnTypes /\ Counts /\ BindInv /\ StagedInv /\ CleanInv

LEMMA TurnFacts ==
  ASSUME TurnTypes
  PROVE  /\ kid \in Kids /\ kid \in Students /\ Len(KidOrder) \in Nat \ {0}
         /\ None \notin Students /\ None \notin Entries
         /\ \A s \in Students, x \in Keys : <<s, portal[s][x]>> \in Entries
         /\ NoPage \in [Keys -> Entries \cup {None}]
         /\ \A x \in Keys : NoPage[x] = None
<1>1. Len(KidOrder) \in Nat \ {0} /\ KidOrder \in [1..Len(KidOrder) -> Kids]
  BY TurnAssumption
<1>2. kid \in Kids
  BY <1>1 DEF TurnTypes, kid
<1>3. None \notin Entries
  BY TurnAssumption DEF Entries, Students
<1>4. \A s \in Students, x \in Keys : <<s, portal[s][x]>> \in Entries
  BY DEF TurnTypes, Entries
<1> QED
  BY <1>1, <1>2, <1>3, <1>4, TurnAssumption DEF Students, NoPage

LEMMA EndTurnEffect ==
  ASSUME TurnTypes, NEW how, EndTurn(how)
  PROVE  /\ page' = NoPage /\ noted' = {} /\ seen' = None /\ at' = 1
         /\ ki' \in 1..Len(KidOrder) /\ poll' \in [read : Nat, auth : BOOLEAN, renewed : BOOLEAN]
         /\ poll'.auth <=> how = "auth"
         /\ \/ pc' = "select" /\ ki' = ki + 1 /\ how \in {"read", "kid"}
            \/ pc' = "end" /\ ki' = ki /\ (how \in {"read", "kid"} => ki = Len(KidOrder))
<1>1. Len(KidOrder) \in Nat /\ ki \in 1..Len(KidOrder)
  BY TurnFacts DEF TurnTypes
<1>2. poll \in [read : Nat, auth : BOOLEAN, renewed : BOOLEAN]
  BY DEF TurnTypes
<1>3. poll' = [poll EXCEPT !.read = IF how = "read" THEN @ + 1 ELSE @, !.auth = how = "auth"]
  BY DEF EndTurn
<1>4. /\ poll' \in [read : Nat, auth : BOOLEAN, renewed : BOOLEAN]
      /\ poll'.auth <=> how = "auth"
  <2>1. PICK b \in BOOLEAN : b = (how = "auth")
    OBVIOUS
  <2>2. PICK n \in Nat : n = IF how = "read" THEN poll.read + 1 ELSE poll.read
    BY <1>2
  <2>3. poll' = [poll EXCEPT !.read = n, !.auth = b]
    BY <1>2, <1>3, <2>1, <2>2
  <2>4. poll' \in [read : Nat, auth : BOOLEAN, renewed : BOOLEAN] /\ poll'.auth = b
    BY <1>2, <2>1, <2>2, <2>3
  <2> QED
    BY <2>1, <2>4
<1> QED
  BY <1>1, <1>4 DEF EndTurn

LEMMA NextReadEffect ==
  ASSUME TurnTypes, pc = "read", NextRead
  PROVE  \/ at < 6 /\ at' = at + 1 /\ pc' = "read"
         \/ at = 6 /\ at' = 1 /\ pc' = "confirm"
BY DEF TurnTypes, NextRead, Reads

LEMMA NextStageEffect ==
  ASSUME TurnTypes, NextStage
  PROVE  \/ at < 7 /\ at' = at + 1 /\ pc' = "stage"
         \/ at = 7 /\ at' = 1 /\ pc' = "stamp"
BY DEF TurnTypes, NextStage, StageOrder

\* A read step gives the turn up, goes on without a page, or adds one page.
LEMMA ReadCases ==
  ASSUME TurnTypes, readStep
  PROVE  /\ pc = "read"
         /\ UNCHANGED <<portal, cfg, sel, fp, learned, stamped, lists, failed, staged, dups, away,
                        clean, count>>
         /\ \/ /\ EndTurn("kid") /\ wanted(Reads[at])
               /\ IF Reads[at] \in CourseKeys THEN ~bindingCheck(sel) ELSE sel # kid
            \/ NextRead /\ UNCHANGED <<ki, poll, page, noted, seen>> /\ ~wanted(Reads[at])
            \/ /\ NextRead /\ UNCHANGED <<ki, poll>>
               /\ Reads[at] \notin CourseKeys /\ sel = kid /\ seen' = seen
               /\ noted' = noted \cup (IF Reads[at] \in Timed THEN {Reads[at]} ELSE {})
               /\ \/ Reads[at] # "comment_list"
                     /\ page' = [page EXCEPT ![Reads[at]] = <<sel, portal[sel][Reads[at]]>>]
                  \/ Reads[at] = "comment_list" /\ page' = page
                  \/ Reads[at] = "comment_list"
                     /\ page' = [page EXCEPT !["comment"] = <<sel, portal[sel]["comment"]>>]
            \/ /\ NextRead /\ UNCHANGED <<ki, poll, noted>>
               /\ Reads[at] \in CourseKeys /\ bindingCheck(sel)
               /\ seen' = (IF seen = None THEN sel ELSE seen)
               /\ page' = [page EXCEPT ![Reads[at]] = <<sel, portal[sel][Reads[at]]>>]
<1>1. /\ pc = "read"
      /\ UNCHANGED <<portal, cfg, sel, fp, learned, stamped, lists, failed, staged, dups, away,
                     clean, count>>
  BY DEF readStep, world, checkpoint, hist
<1>2. PICK x : x = Reads[at]
  OBVIOUS
<1>3. CASE Skip(x)
  BY <1>1, <1>2, <1>3 DEF Skip
<1>4. CASE ReadExtra(x)
  BY <1>1, <1>2, <1>4 DEF ReadExtra
<1>5. CASE ReadCourse(x)
  BY <1>1, <1>2, <1>5 DEF ReadCourse
<1> QED
  BY <1>2, <1>3, <1>4, <1>5 DEF readStep

\* A step of Reads is an entry of the page or the list of comment terms.
LEMMA ReadsAt ==
  ASSUME TurnTypes, pc = "read"
  PROVE  Reads[at] \in (Keys \ HomeKeys) \cup {"comment_list"}
<1>1. at \in 1..6
  BY DEF TurnTypes
<1>2. \A i \in 1..6 : Reads[i] \in (Keys \ HomeKeys) \cup {"comment_list"}
  BY DEF Reads, Keys, HomeKeys, CourseKeys, ExtraKeys
<1> QED
  BY <1>1, <1>2

LEMMA StageOrderAt ==
  /\ \A i \in 1..7 : StageOrder[i] \in Keys
  /\ \A x \in Keys : \E i \in 1..7 : StageOrder[i] = x
<1>1. \A i \in 1..7 : StageOrder[i] \in Keys
  BY DEF StageOrder, Keys, HomeKeys, CourseKeys, ExtraKeys
<1>2. ASSUME NEW x \in Keys PROVE \E i \in 1..7 : StageOrder[i] = x
  <2>1. /\ StageOrder[1] = "grade" /\ StageOrder[2] = "attendance" /\ StageOrder[3] = "course1"
        /\ StageOrder[4] = "course2" /\ StageOrder[5] = "term_grade"
        /\ StageOrder[6] = "attendance_day" /\ StageOrder[7] = "comment"
    BY DEF StageOrder
  <2>2. x \in {"grade", "attendance", "course1", "course2", "term_grade", "attendance_day", "comment"}
    BY DEF Keys, HomeKeys, CourseKeys, ExtraKeys
  <2> QED
    BY <2>1, <2>2
<1> QED
  BY <1>1, <1>2

\* What handling an entry changes: it is left, taken as known, or delivered,
\* and the fingerprint saved unless that failed.
LEMMA StageCases ==
  ASSUME TurnTypes, stageStep
  PROVE  /\ pc = "stage" /\ NextStage
         /\ UNCHANGED <<portal, cfg, sel, learned, stamped, lists, ki, page, noted, seen, poll,
                        failed, away>>
         /\ \E x \in Keys :
              /\ x = StageOrder[at]
              /\ \/ leave(x) /\ (~changed(x) \/ (x = "attendance" /\ oldNews(x)))
                 \/ /\ changed(x) /\ baseline(x) /\ <<page[x][1], x>> \in Quiet
                    /\ x \in CourseKeys \cup {"term_grade", "attendance_day"}
                 \/ changed(x) /\ stage(x)
<1>1. /\ pc = "stage" /\ NextStage /\ stageEntry(StageOrder[at])
      /\ UNCHANGED <<portal, cfg, sel, learned, stamped, lists, ki, page, noted, seen, poll,
                     failed, away>>
  BY DEF stageStep, stageSteps, world, turn
<1>2. PICK x \in Keys : x = StageOrder[at]
  BY StageOrderAt DEF TurnTypes
<1>3. stageEntry(x)
  BY <1>1, <1>2
<1>4. \/ leave(x) /\ (~changed(x) \/ (x = "attendance" /\ oldNews(x)))
      \/ /\ changed(x) /\ baseline(x) /\ (oldNews(x) \/ descriptionOnly(x))
         /\ x \in CourseKeys \cup {"term_grade", "attendance_day"}
      \/ changed(x) /\ stage(x)
  BY <1>3 DEF stageEntry, ProcessGrades, ProcessAttendance, stageAssignments, ProcessTermGrades,
              ProcessAttendanceDays, ProcessTeacherComments
<1>5. oldNews(x) \/ descriptionOnly(x) => <<page[x][1], x>> \in Quiet
  BY DEF oldNews, descriptionOnly
<1> QED
  BY <1>1, <1>2, <1>4, <1>5

CountRec == [polls : 0..MaxPolls, changes : 0..MaxChanges, switches : Nat, faults : Nat]

LEMMA FaultEffect ==
  ASSUME count \in CountRec, clean \in BOOLEAN, NEW n \in {0, 1}, Fault(n)
  PROVE  /\ count' \in CountRec /\ count'.polls = count.polls /\ count'.changes = count.changes
         /\ count'.faults = count.faults + n
         /\ clean' \in BOOLEAN /\ (clean' => clean /\ n = 0)
<1>1. count' = [count EXCEPT !.faults = count.faults + n] /\ clean' = (clean /\ n = 0)
  BY DEF Fault, CountRec
<1>2. /\ count' \in CountRec /\ count'.polls = count.polls /\ count'.changes = count.changes
      /\ count'.faults = count.faults + n
  BY <1>1 DEF CountRec
<1>3. clean' \in BOOLEAN /\ (clean' => clean /\ n = 0)
  BY <1>1
<1> QED
  BY <1>2, <1>3

LEMMA SaveEffect ==
  ASSUME TurnTypes, NEW x \in Keys, Save(x)
  PROVE  /\ fp' \in [Kids -> [Keys -> Entries \cup {None}]] /\ fp'[kid][x] = page[x]
         /\ \A k \in Kids, y \in Keys : fp'[k][y] = IF k = kid /\ y = x THEN page[x] ELSE fp[k][y]
<1>1. kid \in Kids
  BY TurnFacts
<1>2. fp \in [Kids -> [Keys -> Entries \cup {None}]] /\ page[x] \in Entries \cup {None}
  BY DEF TurnTypes
<1>3. fp' = [fp EXCEPT ![kid] = [fp[kid] EXCEPT ![x] = page[x]]]
  BY <1>1, <1>2 DEF Save
<1>4. PICK g : g = [fp[kid] EXCEPT ![x] = page[x]]
  OBVIOUS
<1>5. /\ g \in [Keys -> Entries \cup {None}] /\ g[x] = page[x]
      /\ \A y \in Keys : g[y] = IF y = x THEN page[x] ELSE fp[kid][y]
  BY <1>1, <1>2, <1>4
<1>6. fp' = [fp EXCEPT ![kid] = g]
  BY <1>3, <1>4
<1> QED
  BY <1>1, <1>2, <1>5, <1>6

\* The steps of staging, in terms of faults, fingerprints and deliveries.
LEMMA StageEffect ==
  ASSUME TurnTypes, count \in CountRec, stageStep
  PROVE  \E x \in Keys, n \in {0, 1} :
           /\ x = StageOrder[at] /\ Fault(n)
           /\ \/ /\ UNCHANGED <<fp, staged, dups>>
                 /\ n = 1 \/ ~changed(x) \/ (x = "attendance" /\ oldNews(x))
              \/ /\ changed(x) /\ Save(x) /\ n = 0 /\ UNCHANGED <<staged, dups>>
                 /\ <<page[x][1], x>> \in Quiet
                 /\ x \in CourseKeys \cup {"term_grade", "attendance_day"}
              \/ changed(x) /\ Deliver(x) /\ Save(x) /\ n = 0
              \/ changed(x) /\ Deliver(x) /\ UNCHANGED fp /\ n = 1
<1>1. PICK x \in Keys :
              /\ x = StageOrder[at]
              /\ \/ leave(x) /\ (~changed(x) \/ (x = "attendance" /\ oldNews(x)))
                 \/ /\ changed(x) /\ baseline(x) /\ <<page[x][1], x>> \in Quiet
                    /\ x \in CourseKeys \cup {"term_grade", "attendance_day"}
                 \/ changed(x) /\ stage(x)
  BY StageCases
<1>2. CASE leave(x) /\ (~changed(x) \/ (x = "attendance" /\ oldNews(x)))
  BY <1>1, <1>2 DEF leave, hist
<1>3. CASE /\ changed(x) /\ baseline(x) /\ <<page[x][1], x>> \in Quiet
           /\ x \in CourseKeys \cup {"term_grade", "attendance_day"}
  BY <1>1, <1>3 DEF baseline, hist
<1>4. CASE changed(x) /\ stage(x)
  BY <1>1, <1>4 DEF stage, hist
<1> QED
  BY <1>1, <1>2, <1>3, <1>4

\* Every step keeps the types and what is counted.
LEMMA TypesStep == ASSUME TurnTypes, Counts, TurnNext PROVE TurnTypes' /\ Counts'
<1>1. /\ count \in CountRec /\ failed \in 0..count.polls /\ away \in Nat /\ at \in 1..7
      /\ MaxPolls \in Nat /\ MaxChanges \in Nat
      /\ \A s \in Students, x \in Keys : portal[s][x] <= count.changes + 1
  BY TurnAssumption DEF TurnTypes, Counts, CountRec
<1>2. ASSUME NEW s \in Students, SwitchStudent(s) PROVE TurnTypes' /\ Counts'
  <2>1. count' = [count EXCEPT !.switches = count.switches + 1] /\ sel' = s /\ clean' = FALSE /\ away' = away + 1
    BY <1>1, <1>2 DEF SwitchStudent, CountRec
  <2>2. UNCHANGED <<portal, cfg, fp, learned, stamped, lists, pc, at, ki, page, noted, seen, poll, failed>>
    BY <1>2 DEF SwitchStudent, world, checkpoint, turn
  <2>3. TurnTypes'
    BY <2>1, <2>2 DEF TurnTypes
  <2>4. Counts'
    BY <1>1, <2>1, <2>2 DEF Counts, CountRec
  <2> QED
    BY <2>3, <2>4
<1>3. ASSUME NEW s \in Students, NEW x \in Keys, ChangeEntry(s, x) PROVE TurnTypes' /\ Counts'
  <2>1. /\ count' = [count EXCEPT !.changes = count.changes + 1] /\ clean' = FALSE
        /\ portal' = [portal EXCEPT ![s] = [portal[s] EXCEPT ![x] = portal[s][x] + 1]]
        /\ count.changes < MaxChanges
    BY <1>1, <1>3 DEF ChangeEntry, CountRec, TurnTypes
  <2>2. UNCHANGED <<cfg, sel, fp, learned, stamped, lists, pc, at, ki, page, noted, seen, poll, failed, away>>
    BY <1>3 DEF ChangeEntry, checkpoint, turn
  <2>3. PICK g : g = [portal[s] EXCEPT ![x] = portal[s][x] + 1]
    OBVIOUS
  <2>4. portal[s] \in [Keys -> 1..(MaxChanges + 1)] /\ portal[s][x] <= count.changes + 1
    BY <1>1 DEF TurnTypes
  <2>5. /\ g \in [Keys -> 1..(MaxChanges + 1)]
        /\ \A y \in Keys : g[y] <= count.changes + 2
    <3>1. portal[s][x] + 1 \in 1..(MaxChanges + 1)
      BY <1>1, <2>1, <2>4 DEF CountRec
    <3> QED
      BY <1>1, <2>1, <2>3, <2>4, <3>1 DEF CountRec
  <2>6. portal' = [portal EXCEPT ![s] = g] /\ portal \in [Students -> [Keys -> 1..(MaxChanges + 1)]]
    BY <2>1, <2>3 DEF TurnTypes
  <2>7. portal' \in [Students -> [Keys -> 1..(MaxChanges + 1)]]
    BY <2>5, <2>6
  <2>8. count' \in CountRec /\ count'.changes = count.changes + 1 /\ count'.polls = count.polls
    BY <1>1, <2>1 DEF CountRec
  <2>9. ASSUME NEW r \in Students, NEW y \in Keys PROVE portal'[r][y] <= count'.changes + 1
    <3>1. CASE r = s
      BY <1>1, <2>5, <2>6, <2>8, <3>1 DEF CountRec
    <3>2. CASE r # s
      <4>1. portal'[r][y] = portal[r][y] /\ portal[r][y] \in Int
        BY <2>6, <3>2
      <4> QED
        BY <1>1, <2>8, <4>1 DEF CountRec
    <3> QED
      BY <3>1, <3>2
  <2>10. TurnTypes'
    BY <2>1, <2>2, <2>7 DEF TurnTypes
  <2>11. Counts'
    BY <1>1, <2>2, <2>8, <2>9 DEF Counts, CountRec
  <2> QED
    BY <2>10, <2>11
<1>4. CASE IntervalPasses
  BY <1>4 DEF IntervalPasses, TurnTypes, Counts, world, turn, hist
<1>5. CASE pollKids
  <2>1. /\ count' = [count EXCEPT !.polls = count.polls + 1] /\ count.polls < MaxPolls
        /\ pc' = "select" /\ ki' = 1 /\ at' = 1 /\ away' = 0 /\ clean' = (stamped = {})
        /\ poll' = [read |-> 0, auth |-> FALSE, renewed |-> FALSE]
        /\ UNCHANGED <<portal, cfg, sel, fp, learned, stamped, lists, page, noted, seen, failed>>
    BY <1>1, <1>5 DEF pollKids, CountRec, world, checkpoint, turn
  <2>2. 1 \in 1..Len(KidOrder)
    BY TurnFacts
  <2>3. clean' \in BOOLEAN /\ poll' \in [read : Nat, auth : BOOLEAN, renewed : BOOLEAN]
    BY <2>1
  <2>4. TurnTypes'
    BY <2>1, <2>2, <2>3 DEF TurnTypes
  <2>5. Counts'
    BY <1>1, <2>1 DEF Counts, CountRec
  <2> QED
    BY <2>4, <2>5
<1>6. CASE SelectStudent
  <2>1. /\ sel' = kid /\ pc' = "read" /\ at' = 1 /\ away' = 0 /\ pc = "select"
        /\ page' = [[NoPage EXCEPT !["grade"] = <<kid, portal[kid]["grade"]>>]
                       EXCEPT !["attendance"] = <<kid, portal[kid]["attendance"]>>]
        /\ UNCHANGED <<portal, cfg, fp, learned, stamped, lists, ki, noted, seen, poll, failed, clean, count>>
    BY <1>6, TurnFacts DEF SelectStudent, world, checkpoint
  <2>2. "grade" \in Keys /\ "attendance" \in Keys
    BY DEF Keys, HomeKeys
  <2>3. page' \in [Keys -> Entries \cup {None}]
    BY <2>1, <2>2, TurnFacts
  <2>4. TurnTypes'
    BY <2>1, <2>3, TurnFacts DEF TurnTypes
  <2>5. Counts'
    BY <1>1, <2>1 DEF Counts
  <2> QED
    BY <2>4, <2>5
<1>7. ASSUME NEW how, EndTurn(how), pc \notin {"idle", "stopped"},
             UNCHANGED <<portal, cfg, sel, fp, learned, failed, away>>,
             stamped' \subseteq Kids \X Timed, lists' \subseteq Kids,
             clean' \in BOOLEAN, count' \in CountRec, count'.polls = count.polls,
             count'.changes = count.changes
      PROVE  TurnTypes' /\ Counts'
  <2>1. /\ page' = NoPage /\ noted' = {} /\ seen' = None /\ at' = 1 /\ pc' \in {"select", "end"}
        /\ ki' \in 1..Len(KidOrder) /\ poll' \in [read : Nat, auth : BOOLEAN, renewed : BOOLEAN]
    BY <1>7, EndTurnEffect
  <2>2. TurnTypes'
    BY <1>7, <2>1, TurnFacts DEF TurnTypes
  <2>3. Counts'
    BY <1>1, <1>7, <2>1 DEF Counts, CountRec
  <2> QED
    BY <2>2, <2>3
<1>8. CASE SelectFails
  <2>1. PICK how \in {"kid", "abort", "auth"} : EndTurn(how)
    BY <1>8 DEF SelectFails
  <2>2. /\ Fault(1) /\ pc = "select"
        /\ UNCHANGED <<portal, cfg, sel, fp, learned, stamped, lists, failed, away>>
    BY <1>8 DEF SelectFails, world, checkpoint
  <2>3. /\ count' \in CountRec /\ count'.polls = count.polls /\ count'.changes = count.changes
        /\ clean' \in BOOLEAN
    BY <1>1, <2>2, FaultEffect DEF TurnTypes
  <2> QED
    BY <1>7, <2>1, <2>2, <2>3 DEF TurnTypes
<1>9. CASE readStep
  <2>1. /\ pc = "read" 
        /\ UNCHANGED <<portal, cfg, sel, fp, learned, stamped, lists, failed, away, clean, count>>
    BY <1>9, ReadCases
  <2>2. CASE EndTurn("kid")
    BY <1>1, <1>7, <2>1, <2>2 DEF TurnTypes
  <2>3. CASE NextRead /\ UNCHANGED <<ki, poll>>
    <3>1. Reads[at] \in Keys \cup {"comment_list"} /\ "comment" \in Keys
      BY <2>1, ReadsAt DEF Keys, ExtraKeys
    <3>2. page' \in [Keys -> Entries \cup {None}]
      <4>1. page \in [Keys -> Entries \cup {None}] /\ sel \in Students
        BY DEF TurnTypes
      <4>2. ASSUME NEW x \in Keys PROVE [page EXCEPT ![x] = <<sel, portal[sel][x]>>] \in [Keys -> Entries \cup {None}]
        BY <4>1, TurnFacts
      <4>3. Reads[at] \in CourseKeys => Reads[at] \in Keys
        BY DEF Keys
      <4>4. CASE UNCHANGED page
        BY <4>1, <4>4
      <4>5. CASE \E x \in Keys : page' = [page EXCEPT ![x] = <<sel, portal[sel][x]>>]
        BY <4>2, <4>5
      <4>6. CASE EndTurn("kid")
        BY <4>6, EndTurnEffect, TurnFacts
      <4> QED
        BY <1>9, <3>1, <4>3, <4>4, <4>5, <4>6, ReadCases
    <3>3. seen' \in Students \cup {None} /\ noted' \subseteq Timed
      BY <1>9, ReadCases, EndTurnEffect DEF TurnTypes
    <3>4. TurnTypes'
      BY <2>1, <2>3, <3>2, <3>3, NextReadEffect DEF TurnTypes
    <3>5. Counts'
      BY <1>1, <2>1, <2>3, NextReadEffect DEF Counts
    <3> QED
      BY <3>4, <3>5
  <2> QED
    BY <1>9, <2>2, <2>3, ReadCases
<1>10. CASE readFails
  <2>1. /\ Fault(1) /\ pc = "read"
        /\ UNCHANGED <<portal, cfg, sel, fp, learned, stamped, lists, failed, away>>
    BY <1>10 DEF readFails, world, checkpoint
  <2>2. /\ count' \in CountRec /\ count'.polls = count.polls /\ count'.changes = count.changes
        /\ clean' \in BOOLEAN
    BY <1>1, <2>1, FaultEffect DEF TurnTypes
  <2>3. CASE NextRead /\ UNCHANGED <<turn, ki, poll>>
    <3>1. TurnTypes'
      BY <2>1, <2>2, <2>3, NextReadEffect DEF TurnTypes, turn
    <3>2. Counts'
      BY <1>1, <2>1, <2>2, <2>3, NextReadEffect DEF Counts, CountRec
    <3> QED
      BY <3>1, <3>2
  <2>4. CASE \E how \in {"kid", "auth"} : EndTurn(how)
    BY <1>7, <2>1, <2>2, <2>4 DEF TurnTypes
  <2> QED
    BY <1>10, <2>3, <2>4 DEF readFails
<1>11. CASE confirmStillSelected
  <2>1. pc = "confirm" /\ UNCHANGED <<portal, cfg, sel, fp, stamped, lists, failed, away, clean, count>>
    BY <1>11 DEF confirmStillSelected, world
  <2>2. CASE EndTurn("kid") /\ UNCHANGED learned
    BY <1>1, <1>7, <2>1, <2>2 DEF TurnTypes
  <2>3. CASE /\ learned' = (IF boundAPIID(kid) = None /\ seen # None
                            THEN [learned EXCEPT ![kid] = seen] ELSE learned)
             /\ pc' = "stage" /\ at' = 1 /\ UNCHANGED <<turn, ki, poll>>
    <3>1. learned' \in [Kids -> Students \cup {None}]
      BY <2>3, TurnFacts DEF TurnTypes
    <3>2. TurnTypes'
      BY <2>1, <2>3, <3>1 DEF TurnTypes, turn
    <3>3. Counts'
      BY <1>1, <2>1, <2>3 DEF Counts
    <3> QED
      BY <3>2, <3>3
  <2> QED
    BY <1>11, <2>2, <2>3 DEF confirmStillSelected
<1>12. CASE confirmFails
  <2>1. /\ Fault(1) /\ pc = "confirm"
        /\ UNCHANGED <<portal, cfg, sel, fp, learned, stamped, lists, failed, away>>
    BY <1>12 DEF confirmFails, world, checkpoint
  <2>2. /\ count' \in CountRec /\ count'.polls = count.polls /\ count'.changes = count.changes
        /\ clean' \in BOOLEAN
    BY <1>1, <2>1, FaultEffect DEF TurnTypes
  <2> QED
    BY <1>7, <1>12, <2>1, <2>2 DEF TurnTypes, confirmFails
<1>13. CASE stageStep
  <2>1. PICK x \in Keys, n \in {0, 1} :
          Fault(n) /\ (fp' = fp \/ Save(x))
    BY <1>1, <1>13, StageEffect
  <2>2. /\ pc = "stage" /\ NextStage
        /\ UNCHANGED <<portal, cfg, sel, learned, stamped, lists, ki, page, noted, seen, poll, failed, away>>
    BY <1>13, StageCases
  <2>3. fp' \in [Kids -> [Keys -> Entries \cup {None}]]
    BY <2>1, SaveEffect DEF TurnTypes
  <2>4. /\ count' \in CountRec /\ count'.polls = count.polls /\ count'.changes = count.changes
        /\ clean' \in BOOLEAN
    BY <1>1, <2>1, FaultEffect DEF TurnTypes
  <2>5. TurnTypes'
    BY <2>2, <2>3, <2>4, NextStageEffect DEF TurnTypes
  <2>6. Counts'
    BY <1>1, <2>2, <2>4, NextStageEffect DEF Counts, CountRec
  <2> QED
    BY <2>5, <2>6
<1>14. CASE stampReads
  <2>1. /\ pc = "stamp" /\ EndTurn("read")
        /\ UNCHANGED <<portal, cfg, sel, fp, learned, failed, away, clean, count>>
    BY <1>14 DEF stampReads, world, hist
  <2>2. stamped' \subseteq Kids \X Timed /\ lists' \subseteq Kids
    BY <1>14, TurnFacts DEF stampReads, TurnTypes, Timed
  <2> QED
    BY <1>1, <1>7, <2>1, <2>2 DEF TurnTypes
<1>15. CASE endPoll
  <2>1. /\ pc = "end"
        /\ UNCHANGED <<portal, cfg, sel, fp, learned, stamped, lists, at, page, noted, seen, away, clean, count>>
    BY <1>15 DEF endPoll, world, checkpoint, turn, hist
  <2>2. failed < count.polls /\ count.polls \in Nat /\ failed \in Nat
    BY <1>1, <2>1 DEF Counts, CountRec
  <2>3. CASE /\ poll.auth /\ ~poll.renewed
             /\ poll' = [poll EXCEPT !.auth = FALSE, !.renewed = TRUE]
             /\ pc' = "select" /\ ki' = 1 /\ UNCHANGED failed
    <3>1. poll' \in [read : Nat, auth : BOOLEAN, renewed : BOOLEAN] /\ 1 \in 1..Len(KidOrder)
      <4>1. poll \in [read : Nat, auth : BOOLEAN, renewed : BOOLEAN]
        BY DEF TurnTypes
      <4>2. poll' \in [read : Nat, auth : BOOLEAN, renewed : BOOLEAN]
        BY <2>3, <4>1
      <4> QED
        BY <4>2, TurnFacts
    <3>2. TurnTypes'
      BY <2>1, <2>3, <3>1 DEF TurnTypes
    <3>3. Counts'
      BY <1>1, <2>1, <2>2, <2>3 DEF Counts
    <3> QED
      BY <3>2, <3>3
  <2>4. CASE /\ failed' \in {failed, 0, failed + 1} /\ pc' \in {"idle", "stopped"}
             /\ UNCHANGED <<poll, ki>>
    <3>1. TurnTypes'
      BY <2>1, <2>4 DEF TurnTypes
    <3>2. Counts'
      BY <1>1, <2>1, <2>2, <2>4 DEF Counts
    <3> QED
      BY <3>1, <3>2
  <2> QED
    BY <1>15, <2>3, <2>4 DEF endPoll
<1>16. CASE Crash
  <2>1. /\ Fault(1) /\ pc' = "idle" /\ at' = 1 /\ ki' = 1 /\ failed' = 0
        /\ page' = NoPage /\ noted' = {} /\ seen' = None
        /\ UNCHANGED <<portal, cfg, sel, fp, learned, stamped, lists, poll, away>>
    BY <1>16 DEF Crash, world, checkpoint
  <2>2. /\ count' \in CountRec /\ count'.polls = count.polls /\ count'.changes = count.changes
        /\ clean' \in BOOLEAN
    BY <1>1, <2>1, FaultEffect DEF TurnTypes
  <2>3. TurnTypes'
    BY <2>1, <2>2, TurnFacts DEF TurnTypes
  <2>4. Counts'
    BY <1>1, <2>1, <2>2 DEF Counts, CountRec
  <2> QED
    BY <2>3, <2>4
<1>17. CASE Restart
  <2>1. /\ pc' = "idle" /\ failed' = 0
        /\ UNCHANGED <<portal, cfg, sel, fp, learned, stamped, lists, at, ki, page, noted, seen,
                       poll, away, clean, count>>
    BY <1>17 DEF Restart, world, checkpoint, turn, hist
  <2>2. TurnTypes'
    BY <2>1 DEF TurnTypes
  <2>3. Counts'
    BY <1>1, <2>1 DEF Counts, CountRec
  <2> QED
    BY <2>2, <2>3
<1> QED
  BY <1>2, <1>3, <1>4, <1>5, <1>6, <1>8, <1>9, <1>10, <1>11, <1>12, <1>13, <1>14, <1>15, <1>16,
     <1>17 DEF TurnNext

\* Versions only grow.
PortalGrows == \A s \in Students, x \in Keys : portal[s][x] <= portal'[s][x]

LEMMA BoundType ==
  ASSUME TurnTypes, NEW k \in Kids
  PROVE  boundAPIID(k) \in Students \cup {None}
BY DEF boundAPIID, TurnTypes, Students

LEMMA EntryParts ==
  ASSUME NEW e \in Entries
  PROVE  e = <<e[1], e[2]>> /\ e[1] \in Students /\ e[2] \in 1..(MaxChanges + 1) /\ e[2] \in Int
BY TurnAssumption DEF Entries

\* A fingerprint stays right while the portal only grows and bindings stay.
LEMMA FingerprintsKept ==
  ASSUME TurnTypes, TurnTypes', FingerprintsOwn, PortalGrows, UNCHANGED <<cfg, learned, fp>>
  PROVE  FingerprintsOwn'
<1> SUFFICES ASSUME NEW k \in Kids, NEW x \in Keys, fp[k][x] # None
             PROVE  /\ fp[k][x][1] = (IF x \in CourseKeys THEN boundAPIID(k)' ELSE k)
                    /\ fp[k][x][2] <= portal'[fp[k][x][1]][x]
  BY DEF FingerprintsOwn
<1>0. fp[k][x] \in Entries
  BY DEF TurnTypes
<1>1. PICK s \in Students, v \in Int : fp[k][x][1] = s /\ fp[k][x][2] = v
  BY <1>0, EntryParts
<1>2. s = (IF x \in CourseKeys THEN boundAPIID(k) ELSE k) /\ v <= portal[s][x]
  BY <1>1 DEF FingerprintsOwn
<1>3. portal[s][x] \in Int /\ portal'[s][x] \in Int /\ portal[s][x] <= portal'[s][x]
  BY <1>1 DEF TurnTypes, PortalGrows
<1>4. boundAPIID(k)' = boundAPIID(k)
  BY DEF boundAPIID
<1>5. v <= portal'[s][x]
  BY <1>1, <1>2, <1>3
<1>6. s = (IF x \in CourseKeys THEN boundAPIID(k)' ELSE k)
  BY <1>2, <1>4
<1> QED
  BY <1>1, <1>5, <1>6

\* Throwing the turn's pages away.
LEMMA BindReset ==
  ASSUME TurnTypes, TurnTypes', BindInv, PortalGrows, UNCHANGED <<cfg, learned, fp>>,
         page' = NoPage, noted' = {}, seen' = None
  PROVE  BindInv'
<1>1. \A x \in Keys : page'[x] = None
  BY DEF NoPage
<1>2. FingerprintsOwn'
  BY FingerprintsKept DEF BindInv
<1>3. NoSharedBinding'
  BY DEF BindInv, NoSharedBinding, boundAPIID
<1> QED
  BY <1>1, <1>2, <1>3 DEF BindInv, Discarded, PagesOwn, PagesNew, CourseKeys, Keys, NoPage

\* Keeping the turn as it is.
LEMMA BindSame ==
  ASSUME TurnTypes, TurnTypes', BindInv, PortalGrows,
         UNCHANGED <<cfg, learned, fp, page, noted, seen, ki>>,
         pc' = pc \/ (InTurn /\ InTurn'), pc' \in {"stage", "stamp"} => pc \in {"stage", "stamp"}
  PROVE  BindInv'
<1>1. FingerprintsOwn'
  BY FingerprintsKept DEF BindInv
<1>2. NoSharedBinding'
  BY DEF BindInv, NoSharedBinding, boundAPIID
<1>3. Discarded'
  BY DEF BindInv, Discarded, InTurn, NoPage
<1>4. kid' = kid /\ others' = others /\ boundAPIID(kid)' = boundAPIID(kid)
  BY DEF kid, others, boundAPIID
<1>5. PagesOwn'
  BY <1>4 DEF BindInv, PagesOwn
<1>6. PagesNew'
  <2> SUFFICES ASSUME NEW x \in Keys, page[x] # None
               PROVE  /\ page[x][2] <= portal'[page[x][1]][x]
                      /\ fp[kid][x] # None => fp[kid][x][2] <= page[x][2]
    BY <1>4 DEF PagesNew
  <2>0. page[x] \in Entries
    BY DEF TurnTypes
  <2>1. PICK s \in Students, v \in Int : page[x][1] = s /\ page[x][2] = v
    BY <2>0, EntryParts
  <2>2. v <= portal[s][x] /\ (fp[kid][x] # None => fp[kid][x][2] <= v)
    BY <2>1 DEF BindInv, PagesNew
  <2>3. portal[s][x] \in Int /\ portal'[s][x] \in Int /\ portal[s][x] <= portal'[s][x]
    BY <2>1 DEF TurnTypes, PortalGrows
  <2> QED
    BY <2>1, <2>2, <2>3, TurnAssumption
<1> QED
  BY <1>1, <1>2, <1>3, <1>5, <1>6 DEF BindInv

\* Adding a page of the selected student that passed its check.
LEMMA BindPage ==
  ASSUME TurnTypes, TurnTypes', BindInv, UNCHANGED <<portal, cfg, learned, fp, ki, sel>>,
         InTurn, InTurn', pc' \notin {"stage", "stamp"},
         NEW x \in Keys, page' = [page EXCEPT ![x] = <<sel, portal[sel][x]>>],
         IF x \in CourseKeys
         THEN bindingCheck(sel) /\ seen' = (IF seen = None THEN sel ELSE seen)
         ELSE sel = kid /\ seen' = seen
  PROVE  BindInv'
<1>1. FingerprintsOwn'
  BY FingerprintsKept DEF BindInv, PortalGrows, TurnTypes
<1>2. NoSharedBinding'
  BY DEF BindInv, NoSharedBinding, boundAPIID
<1>3. Discarded'
  BY DEF Discarded
<1>4. kid' = kid /\ others' = others /\ boundAPIID(kid)' = boundAPIID(kid) /\ kid \in Kids
  BY TurnFacts DEF kid, others, boundAPIID
<1>5. /\ page'[x] = <<sel, portal[sel][x]>> /\ sel \in Students /\ sel # None
      /\ \A y \in Keys : y # x => page'[y] = page[y]
      /\ portal[sel][x] \in Int
  BY TurnFacts DEF TurnTypes
<1>6. CASE x \in CourseKeys
  <2>1. /\ sel \notin others /\ (boundAPIID(kid) # None => sel = boundAPIID(kid))
        /\ boundAPIID(kid) = None /\ seen # None => sel = seen
    BY <1>6 DEF bindingCheck
  <2>2. seen # None => seen \notin others /\ (boundAPIID(kid) # None => seen = boundAPIID(kid))
    BY DEF BindInv, PagesOwn
  <2>3. seen' = sel
    BY <1>6, <2>1, <2>2
  <2>4. PagesOwn'
    <3>1. \A y \in Keys \ CourseKeys : page'[y] # None => page'[y][1] = kid
      BY <1>5, <1>6 DEF BindInv, PagesOwn
    <3>2. ASSUME NEW y \in CourseKeys, page'[y] # None PROVE page'[y][1] = sel
      <4>1. CASE y = x
        BY <1>5, <4>1
      <4>2. CASE y # x
        <5>1. y \in Keys
          BY DEF Keys
        <5>2. page'[y] = page[y] /\ seen # None /\ page[y][1] = seen
          BY <1>5, <3>2, <4>2, <5>1 DEF BindInv, PagesOwn
        <5> QED
          BY <1>6, <2>3, <5>2
      <4> QED
        BY <4>1, <4>2
    <3> QED
      BY <1>4, <1>5, <2>1, <2>3, <3>1, <3>2 DEF PagesOwn
  <2>5. ASSUME fp[kid][x] # None PROVE fp[kid][x][2] <= portal[sel][x]
    <3>0. fp[kid][x] \in Entries
      BY <1>4, <2>5 DEF TurnTypes
    <3>1. PICK s \in Students, v \in Int : fp[kid][x][1] = s /\ fp[kid][x][2] = v
      BY <3>0, EntryParts
    <3>2. s = boundAPIID(kid) /\ v <= portal[s][x]
      BY <1>4, <1>6, <2>5, <3>1 DEF BindInv, FingerprintsOwn
    <3>3. s = sel
      BY <2>1, <3>1, <3>2, TurnFacts
    <3> QED
      BY <3>1, <3>2, <3>3
  <2>6. PagesNew'
    BY <1>4, <1>5, <2>5 DEF BindInv, PagesNew
  <2> QED
    BY <1>1, <1>2, <1>3, <2>4, <2>6 DEF BindInv
<1>7. CASE x \notin CourseKeys
  <2>1. sel = kid /\ seen' = seen
    BY <1>7
  <2>2. PagesOwn'
    <3>1. \A y \in CourseKeys : page'[y] = page[y]
      BY <1>5, <1>7 DEF Keys
    <3> QED
      BY <1>4, <1>5, <2>1, <3>1 DEF BindInv, PagesOwn
  <2>3. ASSUME fp[kid][x] # None PROVE fp[kid][x][2] <= portal[sel][x]
    BY <1>4, <1>7, <2>1, <2>3 DEF BindInv, FingerprintsOwn
  <2>4. PagesNew'
    BY <1>4, <1>5, <2>3 DEF BindInv, PagesNew
  <2> QED
    BY <1>1, <1>2, <1>3, <2>2, <2>4 DEF BindInv
<1> QED
  BY <1>6, <1>7

\* Selecting the kid: its home page, and nothing else yet.
LEMMA BindSelect == ASSUME TurnTypes, TurnTypes', BindInv, SelectStudent PROVE BindInv'
<1>1. /\ sel' = kid /\ pc' = "read" /\ pc = "select"
      /\ page' = [[NoPage EXCEPT !["grade"] = <<kid, portal[kid]["grade"]>>]
                     EXCEPT !["attendance"] = <<kid, portal[kid]["attendance"]>>]
      /\ UNCHANGED <<portal, cfg, fp, learned, ki, seen>>
  BY TurnFacts DEF SelectStudent, world, checkpoint
<1>2. seen = None /\ kid' = kid /\ kid \in Kids /\ others' = others
  BY <1>1, TurnFacts DEF BindInv, Discarded, InTurn, kid, others, boundAPIID
<1>3. "grade" \in Keys \ CourseKeys /\ "attendance" \in Keys \ CourseKeys
  BY DEF Keys, HomeKeys, CourseKeys
<1>4. \A x \in Keys : page'[x] = IF x \in HomeKeys THEN <<kid, portal[kid][x]>> ELSE None
  BY <1>1, <1>3, TurnFacts DEF HomeKeys
<1>5. FingerprintsOwn'
  <2>1. PortalGrows
    BY <1>1 DEF PortalGrows, TurnTypes
  <2> QED
    BY <1>1, <2>1, FingerprintsKept DEF BindInv
<1>6. NoSharedBinding'
  BY <1>1 DEF BindInv, NoSharedBinding, boundAPIID
<1>7. HomeKeys \cap CourseKeys = {}
  BY DEF HomeKeys, CourseKeys
<1>8. PagesOwn'
  <2>1. ASSUME NEW x \in Keys, page'[x] # None PROVE page'[x][1] = kid
    <3>1. x \in HomeKeys
      BY <1>4, <2>1
    <3>2. page'[x] = <<kid, portal[kid][x]>>
      BY <1>4, <3>1
    <3> QED
      BY <3>2
  <2>2. \A x \in CourseKeys : page'[x] = None
    BY <1>4, <1>7 DEF Keys
  <2> QED
    BY <1>1, <1>2, <2>1, <2>2 DEF PagesOwn
<1>9. PagesNew'
  <2> SUFFICES ASSUME NEW x \in HomeKeys
               PROVE  fp[kid][x] # None => fp[kid][x][2] <= portal[kid][x]
    <3>1. HomeKeys \subseteq Keys
      BY DEF Keys
    <3>2. \A x \in HomeKeys : page'[x] = <<kid, portal[kid][x]>> /\ portal[kid][x] \in Int
      BY <1>2, <1>4, <3>1, TurnFacts DEF TurnTypes
    <3>3. \A x \in Keys : page'[x] # None => x \in HomeKeys
      BY <1>4
    <3>4. ASSUME NEW x \in HomeKeys
          PROVE  page'[x][1] = kid /\ page'[x][2] = portal[kid][x] /\ portal[kid][x] <= portal[kid][x]
      BY <3>2
    <3>5. UNCHANGED <<portal, fp>> /\ kid' = kid
      BY <1>1, <1>2
    <3> QED
      BY <3>1, <3>3, <3>4, <3>5 DEF PagesNew
  <2> QED
    BY <1>2, <1>7 DEF BindInv, FingerprintsOwn, Keys
<1> QED
  BY <1>1, <1>5, <1>6, <1>8, <1>9 DEF BindInv, Discarded, InTurn

\* Learning the id the scores pages carried: nobody else has it, and the kid
\* had no fingerprint of a course before it was bound.
LEMMA BindLearn ==
  ASSUME TurnTypes, TurnTypes', BindInv, UNCHANGED <<portal, cfg, fp, ki, sel, page, noted, seen>>,
         pc = "confirm", pc' = "stage",
         learned' = IF boundAPIID(kid) = None /\ seen # None
                    THEN [learned EXCEPT ![kid] = seen] ELSE learned
  PROVE  /\ BindInv'
         /\ \A k \in Kids : boundAPIID(k) # None => boundAPIID(k)' = boundAPIID(k)
         /\ \A k \in Kids : learned[k] # None => learned'[k] = learned[k]
<1>1. kid' = kid /\ kid \in Kids /\ learned \in [Kids -> Students \cup {None}] /\ kid # None
  BY TurnFacts, TurnAssumption DEF kid, TurnTypes
<1>2. \A k \in Kids : k # kid => boundAPIID(k)' = boundAPIID(k) /\ learned'[k] = learned[k]
  BY <1>1 DEF boundAPIID
<1>3. boundAPIID(kid)' = IF boundAPIID(kid) = None /\ seen # None THEN seen ELSE boundAPIID(kid)
  BY <1>1 DEF boundAPIID
<1>q. PICK q \in Kids : q = kid
  BY <1>1
<1>b. boundAPIID(q)' = IF boundAPIID(q) = None /\ seen # None THEN seen ELSE boundAPIID(q)
  BY <1>1, <1>q DEF boundAPIID
<1>4. others' = others
  BY <1>1, <1>2 DEF others
<1>5. \A k \in Kids : boundAPIID(k) # None => boundAPIID(k)' = boundAPIID(k)
  BY <1>2, <1>b, <1>q
<1>6. \A k \in Kids : learned[k] # None => learned'[k] = learned[k]
  BY <1>1, TurnAssumption DEF boundAPIID, Students
<1>7. NoSharedBinding'
  <2>1. seen # None => seen \notin others
    BY DEF BindInv, PagesOwn
  <2>2. \A j \in Kids \ {kid} : boundAPIID(j) # None => boundAPIID(j) \in others
    BY DEF others
  <2> SUFFICES ASSUME NEW j \in Kids, NEW k \in Kids, j # k,
                      boundAPIID(j)' = boundAPIID(k)', boundAPIID(k)' # None
               PROVE  FALSE
    BY DEF NoSharedBinding
  <2>3. boundAPIID(j) # boundAPIID(k) \/ boundAPIID(k) = None
    BY DEF BindInv, NoSharedBinding
  <2> QED
    BY <1>2, <1>b, <1>q, <2>1, <2>2, <2>3
<1>8. FingerprintsOwn'
  <2> SUFFICES ASSUME NEW k \in Kids, NEW x \in Keys, fp[k][x] # None
               PROVE  fp[k][x][1] = (IF x \in CourseKeys THEN boundAPIID(k)' ELSE k)
    BY DEF BindInv, FingerprintsOwn
  <2>1. fp[k][x][1] \in Students
    BY DEF TurnTypes, Entries
  <2>2. fp[k][x][1] = (IF x \in CourseKeys THEN boundAPIID(k) ELSE k)
    BY DEF BindInv, FingerprintsOwn
  <2> QED
    BY <1>5, <2>1, <2>2, TurnFacts
<1>9. PagesOwn'
  BY <1>1, <1>3, <1>4 DEF BindInv, PagesOwn
<1>10. PagesNew' /\ Discarded'
  BY <1>1 DEF BindInv, PagesNew, Discarded, InTurn
<1> QED
  BY <1>5, <1>6, <1>7, <1>8, <1>9, <1>10 DEF BindInv

\* Staging saves what the turn read as the kid's fingerprint, or nothing.
LEMMA BindStage == ASSUME TurnTypes, TurnTypes', Counts, BindInv, stageStep PROVE BindInv'
<1>1. /\ pc = "stage" /\ NextStage
      /\ UNCHANGED <<portal, cfg, sel, learned, stamped, lists, ki, page, noted, seen, poll, failed, away>>
  BY StageCases
<1>2. PICK x \in Keys : fp' = fp \/ (Save(x) /\ changed(x))
  <2>1. count \in CountRec
    BY DEF Counts, CountRec
  <2> QED
    BY <2>1, StageEffect
<1>3. PortalGrows /\ InTurn /\ InTurn' /\ pc' \in {"stage", "stamp"}
  BY <1>1, NextStageEffect DEF PortalGrows, InTurn, TurnTypes
<1>4. CASE fp' = fp
  BY <1>1, <1>3, <1>4, BindSame
<1>5. CASE Save(x) /\ changed(x)
  <2>1. /\ fp'[kid][x] = page[x]
        /\ \A k \in Kids, y \in Keys : fp'[k][y] = IF k = kid /\ y = x THEN page[x] ELSE fp[k][y]
    BY <1>5, SaveEffect
  <2>2. kid' = kid /\ kid \in Kids /\ others' = others /\ boundAPIID(kid)' = boundAPIID(kid)
    BY <1>1, TurnFacts DEF kid, others, boundAPIID
  <2>3. \A k \in Kids : boundAPIID(k)' = boundAPIID(k)
    BY <1>1 DEF boundAPIID
  <2>4. page[x] \in Entries /\ page[x] # None
    BY <1>5 DEF changed, TurnTypes
  <2>5. page[x][1] = (IF x \in CourseKeys THEN boundAPIID(kid) ELSE kid) /\ page[x][2] <= portal[page[x][1]][x]
    BY <1>1, <2>4 DEF BindInv, PagesOwn, PagesNew
  <2>6. FingerprintsOwn'
    <3> SUFFICES ASSUME NEW k \in Kids, NEW y \in Keys, fp'[k][y] # None
                 PROVE  /\ fp'[k][y][1] = (IF y \in CourseKeys THEN boundAPIID(k) ELSE k)
                        /\ fp'[k][y][2] <= portal[fp'[k][y][1]][y]
      BY <1>1, <2>3 DEF FingerprintsOwn
    <3>1. CASE k = kid /\ y = x
      BY <2>1, <2>5, <3>1
    <3>2. CASE ~(k = kid /\ y = x)
      BY <2>1, <3>2 DEF BindInv, FingerprintsOwn
    <3> QED
      BY <3>1, <3>2
  <2>7. PagesNew'
    <3> SUFFICES ASSUME NEW y \in Keys, page[y] # None
                 PROVE  /\ page[y][2] <= portal[page[y][1]][y]
                        /\ fp'[kid][y] # None => fp'[kid][y][2] <= page[y][2]
      BY <1>1, <2>2 DEF PagesNew
    <3>1. page[y][2] \in Int
      BY EntryParts DEF TurnTypes
    <3> QED
      BY <2>1, <2>2, <3>1 DEF BindInv, PagesNew
  <2>8. PagesOwn'
    BY <1>1, <2>2 DEF BindInv, PagesOwn
  <2>9. NoSharedBinding' /\ Discarded'
    BY <1>1, <1>3, <2>3 DEF BindInv, NoSharedBinding, Discarded
  <2> QED
    BY <2>6, <2>7, <2>8, <2>9 DEF BindInv
<1> QED
  BY <1>2, <1>4, <1>5

\* Every step keeps kids and students apart.
LEMMA BindStep == ASSUME TurnTypes, TurnTypes', Counts, BindInv, TurnNext PROVE BindInv'
<1>0. UNCHANGED portal => PortalGrows
  BY DEF PortalGrows, TurnTypes
<1>1. ASSUME NEW how, EndTurn(how), UNCHANGED <<portal, cfg, learned, fp>> PROVE BindInv'
  BY <1>0, <1>1, EndTurnEffect, BindReset
<1>2. ASSUME NEW s \in Students, SwitchStudent(s) PROVE BindInv'
  BY <1>0, <1>2, BindSame DEF SwitchStudent, world, checkpoint, turn
<1>3. ASSUME NEW s \in Students, NEW x \in Keys, ChangeEntry(s, x) PROVE BindInv'
  <2>1. portal' = [portal EXCEPT ![s] = [portal[s] EXCEPT ![x] = portal[s][x] + 1]]
    BY <1>3 DEF ChangeEntry, TurnTypes
  <2>2. portal \in [Students -> [Keys -> 1..(MaxChanges + 1)]]
    BY DEF TurnTypes
  <2>3. ASSUME NEW r \in Students, NEW y \in Keys PROVE portal[r][y] <= portal'[r][y]
    <3>1. portal[r][y] \in Int
      BY <2>2
    <3>2. CASE r = s
      BY <2>1, <2>2, <3>1, <3>2
    <3>3. CASE r # s
      BY <2>1, <2>2, <3>1, <3>3
    <3> QED
      BY <3>2, <3>3
  <2>4. PortalGrows
    BY <2>3 DEF PortalGrows
  <2> QED
    BY <1>3, <2>4, BindSame DEF ChangeEntry, checkpoint, turn
<1>4. ASSUME ~InTurn, UNCHANGED <<portal, cfg, learned, fp, page, noted, seen>> PROVE BindInv'
  BY <1>0, <1>4, BindReset DEF BindInv, Discarded
<1>5. CASE IntervalPasses \/ pollKids \/ endPoll \/ Restart
  BY <1>4, <1>5 DEF IntervalPasses, pollKids, endPoll, Restart, InTurn, world, checkpoint, turn
<1>6. CASE SelectStudent
  BY <1>6, BindSelect
<1>7. CASE SelectFails \/ confirmFails
  BY <1>1, <1>7 DEF SelectFails, confirmFails, world, checkpoint
<1>8. CASE readStep
  <2>1. pc = "read" /\ UNCHANGED <<portal, cfg, sel, fp, learned>>
    BY <1>8, ReadCases
  <2>2. CASE EndTurn("kid")
    BY <1>1, <2>1, <2>2
  <2>3. CASE NextRead /\ UNCHANGED <<ki, poll>>
    <3>1. InTurn /\ InTurn' /\ pc' \notin {"stage", "stamp"}
      BY <2>1, <2>3, NextReadEffect DEF InTurn
    <3>2. Reads[at] \in Keys \cup {"comment_list"} /\ "comment" \in Keys /\ "comment" \notin CourseKeys
      BY <2>1, ReadsAt DEF Keys, ExtraKeys, CourseKeys
    <3>3. CASE UNCHANGED <<page, seen>>
      <4>1. PagesOwn' /\ PagesNew' /\ FingerprintsOwn' /\ NoSharedBinding'
        <5>1. kid' = kid /\ others' = others /\ boundAPIID(kid)' = boundAPIID(kid)
          BY <2>1, <2>3 DEF kid, others, boundAPIID
        <5>2. FingerprintsOwn'
          BY <1>0, <2>1, FingerprintsKept DEF BindInv
        <5>3. NoSharedBinding'
          BY <2>1 DEF BindInv, NoSharedBinding, boundAPIID
        <5> QED
          BY <2>1, <3>1, <3>3, <5>1, <5>2, <5>3 DEF BindInv, PagesOwn, PagesNew
      <4> QED
        BY <3>1, <4>1 DEF BindInv, Discarded
    <3>4. ASSUME NEW x \in Keys, page' = [page EXCEPT ![x] = <<sel, portal[sel][x]>>],
                 IF x \in CourseKeys
                 THEN bindingCheck(sel) /\ seen' = (IF seen = None THEN sel ELSE seen)
                 ELSE sel = kid /\ seen' = seen
          PROVE  BindInv'
      BY <2>1, <2>3, <3>1, <3>4, BindPage
    <3>5. CASE EndTurn("kid")
      BY <1>1, <2>1, <3>5
    <3>6. CASE /\ Reads[at] \notin CourseKeys /\ sel = kid /\ seen' = seen
               /\ \/ Reads[at] # "comment_list"
                     /\ page' = [page EXCEPT ![Reads[at]] = <<sel, portal[sel][Reads[at]]>>]
                  \/ page' = page
                  \/ page' = [page EXCEPT !["comment"] = <<sel, portal[sel]["comment"]>>]
      BY <3>2, <3>3, <3>4, <3>6
    <3>7. CASE /\ Reads[at] \in CourseKeys /\ bindingCheck(sel)
               /\ seen' = (IF seen = None THEN sel ELSE seen)
               /\ page' = [page EXCEPT ![Reads[at]] = <<sel, portal[sel][Reads[at]]>>]
      BY <3>4, <3>7 DEF Keys
    <3> QED
      BY <1>8, <3>3, <3>5, <3>6, <3>7, ReadCases
  <2> QED
    BY <1>8, <2>2, <2>3, ReadCases
<1>9. CASE readFails
  <2>1. pc = "read" /\ UNCHANGED <<portal, cfg, sel, fp, learned>>
    BY <1>9 DEF readFails, world, checkpoint
  <2>2. CASE NextRead /\ UNCHANGED <<turn, ki, poll>>
    <3>1. InTurn /\ InTurn' /\ pc' \notin {"stage", "stamp"}
      BY <2>1, <2>2, NextReadEffect DEF InTurn
    <3> QED
      BY <1>0, <2>1, <2>2, <3>1, BindSame DEF turn
  <2> QED
    BY <1>1, <1>9, <2>1, <2>2 DEF readFails
<1>10. CASE confirmStillSelected
  BY <1>1, <1>10, BindLearn DEF confirmStillSelected, world, turn
<1>11. CASE stageStep
  BY <1>11, BindStage
<1>12. CASE stampReads
  BY <1>1, <1>12 DEF stampReads, world
<1>13. CASE Crash
  BY <1>0, <1>13, BindReset DEF Crash, world, checkpoint
<1> QED
  BY <1>2, <1>3, <1>5, <1>6, <1>7, <1>8, <1>9, <1>10, <1>11, <1>12, <1>13 DEF TurnNext

\* Nothing delivered, no fingerprint saved.
LEMMA StagedFrame ==
  ASSUME TurnTypes, StagedInv, UNCHANGED <<staged, dups, fp>>,
         \A k \in Kids : learned[k] # None => learned'[k] = learned[k],
         count.faults \in Nat, count'.faults \in Nat, count.faults <= count'.faults
  PROVE  StagedInv'
<1>1. Debt' = Debt
  BY DEF Debt
<1>2. OwnStudent'
  <2>1. ASSUME NEW it \in staged
        PROVE  it[3] = it[1] \/ (it[2] \in CourseKeys /\ learned'[it[1]] \notin {None, it[1]})
    <3>1. it[1] \in Kids
      BY DEF StagedInv
    <3> QED
      BY <3>1 DEF StagedInv, OwnStudent
  <2> QED
    BY <2>1 DEF OwnStudent
<1>3. NoChangePassedOver'
  BY DEF StagedInv, NoChangePassedOver
<1>4. Cardinality(Debt) \in Nat /\ dups \in Nat
  BY FS_Subset, FS_CardinalityType DEF StagedInv, Debt
<1>5. dups + Cardinality(Debt) <= count'.faults
  BY <1>4 DEF StagedInv
<1> QED
  BY <1>1, <1>2, <1>3, <1>5 DEF StagedInv

ItemOf(x) == <<kid, x, page[x][1], page[x][2]>>
Itemset == Kids \X Keys \X Students \X (1..(MaxChanges + 1))

\* An entry that is delivered is the kid's own, or that of the student the kid
\* is bound to.
LEMMA DeliverEffect ==
  ASSUME TurnTypes, BindInv, StagedInv, pc = "stage", NEW x \in Keys, changed(x), Deliver(x),
         UNCHANGED learned
  PROVE  /\ kid \in Kids /\ page[x] \in Entries /\ ItemOf(x) \in Itemset
         /\ staged' = staged \cup {ItemOf(x)} /\ IsFiniteSet(staged') /\ staged' \subseteq Itemset
         /\ dups' = (IF ItemOf(x) \in staged THEN dups + 1 ELSE dups)
         /\ OwnStudent'
<1>1. kid \in Kids /\ page[x] \in Entries /\ page[x] # None
  BY TurnFacts DEF changed, TurnTypes
<1>2. page[x][1] \in Students /\ page[x][2] \in 1..(MaxChanges + 1)
  BY <1>1, EntryParts
<1>3. ItemOf(x) \in Itemset
  BY <1>1, <1>2 DEF ItemOf, Itemset
<1>4. /\ staged' = staged \cup {ItemOf(x)}
      /\ dups' = (IF ItemOf(x) \in staged THEN dups + 1 ELSE dups)
  BY DEF Deliver, ItemOf
<1>5. IsFiniteSet(staged') /\ staged' \subseteq Itemset
  BY <1>3, <1>4, FS_AddElement DEF StagedInv, Itemset
<1>6. page[x][1] = kid \/ (x \in CourseKeys /\ learned[kid] \notin {None, kid})
  <2>1. CASE x \notin CourseKeys
    BY <1>1, <2>1 DEF BindInv, PagesOwn
  <2>2. CASE x \in CourseKeys
    <3>1. page[x][1] = boundAPIID(kid)
      BY <1>1, <2>2 DEF BindInv, PagesOwn
    <3> QED
      BY <1>1, <1>2, <2>2, <3>1, TurnFacts DEF boundAPIID
  <2> QED
    BY <2>1, <2>2
<1>7. OwnStudent'
  <2>1. PICK it : it = ItemOf(x)
    OBVIOUS
  <2>2. it[1] = kid /\ it[2] = x /\ it[3] = page[x][1]
    BY <2>1 DEF ItemOf
  <2> QED
    BY <1>4, <1>6, <2>1, <2>2 DEF StagedInv, OwnStudent
<1> QED
  BY <1>1, <1>3, <1>4, <1>5, <1>7

\* A delivery whose fingerprint is not saved costs a fault.
LEMMA DeliverUnsaved ==
  ASSUME TurnTypes, BindInv, StagedInv, pc = "stage", NEW x \in Keys, changed(x), Deliver(x),
         UNCHANGED <<fp, learned>>, count.faults \in Nat, count'.faults = count.faults + 1
  PROVE  StagedInv'
<1>1. PICK it : it = ItemOf(x)
  OBVIOUS
<1>2. /\ staged' = staged \cup {it} /\ IsFiniteSet(staged') /\ staged' \subseteq Itemset
      /\ dups' = (IF it \in staged THEN dups + 1 ELSE dups)
  BY <1>1, DeliverEffect
<1>3. PICK D : D = Debt
  OBVIOUS
<1>4. PICK E : E = Debt'
  OBVIOUS
<1>5. IsFiniteSet(D) /\ Cardinality(D) \in Nat /\ dups \in Nat /\ dups + Cardinality(D) <= count.faults
  BY <1>3, FS_Subset, FS_CardinalityType DEF StagedInv, Debt
<1>6. E \subseteq D \cup {it} /\ (it \in staged => E = D)
  BY <1>2, <1>3, <1>4 DEF Debt
<1>7. IsFiniteSet(D \cup {it}) /\ Cardinality(D \cup {it}) <= Cardinality(D) + 1
  <2>1. /\ IsFiniteSet(D \cup {it})
        /\ Cardinality(D \cup {it}) = (IF it \in D THEN Cardinality(D) ELSE Cardinality(D) + 1)
    BY <1>5, FS_AddElement
  <2> QED
    BY <1>5, <2>1
<1>8. IsFiniteSet(E) /\ Cardinality(E) <= Cardinality(D \cup {it})
  BY <1>6, <1>7, FS_Subset
<1>9. Cardinality(E) \in Nat /\ Cardinality(D \cup {it}) \in Nat
  BY <1>7, <1>8, FS_CardinalityType
<1>10. dups' \in Nat /\ dups' + Cardinality(E) <= count'.faults
  <2>1. CASE it \in staged
    BY <1>2, <1>5, <1>6, <2>1
  <2>2. CASE it \notin staged
    BY <1>2, <1>5, <1>7, <1>8, <1>9, <2>2
  <2> QED
    BY <2>1, <2>2
<1>11. NoChangePassedOver'
  BY <1>2 DEF StagedInv, NoChangePassedOver
<1>12. OwnStudent'
  BY DeliverEffect
<1> QED
  BY <1>2, <1>4, <1>10, <1>11, <1>12 DEF StagedInv, Itemset

\* Saving a fingerprint leaves at most the debts there were, and none of the
\* version saved.
LEMMA SaveDebt ==
  ASSUME TurnTypes, BindInv, StagedInv, NEW x \in Keys, changed(x), Save(x),
         NEW it \in Itemset, it[1] = kid, it[2] = x, it[4] = page[x][2],
         staged' \subseteq staged \cup {it}, NEW E, E = Debt'
  PROVE  E \subseteq Debt \ {it}
<1>1. kid \in Kids /\ page[x] \in Entries /\ page[x] # None
  BY TurnFacts DEF changed, TurnTypes
<1>2. page[x][2] \in Int
  BY <1>1, EntryParts
<1>3. \A k \in Kids, y \in Keys : fp'[k][y] = IF k = kid /\ y = x THEN page[x] ELSE fp[k][y]
  BY SaveEffect
<1>4. it \notin E
  <2>1. fp'[it[1]][it[2]] = page[x]
    BY <1>1, <1>3
  <2> QED
    BY <1>1, <1>2, <2>1 DEF Debt
<1>5. ASSUME NEW j \in E PROVE j \in Debt
  <2>1. j \in staged /\ (fp'[j[1]][j[2]] = None \/ fp'[j[1]][j[2]][2] < j[4])
    BY <1>4, <1>5 DEF Debt
  <2>2. j[1] \in Kids /\ j[2] \in Keys /\ j[4] \in Int
    BY <2>1 DEF StagedInv, Itemset
  <2>3. CASE j[1] = kid /\ j[2] = x
    <3>1. page[x][2] < j[4]
      BY <1>1, <1>3, <2>1, <2>2, <2>3
    <3>2. fp[kid][x] # None => fp[kid][x][2] <= page[x][2]
      BY <1>1 DEF BindInv, PagesNew
    <3>3. fp[kid][x] # None => fp[kid][x][2] \in Int
      BY <1>1, EntryParts DEF TurnTypes
    <3> QED
      BY <1>2, <2>1, <2>2, <2>3, <3>1, <3>2, <3>3 DEF Debt
  <2>4. CASE ~(j[1] = kid /\ j[2] = x)
    BY <1>3, <2>1, <2>2, <2>4 DEF Debt
  <2> QED
    BY <2>3, <2>4
<1> QED
  BY <1>4, <1>5

\* An entry delivered a second time is still owed to the fingerprint.
LEMMA AgainIsDebt ==
  ASSUME TurnTypes, BindInv, pc = "stage", NEW x \in Keys, changed(x), ItemOf(x) \in staged
  PROVE  ItemOf(x) \in Debt
<1>1. kid \in Kids /\ page[x] \in Entries /\ page[x] # None /\ page[x] # fp[kid][x]
  BY TurnFacts DEF changed, TurnTypes
<1>2. ASSUME fp[kid][x] # None PROVE fp[kid][x][2] < page[x][2]
  <2>1. fp[kid][x] \in Entries
    BY <1>1, <1>2 DEF TurnTypes
  <2>2. fp[kid][x][1] = (IF x \in CourseKeys THEN boundAPIID(kid) ELSE kid)
    BY <1>1, <1>2 DEF BindInv, FingerprintsOwn
  <2>3. page[x][1] = (IF x \in CourseKeys THEN boundAPIID(kid) ELSE kid)
    BY <1>1 DEF BindInv, PagesOwn
  <2>4. fp[kid][x][2] <= page[x][2]
    BY <1>1, <1>2 DEF BindInv, PagesNew
  <2> QED
    BY <1>1, <2>1, <2>2, <2>3, <2>4, EntryParts
<1>3. PICK it : it = ItemOf(x)
  OBVIOUS
<1>4. it[1] = kid /\ it[2] = x /\ it[4] = page[x][2]
  BY <1>3 DEF ItemOf
<1> QED
  BY <1>2, <1>3, <1>4 DEF Debt

\* A delivery whose fingerprint is saved: a second one pays a debt back.
LEMMA DeliverSaved ==
  ASSUME TurnTypes, BindInv, StagedInv, pc = "stage", NEW x \in Keys, changed(x), Deliver(x),
         Save(x), UNCHANGED learned, count.faults \in Nat, count'.faults = count.faults
  PROVE  StagedInv'
<1>1. PICK it : it = ItemOf(x)
  OBVIOUS
<1>2. /\ staged' = staged \cup {it} /\ IsFiniteSet(staged') /\ staged' \subseteq Itemset
      /\ dups' = (IF it \in staged THEN dups + 1 ELSE dups) /\ it \in Itemset
  BY <1>1, DeliverEffect
<1>3. it[1] = kid /\ it[2] = x /\ it[3] = page[x][1] /\ it[4] = page[x][2]
  BY <1>1 DEF ItemOf
<1>4. PICK D : D = Debt
  OBVIOUS
<1>5. PICK E : E = Debt'
  OBVIOUS
<1>6. E \subseteq D \ {it}
  BY <1>2, <1>3, <1>4, <1>5, SaveDebt
<1>7. IsFiniteSet(D) /\ Cardinality(D) \in Nat /\ dups \in Nat /\ dups + Cardinality(D) <= count.faults
  BY <1>4, FS_Subset, FS_CardinalityType DEF StagedInv, Debt
<1>8. IsFiniteSet(D \ {it}) /\ Cardinality(D \ {it}) = (IF it \in D THEN Cardinality(D) - 1 ELSE Cardinality(D))
  BY <1>7, FS_RemoveElement
<1>9. IsFiniteSet(E) /\ Cardinality(E) <= Cardinality(D \ {it})
  BY <1>6, <1>8, FS_Subset
<1>10. Cardinality(E) \in Nat
  BY <1>9, FS_CardinalityType
<1>11. it \in staged => it \in D
  BY <1>1, <1>4, AgainIsDebt
<1>12. dups' \in Nat /\ dups' + Cardinality(E) <= count'.faults
  BY <1>2, <1>7, <1>8, <1>9, <1>10, <1>11
<1>13. NoChangePassedOver'
  <2> SUFFICES ASSUME NEW k \in Kids, NEW y \in Keys, fp'[k][y] # None
               PROVE  \/ <<k, y, fp'[k][y][1], fp'[k][y][2]>> \in staged'
                      \/ <<fp'[k][y][1], y>> \in Quiet /\ y \in CourseKeys \cup {"term_grade", "attendance_day"}
    BY DEF NoChangePassedOver
  <2>1. fp'[k][y] = IF k = kid /\ y = x THEN page[x] ELSE fp[k][y]
    BY SaveEffect
  <2>2. CASE k = kid /\ y = x
    BY <1>1, <1>2, <2>1, <2>2 DEF ItemOf
  <2>3. CASE ~(k = kid /\ y = x)
    BY <1>2, <2>1, <2>3 DEF StagedInv, NoChangePassedOver
  <2> QED
    BY <2>2, <2>3
<1>14. OwnStudent'
  BY DeliverEffect
<1> QED
  BY <1>2, <1>5, <1>12, <1>13, <1>14 DEF StagedInv, Itemset

\* An entry taken as known without a delivery.
LEMMA BaselineSaved ==
  ASSUME TurnTypes, BindInv, StagedInv, NEW x \in Keys, changed(x), Save(x),
         UNCHANGED <<staged, dups, learned>>, count.faults \in Nat, count'.faults = count.faults,
         <<page[x][1], x>> \in Quiet, x \in CourseKeys \cup {"term_grade", "attendance_day"}
  PROVE  StagedInv'
<1>1. kid \in Kids /\ page[x] \in Entries
  BY TurnFacts DEF changed, TurnTypes
<1>2. PICK it : it = ItemOf(x)
  OBVIOUS
<1>3. it \in Itemset /\ it[1] = kid /\ it[2] = x /\ it[4] = page[x][2]
  BY <1>1, <1>2, EntryParts DEF ItemOf, Itemset
<1>4. PICK D : D = Debt
  OBVIOUS
<1>5. PICK E : E = Debt'
  OBVIOUS
<1>6. E \subseteq D
  BY <1>3, <1>4, <1>5, SaveDebt
<1>7. IsFiniteSet(D) /\ Cardinality(D) \in Nat /\ dups \in Nat /\ dups + Cardinality(D) <= count.faults
  BY <1>4, FS_Subset, FS_CardinalityType DEF StagedInv, Debt
<1>8. IsFiniteSet(E) /\ Cardinality(E) <= Cardinality(D)
  BY <1>6, <1>7, FS_Subset
<1>9. Cardinality(E) \in Nat
  BY <1>8, FS_CardinalityType
<1>10. dups + Cardinality(E) <= count'.faults
  BY <1>7, <1>8, <1>9
<1>11. NoChangePassedOver'
  <2> SUFFICES ASSUME NEW k \in Kids, NEW y \in Keys, fp'[k][y] # None
               PROVE  \/ <<k, y, fp'[k][y][1], fp'[k][y][2]>> \in staged'
                      \/ <<fp'[k][y][1], y>> \in Quiet /\ y \in CourseKeys \cup {"term_grade", "attendance_day"}
    BY DEF NoChangePassedOver
  <2>1. fp'[k][y] = IF k = kid /\ y = x THEN page[x] ELSE fp[k][y]
    BY SaveEffect
  <2> QED
    BY <2>1 DEF StagedInv, NoChangePassedOver
<1>12. OwnStudent'
  BY DEF StagedInv, OwnStudent
<1> QED
  BY <1>5, <1>10, <1>11, <1>12 DEF StagedInv

\* Every step keeps what is staged accounted for.
LEMMA StagedStep ==
  ASSUME TurnTypes, Counts, Counts', BindInv, StagedInv, TurnNext, TurnTypes'
  PROVE  StagedInv'
<1>1. count.faults \in Nat /\ count'.faults \in Nat /\ count \in CountRec /\ clean \in BOOLEAN
  BY DEF Counts, CountRec, TurnTypes
<1>2. CASE stageStep
  <2>1. PICK x \in Keys, n \in {0, 1} :
           /\ Fault(n)
           /\ \/ UNCHANGED <<fp, staged, dups>>
              \/ /\ changed(x) /\ Save(x) /\ n = 0 /\ UNCHANGED <<staged, dups>>
                 /\ <<page[x][1], x>> \in Quiet
                 /\ x \in CourseKeys \cup {"term_grade", "attendance_day"}
              \/ changed(x) /\ Deliver(x) /\ Save(x) /\ n = 0
              \/ changed(x) /\ Deliver(x) /\ UNCHANGED fp /\ n = 1
    BY <1>1, <1>2, StageEffect
  <2>2. count'.faults = count.faults + n
    BY <1>1, <2>1, FaultEffect
  <2>3. pc = "stage" /\ UNCHANGED learned
    BY <1>2, StageCases
  <2>4. CASE UNCHANGED <<fp, staged, dups>>
    BY <1>1, <2>2, <2>3, <2>4, StagedFrame
  <2>5. CASE /\ changed(x) /\ Save(x) /\ n = 0 /\ UNCHANGED <<staged, dups>>
             /\ <<page[x][1], x>> \in Quiet
             /\ x \in CourseKeys \cup {"term_grade", "attendance_day"}
    BY <1>1, <2>2, <2>3, <2>5, BaselineSaved
  <2>6. CASE changed(x) /\ Deliver(x) /\ Save(x) /\ n = 0
    BY <1>1, <2>2, <2>3, <2>6, DeliverSaved
  <2>7. CASE changed(x) /\ Deliver(x) /\ UNCHANGED fp /\ n = 1
    BY <1>1, <2>2, <2>3, <2>7, DeliverUnsaved
  <2> QED
    BY <2>1, <2>4, <2>5, <2>6, <2>7
<1>3. CASE Crash
  <2>1. Fault(1) /\ UNCHANGED <<fp, learned>>
    BY <1>3 DEF Crash, checkpoint
  <2>2. count'.faults = count.faults + 1
    BY <1>1, <2>1, FaultEffect
  <2>3. CASE UNCHANGED hist
    BY <1>1, <2>1, <2>2, <2>3, StagedFrame DEF hist
  <2>4. CASE pc = "stage" /\ delivers(stageSteps) /\ Deliver(stageSteps)
    <3>1. stageSteps \in Keys /\ changed(stageSteps)
      BY <2>4, StageOrderAt DEF stageSteps, TurnTypes, delivers
    <3> QED
      BY <1>1, <2>1, <2>2, <2>4, <3>1, DeliverUnsaved
  <2> QED
    BY <1>3, <2>3, <2>4 DEF Crash
<1>4. CASE confirmStillSelected
  <2>1. UNCHANGED <<staged, dups, fp, count>> /\ pc = "confirm"
    BY <1>4 DEF confirmStillSelected, hist
  <2>2. \A k \in Kids : learned[k] # None => learned'[k] = learned[k]
    <3>1. CASE UNCHANGED learned
      BY <3>1
    <3>2. CASE pc' = "stage"
      BY <1>4, <2>1, <3>2, BindLearn DEF confirmStillSelected, EndTurn, world, turn
    <3> QED
      BY <1>4, <3>1, <3>2 DEF confirmStillSelected
  <2> QED
    BY <1>1, <2>1, <2>2, StagedFrame
<1>5. ASSUME UNCHANGED <<staged, dups, fp, learned>>, count.faults <= count'.faults
      PROVE  StagedInv'
  BY <1>1, <1>5, StagedFrame
<1>6. ASSUME Fault(1) PROVE count.faults <= count'.faults
  BY <1>1, <1>6, FaultEffect
<1>7. ASSUME NEW s \in Students, SwitchStudent(s) PROVE StagedInv'
  BY <1>1, <1>5, <1>7 DEF SwitchStudent, hist, checkpoint, CountRec
<1>8. ASSUME NEW s \in Students, NEW x \in Keys, ChangeEntry(s, x) PROVE StagedInv'
  BY <1>1, <1>5, <1>8 DEF ChangeEntry, hist, checkpoint, CountRec
<1>9. CASE pollKids
  BY <1>1, <1>5, <1>9 DEF pollKids, hist, checkpoint, CountRec
<1>10. CASE IntervalPasses \/ SelectStudent \/ stampReads \/ endPoll \/ Restart
  BY <1>1, <1>5, <1>10 DEF IntervalPasses, SelectStudent, stampReads, endPoll, Restart, hist, checkpoint
<1>11. CASE SelectFails \/ readFails \/ confirmFails
  BY <1>5, <1>6, <1>11 DEF SelectFails, readFails, confirmFails, hist, checkpoint
<1>12. CASE readStep
  BY <1>1, <1>5, <1>12, ReadCases
<1> QED
  BY <1>2, <1>3, <1>4, <1>7, <1>8, <1>9, <1>10, <1>11, <1>12 DEF TurnNext

-----------------------------------------------------------------------------
(* A poll that nothing disturbs.                                            *)

\* A binding is never given up, so a kid that is caught up stays so while
\* nothing is saved and nothing changes on the portal.
LEMMA CaughtUpKept ==
  ASSUME TurnTypes, UNCHANGED <<portal, cfg, fp>>,
         \A k \in Kids : boundAPIID(k) # None => boundAPIID(k)' = boundAPIID(k)
  PROVE  \A k \in Kids : /\ CaughtUp(k) => CaughtUp(k)'
                         /\ \A x \in Keys : CaughtUpOn(k, x) => CaughtUpOn(k, x)'
<1>1. ASSUME NEW k \in Kids PROVE misled(k) => misled(k)'
  <2>1. k # None
    BY TurnAssumption
  <2> QED
    BY <2>1 DEF misled
<1>2. \A k \in Kids, x \in Keys : CaughtUpOn(k, x) => CaughtUpOn(k, x)'
  BY DEF CaughtUpOn, shown
<1> QED
  BY <1>1, <1>2 DEF CaughtUp

LEMMA SameBindings ==
  ASSUME UNCHANGED <<cfg, learned>>
  PROVE  \A k \in Kids : boundAPIID(k)' = boundAPIID(k)
BY DEF boundAPIID

LEMMA OrderFacts ==
  /\ Len(KidOrder) \in Nat
  /\ \A i \in 1..Len(KidOrder) : KidOrder[i] \in Kids
  /\ \A i, j \in 1..Len(KidOrder) : KidOrder[i] = KidOrder[j] => i = j
  /\ \A k \in Kids : \E i \in 1..Len(KidOrder) : KidOrder[i] = k
BY TurnAssumption

\* A turn that ends with its kid caught up.
LEMMA CleanEndTurn ==
  ASSUME TurnTypes, NEW how \in {"read", "kid"}, EndTurn(how), Ahead, CaughtUp(kid),
         UNCHANGED <<portal, cfg, fp, learned>>,
         \A k \in Kids, x \in Timed : <<k, x>> \in stamped' => <<k, x>> \in stamped \/ k = kid
  PROVE  CleanInv'
<1>1. ki \in 1..Len(KidOrder) /\ Len(KidOrder) \in Nat /\ ki \in Nat
  BY OrderFacts DEF TurnTypes
<1>2. ~poll'.auth
  BY EndTurnEffect
<1>3. \A k \in Kids : CaughtUp(k) => CaughtUp(k)'
  BY CaughtUpKept, SameBindings
<1>4. \A j \in 1..ki : CaughtUp(KidOrder[j])
  BY <1>1 DEF Ahead, kid
<1>5. \A j \in 1..ki : CaughtUp(KidOrder[j])'
  BY <1>1, <1>3, <1>4, OrderFacts
<1>6. CASE pc' = "select" /\ ki' = ki + 1
  <2>1. \A j \in 1..(ki' - 1) : CaughtUp(KidOrder[j])'
    BY <1>1, <1>5, <1>6
  <2>2. \A j \in ki'..Len(KidOrder), x \in Timed : <<KidOrder[j], x>> \notin stamped'
    <3> SUFFICES ASSUME NEW j \in (ki + 1)..Len(KidOrder), NEW x \in Timed
                 PROVE  <<KidOrder[j], x>> \notin stamped'
      BY <1>6
    <3>1. KidOrder[j] \in Kids /\ KidOrder[j] # kid
      BY <1>1, OrderFacts DEF kid
    <3>2. <<KidOrder[j], x>> \notin stamped
      BY <1>1 DEF Ahead
    <3> QED
      BY <3>1, <3>2
  <2>3. Ahead'
    BY <2>1, <2>2 DEF Ahead
  <2> QED
    BY <1>2, <1>6, <2>3 DEF CleanInv, InTurn
<1>7. CASE pc' = "end" /\ ki = Len(KidOrder)
  <2>1. \A k \in Kids : CaughtUp(k)'
    <3> SUFFICES ASSUME NEW k \in Kids PROVE CaughtUp(k)'
      OBVIOUS
    <3>1. PICK i \in 1..Len(KidOrder) : KidOrder[i] = k
      BY OrderFacts
    <3> QED
      BY <1>5, <1>7, <3>1
  <2> QED
    BY <1>2, <1>7, <2>1 DEF CleanInv, InTurn
<1> QED
  BY <1>6, <1>7, EndTurnEffect

LEMMA ReadsCover ==
  /\ Reads[3] = "comment_list" /\ Reads[4] = "comment"
  /\ \A i \in 1..6 : Reads[i] = "comment" => i = 4
  /\ \A x \in Keys \ HomeKeys : \E i \in 1..6 : Reads[i] = x
<1>1. /\ Reads[1] = "term_grade" /\ Reads[2] = "attendance_day" /\ Reads[3] = "comment_list"
      /\ Reads[4] = "comment" /\ Reads[5] = "course1" /\ Reads[6] = "course2"
  BY DEF Reads
<1>2. \A i \in 1..6 : Reads[i] = "comment" => i = 4
  BY DEF Reads
<1>3. ASSUME NEW x \in Keys \ HomeKeys PROVE \E i \in 1..6 : Reads[i] = x
  <2>1. x \in {"course1", "course2", "term_grade", "attendance_day", "comment"}
    BY DEF Keys, HomeKeys, CourseKeys, ExtraKeys
  <2> QED
    BY <1>1, <2>1
<1> QED
  BY <1>1, <1>2, <1>3

\* A read step that goes on, in an undisturbed poll.
LEMMA CleanReadOn ==
  ASSUME TurnTypes, TurnTypes', CleanInv, clean, pc = "read", NextRead,
         UNCHANGED <<portal, cfg, sel, fp, learned, stamped, ki, poll>>,
         noted \subseteq noted', seen' \in {None, kid},
         \A y \in Keys : page'[y] = page[y] \/ page'[y] = <<kid, portal[kid][y]>>,
         NEW r, r = Reads[at], Got(r)'
  PROVE  CleanInv'
<1>1. /\ ~poll.auth /\ Ahead /\ Undisturbed /\ \A i \in 1..(at - 1) : Got(Reads[i])
  BY DEF CleanInv, InTurn
<1>2. kid' = kid /\ kid \in Kids /\ kid \in Students
  BY TurnFacts DEF kid
<1>3. \A k \in Kids : CaughtUp(k) => CaughtUp(k)'
  BY CaughtUpKept, SameBindings
<1>4. Ahead'
  BY <1>1, <1>3, OrderFacts DEF Ahead, TurnTypes
<1>5. \A y \in Keys : page[y] # None => page'[y] # None
  <2>1. \A y \in Keys : <<kid, portal[kid][y]>> # None
    BY <1>2, TurnFacts
  <2> QED
    BY <2>1
<1>6. Undisturbed'
  BY <1>1, <1>2, <1>5 DEF Undisturbed, Keys
<1>7. \A x \in Keys \cup {"comment_list"} : Got(x) => Got(x)'
  BY <1>5 DEF Got, shown
<1>8. \A i \in 1..6 : Reads[i] \in Keys \cup {"comment_list"}
  BY DEF Reads, Keys, HomeKeys, CourseKeys, ExtraKeys
<1>9. at \in 1..6 /\ \A i \in 1..at : Got(Reads[i])'
  <2>1. at \in 1..6
    BY DEF TurnTypes
  <2> SUFFICES ASSUME NEW i \in 1..at PROVE Got(Reads[i])'
    BY <2>1
  <2>2. CASE i = at
    BY <2>2
  <2>3. CASE i # at
    <3>1. i \in 1..(at - 1) /\ i \in 1..6
      BY <2>1, <2>3
    <3> QED
      BY <1>1, <1>7, <1>8, <3>1
  <2> QED
    BY <2>2, <2>3
<1>10. CASE at < 6 /\ at' = at + 1 /\ pc' = "read"
  <2>1. \A i \in 1..(at' - 1) : Got(Reads[i])'
    BY <1>9, <1>10
  <2> QED
    BY <1>1, <1>4, <1>6, <1>10, <2>1 DEF CleanInv
<1>11. CASE at = 6 /\ at' = 1 /\ pc' = "confirm"
  <2>1. ASSUME NEW x \in Keys PROVE Got(x)'
    <3>1. CASE x \in HomeKeys
      BY <1>6, <3>1 DEF Undisturbed, Got, HomeKeys
    <3>2. CASE x \notin HomeKeys
      BY <1>9, <1>11, <3>2, ReadsCover
    <3> QED
      BY <3>1, <3>2
  <2> QED
    BY <1>1, <1>4, <1>6, <1>11, <2>1 DEF CleanInv
<1> QED
  BY <1>10, <1>11, NextReadEffect

\* A scores page of the kid itself is refused only when a binding learned by
\* mistake stands in the way.
LEMMA RefusedOnlyMisled ==
  ASSUME TurnTypes, seen \in {None, kid}, ~bindingCheck(kid)
  PROVE  misled(kid)
<1>1. CASE kid \in others
  BY <1>1 DEF misled, others
<1>2. CASE boundAPIID(kid) # None /\ kid # boundAPIID(kid)
  BY <1>2 DEF misled
<1> QED
  BY <1>1, <1>2 DEF bindingCheck

LEMMA CleanRead ==
  ASSUME TurnTypes, TurnTypes', BindInv, CleanInv, clean, readStep
  PROVE  CleanInv'
<1>1. /\ pc = "read"
      /\ UNCHANGED <<portal, cfg, sel, fp, learned, stamped, lists, failed, staged, dups, away,
                     clean, count>>
  BY ReadCases
<1>2. /\ ~poll.auth /\ Ahead /\ Undisturbed /\ \A i \in 1..(at - 1) : Got(Reads[i])
  BY <1>1 DEF CleanInv, InTurn
<1>3. kid \in Kids /\ kid \in Students /\ sel = kid /\ seen \in {None, kid}
  BY <1>2, TurnFacts DEF Undisturbed
<1>4. PICK r \in (Keys \ HomeKeys) \cup {"comment_list"} : r = Reads[at]
  BY <1>1, ReadsAt
<1>5. \A x \in Timed : <<kid, x>> \notin stamped
  BY <1>2, OrderFacts DEF Ahead, kid, TurnTypes
<1>6. /\ page \in [Keys -> Entries \cup {None}] /\ "comment" \in Keys /\ "comment_list" \notin Keys
      /\ \A x \in Keys : <<kid, portal[kid][x]>> # None
  <2>1. "comment" \in Keys /\ "comment_list" \notin Keys
    BY DEF Keys, HomeKeys, CourseKeys, ExtraKeys
  <2>2. \A x \in Keys : <<kid, portal[kid][x]>> # None
    BY <1>3, TurnFacts
  <2> QED
    BY <2>1, <2>2 DEF TurnTypes
<1>7. CASE EndTurn("kid") /\ wanted(r) /\ (IF r \in CourseKeys THEN ~bindingCheck(sel) ELSE sel # kid)
  <2>1. r \in CourseKeys /\ ~bindingCheck(kid) /\ cfg.assignments
    BY <1>3, <1>7 DEF wanted
  <2>2. CaughtUp(kid)
    BY <1>3, <2>1, RefusedOnlyMisled DEF CaughtUp
  <2> QED
    BY <1>1, <1>2, <1>7, <2>2, CleanEndTurn
<1>8. CASE NextRead /\ UNCHANGED <<ki, poll, page, noted, seen>> /\ ~wanted(r)
  <2>1. Got(r)
    <3>1. CASE r \in CourseKeys
      <4>1. ~cfg.assignments
        BY <1>8, <3>1 DEF wanted
      <4>2. ~shown(r)
        BY <3>1, <4>1 DEF shown
      <4>3. r # "comment_list"
        BY <3>1 DEF CourseKeys
      <4> QED
        BY <4>1, <4>2, <4>3 DEF Got
    <3>2. CASE r = "comment"
      <4>1. at = 4
        <5>1. at \in 1..6
          BY <1>1 DEF TurnTypes
        <5> QED
          BY <1>4, <3>2, <5>1, ReadsCover
      <4>2. Got("comment_list")
        BY <1>2, <4>1, ReadsCover
      <4> QED
        BY <1>5, <1>8, <3>2, <4>2 DEF wanted, surfaceDue, Got, shown, CourseKeys, ExtraKeys
    <3>3. CASE r \notin CourseKeys /\ r # "comment"
      BY <1>4, <1>5, <1>8, <3>3 DEF wanted, surfaceDue, Got, shown, CourseKeys, ExtraKeys, Keys, HomeKeys
    <3> QED
      BY <3>1, <3>2, <3>3
  <2>2. Got(r)'
    BY <1>1, <1>8, <2>1 DEF Got, shown
  <2> QED
    BY <1>1, <1>3, <1>4, <1>8, <2>2, CleanReadOn
<1>9. CASE /\ NextRead /\ UNCHANGED <<ki, poll>>
           /\ r \notin CourseKeys /\ sel = kid /\ seen' = seen
           /\ noted' = noted \cup (IF r \in Timed THEN {r} ELSE {})
           /\ \/ r # "comment_list"
                 /\ page' = [page EXCEPT ![r] = <<sel, portal[sel][r]>>]
              \/ r = "comment_list" /\ page' = page
              \/ r = "comment_list"
                 /\ page' = [page EXCEPT !["comment"] = <<sel, portal[sel]["comment"]>>]
  <2>1. noted \subseteq noted' /\ seen' \in {None, kid}
    BY <1>3, <1>9
  <2>2. \A y \in Keys : page'[y] = page[y] \/ page'[y] = <<kid, portal[kid][y]>>
    BY <1>3, <1>6, <1>9
  <2>3. Got(r)'
    <3>1. CASE r = "comment_list"
      BY <1>9, <3>1 DEF Got, Timed
    <3>2. CASE r # "comment_list"
      <4>1. page'[r] = <<kid, portal[kid][r]>> /\ r \in Keys
        BY <1>3, <1>4, <1>6, <1>9, <3>2
      <4> QED
        BY <1>6, <3>2, <4>1 DEF Got
    <3> QED
      BY <3>1, <3>2
  <2> QED
    BY <1>1, <1>4, <1>9, <2>1, <2>2, <2>3, CleanReadOn
<1>10. CASE /\ NextRead /\ UNCHANGED <<ki, poll, noted>>
            /\ r \in CourseKeys /\ bindingCheck(sel)
            /\ seen' = (IF seen = None THEN sel ELSE seen)
            /\ page' = [page EXCEPT ![r] = <<sel, portal[sel][r]>>]
  <2>1. noted \subseteq noted' /\ seen' \in {None, kid}
    BY <1>3, <1>10
  <2>2. \A y \in Keys : page'[y] = page[y] \/ page'[y] = <<kid, portal[kid][y]>>
    BY <1>3, <1>6, <1>10
  <2>3. r \in Keys /\ r # "comment_list" /\ page'[r] = <<kid, portal[kid][r]>>
    BY <1>3, <1>6, <1>10 DEF Keys, CourseKeys
  <2>4. Got(r)'
    BY <1>6, <2>3 DEF Got
  <2> QED
    BY <1>1, <1>4, <1>10, <2>1, <2>2, <2>4, CleanReadOn
<1> QED
  BY <1>4, <1>7, <1>8, <1>9, <1>10, ReadCases

LEMMA CleanSelect ==
  ASSUME TurnTypes, TurnTypes', BindInv, CleanInv, clean, SelectStudent
  PROVE  CleanInv'
<1>1. /\ pc = "select" /\ sel' = kid /\ pc' = "read" /\ at' = 1
      /\ page' = [NoPage EXCEPT !["grade"] = <<kid, portal[kid]["grade"]>>,
                                !["attendance"] = <<kid, portal[kid]["attendance"]>>]
      /\ UNCHANGED <<portal, cfg, fp, learned, stamped, ki, seen, poll>>
  BY DEF SelectStudent, world, checkpoint
<1>2. ~poll.auth /\ Ahead
  BY <1>1 DEF CleanInv
<1>3. seen = None
  BY <1>1 DEF BindInv, Discarded, InTurn
<1>4. kid' = kid /\ kid \in Kids /\ kid \in Students
  BY <1>1, TurnFacts DEF kid
<1>5. \A k \in Kids : CaughtUp(k) => CaughtUp(k)'
  BY <1>1, CaughtUpKept, SameBindings
<1>6. Ahead'
  BY <1>1, <1>2, <1>5, OrderFacts DEF Ahead, TurnTypes
<1>7. \A x \in Keys : page'[x] = IF x \in HomeKeys THEN <<kid, portal[kid][x]>> ELSE None
  <2>1. NoPage \in [Keys -> {None}] /\ "grade" \in Keys /\ "attendance" \in Keys
    BY DEF NoPage, Keys, HomeKeys
  <2> QED
    BY <1>1, <2>1 DEF HomeKeys, NoPage
<1>8. \A x \in Keys : <<kid, portal[kid][x]>> # None
  BY <1>4, TurnFacts
<1>9. Undisturbed'
  <2>1. \A x \in HomeKeys : page'[x] # None
    BY <1>7, <1>8 DEF Keys
  <2>2. \A x \in Keys : page'[x] # None => page'[x] = <<kid, portal[kid][x]>>
    BY <1>7
  <2> QED
    BY <1>1, <1>3, <1>4, <2>1, <2>2 DEF Undisturbed
<1>10. \A i \in 1..(at' - 1) : Got(Reads[i])'
  BY <1>1
<1> QED
  BY <1>1, <1>2, <1>6, <1>9, <1>10 DEF CleanInv

LEMMA CleanConfirm ==
  ASSUME TurnTypes, TurnTypes', BindInv, CleanInv, clean, confirmStillSelected
  PROVE  CleanInv'
<1>1. pc = "confirm" /\ UNCHANGED <<portal, cfg, sel, fp, stamped>>
  BY DEF confirmStillSelected, world
<1>2. ~poll.auth /\ Ahead /\ Undisturbed /\ \A x \in Keys : Got(x)
  BY <1>1 DEF CleanInv, InTurn
<1>3. /\ learned' = IF boundAPIID(kid) = None /\ seen # None
                    THEN [learned EXCEPT ![kid] = seen] ELSE learned
      /\ pc' = "stage" /\ at' = 1 /\ UNCHANGED <<page, noted, seen, ki, poll>>
  BY <1>2 DEF confirmStillSelected, Undisturbed, turn
<1>4. \A k \in Kids : boundAPIID(k) # None => boundAPIID(k)' = boundAPIID(k)
  BY <1>1, <1>3, BindLearn
<1>5. \A k \in Kids : CaughtUp(k) => CaughtUp(k)'
  BY <1>1, <1>4, CaughtUpKept
<1>6. Ahead'
  BY <1>1, <1>2, <1>3, <1>5, OrderFacts DEF Ahead, TurnTypes
<1>7. Undisturbed'
  BY <1>1, <1>2, <1>3 DEF Undisturbed, kid
<1>8. \A x \in Keys : Got(x)'
  BY <1>1, <1>2, <1>3 DEF Got, shown
<1>9. \A i \in 1..(at' - 1) : CaughtUpOn(kid, StageOrder[i])'
  BY <1>3
<1> QED
  BY <1>2, <1>3, <1>6, <1>7, <1>8, <1>9 DEF CleanInv

\* An entry handled without a fault is caught up.
LEMMA CleanEntry ==
  ASSUME TurnTypes, count \in CountRec, stageStep, clean', Undisturbed, \A x \in Keys : Got(x)
  PROVE  \E x \in Keys :
           /\ x = StageOrder[at] /\ clean
           /\ \A k \in Kids : k = kid => CaughtUpOn(k, x)'
           /\ \A k \in Kids, y \in Keys : k # kid \/ y # x => fp'[k][y] = fp[k][y]
<1>1. PICK x \in Keys, n \in {0, 1} :
           /\ x = StageOrder[at] /\ Fault(n)
           /\ \/ /\ UNCHANGED <<fp, staged, dups>>
                 /\ n = 1 \/ ~changed(x) \/ (x = "attendance" /\ oldNews(x))
              \/ changed(x) /\ Save(x)
              \/ UNCHANGED fp /\ n = 1
  BY StageEffect
<1>2. clean /\ n = 0
  BY <1>1, FaultEffect DEF TurnTypes
<1>3. UNCHANGED <<portal, cfg>> /\ kid \in Kids
  BY StageCases, TurnFacts
<1>4. page[x] # None => page[x] = <<kid, portal[kid][x]>>
  BY DEF Undisturbed
<1>5. x # "comment_list" /\ (shown(x) => page[x] # None)
  BY DEF Got, Keys, HomeKeys, CourseKeys, ExtraKeys
<1>6. shown(x)' <=> shown(x)
  BY <1>3 DEF shown
<1>7. CASE UNCHANGED fp /\ ~changed(x)
  <2>1. ~shown(x) \/ fp[kid][x] = <<kid, portal[kid][x]>>
    BY <1>4, <1>5, <1>7 DEF changed
  <2>2. \A k \in Kids : k = kid => CaughtUpOn(k, x)'
    BY <1>3, <1>6, <1>7, <2>1 DEF CaughtUpOn
  <2> QED
    BY <1>1, <1>2, <1>7, <2>2
<1>8. CASE UNCHANGED fp /\ x = "attendance" /\ oldNews(x)
  <2>1. page[x] = <<kid, portal[kid][x]>>
    BY <1>4, <1>8 DEF Undisturbed, HomeKeys
  <2>2. page[x][1] = kid
    BY <2>1
  <2>3. <<kid, x>> \in Quiet /\ fp[kid][x] = None
    BY <1>8, <2>2 DEF oldNews, isNew
  <2>4. \A k \in Kids : k = kid => CaughtUpOn(k, x)'
    BY <1>3, <1>8, <2>3 DEF CaughtUpOn
  <2> QED
    BY <1>1, <1>2, <1>8, <2>4
<1>9. CASE changed(x) /\ Save(x)
  <2>1. fp'[kid][x] = <<kid, portal[kid][x]>>
    BY <1>4, <1>9, SaveEffect DEF changed
  <2>2. \A k \in Kids : k = kid => CaughtUpOn(k, x)'
    BY <1>3, <2>1 DEF CaughtUpOn
  <2>3. \A k \in Kids, y \in Keys : k # kid \/ y # x => fp'[k][y] = fp[k][y]
    BY <1>9, SaveEffect
  <2> QED
    BY <1>1, <1>2, <2>2, <2>3
<1> QED
  BY <1>1, <1>2, <1>7, <1>8, <1>9

LEMMA CleanStage ==
  ASSUME TurnTypes, TurnTypes', Counts, CleanInv, stageStep
  PROVE  CleanInv'
<1>0. count \in CountRec /\ clean \in BOOLEAN
  BY DEF Counts, CountRec, TurnTypes
<1> SUFFICES ASSUME clean' PROVE CleanInv'
  BY DEF CleanInv
<1>1. /\ pc = "stage" /\ NextStage
      /\ UNCHANGED <<portal, cfg, sel, learned, stamped, lists, ki, page, noted, seen, poll, failed, away>>
  BY StageCases
<1>2. clean
  <2>1. PICK n \in {0, 1} : Fault(n)
    BY <1>0, StageEffect
  <2> QED
    BY <1>0, <2>1, FaultEffect
<1>3. /\ ~poll.auth /\ Ahead /\ Undisturbed /\ \A x \in Keys : Got(x)
      /\ \A i \in 1..(at - 1) : CaughtUpOn(kid, StageOrder[i])
  BY <1>1, <1>2 DEF CleanInv, InTurn
<1>4. PICK x \in Keys :
        /\ x = StageOrder[at]
        /\ \A k \in Kids : k = kid => CaughtUpOn(k, x)'
        /\ \A k \in Kids, y \in Keys : k # kid \/ y # x => fp'[k][y] = fp[k][y]
  BY <1>0, <1>3, CleanEntry
<1>5. PICK q \in Kids : q = kid
  BY TurnFacts
<1>6. kid' = q
  BY <1>1, <1>5 DEF kid
<1>7. ASSUME NEW k \in Kids, NEW y \in Keys, k # q \/ y # x, CaughtUpOn(k, y) PROVE CaughtUpOn(k, y)'
  BY <1>1, <1>4, <1>5, <1>7 DEF CaughtUpOn, shown
<1>8. ASSUME NEW k \in Kids, k # q, CaughtUp(k) PROVE CaughtUp(k)'
  <2>1. misled(k)' <=> misled(k)
    BY <1>1 DEF misled, boundAPIID
  <2> QED
    BY <1>1, <1>7, <1>8, <2>1 DEF CaughtUp
<1>9. Ahead'
  <2>1. ki \in 1..Len(KidOrder) /\ Len(KidOrder) \in Nat
    BY OrderFacts DEF TurnTypes
  <2>2. ASSUME NEW j \in 1..(ki - 1) PROVE CaughtUp(KidOrder[j])'
    <3>1. KidOrder[j] \in Kids /\ KidOrder[j] # q
      BY <1>5, <2>1, OrderFacts DEF kid
    <3>2. CaughtUp(KidOrder[j])
      BY <1>3 DEF Ahead
    <3> QED
      BY <1>8, <3>1, <3>2
  <2> QED
    BY <1>1, <1>3, <2>2 DEF Ahead
<1>10. Undisturbed'
  BY <1>1, <1>3, <1>5, <1>6 DEF Undisturbed
<1>11. \A y \in Keys : Got(y)'
  BY <1>1, <1>3 DEF Got, shown
<1>12. at \in 1..7 /\ \A i \in 1..at : CaughtUpOn(q, StageOrder[i])'
  <2>1. at \in 1..7
    BY DEF TurnTypes
  <2>2. CaughtUpOn(q, x)'
    BY <1>4, <1>5
  <2> SUFFICES ASSUME NEW i \in 1..at PROVE CaughtUpOn(q, StageOrder[i])'
    BY <2>1
  <2>3. StageOrder[i] \in Keys
    BY <2>1, StageOrderAt
  <2>4. PICK y \in Keys : y = StageOrder[i]
    BY <2>3
  <2>5. CASE y = x
    BY <2>2, <2>4, <2>5
  <2>6. CASE y # x
    <3>1. i \in 1..(at - 1)
      BY <1>4, <2>1, <2>4, <2>6
    <3>2. CaughtUpOn(q, y)
      BY <1>3, <1>5, <2>4, <3>1
    <3> QED
      BY <1>7, <2>4, <2>6, <3>2
  <2> QED
    BY <2>5, <2>6
<1>13. CASE at < 7 /\ at' = at + 1 /\ pc' = "stage"
  <2>1. \A i \in 1..(at' - 1) : CaughtUpOn(q, StageOrder[i])'
    BY <1>12, <1>13
  <2>2. \A i \in 1..(at' - 1) : CaughtUpOn(kid, StageOrder[i])'
    BY <1>6, <2>1 DEF CaughtUpOn
  <2> QED
    BY <1>1, <1>3, <1>9, <1>10, <1>11, <1>13, <2>2 DEF CleanInv
<1>14. CASE at = 7 /\ pc' = "stamp"
  <2>1. \A y \in Keys : CaughtUpOn(q, y)'
    BY <1>12, <1>14, StageOrderAt
  <2>2. \A y \in Keys : CaughtUpOn(kid, y)'
    BY <1>6, <2>1 DEF CaughtUpOn
  <2> QED
    BY <1>1, <1>3, <1>9, <1>10, <1>11, <1>14, <2>2 DEF CleanInv
<1> QED
  BY <1>1, <1>13, <1>14, NextStageEffect

LEMMA CleanStamp ==
  ASSUME TurnTypes, CleanInv, clean, stampReads
  PROVE  CleanInv'
<1>1. /\ pc = "stamp" /\ EndTurn("read") /\ UNCHANGED <<portal, cfg, fp, learned>>
      /\ stamped' = stamped \cup {<<kid, x>> : x \in noted \cup
                       (IF page["comment"] # None THEN {"comment"} ELSE {})}
  BY DEF stampReads, world
<1>2. Ahead /\ \A x \in Keys : CaughtUpOn(kid, x)
  BY <1>1 DEF CleanInv, InTurn
<1>3. CaughtUp(kid)
  BY <1>2 DEF CaughtUp
<1>4. \A k \in Kids, x \in Timed : <<k, x>> \in stamped' => <<k, x>> \in stamped \/ k = kid
  BY <1>1
<1> QED
  BY <1>1, <1>2, <1>3, <1>4, CleanEndTurn

\* Every step keeps the account of an undisturbed poll.
LEMMA CleanStep ==
  ASSUME TurnTypes, TurnTypes', Counts, BindInv, CleanInv, TurnNext
  PROVE  CleanInv'
<1>0. count \in CountRec /\ clean \in BOOLEAN /\ clean' \in BOOLEAN
  BY DEF Counts, CountRec, TurnTypes
<1>1. ASSUME ~clean' PROVE CleanInv'
  BY <1>1 DEF CleanInv
<1>2. ASSUME Fault(1) PROVE CleanInv'
  BY <1>0, <1>1, <1>2, FaultEffect
<1>3. CASE (\E s \in Students : SwitchStudent(s)) \/ (\E s \in Students, x \in Keys : ChangeEntry(s, x))
  BY <1>1, <1>3 DEF SwitchStudent, ChangeEntry
<1>4. CASE SelectFails \/ readFails \/ confirmFails \/ Crash
  BY <1>2, <1>4 DEF SelectFails, readFails, confirmFails, Crash
<1>5. CASE pollKids
  <2>1. /\ pc' = "select" /\ ki' = 1 /\ ~poll'.auth /\ clean' = (stamped = {}) /\ stamped' = stamped
    BY <1>5 DEF pollKids, checkpoint
  <2>2. ASSUME clean' PROVE Ahead'
    <3>1. stamped = {}
      BY <2>1, <2>2
    <3>2. ki' = 1 /\ stamped' = {}
      BY <2>1, <3>1
    <3>3. \A j \in 1..(ki' - 1) : CaughtUp(KidOrder[j])'
      BY <3>2
    <3> QED
      BY <3>2, <3>3 DEF Ahead
  <2> QED
    BY <2>1, <2>2 DEF CleanInv, InTurn
<1>6. CASE ~clean /\ (IntervalPasses \/ Restart \/ endPoll \/ SelectStudent \/ readStep
                      \/ confirmStillSelected \/ stampReads)
  BY <1>1, <1>6 DEF IntervalPasses, Restart, endPoll, SelectStudent, readStep, confirmStillSelected,
                    stampReads
<1>7. ASSUME UNCHANGED <<portal, cfg, fp, learned>>, clean, pc \in {"idle", "stopped", "end"},
             pc' \in {"idle", "stopped"}
      PROVE  CleanInv'
  <2>1. \A k \in Kids : CaughtUp(k)
    BY <1>7 DEF CleanInv
  <2>2. \A k \in Kids : CaughtUp(k)'
    BY <1>7, <2>1, CaughtUpKept, SameBindings
  <2> QED
    BY <1>7, <2>2 DEF CleanInv, InTurn
<1>8. CASE clean /\ (IntervalPasses \/ Restart)
  BY <1>7, <1>8 DEF IntervalPasses, Restart, world, checkpoint
<1>9. CASE clean /\ endPoll
  <2>1. pc = "end" /\ UNCHANGED <<portal, cfg, fp, learned>>
    BY <1>9 DEF endPoll, world, checkpoint
  <2>2. ~poll.auth
    BY <1>9, <2>1 DEF CleanInv
  <2>3. pc' \in {"idle", "stopped"}
    BY <1>9, <2>2 DEF endPoll
  <2> QED
    BY <1>7, <1>9, <2>1, <2>3
<1>10. CASE clean /\ (SelectStudent \/ readStep \/ confirmStillSelected \/ stampReads)
  BY <1>10, CleanSelect, CleanRead, CleanConfirm, CleanStamp
<1>11. CASE stageStep
  BY <1>11, CleanStage
<1> QED
  BY <1>0, <1>3, <1>4, <1>5, <1>6, <1>8, <1>9, <1>10, <1>11 DEF TurnNext

-----------------------------------------------------------------------------
LEMMA TurnStart == TurnInit => TurnInv
<1> SUFFICES ASSUME TurnInit PROVE TurnInv
  OBVIOUS
<1>1. /\ Len(KidOrder) \in Nat \ {0} /\ KidOrder[1] \in Kids /\ KidOrder[1] \in Students
      /\ MaxChanges \in Nat /\ MaxPolls \in Nat
  BY TurnAssumption DEF Students
<1>2. TurnTypes
  <2>1. portal \in [Students -> [Keys -> 1..(MaxChanges + 1)]]
    BY <1>1 DEF TurnInit
  <2>2. poll \in [read : Nat, auth : BOOLEAN, renewed : BOOLEAN]
    BY DEF TurnInit
  <2>3. fp \in [Kids -> [Keys -> Entries \cup {None}]] /\ page \in [Keys -> Entries \cup {None}]
    BY DEF TurnInit, NoPage
  <2>4. learned \in [Kids -> Students \cup {None}]
    BY DEF TurnInit
  <2>5. clean \in BOOLEAN /\ cfg \in [bound : SUBSET Kids, assignments : BOOLEAN, extras : BOOLEAN]
    BY DEF TurnInit
  <2>6. /\ sel \in Students /\ ki \in 1..Len(KidOrder) /\ seen \in Students \cup {None}
        /\ stamped = {} /\ noted = {} /\ lists = {} /\ pc = "idle" /\ at \in 1..7
    BY <1>1 DEF TurnInit
  <2> QED
    BY <2>1, <2>2, <2>3, <2>4, <2>5, <2>6 DEF TurnTypes
<1>3. Counts
  BY <1>1 DEF TurnInit, Counts
<1>4. BindInv
  <2>1. \A x \in Keys : page[x] = None
    BY DEF TurnInit, NoPage
  <2>2. \A k \in Kids, x \in Keys : fp[k][x] = None
    BY DEF TurnInit
  <2>3. NoSharedBinding
    BY TurnAssumption DEF TurnInit, NoSharedBinding, boundAPIID
  <2> QED
    BY <2>1, <2>2, <2>3 DEF TurnInit, BindInv, Discarded, PagesOwn, FingerprintsOwn, PagesNew,
                            CourseKeys, Keys
<1>5. StagedInv
  <2>1. staged = {} /\ dups = 0 /\ count.faults = 0 /\ \A k \in Kids, x \in Keys : fp[k][x] = None
    BY DEF TurnInit
  <2>2. Debt = {} /\ Cardinality({}) = 0 /\ IsFiniteSet({})
    BY <2>1, FS_EmptySet DEF Debt
  <2> QED
    BY <2>1, <2>2 DEF StagedInv, OwnStudent, NoChangePassedOver
<1>6. CleanInv
  BY DEF TurnInit, CleanInv
<1> QED
  BY <1>2, <1>3, <1>4, <1>5, <1>6 DEF TurnInv

LEMMA TurnStep == ASSUME TurnInv, [TurnNext]_vars PROVE TurnInv'
<1>1. CASE TurnNext
  <2>1. TurnTypes' /\ Counts'
    BY <1>1, TypesStep DEF TurnInv
  <2> QED
    BY <1>1, <2>1, BindStep, StagedStep, CleanStep DEF TurnInv
<1>2. CASE UNCHANGED vars
  <2>1. TurnTypes' /\ Counts'
    BY <1>2 DEF vars, TurnInv, TurnTypes, Counts
  <2>2. BindInv'
    <3>1. pc' = pc /\ UNCHANGED <<portal, cfg, learned, fp, page, noted, seen, ki>>
      BY <1>2 DEF vars
    <3>2. PortalGrows
      BY <3>1 DEF PortalGrows, TurnInv, TurnTypes
    <3> QED
      BY <2>1, <3>1, <3>2, BindSame DEF TurnInv
  <2>3. StagedInv'
    <3>1. UNCHANGED <<staged, dups, fp, learned, count>> /\ count.faults \in Nat
      BY <1>2 DEF vars, TurnInv, Counts
    <3> QED
      BY <3>1, StagedFrame DEF TurnInv
  <2>4. CleanInv'
    BY <1>2 DEF vars, TurnInv, CleanInv, Ahead, Undisturbed, InTurn, Got, CaughtUp, CaughtUpOn,
                shown, misled, boundAPIID, kid
  <2> QED
    BY <2>1, <2>2, <2>3, <2>4 DEF TurnInv
<1> QED
  BY <1>1, <1>2

LEMMA TurnInvSafe == TurnInv => TurnSafe
<1> SUFFICES ASSUME TurnInv PROVE TurnSafe
  OBVIOUS
<1>1. TurnTypeOK
  <2>1. Len(StageOrder) = 7 /\ Len(Reads) = 6
    BY DEF StageOrder, Reads
  <2>2. failed \in 0..MaxPolls
    BY TurnAssumption DEF TurnInv, Counts
  <2>3. \A k \in Kids, x \in Keys : fp[k][x] # None => fp[k][x] \in Students \X (1..(MaxChanges + 1))
    BY DEF TurnInv, TurnTypes, Entries
  <2>4. \A x \in Keys : page[x] # None => page[x] \in Students \X (1..(MaxChanges + 1))
    BY DEF TurnInv, TurnTypes, Entries
  <2> QED
    BY <2>1, <2>2, <2>3, <2>4 DEF TurnInv, TurnTypes, TurnTypeOK
<1>2. RestagedOnlyAfterFault
  <2>1. Cardinality(Debt) \in Nat
    BY FS_Subset, FS_CardinalityType DEF TurnInv, StagedInv, Debt
  <2>2. dups \in Nat /\ dups + Cardinality(Debt) <= count.faults /\ count.faults \in Nat
    BY DEF TurnInv, StagedInv, Counts
  <2> QED
    BY <2>1, <2>2 DEF RestagedOnlyAfterFault
<1>3. CleanPollCatchesUp
  <2> SUFFICES ASSUME pc = "idle", clean, NEW k \in Kids, NEW x \in Keys
               PROVE  \/ ~shown(x)
                      \/ cfg.assignments /\ misled(k)
                      \/ fp[k][x] = <<k, portal[k][x]>>
                      \/ x = "attendance" /\ <<k, x>> \in Quiet /\ fp[k][x] = None
    BY DEF CleanPollCatchesUp
  <2>1. CaughtUp(k)
    BY DEF TurnInv, CleanInv
  <2> QED
    BY <2>1 DEF CaughtUp, CaughtUpOn
<1> QED
  BY <1>1, <1>2, <1>3 DEF TurnSafe, TurnInv, StagedInv, BindInv

\* Whoever else selects students in the session and wherever the process dies,
\* every kid gets its own student's pages, no two kids share a student, no
\* change is passed over, a second delivery costs a fault and an undisturbed
\* poll catches up (pollKids, confirmStillSelected, binding.go).
THEOREM TurnIsKept == MCSpec => []TurnKept
<1>1. MCInit => TurnInv
  BY TurnStart DEF MCInit
<1>2. TurnInv /\ [MCNext]_<<gateVars, vars, carryVars, pollVars, part>> => TurnInv'
  BY TurnStep DEF MCNext
<1>3. TurnInv => TurnKept
  BY TurnInvSafe DEF TurnKept
<1> QED
  BY <1>1, <1>2, <1>3, PTL DEF MCSpec

\* While a turn runs, a selection of another student leaves its mark: one that
\* stands was one switch, one that a scores page carried and that no longer
\* stands was two.
AwayInv ==
  InTurn =>
    /\ sel # kid => away >= 1
    /\ seen # None => cfg.assignments
    /\ seen \notin {None, kid} => away >= 1 /\ (sel = kid => away >= 2)

LEMMA AwayStep ==
  ASSUME TurnTypes, Counts, BindInv, AwayInv, TurnNext
  PROVE  AwayInv'
<1>1. away \in Nat
  BY DEF Counts
<1>2. ASSUME ~InTurn' PROVE AwayInv'
  BY <1>2 DEF AwayInv
<1>3. ASSUME NEW how, EndTurn(how) PROVE AwayInv'
  BY <1>2, <1>3, EndTurnEffect DEF InTurn
<1>4. ASSUME InTurn, UNCHANGED <<sel, ki, cfg, away, seen>> PROVE AwayInv'
  BY <1>4 DEF AwayInv, kid
<1>5. ASSUME NEW s \in Students, SwitchStudent(s) PROVE AwayInv'
  <2>1. s # sel /\ sel' = s /\ away' = away + 1 /\ UNCHANGED <<pc, ki, cfg, seen>>
    BY <1>5 DEF SwitchStudent, world, turn
  <2>2. kid' = kid /\ (InTurn' <=> InTurn)
    BY <2>1 DEF kid, InTurn
  <2> QED
    BY <1>1, <2>1, <2>2 DEF AwayInv
<1>6. ASSUME NEW s \in Students, NEW x \in Keys, ChangeEntry(s, x) PROVE AwayInv'
  BY <1>2, <1>4, <1>6 DEF ChangeEntry, turn, InTurn
<1>7. CASE IntervalPasses \/ pollKids \/ endPoll \/ Restart \/ Crash
  BY <1>2, <1>7 DEF IntervalPasses, pollKids, endPoll, Restart, Crash, InTurn
<1>8. CASE SelectStudent
  <2>1. sel' = kid /\ UNCHANGED <<ki, seen>> /\ seen = None
    BY <1>8 DEF SelectStudent, BindInv, Discarded, InTurn
  <2>2. kid' = kid
    BY <2>1 DEF kid
  <2> QED
    BY <2>1, <2>2 DEF AwayInv
<1>9. CASE SelectFails \/ confirmFails
  BY <1>3, <1>9 DEF SelectFails, confirmFails
<1>10. CASE readStep
  <2>1. pc = "read" /\ UNCHANGED <<cfg, sel, away>>
    BY <1>10, ReadCases
  <2>2. CASE EndTurn("kid")
    BY <1>3, <2>2
  <2>3. CASE UNCHANGED <<ki, seen>>
    BY <1>4, <2>1, <2>3 DEF InTurn
  <2>4. CASE UNCHANGED ki /\ seen' = (IF seen = None THEN sel ELSE seen) /\ cfg.assignments
    <3>1. kid' = kid /\ kid # None
      BY <2>4, TurnFacts DEF kid
    <3> QED
      BY <1>1, <2>1, <2>4, <3>1 DEF AwayInv, InTurn
  <2> QED
    BY <1>10, <2>2, <2>3, <2>4 DEF readStep, Skip, ReadExtra, ReadCourse, wanted
<1>11. CASE readFails
  BY <1>3, <1>4, <1>11 DEF readFails, turn, world, InTurn
<1>12. CASE confirmStillSelected
  BY <1>3, <1>4, <1>12 DEF confirmStillSelected, turn, world, InTurn
<1>13. CASE stageStep
  BY <1>4, <1>13, StageCases DEF InTurn
<1>14. CASE stampReads
  BY <1>3, <1>14 DEF stampReads
<1> QED
  BY <1>5, <1>6, <1>7, <1>8, <1>9, <1>10, <1>11, <1>12, <1>13, <1>14 DEF TurnNext

\* What a confirmed turn learns is the kid's own id, or an id read while
\* another student was selected, and the kid was selected again since.
LEMMA LearnsByMistake ==
  ASSUME TurnTypes, Counts, AwayInv, TurnNext, NEW k \in Kids, learned'[k] # learned[k]
  PROVE  learned'[k] = k \/ away >= 2
<1>1. CASE confirmStillSelected
  <2>1. /\ pc = "confirm" /\ ~(needConfirm /\ sel # kid) /\ boundAPIID(kid) = None /\ seen # None
        /\ learned' = [learned EXCEPT ![kid] = seen]
    BY <1>1 DEF confirmStillSelected
  <2>2. k = kid /\ learned'[k] = seen
    BY <2>1 DEF TurnTypes
  <2>3. cfg.assignments /\ (seen # kid /\ sel = kid => away >= 2)
    BY <2>1 DEF AwayInv, InTurn
  <2> QED
    BY <2>1, <2>2, <2>3 DEF needConfirm
<1>2. CASE UNCHANGED learned
  BY <1>2
<1> QED
  BY <1>1, <1>2 DEF TurnNext, SwitchStudent, ChangeEntry, IntervalPasses, pollKids, SelectStudent,
       SelectFails, readStep, readFails, confirmFails, stageStep, stampReads, endPoll, Crash, Restart,
       checkpoint

\* Another student's id is learned only when somebody selected that student and
\* then the kid again, both within the turn (binding.go learn).
THEOREM LearnedOnlyByMistake == MCSpec => LearnedByMistake
<1> DEFINE Body == \A k \in Kids : learned'[k] # learned[k] => learned'[k] = k \/ away >= 2
<1>1. MCInit => TurnInv /\ AwayInv
  BY TurnStart DEF MCInit, TurnInit, AwayInv, InTurn
<1>2. TurnInv /\ AwayInv /\ [MCNext]_<<gateVars, vars, carryVars, pollVars, part>> => TurnInv' /\ AwayInv'
  <2> SUFFICES ASSUME TurnInv, AwayInv, [TurnNext]_vars PROVE TurnInv' /\ AwayInv'
    BY DEF MCNext
  <2>1. CASE TurnNext
    BY <2>1, TurnStep, AwayStep DEF TurnInv
  <2>2. CASE UNCHANGED vars
    BY <2>2, TurnStep DEF vars, AwayInv, InTurn, kid
  <2> QED
    BY <2>1, <2>2
<1>3. TurnInv /\ AwayInv /\ [MCNext]_<<gateVars, vars, carryVars, pollVars, part>> => [Body]_vars
  BY LearnsByMistake DEF MCNext, TurnInv
<1> QED
  BY <1>1, <1>2, <1>3, PTL DEF MCSpec, LearnedByMistake

-----------------------------------------------------------------------------
(* The session gate.                                                        *)

\* Windows do not share a tick.  config.go asks only that each ends after it
\* starts, so this is a hypothesis on the deployment's schedule.
WindowsApart ==
  \A i, j \in DOMAIN Windows :
    i # j => Windows[i].end <= Windows[j].start \/ Windows[j].end <= Windows[i].start

DiskRec == [lastPoll : Times, lastReq : Times, unans : [n : 0..MaxUnanswered, fp : Fps],
            hold : [fp : Fps \cup {-1}, until : Times], token : 0..MaxResets,
            rejected : Fps, st : {"unknown", "usable", "waiting"}, subj : Fps]
MemRec == [pc : {"down", "started", "idle", "asking", "answered", "requesting",
                 "waiting", "reading"},
           fp : Fps, held : BOOLEAN, replaced : Fps, asked : BOOLEAN,
           failed : 0..(FailureThreshold - 1), notBefore : Times, next : Times,
           dead : Fps, deadline : Times, turn : {"ensure", "renew"}]
PastRec == [asks : 0..1, early : {FALSE}, polls : Nat, wasted : Nat, wastedFp : Fps,
            told : [fp : Fps \cup {-1}, until : Times], lastDead : Fps, reprobed : {FALSE},
            ok : BOOLEAN, fileAt : Fps, base : Fps]

\* Everything but the connector.  The file never holds a session newer than
\* the last one made.
World ==
  /\ mode \in Modes /\ now \in 0..MaxTime
  /\ status \in [SessionIds -> {"unmade", "live", "dead", "expired"}]
  /\ file \in [fp : SessionIds, mtime : Times] /\ file.fp <= Newest
  /\ box \in Times /\ token \in 0..MaxResets /\ faults \in 0..MaxGateFaults

\* The poll at time t came after the opening of the last window.
Covered(t) == t # Never /\ lastWindowStart(now) <= t

\* What the disk, the process and the past have to do with each other, at
\* every step of a poll.
Linked(d, m, h) ==
  /\ d \in DiskRec /\ m \in MemRec /\ h \in PastRec
  /\ d.lastPoll <= now
  /\ WindowsApart => h.polls <= 1 /\ (h.polls = 1 => Covered(d.lastPoll))
  /\ h.wasted <= d.unans.n /\ (mode = "mailbox" /\ h.wasted > 0 => d.unans.fp = h.wastedFp)
  /\ h.told = NoHold \/ (mode = "broker" /\ h.told = d.hold)
  /\ mode = "broker" /\ h.lastDead # NoSession => d.hold.fp = h.lastDead
  /\ mode = "off" /\ h.lastDead # NoSession => d.rejected = h.lastDead /\ h.lastDead <= file.fp
  /\ box <= d.lastReq /\ d.lastReq <= now
  /\ m.fp <= Newest /\ (mode # "broker" => ~m.held /\ m.fp <= file.fp)
  /\ m.held => m.replaced = h.base

\* A process that runs has a window of its own behind it, and with the
\* mailbox and the broker off it knows no session the file did not have.
Running(d, m, h) ==
  /\ d.lastPoll # Never => windowEnd(d.lastPoll) <= m.notBefore
  /\ mode = "off" /\ h.lastDead # NoSession => h.lastDead < file.fp

\* A poll that is not over.
Polling(d, m, h) ==
  /\ Running(d, m, h)
  /\ h.asks = 1 => m.asked
  /\ mode = "broker" /\ ~m.held => m.fp = h.fileAt

Phase(d, m, h) ==
  /\ m.pc = "down" => m = Fresh
  /\ m.pc = "started" => m = [Fresh EXCEPT !.pc = "started"] /\ d.st # "usable"
  /\ m.pc = "started" /\ mode = "off" /\ h.lastDead # NoSession => h.lastDead < file.fp
  /\ m.pc = "idle" =>
       /\ Running(d, m, h)
       /\ m.next # Never => /\ m.notBefore <= m.next
                            /\ \E k \in DOMAIN Windows : Windows[k].start <= m.next /\ m.next < Windows[k].end
  /\ m.pc \in {"asking", "answered", "requesting", "waiting", "reading"} => Polling(d, m, h)
  /\ m.pc \in {"asking", "answered"} =>
       mode = "broker" /\ m.asked /\ d.unans.n < MaxUnanswered /\ d.hold.fp = m.dead
  /\ m.pc \in {"requesting", "waiting"} => mode = "mailbox" /\ d.unans.n < MaxUnanswered
  /\ m.pc = "requesting" => /\ m.deadline - Wait = d.lastReq
                            /\ box = Never \/ d.lastReq - box >= MinInterval
  /\ m.pc = "reading" => h.told = NoHold
  /\ m.pc \in {"idle", "reading"} /\ d.st = "usable" => h.ok

GateInv == World /\ Linked(disk, mem, upToNow) /\ Phase(disk, mem, upToNow)

\* A nonempty set of numbers with a bound has a greatest element.
LEMMA GreatestExists ==
  ASSUME NEW n \in Nat, NEW S \in SUBSET (0..n), S # {}
  PROVE  \E x \in S : \A y \in S : y <= x
<1> DEFINE R == OpToRel(<, Nat)
           T == {n - x : x \in S}
<1>1. IsWellFoundedOn(R, Nat)
  BY NatLessThanWellFounded
<1>2. \A a, b \in Nat : a < b => <<a, b>> \in R
  BY DEF R, OpToRel
<1>3. T \subseteq Nat /\ T # {}
  <2>1. ASSUME NEW t \in T PROVE t \in Nat
    BY DEF T
  <2>2. PICK x \in S : TRUE
    OBVIOUS
  <2>3. n - x \in T
    BY DEF T
  <2> QED BY <2>1, <2>3
<1> HIDE DEF R, T
<1>4. PICK t \in T : \A y \in T : <<y, t>> \notin R
  BY <1>1, <1>3, WFMin
<1>5. PICK x \in S : t = n - x
  BY DEF T
<1>6. ASSUME NEW y \in S PROVE y <= x
  <2>1. n - y \in T /\ n - y \in Nat /\ t \in Nat
    BY <1>3 DEF T
  <2>2. ~(n - y < t)
    BY <1>2, <1>4, <2>1, Zenon
  <2> QED BY <1>5, <2>1, <2>2
<1> QED BY <1>6

\* The newest session was made, and none made is newer.
LEMMA NewestFacts ==
  ASSUME status \in [SessionIds -> {"unmade", "live", "dead", "expired"}]
  PROVE  /\ Newest \in Fps /\ (Newest # NoSession => status[Newest] # "unmade")
         /\ \A s \in SessionIds : status[s] # "unmade" => s <= Newest
<1> DEFINE made == {s \in SessionIds : status[s] # "unmade"}
<1>1. CASE made = {}
  <2>1. Newest = NoSession
    BY <1>1 DEF Newest
  <2>2. \A s \in SessionIds : status[s] = "unmade"
    BY <1>1
  <2> QED
    BY <2>1, <2>2, GateAssumption DEF NoSession, Fps
<1>2. CASE made # {}
  <2>1. made \in SUBSET (0..MaxSessions) /\ MaxSessions \in Nat
    BY GateAssumption DEF SessionIds
  <2>2. PICK x \in made : \A y \in made : y <= x
    BY <1>2, <2>1, GreatestExists
  <2>3. Newest \in made /\ \A y \in made : y <= Newest
    BY <1>2, <2>2 DEF Newest
  <2> QED
    BY <2>1, <2>3 DEF Fps, SessionIds
<1> QED
  BY <1>1, <1>2

\* The facts about the constants, in the form the proofs use.
LEMMA Bounds ==
  /\ MaxTime \in Nat /\ Wait \in Nat /\ MinInterval \in Nat /\ FreshAge \in Nat
  /\ MaxUnanswered \in Nat /\ FailureThreshold \in Nat \ {0} /\ MaxSessions \in Nat \ {0}
  /\ MaxGateFaults \in Nat /\ MaxResets \in Nat /\ ExpiresAt \in Nat /\ MaxLogins \in Nat
  /\ Never \in Times /\ 0 \in Times /\ 0..MaxTime \subseteq Times /\ Times \subseteq Int
  /\ NoSession \in Fps /\ SessionIds \subseteq Fps /\ Fps \subseteq Int /\ Fps = SessionIds \cup {NoSession}
  /\ NoSession \notin SessionIds
<1>1. /\ MaxTime \in Nat /\ Wait \in Nat /\ MinInterval \in Nat /\ FreshAge \in Nat
      /\ MaxUnanswered \in Nat /\ FailureThreshold \in Nat /\ MaxSessions \in Nat
      /\ MaxGateFaults \in Nat /\ MaxResets \in Nat /\ ExpiresAt \in Nat /\ MaxLogins \in Nat
  BY GateAssumption
<1>2. FailureThreshold > 0 /\ MaxSessions > 0
  BY GateAssumption
<1>3. Never \in Times /\ 0 \in Times /\ 0..MaxTime \subseteq Times /\ Times \subseteq Int
  BY <1>1 DEF Never, Times
<1>4. /\ NoSession \in Fps /\ SessionIds \subseteq Fps /\ Fps \subseteq Int
      /\ Fps = SessionIds \cup {NoSession} /\ NoSession \notin SessionIds
  BY <1>1 DEF NoSession, SessionIds, Fps
<1> QED
  BY <1>1, <1>2, <1>3, <1>4

LEMMA WindowTypes ==
  ASSUME NEW k \in DOMAIN Windows
  PROVE  /\ Windows[k].start \in 0..MaxTime /\ Windows[k].end \in 0..MaxTime
         /\ Windows[k].start < Windows[k].end
<1> DEFINE W == [start : 0..MaxTime, end : 0..MaxTime]
<1>1. Windows \in Seq(W) /\ Windows[k].start < Windows[k].end
  BY GateAssumption
<1>2. Windows[k] \in W
  <2> HIDE DEF W
  <2> QED BY <1>1
<1> QED
  BY <1>1, <1>2

\* The end of the window a time falls into.
LEMMA EndFacts ==
  ASSUME NEW t \in 0..MaxTime
  PROVE  /\ windowEnd(t) \in 0..MaxTime /\ t <= windowEnd(t)
         /\ WindowsApart =>
              \A k \in DOMAIN Windows :
                Windows[k].start <= t /\ t < Windows[k].end => windowEnd(t) = Windows[k].end
<1> DEFINE in == {i \in DOMAIN Windows : Windows[i].start <= t /\ t < Windows[i].end}
<1>1. CASE in = {}
  BY <1>1, Bounds DEF windowEnd
<1>2. CASE in # {}
  <2>1. PICK j \in in : windowEnd(t) = Windows[j].end
    BY <1>2 DEF windowEnd
  <2>2. Windows[j].start \in 0..MaxTime /\ Windows[j].end \in 0..MaxTime
    BY WindowTypes
  <2>3. ASSUME WindowsApart, NEW k \in DOMAIN Windows,
               Windows[k].start <= t, t < Windows[k].end
        PROVE  windowEnd(t) = Windows[k].end
    <3>1. Windows[k].start \in 0..MaxTime /\ Windows[k].end \in 0..MaxTime
      BY WindowTypes
    <3> QED
      BY <2>1, <2>2, <2>3, <3>1, Bounds DEF WindowsApart
  <2> QED
    BY <2>1, <2>2, <2>3, Bounds
<1> QED
  BY <1>1, <1>2

\* The last window opened is one that has opened, and none opened since.
LEMMA StartFacts ==
  ASSUME NEW t \in 0..MaxTime
  PROVE  /\ lastWindowStart(t) \in Times /\ lastWindowStart(t) <= t
         /\ \A k \in DOMAIN Windows : Windows[k].start <= t => Windows[k].start <= lastWindowStart(t)
         /\ lastWindowStart(t) # Never => \E k \in DOMAIN Windows : Windows[k].start = lastWindowStart(t)
<1> DEFINE opened == {s \in {Windows[i].start : i \in DOMAIN Windows} : s <= t}
<1>1. opened \in SUBSET (0..MaxTime) /\ MaxTime \in Nat
  BY WindowTypes, Bounds
<1>2. CASE opened = {}
  BY <1>2, Bounds DEF lastWindowStart, Never
<1>3. CASE opened # {}
  <2>1. PICK x \in opened : \A y \in opened : y <= x
    BY <1>1, <1>3, GreatestExists
  <2>2. lastWindowStart(t) \in opened /\ \A y \in opened : y <= lastWindowStart(t)
    BY <1>3, <2>1 DEF lastWindowStart
  <2> QED
    BY <1>1, <2>2, Bounds
<1> QED
  BY <1>2, <1>3

\* A tick that opens no window leaves the last one the last.
LEMMA StartKept ==
  ASSUME NEW t \in 0..MaxTime, t + 1 \in 0..MaxTime, lastWindowStart(t + 1) # t + 1
  PROVE  lastWindowStart(t + 1) <= lastWindowStart(t)
<1>1. lastWindowStart(t) \in Times /\ lastWindowStart(t + 1) \in Times /\ lastWindowStart(t + 1) <= t + 1
  BY StartFacts
<1>2. CASE lastWindowStart(t + 1) = Never
  BY <1>1, <1>2, Bounds DEF Times, Never
<1>3. CASE lastWindowStart(t + 1) # Never
  <2>1. PICK k \in DOMAIN Windows : Windows[k].start = lastWindowStart(t + 1)
    BY <1>3, StartFacts
  <2>2. Windows[k].start <= t
    <3>1. Windows[k].start \in 0..MaxTime
      BY WindowTypes
    <3> QED BY <1>1, <2>1, <3>1, Bounds
  <2> QED
    BY <2>1, <2>2, StartFacts
<1> QED
  BY <1>2, <1>3

-----------------------------------------------------------------------------
(* What the parts of a poll do to the records.                              *)

\* The parts of the disk's and the process's state that Linked reads.
SameDisk(d, e) ==
  /\ e \in DiskRec
  /\ e.lastPoll = d.lastPoll /\ e.lastReq = d.lastReq /\ e.unans = d.unans
  /\ e.hold = d.hold /\ e.token = d.token /\ e.rejected = d.rejected
SameMem(m, n) ==
  n \in MemRec /\ n.fp = m.fp /\ n.held = m.held /\ n.replaced = m.replaced /\ n.notBefore = m.notBefore

LEMMA LinkedSame ==
  ASSUME NEW d, NEW e, NEW m, NEW n, NEW h, Linked(d, m, h), SameDisk(d, e), SameMem(m, n)
  PROVE  Linked(e, n, h)
BY DEF Linked, SameDisk, SameMem

LEMMA FreshFacts ==
  /\ Fresh \in MemRec /\ Fresh.pc = "down" /\ Fresh.fp = NoSession /\ Fresh.held = FALSE
  /\ Fresh.asked = FALSE /\ Fresh.replaced = NoSession
BY Bounds DEF Fresh, MemRec, Fps, Times, Never, NoSession

LEMMA LinkedFresh ==
  ASSUME World, NEW d, NEW e, NEW m, NEW h, Linked(d, m, h), SameDisk(d, e)
  PROVE  Linked(e, Fresh, h)
<1>1. NoSession <= Newest /\ NoSession <= file.fp
  BY NewestFacts, Bounds DEF World, Fps, SessionIds, NoSession
<1> QED
  BY <1>1, FreshFacts DEF Linked, SameDisk

LEMMA IdleFacts ==
  ASSUME NEW m \in MemRec
  PROVE  SameMem(m, Idle(m)) /\ Idle(m).pc = "idle" /\ Idle(m).next = Never
BY Bounds DEF Idle, SameMem, MemRec, Times, Never, Fps, NoSession

LEMMA CountFacts ==
  ASSUME NEW m \in MemRec
  PROVE  \/ countFailedPoll(m) = Fresh
         \/ /\ SameMem(m, countFailedPoll(m))
            /\ countFailedPoll(m).pc = "idle" /\ countFailedPoll(m).next = Never
<1>1. CASE m.failed + 1 >= FailureThreshold
  BY <1>1 DEF countFailedPoll
<1>2. CASE ~(m.failed + 1 >= FailureThreshold)
  <2>1. m.failed \in 0..(FailureThreshold - 1) /\ m.failed + 1 \in 0..(FailureThreshold - 1)
    BY <1>2, Bounds DEF MemRec
  <2>2. countFailedPoll(m) = [Idle(m) EXCEPT !.failed = m.failed + 1]
    BY <1>2 DEF countFailedPoll
  <2>3. PICK n : n = Idle(m)
    OBVIOUS
  <2>4. SameMem(m, n) /\ n.pc = "idle" /\ n.next = Never
    BY <2>3, IdleFacts
  <2> QED
    BY <2>1, <2>2, <2>3, <2>4 DEF SameMem, MemRec
<1> QED
  BY <1>1, <1>2

LEMMA SetStateFacts ==
  ASSUME NEW d \in DiskRec, NEW state \in {"unknown", "usable", "waiting"}, NEW subj \in Fps
  PROVE  SameDisk(d, SetState(d, state, subj)) /\ SetState(d, state, subj).st = state
BY Bounds DEF SetState, SameDisk, DiskRec

Results == {"live", "unknown", "dead", "blocked", "skip", "failed"}

LEMMA ConcludeFacts ==
  ASSUME NEW d \in DiskRec, NEW m \in MemRec, NEW r \in Results, Conclude(d, m, r)
  PROVE  /\ SameDisk(d, disk')
         /\ r # "live" => /\ disk'.st # "usable"
                          /\ \/ mem' = Fresh
                             \/ SameMem(m, mem') /\ mem'.pc = "idle" /\ mem'.next = Never
         /\ r = "live" => mem' = [m EXCEPT !.pc = "reading"]
<1>1. m.fp \in Fps /\ NoSession \in Fps
  BY Bounds DEF MemRec
<1>2. SameDisk(d, disk') /\ (r # "live" => disk'.st # "usable")
  <2>1. PICK state \in {"unknown", "usable", "waiting"}, subj \in Fps :
          disk' = SetState(d, state, subj) /\ (r # "live" => state # "usable")
    BY <1>1 DEF Conclude, reportSessionState
  <2> QED
    BY <2>1, SetStateFacts
<1>3. r = "live" => mem' = [m EXCEPT !.pc = "reading"]
  BY DEF Conclude
<1>4. r # "live" => mem' = Fresh \/ mem' = Idle(m) \/ mem' = countFailedPoll(m)
  BY DEF Conclude
<1> QED
  BY <1>2, <1>3, <1>4, IdleFacts, CountFacts

\* The next state is described by what it is made of.
LEMMA Transfer ==
  ASSUME NEW d, NEW m, NEW h, disk' = d, mem' = m, upToNow' = h, UNCHANGED env,
         World, faults' \in 0..MaxGateFaults, Linked(d, m, h), Phase(d, m, h)
  PROVE  GateInv'
<1>1. /\ mode' = mode /\ now' = now /\ status' = status /\ file' = file /\ box' = box
      /\ token' = token
  BY DEF env
<1>2. Newest' = Newest
  BY <1>1 DEF Newest
<1>3. World'
  BY <1>1, <1>2 DEF World
<1>4. Linked(disk, mem, upToNow)'
  BY <1>1, <1>2 DEF Linked, Covered
<1>5. Phase(disk, mem, upToNow)'
  BY <1>1 DEF Phase, Polling, Running
<1> QED
  BY <1>3, <1>4, <1>5 DEF GateInv

\* A poll that ends without a session leaves things as they should be.
LEMMA ConcludeBad ==
  ASSUME World, faults' \in 0..MaxGateFaults, UNCHANGED env,
         NEW d, NEW m, NEW h, NEW r \in Results \ {"live"},
         Linked(d, m, h), Running(d, m, h), Conclude(d, m, r), upToNow' = h
  PROVE  GateInv'
<1>1. PICK e : e = disk'
  OBVIOUS
<1>2. PICK n : n = mem'
  OBVIOUS
<1>3. d \in DiskRec /\ m \in MemRec
  BY DEF Linked
<1>4. /\ SameDisk(d, e) /\ e.st # "usable"
      /\ n = Fresh \/ (SameMem(m, n) /\ n.pc = "idle" /\ n.next = Never)
  BY <1>1, <1>2, <1>3, ConcludeFacts
<1>5. Linked(e, n, h)
  BY <1>4, LinkedSame, LinkedFresh
<1>6. Phase(e, n, h)
  <2>1. CASE n = Fresh
    BY <2>1, FreshFacts DEF Phase
  <2>2. CASE SameMem(m, n) /\ n.pc = "idle" /\ n.next = Never
    BY <1>4, <2>2 DEF Phase, Running, SameDisk, SameMem
  <2> QED BY <1>4, <2>1, <2>2
<1> QED
  BY <1>1, <1>2, <1>5, <1>6, Transfer

\* A poll that has a session goes on to the kids.
LEMMA ConcludeLive ==
  ASSUME World, faults' \in 0..MaxGateFaults, UNCHANGED env,
         NEW d, NEW m, NEW h,
         Linked(d, m, h), Polling(d, m, h), Conclude(d, m, "live"), upToNow' = h,
         h.told = NoHold, h.ok
  PROVE  GateInv'
<1>1. PICK e : e = disk'
  OBVIOUS
<1>2. PICK n : n = mem'
  OBVIOUS
<1>3. d \in DiskRec /\ m \in MemRec
  BY DEF Linked
<1>4. SameDisk(d, e) /\ n = [m EXCEPT !.pc = "reading"]
  BY <1>1, <1>2, <1>3, ConcludeFacts DEF Results
<1>5. SameMem(m, n) /\ n.pc = "reading" /\ n.asked = m.asked
  BY <1>3, <1>4 DEF SameMem, MemRec
<1>6. Linked(e, n, h)
  BY <1>4, <1>5, LinkedSame
<1>7. Phase(e, n, h)
  BY <1>4, <1>5 DEF Phase, Polling, Running, SameDisk, SameMem
<1> QED
  BY <1>1, <1>2, <1>6, <1>7, Transfer

\* What clearing and writing the disk's fields does.
LEMMA ClearFacts ==
  ASSUME NEW d \in DiskRec
  PROVE  /\ clearUnanswered(d) \in DiskRec /\ clearUnanswered(d).unans = NoStrikes
         /\ clearUnanswered(d).hold = d.hold
         /\ clearBrokerHold(d) \in DiskRec /\ clearBrokerHold(d).unans = d.unans
         /\ clearBrokerHold(d).hold = NoHold
         /\ \A e \in {clearUnanswered(d), clearBrokerHold(d)} :
              /\ e.lastPoll = d.lastPoll /\ e.lastReq = d.lastReq /\ e.token = d.token
              /\ e.rejected = d.rejected /\ e.st = d.st
<1>1. NoStrikes \in [n : 0..MaxUnanswered, fp : Fps] /\ NoHold \in [fp : Fps \cup {-1}, until : Times]
  BY Bounds DEF NoStrikes, NoHold
<1> QED
  BY <1>1 DEF DiskRec, clearUnanswered, clearBrokerHold

LEMMA HoldFacts ==
  ASSUME NEW d \in DiskRec, NEW f \in Fps, NEW until \in Times
  PROVE  LET e == saveBrokerHold(d, f, until) IN
         /\ e \in DiskRec /\ e.unans = d.unans /\ e.hold = [fp |-> f, until |-> until] /\ e.hold.fp = f
         /\ e.lastPoll = d.lastPoll /\ e.lastReq = d.lastReq /\ e.token = d.token
         /\ e.rejected = d.rejected /\ e.st = d.st
<1>1. [fp |-> f, until |-> until] \in [fp : Fps \cup {-1}, until : Times]
  OBVIOUS
<1> QED
  BY <1>1 DEF DiskRec, saveBrokerHold

\* The broker is asked once, and not before the time it named.
LEMMA AskBrokerStep ==
  ASSUME World, mode = "broker", faults' \in 0..MaxGateFaults, UNCHANGED env,
         NEW d, NEW m, NEW h, Linked(d, m, h), Polling(d, m, h), AskBroker(d, m, h),
         h.asks = 0, d.hold.fp = m.fp
  PROVE  GateInv'
<1>1. Running(d, m, h)
  BY DEF Polling
<1>2. CASE /\ upToNow' = h
           /\ Conclude(d, m, "blocked") \/ Conclude(d, m, "skip")
  BY <1>1, <1>2, ConcludeBad DEF Results
<1>3. CASE /\ d.unans.n < MaxUnanswered /\ ~(d.hold.fp = m.fp /\ now < d.hold.until)
           /\ disk' = d
           /\ mem' = [m EXCEPT !.pc = "asking", !.dead = m.fp, !.asked = TRUE]
           /\ upToNow' = [h EXCEPT !.asks = h.asks + 1,
                            !.early = h.told.fp = m.fp /\ now < h.told.until]
  <2>1. PICK n : n = [m EXCEPT !.pc = "asking", !.dead = m.fp, !.asked = TRUE]
    OBVIOUS
  <2>2. PICK g : g = [h EXCEPT !.asks = h.asks + 1, !.early = h.told.fp = m.fp /\ now < h.told.until]
    OBVIOUS
  <2>3. m \in MemRec /\ h \in PastRec /\ m.fp \in Fps
    BY DEF Linked, MemRec
  <2>4. SameMem(m, n) /\ n.pc = "asking" /\ n.dead = m.fp /\ n.asked
    BY <2>1, <2>3 DEF SameMem, MemRec
  <2>5. ~(h.told.fp = m.fp /\ now < h.told.until)
    BY <1>3, <2>3, Bounds DEF Linked, NoHold, Fps
  <2>6. /\ g \in PastRec /\ g.polls = h.polls /\ g.wasted = h.wasted /\ g.wastedFp = h.wastedFp
        /\ g.told = h.told /\ g.lastDead = h.lastDead /\ g.fileAt = h.fileAt /\ g.base = h.base
    <3>1. (h.told.fp = m.fp /\ now < h.told.until) = FALSE
      BY <2>5
    <3>2. g = [h EXCEPT !.asks = h.asks + 1, !.early = FALSE]
      BY <2>2, <3>1, Zenon
    <3>3. h.asks + 1 \in 0..1
      OBVIOUS
    <3> QED
      BY <2>3, <3>2, <3>3 DEF PastRec
  <2>7. Linked(d, n, g)
    BY <2>4, <2>6 DEF Linked, SameMem
  <2>8. Phase(d, n, g)
    BY <1>3, <2>4, <2>6 DEF Phase, Polling, Running, SameMem
  <2> QED
    BY <1>3, <2>1, <2>2, <2>7, <2>8, Transfer
<1> QED
  BY <1>2, <1>3 DEF AskBroker

\* A request in the mailbox comes min_interval after the last one.
LEMMA AskMailboxStep ==
  ASSUME World, mode = "mailbox", faults' \in 0..MaxGateFaults, UNCHANGED env,
         NEW d, NEW m, NEW h, Linked(d, m, h), Polling(d, m, h), AskMailbox(d, m, h)
  PROVE  GateInv'
<1> DEFINE lifted == d.unans.n >= MaxUnanswered /\ d.unans.fp # m.fp
<1>1. PICK e : e = IF lifted THEN clearUnanswered(d) ELSE d
  OBVIOUS
<1>2. PICK g : g = IF lifted /\ h.wastedFp # m.fp
                     THEN [h EXCEPT !.wasted = 0, !.wastedFp = NoSession] ELSE h
  OBVIOUS
<1>3. d \in DiskRec /\ m \in MemRec /\ h \in PastRec
  BY DEF Linked
<1>4. /\ e \in DiskRec /\ e.lastPoll = d.lastPoll /\ e.lastReq = d.lastReq /\ e.hold = d.hold
      /\ e.token = d.token /\ e.rejected = d.rejected
      /\ e.unans = IF lifted THEN NoStrikes ELSE d.unans
  BY <1>1, <1>3, ClearFacts, Bounds
<1>5. /\ g \in PastRec /\ g.polls = h.polls /\ g.asks = h.asks /\ g.told = h.told
      /\ g.lastDead = h.lastDead /\ g.fileAt = h.fileAt /\ g.base = h.base
      /\ lifted /\ h.wastedFp # m.fp => g.wasted = 0
      /\ ~(lifted /\ h.wastedFp # m.fp) => g.wasted = h.wasted /\ g.wastedFp = h.wastedFp
  BY <1>2, <1>3, Bounds DEF PastRec
<1>6. g.wasted <= e.unans.n /\ (g.wasted > 0 => e.unans.fp = g.wastedFp)
  BY <1>3, <1>4, <1>5, Bounds DEF Linked, NoStrikes, PastRec, DiskRec
<1>7. Linked(e, m, g)
  BY <1>3, <1>4, <1>5, <1>6 DEF Linked
<1>8. Polling(e, m, g) /\ Running(e, m, g)
  BY <1>4, <1>5 DEF Polling, Running
<1>9. CASE /\ upToNow' = g
           /\ Conclude(e, m, "blocked") \/ Conclude(e, m, "skip")
  BY <1>7, <1>8, <1>9, ConcludeBad DEF Results
<1>10. CASE /\ upToNow' = g /\ e.unans.n < MaxUnanswered /\ disk' = e
            /\ mem' = [m EXCEPT !.pc = "waiting", !.dead = m.fp, !.deadline = e.lastReq + Wait]
            /\ e.lastReq # Never
  <2>1. PICK n : n = [m EXCEPT !.pc = "waiting", !.dead = m.fp, !.deadline = e.lastReq + Wait]
    OBVIOUS
  <2>2. e.lastReq + Wait \in Times
    BY <1>4, <1>7, <1>10, Bounds DEF Linked, World, DiskRec, Times, Never
  <2>3. SameMem(m, n) /\ n.pc = "waiting" /\ n.asked = m.asked
    BY <1>3, <2>1, <2>2 DEF SameMem, MemRec
  <2>4. Linked(e, n, g)
    BY <1>7, <2>3 DEF Linked, SameMem
  <2>5. Phase(e, n, g)
    BY <1>8, <1>10, <2>3 DEF Phase, Polling, Running, SameMem
  <2> QED
    BY <1>10, <2>1, <2>4, <2>5, Transfer
<1>11. CASE /\ upToNow' = g /\ e.unans.n < MaxUnanswered /\ disk' = [e EXCEPT !.lastReq = now]
            /\ mem' = [m EXCEPT !.pc = "requesting", !.dead = m.fp, !.deadline = now + Wait]
            /\ e.lastReq = Never \/ ~(now - e.lastReq < MinInterval)
  <2>1. PICK n : n = [m EXCEPT !.pc = "requesting", !.dead = m.fp, !.deadline = now + Wait]
    OBVIOUS
  <2>2. PICK x : x = [e EXCEPT !.lastReq = now]
    OBVIOUS
  <2>3. now \in Times /\ now + Wait \in Times /\ now \in Nat
    BY Bounds DEF World, Times, Never
  <2>4. /\ SameMem(m, n) /\ n.pc = "requesting" /\ n.asked = m.asked /\ n.deadline - Wait = now
    <3>1. SameMem(m, n) /\ n.pc = "requesting" /\ n.asked = m.asked /\ n.deadline = now + Wait
      BY <1>3, <2>1, <2>3, Bounds DEF SameMem, MemRec
    <3> QED
      BY <2>3, <3>1, Bounds
  <2>5. /\ x \in DiskRec /\ x.lastReq = now /\ x.lastPoll = e.lastPoll /\ x.hold = e.hold
        /\ x.token = e.token /\ x.rejected = e.rejected /\ x.unans = e.unans
    BY <1>4, <2>2, <2>3 DEF DiskRec
  <2>6. box \in Int /\ box >= Never /\ box <= e.lastReq /\ e.lastReq \in Int /\ e.lastReq <= now
    BY <1>4, <1>7, Bounds DEF Linked, World, DiskRec, Times, Never
  <2>7. box = Never \/ now - box >= MinInterval
    BY <1>11, <2>3, <2>6, Bounds DEF Never
  <2>8. Linked(x, n, g)
    BY <1>7, <2>3, <2>4, <2>5, <2>6 DEF Linked, SameMem
  <2>9. Phase(x, n, g)
    BY <1>8, <1>11, <2>4, <2>5, <2>7 DEF Phase, Polling, Running, SameMem
  <2> QED
    BY <1>11, <2>1, <2>2, <2>8, <2>9, Transfer
<1> QED
  BY <1>1, <1>2, <1>9, <1>10, <1>11 DEF AskMailbox

\* A refused session is remembered, and the process exits.
LEMMA RejectedStep ==
  ASSUME World, mode = "off", faults' \in 0..MaxGateFaults, UNCHANGED env,
         NEW d, NEW m, NEW h, Linked(d, m, h), sessionRejected(d, m), upToNow' = Refused(h, m.fp)
  PROVE  GateInv'
<1>1. d \in DiskRec /\ m \in MemRec /\ h \in PastRec /\ m.fp \in Fps
  BY DEF Linked, MemRec
<1>2. PICK s : s = SetState(d, "waiting", m.fp)
  OBVIOUS
<1>3. SameDisk(d, s)
  BY <1>1, <1>2, SetStateFacts
<1>4. PICK e : e = [s EXCEPT !.rejected = IF m.fp = NoSession THEN @ ELSE m.fp]
  OBVIOUS
<1>5. PICK g : g = Refused(h, m.fp)
  OBVIOUS
<1>6. /\ e \in DiskRec /\ e.lastPoll = d.lastPoll /\ e.lastReq = d.lastReq /\ e.unans = d.unans
      /\ e.hold = d.hold /\ e.token = d.token
      /\ m.fp # NoSession => e.rejected = m.fp
  BY <1>1, <1>3, <1>4 DEF SameDisk, DiskRec
<1>7. /\ g \in PastRec /\ g.polls = h.polls /\ g.wasted = h.wasted /\ g.wastedFp = h.wastedFp
      /\ g.told = h.told /\ g.lastDead = m.fp /\ g.base = h.base
  BY <1>1, <1>5 DEF PastRec, Refused
<1>8. NoSession <= Newest /\ NoSession <= file.fp
  BY NewestFacts, Bounds DEF World, Fps, SessionIds, NoSession
<1>9. Linked(e, Fresh, g)
  BY <1>6, <1>7, <1>8, FreshFacts DEF Linked
<1>10. Phase(e, Fresh, g)
  BY FreshFacts DEF Phase
<1> QED
  BY <1>2, <1>4, <1>5, <1>9, <1>10, Transfer DEF sessionRejected

\* A reset of the operator's clears what was counted; otherwise nothing moves.
LEMMA ResetFacts ==
  ASSUME World, NEW d \in DiskRec
  PROVE  LET e == honourReset(d) IN
         /\ e \in DiskRec /\ e.lastPoll = d.lastPoll /\ e.lastReq = d.lastReq
         /\ e.rejected = d.rejected
         /\ e.token = d.token => e = d
         /\ e.token # d.token => e.unans = NoStrikes /\ e.hold = NoHold
<1>1. CASE token = 0 \/ d.token = token
  BY <1>1 DEF honourReset
<1>2. CASE ~(token = 0 \/ d.token = token)
  <2>1. NoStrikes \in [n : 0..MaxUnanswered, fp : Fps] /\ NoHold \in [fp : Fps \cup {-1}, until : Times]
    BY Bounds DEF NoStrikes, NoHold
  <2> QED
    BY <1>2, <2>1 DEF honourReset, DiskRec, World
<1> QED
  BY <1>1, <1>2

\* The file's session is taken, unless the broker's is held against it.
LEMMA ReloadFacts ==
  ASSUME World, NEW m \in MemRec
  PROVE  LET n == reload(m) IN
         /\ n \in MemRec /\ n.asked = m.asked /\ n.notBefore = m.notBefore /\ n.pc = m.pc
         /\ n.turn = m.turn /\ n.dead = m.dead /\ n.deadline = m.deadline /\ n.next = m.next
         /\ \/ n = m /\ m.held /\ file.fp = m.replaced /\ file.fp # m.fp
            \/ n.fp = file.fp /\ ~n.held
<1>1. file.fp # NoSession /\ file.fp \in Fps /\ NoSession \in Fps
  BY Bounds DEF World
<1> QED
  BY <1>1 DEF reload, MemRec

\* What a check may answer, and the faults it takes.
LEMMA CheckFacts ==
  ASSUME World, NEW f \in Fps, NEW v \in check(f)
  PROVE  /\ v \in {"live", "unknown", "dead"} /\ faults + Spend(f, v) \in 0..MaxGateFaults
         /\ v = "live" => f # NoSession /\ status[f] = "live"
<1>1. f # NoSession => status[f] \in {"unmade", "live", "dead", "expired"}
  BY Bounds DEF World
<1> QED
  BY <1>1, Bounds DEF World, check, probe, Spend

\* The start of a poll, before it is known whether the session is alive.
MemAt(m) == reload([m EXCEPT !.asked = FALSE, !.turn = "ensure"])
PastAt(d, m) ==
  [upToNow EXCEPT !.asks = 0, !.polls = upToNow.polls + 1, !.fileAt = file.fp,
                  !.wasted = IF honourReset(d).token # d.token THEN 0 ELSE @,
                  !.told = IF honourReset(d).token # d.token \/ @.fp # MemAt(m).fp THEN NoHold ELSE @,
                  !.lastDead = IF honourReset(d).token # d.token THEN NoSession ELSE @]

LEMMA EnsureFacts ==
  ASSUME World, NEW d, NEW m, Linked(d, m, upToNow), Running(d, m, upToNow),
         WindowsApart => upToNow.polls = 0, Covered(d.lastPoll)
  PROVE  LET d0 == honourReset(d)
             m0 == MemAt(m)
             h0 == PastAt(d, m)
         IN  /\ Linked(d0, m0, h0) /\ Polling(d0, m0, h0) /\ h0.asks = 0
             /\ h0.told # NoHold => h0.told.fp = m0.fp
             /\ ~m0.held => m0.fp = file.fp
<1>d. PICK d0 : d0 = honourReset(d)
  OBVIOUS
<1>m. PICK m0 : m0 = MemAt(m)
  OBVIOUS
<1>h. PICK h0 : h0 = PastAt(d, m)
  OBVIOUS
<1>0. PICK h : h = upToNow
  OBVIOUS
<1>1. d \in DiskRec /\ m \in MemRec /\ h \in PastRec /\ (WindowsApart => h.polls = 0) /\ Linked(d, m, h) /\ Running(d, m, h)
  BY <1>0 DEF Linked
<1>2. PICK n : n = [m EXCEPT !.asked = FALSE, !.turn = "ensure"]
  OBVIOUS
<1>3. SameMem(m, n) /\ ~n.asked
  BY <1>1, <1>2 DEF SameMem, MemRec
<1>4. /\ m0 \in MemRec /\ ~m0.asked /\ m0.notBefore = m.notBefore
      /\ \/ m0.held /\ m.held /\ m0.fp = m.fp /\ m0.replaced = m.replaced
         \/ m0.fp = file.fp /\ ~m0.held
  BY <1>2, <1>3, <1>m, ReloadFacts DEF SameMem, MemAt
<1>5. /\ d0 \in DiskRec /\ d0.lastPoll = d.lastPoll /\ d0.lastReq = d.lastReq
      /\ d0.rejected = d.rejected
      /\ d0.token = d.token => d0 = d
      /\ d0.token # d.token => d0.unans = NoStrikes /\ d0.hold = NoHold
  BY <1>1, <1>d, ResetFacts
<1>6. NoHold \in [fp : Fps \cup {-1}, until : Times] /\ file.fp \in Fps /\ NoSession \in Fps
  BY Bounds DEF NoHold, World
<1>7. /\ h0 \in PastRec /\ h0.asks = 0 /\ h0.polls = h.polls + 1 /\ h0.fileAt = file.fp /\ h0.base = h.base
      /\ h0.wastedFp = h.wastedFp
      /\ h0.wasted = (IF d0.token # d.token THEN 0 ELSE h.wasted)
      /\ h0.told = (IF d0.token # d.token \/ h.told.fp # m0.fp THEN NoHold ELSE h.told)
      /\ h0.lastDead = (IF d0.token # d.token THEN NoSession ELSE h.lastDead)
  <2>1. PICK w : w = IF d0.token # d.token THEN 0 ELSE h.wasted
    OBVIOUS
  <2>2. PICK t : t = IF d0.token # d.token \/ h.told.fp # m0.fp THEN NoHold ELSE h.told
    OBVIOUS
  <2>3. PICK l : l = IF d0.token # d.token THEN NoSession ELSE h.lastDead
    OBVIOUS
  <2>4. h0 = [h EXCEPT !.asks = 0, !.polls = h.polls + 1, !.fileAt = file.fp,
                       !.wasted = w, !.told = t, !.lastDead = l]
    BY <1>0, <1>d, <1>m, <1>h, <2>1, <2>2, <2>3, Zenon DEF PastAt
  <2>5. w \in Nat /\ t \in [fp : Fps \cup {-1}, until : Times] /\ l \in Fps
    BY <1>1, <1>6, <2>1, <2>2, <2>3 DEF PastRec
  <2>6. h.polls + 1 \in Nat /\ h.polls \in Nat
    BY <1>1 DEF PastRec
  <2>7. /\ h0 \in PastRec /\ h0.asks = 0 /\ h0.polls = h.polls + 1 /\ h0.fileAt = file.fp /\ h0.base = h.base
        /\ h0.wastedFp = h.wastedFp /\ h0.wasted = w /\ h0.told = t /\ h0.lastDead = l
    <3>1. /\ h0.asks = 0 /\ h0.polls = h.polls + 1 /\ h0.fileAt = file.fp /\ h0.base = h.base
          /\ h0.wastedFp = h.wastedFp /\ h0.wasted = w /\ h0.told = t /\ h0.lastDead = l
          /\ h0.early = FALSE /\ h0.reprobed = FALSE /\ h0.ok \in BOOLEAN
      BY <1>1, <2>4 DEF PastRec
    <3>2. h0.asks \in 0..1 /\ h0.polls \in Nat
      BY <2>6, <3>1
    <3>3. /\ h0.wastedFp \in Fps /\ h0.base \in Fps
      BY <1>1, <3>1 DEF PastRec
    <3>4. h0 = [asks |-> h0.asks, early |-> h0.early, polls |-> h0.polls, wasted |-> h0.wasted,
                wastedFp |-> h0.wastedFp, told |-> h0.told, lastDead |-> h0.lastDead,
                reprobed |-> h0.reprobed, ok |-> h0.ok, fileAt |-> h0.fileAt, base |-> h0.base]
      BY <1>1, <2>4 DEF PastRec
    <3> QED
      BY <1>6, <2>5, <3>1, <3>2, <3>3, <3>4 DEF PastRec
  <2> QED
    BY <2>1, <2>2, <2>3, <2>7, Zenon
<1>8. file.fp <= Newest /\ file.fp \in Int
  BY <1>6, Bounds DEF World
<1>9. Linked(d0, m0, h0)
  BY <1>1, <1>4, <1>5, <1>7, <1>8, Bounds DEF Linked, Covered, NoStrikes
<1>10. Polling(d0, m0, h0)
  BY <1>1, <1>4, <1>5, <1>7 DEF Polling, Running, Linked
<1> QED
  BY <1>4, <1>7, <1>9, <1>10, <1>d, <1>m, <1>h

\* A session the portal accepts clears what was counted against it.
LEMMA AcceptedFacts ==
  ASSUME NEW h \in PastRec
  PROVE  LET g == Accepted(h) IN
         /\ g \in PastRec /\ g.asks = h.asks /\ g.polls = h.polls /\ g.wasted = 0
         /\ g.told = NoHold /\ g.lastDead = NoSession /\ g.ok /\ g.fileAt = h.fileAt /\ g.base = h.base
<1>1. NoHold \in [fp : Fps \cup {-1}, until : Times] /\ NoSession \in Fps
  BY Bounds DEF NoHold
<1> QED
  BY <1>1 DEF Accepted, PastRec

LEMMA RefusedFacts ==
  ASSUME NEW h \in PastRec, NEW f \in Fps
  PROVE  LET g == Refused(h, f) IN
         /\ g \in PastRec /\ g.asks = h.asks /\ g.polls = h.polls /\ g.wasted = h.wasted
         /\ g.wastedFp = h.wastedFp /\ g.told = h.told /\ g.lastDead = f /\ ~g.ok
         /\ g.fileAt = h.fileAt /\ g.base = h.base
BY DEF Refused, PastRec

\* A poll that finds its session accepted.
LEMMA AcceptedStep ==
  ASSUME World, faults' \in 0..MaxGateFaults, UNCHANGED env,
         NEW d, NEW e, NEW m, NEW h, Linked(d, m, h), Polling(d, m, h),
         e = clearBrokerHold(clearUnanswered(d)) \/ e = clearUnanswered(clearBrokerHold(d))
           \/ (e = clearUnanswered(d) /\ mode # "broker"),
         Conclude(e, m, "live"), upToNow' = Accepted(h)
  PROVE  GateInv'
<1>1. d \in DiskRec /\ m \in MemRec /\ h \in PastRec
  BY DEF Linked
<1>2. /\ e \in DiskRec /\ e.lastPoll = d.lastPoll /\ e.lastReq = d.lastReq /\ e.rejected = d.rejected
      /\ e.unans = NoStrikes
  <2>1. clearUnanswered(d) \in DiskRec /\ clearBrokerHold(d) \in DiskRec
    BY <1>1, ClearFacts
  <2> QED
    BY <1>1, <2>1, ClearFacts
<1>3. PICK g : g = Accepted(h)
  OBVIOUS
<1>4. /\ g \in PastRec /\ g.asks = h.asks /\ g.polls = h.polls /\ g.wasted = 0
      /\ g.told = NoHold /\ g.lastDead = NoSession /\ g.ok /\ g.fileAt = h.fileAt /\ g.base = h.base
  BY <1>1, <1>3, AcceptedFacts
<1>5. Linked(e, m, g)
  BY <1>2, <1>4 DEF Linked, NoStrikes
<1>6. Polling(e, m, g)
  BY <1>2, <1>4 DEF Polling, Running
<1> QED
  BY <1>3, <1>4, <1>5, <1>6, ConcludeLive

LEMMA EnsureStep ==
  ASSUME World, NEW d, NEW m, Linked(d, m, upToNow), Running(d, m, upToNow),
         WindowsApart => upToNow.polls = 0, Covered(d.lastPoll), UNCHANGED env, Ensure(d, m)
  PROVE  GateInv'
<1> DEFINE d0 == honourReset(d)
           m0 == MemAt(m)
           h0 == PastAt(d, m)
           hv == [h0 EXCEPT !.reprobed = h0.reprobed \/
                   ((m0.fp # NoSession /\ status[m0.fp] # "expired")
                     /\ mode # "mailbox" /\ m0.fp = h0.lastDead)]
           onHold == mode = "broker" /\ d0.hold.fp = m0.fp
<1>1. \/ onHold /\ AskBroker(d0, m0, h0) /\ faults' = faults
      \/ /\ ~onHold
         /\ \E v \in check(m0.fp) :
              /\ faults' = faults + Spend(m0.fp, v)
              /\ CASE v = "live" ->
                        /\ Conclude(clearBrokerHold(clearUnanswered(d0)), m0, "live")
                        /\ upToNow' = Accepted(hv)
                   [] v = "unknown" -> Conclude(d0, m0, "unknown") /\ upToNow' = hv
                   [] v = "dead" /\ mode = "off" ->
                        sessionRejected(d0, m0) /\ upToNow' = Refused(hv, m0.fp)
                   [] v = "dead" /\ mode = "broker" ->
                        AskBroker(saveBrokerHold(d0, m0.fp, 0), m0, Refused(hv, m0.fp))
                   [] v = "dead" /\ mode = "mailbox" ->
                        AskMailbox(d0, m0, Refused(hv, m0.fp))
  BY DEF Ensure, MemAt, PastAt
<1>4. /\ Linked(d0, m0, h0) /\ Polling(d0, m0, h0) /\ h0.asks = 0
      /\ h0.told # NoHold => h0.told.fp = m0.fp
      /\ ~m0.held => m0.fp = file.fp
  BY EnsureFacts
<1> HIDE DEF d0, m0, h0
<1>5. d0 \in DiskRec /\ m0 \in MemRec /\ h0 \in PastRec /\ m0.fp \in Fps /\ Running(d0, m0, h0)
  BY <1>4 DEF Linked, Polling, MemRec
<1>6. CASE mode = "broker" /\ d0.hold.fp = m0.fp /\ AskBroker(d0, m0, h0) /\ faults' = faults
  BY <1>4, <1>6, AskBrokerStep DEF World
<1>7. ASSUME ~(mode = "broker" /\ d0.hold.fp = m0.fp), NEW v \in check(m0.fp), NEW h, h = hv,
             faults' = faults + Spend(m0.fp, v),
             \/ /\ v = "live"
                /\ Conclude(clearBrokerHold(clearUnanswered(d0)), m0, "live")
                /\ upToNow' = Accepted(h)
             \/ /\ v = "unknown" /\ Conclude(d0, m0, "unknown") /\ upToNow' = h
             \/ /\ v = "dead" /\ mode = "off"
                /\ sessionRejected(d0, m0)
                /\ upToNow' = Refused(h, m0.fp)
             \/ /\ v = "dead" /\ mode = "broker"
                /\ AskBroker(saveBrokerHold(d0, m0.fp, 0), m0, Refused(h, m0.fp))
             \/ /\ v = "dead" /\ mode = "mailbox"
                /\ AskMailbox(d0, m0, Refused(h, m0.fp))
      PROVE  GateInv'
  <2>1. faults' \in 0..MaxGateFaults
    BY <1>5, <1>7, CheckFacts
  <2>2. ~(m0.fp # NoSession /\ mode # "mailbox" /\ m0.fp = h0.lastDead)
    <3>1. CASE mode = "broker"
      BY <1>4, <1>7, <3>1 DEF Linked
    <3>2. CASE mode = "off"
      <4>1. m0.fp = file.fp
        BY <1>4, <3>2 DEF Linked
      <4>2. h0.lastDead # NoSession => h0.lastDead < file.fp
        BY <1>5, <3>2 DEF Running
      <4> QED
        <5>1. file.fp \in Int
          BY Bounds DEF World
        <5> QED
          BY <4>1, <4>2, <5>1
    <3> QED
      BY <3>1, <3>2, GateAssumption DEF World
  <2>3. h = h0
    <3>1. h0.reprobed = FALSE
      BY <1>5 DEF PastRec
    <3>2. (h0.reprobed \/ ((m0.fp # NoSession /\ status[m0.fp] # "expired")
                     /\ mode # "mailbox" /\ m0.fp = h0.lastDead)) = FALSE
      BY <2>2, <3>1
    <3>3. h = [h0 EXCEPT !.reprobed = FALSE]
      BY <1>7, <3>2, Zenon DEF hv
    <3> QED
      BY <1>5, <3>1, <3>3 DEF PastRec
  <2>4. PICK g : g = Refused(h0, m0.fp)
    OBVIOUS
  <2>5. /\ g \in PastRec /\ g.asks = h0.asks /\ g.polls = h0.polls /\ g.wasted = h0.wasted
        /\ g.wastedFp = h0.wastedFp /\ g.told = h0.told /\ g.lastDead = m0.fp /\ ~g.ok
        /\ g.fileAt = h0.fileAt /\ g.base = h0.base
    BY <1>5, <2>4, RefusedFacts
  <2>6. CASE v = "live" /\ Conclude(clearBrokerHold(clearUnanswered(d0)), m0, "live") /\ upToNow' = Accepted(h)
    BY <1>4, <2>1, <2>3, <2>6, AcceptedStep
  <2>7. CASE v = "unknown" /\ Conclude(d0, m0, "unknown") /\ upToNow' = h
    BY <1>4, <1>5, <2>1, <2>3, <2>7, ConcludeBad DEF Results
  <2>8. CASE v = "dead" /\ mode = "off" /\ sessionRejected(d0, m0) /\ upToNow' = Refused(h, m0.fp)
    BY <1>4, <2>1, <2>3, <2>8, RejectedStep
  <2>9. CASE /\ v = "dead" /\ mode = "broker"
             /\ AskBroker(saveBrokerHold(d0, m0.fp, 0), m0, Refused(h, m0.fp))
    <3>1. PICK e : e = saveBrokerHold(d0, m0.fp, 0)
      OBVIOUS
    <3>2. /\ e \in DiskRec /\ e.unans = d0.unans /\ e.hold = [fp |-> m0.fp, until |-> 0]
          /\ e.lastPoll = d0.lastPoll /\ e.lastReq = d0.lastReq
      <4>1. 0 \in Times
        BY Bounds
      <4> QED
        BY <1>5, <3>1, <4>1, HoldFacts
    <3>3. g.told = NoHold
      BY <1>4, <1>7, <2>5, <2>9 DEF Linked
    <3>4. Linked(e, m0, g)
      BY <1>4, <2>5, <2>9, <3>2, <3>3 DEF Linked
    <3>5. Polling(e, m0, g)
      BY <1>4, <2>5, <2>9, <3>2 DEF Polling, Running
    <3>6. e.hold.fp = m0.fp /\ g.asks = 0
      BY <1>4, <2>5, <3>2
    <3>7. AskBroker(e, m0, g)
      BY <2>3, <2>4, <2>9, <3>1
    <3> QED
      BY <2>1, <2>9, <3>4, <3>5, <3>6, <3>7, AskBrokerStep
  <2>10. CASE v = "dead" /\ mode = "mailbox" /\ AskMailbox(d0, m0, Refused(h, m0.fp))
    <3>1. Linked(d0, m0, g)
      BY <1>4, <2>5, <2>10 DEF Linked
    <3>2. Polling(d0, m0, g)
      BY <1>4, <2>5, <2>10 DEF Polling, Running
    <3>3. AskMailbox(d0, m0, g)
      BY <2>3, <2>4, <2>10
    <3> QED
      BY <2>1, <2>10, <3>1, <3>2, <3>3, AskMailboxStep
  <2> QED
    BY <1>7, <2>6, <2>7, <2>8, <2>9, <2>10
<1>8. \A v \in check(m0.fp) : v \in {"live", "unknown", "dead"}
  BY <1>5, CheckFacts
<1>9. mode \in {"broker", "mailbox", "off"}
  BY GateAssumption DEF World
<1> HIDE DEF hv
<1> QED
  BY <1>1, <1>6, <1>7, <1>8, <1>9

LEMMA DeferFacts ==
  ASSUME NEW m \in MemRec, NEW t \in 0..MaxTime
  PROVE  LET n == deferUntil(m, t) IN
         /\ n \in MemRec /\ n.fp = m.fp /\ n.held = m.held /\ n.replaced = m.replaced
         /\ n.pc = m.pc /\ n.asked = m.asked /\ n.next = m.next
         /\ t <= n.notBefore /\ m.notBefore <= n.notBefore
<1>1. t \in Times /\ m.notBefore \in Times /\ t \in Int /\ m.notBefore \in Int
  BY Bounds DEF MemRec
<1>2. Later(m.notBefore, t) \in Times /\ t <= Later(m.notBefore, t) /\ m.notBefore <= Later(m.notBefore, t)
  BY <1>1 DEF Later
<1> QED
  BY <1>2 DEF deferUntil, MemRec

LEMMA LinkedMem ==
  ASSUME NEW d, NEW m, NEW n, NEW h, Linked(d, m, h),
         n \in MemRec, n.fp = m.fp, n.held = m.held, n.replaced = m.replaced
  PROVE  Linked(d, n, h)
BY DEF Linked

\* A poll is made when none has been since the last window opened.
LEMMA PollNowStep ==
  ASSUME World, NEW m, Linked(disk, m, upToNow), WindowsApart => upToNow.polls = 0,
         mode = "off" /\ upToNow.lastDead # NoSession => upToNow.lastDead < file.fp,
         pollNow(m)
  PROVE  GateInv'
<1>1. PICK d : d = [disk EXCEPT !.lastPoll = now]
  OBVIOUS
<1>2. PICK n : n = deferUntil(m, windowEnd(now))
  OBVIOUS
<1>3. /\ now \in 0..MaxTime /\ now \in Times /\ windowEnd(now) \in 0..MaxTime
      /\ lastWindowStart(now) <= now /\ now # Never
  BY EndFacts, StartFacts, Bounds DEF World, Never
<1>4. m \in MemRec /\ disk \in DiskRec
  BY DEF Linked
<1>5. /\ n \in MemRec /\ n.fp = m.fp /\ n.held = m.held /\ n.replaced = m.replaced
      /\ windowEnd(now) <= n.notBefore
  BY <1>2, <1>3, <1>4, DeferFacts
<1>6. Linked(disk, n, upToNow)
  BY <1>5, LinkedMem
<1>7. /\ d \in DiskRec /\ d.lastPoll = now /\ d.lastReq = disk.lastReq /\ d.unans = disk.unans
      /\ d.hold = disk.hold /\ d.token = disk.token /\ d.rejected = disk.rejected
  BY <1>1, <1>3, <1>4 DEF DiskRec
<1>8. Linked(d, n, upToNow)
  BY <1>3, <1>6, <1>7 DEF Linked
<1>9. Running(d, n, upToNow)
  BY <1>5, <1>7 DEF Running
<1>10. Covered(d.lastPoll)
  BY <1>3, <1>7 DEF Covered
<1>11. Ensure(d, n) /\ UNCHANGED env
  BY <1>1, <1>2 DEF pollNow
<1> QED
  BY <1>8, <1>9, <1>10, <1>11, EnsureStep

LEMMA PollStep == ASSUME GateInv, Poll PROVE GateInv'
<1>1. World /\ Linked(disk, mem, upToNow) /\ Phase(disk, mem, upToNow)
  BY DEF GateInv
<1>2. mem \in MemRec /\ disk \in DiskRec /\ upToNow \in PastRec /\ mem.pc = "started"
  BY <1>1 DEF Linked, Poll
<1>3. mode = "off" /\ upToNow.lastDead # NoSession => upToNow.lastDead < file.fp
  BY <1>1, <1>2 DEF Phase
<1>4. PICK m : m = IF disk.lastPoll = Never THEN mem ELSE deferUntil(mem, windowEnd(disk.lastPoll))
  OBVIOUS
<1>5. disk.lastPoll # Never => disk.lastPoll \in 0..MaxTime /\ windowEnd(disk.lastPoll) \in 0..MaxTime
  <2>1. disk.lastPoll # Never => disk.lastPoll \in 0..MaxTime
    BY <1>1, <1>2, Bounds DEF Linked, World, DiskRec, Times, Never
  <2> QED BY <2>1, EndFacts
<1>6. /\ m \in MemRec /\ m.fp = mem.fp /\ m.held = mem.held /\ m.replaced = mem.replaced
      /\ disk.lastPoll # Never => windowEnd(disk.lastPoll) <= m.notBefore
  BY <1>2, <1>4, <1>5, DeferFacts
<1>7. Linked(disk, m, upToNow)
  BY <1>1, <1>6, LinkedMem
<1>8. CASE /\ disk.lastPoll # Never /\ disk.lastPoll >= lastWindowStart(now)
           /\ mem' = Idle(m) /\ UNCHANGED <<env, disk, faults, upToNow>>
  <2>1. PICK n, d, h : n = Idle(m) /\ d = disk /\ h = upToNow
    OBVIOUS
  <2>2. SameMem(m, n) /\ n.pc = "idle" /\ n.next = Never
    BY <1>6, <2>1, IdleFacts
  <2>3. Linked(d, n, h)
    BY <1>7, <2>1, <2>2, LinkedMem DEF SameMem
  <2>4. Running(d, n, h)
    BY <1>3, <1>6, <2>1, <2>2 DEF Running, SameMem
  <2>5. d.st # "usable"
    BY <1>1, <1>2, <2>1 DEF Phase
  <2>6. Phase(d, n, h)
    BY <2>2, <2>4, <2>5 DEF Phase
  <2> QED
    BY <1>1, <1>8, <2>1, <2>3, <2>6, Transfer DEF World
<1>9. CASE ~(disk.lastPoll # Never /\ disk.lastPoll >= lastWindowStart(now)) /\ pollNow(m)
  <2>1. WindowsApart => upToNow.polls # 1 /\ upToNow.polls <= 1
    <3>1. disk.lastPoll \in Int /\ lastWindowStart(now) \in Int
      BY <1>1, <1>2, StartFacts, Bounds DEF World, DiskRec
    <3> QED
      BY <1>1, <1>9, <3>1 DEF Linked, Covered
  <2>2. WindowsApart => upToNow.polls = 0
    BY <1>2, <2>1 DEF PastRec
  <2> QED
    BY <1>1, <1>3, <1>7, <1>9, <2>2, PollNowStep
<1> QED
  BY <1>4, <1>8, <1>9 DEF Poll

LEMMA WatchScheduleStep == ASSUME GateInv, WatchSchedule PROVE GateInv'
<1>1. World /\ Linked(disk, mem, upToNow) /\ Phase(disk, mem, upToNow)
  BY DEF GateInv
<1>2. PICK t \in computeNextPollTime(Later(now, mem.notBefore)) : mem' = [mem EXCEPT !.next = t]
  BY DEF WatchSchedule
<1>3. /\ mem \in MemRec /\ mem.pc = "idle" /\ now \in Int /\ mem.notBefore \in Int /\ now \in 0..MaxTime
  BY <1>1, Bounds DEF Linked, WatchSchedule, World, MemRec
<1>4. /\ mem.notBefore <= t /\ now <= t /\ t \in 0..MaxTime
      /\ \E k \in DOMAIN Windows : Windows[k].start <= t /\ t < Windows[k].end
  BY <1>2, <1>3, Bounds DEF computeNextPollTime, Later
<1>5. PICK n, d, h : n = [mem EXCEPT !.next = t] /\ d = disk /\ h = upToNow
  OBVIOUS
<1>6. SameMem(mem, n) /\ n.pc = "idle" /\ n.next = t
  BY <1>3, <1>4, <1>5, Bounds DEF SameMem, MemRec
<1>7. Linked(d, n, h)
  BY <1>1, <1>5, <1>6, LinkedMem DEF SameMem
<1>8. Running(d, n, h) /\ (d.st = "usable" => h.ok)
  BY <1>1, <1>3, <1>5, <1>6 DEF Phase, Running, SameMem
<1>9. Phase(d, n, h)
  BY <1>4, <1>6, <1>8 DEF Phase, SameMem
<1> QED
  BY <1>1, <1>2, <1>5, <1>7, <1>9, Transfer DEF World, WatchSchedule

\* A poll of the schedule comes after the window of the last poll, and so in
\* a window that opened since.
LEMMA WatchFireStep == ASSUME GateInv, WatchFire PROVE GateInv'
<1>1. World /\ Linked(disk, mem, upToNow) /\ Phase(disk, mem, upToNow)
  BY DEF GateInv
<1>2. /\ mem \in MemRec /\ disk \in DiskRec /\ upToNow \in PastRec /\ mem.pc = "idle"
      /\ mem.next # Never /\ now >= mem.next
  BY <1>1 DEF Linked, WatchFire
<1>3. /\ Running(disk, mem, upToNow) /\ mem.notBefore <= mem.next
      /\ \E k \in DOMAIN Windows : Windows[k].start <= mem.next /\ mem.next < Windows[k].end
  BY <1>1, <1>2 DEF Phase
<1>4. PICK k \in DOMAIN Windows : Windows[k].start <= mem.next /\ mem.next < Windows[k].end
  BY <1>3
<1>5. /\ Windows[k].start \in 0..MaxTime /\ Windows[k].end \in 0..MaxTime
      /\ now \in 0..MaxTime /\ mem.next \in Int /\ mem.notBefore \in Int
  BY <1>1, <1>2, WindowTypes, Bounds DEF World, MemRec
<1>6. mem.next \in 0..MaxTime
  BY <1>2, <1>4, <1>5, Bounds
<1>7. WindowsApart => upToNow.polls # 1 /\ upToNow.polls <= 1
  <2>1. SUFFICES ASSUME WindowsApart, upToNow.polls = 1 PROVE FALSE
    BY <1>1 DEF Linked
  <2>2. disk.lastPoll # Never /\ lastWindowStart(now) <= disk.lastPoll /\ disk.lastPoll <= now
    BY <1>1, <2>1 DEF Linked, Covered
  <2>3. disk.lastPoll \in 0..MaxTime
    BY <1>2, <1>5, <2>2, Bounds DEF DiskRec, Times, Never
  <2>4. windowEnd(disk.lastPoll) <= mem.notBefore
    BY <1>3, <2>2 DEF Running
  <2>5. Windows[k].start <= now
    BY <1>2, <1>4, <1>5
  <2>6. Windows[k].start <= lastWindowStart(now) /\ lastWindowStart(now) \in Int
    BY <1>5, <2>5, StartFacts, Bounds
  <2>7. windowEnd(disk.lastPoll) \in Int /\ disk.lastPoll <= windowEnd(disk.lastPoll)
    BY <2>3, EndFacts, Bounds
  <2>8. Windows[k].start <= disk.lastPoll /\ disk.lastPoll < Windows[k].end
    BY <1>3, <1>4, <1>5, <2>2, <2>3, <2>4, <2>6, <2>7
  <2>9. windowEnd(disk.lastPoll) = Windows[k].end
    BY <2>1, <2>3, <2>8, EndFacts
  <2> QED
    BY <1>3, <1>4, <1>5, <2>4, <2>9
<1>8. WindowsApart => upToNow.polls = 0
  BY <1>2, <1>7 DEF PastRec
<1>9. PICK m : m = deferUntil(mem, windowEnd(mem.next))
  OBVIOUS
<1>10. m \in MemRec /\ m.fp = mem.fp /\ m.held = mem.held /\ m.replaced = mem.replaced
  BY <1>2, <1>6, <1>9, EndFacts, DeferFacts
<1>11. Linked(disk, m, upToNow)
  BY <1>1, <1>10, LinkedMem
<1>12. mode = "off" /\ upToNow.lastDead # NoSession => upToNow.lastDead < file.fp
  BY <1>3 DEF Running
<1> QED
  BY <1>1, <1>8, <1>9, <1>11, <1>12, PollNowStep DEF WatchFire

-----------------------------------------------------------------------------
(* The broker's answers, the mailbox and the kids' turns.                   *)

\* A login spent in vain is counted.
LEMMA BumpFacts ==
  ASSUME NEW d \in DiskRec, NEW m \in MemRec, d.unans.n < MaxUnanswered
  PROVE  LET e == bumpUnanswered(d, m) IN
         /\ e \in DiskRec /\ e.unans.n = d.unans.n + 1 /\ e.unans.fp = m.fp
         /\ e.lastPoll = d.lastPoll /\ e.lastReq = d.lastReq /\ e.hold = d.hold
         /\ e.token = d.token /\ e.rejected = d.rejected
<1>1. d.unans.n + 1 \in 0..MaxUnanswered /\ m.fp \in Fps
  BY Bounds DEF DiskRec, MemRec
<1>2. PICK u : u = [n |-> d.unans.n + 1, fp |-> m.fp]
  OBVIOUS
<1>3. u \in [n : 0..MaxUnanswered, fp : Fps] /\ u.n = d.unans.n + 1 /\ u.fp = m.fp
  BY <1>1, <1>2
<1> QED
  BY <1>2, <1>3 DEF bumpUnanswered, DiskRec

InVain(h, t) == [h EXCEPT !.wasted = h.wasted + 1, !.told = t]

LEMMA WastedFacts ==
  ASSUME NEW h \in PastRec, NEW t \in [fp : Fps \cup {-1}, until : Times]
  PROVE  LET g == InVain(h, t) IN
         /\ g \in PastRec /\ g.asks = h.asks /\ g.polls = h.polls /\ g.wasted = h.wasted + 1
         /\ g.told = t /\ g.lastDead = h.lastDead /\ g.fileAt = h.fileAt /\ g.base = h.base
<1>1. PICK w : w = h.wasted + 1
  OBVIOUS
<1>2. w \in Nat
  BY <1>1 DEF PastRec
<1>3. PICK g : g = [h EXCEPT !.wasted = w, !.told = t]
  OBVIOUS
<1>4. /\ g \in PastRec /\ g.asks = h.asks /\ g.polls = h.polls /\ g.wasted = w
      /\ g.told = t /\ g.lastDead = h.lastDead /\ g.fileAt = h.fileAt /\ g.base = h.base
  BY <1>2, <1>3 DEF PastRec
<1> QED
  BY <1>1, <1>3, <1>4 DEF InVain

\* What is known while the broker is asked.
LEMMA AskingFacts ==
  ASSUME GateInv, mem.pc \in {"asking", "answered"}
  PROVE  /\ World /\ Linked(disk, mem, upToNow) /\ Polling(disk, mem, upToNow)
         /\ Running(disk, mem, upToNow)
         /\ disk \in DiskRec /\ mem \in MemRec /\ upToNow \in PastRec
         /\ mode = "broker" /\ disk.unans.n < MaxUnanswered /\ disk.hold.fp = mem.dead
         /\ mem.fp \in Fps /\ mem.dead \in Fps
BY DEF GateInv, Phase, Linked, Polling, MemRec

\* The poll goes on to wait, or is over, with what it says of the past.
LEMMA SecondOpinionStep ==
  ASSUME GateInv, mem.pc \in {"asking", "answered"}, UNCHANGED env,
         faults' \in 0..MaxGateFaults, NEW v, secondOpinion(v)
  PROVE  GateInv'
<1>1. PICK d, m, h : d = disk /\ m = mem /\ h = upToNow
  OBVIOUS
<1>2. /\ World /\ Linked(d, m, h) /\ Polling(d, m, h) /\ Running(d, m, h)
      /\ d \in DiskRec /\ m \in MemRec /\ h \in PastRec /\ m.fp \in Fps
      /\ mode = "broker" /\ d.unans.n < MaxUnanswered
  BY <1>1, AskingFacts
<1>3. 0 \in Times /\ NoHold \in [fp : Fps \cup {-1}, until : Times] /\ NoSession \in Fps
  BY Bounds DEF NoHold
<1>4. CASE v = "live"
  <2>1. Conclude(clearUnanswered(clearBrokerHold(d)), m, "live") /\ upToNow' = Accepted(h)
    BY <1>1, <1>4 DEF secondOpinion
  <2> QED
    BY <1>2, <2>1, AcceptedStep
<1>5. CASE v = "dead"
  <2>1. PICK s, e, r, g :
          /\ s = saveBrokerHold(d, m.fp, 0) /\ e = bumpUnanswered(s, m)
          /\ r = (IF e.unans.n >= MaxUnanswered THEN "blocked" ELSE "failed")
          /\ g = [Refused(h, m.fp) EXCEPT !.wasted = @ + 1, !.told = NoHold]
    OBVIOUS
  <2>2. Conclude(e, m, r) /\ upToNow' = g
    BY <1>1, <1>5, <2>1 DEF secondOpinion
  <2>3. /\ s \in DiskRec /\ s.unans = d.unans /\ s.hold.fp = m.fp /\ s.lastPoll = d.lastPoll
        /\ s.lastReq = d.lastReq
    <3>1. s = saveBrokerHold(d, m.fp, 0)
      BY <2>1
    <3>2. d \in DiskRec /\ m.fp \in Fps /\ 0 \in Times
      BY <1>2, <1>3
    <3> QED
      BY <3>1, <3>2, HoldFacts
  <2>4. /\ e \in DiskRec /\ e.unans.n = d.unans.n + 1 /\ e.hold.fp = m.fp
        /\ e.lastPoll = d.lastPoll /\ e.lastReq = d.lastReq
    BY <1>2, <2>1, <2>3, BumpFacts
  <2>5. PICK f : f = Refused(h, m.fp)
    OBVIOUS
  <2>6. /\ f \in PastRec /\ f.asks = h.asks /\ f.polls = h.polls /\ f.wasted = h.wasted
        /\ f.lastDead = m.fp /\ f.fileAt = h.fileAt /\ f.base = h.base
    BY <1>2, <2>5, RefusedFacts
  <2>7. g = InVain(f, NoHold)
    BY <2>1, <2>5 DEF InVain
  <2>8. /\ g \in PastRec /\ g.asks = h.asks /\ g.polls = h.polls /\ g.wasted = h.wasted + 1
        /\ g.lastDead = m.fp /\ g.told = NoHold /\ g.fileAt = h.fileAt /\ g.base = h.base
    <3>1. NoHold \in [fp : Fps \cup {-1}, until : Times] /\ f \in PastRec
      BY <1>3, <2>6
    <3> QED
      BY <2>6, <2>7, <3>1, WastedFacts
  <2>9. Linked(e, m, g)
    <3>1. g.wasted <= e.unans.n
      BY <1>2, <2>4, <2>8 DEF Linked, PastRec, DiskRec
    <3> QED
      BY <1>2, <2>4, <2>8, <3>1 DEF Linked
  <2>10. Running(e, m, g)
    BY <1>2, <2>4 DEF Running
  <2>11. r \in Results \ {"live"}
    BY <2>1 DEF Results
  <2> QED
    BY <1>2, <2>2, <2>9, <2>10, <2>11, ConcludeBad
<1>6. CASE v # "live" /\ v # "dead"
  <2>1. PICK e, g : e = clearBrokerHold(d) /\ g = [h EXCEPT !.told = NoHold, !.lastDead = NoSession]
    OBVIOUS
  <2>2. Conclude(e, m, "failed") /\ upToNow' = g
    BY <1>1, <1>6, <2>1 DEF secondOpinion
  <2>3. /\ e \in DiskRec /\ e.unans = d.unans /\ e.lastPoll = d.lastPoll /\ e.lastReq = d.lastReq
    BY <1>2, <2>1, ClearFacts
  <2>4. /\ g \in PastRec /\ g.asks = h.asks /\ g.polls = h.polls /\ g.wasted = h.wasted
        /\ g.lastDead = NoSession /\ g.told = NoHold /\ g.fileAt = h.fileAt /\ g.base = h.base
    BY <1>2, <1>3, <2>1 DEF PastRec
  <2>5. Linked(e, m, g)
    BY <1>2, <2>3, <2>4 DEF Linked
  <2>6. Running(e, m, g)
    BY <1>2, <2>3 DEF Running
  <2> QED
    BY <1>2, <2>2, <2>5, <2>6, ConcludeBad DEF Results
<1> QED
  BY <1>4, <1>5, <1>6

\* The broker's session is taken, and remembers the file's.
LEMMA AdoptFacts ==
  ASSUME NEW m \in MemRec, NEW s \in Fps
  PROVE  LET n == adopt(m, s) IN
         /\ n \in MemRec /\ n.fp = s /\ n.held /\ n.asked = m.asked /\ n.notBefore = m.notBefore
         /\ n.replaced = IF m.held THEN m.replaced ELSE m.fp
BY DEF adopt, MemRec

LEMMA BrokerSessionStep ==
  ASSUME GateInv, mem.pc \in {"asking", "answered"}, UNCHANGED env, BrokerSession(Newest)
  PROVE  GateInv'
<1>1. PICK d, p, h, s : d = disk /\ p = mem /\ h = upToNow /\ s = Newest
  OBVIOUS
<1>2. /\ World /\ Linked(d, p, h) /\ Polling(d, p, h) /\ Running(d, p, h)
      /\ d \in DiskRec /\ p \in MemRec /\ h \in PastRec
      /\ mode = "broker" /\ d.unans.n < MaxUnanswered
  BY <1>1, AskingFacts
<1>3. 0 \in Times /\ NoHold \in [fp : Fps \cup {-1}, until : Times] /\ s \in Fps /\ s \in Int
  BY <1>1, <1>2, NewestFacts, Bounds DEF NoHold, World
<1>4. CASE mem.dead # NoSession /\ Newest = mem.dead
  <2>1. PICK v \in check(s) : faults' = faults + Spend(s, v) /\ secondOpinion(v)
    BY <1>1, <1>4 DEF BrokerSession
  <2> QED
    BY <1>2, <1>3, <2>1, CheckFacts, SecondOpinionStep
<1>5. CASE ~(mem.dead # NoSession /\ Newest = mem.dead)
  <2>1. PICK m, g : /\ m = adopt(p, s)
                    /\ g = [h EXCEPT !.told = NoHold, !.base = IF p.held THEN @ ELSE h.fileAt]
    OBVIOUS
  <2>2. PICK v \in check(s) :
          /\ faults' = faults + Spend(s, v)
          /\ CASE v = "live" -> /\ Conclude(clearBrokerHold(clearUnanswered(d)), m, "live")
                                /\ upToNow' = Accepted(g)
               [] v = "dead" ->
                    LET e == bumpUnanswered(saveBrokerHold(d, s, 0), m)
                    IN  /\ Conclude(e, m, IF e.unans.n >= MaxUnanswered THEN "blocked" ELSE "failed")
                        /\ upToNow' = [Refused(g, s) EXCEPT !.wasted = @ + 1]
               [] OTHER -> Conclude(d, m, "failed") /\ upToNow' = g
    BY <1>1, <1>5, <2>1 DEF BrokerSession
  <2>3. faults' \in 0..MaxGateFaults /\ v \in {"live", "unknown", "dead"}
    BY <1>2, <1>3, <2>2, CheckFacts
  <2>4. /\ m \in MemRec /\ m.fp = s /\ m.held /\ m.asked = p.asked /\ m.notBefore = p.notBefore
        /\ m.replaced = IF p.held THEN p.replaced ELSE p.fp
    BY <1>2, <1>3, <2>1, AdoptFacts
  <2>5. /\ g \in PastRec /\ g.asks = h.asks /\ g.polls = h.polls /\ g.wasted = h.wasted
        /\ g.lastDead = h.lastDead /\ g.told = NoHold /\ g.fileAt = h.fileAt
        /\ g.base = IF p.held THEN h.base ELSE h.fileAt
    <3>1. PICK b \in Fps : b = IF p.held THEN h.base ELSE h.fileAt
      BY <1>2 DEF PastRec
    <3>2. g = [h EXCEPT !.told = NoHold, !.base = b]
      BY <2>1, <3>1, Zenon
    <3>3. /\ g \in PastRec /\ g.asks = h.asks /\ g.polls = h.polls /\ g.wasted = h.wasted
          /\ g.lastDead = h.lastDead /\ g.told = NoHold /\ g.fileAt = h.fileAt /\ g.base = b
      BY <1>2, <1>3, <3>2 DEF PastRec
    <3> QED
      BY <3>1, <3>3
  <2>6. Linked(d, m, g)
    BY <1>1, <1>2, <1>3, <2>4, <2>5 DEF Linked, Polling
  <2>7. Polling(d, m, g) /\ Running(d, m, g)
    BY <1>2, <2>4, <2>5 DEF Polling, Running
  <2>8. CASE v = "live"
    <3>1. Conclude(clearBrokerHold(clearUnanswered(d)), m, "live") /\ upToNow' = Accepted(g)
      BY <2>2, <2>8
    <3> QED
      BY <1>2, <2>3, <2>6, <2>7, <3>1, AcceptedStep
  <2>9. CASE v = "dead"
    <3>1. PICK x, e, r, f :
            /\ x = saveBrokerHold(d, s, 0) /\ e = bumpUnanswered(x, m)
            /\ r = (IF e.unans.n >= MaxUnanswered THEN "blocked" ELSE "failed")
            /\ f = [Refused(g, s) EXCEPT !.wasted = @ + 1]
      OBVIOUS
    <3>2. Conclude(e, m, r) /\ upToNow' = f
      BY <2>2, <2>9, <3>1
    <3>3. /\ x \in DiskRec /\ x.unans = d.unans /\ x.hold.fp = s /\ x.lastPoll = d.lastPoll
          /\ x.lastReq = d.lastReq
      <4>1. x = saveBrokerHold(d, s, 0)
        BY <3>1
      <4>2. d \in DiskRec /\ s \in Fps /\ 0 \in Times
        BY <1>2, <1>3
      <4> QED
        BY <4>1, <4>2, HoldFacts
    <3>4. /\ e \in DiskRec /\ e.unans.n = d.unans.n + 1 /\ e.hold.fp = s
          /\ e.lastPoll = d.lastPoll /\ e.lastReq = d.lastReq
      BY <1>2, <2>4, <3>1, <3>3, BumpFacts
    <3>5. PICK y : y = Refused(g, s)
      OBVIOUS
    <3>6. /\ y \in PastRec /\ y.asks = g.asks /\ y.polls = g.polls /\ y.wasted = g.wasted
          /\ y.told = g.told /\ y.lastDead = s /\ y.fileAt = g.fileAt /\ y.base = g.base
      BY <1>3, <2>5, <3>5, RefusedFacts
    <3>7. f = InVain(y, NoHold)
      <4>1. y \in PastRec /\ y.told = NoHold
        BY <2>5, <3>6
      <4>2. f = [y EXCEPT !.wasted = y.wasted + 1]
        BY <3>1, <3>5
      <4>3. PICK w : w = y.wasted + 1
        OBVIOUS
      <4>4. f = [y EXCEPT !.wasted = w] /\ InVain(y, NoHold) = [y EXCEPT !.wasted = w, !.told = NoHold]
        BY <4>2, <4>3, Zenon DEF InVain
      <4> QED
        BY <4>1, <4>4 DEF PastRec
    <3>8. /\ f \in PastRec /\ f.asks = g.asks /\ f.polls = g.polls /\ f.wasted = g.wasted + 1
          /\ f.told = NoHold /\ f.lastDead = s /\ f.fileAt = g.fileAt /\ f.base = g.base
      <4>1. NoHold \in [fp : Fps \cup {-1}, until : Times] /\ y \in PastRec
        BY <1>3, <3>6
      <4> QED
        BY <3>6, <3>7, <4>1, WastedFacts
    <3>9. Linked(e, m, f)
      <4>1. f.wasted <= e.unans.n
        BY <1>2, <2>6, <3>4, <3>8 DEF Linked, PastRec, DiskRec
      <4> QED
        BY <1>2, <2>6, <3>4, <3>8, <4>1 DEF Linked
    <3>10. Running(e, m, f)
      BY <1>2, <2>7, <3>4 DEF Running
    <3>11. r \in Results \ {"live"}
      BY <3>1 DEF Results
    <3> QED
      BY <1>2, <2>3, <3>2, <3>9, <3>10, <3>11, ConcludeBad
  <2>10. CASE v = "unknown"
    <3>1. Conclude(d, m, "failed") /\ upToNow' = g
      BY <2>2, <2>10
    <3> QED
      BY <1>2, <2>3, <2>6, <2>7, <3>1, ConcludeBad DEF Results
  <2> QED
    BY <2>3, <2>8, <2>9, <2>10
<1> QED
  BY <1>4, <1>5

LEMMA BrokerDeferredStep == ASSUME GateInv, BrokerDeferred PROVE GateInv'
<1>1. PICK d, m, h : d = disk /\ m = mem /\ h = upToNow
  OBVIOUS
<1>2. /\ World /\ Linked(d, m, h) /\ Running(d, m, h)
      /\ d \in DiskRec /\ m \in MemRec /\ h \in PastRec /\ m.dead \in Fps
      /\ mode = "broker" /\ d.hold.fp = m.dead
  BY <1>1, AskingFacts DEF BrokerDeferred
<1>3. PICK until \in {0, now + MinInterval} :
        /\ Conclude(saveBrokerHold(disk, mem.dead, until), mem, "skip")
        /\ upToNow' = [upToNow EXCEPT !.told = [fp |-> mem.dead, until |-> until]]
  BY DEF BrokerDeferred
<1>4. until \in Times
  BY <1>2, Bounds DEF World, Times, Never
<1>5. PICK e, t, g : /\ e = saveBrokerHold(d, m.dead, until)
                     /\ t = [fp |-> m.dead, until |-> until] /\ g = [h EXCEPT !.told = t]
  OBVIOUS
<1>6. /\ e \in DiskRec /\ e.unans = d.unans /\ e.hold = t /\ e.lastPoll = d.lastPoll
      /\ e.lastReq = d.lastReq /\ t.fp = m.dead
  BY <1>2, <1>4, <1>5, HoldFacts
<1>7. t \in [fp : Fps \cup {-1}, until : Times]
  BY <1>2, <1>4, <1>5
<1>8. /\ g \in PastRec /\ g.asks = h.asks /\ g.polls = h.polls /\ g.wasted = h.wasted
      /\ g.told = t /\ g.lastDead = h.lastDead /\ g.fileAt = h.fileAt /\ g.base = h.base
  BY <1>2, <1>5, <1>7 DEF PastRec
<1>9. Linked(e, m, g)
  BY <1>2, <1>6, <1>8 DEF Linked
<1>10. Running(e, m, g)
  BY <1>2, <1>6, <1>8 DEF Running
<1>11. Conclude(e, m, "skip") /\ upToNow' = g /\ UNCHANGED env /\ faults' \in 0..MaxGateFaults
  BY <1>1, <1>2, <1>3, <1>5 DEF BrokerDeferred, World
<1> QED
  BY <1>2, <1>9, <1>10, <1>11, ConcludeBad DEF Results

LEMMA BrokerGivesUp ==
  ASSUME GateInv, BrokerLatched \/ BrokerFails PROVE GateInv'
<1>1. PICK d, m, h : d = disk /\ m = mem /\ h = upToNow
  OBVIOUS
<1>2. World /\ Linked(d, m, h) /\ Running(d, m, h)
  BY <1>1, AskingFacts DEF BrokerLatched, BrokerFails
<1>3. /\ Conclude(d, m, "blocked") \/ Conclude(d, m, "failed")
      /\ upToNow' = h /\ UNCHANGED env /\ faults' \in 0..MaxGateFaults
  BY <1>1, <1>2, Bounds DEF BrokerLatched, BrokerFails, World
<1> QED
  BY <1>2, <1>3, ConcludeBad DEF Results

\* With the mailbox, a wait spent in vain is counted with the session the
\* connector gave up with.
Gaveup(h, f, b) == [h EXCEPT !.wasted = h.wasted + 1, !.wastedFp = f, !.ok = b]

LEMMA GaveupFacts ==
  ASSUME NEW h \in PastRec, NEW f \in Fps, NEW b \in BOOLEAN
  PROVE  LET g == Gaveup(h, f, b) IN
         /\ g \in PastRec /\ g.asks = h.asks /\ g.polls = h.polls /\ g.wasted = h.wasted + 1
         /\ g.wastedFp = f /\ g.told = h.told /\ g.base = h.base /\ g.lastDead = h.lastDead
         /\ g.fileAt = h.fileAt
<1>1. PICK w : w = h.wasted + 1
  OBVIOUS
<1>2. w \in Nat
  BY <1>1 DEF PastRec
<1>3. PICK g : g = [h EXCEPT !.wasted = w, !.wastedFp = f, !.ok = b]
  OBVIOUS
<1>4. /\ g \in PastRec /\ g.asks = h.asks /\ g.polls = h.polls /\ g.wasted = w
      /\ g.wastedFp = f /\ g.told = h.told /\ g.base = h.base /\ g.lastDead = h.lastDead
      /\ g.fileAt = h.fileAt
  BY <1>2, <1>3 DEF PastRec
<1> QED
  BY <1>1, <1>3, <1>4 DEF Gaveup

LEMMA GiveUpStep ==
  ASSUME World, mode = "mailbox", faults' \in 0..MaxGateFaults, UNCHANGED env,
         NEW m, NEW b \in BOOLEAN, Linked(disk, m, upToNow), Running(disk, m, upToNow),
         disk.unans.n < MaxUnanswered, GiveUp(m), upToNow' = Gaveup(upToNow, m.fp, b)
  PROVE  GateInv'
<1>1. PICK d, h : d = disk /\ h = upToNow
  OBVIOUS
<1>2. PICK e : e = bumpUnanswered(d, m)
  OBVIOUS
<1>3. PICK g : g = Gaveup(h, m.fp, b)
  OBVIOUS
<1>4. PICK r : r = (IF e.unans.n >= MaxUnanswered THEN "blocked" ELSE "failed")
  OBVIOUS
<1>5. /\ d \in DiskRec /\ m \in MemRec /\ h \in PastRec /\ m.fp \in Fps
      /\ d.unans.n < MaxUnanswered /\ Linked(d, m, h) /\ Running(d, m, h)
  BY <1>1 DEF Linked, MemRec
<1>6. /\ e \in DiskRec /\ e.unans.n = d.unans.n + 1 /\ e.unans.fp = m.fp
      /\ e.lastPoll = d.lastPoll /\ e.lastReq = d.lastReq /\ e.hold = d.hold
      /\ e.token = d.token /\ e.rejected = d.rejected
  <2>1. d \in DiskRec /\ m \in MemRec /\ d.unans.n < MaxUnanswered
    BY <1>5
  <2> QED
    BY <1>2, <2>1, BumpFacts
<1>7. /\ g \in PastRec /\ g.asks = h.asks /\ g.polls = h.polls /\ g.wasted = h.wasted + 1
      /\ g.wastedFp = m.fp /\ g.told = h.told /\ g.base = h.base /\ g.lastDead = h.lastDead
  <2>1. h \in PastRec /\ m.fp \in Fps
    BY <1>5
  <2> QED
    BY <1>3, <2>1, GaveupFacts
<1>8. g.wasted <= e.unans.n
  BY <1>5, <1>6, <1>7 DEF Linked, PastRec, DiskRec
<1>9. Linked(e, m, g)
  BY <1>5, <1>6, <1>7, <1>8 DEF Linked
<1>10. Running(e, m, g)
  BY <1>5, <1>6, <1>7 DEF Running
<1>11. Conclude(e, m, r) /\ upToNow' = g /\ r \in Results \ {"live"}
  BY <1>1, <1>2, <1>3, <1>4 DEF GiveUp, Results
<1> QED
  BY <1>9, <1>10, <1>11, ConcludeBad

LEMMA WaitStep == ASSUME GateInv, waitForNewSession PROVE GateInv'
<1>1. World /\ Linked(disk, mem, upToNow) /\ Phase(disk, mem, upToNow) /\ mem.pc = "waiting"
  BY DEF GateInv, waitForNewSession
<1>2. /\ disk \in DiskRec /\ mem \in MemRec /\ upToNow \in PastRec /\ mode = "mailbox"
      /\ disk.unans.n < MaxUnanswered /\ Polling(disk, mem, upToNow) /\ ~mem.held
  BY <1>1 DEF Linked, Phase
<1>3. PICK m : m = reload(mem)
  OBVIOUS
<1>4. /\ m \in MemRec /\ m.fp = file.fp /\ ~m.held /\ m.asked = mem.asked
      /\ m.notBefore = mem.notBefore
  BY <1>1, <1>2, <1>3, ReloadFacts
<1>5. m.fp <= Newest /\ m.fp <= file.fp /\ m.fp \in Fps
  <2>1. file.fp \in SessionIds /\ file.fp <= Newest
    BY <1>1 DEF World
  <2>2. file.fp \in Int /\ file.fp \in Fps
    BY <2>1, Bounds
  <2> QED
    BY <1>4, <2>1, <2>2
<1>6. Linked(disk, m, upToNow)
  BY <1>1, <1>2, <1>4, <1>5 DEF Linked
<1>7. Polling(disk, m, upToNow) /\ Running(disk, m, upToNow)
  BY <1>2, <1>4 DEF Polling, Running
<1>8. UNCHANGED env
  BY DEF waitForNewSession
<1>9. CASE \E v \in check(m.fp) :
             /\ faults' = faults + Spend(m.fp, v)
             /\ IF v = "live"
                  THEN /\ Conclude(clearUnanswered(disk), m, "live")
                       /\ upToNow' = Accepted(upToNow)
                  ELSE /\ GiveUp(m)
                       /\ upToNow' = [upToNow EXCEPT !.wasted = @ + 1, !.wastedFp = m.fp,
                                                 !.ok = (v # "dead") /\ upToNow.ok]
  <2>1. PICK v \in check(m.fp) :
             /\ faults' = faults + Spend(m.fp, v)
             /\ IF v = "live"
                  THEN /\ Conclude(clearUnanswered(disk), m, "live")
                       /\ upToNow' = Accepted(upToNow)
                  ELSE /\ GiveUp(m)
                       /\ upToNow' = [upToNow EXCEPT !.wasted = @ + 1, !.wastedFp = m.fp,
                                                 !.ok = (v # "dead") /\ upToNow.ok]
    BY <1>9
  <2>2. faults' \in 0..MaxGateFaults
    BY <1>1, <1>5, <2>1, CheckFacts
  <2>3. CASE v = "live"
    <3>1. PICK d, e, h : d = disk /\ e = clearUnanswered(d) /\ h = upToNow
      OBVIOUS
    <3>2. Linked(d, m, h) /\ Polling(d, m, h) /\ Conclude(e, m, "live") /\ upToNow' = Accepted(h)
      BY <1>6, <1>7, <2>1, <2>3, <3>1
    <3>3. mode # "broker"
      BY <1>2
    <3> QED
      BY <1>1, <1>8, <2>2, <3>1, <3>2, <3>3, AcceptedStep
  <2>4. CASE v # "live"
    <3>1. PICK b : b = ((v # "dead") /\ upToNow.ok)
      OBVIOUS
    <3>2. b \in BOOLEAN
      BY <1>2, <3>1 DEF PastRec
    <3>3. GiveUp(m) /\ upToNow' = Gaveup(upToNow, m.fp, b)
      BY <2>1, <2>4, <3>1, Zenon DEF Gaveup
    <3> QED
      BY <1>1, <1>2, <1>6, <1>7, <1>8, <2>2, <3>2, <3>3, GiveUpStep
  <2> QED
    BY <2>3, <2>4
<1>10. CASE /\ GiveUp(m)
            /\ upToNow' = [upToNow EXCEPT !.wasted = @ + 1, !.wastedFp = m.fp]
            /\ UNCHANGED faults
  <2>1. upToNow' = Gaveup(upToNow, m.fp, upToNow.ok)
    <3>1. PICK w : w = upToNow.wasted + 1
      OBVIOUS
    <3>2. /\ upToNow' = [upToNow EXCEPT !.wasted = w, !.wastedFp = m.fp]
          /\ Gaveup(upToNow, m.fp, upToNow.ok)
               = [upToNow EXCEPT !.wasted = w, !.wastedFp = m.fp, !.ok = upToNow.ok]
      BY <1>10, <3>1, Zenon DEF Gaveup
    <3> QED
      BY <1>2, <3>2 DEF PastRec
  <2>2. upToNow.ok \in BOOLEAN /\ faults' \in 0..MaxGateFaults
    BY <1>1, <1>2, <1>10 DEF PastRec, World
  <2> QED
    BY <1>1, <1>2, <1>6, <1>7, <1>8, <1>10, <2>1, <2>2, GiveUpStep
<1> QED
  BY <1>3, <1>9, <1>10 DEF waitForNewSession

LEMMA RequestStep == ASSUME GateInv, RequestLogin PROVE GateInv'
<1>1. World /\ Linked(disk, mem, upToNow) /\ Phase(disk, mem, upToNow) /\ mem.pc = "requesting"
  BY DEF GateInv, RequestLogin
<1>2. /\ disk \in DiskRec /\ mem \in MemRec /\ mode = "mailbox" /\ disk.unans.n < MaxUnanswered
      /\ Polling(disk, mem, upToNow) /\ Running(disk, mem, upToNow)
      /\ mem.deadline - Wait = disk.lastReq
  BY <1>1 DEF Linked, Phase, Polling
<1>3. CASE /\ box' = mem.deadline - Wait
           /\ mem' = [mem EXCEPT !.pc = "waiting"]
           /\ UNCHANGED <<disk, faults>>
  <2>1. /\ mode' = mode /\ now' = now /\ status' = status /\ file' = file /\ token' = token
        /\ upToNow' = upToNow /\ disk' = disk /\ faults' = faults /\ box' = disk.lastReq
    BY <1>2, <1>3 DEF RequestLogin
  <2>2. Newest' = Newest
    BY <2>1 DEF Newest
  <2>3. SameMem(mem, mem') /\ mem'.pc = "waiting" /\ mem'.asked = mem.asked
    BY <1>2, <1>3 DEF SameMem, MemRec
  <2>4. World'
    BY <1>1, <1>2, <2>1, <2>2 DEF World, DiskRec
  <2>5. disk.lastReq <= disk.lastReq
    <3>1. disk.lastReq \in Times
      BY <1>2 DEF DiskRec
    <3>2. disk.lastReq \in Int
      BY <3>1, Bounds
    <3> QED
      BY <3>2
  <2>6. Linked(disk, mem, upToNow)'
    BY <1>1, <2>1, <2>2, <2>3, <2>5 DEF Linked, Covered, SameMem
  <2>7. Polling(disk, mem, upToNow)'
    BY <1>2, <2>1, <2>3 DEF Polling, Running, SameMem
  <2>8. Phase(disk, mem, upToNow)'
    BY <1>2, <2>1, <2>3, <2>7 DEF Phase
  <2> QED
    BY <2>4, <2>6, <2>8 DEF GateInv
<1>4. CASE /\ faults < MaxGateFaults /\ faults' = faults + 1
           /\ Conclude(disk, mem, "failed") /\ UNCHANGED box
  <2>1. UNCHANGED env /\ upToNow' = upToNow
    BY <1>4 DEF RequestLogin, env
  <2>2. faults' \in 0..MaxGateFaults
    BY <1>1, <1>4, Bounds DEF World
  <2>3. PICK d, m, h : d = disk /\ m = mem /\ h = upToNow
    OBVIOUS
  <2>4. Linked(d, m, h) /\ Running(d, m, h) /\ Conclude(d, m, "failed") /\ upToNow' = h
    BY <1>1, <1>2, <1>4, <2>1, <2>3
  <2> QED
    BY <1>1, <2>1, <2>2, <2>4, ConcludeBad DEF Results
<1> QED
  BY <1>3, <1>4 DEF RequestLogin

\* What is known while the kids are read.
LEMMA ReadingFacts ==
  ASSUME GateInv, mem.pc = "reading"
  PROVE  /\ World /\ Linked(disk, mem, upToNow) /\ Polling(disk, mem, upToNow)
         /\ Running(disk, mem, upToNow)
         /\ disk \in DiskRec /\ mem \in MemRec /\ upToNow \in PastRec /\ mem.fp \in Fps
         /\ upToNow.told = NoHold /\ (disk.st = "usable" => upToNow.ok)
BY DEF GateInv, Phase, Linked, Polling, MemRec

\* The poll is over, and what it has done stays.
LEMMA EndsIdle ==
  ASSUME World, UNCHANGED env, faults' \in 0..MaxGateFaults,
         NEW d, NEW m, NEW n, NEW h, Linked(d, m, h), Running(d, m, h), d.st = "usable" => h.ok,
         n = Fresh \/ (SameMem(m, n) /\ n.pc = "idle" /\ n.next = Never),
         disk' = d, mem' = n, upToNow' = h
  PROVE  GateInv'
<1>1. SameDisk(d, d)
  BY DEF Linked, SameDisk
<1>2. Linked(d, n, h)
  BY <1>1, LinkedSame, LinkedFresh
<1>3. CASE n = Fresh
  <2>1. Phase(d, n, h)
    BY <1>3, FreshFacts DEF Phase
  <2> QED
    BY <1>2, <2>1, Transfer
<1>4. CASE SameMem(m, n) /\ n.pc = "idle" /\ n.next = Never
  <2>1. Phase(d, n, h)
    BY <1>4 DEF Phase, Running, SameMem
  <2> QED
    BY <1>2, <2>1, Transfer
<1> QED
  BY <1>3, <1>4

LEMMA ReadEnds == ASSUME GateInv, ReadDone \/ ReadNothing PROVE GateInv'
<1>1. PICK d, m, n, h : d = disk /\ m = mem /\ n = mem' /\ h = upToNow
  OBVIOUS
<1>2. /\ World /\ Linked(d, m, h) /\ Running(d, m, h) /\ m \in MemRec /\ (d.st = "usable" => h.ok)
  BY <1>1, ReadingFacts DEF ReadDone, ReadNothing
<1>3. UNCHANGED env /\ disk' = d /\ upToNow' = h /\ faults' \in 0..MaxGateFaults
  BY <1>1, <1>2, Bounds DEF ReadDone, ReadNothing, World
<1>4. n = Fresh \/ (SameMem(m, n) /\ n.pc = "idle" /\ n.next = Never)
  <2>1. CASE ReadDone
    <3>1. PICK i : i = Idle(m)
      OBVIOUS
    <3>2. SameMem(m, i) /\ i.pc = "idle" /\ i.next = Never
      BY <1>2, <3>1, IdleFacts
    <3>3. n = [i EXCEPT !.failed = 0]
      BY <1>1, <2>1, <3>1 DEF ReadDone
    <3> QED
      BY <3>2, <3>3, Bounds DEF SameMem, MemRec
  <2>2. CASE ReadNothing
    BY <1>1, <1>2, <2>2, CountFacts DEF ReadNothing
  <2> QED
    BY <2>1, <2>2
<1> QED
  BY <1>1, <1>2, <1>3, <1>4, EndsIdle

LEMMA ReadRefusedStep == ASSUME GateInv, ReadRefused PROVE GateInv'
<1>1. PICK d, m, h : d = disk /\ m = mem /\ h = upToNow
  OBVIOUS
<1>2. /\ World /\ Linked(d, m, h) /\ Polling(d, m, h) /\ Running(d, m, h)
      /\ d \in DiskRec /\ m \in MemRec /\ h \in PastRec /\ m.fp \in Fps /\ h.told = NoHold
  BY <1>1, ReadingFacts DEF ReadRefused
<1>3. UNCHANGED env /\ faults' \in 0..MaxGateFaults
  BY <1>2 DEF ReadRefused, World
<1>4. PICK g : g = Refused(h, m.fp)
  OBVIOUS
<1>5. /\ g \in PastRec /\ g.asks = h.asks /\ g.polls = h.polls /\ g.wasted = h.wasted
      /\ g.wastedFp = h.wastedFp /\ g.told = h.told /\ g.lastDead = m.fp /\ ~g.ok
      /\ g.fileAt = h.fileAt /\ g.base = h.base
  BY <1>2, <1>4, RefusedFacts
<1>6. CASE mode = "broker" /\ m.turn = "ensure"
  <2>1. PICK n : n = [m EXCEPT !.turn = "renew"]
    OBVIOUS
  <2>2. PICK e : e = saveBrokerHold(d, m.fp, 0)
    OBVIOUS
  <2>3. SameMem(m, n) /\ n.asked = m.asked
    BY <1>2, <2>1 DEF SameMem, MemRec
  <2>4. /\ e \in DiskRec /\ e.unans = d.unans /\ e.hold.fp = m.fp /\ e.lastPoll = d.lastPoll
        /\ e.lastReq = d.lastReq
    <3>1. d \in DiskRec /\ m.fp \in Fps /\ 0 \in Times
      BY <1>2, Bounds
    <3> QED
      BY <2>2, <3>1, HoldFacts
  <2>5. Linked(e, n, g)
    BY <1>2, <1>5, <1>6, <2>3, <2>4 DEF Linked, SameMem
  <2>6. Polling(e, n, g) /\ Running(e, n, g)
    BY <1>2, <1>5, <1>6, <2>3, <2>4 DEF Polling, Running, SameMem
  <2>7. IF n.asked THEN Conclude(e, n, "skip") /\ upToNow' = g ELSE AskBroker(e, n, g)
    <3>1. Renew(d, n, g) /\ n.fp = m.fp
      BY <1>1, <1>4, <1>6, <2>1, <2>3 DEF ReadRefused, SameMem
    <3> QED
      BY <2>2, <3>1 DEF Renew
  <2>8. CASE n.asked
    BY <1>2, <1>3, <2>5, <2>6, <2>7, <2>8, ConcludeBad DEF Results
  <2>9. CASE ~n.asked
    <3>1. g.asks = 0 /\ e.hold.fp = n.fp
      BY <1>2, <1>5, <2>3, <2>4, <2>9 DEF Polling, SameMem, PastRec
    <3> QED
      BY <1>2, <1>3, <1>6, <2>5, <2>6, <2>7, <2>9, <3>1, AskBrokerStep
  <2> QED
    BY <2>8, <2>9
<1>7. CASE mode = "off"
  <2>1. sessionRejected(d, m) /\ upToNow' = Refused(h, m.fp)
    BY <1>1, <1>4, <1>7 DEF ReadRefused
  <2> QED
    BY <1>2, <1>3, <1>7, <2>1, RejectedStep
<1>8. CASE mode # "off" /\ ~(mode = "broker" /\ m.turn = "ensure")
  <2>1. PICK e, n, f : /\ e = SetState(d, "waiting", m.fp) /\ n = Idle(m)
                       /\ f = [h EXCEPT !.ok = FALSE]
    OBVIOUS
  <2>2. disk' = e /\ mem' = n /\ upToNow' = f
    BY <1>1, <1>8, <2>1 DEF ReadRefused
  <2>3. SameDisk(d, e) /\ e.st = "waiting"
    BY <1>2, <2>1, SetStateFacts
  <2>4. /\ f \in PastRec /\ f.polls = h.polls /\ f.wasted = h.wasted
        /\ f.wastedFp = h.wastedFp /\ f.told = h.told /\ f.lastDead = h.lastDead
        /\ f.base = h.base
    BY <1>2, <2>1 DEF PastRec
  <2>5. SameMem(m, n) /\ n.pc = "idle" /\ n.next = Never
    BY <1>2, <2>1, IdleFacts
  <2>6. Linked(e, m, f)
    BY <1>2, <2>3, <2>4 DEF Linked, SameDisk
  <2>7. Running(e, m, f)
    BY <1>2, <2>3, <2>4 DEF Running, SameDisk
  <2> QED
    BY <1>2, <1>3, <2>2, <2>3, <2>5, <2>6, <2>7, EndsIdle
<1> QED
  BY <1>6, <1>7, <1>8

-----------------------------------------------------------------------------
(* Starts, stops and everyone else.                                         *)

LEMMA StartStep == ASSUME GateInv, Start PROVE GateInv'
<1>1. World /\ Linked(disk, mem, upToNow) /\ Phase(disk, mem, upToNow) /\ mem = Fresh
  BY DEF GateInv, Start, Phase
<1>2. PICK d, e, n, h : d = disk /\ e = disk' /\ n = [Fresh EXCEPT !.pc = "started"] /\ h = upToNow
  OBVIOUS
<1>3. disk \in DiskRec
  BY <1>1 DEF Linked
<1>4. SameDisk(d, e) /\ e.st # "usable"
  <2>1. NoSession \in Fps
    BY Bounds
  <2>2. CASE StartOnDemand
    <3>1. PICK x : x = PersistTo(d)
      OBVIOUS
    <3>2. SameDisk(d, x) /\ x.st # "usable"
      <4>1. CASE d.st = "waiting"
        BY <1>2, <1>3, <3>1, <4>1 DEF PersistTo, SameDisk
      <4>2. CASE d.st # "waiting"
        BY <1>2, <1>3, <2>1, <3>1, <4>2, SetStateFacts DEF PersistTo
      <4> QED BY <4>1, <4>2
    <3>3. e = x \/ e = SetState(x, "unknown", NoSession)
      BY <1>2, <2>2, <3>1 DEF StartOnDemand, EndWaitIfReplaced
    <3>4. x \in DiskRec
      BY <3>2 DEF SameDisk
    <3> QED
      BY <2>1, <3>2, <3>3, <3>4, SetStateFacts DEF SameDisk
  <2>3. CASE StartWaiting
    BY <1>2, <1>3, <2>1, <2>3, SetStateFacts DEF StartWaiting
  <2> QED
    BY <2>2, <2>3 DEF Start
<1>5. SameMem(Fresh, n) /\ n.pc = "started"
  BY <1>2, FreshFacts DEF SameMem, MemRec
<1>6. Linked(e, n, h)
  BY <1>1, <1>2, <1>4, <1>5, LinkedSame
<1>7. mode = "off" /\ h.lastDead # NoSession => h.lastDead < file.fp
  <2>1. mode = "off" => FreshSession
    BY DEF Start, StartOnDemand, StartWaiting
  <2>2. h.lastDead \in Int /\ file.fp \in Int
    BY <1>1, <1>2, Bounds DEF Linked, PastRec, World
  <2> QED
    BY <1>1, <1>2, <2>1, <2>2 DEF Linked, FreshSession
<1>8. Phase(e, n, h)
  BY <1>2, <1>4, <1>5, <1>7 DEF Phase
<1>9. UNCHANGED env /\ faults' \in 0..MaxGateFaults /\ disk' = e /\ mem' = n /\ upToNow' = h
  BY <1>1, <1>2 DEF Start, World
<1> QED
  BY <1>1, <1>6, <1>8, <1>9, Transfer

LEMMA CrashStep == ASSUME GateInv, GateCrash PROVE GateInv'
<1>1. World /\ Linked(disk, mem, upToNow)
  BY DEF GateInv
<1>2. PICK d, n, h : d = disk /\ n = Fresh /\ h = upToNow
  OBVIOUS
<1>3. SameDisk(d, d)
  BY <1>1, <1>2 DEF Linked, SameDisk
<1>4. Linked(d, n, h)
  BY <1>1, <1>2, <1>3, LinkedFresh
<1>5. Phase(d, n, h)
  BY <1>2, FreshFacts DEF Phase
<1>6. UNCHANGED env /\ faults' \in 0..MaxGateFaults /\ disk' = d /\ mem' = n /\ upToNow' = h
  BY <1>1, <1>2, Bounds DEF GateCrash, World
<1> QED
  BY <1>1, <1>4, <1>5, <1>6, Transfer

\* Sessions are made and end, and are never unmade.
LEMMA NewestGrows ==
  ASSUME World, status' \in [SessionIds -> {"unmade", "live", "dead", "expired"}],
         \A s \in SessionIds : status[s] # "unmade" => status'[s] # "unmade"
  PROVE  Newest <= Newest' /\ Newest \in Int /\ Newest' \in Int
<1> DEFINE made == {s \in SessionIds : status[s] # "unmade"}
           after == {s \in SessionIds : status'[s] # "unmade"}
<1>1. Newest \in Fps /\ (Newest # NoSession => status[Newest] # "unmade")
  BY NewestFacts DEF World
<1>2. MaxSessions \in Nat /\ after \in SUBSET (0..MaxSessions)
  BY Bounds DEF SessionIds
<1>3. CASE after = {}
  <2>1. Newest' = NoSession
    BY <1>3 DEF Newest
  <2>2. Newest = NoSession
    BY <1>1, <1>3, Bounds
  <2> QED
    BY <2>1, <2>2, Bounds
<1>4. CASE after # {}
  <2>1. PICK x \in after : \A y \in after : y <= x
    BY <1>2, <1>4, GreatestExists
  <2>2. Newest' \in after /\ \A y \in after : y <= Newest'
    BY <1>4, <2>1 DEF Newest
  <2>3. Newest # NoSession => Newest \in after
    BY <1>1, Bounds
  <2>4. Newest = NoSession => Newest <= Newest'
    BY <1>2, <2>2 DEF NoSession
  <2> QED
    BY <1>1, <1>2, <2>2, <2>3, <2>4, Bounds
<1> QED
  BY <1>3, <1>4

\* What happens elsewhere leaves the connector's state as good as it was.
LEMMA ElsewhereStep ==
  ASSUME GateInv, UNCHANGED <<mode, now, box, disk, mem, faults, upToNow>>,
         status' \in [SessionIds -> {"unmade", "live", "dead", "expired"}],
         file' \in [fp : SessionIds, mtime : Times], file.fp <= file'.fp, file'.fp <= Newest',
         token' \in 0..MaxResets, Newest <= Newest', Newest \in Int, Newest' \in Int
  PROVE  GateInv'
<1>1. World /\ Linked(disk, mem, upToNow) /\ Phase(disk, mem, upToNow)
  BY DEF GateInv
<1>2. World'
  BY <1>1 DEF World
<1>3. /\ mem.fp \in Int /\ upToNow.lastDead \in Int /\ file.fp \in Int /\ file'.fp \in Int
  BY <1>1, Bounds DEF Linked, World, MemRec, PastRec
<1>4. Linked(disk, mem, upToNow)'
  BY <1>1, <1>3 DEF Linked, Covered
<1>5. Phase(disk, mem, upToNow)'
  <2>1. Running(disk, mem, upToNow) => Running(disk, mem, upToNow)'
    BY <1>3 DEF Running
  <2>2. Polling(disk, mem, upToNow) => Polling(disk, mem, upToNow)'
    BY <2>1 DEF Polling
  <2>3. upToNow.lastDead < file.fp => upToNow.lastDead < file'.fp
    BY <1>3
  <2> QED
    BY <1>1, <2>1, <2>2, <2>3 DEF Phase
<1> QED
  BY <1>2, <1>4, <1>5 DEF GateInv

LEMMA OthersStep ==
  ASSUME GateInv, SessionEnds \/ LoginMade \/ FileSynced \/ Operator
  PROVE  GateInv'
<1>1. World
  BY DEF GateInv
<1>2. /\ status \in [SessionIds -> {"unmade", "live", "dead", "expired"}]
      /\ file \in [fp : SessionIds, mtime : Times] /\ file.fp <= Newest /\ token \in 0..MaxResets
      /\ file.fp \in Int /\ Newest \in Int
  BY <1>1, NewestFacts, Bounds DEF World
<1>3. CASE SessionEnds \/ LoginMade
  <2>1. /\ status' \in [SessionIds -> {"unmade", "live", "dead", "expired"}]
        /\ \A s \in SessionIds : status[s] # "unmade" => status'[s] # "unmade"
    BY <1>2, <1>3 DEF SessionEnds, LoginMade
  <2>2. Newest <= Newest' /\ Newest' \in Int
    BY <1>1, <2>1, NewestGrows
  <2>3. UNCHANGED <<mode, now, box, disk, mem, faults, upToNow, file, token>>
    BY <1>3 DEF SessionEnds, LoginMade
  <2>4. file.fp <= file'.fp /\ file'.fp <= Newest'
    BY <1>2, <2>2, <2>3
  <2> QED
    BY <1>2, <2>1, <2>2, <2>3, <2>4, ElsewhereStep
<1>4. CASE FileSynced
  <2>1. PICK s \in (file.fp + 1)..Newest : file' = [fp |-> s, mtime |-> now]
    BY <1>4 DEF FileSynced
  <2>2. UNCHANGED <<mode, now, status, box, disk, mem, faults, upToNow, token>>
    BY <1>4 DEF FileSynced
  <2>3. Newest' = Newest
    BY <2>2 DEF Newest
  <2>4. s \in SessionIds /\ now \in Times /\ s \in Int /\ file.fp <= s /\ s <= Newest
    BY <1>1, <1>2, <2>1, NewestFacts, Bounds DEF World, SessionIds, Fps
  <2>5. file' \in [fp : SessionIds, mtime : Times] /\ file'.fp = s
    BY <2>1, <2>4
  <2>6. Newest <= Newest /\ file.fp <= file'.fp /\ file'.fp <= Newest'
    BY <1>2, <2>3, <2>4, <2>5
  <2> QED
    BY <1>2, <2>2, <2>3, <2>5, <2>6, ElsewhereStep
<1>5. CASE Operator
  <2>1. UNCHANGED <<mode, now, status, box, disk, mem, faults, upToNow, file>> /\ token' \in 0..MaxResets
    BY <1>2, <1>5, Bounds DEF Operator
  <2>2. Newest' = Newest
    BY <2>1 DEF Newest
  <2>3. Newest <= Newest /\ file.fp <= file.fp
    BY <1>2
  <2> QED
    BY <1>2, <2>1, <2>2, <2>3, ElsewhereStep
<1> QED
  BY <1>3, <1>4, <1>5

\* A tick opens a window, or leaves what was polled since as it is.
LEMMA TickStep == ASSUME GateInv, Tick PROVE GateInv'
<1>1. World /\ Linked(disk, mem, upToNow) /\ Phase(disk, mem, upToNow)
  BY DEF GateInv
<1>2. PICK g : g = upToNow'
  OBVIOUS
<1>3. /\ now \in 0..MaxTime /\ now + 1 \in 0..MaxTime /\ now' = now + 1 /\ now \in Int
      /\ UNCHANGED <<mode, status, file, box, token, disk, mem, faults>>
      /\ upToNow \in PastRec /\ disk \in DiskRec
  BY <1>1, Bounds DEF Tick, World, Linked
<1>4. Newest' = Newest
  BY <1>3 DEF Newest
<1>5. /\ g \in PastRec /\ g.wasted = upToNow.wasted /\ g.wastedFp = upToNow.wastedFp
      /\ g.told = upToNow.told /\ g.lastDead = upToNow.lastDead /\ g.base = upToNow.base
      /\ g.asks = upToNow.asks /\ g.fileAt = upToNow.fileAt /\ g.ok = upToNow.ok
      /\ g.polls = (IF lastWindowStart(now + 1) = now + 1 THEN 0 ELSE upToNow.polls)
  <2>1. CASE lastWindowStart(now + 1) = now + 1
    <3>1. g = [upToNow EXCEPT !.polls = 0] /\ 0 \in Nat
      BY <1>2, <2>1 DEF Tick
    <3> QED
      BY <1>3, <2>1, <3>1 DEF PastRec
  <2>2. CASE lastWindowStart(now + 1) # now + 1
    BY <1>2, <1>3, <2>2 DEF Tick
  <2> QED
    BY <2>1, <2>2
<1>6. World'
  BY <1>1, <1>3, <1>4 DEF World
<1>7. disk.lastPoll <= now + 1 /\ disk.lastReq <= now + 1
  <2>1. disk.lastPoll \in Int /\ disk.lastReq \in Int /\ disk.lastPoll <= now /\ disk.lastReq <= now
    BY <1>1, <1>3, Bounds DEF DiskRec, Linked
  <2> QED BY <1>3, <2>1
<1>8. WindowsApart /\ g.polls = 1 => disk.lastPoll # Never /\ lastWindowStart(now + 1) <= disk.lastPoll
  <2>1. SUFFICES ASSUME WindowsApart, g.polls = 1 PROVE disk.lastPoll # Never /\ lastWindowStart(now + 1) <= disk.lastPoll
    OBVIOUS
  <2>2. lastWindowStart(now + 1) # now + 1 /\ upToNow.polls = 1
    BY <1>5, <2>1
  <2>3. disk.lastPoll # Never /\ lastWindowStart(now) <= disk.lastPoll
    BY <1>1, <2>1, <2>2 DEF Linked, Covered
  <2>4. lastWindowStart(now + 1) <= lastWindowStart(now)
    BY <1>3, <2>2, StartKept
  <2>5. lastWindowStart(now + 1) \in Int /\ lastWindowStart(now) \in Int /\ disk.lastPoll \in Int
    BY <1>3, StartFacts, Bounds DEF DiskRec
  <2> QED
    BY <2>3, <2>4, <2>5
<1>9. Linked(disk, mem, upToNow)'
  BY <1>1, <1>2, <1>3, <1>4, <1>5, <1>7, <1>8 DEF Linked, Covered
<1>10. Phase(disk, mem, upToNow)'
  BY <1>1, <1>2, <1>3, <1>5 DEF Phase, Polling, Running
<1> QED
  BY <1>6, <1>9, <1>10 DEF GateInv

LEMMA RefreshedStep == ASSUME GateInv, BrokerRefreshed PROVE GateInv'
<1>1. /\ World /\ Linked(disk, mem, upToNow) /\ Phase(disk, mem, upToNow)
      /\ Polling(disk, mem, upToNow) /\ mode = "broker" /\ mem.asked
      /\ disk.unans.n < MaxUnanswered /\ disk.hold.fp = mem.dead
      /\ mem \in MemRec /\ disk \in DiskRec
  BY AskingFacts DEF BrokerRefreshed, GateInv, Phase
<1>2. /\ status \in [SessionIds -> {"unmade", "live", "dead", "expired"}]
      /\ file.fp <= Newest /\ file.fp \in Int /\ Newest \in Int /\ mem.fp \in Int /\ mem.fp <= Newest
  BY <1>1, NewestFacts, Bounds DEF World, Linked, MemRec
<1>3. /\ status' \in [SessionIds -> {"unmade", "live", "dead", "expired"}]
      /\ \A s \in SessionIds : status[s] # "unmade" => status'[s] # "unmade"
  BY <1>2 DEF BrokerRefreshed
<1>4. Newest <= Newest' /\ Newest' \in Int
  BY <1>1, <1>3, NewestGrows
<1>5. /\ UNCHANGED <<mode, now, file, box, token, faults, disk, upToNow>>
      /\ mem' = [mem EXCEPT !.pc = "answered"]
  BY DEF BrokerRefreshed
<1>6. SameMem(mem, mem') /\ mem'.pc = "answered" /\ mem'.asked = mem.asked /\ mem'.dead = mem.dead
  BY <1>1, <1>5 DEF SameMem, MemRec
<1>7. World'
  <2>1. file.fp <= Newest'
    BY <1>2, <1>4
  <2> QED
    BY <1>1, <1>3, <1>5, <2>1 DEF World
<1>8. Linked(disk, mem, upToNow)'
  <2>1. mem.fp <= Newest'
    BY <1>2, <1>4
  <2> QED
    BY <1>1, <1>5, <1>6, <2>1 DEF Linked, Covered, SameMem
<1>9. Polling(disk, mem, upToNow)'
  BY <1>1, <1>5, <1>6 DEF Polling, Running, SameMem
<1>10. Phase(disk, mem, upToNow)'
  BY <1>1, <1>5, <1>6, <1>9 DEF Phase
<1> QED
  BY <1>7, <1>8, <1>10 DEF GateInv

LEMMA GateStart == GateInit => GateInv
<1> SUFFICES ASSUME GateInit PROVE GateInv
  OBVIOUS
<1>1. PICK d, m, h : d = disk /\ m = mem /\ h = upToNow
  OBVIOUS
<1>2. status \in [SessionIds -> {"unmade", "live", "dead", "expired"}] /\ 1 \in SessionIds
  BY Bounds DEF GateInit, SessionIds
<1>3. Newest \in Int /\ 1 <= Newest
  BY <1>2, NewestFacts, Bounds DEF GateInit
<1>4. World
  BY <1>2, <1>3, Bounds DEF GateInit, World
<1>5. NoStrikes \in [n : 0..MaxUnanswered, fp : Fps] /\ NoHold \in [fp : Fps \cup {-1}, until : Times]
  BY Bounds DEF NoStrikes, NoHold
<1>6. d \in DiskRec /\ d.lastPoll = Never /\ d.lastReq = Never /\ d.unans = NoStrikes
  BY <1>1, <1>5, Bounds DEF GateInit, DiskRec
<1>7. /\ h \in PastRec /\ h.polls = 0 /\ h.wasted = 0 /\ h.told = NoHold /\ h.lastDead = NoSession
  BY <1>1, <1>5, Bounds DEF GateInit, PastRec
<1>8. m = Fresh /\ box = Never /\ now = 0 /\ file.fp = 1
  BY <1>1 DEF GateInit
<1>9. Linked(d, m, h)
  BY <1>3, <1>6, <1>7, <1>8, FreshFacts DEF Linked, NoStrikes, Never, NoSession
<1>10. Phase(d, m, h)
  BY <1>8, FreshFacts DEF Phase
<1> QED
  BY <1>1, <1>4, <1>9, <1>10 DEF GateInv

LEMMA GateStutters == ASSUME GateInv, UNCHANGED gateVars PROVE GateInv'
<1>1. PICK d, m, h : d = disk /\ m = mem /\ h = upToNow
  OBVIOUS
<1>2. World /\ Linked(d, m, h) /\ Phase(d, m, h)
  BY <1>1 DEF GateInv
<1>3. UNCHANGED env /\ faults' \in 0..MaxGateFaults /\ disk' = d /\ mem' = m /\ upToNow' = h
  BY <1>1, <1>2 DEF gateVars, env, World
<1> QED
  BY <1>2, <1>3, Transfer

LEMMA GateStep == ASSUME GateInv, [GateNext]_gateVars PROVE GateInv'
<1>1. CASE Poll \/ WatchSchedule \/ WatchFire
  BY <1>1, PollStep, WatchScheduleStep, WatchFireStep
<1>2. CASE BrokerCurrent \/ AnswerArrives
  BY <1>2, BrokerSessionStep DEF BrokerCurrent, AnswerArrives
<1>3. CASE BrokerRefreshed \/ BrokerDeferred \/ BrokerLatched \/ BrokerFails
  BY <1>3, RefreshedStep, BrokerDeferredStep, BrokerGivesUp
<1>4. CASE RequestLogin \/ waitForNewSession
  BY <1>4, RequestStep, WaitStep
<1>5. CASE ReadDone \/ ReadNothing \/ ReadRefused
  BY <1>5, ReadEnds, ReadRefusedStep
<1>6. CASE Start \/ GateCrash
  BY <1>6, StartStep, CrashStep
<1>7. CASE SessionEnds \/ LoginMade \/ FileSynced \/ Operator
  BY <1>7, OthersStep
<1>8. CASE Tick
  BY <1>8, TickStep
<1>9. CASE UNCHANGED gateVars
  BY <1>9, GateStutters
<1> QED
  BY <1>1, <1>2, <1>3, <1>4, <1>5, <1>6, <1>7, <1>8, <1>9 DEF GateNext, Connector

LEMMA GateInvSafe == GateInv /\ WindowsApart => GateSafe
<1> SUFFICES ASSUME GateInv, WindowsApart PROVE GateSafe
  OBVIOUS
<1>1. /\ World /\ Linked(disk, mem, upToNow) /\ Phase(disk, mem, upToNow)
      /\ disk \in DiskRec /\ mem \in MemRec /\ upToNow \in PastRec
  BY DEF GateInv, Linked
<1>2. GateTypeOK
  <2>1. file \in [fp : Fps, mtime : Times]
    BY <1>1, Bounds DEF World
  <2>2. disk \in [lastPoll : Times, lastReq : Times,
                 unans : [n : 0..(MaxUnanswered + 1), fp : Fps],
                 hold : [fp : Fps \union {-1}, until : Times],
                 token : 0..MaxResets, rejected : Fps,
                 st : {"unknown", "usable", "waiting"}, subj : Fps]
    <3>1. disk.unans \in [n : 0..(MaxUnanswered + 1), fp : Fps]
      <4>1. disk.unans \in [n : 0..MaxUnanswered, fp : Fps]
        BY <1>1 DEF DiskRec
      <4>2. 0..MaxUnanswered \subseteq 0..(MaxUnanswered + 1)
        BY Bounds
      <4> QED
        BY <4>1, <4>2
    <3> QED
      BY <1>1, <3>1 DEF DiskRec
  <2> QED
    BY <1>1, <2>1, <2>2 DEF World, MemRec, GateTypeOK
<1>3. OnePollPerWindow /\ OneAskPerPoll /\ DeferralKept /\ DeadNotReprobed
  <2>1. /\ upToNow.polls <= 1 /\ upToNow.asks \in 0..1
        /\ upToNow.early = FALSE /\ upToNow.reprobed = FALSE
    BY <1>1 DEF PastRec, Linked
  <2> QED
    BY <2>1 DEF OnePollPerWindow, OneAskPerPoll, DeferralKept, DeadNotReprobed
<1>4. StrikesBounded
  <2>1. upToNow.wasted \in Nat /\ disk.unans.n \in 0..MaxUnanswered /\ upToNow.wasted <= disk.unans.n
    BY <1>1 DEF Linked, PastRec, DiskRec
  <2> QED
    BY <2>1, Bounds DEF StrikesBounded
<1>5. UsableMeansAccepted
  BY <1>1 DEF Phase, UsableMeansAccepted
<1> QED
  BY <1>2, <1>3, <1>4, <1>5 DEF GateSafe

\* On schedules whose windows do not share a tick, the session gate polls and
\* asks for logins as seldom as promised, whatever the schedule and the bounds,
\* across crashes and restarts (session_gate.go, connector.go pollNow).
THEOREM GateIsKept == WindowsApart => (MCSpec => []GateKept)
<1> SUFFICES ASSUME WindowsApart PROVE MCSpec => []GateKept
  OBVIOUS
<1>1. MCInit => GateInv
  BY GateStart DEF MCInit
<1>2. GateInv /\ [MCNext]_<<gateVars, vars, carryVars, pollVars, part>> => GateInv'
  BY GateStep DEF MCNext
<1>3. GateInv => GateKept
  BY GateInvSafe DEF GateKept
<1> QED
  BY <1>1, <1>2, <1>3, PTL DEF MCSpec

\* A request is put into the mailbox only when the last one is old enough.
LEMMA RequestsApart ==
  ASSUME GateInv, [GateNext]_gateVars
  PROVE  box' # box => box = Never \/ box' - box >= MinInterval
<1>1. CASE RequestLogin
  <2>1. /\ Phase(disk, mem, upToNow) /\ mem.pc = "requesting"
    BY <1>1 DEF GateInv, RequestLogin
  <2>2. /\ mem.deadline - Wait = disk.lastReq
        /\ box = Never \/ disk.lastReq - box >= MinInterval
    BY <2>1 DEF Phase
  <2>3. box' # box => box' = mem.deadline - Wait
    BY <1>1 DEF RequestLogin
  <2> QED
    BY <2>2, <2>3
<1>2. CASE ~RequestLogin
  BY <1>2 DEF GateNext, Connector, gateVars, env, Poll, pollNow, WatchSchedule, WatchFire,
       BrokerCurrent, BrokerRefreshed, AnswerArrives, BrokerDeferred, BrokerLatched, BrokerFails,
       waitForNewSession, ReadDone, ReadNothing, ReadRefused, Start, GateCrash, SessionEnds,
       LoginMade, FileSynced, Operator, Tick
<1> QED
  BY <1>1, <1>2

\* Two requests in the mailbox are min_interval apart, across crashes between
\* recording a request and making it (requestAndWait).
THEOREM RequestsArePaced == MCSpec => RequestsPaced
<1>1. MCInit => GateInv
  BY GateStart DEF MCInit
<1>2. GateInv /\ [MCNext]_<<gateVars, vars, carryVars, pollVars, part>> => GateInv'
  BY GateStep DEF MCNext
<1>3. GateInv /\ [MCNext]_<<gateVars, vars, carryVars, pollVars, part>>
        => [box' # box => box = Never \/ box' - box >= MinInterval]_gateVars
  BY RequestsApart DEF MCNext
<1> QED
  BY <1>1, <1>2, <1>3, PTL DEF MCSpec, RequestsPaced

\* The end of a poll, and a question to the broker, keep the session in use.
LEMMA ConcludeSession ==
  ASSUME NEW d, NEW m \in MemRec, NEW r, Conclude(d, m, r)
  PROVE  mem'.pc = "down" \/ mem'.fp = m.fp
<1>1. mem' \in {[m EXCEPT !.pc = "reading"], Fresh, Idle(m), countFailedPoll(m)}
  BY DEF Conclude
<1>2. [m EXCEPT !.pc = "reading"].fp = m.fp
  BY DEF MemRec
<1> QED
  <2>1. CASE mem' = [m EXCEPT !.pc = "reading"]
    BY <1>2, <2>1
  <2>2. CASE mem' = Fresh
    BY <2>2, FreshFacts
  <2>3. CASE mem' = Idle(m)
    BY <2>3, IdleFacts DEF SameMem
  <2>4. CASE mem' = countFailedPoll(m)
    BY <2>4, CountFacts, FreshFacts DEF SameMem
  <2> QED
    BY <1>1, <2>1, <2>2, <2>3, <2>4

LEMMA AskSession ==
  ASSUME NEW d, NEW m \in MemRec, NEW h, AskBroker(d, m, h)
  PROVE  mem'.pc = "down" \/ mem'.fp = m.fp
<1>1. CASE Conclude(d, m, "blocked") \/ Conclude(d, m, "skip")
  BY <1>1, ConcludeSession
<1>2. CASE mem' = [m EXCEPT !.pc = "asking", !.dead = m.fp, !.asked = TRUE]
  BY <1>2 DEF MemRec
<1> QED
  BY <1>1, <1>2 DEF AskBroker

LEMMA EnsureSession ==
  ASSUME NEW d, NEW m, mode = "broker", MemAt(m) \in MemRec, World, Ensure(d, m)
  PROVE  mem'.pc = "down" \/ mem'.fp = MemAt(m).fp
<1>1. PICK n : n = MemAt(m)
  OBVIOUS
<1>2. n \in MemRec /\ n.fp \in Fps
  BY <1>1 DEF MemRec
<1>3. \/ \E x, h : AskBroker(x, n, h)
      \/ \E x, r : Conclude(x, n, r)
  <2>1. \A v \in check(n.fp) : v \in {"live", "unknown", "dead"}
    BY <1>2, CheckFacts
  <2> QED
    BY <1>1, <2>1 DEF Ensure, MemAt
<1> QED
  BY <1>1, <1>2, <1>3, AskSession, ConcludeSession

\* The broker's session is the newest.
LEMMA BrokerNewest ==
  ASSUME GateInv, mem.pc \in {"asking", "answered"}, BrokerSession(Newest)
  PROVE  mem'.pc = "down" \/ mem'.fp = mem.fp \/ mem'.fp = Newest
<1>1. World /\ mem \in MemRec
  BY AskingFacts
<1>2. Newest \in Fps
  BY <1>1, NewestFacts DEF World
<1>3. PICK n : n = adopt(mem, Newest)
  OBVIOUS
<1>4. n \in MemRec /\ n.fp = Newest
  BY <1>1, <1>2, <1>3, AdoptFacts
<1>5. \/ \E x, r : Conclude(x, mem, r)
      \/ \E x, r : Conclude(x, n, r)
  <2>1. CASE \E v : secondOpinion(v)
    BY <2>1 DEF secondOpinion
  <2>2. CASE ~\E v : secondOpinion(v)
    BY <1>3, <2>2 DEF BrokerSession
  <2> QED
    BY <2>1, <2>2
<1> QED
  BY <1>1, <1>4, <1>5, ConcludeSession

\* What a reload in place of the held session needs.
LEMMA ReloadOlder ==
  ASSUME World, NEW m \in MemRec, m.held, reload(m).fp < m.fp
  PROVE  file.fp # m.replaced
<1>1. m.fp \in Int /\ file.fp \in Int /\ file.fp # NoSession
  BY Bounds DEF World, MemRec
<1>2. reload(m) # m
  BY <1>1
<1>3. ~(m.held /\ file.fp = m.replaced /\ file.fp # m.fp)
  BY <1>2 DEF reload
<1>4. reload(m).fp = file.fp
  BY <1>1, <1>2 DEF reload, MemRec
<1> QED
  BY <1>1, <1>3, <1>4

LEMMA HeldOverFile ==
  ASSUME GateInv, [GateNext]_gateVars, mem.held, mem'.pc # "down", mem'.fp < mem.fp
  PROVE  file.fp # upToNow.base
<1>1. /\ World /\ Linked(disk, mem, upToNow) /\ Phase(disk, mem, upToNow)
      /\ mem \in MemRec /\ mem.fp \in Int /\ mem.replaced = upToNow.base /\ mode = "broker"
      /\ mem.fp <= Newest /\ mem.pc \notin {"down", "started", "requesting", "waiting"}
  <2>1. World /\ Linked(disk, mem, upToNow) /\ Phase(disk, mem, upToNow)
    BY DEF GateInv
  <2>2. mem # Fresh /\ mem # [Fresh EXCEPT !.pc = "started"]
    BY FreshFacts DEF MemRec
  <2> QED
    BY <2>1, <2>2, Bounds DEF Linked, Phase, MemRec
<1>2. mem'.fp # mem.fp
  BY <1>1
<1>3. CASE WatchFire
  <2>1. PICK m : m = deferUntil(deferUntil(mem, windowEnd(mem.next)), windowEnd(now))
    OBVIOUS
  <2>2. PICK d : d = [disk EXCEPT !.lastPoll = now]
    OBVIOUS
  <2>3. Ensure(d, m)
    BY <1>3, <2>1, <2>2 DEF WatchFire, pollNow
  <2>4. m \in MemRec /\ m.fp = mem.fp /\ m.held = mem.held /\ m.replaced = mem.replaced
    <3>1. windowEnd(now) \in 0..MaxTime
      BY <1>1, EndFacts DEF World
    <3>2. windowEnd(mem.next) \in 0..MaxTime
      <4>1. PICK k \in DOMAIN Windows : Windows[k].start <= mem.next /\ mem.next < Windows[k].end
        BY <1>1, <1>3 DEF Phase, WatchFire
      <4>2. mem.next \in 0..MaxTime
        <5>1. Windows[k].start \in 0..MaxTime /\ Windows[k].end \in 0..MaxTime /\ mem.next \in Int
          BY <1>1, WindowTypes, Bounds DEF MemRec
        <5> QED
          BY <4>1, <5>1, Bounds
      <4> QED BY <4>2, EndFacts
    <3>3. PICK n : n = deferUntil(mem, windowEnd(mem.next))
      OBVIOUS
    <3>4. n \in MemRec /\ n.fp = mem.fp /\ n.held = mem.held /\ n.replaced = mem.replaced
      BY <1>1, <3>2, <3>3, DeferFacts
    <3> QED
      BY <2>1, <3>1, <3>3, <3>4, DeferFacts
  <2>5. PICK x : x = [m EXCEPT !.asked = FALSE, !.turn = "ensure"]
    OBVIOUS
  <2>6. /\ x \in MemRec /\ x.fp = mem.fp /\ x.held /\ x.replaced = mem.replaced /\ MemAt(m) = reload(x)
    BY <2>4, <2>5 DEF MemRec, MemAt
  <2>7. reload(x) \in MemRec
    BY <1>1, <2>6, ReloadFacts
  <2>8. mem'.fp = reload(x).fp
    BY <1>1, <2>3, <2>6, <2>7, EnsureSession
  <2> QED
    BY <1>1, <2>6, <2>8, ReloadOlder
<1>4. CASE BrokerCurrent \/ AnswerArrives
  <2>1. mem'.fp = Newest
    BY <1>2, <1>4, BrokerNewest DEF BrokerCurrent, AnswerArrives
  <2>2. Newest \in Int
    BY <1>1, NewestFacts, Bounds DEF World
  <2> QED
    BY <1>1, <2>1, <2>2
<1>5. CASE BrokerDeferred \/ BrokerLatched \/ BrokerFails
  BY <1>1, <1>2, <1>5, ConcludeSession DEF BrokerDeferred, BrokerLatched, BrokerFails
<1>6. CASE ReadDone \/ ReadNothing
  <2>1. Idle(mem) \in MemRec /\ Idle(mem).fp = mem.fp
    BY <1>1, IdleFacts DEF SameMem
  <2>2. CASE ReadDone
    <3>1. PICK i : i = Idle(mem)
      OBVIOUS
    <3>2. mem' = [i EXCEPT !.failed = 0] /\ i \in MemRec /\ i.fp = mem.fp
      BY <2>1, <2>2, <3>1 DEF ReadDone
    <3> QED
      BY <1>2, <3>2 DEF MemRec
  <2>3. CASE ReadNothing
    BY <1>1, <1>2, <2>3, CountFacts, FreshFacts DEF ReadNothing, SameMem
  <2> QED
    BY <1>6, <2>2, <2>3
<1>7. CASE ReadRefused
  <2>1. PICK n : n = [mem EXCEPT !.turn = "renew"]
    OBVIOUS
  <2>2. n \in MemRec /\ n.fp = mem.fp
    BY <1>1, <2>1 DEF MemRec
  <2>3. CASE mem.turn = "ensure"
    <3>1. Renew(disk, n, Refused(upToNow, mem.fp))
      BY <1>1, <1>7, <2>1, <2>3 DEF ReadRefused
    <3>2. \/ \E d, r : Conclude(d, n, r)
          \/ \E d, h : AskBroker(d, n, h)
      BY <3>1 DEF Renew
    <3> QED
      BY <1>2, <2>2, <3>2, ConcludeSession, AskSession
  <2>4. CASE mem.turn # "ensure"
    <3>1. mem' = Idle(mem)
      BY <1>1, <1>7, <2>4 DEF ReadRefused
    <3> QED
      BY <1>1, <1>2, <3>1, IdleFacts DEF SameMem
  <2> QED
    BY <2>3, <2>4
<1>8. CASE WatchSchedule \/ BrokerRefreshed
  BY <1>1, <1>2, <1>8 DEF WatchSchedule, BrokerRefreshed, MemRec
<1>9. CASE Poll \/ RequestLogin \/ waitForNewSession \/ Start
  BY <1>1, <1>9 DEF Poll, RequestLogin, waitForNewSession, Start
<1>10. CASE GateCrash
  BY <1>10, FreshFacts DEF GateCrash
<1>11. CASE SessionEnds \/ LoginMade \/ FileSynced \/ Operator \/ Tick \/ UNCHANGED gateVars
  BY <1>2, <1>11 DEF SessionEnds, LoginMade, FileSynced, Operator, Tick, gateVars
<1> QED
  BY <1>3, <1>4, <1>5, <1>6, <1>7, <1>8, <1>9, <1>10, <1>11 DEF GateNext, Connector

\* The session file does not bring back an older session than the broker's
\* while it still is as it was when the poll that adopted one began (adopt,
\* reload).
THEOREM SessionIsHeld == MCSpec => HeldSessionKept
<1>1. MCInit => GateInv
  BY GateStart DEF MCInit
<1>2. GateInv /\ [MCNext]_<<gateVars, vars, carryVars, pollVars, part>> => GateInv'
  BY GateStep DEF MCNext
<1>3. GateInv /\ [MCNext]_<<gateVars, vars, carryVars, pollVars, part>>
        => [mem.held /\ mem'.pc # "down" /\ mem'.fp < mem.fp => file.fp # upToNow.base]_gateVars
  BY HeldOverFile DEF MCNext
<1> QED
  BY <1>1, <1>2, <1>3, PTL DEF MCSpec, HeldSessionKept

\* The four things no step of the school connectors may do (requestAndWait,
\* reload, learnBinding, carriedDays).
THEOREM PortalStepsKept == MCSpec => PortalSteps
BY RequestsArePaced, SessionIsHeld, LearnedOnlyByMistake, DaysEnterSettled DEF PortalSteps

-----------------------------------------------------------------------------
(* The Schoology polls.                                                     *)

\* The surface whose list a scope's ids come from: attachments come with the
\* posts of their feed.
feedOf(c) == IF c \in Range1 THEN c ELSE <<"feed", c[2]>>

TodoRec == [s : Range1 \cup {NoTodo.s}, ids : SUBSET (1..MaxId), att : 0..MaxId]

PollTypes ==
  /\ listed \in [Range1 -> SUBSET (1..MaxId)] /\ \A s \in Range1 : Cardinality(listed[s]) <= MaxSeen
  /\ seenIDs \in [Scopes -> SUBSET (1..MaxId)] /\ \A c \in Scopes : Cardinality(seenIDs[c]) <= MaxSeen
  /\ session \in 1..Sessions /\ dead \subseteq 1..Sessions
  /\ marked \in 0..Sessions /\ using \in 1..Sessions
  /\ st \in {"poll", "watch", "refused", "stopped", "waiting"}
  /\ step \in 1..(Len(Surfaces) + 1) /\ todo \in TodoRec
  /\ produced \in Nat /\ drift \in Nat /\ again \in Nat /\ wasted \in Nat /\ fired \in Nat
  /\ out \subseteq Scopes \X (1..MaxId)
  /\ tally \in [triggers : Nat, windows : Nat, mishaps : Nat]

\* What is left to stage is of the surface being polled, is listed there and
\* not in the seen-set, and was listed with a session that is accepted.
TodoOK ==
  /\ todo # NoTodo => todo.s \in Range1
  /\ todo.att # 0 => HasAttachment(todo.s, todo.att)
  /\ st \in {"watch", "refused"} => todo = NoTodo
  /\ st = "poll" /\ todo # NoTodo =>
       /\ step <= Len(Surfaces) /\ using \notin dead
       /\ todo.ids \subseteq listed[todo.s] \ seenIDs[todo.s]
       /\ todo.att # 0 => todo.att \in listed[todo.s]

\* What was staged and is no longer listed is older than everything listed,
\* so that the smallest id of a full seen-set is one no longer listed.
OldBelow ==
  \A p \in out : LET L == listed[feedOf(p[1])] IN
                 p[2] \in L \/ (L # {} /\ \A y \in L : p[2] < y)

\* Staged, still listed, and not in the seen-set: each was paid for by a
\* mishap, and may be staged once more.
Unpaid == {p \in out : p[2] \in listed[feedOf(p[1])] \ seenIDs[p[1]]}
RestagePaid == again + Cardinality(Unpaid) <= tally.mishaps

\* The post whose attachment comes next.
NextPost == IF st = "poll" /\ todo.att # 0 THEN {<<todo.s, todo.att>>} ELSE {}
MissingPaid == Cardinality(missing \ NextPost) <= tally.mishaps

\* A poll with a session no longer accepted that has not met a mishap: it has
\* seen nothing yet, or has seen the refusal.
DeadPoll ==
  /\ st \in {"poll", "refused"} /\ using \in dead
  /\ (st = "refused" \/ sessionRefused \/ step = 1)

\* The sessions up to the one on record have been refused once; a running
\* process has a later one.
SessionsPaid ==
  /\ marked <= session /\ using <= session
  /\ st \in {"poll", "watch", "refused"} => marked < using
  /\ wasted <= Cardinality(dead \cap (1..marked)) + tally.mishaps + (IF DeadPoll THEN 1 ELSE 0)

CountersOK ==
  /\ owed => signal
  /\ fired <= 1 /\ (~notBefore => fired = 0)
  /\ st = "poll" /\ catchUp => drift = 0
  /\ st = "watch" => drift <= Drift
  /\ OneReceiptPerClass

SchoologyInv ==
  /\ PollTypes /\ TodoOK /\ NoIdPassedOver /\ OldBelow /\ RestagePaid /\ MissingPaid
  /\ SessionsPaid /\ CountersOK

-----------------------------------------------------------------------------
\* The facts about scopes that the proofs use.
LEMMA ScopeFacts ==
  /\ \A i \in 1..Len(Surfaces) : Surfaces[i] \in Range1
  /\ Len(Surfaces) \in Nat \ {0}
  /\ \A s \in Range1 : s \in Scopes /\ feedOf(s) = s
  /\ \A s \in Feeds : /\ s \in Range1 /\ AttachmentsOf(s) \in Scopes
                      /\ AttachmentsOf(s) \notin Range1 /\ feedOf(AttachmentsOf(s)) = s
  /\ \A c \in Scopes : feedOf(c) \in Range1
  /\ NoTodo.s \notin Range1
<1> DEFINE P == {"assignments", "feed", "messages"} \X STRING
<1>1. Surfaces \in Seq(P) /\ Surfaces # << >>
  BY SchoologyAssumption
<1>2. Range1 \subseteq P
  <2> HIDE DEF P
  <2> QED BY <1>1 DEF Range1
<1>3. \A s \in Range1 : s = <<s[1], s[2]>> /\ s[1] \in {"assignments", "feed", "messages"}
  BY <1>2
<1>4. \A s \in Range1 : s \in Scopes /\ feedOf(s) = s
  BY DEF Scopes, feedOf
<1>5. ASSUME NEW s \in Feeds
      PROVE  /\ s \in Range1 /\ AttachmentsOf(s) \in Scopes
             /\ AttachmentsOf(s) \notin Range1 /\ feedOf(AttachmentsOf(s)) = s
  <2>1. s \in Range1 /\ s = <<"feed", s[2]>>
    BY <1>3 DEF Feeds
  <2>2. AttachmentsOf(s) \notin Range1
    BY <1>3 DEF AttachmentsOf
  <2> QED BY <2>1, <2>2 DEF AttachmentsOf, feedOf, Scopes
<1>6. \A c \in Scopes : feedOf(c) \in Range1
  BY <1>4, <1>5 DEF Scopes
<1>7. NoTodo.s \notin Range1
  BY <1>3 DEF NoTodo
<1>8. Len(Surfaces) \in Nat \ {0} /\ \A i \in 1..Len(Surfaces) : Surfaces[i] \in Range1
  <2> HIDE DEF P
  <2>1. Len(Surfaces) \in Nat /\ Len(Surfaces) # 0
    BY <1>1, EmptySeq, LenProperties
  <2> QED BY <2>1 DEF Range1
<1> QED
  BY <1>4, <1>5, <1>6, <1>7, <1>8

\* The bounds, and that a set of ids is finite.
LEMMA IdFacts ==
  /\ MaxSeen \in Nat \ {0} /\ MaxId \in Nat /\ Sessions \in Nat \ {0} /\ Drift \in Nat \ {0}
  /\ \A S \in SUBSET (1..MaxId) : IsFiniteSet(S) /\ Cardinality(S) \in Nat
  /\ \A S \in SUBSET (1..Sessions) : IsFiniteSet(S) /\ Cardinality(S) \in Nat
<1>1. MaxSeen \in Nat \ {0} /\ MaxId \in Nat /\ Sessions \in Nat \ {0} /\ Drift \in Nat \ {0}
  BY SchoologyAssumption
<1>2. ASSUME NEW n \in Nat, NEW S \in SUBSET (1..n) PROVE IsFiniteSet(S) /\ Cardinality(S) \in Nat
  <2>1. IsFiniteSet(1..n)
    BY FS_Interval
  <2> QED BY <2>1, FS_Subset, FS_CardinalityType
<1> QED
  BY <1>1, <1>2

LEMMA RangeFinite ==
  ASSUME NEW S, IsFiniteSet(S), NEW f, DOMAIN f = S
  PROVE  IsFiniteSet({f[x] : x \in S})
<1> DEFINE T == {f[x] : x \in S}
           g == [x \in S |-> f[x]]
<1>1. g \in Surjection(S, T)
  BY DEF Surjection
<1> QED
  BY <1>1, FS_Surjection

LEMMA ScopesFinite == IsFiniteSet(Scopes \X (1..MaxId))
<1>1. IsFiniteSet(Range1)
  <2>1. IsFiniteSet(1..Len(Surfaces)) /\ DOMAIN Surfaces = 1..Len(Surfaces)
    <3>1. IsFiniteSet(1..Len(Surfaces))
      <4>1. Len(Surfaces) \in Nat
        BY ScopeFacts
      <4> QED BY <4>1, FS_Interval
    <3> QED BY <3>1, SchoologyAssumption
  <2> QED BY <2>1, RangeFinite DEF Range1
<1>2. IsFiniteSet({AttachmentsOf(s) : s \in Feeds})
  <2> DEFINE f == [s \in Feeds |-> AttachmentsOf(s)]
  <2>1. IsFiniteSet(Feeds)
    BY <1>1, FS_Subset DEF Feeds
  <2>2. IsFiniteSet({f[s] : s \in Feeds})
    BY <2>1, RangeFinite
  <2>3. {AttachmentsOf(s) : s \in Feeds} = {f[s] : s \in Feeds}
    OBVIOUS
  <2> QED BY <2>2, <2>3
<1>3. IsFiniteSet(Scopes)
  BY <1>1, <1>2, FS_Union DEF Scopes
<1>4. IsFiniteSet(1..MaxId)
  BY IdFacts
<1> QED
  BY <1>3, <1>4, FS_Product

LEMMA StagedFinite ==
  ASSUME PollTypes
  PROVE  /\ IsFiniteSet(out) /\ IsFiniteSet(Unpaid) /\ IsFiniteSet(missing)
         /\ Cardinality(Unpaid) \in Nat /\ Cardinality(missing \ NextPost) \in Nat
<1>1. IsFiniteSet(out)
  BY ScopesFinite, FS_Subset DEF PollTypes
<1>2. IsFiniteSet(Unpaid) /\ IsFiniteSet(missing) /\ IsFiniteSet(missing \ NextPost)
  BY <1>1, FS_Subset DEF Unpaid, missing
<1> QED
  BY <1>1, <1>2, FS_CardinalityType

\* Adding one element to a set makes it greater by one at most.
LEMMA OneMore ==
  ASSUME NEW A, NEW B, NEW x, IsFiniteSet(B), A \subseteq B \cup {x}
  PROVE  Cardinality(A) \in Nat /\ Cardinality(B) \in Nat /\ Cardinality(A) <= Cardinality(B) + 1
<1>1. IsFiniteSet(B \cup {x}) /\ Cardinality(B \cup {x}) <= Cardinality(B) + 1 /\ Cardinality(B) \in Nat
  <2>1. IsFiniteSet(B \cup {x}) /\ Cardinality(B) \in Nat
    BY FS_AddElement, FS_CardinalityType
  <2>2. Cardinality(B \cup {x}) = IF x \in B THEN Cardinality(B) ELSE Cardinality(B) + 1
    BY FS_AddElement
  <2> QED BY <2>1, <2>2
<1>2. IsFiniteSet(A) /\ Cardinality(A) \in Nat /\ Cardinality(A) <= Cardinality(B \cup {x}) /\ Cardinality(B \cup {x}) \in Nat
  BY <1>1, FS_Subset, FS_CardinalityType
<1> QED
  BY <1>1, <1>2

LEMMA LeastExists ==
  ASSUME NEW S \in SUBSET Nat, S # {}
  PROVE  \E x \in S : \A y \in S : x <= y
<1> DEFINE R == OpToRel(<, Nat)
<1>1. IsWellFoundedOn(R, Nat)
  BY NatLessThanWellFounded
<1>2. \A a, b \in Nat : a < b => <<a, b>> \in R
  BY DEF R, OpToRel
<1> HIDE DEF R
<1>3. PICK x \in S : \A y \in S : <<y, x>> \notin R
  BY <1>1, WFMin
<1>4. ASSUME NEW y \in S PROVE x <= y
  <2>1. ~(y < x)
    BY <1>2, <1>3, <1>4, Zenon
  <2> QED BY <2>1
<1> QED
  BY <1>4

LEMMA MishapFacts ==
  ASSUME PollTypes, NEW n \in Nat, Mishap(n)
  PROVE  tally' \in [triggers : Nat, windows : Nat, mishaps : Nat] /\ tally'.mishaps = tally.mishaps + n
<1>1. tally \in [triggers : Nat, windows : Nat, mishaps : Nat]
  BY DEF PollTypes
<1>2. tally' = [tally EXCEPT !.mishaps = tally.mishaps + n]
  BY DEF Mishap
<1> QED
  BY <1>1, <1>2

\* Saving an id drops the smallest one of a full seen-set.
LEMMA SaveFacts ==
  ASSUME PollTypes, NEW c \in Scopes, NEW id \in 1..MaxId, SaveLastSeenID(c, id)
  PROVE  /\ seenIDs' \in [Scopes -> SUBSET (1..MaxId)]
         /\ \A d \in Scopes \ {c} : seenIDs'[d] = seenIDs[d]
         /\ seenIDs'[c] \subseteq seenIDs[c] \cup {id}
         /\ Cardinality(seenIDs'[c]) <= MaxSeen
         /\ NoIdPassedOver /\ OldBelow /\ id \in listed[feedOf(c)] =>
              (seenIDs[c] \cup {id}) \cap listed[feedOf(c)] \subseteq seenIDs'[c]
<1> DEFINE all == seenIDs[c] \cup {id}
           low == CHOOSE i \in all : \A j \in all : i <= j
           L == listed[feedOf(c)]
<1>1. /\ seenIDs \in [Scopes -> SUBSET (1..MaxId)] /\ MaxSeen \in Nat \ {0}
      /\ IsFiniteSet(seenIDs[c]) /\ Cardinality(seenIDs[c]) <= MaxSeen
      /\ Cardinality(seenIDs[c]) \in Nat /\ Cardinality(all) \in Nat
      /\ Cardinality(all) <= MaxSeen + 1 /\ IsFiniteSet(all)
  <2>1. seenIDs[c] \in SUBSET (1..MaxId) /\ IsFiniteSet(seenIDs[c])
    BY IdFacts DEF PollTypes
  <2>2. Cardinality(all) <= Cardinality(seenIDs[c]) + 1 /\ IsFiniteSet(all)
    BY <2>1, OneMore, FS_AddElement
  <2>3. /\ Cardinality(seenIDs[c]) \in Nat /\ Cardinality(all) \in Nat
        /\ seenIDs \in [Scopes -> SUBSET (1..MaxId)] /\ Cardinality(seenIDs[c]) <= MaxSeen
    BY <2>1, <2>2, FS_CardinalityType DEF PollTypes
  <2> QED BY <2>1, <2>2, <2>3, IdFacts
<1>2. low \in all /\ \A j \in all : low <= j
  <2>1. all \in SUBSET Nat /\ all # {}
    BY <1>1
  <2>2. \E x \in all : \A j \in all : x <= j
    BY <2>1, LeastExists
  <2> QED BY <2>2
<1>3. seenIDs' = [seenIDs EXCEPT ![c] = IF Cardinality(all) > MaxSeen THEN all \ {low} ELSE all]
  BY DEF SaveLastSeenID
<1>4. Cardinality(all) > MaxSeen => Cardinality(all \ {low}) = Cardinality(all) - 1
  BY <1>1, <1>2, FS_RemoveElement
<1>5. ASSUME NoIdPassedOver, OldBelow, id \in L, Cardinality(all) > MaxSeen PROVE low \notin L
  <2> HIDE DEF low
  <2>1. SUFFICES ASSUME low \in L PROVE FALSE
    OBVIOUS
  <2>2. L \subseteq 1..MaxId /\ Cardinality(L) <= MaxSeen /\ IsFiniteSet(L)
    BY ScopeFacts, IdFacts DEF PollTypes
  <2>3. ~(all \subseteq L)
    BY <1>1, <1>5, <2>2, FS_Subset, FS_CardinalityType
  <2>4. PICK x \in all : x \notin L
    BY <2>3
  <2>5. <<c, x>> \in out /\ x \in 1..MaxId
    BY <1>1, <1>5, <2>4 DEF NoIdPassedOver
  <2>6. x < low
    BY <1>5, <2>1, <2>4, <2>5 DEF OldBelow
  <2> QED BY <1>1, <1>2, <2>2, <2>5, <2>6
<1> HIDE DEF low
<1>6. seenIDs'[c] = IF Cardinality(all) > MaxSeen THEN all \ {low} ELSE all
  BY <1>1, <1>3
<1>7. /\ seenIDs' \in [Scopes -> SUBSET (1..MaxId)]
      /\ \A d \in Scopes \ {c} : seenIDs'[d] = seenIDs[d]
  BY <1>1, <1>3
<1>8. Cardinality(seenIDs'[c]) <= MaxSeen
  BY <1>1, <1>4, <1>6
<1> QED
  BY <1>5, <1>6, <1>7, <1>8

-----------------------------------------------------------------------------
\* The steps of a poll, whatever surface it is at.
LEMMA PollCases ==
  ASSUME SchoologyNext
  PROVE  \/ \E s \in Range1, off \in BOOLEAN : Publish(s, off)
         \/ SessionDies \/ NewSession \/ DebouncePasses \/ WindowPasses \/ handlePoll
         \/ scheduledPoll \/ triggeredPoll
         \/ list \/ listFails \/ (\E id \in 1..MaxId : stageItem(id)) \/ ProcessAttachments
         \/ surfaceDone \/ finish \/ markRejected \/ restart \/ WaitForFreshCredentials \/ crash
BY Zenon DEF SchoologyNext, processAssignments, ProcessFeed, ProcessMessages, stepOfSurface

\* What an item, or an attachment, about to be staged is.
LEMMA NextToStage ==
  ASSUME PollTypes, TodoOK, st = "poll"
  PROVE  /\ \A id \in todo.ids :
              /\ todo # NoTodo /\ todo.s \in Scopes /\ id \in 1..MaxId
              /\ id \in listed[feedOf(todo.s)] \ seenIDs[todo.s]
         /\ todo.att # 0 =>
              /\ todo # NoTodo /\ todo.s \in Feeds /\ AttachmentsOf(todo.s) \in Scopes
              /\ todo.att \in 1..MaxId /\ todo.att \in listed[feedOf(AttachmentsOf(todo.s))]
<1>0. NoTodo.ids = {} /\ NoTodo.att = 0
  BY DEF NoTodo
<1>1. todo # NoTodo => todo.s \in Range1 /\ feedOf(todo.s) = todo.s /\ todo.s \in Scopes
  BY ScopeFacts DEF TodoOK
<1>2. ASSUME NEW id \in todo.ids
      PROVE  todo # NoTodo /\ id \in 1..MaxId /\ id \in listed[todo.s] \ seenIDs[todo.s]
  <2>1. todo # NoTodo
    BY <1>0, <1>2
  <2>2. todo.ids \in SUBSET (1..MaxId)
    BY DEF PollTypes, TodoRec
  <2> QED BY <1>2, <2>1, <2>2 DEF TodoOK
<1>3. ASSUME todo.att # 0
      PROVE  todo # NoTodo /\ todo.s \in Feeds /\ todo.att \in 1..MaxId /\ todo.att \in listed[todo.s]
  <2>3. todo # NoTodo
    BY <1>0, <1>3
  <2>1. todo # NoTodo /\ todo.s \in Feeds /\ todo.att \in listed[todo.s]
    BY <1>3, <2>3 DEF TodoOK, HasAttachment
  <2>2. todo.att \in 1..MaxId
    BY <1>3, IdFacts DEF PollTypes, TodoRec
  <2> QED BY <2>1, <2>2
<1> QED
  BY <1>1, <1>2, <1>3, ScopeFacts

\* Staging what is listed and not in the seen-set: either its id is saved, or
\* a mishap pays for a second time.
LEMMA StagePaid ==
  ASSUME PollTypes, NoIdPassedOver, OldBelow, RestagePaid,
         NEW c \in Scopes, NEW id \in listed[feedOf(c)] \ seenIDs[c], id \in 1..MaxId,
         Stage(c, id), listed' = listed,
         \/ SaveLastSeenID(c, id) /\ Mishap(0)
         \/ seenIDs' = seenIDs /\ Mishap(1)
  PROVE  NoIdPassedOver' /\ OldBelow' /\ RestagePaid'
<1>1. /\ out' = out \cup {<<c, id>>}
      /\ again' = IF <<c, id>> \in out THEN again + 1 ELSE again
      /\ again \in Nat /\ again' \in Nat /\ tally.mishaps \in Nat
  BY DEF Stage, PollTypes
<1>2. /\ \A d \in Scopes : seenIDs'[d] \subseteq seenIDs[d] \cup (IF d = c THEN {id} ELSE {})
      /\ \A d \in Scopes \ {c} : seenIDs'[d] = seenIDs[d]
      /\ seenIDs[c] \cap listed[feedOf(c)] \subseteq seenIDs'[c]
      /\ SaveLastSeenID(c, id) => id \in seenIDs'[c]
  BY SaveFacts
<1>3. NoIdPassedOver'
  <2> SUFFICES ASSUME NEW d \in Scopes, NEW i \in seenIDs'[d] PROVE <<d, i>> \in out'
    BY DEF NoIdPassedOver
  <2> QED BY <1>1, <1>2 DEF NoIdPassedOver
<1>4. OldBelow'
  <2> SUFFICES ASSUME NEW p \in out'
               PROVE  \/ p[2] \in listed[feedOf(p[1])]
                      \/ listed[feedOf(p[1])] # {} /\ \A y \in listed[feedOf(p[1])] : p[2] < y
    BY DEF OldBelow, feedOf
  <2>1. CASE p \in out
    BY <2>1 DEF OldBelow
  <2>2. CASE p = <<c, id>>
    BY <2>2
  <2> QED BY <1>1, <2>1, <2>2
<1>5. Unpaid' \subseteq Unpaid \cup {<<c, id>>}
  <2> SUFFICES ASSUME NEW p \in out', p # <<c, id>>, p[2] \in listed[feedOf(p[1])], p[2] \notin seenIDs'[p[1]]
               PROVE  p \in Unpaid
    BY DEF Unpaid, feedOf
  <2>1. p \in out /\ p[1] \in Scopes
    BY <1>1 DEF PollTypes
  <2>2. p[2] \notin seenIDs[p[1]]
    BY <1>2, <2>1
  <2> QED BY <2>1, <2>2 DEF Unpaid
<1>6. <<c, id>> \in out => <<c, id>> \in Unpaid
  BY DEF Unpaid
<1>7. /\ IsFiniteSet(Unpaid) /\ Cardinality(Unpaid) \in Nat /\ again + Cardinality(Unpaid) <= tally.mishaps
  BY StagedFinite DEF RestagePaid
<1>8. CASE SaveLastSeenID(c, id) /\ Mishap(0)
  <2>1. tally'.mishaps = tally.mishaps
    BY <1>1, <1>8, MishapFacts
  <2>2. <<c, id>> \notin Unpaid'
    <3>1. id \in seenIDs'[c]
      BY <1>2, <1>8
    <3> QED BY <3>1 DEF Unpaid
  <2>3. CASE <<c, id>> \in out
    <3>1. Unpaid' \in SUBSET (Unpaid \ {<<c, id>>})
      BY <1>5, <2>2
    <3>2. IsFiniteSet(Unpaid \ {<<c, id>>}) /\ Cardinality(Unpaid \ {<<c, id>>}) = Cardinality(Unpaid) - 1
      BY <1>6, <1>7, <2>3, FS_RemoveElement
    <3>3. Cardinality(Unpaid') <= Cardinality(Unpaid) - 1 /\ Cardinality(Unpaid') \in Nat
      BY <3>1, <3>2, FS_Subset, FS_CardinalityType
    <3> QED BY <1>1, <1>3, <1>4, <1>7, <2>1, <2>3, <3>3 DEF RestagePaid
  <2>4. CASE <<c, id>> \notin out
    <3>1. Unpaid' \in SUBSET Unpaid
      BY <1>5, <2>2
    <3>2. Cardinality(Unpaid') <= Cardinality(Unpaid) /\ Cardinality(Unpaid') \in Nat
      BY <1>7, <3>1, FS_Subset, FS_CardinalityType
    <3> QED BY <1>1, <1>3, <1>4, <1>7, <2>1, <2>4, <3>2 DEF RestagePaid
  <2> QED BY <1>3, <1>4, <2>3, <2>4
<1>9. CASE Mishap(1)
  <2>1. tally'.mishaps = tally.mishaps + 1
    BY <1>9, MishapFacts
  <2>2. CASE <<c, id>> \in out
    <3>1. Unpaid' \in SUBSET Unpaid
      BY <1>5, <1>6, <2>2
    <3>2. Cardinality(Unpaid') <= Cardinality(Unpaid) /\ Cardinality(Unpaid') \in Nat
      BY <1>7, <3>1, FS_Subset, FS_CardinalityType
    <3> QED BY <1>1, <1>3, <1>4, <1>7, <2>1, <2>2, <3>2 DEF RestagePaid
  <2>3. CASE <<c, id>> \notin out
    <3>1. Cardinality(Unpaid') <= Cardinality(Unpaid) + 1 /\ Cardinality(Unpaid') \in Nat
      BY <1>5, <1>7, OneMore
    <3> QED BY <1>1, <1>3, <1>4, <1>7, <2>1, <2>3, <3>1 DEF RestagePaid
  <2> QED BY <1>3, <1>4, <2>2, <2>3
<1> QED
  BY <1>8, <1>9

\* What is published is newer than everything listed or staged so far.
LEMMA PublishPaid ==
  ASSUME PollTypes, NoIdPassedOver, OldBelow, RestagePaid,
         NEW s \in Range1, NEW off \in BOOLEAN, Publish(s, off)
  PROVE  /\ listed' \in [Range1 -> SUBSET (1..MaxId)]
         /\ \A t \in Range1 : Cardinality(listed'[t]) <= MaxSeen
         /\ NoIdPassedOver' /\ OldBelow' /\ RestagePaid'
<1> DEFINE L == listed[s]
<1>1. PICK id \in 1..MaxId :
        LET all == L \cup {id}
            low == CHOOSE i \in all : \A j \in all : i <= j IN
        /\ \A i \in L : i < id
        /\ off \/ Cardinality(all) <= MaxSeen
        /\ listed' = [listed EXCEPT ![s] = IF off THEN all \ {low} ELSE all]
  BY Zenon DEF Publish
<1> DEFINE all == L \cup {id}
           low == CHOOSE i \in all : \A j \in all : i <= j
<1>2. /\ \A i \in L : i < id
      /\ off \/ Cardinality(all) <= MaxSeen
      /\ listed' = [listed EXCEPT ![s] = IF off THEN all \ {low} ELSE all]
  BY <1>1
<1>3. listed \in [Range1 -> SUBSET (1..MaxId)] /\ L \subseteq 1..MaxId /\ Cardinality(L) <= MaxSeen
  BY DEF PollTypes
<1>4. low \in all /\ \A j \in all : low <= j
  <2>1. all \in SUBSET Nat /\ all # {}
    BY <1>3
  <2>2. \E x \in all : \A j \in all : x <= j
    BY <2>1, LeastExists
  <2> QED BY <2>2
<1> HIDE DEF low
<1>5. /\ listed' \in [Range1 -> SUBSET (1..MaxId)] /\ listed'[s] = IF off THEN all \ {low} ELSE all
      /\ \A t \in Range1 \ {s} : listed'[t] = listed[t]
  BY <1>2, <1>3
<1>6. Cardinality(listed'[s]) <= MaxSeen
  <2>1. /\ IsFiniteSet(L) /\ Cardinality(L) \in Nat /\ MaxSeen \in Nat
        /\ IsFiniteSet(all) /\ Cardinality(all) \in Nat
    BY <1>3, IdFacts, FS_AddElement, FS_CardinalityType
  <2>2. Cardinality(all) <= Cardinality(L) + 1
    BY <2>1, OneMore
  <2>3. Cardinality(all \ {low}) = Cardinality(all) - 1
    BY <1>4, <2>1, FS_RemoveElement
  <2> QED BY <1>2, <1>3, <1>5, <2>1, <2>2, <2>3
<1>7. out' = out /\ seenIDs' = seenIDs /\ again' = again /\ tally' = tally
  BY Zenon DEF Publish, history
<1>8. ASSUME NEW p \in out, feedOf(p[1]) = s
      PROVE  /\ p[2] \in listed'[s] \/ (listed'[s] # {} /\ \A y \in listed'[s] : p[2] < y)
             /\ p[2] \in listed'[s] => p[2] \in L
  <2>1. p[2] \in 1..MaxId /\ (p[2] \in L \/ (L # {} /\ \A y \in L : p[2] < y))
    BY <1>8 DEF OldBelow, PollTypes
  <2>2. p[2] < id /\ L # {}
    <3>1. CASE p[2] \in L
      BY <1>2, <3>1
    <3>2. CASE L # {} /\ \A y \in L : p[2] < y
      <4>1. PICK y \in L : p[2] < y
        BY <3>2
      <4> QED BY <1>2, <1>3, <2>1, <4>1
    <3> QED BY <2>1, <3>1, <3>2
  <2>3. low # id
    BY <1>2, <1>3, <1>4, <2>2
  <2>4. id \in listed'[s]
    BY <1>5, <2>3
  <2>5. CASE p[2] \in L /\ p[2] # low
    BY <1>5, <2>5
  <2>6. CASE p[2] \in L /\ p[2] = low
    <3>1. \A y \in all : y # low => low < y
      BY <1>3, <1>4
    <3> QED BY <1>5, <2>4, <2>6, <3>1
  <2>7. CASE p[2] \notin L
    BY <1>5, <2>1, <2>2, <2>4, <2>7
  <2> QED BY <2>5, <2>6, <2>7
<1>9. NoIdPassedOver'
  BY <1>7 DEF NoIdPassedOver
<1>10. \A p \in out : p[1] \in Scopes /\ feedOf(p[1]) \in Range1
  BY ScopeFacts DEF PollTypes
<1>11. OldBelow'
  <2> SUFFICES ASSUME NEW p \in out
               PROVE  \/ p[2] \in listed'[feedOf(p[1])]
                      \/ listed'[feedOf(p[1])] # {} /\ \A y \in listed'[feedOf(p[1])] : p[2] < y
    BY <1>7 DEF OldBelow, feedOf
  <2>1. CASE feedOf(p[1]) = s
    BY <1>8, <2>1
  <2>2. CASE feedOf(p[1]) # s
    BY <1>5, <1>10, <2>2 DEF OldBelow
  <2> QED BY <2>1, <2>2
<1>12. Unpaid' \in SUBSET Unpaid
  <2> SUFFICES ASSUME NEW p \in out, p[2] \in listed'[feedOf(p[1])], p[2] \notin seenIDs[p[1]]
               PROVE  p \in Unpaid
    BY <1>7 DEF Unpaid, feedOf
  <2>1. CASE feedOf(p[1]) = s
    BY <1>8, <2>1 DEF Unpaid
  <2>2. CASE feedOf(p[1]) # s
    BY <1>5, <1>10, <2>2 DEF Unpaid
  <2> QED BY <2>1, <2>2
<1>13. RestagePaid'
  <2>1. Cardinality(Unpaid') <= Cardinality(Unpaid) /\ Cardinality(Unpaid') \in Nat /\ Cardinality(Unpaid) \in Nat
    BY <1>12, StagedFinite, FS_Subset, FS_CardinalityType
  <2> QED BY <1>7, <2>1 DEF RestagePaid, PollTypes
<1>14. \A t \in Range1 : Cardinality(listed'[t]) <= MaxSeen
  BY <1>5, <1>6 DEF PollTypes
<1> QED
  BY <1>5, <1>9, <1>11, <1>13, <1>14

\* No step takes a mishap back.
LEMMA TallyStep ==
  ASSUME PollTypes, SchoologyNext
  PROVE  tally' \in [triggers : Nat, windows : Nat, mishaps : Nat] /\ tally.mishaps <= tally'.mishaps
<1> DEFINE T == [triggers : Nat, windows : Nat, mishaps : Nat]
<1>1. tally \in T /\ tally.mishaps \in Nat /\ tally.triggers \in Nat /\ tally.windows \in Nat
  BY DEF PollTypes
<1>2. ASSUME NEW n \in Nat, Mishap(n) PROVE tally' \in T /\ tally.mishaps <= tally'.mishaps
  BY <1>1, <1>2, MishapFacts
<1>3. CASE tally' = tally
  BY <1>1, <1>3
<1>4. CASE WindowPasses
  <2>1. tally' = [tally EXCEPT !.windows = tally.windows + 1]
    BY <1>4, Zenon DEF WindowPasses
  <2> QED BY <1>1, <2>1
<1>5. CASE handlePoll
  <2>1. tally' = [tally EXCEPT !.triggers = tally.triggers + 1]
    BY <1>5, Zenon DEF handlePoll
  <2> QED BY <1>1, <2>1
<1>6. CASE list
  <2>1. PICK bad \in SUBSET listed[surface] : Mishap(Cardinality(bad)) /\ step <= Len(Surfaces)
    BY <1>6, Zenon DEF list
  <2>2. Cardinality(bad) \in Nat
    <3>1. surface \in Range1
      BY <2>1, ScopeFacts DEF PollTypes, surface
    <3> QED BY <3>1, IdFacts DEF PollTypes
  <2> QED BY <1>2, <2>1, <2>2
<1>7. CASE \/ SessionDies \/ listFails \/ (\E id \in 1..MaxId : stageItem(id)) \/ ProcessAttachments
           \/ markRejected \/ crash
  <2>1. Mishap(0) \/ Mishap(1)
    BY <1>7, Zenon DEF SessionDies, listFails, stageItem, ProcessAttachments, markRejected, crash
  <2> QED BY <1>2, <2>1
<1>8. CASE \/ \E s \in Range1, off \in BOOLEAN : Publish(s, off)
           \/ NewSession \/ DebouncePasses \/ scheduledPoll \/ triggeredPoll
           \/ surfaceDone \/ finish \/ restart \/ WaitForFreshCredentials
  <2>1. tally' = tally
    BY <1>8, Zenon DEF Publish, NewSession, DebouncePasses, scheduledPoll, triggeredPoll,
                       surfaceDone, finish, restart, WaitForFreshCredentials
  <2> QED BY <1>3, <2>1
<1> QED
  BY <1>4, <1>5, <1>6, <1>7, <1>8, PollCases, Zenon

\* An item of the surface being polled.
LEMMA StageItemCases ==
  ASSUME PollTypes, TodoOK, NEW id \in 1..MaxId, stageItem(id)
  PROVE  /\ todo # NoTodo /\ todo.s \in Scopes /\ id \in listed[feedOf(todo.s)] \ seenIDs[todo.s]
         /\ listed' = listed
         /\ \/ Stage(todo.s, id) /\ SaveLastSeenID(todo.s, id) /\ Mishap(0)
            \/ Stage(todo.s, id) /\ seenIDs' = seenIDs /\ Mishap(1)
            \/ UNCHANGED <<out, again, produced, seenIDs>> /\ Mishap(1)
<1>1. /\ id \in todo.ids /\ st = "poll" /\ listed' = listed
      /\ \/ Stage(todo.s, id) /\ SaveLastSeenID(todo.s, id) /\ Mishap(0)
         \/ Stage(todo.s, id) /\ UNCHANGED seenIDs /\ Mishap(1)
         \/ UNCHANGED <<history, produced, seenIDs>> /\ Mishap(1)
  BY Zenon DEF stageItem, outside
<1> QED
  BY <1>1, NextToStage DEF history

LEMMA AttachmentCases ==
  ASSUME PollTypes, TodoOK, ProcessAttachments
  PROVE  /\ todo # NoTodo /\ todo.s \in Feeds /\ AttachmentsOf(todo.s) \in Scopes
         /\ todo.att \in 1..MaxId /\ todo.att \in listed[feedOf(AttachmentsOf(todo.s))]
         /\ listed' = listed
         /\ \/ /\ todo.att \in seenIDs[AttachmentsOf(todo.s)]
               /\ UNCHANGED <<out, again, produced, seenIDs>> /\ Mishap(0)
            \/ /\ todo.att \notin seenIDs[AttachmentsOf(todo.s)]
               /\ Stage(AttachmentsOf(todo.s), todo.att) /\ SaveLastSeenID(AttachmentsOf(todo.s), todo.att)
               /\ Mishap(0)
            \/ UNCHANGED <<out, again, produced, seenIDs>> /\ Mishap(1)
<1>1. todo.att # 0 /\ st = "poll" /\ listed' = listed
  BY Zenon DEF ProcessAttachments, outside
<1> QED
  BY <1>1, NextToStage DEF ProcessAttachments, history

LEMMA CrashCases ==
  ASSUME PollTypes, TodoOK, crash
  PROVE  /\ st' = "stopped" /\ Mishap(1) /\ listed' = listed /\ seenIDs' = seenIDs
         /\ \/ UNCHANGED <<out, again, produced>>
            \/ \E id \in 1..MaxId : /\ st = "poll" /\ todo.att = 0 /\ todo.s \in Scopes
                                    /\ id \in listed[feedOf(todo.s)] \ seenIDs[todo.s]
                                    /\ Stage(todo.s, id)
            \/ /\ st = "poll" /\ todo # NoTodo /\ todo.s \in Feeds /\ AttachmentsOf(todo.s) \in Scopes
               /\ todo.att \in 1..MaxId
               /\ todo.att \in listed[feedOf(AttachmentsOf(todo.s))] \ seenIDs[AttachmentsOf(todo.s)]
               /\ Stage(AttachmentsOf(todo.s), todo.att)
<1>1. /\ st' = "stopped" /\ Mishap(1) /\ listed' = listed /\ seenIDs' = seenIDs
      /\ st \in {"poll", "watch", "refused"}
      /\ \/ UNCHANGED <<out, again, produced>>
         \/ \E id \in todo.ids : todo.att = 0 /\ Stage(todo.s, id)
         \/ todo.att # 0 /\ todo.att \notin seenIDs[AttachmentsOf(todo.s)] /\ Stage(AttachmentsOf(todo.s), todo.att)
  BY DEF crash, outside, history
<1>2. st # "poll" => todo.ids = {} /\ todo.att = 0
  <2>1. NoTodo.ids = {} /\ NoTodo.att = 0
    BY DEF NoTodo
  <2> QED BY <1>1, <2>1 DEF TodoOK
<1>3. CASE st # "poll"
  BY <1>1, <1>2, <1>3
<1>4. CASE st = "poll"
  BY <1>1, <1>4, NextToStage
<1> QED
  BY <1>3, <1>4

\* Nothing is passed over, and every second delivery has been paid for.
LEMMA PollStagedStep ==
  ASSUME PollTypes, TodoOK, NoIdPassedOver, OldBelow, RestagePaid, SchoologyNext
  PROVE  NoIdPassedOver' /\ OldBelow' /\ RestagePaid'
<1>1. ASSUME UNCHANGED <<listed, seenIDs, out, again>> PROVE NoIdPassedOver' /\ OldBelow' /\ RestagePaid'
  <2>1. NoIdPassedOver' /\ OldBelow' /\ Unpaid' = Unpaid
    BY <1>1 DEF NoIdPassedOver, OldBelow, Unpaid, feedOf
  <2>2. again + Cardinality(Unpaid) <= tally'.mishaps
    <3>1. again \in Nat /\ tally.mishaps \in Nat
      BY DEF PollTypes
    <3>2. Cardinality(Unpaid) \in Nat /\ again + Cardinality(Unpaid) <= tally.mishaps
      BY StagedFinite DEF RestagePaid
    <3>3. tally'.mishaps \in Nat /\ tally.mishaps <= tally'.mishaps
      BY TallyStep
    <3> QED BY <3>1, <3>2, <3>3
  <2> QED BY <1>1, <2>1, <2>2 DEF RestagePaid
<1>2. CASE \E s \in Range1, off \in BOOLEAN : Publish(s, off)
  BY <1>2, PublishPaid
<1>3. ASSUME NEW id \in 1..MaxId, stageItem(id) PROVE NoIdPassedOver' /\ OldBelow' /\ RestagePaid'
  <2>1. CASE UNCHANGED <<out, again, produced, seenIDs>>
    BY <1>1, <1>3, <2>1, StageItemCases
  <2>2. CASE Stage(todo.s, id)
    BY <1>3, <2>2, StageItemCases, StagePaid
  <2> QED BY <1>3, <2>1, <2>2, StageItemCases
<1>4. CASE ProcessAttachments
  <2>1. CASE UNCHANGED <<out, again, produced, seenIDs>>
    BY <1>1, <1>4, <2>1, AttachmentCases
  <2>2. CASE ~UNCHANGED <<out, again, produced, seenIDs>>
    BY <1>4, <2>2, AttachmentCases, StagePaid
  <2> QED BY <2>1, <2>2
<1>5. CASE crash
  <2>1. CASE UNCHANGED <<out, again, produced>>
    BY <1>1, <1>5, <2>1, CrashCases
  <2>2. CASE ~UNCHANGED <<out, again, produced>>
    BY <1>5, <2>2, CrashCases, StagePaid
  <2> QED BY <2>1, <2>2
<1>6. CASE \/ SessionDies \/ NewSession \/ DebouncePasses \/ WindowPasses \/ handlePoll
           \/ scheduledPoll \/ triggeredPoll \/ list \/ listFails
           \/ surfaceDone \/ finish \/ markRejected \/ restart \/ WaitForFreshCredentials
  <2>1. UNCHANGED <<listed, seenIDs, out, again>>
    BY <1>6 DEF SessionDies, NewSession, DebouncePasses, WindowPasses, handlePoll, scheduledPoll,
        triggeredPoll, list, listFails, surfaceDone, finish, markRejected, restart,
        WaitForFreshCredentials, outside, history
  <2> QED BY <1>1, <2>1
<1> QED
  BY <1>2, <1>3, <1>4, <1>5, <1>6, PollCases, Zenon

-----------------------------------------------------------------------------
LEMMA PollTypesStep ==
  ASSUME PollTypes, TodoOK, NoIdPassedOver, OldBelow, RestagePaid, SchoologyNext
  PROVE  PollTypes'
<1> DEFINE Sets == /\ listed' \in [Range1 -> SUBSET (1..MaxId)]
                   /\ \A s \in Range1 : Cardinality(listed'[s]) <= MaxSeen
                   /\ seenIDs' \in [Scopes -> SUBSET (1..MaxId)]
                   /\ \A c \in Scopes : Cardinality(seenIDs'[c]) <= MaxSeen
                   /\ out' \subseteq Scopes \X (1..MaxId) /\ again' \in Nat /\ produced' \in Nat
           Rest == /\ session' \in 1..Sessions /\ dead' \subseteq 1..Sessions
                   /\ marked' \in 0..Sessions /\ using' \in 1..Sessions
                   /\ st' \in {"poll", "watch", "refused", "stopped", "waiting"}
                   /\ step' \in 1..(Len(Surfaces) + 1) /\ todo' \in TodoRec
                   /\ drift' \in Nat /\ wasted' \in Nat /\ fired' \in Nat
<1>0. /\ NoTodo \in TodoRec /\ Len(Surfaces) \in Nat \ {0} /\ Sessions \in Nat \ {0} /\ MaxId \in Nat
      /\ 1 \in 1..(Len(Surfaces) + 1)
  <2>1. Len(Surfaces) \in Nat \ {0} /\ Sessions \in Nat \ {0} /\ MaxId \in Nat
    BY ScopeFacts, IdFacts
  <2>2. NoTodo = [s |-> NoTodo.s, ids |-> {}, att |-> 0]
    BY DEF NoTodo
  <2>3. NoTodo \in TodoRec
    BY <2>1, <2>2 DEF TodoRec
  <2> QED BY <2>1, <2>3
<1>1. Sets
  <2>1. ASSUME UNCHANGED <<seenIDs, out, again>>, produced' \in Nat,
               /\ listed' \in [Range1 -> SUBSET (1..MaxId)]
               /\ \A s \in Range1 : Cardinality(listed'[s]) <= MaxSeen
        PROVE  Sets
    BY <2>1 DEF PollTypes
  <2>2. ASSUME UNCHANGED <<listed, seenIDs, out, again>>, produced' \in Nat PROVE Sets
    BY <2>2, <2>1 DEF PollTypes
  <2>3. CASE \E s \in Range1, off \in BOOLEAN : Publish(s, off)
    <3>1. PICK s \in Range1, off \in BOOLEAN : Publish(s, off)
      BY <2>3
    <3>2. UNCHANGED <<seenIDs, out, again, produced>>
      BY <3>1, Zenon DEF Publish, results, history
    <3>3. produced' \in Nat
      BY <3>2 DEF PollTypes
    <3> QED BY <2>1, <3>1, <3>2, <3>3, PublishPaid
  <2>4. ASSUME NEW c \in Scopes, NEW id \in 1..MaxId, Stage(c, id), listed' = listed,
               SaveLastSeenID(c, id) \/ seenIDs' = seenIDs
        PROVE  Sets
    <3>1. out' \subseteq Scopes \X (1..MaxId) /\ again' \in Nat /\ produced' \in Nat
      BY <2>4 DEF Stage, PollTypes
    <3>2. seenIDs' \in [Scopes -> SUBSET (1..MaxId)] /\ \A d \in Scopes : Cardinality(seenIDs'[d]) <= MaxSeen
      <4>1. CASE SaveLastSeenID(c, id)
        <5>1. ASSUME NEW d \in Scopes PROVE Cardinality(seenIDs'[d]) <= MaxSeen
          BY <4>1, SaveFacts DEF PollTypes
        <5> QED BY <4>1, <5>1, SaveFacts
      <4>2. CASE seenIDs' = seenIDs
        BY <4>2 DEF PollTypes
      <4> QED BY <2>4, <4>1, <4>2
    <3> QED BY <2>4, <3>1, <3>2 DEF PollTypes
  <2>5. ASSUME UNCHANGED <<listed, seenIDs, out, again, produced>> PROVE Sets
    BY <2>2, <2>5 DEF PollTypes
  <2>6. ASSUME NEW id \in 1..MaxId, stageItem(id) PROVE Sets
    BY <2>4, <2>5, <2>6, StageItemCases
  <2>7. CASE ProcessAttachments
    <3>1. listed' = listed
      BY <2>7, AttachmentCases
    <3>2. CASE UNCHANGED <<out, again, produced, seenIDs>>
      BY <2>5, <3>1, <3>2
    <3>3. CASE ~UNCHANGED <<out, again, produced, seenIDs>>
      BY <2>4, <2>7, <3>1, <3>3, AttachmentCases
    <3> QED BY <3>2, <3>3
  <2>8. CASE crash
    <3>1. listed' = listed /\ seenIDs' = seenIDs
      BY <2>8, CrashCases
    <3>2. CASE UNCHANGED <<out, again, produced>>
      BY <2>5, <3>1, <3>2
    <3>3. CASE ~UNCHANGED <<out, again, produced>>
      BY <2>4, <2>8, <3>1, <3>3, CrashCases
    <3> QED BY <3>2, <3>3
  <2>9. CASE \/ SessionDies \/ NewSession \/ DebouncePasses \/ WindowPasses \/ handlePoll
             \/ scheduledPoll \/ triggeredPoll \/ list \/ listFails
             \/ surfaceDone \/ finish \/ markRejected \/ restart \/ WaitForFreshCredentials
    <3>1. UNCHANGED <<listed, seenIDs, out, again>> /\ produced' \in {produced, 0}
      BY <2>9 DEF SessionDies, NewSession, DebouncePasses, WindowPasses, handlePoll, scheduledPoll,
          triggeredPoll, list, listFails, surfaceDone, finish, markRejected, restart,
          WaitForFreshCredentials, outside, history, results, Begin, Process
    <3>2. produced' \in Nat
      BY <3>1 DEF PollTypes
    <3> QED BY <2>2, <3>1, <3>2
  <2> HIDE DEF Sets
  <2> QED
    BY <2>3, <2>6, <2>7, <2>8, <2>9, PollCases, Zenon
<1>2. Rest
  <2>1. /\ session \in 1..Sessions /\ dead \subseteq 1..Sessions
        /\ marked \in 0..Sessions /\ using \in 1..Sessions /\ 1..Sessions \subseteq 0..Sessions
        /\ st \in {"poll", "watch", "refused", "stopped", "waiting"}
        /\ step \in 1..(Len(Surfaces) + 1) /\ todo \in TodoRec
        /\ drift \in Nat /\ wasted \in Nat /\ fired \in Nat
    BY <1>0 DEF PollTypes
  <2>2. CASE \/ \E s \in Range1, off \in BOOLEAN : Publish(s, off)
             \/ SessionDies \/ DebouncePasses \/ handlePoll \/ WindowPasses
    <3>1. /\ UNCHANGED <<session, marked, using, st, step, todo, drift, wasted>>
          /\ dead' \in {dead, dead \cup {session}} /\ fired' \in {fired, 0}
      BY <2>2, Zenon DEF Publish, SessionDies, DebouncePasses, handlePoll, WindowPasses, outside, results, window
    <3> QED BY <2>1, <3>1
  <2>3. CASE NewSession
    <3>1. /\ UNCHANGED <<dead, marked, using, st, step, todo, drift, wasted, fired>>
          /\ session < Sessions /\ session' = session + 1
      BY <2>3, Zenon DEF NewSession, results, window
    <3> QED BY <1>0, <2>1, <3>1
  <2>4. CASE scheduledPoll \/ triggeredPoll
    <3>1. /\ UNCHANGED <<session, dead, marked, using, drift>> /\ st' = "poll" /\ step' = 1 /\ todo' = NoTodo
          /\ wasted' \in {wasted, wasted + 1} /\ fired' \in {fired, fired + 1}
      BY <2>4 DEF scheduledPoll, triggeredPoll, Begin, outside, window
    <3> QED BY <1>0, <2>1, <3>1
  <2>5. CASE list
    <3>1. /\ UNCHANGED <<session, dead, marked, using, st, step, drift, wasted, fired>>
          /\ step <= Len(Surfaces)
          /\ \E bad : todo' = [s |-> surface, ids |-> (listed[surface] \ seenIDs[surface]) \ bad, att |-> 0]
      BY <2>5, Zenon DEF list, outside, window
    <3>2. surface \in Range1
      BY <1>0, <2>1, <3>1, ScopeFacts DEF surface
    <3>3. listed[surface] \subseteq 1..MaxId
      BY <3>2 DEF PollTypes
    <3>4. todo' \in TodoRec
      BY <1>0, <3>1, <3>2, <3>3 DEF TodoRec
    <3> QED BY <2>1, <3>1, <3>4
  <2>6. CASE listFails \/ surfaceDone
    <3>1. /\ UNCHANGED <<session, dead, marked, using, st, drift, wasted, fired>>
          /\ todo' \in {todo, NoTodo} /\ step' = step + 1
          /\ step <= Len(Surfaces)
      BY <2>6 DEF listFails, surfaceDone, outside, window, results, TodoOK
    <3> QED BY <1>0, <2>1, <3>1
  <2>7. ASSUME NEW id \in 1..MaxId, stageItem(id) PROVE Rest
    <3>1. /\ UNCHANGED <<session, dead, marked, using, st, step, drift, wasted, fired>>
          /\ \E a \in {id, 0} : todo' = [todo EXCEPT !.ids = todo.ids \ {id}, !.att = a]
      BY <2>7 DEF stageItem, outside, window
    <3>2. PICK a \in {id, 0} : todo' = [todo EXCEPT !.ids = todo.ids \ {id}, !.att = a]
      BY <3>1
    <3>3. a \in 0..MaxId
      BY <1>0
    <3>4. todo' \in TodoRec
      BY <2>1, <3>2, <3>3 DEF TodoRec
    <3> QED BY <2>1, <3>1, <3>4
  <2>8. CASE ProcessAttachments
    <3>1. /\ UNCHANGED <<session, dead, marked, using, st, step, drift, wasted, fired>>
          /\ todo' = [todo EXCEPT !.att = 0]
      BY <2>8, Zenon DEF ProcessAttachments, outside, window
    <3>2. todo' \in TodoRec
      BY <1>0, <2>1, <3>1 DEF TodoRec
    <3> QED BY <2>1, <3>1, <3>2
  <2>9. CASE finish
    <3>1. /\ UNCHANGED <<session, dead, marked, using, step, todo, wasted, fired>>
          /\ drift' \in {0, drift + 1, drift} /\ st' \in {"refused", "stopped", "watch"}
      BY <2>9 DEF finish, RecordPoll, outside, window
    <3> QED BY <2>1, <3>1
  <2>10. CASE markRejected \/ crash
    <3>1. /\ UNCHANGED <<session, dead, using, step, todo, drift, wasted, fired>>
          /\ marked' \in {marked, using} /\ st' = "stopped"
      BY <2>10, Zenon DEF markRejected, crash, outside, window, results
    <3> QED BY <2>1, <3>1
  <2>11. CASE restart \/ WaitForFreshCredentials
    <3>1. /\ UNCHANGED <<session, dead, marked>>
          /\ \/ st' = "waiting" /\ UNCHANGED <<using, step, todo, drift, wasted, fired>>
             \/ /\ st' = "poll" /\ using' = session /\ step' = 1 /\ todo' = NoTodo
                /\ drift' = 0 /\ fired' = 0 /\ wasted' \in {wasted, wasted + 1}
      BY <2>11 DEF restart, WaitForFreshCredentials, Process, outside, window, results
    <3> QED BY <1>0, <2>1, <3>1
  <2> HIDE DEF Rest
  <2> QED
    BY <2>2, <2>3, <2>4, <2>5, <2>6, <2>7, <2>8, <2>9, <2>10, <2>11, PollCases, Zenon
<1> QED
  BY <1>1, <1>2, TallyStep DEF PollTypes, TodoRec

LEMMA TodoStep ==
  ASSUME PollTypes, TodoOK, SchoologyNext
  PROVE  TodoOK'
<1>0. NoTodo.ids = {} /\ NoTodo.att = 0 /\ NoTodo.s \notin Range1
  BY ScopeFacts DEF NoTodo
<1>1. ASSUME todo' = NoTodo PROVE TodoOK'
  BY <1>0, <1>1 DEF TodoOK
<1>2. ASSUME todo' = todo, st' \in {"stopped", "waiting"} PROVE TodoOK'
  BY <1>2 DEF TodoOK
<1>3. CASE \/ \E s \in Range1, off \in BOOLEAN : Publish(s, off)
           \/ SessionDies \/ NewSession
  <2>1. todo' = todo /\ st' = st /\ st \in {"watch", "waiting"}
    BY <1>3, Zenon DEF Publish, SessionDies, NewSession, Settled
  <2> QED BY <2>1 DEF TodoOK
<1>4. CASE DebouncePasses \/ WindowPasses \/ handlePoll
  <2>1. UNCHANGED <<todo, st, listed, seenIDs, step, using, dead>>
    BY <1>4, Zenon DEF DebouncePasses, WindowPasses, handlePoll, outside
  <2> QED BY <2>1 DEF TodoOK
<1>5. CASE scheduledPoll \/ triggeredPoll \/ surfaceDone
  <2>1. todo' = NoTodo
    BY <1>5, Zenon DEF scheduledPoll, triggeredPoll, surfaceDone, Begin
  <2> QED BY <1>1, <2>1
<1>6. CASE list
  <2>1. /\ UNCHANGED <<st, listed, seenIDs, step, using, dead>> /\ st = "poll"
        /\ step <= Len(Surfaces) /\ using \notin dead
        /\ \E bad : todo' = [s |-> surface, ids |-> (listed[surface] \ seenIDs[surface]) \ bad, att |-> 0]
    BY <1>6, Zenon DEF list, outside
  <2>2. surface \in Range1
    BY <2>1, ScopeFacts DEF surface, PollTypes
  <2>3. /\ todo'.s \in Range1 /\ todo'.att = 0
        /\ todo'.ids \subseteq listed[todo'.s] \ seenIDs[todo'.s]
    BY <2>1, <2>2
  <2> QED BY <2>1, <2>3 DEF TodoOK
<1>7. CASE listFails
  <2>1. todo' = NoTodo
    BY <1>7, Zenon DEF listFails
  <2> QED BY <1>1, <2>1
<1>8. ASSUME NEW id \in 1..MaxId, stageItem(id) PROVE TodoOK'
  <2>1. /\ UNCHANGED <<st, listed, step, using, dead>> /\ st = "poll" /\ id \in todo.ids
        /\ \E a \in {id, 0} : /\ todo' = [todo EXCEPT !.ids = todo.ids \ {id}, !.att = a]
                              /\ a # 0 => HasAttachment(todo.s, a)
    BY <1>8 DEF stageItem, outside
  <2>2. /\ todo # NoTodo /\ todo.s \in Range1 /\ todo.s \in Scopes /\ step <= Len(Surfaces) /\ using \notin dead
        /\ todo.ids \subseteq listed[todo.s] \ seenIDs[todo.s]
    BY <1>8, <2>1, StageItemCases DEF TodoOK
  <2>3. seenIDs'[todo.s] \subseteq seenIDs[todo.s] \cup {id}
    BY <1>8, StageItemCases, SaveFacts
  <2>4. PICK a \in {id, 0} : /\ todo' = [todo EXCEPT !.ids = todo.ids \ {id}, !.att = a]
                             /\ a # 0 => HasAttachment(todo.s, a)
    BY <2>1
  <2>5. todo'.s = todo.s /\ todo'.ids = todo.ids \ {id} /\ todo'.att = a
    BY <2>4 DEF PollTypes, TodoRec
  <2>6. todo'.ids \subseteq listed[todo.s] \ seenIDs'[todo.s]
    BY <2>2, <2>3, <2>5
  <2>7. a # 0 => a \in listed[todo.s]
    BY <2>1, <2>2
  <2> QED BY <2>1, <2>2, <2>4, <2>5, <2>6, <2>7 DEF TodoOK
<1>9. CASE ProcessAttachments
  <2>1. /\ UNCHANGED <<st, listed, step, using, dead>> /\ st = "poll"
        /\ todo' = [todo EXCEPT !.att = 0]
    BY <1>9, Zenon DEF ProcessAttachments, outside
  <2>2. /\ todo # NoTodo /\ todo.s \in Feeds /\ step <= Len(Surfaces) /\ using \notin dead
        /\ todo.ids \subseteq listed[todo.s] \ seenIDs[todo.s]
    BY <1>9, <2>1, AttachmentCases DEF TodoOK
  <2>3. todo.s \in Range1 /\ todo.s \in Scopes /\ AttachmentsOf(todo.s) \in Scopes /\ AttachmentsOf(todo.s) # todo.s
    BY <2>2, ScopeFacts
  <2>4. seenIDs'[todo.s] = seenIDs[todo.s]
    BY <1>9, <2>3, AttachmentCases, SaveFacts
  <2>5. todo'.s = todo.s /\ todo'.ids = todo.ids /\ todo'.att = 0
    BY <2>1 DEF PollTypes, TodoRec
  <2> QED BY <2>1, <2>2, <2>3, <2>4, <2>5 DEF TodoOK
<1>10. CASE finish
  <2>1. todo' = todo /\ st = "poll" /\ step > Len(Surfaces)
    BY <1>10, Zenon DEF finish
  <2>2. todo = NoTodo
    <3>1. ~(step <= Len(Surfaces))
      BY <2>1, ScopeFacts DEF PollTypes
    <3> QED BY <2>1, <3>1 DEF TodoOK
  <2> QED BY <1>1, <2>1, <2>2
<1>11. CASE markRejected \/ crash
  <2>1. todo' = todo /\ st' = "stopped"
    BY <1>11, Zenon DEF markRejected, crash
  <2> QED BY <1>2, <2>1
<1>12. CASE restart \/ WaitForFreshCredentials
  <2>1. todo' = NoTodo \/ (todo' = todo /\ st' = "waiting")
    BY <1>12 DEF restart, WaitForFreshCredentials, Process
  <2> QED BY <1>1, <1>2, <2>1
<1> QED
  BY <1>3, <1>4, <1>5, <1>6, <1>7, <1>8, <1>9, <1>10, <1>11, <1>12, PollCases, Zenon

-----------------------------------------------------------------------------
\* A post without its attachment is the one in hand, or a mishap's.
LEMMA MissingStep ==
  ASSUME PollTypes, TodoOK, NoIdPassedOver, MissingPaid, SchoologyNext
  PROVE  MissingPaid'
<1>0. /\ IsFiniteSet(missing) /\ IsFiniteSet(missing \ NextPost) /\ Cardinality(missing \ NextPost) \in Nat
      /\ Cardinality(missing \ NextPost) <= tally.mishaps
      /\ tally.mishaps \in Nat /\ tally'.mishaps \in Nat /\ tally.mishaps <= tally'.mishaps
      /\ NoTodo.att = 0 /\ NoTodo.ids = {}
  <2>1. IsFiniteSet(missing) /\ IsFiniteSet(missing \ NextPost)
    BY StagedFinite, FS_Subset
  <2>2. tally.mishaps \in Nat /\ tally'.mishaps \in Nat /\ tally.mishaps <= tally'.mishaps
    BY TallyStep DEF PollTypes
  <2>3. NoTodo.att = 0 /\ NoTodo.ids = {}
    BY DEF NoTodo
  <2> QED BY <2>1, <2>2, <2>3, FS_CardinalityType DEF MissingPaid
<1>1. ASSUME missing' \ NextPost' \subseteq missing \ NextPost PROVE MissingPaid'
  <2>1. Cardinality(missing' \ NextPost') <= Cardinality(missing \ NextPost) /\ Cardinality(missing' \ NextPost') \in Nat
    <3>1. (missing' \ NextPost') \in SUBSET (missing \ NextPost)
      BY <1>1
    <3> QED BY <1>0, <3>1, FS_Subset, FS_CardinalityType
  <2> QED BY <1>0, <2>1 DEF MissingPaid
<1>2. ASSUME NEW x, missing' \ NextPost' \subseteq (missing \ NextPost) \cup {x}, Mishap(1) PROVE MissingPaid'
  <2>1. /\ Cardinality(missing' \ NextPost') <= Cardinality(missing \ NextPost) + 1
        /\ Cardinality(missing' \ NextPost') \in Nat
    BY <1>0, <1>2, OneMore
  <2>2. tally'.mishaps = tally.mishaps + 1
    BY <1>2, MishapFacts
  <2> QED BY <1>0, <2>1, <2>2 DEF MissingPaid
<1>3. out' = out => missing' = missing
  BY DEF missing
<1>4. ASSUME NEW s, NEW id, out' = out \cup {<<s, id>>} PROVE missing' \subseteq missing \cup {<<s, id>>}
  BY <1>4 DEF missing
<1>5. ASSUME out' = out, NextPost = {} PROVE MissingPaid'
  BY <1>1, <1>3, <1>5
<1>6. st # "poll" \/ todo = NoTodo => NextPost = {}
  BY <1>0 DEF NextPost
<1>7. CASE \/ \E s \in Range1, off \in BOOLEAN : Publish(s, off)
           \/ SessionDies \/ NewSession \/ DebouncePasses \/ WindowPasses \/ handlePoll
  <2>1. UNCHANGED <<out, st, todo>>
    BY <1>7, Zenon DEF Publish, SessionDies, NewSession, DebouncePasses, WindowPasses, handlePoll, history
  <2>2. NextPost' = NextPost
    BY <2>1 DEF NextPost
  <2> QED BY <1>1, <1>3, <2>1, <2>2
<1>8. CASE scheduledPoll \/ triggeredPoll \/ list \/ listFails \/ markRejected \/ restart \/ WaitForFreshCredentials
  <2>1. out' = out /\ (st # "poll" \/ todo = NoTodo)
    BY <1>8 DEF scheduledPoll, triggeredPoll, list, listFails, markRejected, restart,
                WaitForFreshCredentials, history
  <2> QED BY <1>5, <1>6, <2>1
<1>9. CASE surfaceDone
  <2>1. out' = out /\ todo.att = 0
    BY <1>9, Zenon DEF surfaceDone, history
  <2> QED BY <1>5, <2>1 DEF NextPost
<1>10. CASE finish
  <2>1. out' = out /\ st = "poll" /\ step > Len(Surfaces)
    BY <1>10, Zenon DEF finish, history
  <2>2. ~(step <= Len(Surfaces))
    BY <2>1, ScopeFacts DEF PollTypes
  <2>3. todo = NoTodo
    BY <2>1, <2>2 DEF TodoOK
  <2> QED BY <1>5, <1>6, <2>1, <2>3
<1>11. ASSUME NEW id \in 1..MaxId, stageItem(id) PROVE MissingPaid'
  <2>1. /\ st = "poll" /\ st' = "poll" /\ todo.att = 0
        /\ todo' = [todo EXCEPT !.ids = todo.ids \ {id},
                                !.att = IF produced' > produced /\ HasAttachment(todo.s, id) THEN id ELSE 0]
    BY <1>11, Zenon DEF stageItem
  <2>2. NextPost = {}
    BY <2>1 DEF NextPost
  <2>3. CASE UNCHANGED <<out, again, produced, seenIDs>>
    BY <1>5, <2>2, <2>3
  <2>4. CASE Stage(todo.s, id)
    <3>1. out' = out \cup {<<todo.s, id>>} /\ produced' > produced
      BY <2>4 DEF Stage, PollTypes
    <3>2. todo \in TodoRec /\ id # 0
      BY DEF PollTypes
    <3>3. todo'.s = todo.s /\ todo'.att = IF HasAttachment(todo.s, id) THEN id ELSE 0
      BY <2>1, <3>1, <3>2 DEF TodoRec
    <3>4. <<todo.s, id>> \in missing' => <<todo.s, id>> \in NextPost'
      <4>1. SUFFICES ASSUME HasAttachment(todo.s, id) PROVE <<todo.s, id>> \in NextPost'
        BY DEF missing
      <4>2. todo'.att = id
        BY <3>3, <4>1
      <4> QED BY <2>1, <3>2, <3>3, <4>2 DEF NextPost
    <3>5. missing' \ NextPost' \subseteq missing
      BY <1>4, <3>1, <3>4
    <3> QED BY <1>1, <2>2, <3>5
  <2> QED BY <1>11, <2>3, <2>4, StageItemCases
<1>12. CASE ProcessAttachments
  <2>1. /\ st = "poll" /\ st' = "poll" /\ todo.att # 0 /\ todo' = [todo EXCEPT !.att = 0]
    BY <1>12, Zenon DEF ProcessAttachments
  <2>2. NextPost = {<<todo.s, todo.att>>} /\ NextPost' = {}
    <3>1. todo'.att = 0
      BY <2>1 DEF PollTypes, TodoRec
    <3> QED BY <2>1, <3>1 DEF NextPost
  <2>3. todo.s \in Feeds /\ AttachmentsOf(todo.s) \in Scopes /\ AttachmentsOf(todo.s) \notin Feeds
    BY <1>12, AttachmentCases, ScopeFacts
  <2>4. CASE out' = out /\ todo.att \in seenIDs[AttachmentsOf(todo.s)]
    <3>1. <<AttachmentsOf(todo.s), todo.att>> \in out
      BY <2>3, <2>4 DEF NoIdPassedOver
    <3>2. <<todo.s, todo.att>> \notin missing
      BY <3>1 DEF missing
    <3> QED BY <1>1, <1>3, <2>2, <2>4, <3>2
  <2>5. CASE Stage(AttachmentsOf(todo.s), todo.att)
    <3>1. out' = out \cup {<<AttachmentsOf(todo.s), todo.att>>}
      BY <2>5 DEF Stage
    <3>2. <<todo.s, todo.att>> \notin missing' /\ <<AttachmentsOf(todo.s), todo.att>> \notin missing'
      BY <2>3, <3>1 DEF missing
    <3>3. missing' \ NextPost' \subseteq missing \ NextPost
      BY <1>4, <2>2, <3>1, <3>2
    <3> QED BY <1>1, <3>3
  <2>6. CASE out' = out /\ Mishap(1)
    <3>1. missing' \ NextPost' \subseteq (missing \ NextPost) \cup {<<todo.s, todo.att>>}
      BY <1>3, <2>2, <2>6
    <3> QED BY <1>2, <2>6, <3>1
  <2> QED BY <1>12, <2>4, <2>5, <2>6, AttachmentCases
<1>13. CASE crash
  <2>1. NextPost' = {} /\ Mishap(1)
    <3>1. st' = "stopped" /\ Mishap(1)
      BY <1>13, CrashCases
    <3> QED BY <3>1 DEF NextPost
  <2>2. CASE out' = out
    <3>1. missing' \ NextPost' \subseteq (missing \ NextPost) \cup {<<todo.s, todo.att>>}
      BY <1>3, <2>2 DEF NextPost
    <3> QED BY <1>2, <2>1, <3>1
  <2>3. ASSUME NEW id, todo.att = 0, Stage(todo.s, id) PROVE MissingPaid'
    <3>1. missing' \subseteq missing \cup {<<todo.s, id>>} /\ NextPost = {}
      BY <1>4, <2>3 DEF Stage, NextPost
    <3> QED BY <1>2, <2>1, <3>1
  <2>4. CASE todo.s \in Feeds /\ Stage(AttachmentsOf(todo.s), todo.att)
    <3>1. out' = out \cup {<<AttachmentsOf(todo.s), todo.att>>} /\ AttachmentsOf(todo.s) \notin Feeds
      BY <2>4, ScopeFacts DEF Stage
    <3>2. <<AttachmentsOf(todo.s), todo.att>> \notin missing'
      BY <3>1 DEF missing
    <3>3. missing' \ NextPost' \subseteq (missing \ NextPost) \cup {<<todo.s, todo.att>>}
      BY <1>4, <3>1, <3>2 DEF NextPost
    <3> QED BY <1>2, <2>1, <3>3
  <2> QED BY <1>13, <2>2, <2>3, <2>4, CrashCases
<1> QED
  BY <1>7, <1>8, <1>9, <1>10, <1>11, <1>12, <1>13, PollCases, Zenon

-----------------------------------------------------------------------------
\* Each refused session is polled with once, but for mishaps.
LEMMA SessionsStep ==
  ASSUME PollTypes, PollTypes', TodoOK, SessionsPaid, SchoologyNext
  PROVE  SessionsPaid'
<1> DEFINE D == dead \cap (1..marked)
           One == IF DeadPoll THEN 1 ELSE 0
<1>0. /\ IsFiniteSet(D) /\ Cardinality(D) \in Nat /\ wasted \in Nat /\ wasted' \in Nat
      /\ IsFiniteSet(D') /\ Cardinality(D') \in Nat
      /\ tally.mishaps \in Nat /\ tally'.mishaps \in Nat /\ tally.mishaps <= tally'.mishaps
      /\ marked \in Nat /\ session \in Nat /\ using \in Nat /\ marked' \in Nat /\ step \in Nat
      /\ wasted <= Cardinality(D) + tally.mishaps + One
  <2>1. D \in SUBSET (1..Sessions) /\ D' \in SUBSET (1..Sessions)
    BY DEF PollTypes
  <2>2. IsFiniteSet(D) /\ Cardinality(D) \in Nat /\ IsFiniteSet(D') /\ Cardinality(D') \in Nat
    BY <2>1, IdFacts
  <2>3. wasted \in Nat /\ wasted' \in Nat /\ tally.mishaps \in Nat /\ tally'.mishaps \in Nat
        /\ marked \in Nat /\ session \in Nat /\ using \in Nat /\ marked' \in Nat /\ step \in Nat
    BY IdFacts, ScopeFacts DEF PollTypes
  <2> QED BY <2>2, <2>3, TallyStep DEF SessionsPaid
<1>1. ASSUME D \subseteq D' PROVE Cardinality(D) <= Cardinality(D')
  BY <1>0, <1>1, FS_Subset
<1> HIDE DEF D
<1>2. SUFFICES /\ marked' <= session' /\ using' <= session'
               /\ st' \in {"poll", "watch", "refused"} => marked' < using'
               /\ wasted' <= Cardinality(D') + tally'.mishaps + One'
  BY DEF SessionsPaid, D
<1>3. ASSUME wasted' = wasted, dead \subseteq dead', marked <= marked',
             ~DeadPoll \/ DeadPoll' \/ tally'.mishaps = tally.mishaps + 1
      PROVE  wasted' <= Cardinality(D') + tally'.mishaps + One'
  <2>1. D \subseteq D'
    BY <1>0, <1>3 DEF D
  <2>2. Cardinality(D) <= Cardinality(D')
    BY <1>1, <2>1
  <2> QED BY <1>0, <1>3, <2>2
<1>4. ASSUME UNCHANGED <<dead, marked>>, wasted' \in {wasted, wasted + 1}, ~DeadPoll,
             wasted' # wasted => DeadPoll'
      PROVE  wasted' <= Cardinality(D') + tally'.mishaps + One'
  <2>1. D' = D
    BY <1>4 DEF D
  <2> QED BY <1>0, <1>4, <2>1
<1>5. CASE \/ \E s \in Range1, off \in BOOLEAN : Publish(s, off)
           \/ DebouncePasses \/ WindowPasses \/ handlePoll
           \/ (\E id \in 1..MaxId : stageItem(id)) \/ ProcessAttachments
  <2>1. UNCHANGED <<session, dead, marked, using, st, step, dedup, wasted>>
    BY <1>5, Zenon DEF Publish, DebouncePasses, WindowPasses, handlePoll, stageItem, ProcessAttachments, outside
  <2>2. DeadPoll' = DeadPoll
    BY <2>1 DEF DeadPoll, sessionRefused
  <2> QED BY <1>0, <1>3, <2>1, <2>2 DEF SessionsPaid
<1>6. CASE SessionDies \/ NewSession
  <2>1. /\ UNCHANGED <<marked, using, st, step, dedup, wasted>> /\ st \in {"watch", "waiting"}
        /\ dead \subseteq dead' /\ session' \in {session, session + 1}
    BY <1>6 DEF SessionDies, NewSession, Settled
  <2>2. ~DeadPoll
    BY <2>1 DEF DeadPoll
  <2> QED BY <1>0, <1>3, <2>1, <2>2 DEF SessionsPaid
<1>7. CASE scheduledPoll \/ triggeredPoll
  <2>1. /\ UNCHANGED <<session, dead, marked, using>> /\ st = "watch" /\ st' = "poll" /\ step' = 1
        /\ wasted' = IF using \in dead THEN wasted + 1 ELSE wasted
    BY <1>7, Zenon DEF scheduledPoll, triggeredPoll, Begin, outside
  <2>2. ~DeadPoll /\ (DeadPoll' <=> using \in dead)
    BY <2>1 DEF DeadPoll
  <2>4. wasted' <= Cardinality(D') + tally'.mishaps + One'
    BY <1>0, <1>4, <2>1, <2>2
  <2> QED BY <2>1, <2>4 DEF SessionsPaid
<1>8. CASE list
  <2>1. UNCHANGED <<session, dead, marked, using, st, wasted>> /\ using \notin dead
    BY <1>8, Zenon DEF list, outside
  <2>2. ~DeadPoll
    BY <2>1 DEF DeadPoll
  <2> QED BY <1>0, <1>3, <2>1, <2>2 DEF SessionsPaid
<1>9. CASE listFails
  <2>1. /\ UNCHANGED <<session, dead, marked, using, st, wasted>> /\ st = "poll"
        /\ \/ using \in dead /\ Observe(surface[1], "auth")
           \/ Mishap(1)
    BY <1>9 DEF listFails, outside
  <2>2. ~DeadPoll \/ DeadPoll' \/ tally'.mishaps = tally.mishaps + 1
    <3>1. CASE using \in dead /\ Observe(surface[1], "auth")
      <4>1. <<surface[1], "auth">> \in dedup'
        BY <3>1 DEF Observe
      <4>2. sessionRefused'
        BY <4>1 DEF sessionRefused
      <4> QED BY <2>1, <3>1, <4>2 DEF DeadPoll
    <3>2. CASE Mishap(1)
      BY <3>2, MishapFacts
    <3> QED BY <2>1, <3>1, <3>2
  <2> QED BY <1>0, <1>3, <2>1, <2>2 DEF SessionsPaid
<1>10. CASE surfaceDone
  <2>1. UNCHANGED <<session, dead, marked, using, st, wasted>> /\ st = "poll" /\ todo # NoTodo
    BY <1>10, Zenon DEF surfaceDone, outside
  <2>2. ~DeadPoll
    BY <2>1 DEF DeadPoll, TodoOK
  <2> QED BY <1>0, <1>3, <2>1, <2>2 DEF SessionsPaid
<1>11. CASE finish
  <2>1. /\ UNCHANGED <<session, dead, marked, using, wasted>> /\ st = "poll" /\ step > Len(Surfaces)
        /\ st' \in {"refused", "stopped", "watch"}
        /\ st' = "refused" \/ ~sessionRefused
    BY <1>11 DEF finish, outside
  <2>2. ~DeadPoll \/ DeadPoll'
    <3>1. step # 1
      BY <2>1, ScopeFacts DEF PollTypes
    <3> QED BY <2>1, <3>1 DEF DeadPoll
  <2> QED BY <1>0, <1>3, <2>1, <2>2 DEF SessionsPaid
<1>12. CASE markRejected
  <2>1. /\ UNCHANGED <<session, dead, using, wasted>> /\ st = "refused" /\ st' = "stopped"
        /\ \/ marked' = using
           \/ marked' = marked /\ Mishap(1)
    BY <1>12, Zenon DEF markRejected, outside
  <2>2. marked < using /\ marked <= session /\ using <= session
    BY <2>1 DEF SessionsPaid
  <2>3. CASE marked' = using
    <3>1. D \subseteq D'
      BY <1>0, <2>1, <2>2, <2>3 DEF D
    <3>2. CASE DeadPoll
      <4>1. using \in D' /\ using \notin D
        BY <1>0, <2>1, <2>2, <2>3, <3>2 DEF D, DeadPoll
      <4>2. Cardinality(D \cup {using}) = Cardinality(D) + 1 /\ (D \cup {using}) \in SUBSET D'
        BY <1>0, <3>1, <4>1, FS_AddElement
      <4>3. Cardinality(D) + 1 <= Cardinality(D')
        BY <1>0, <4>2, FS_Subset
      <4> QED BY <1>0, <2>1, <2>2, <2>3, <4>3
    <3>3. CASE ~DeadPoll
      <4>1. marked <= marked'
        BY <1>0, <2>2, <2>3
      <4>2. wasted' <= Cardinality(D') + tally'.mishaps + One'
        BY <1>3, <2>1, <3>3, <4>1
      <4> QED BY <1>0, <2>1, <2>2, <2>3, <4>2
    <3> QED BY <3>2, <3>3
  <2>4. CASE marked' = marked /\ Mishap(1)
    <3>1. tally'.mishaps = tally.mishaps + 1
      BY <2>4, MishapFacts
    <3> QED BY <1>0, <1>3, <2>1, <2>2, <2>4, <3>1
  <2> QED BY <2>1, <2>3, <2>4
<1>13. CASE restart \/ WaitForFreshCredentials
  <2>1. /\ UNCHANGED <<session, dead, marked>> /\ st \in {"stopped", "waiting"}
        /\ \/ st' = "waiting" /\ UNCHANGED <<using, wasted>>
           \/ /\ session # marked /\ st' = "poll" /\ using' = session /\ step' = 1
              /\ wasted' = IF session \in dead THEN wasted + 1 ELSE wasted
    BY <1>13 DEF restart, WaitForFreshCredentials, Process, outside
  <2>2. ~DeadPoll
    BY <2>1 DEF DeadPoll
  <2>3. CASE st' = "waiting" /\ UNCHANGED <<using, wasted>>
    BY <1>0, <1>3, <2>1, <2>2, <2>3 DEF SessionsPaid
  <2>4. CASE /\ session # marked /\ st' = "poll" /\ using' = session /\ step' = 1
             /\ wasted' = IF session \in dead THEN wasted + 1 ELSE wasted
    <3>1. DeadPoll' <=> session \in dead
      BY <2>1, <2>4 DEF DeadPoll
    <3>3. wasted' <= Cardinality(D') + tally'.mishaps + One'
      BY <1>0, <1>4, <2>1, <2>2, <2>4, <3>1
    <3> QED BY <1>0, <2>1, <2>4, <3>3 DEF SessionsPaid
  <2> QED BY <2>1, <2>3, <2>4
<1>14. CASE crash
  <2>1. UNCHANGED <<session, dead, marked, using, wasted>> /\ st' = "stopped" /\ Mishap(1)
    BY <1>14, Zenon DEF crash, outside
  <2>2. tally'.mishaps = tally.mishaps + 1
    BY <2>1, MishapFacts
  <2> QED BY <1>0, <1>3, <2>1, <2>2 DEF SessionsPaid
<1> QED
  BY <1>5, <1>6, <1>7, <1>8, <1>9, <1>10, <1>11, <1>12, <1>13, <1>14, PollCases, Zenon

-----------------------------------------------------------------------------
LEMMA CountersStep ==
  ASSUME PollTypes, CountersOK, SchoologyNext
  PROVE  CountersOK'
<1>0. drift \in Nat /\ fired \in Nat /\ produced \in Nat /\ Drift \in Nat \ {0}
  BY IdFacts DEF PollTypes
<1>1. owed' => signal'
  <2>1. \/ UNCHANGED <<owed, signal>> \/ owed' = FALSE \/ signal' = TRUE
    BY DEF SchoologyNext, processAssignments, ProcessFeed, ProcessMessages, stepOfSurface,
       Publish, SessionDies, NewSession, DebouncePasses, WindowPasses, handlePoll, scheduledPoll,
       triggeredPoll, list, listFails, stageItem, ProcessAttachments, surfaceDone, finish,
       markRejected, restart, WaitForFreshCredentials, crash, Begin, Process, trig
  <2> QED BY <2>1 DEF CountersOK
<1>2. fired' <= 1 /\ (~notBefore' => fired' = 0)
  <2>1. \/ UNCHANGED <<fired, notBefore>> \/ fired' = 0
        \/ ~notBefore /\ notBefore' = TRUE /\ fired' = fired + 1
    BY DEF SchoologyNext, processAssignments, ProcessFeed, ProcessMessages, stepOfSurface,
       Publish, SessionDies, NewSession, DebouncePasses, WindowPasses, handlePoll, scheduledPoll,
       triggeredPoll, list, listFails, stageItem, ProcessAttachments, surfaceDone, finish,
       markRejected, restart, WaitForFreshCredentials, crash, Begin, Process, window
  <2> QED BY <1>0, <2>1 DEF CountersOK
<1>3. (st' = "poll" /\ catchUp' => drift' = 0) /\ (st' = "watch" => drift' <= Drift)
  <2>1. CASE finish
    <3>1. /\ st = "poll" /\ catchUp' = catchUp /\ drift' \in {0, drift, drift + 1} /\ st' # "poll"
          /\ st' = "watch" => catchUp \/ ~(drift' >= Drift)
      BY <2>1 DEF finish, RecordPoll
    <3> QED BY <1>0, <3>1 DEF CountersOK
  <2>2. CASE ~finish
    <3>1. \/ UNCHANGED <<st, catchUp, drift>>
          \/ st' = "poll" /\ catchUp' = FALSE
          \/ st' = "poll" /\ drift' = 0
          \/ st' \in {"stopped", "waiting"}
      BY <2>2 DEF SchoologyNext, processAssignments, ProcessFeed, ProcessMessages, stepOfSurface,
         Publish, SessionDies, NewSession, DebouncePasses, WindowPasses, handlePoll, scheduledPoll,
         triggeredPoll, list, listFails, stageItem, ProcessAttachments, surfaceDone,
         markRejected, restart, WaitForFreshCredentials, crash, Begin, Process, results
    <3> QED BY <3>1 DEF CountersOK
  <2> QED BY <2>1, <2>2
<1>4. OneReceiptPerClass'
  <2>1. \/ receipts' = receipts \/ receipts' = {}
        \/ \E p, c : receipts' = receipts \cup {<<p, c, 1>>}
    BY DEF SchoologyNext, processAssignments, ProcessFeed, ProcessMessages, stepOfSurface,
       Publish, SessionDies, NewSession, DebouncePasses, WindowPasses, handlePoll, scheduledPoll,
       triggeredPoll, list, listFails, stageItem, ProcessAttachments, surfaceDone, finish,
       markRejected, restart, WaitForFreshCredentials, crash, Begin, Process, Observe
  <2> QED BY <2>1 DEF CountersOK, OneReceiptPerClass
<1> QED
  BY <1>1, <1>2, <1>3, <1>4 DEF CountersOK

LEMMA SchoologyStep == SchoologyInv /\ [SchoologyNext]_pollVars => SchoologyInv'
<1> SUFFICES ASSUME SchoologyInv, [SchoologyNext]_pollVars PROVE SchoologyInv'
  OBVIOUS
<1>1. CASE SchoologyNext
  <2>1. PollTypes'
    BY <1>1, PollTypesStep DEF SchoologyInv
  <2>2. TodoOK' /\ NoIdPassedOver' /\ OldBelow' /\ RestagePaid' /\ MissingPaid' /\ CountersOK'
    BY <1>1, TodoStep, PollStagedStep, MissingStep, CountersStep DEF SchoologyInv
  <2>3. SessionsPaid'
    BY <1>1, <2>1, SessionsStep DEF SchoologyInv
  <2> QED BY <2>1, <2>2, <2>3 DEF SchoologyInv
<1>2. CASE UNCHANGED pollVars
  <2> USE <1>2 DEF pollVars, SchoologyInv
  <2>1. PollTypes' /\ TodoOK'
    BY DEF PollTypes, TodoOK
  <2>2. NoIdPassedOver' /\ OldBelow' /\ RestagePaid'
    BY DEF NoIdPassedOver, OldBelow, RestagePaid, Unpaid, feedOf
  <2>3. MissingPaid'
    BY DEF MissingPaid, missing, NextPost
  <2>4. SessionsPaid'
    BY DEF SessionsPaid, DeadPoll, sessionRefused
  <2>5. CountersOK'
    BY DEF CountersOK, OneReceiptPerClass
  <2> QED BY <2>1, <2>2, <2>3, <2>4, <2>5
<1> QED
  BY <1>1, <1>2

LEMMA SchoologyStart == SchoologyInit => SchoologyInv
<1> SUFFICES ASSUME SchoologyInit PROVE SchoologyInv
  OBVIOUS
<1>0. /\ NoTodo.ids = {} /\ NoTodo.att = 0
      /\ Len(Surfaces) \in Nat \ {0} /\ Sessions \in Nat \ {0} /\ MaxSeen \in Nat \ {0}
      /\ Drift \in Nat \ {0} /\ MaxId \in Nat
  BY ScopeFacts, IdFacts DEF NoTodo
<1>a. Cardinality({}) = 0
  BY FS_EmptySet
<1>b. /\ listed = Listed /\ seenIDs = [s \in Scopes |-> {}]
      /\ session = 1 /\ dead = {} /\ marked = 0 /\ st = "poll" /\ using = 1 /\ step = 1
      /\ todo = NoTodo /\ produced = 0 /\ drift = 0 /\ out = {} /\ again = 0 /\ receipts = {}
      /\ owed = FALSE /\ fired = 0 /\ wasted = 0
      /\ tally = [triggers |-> 0, windows |-> 0, mishaps |-> 0]
  BY DEF SchoologyInit
<1>1. PollTypes
  <2>1. NoTodo \in TodoRec
    <3>1. NoTodo = [s |-> NoTodo.s, ids |-> {}, att |-> 0]
      BY DEF NoTodo
    <3> QED BY <1>0, <3>1 DEF TodoRec
  <2>2. /\ listed \in [Range1 -> SUBSET (1..MaxId)]
        /\ \A s \in Range1 : Cardinality(listed[s]) <= MaxSeen
    BY <1>b, ListedAssumption
  <2>3. /\ seenIDs \in [Scopes -> SUBSET (1..MaxId)]
        /\ \A c \in Scopes : Cardinality(seenIDs[c]) <= MaxSeen
    BY <1>0, <1>a, <1>b
  <2>4. /\ session \in 1..Sessions /\ dead \subseteq 1..Sessions
        /\ marked \in 0..Sessions /\ using \in 1..Sessions
        /\ step \in 1..(Len(Surfaces) + 1)
    BY <1>0, <1>b
  <2> QED BY <1>b, <2>1, <2>2, <2>3, <2>4 DEF PollTypes
<1>2. TodoOK
  BY <1>0, <1>b DEF TodoOK
<1>3. NoIdPassedOver /\ OldBelow /\ RestagePaid
  <2>1. Unpaid = {}
    BY <1>b DEF Unpaid
  <2> QED BY <1>a, <1>b, <2>1 DEF NoIdPassedOver, OldBelow, RestagePaid
<1>4. MissingPaid
  <2>1. missing \ NextPost = {}
    BY <1>b DEF missing
  <2> QED BY <1>a, <1>b, <2>1 DEF MissingPaid
<1>5. SessionsPaid
  <2>1. dead \cap (1..marked) = {} /\ ~DeadPoll
    BY <1>b DEF DeadPoll
  <2> QED BY <1>a, <1>b, <2>1 DEF SessionsPaid
<1>6. CountersOK
  BY <1>0, <1>b DEF CountersOK, OneReceiptPerClass
<1> QED
  BY <1>1, <1>2, <1>3, <1>4, <1>5, <1>6 DEF SchoologyInv

LEMMA SchoologyInvSafe == SchoologyInv => SchoologySafe
<1> SUFFICES ASSUME SchoologyInv PROVE SchoologySafe
  OBVIOUS
<1> USE DEF SchoologyInv
<1>1. SchoologyTypeOK
  BY DEF SchoologyTypeOK, PollTypes, CountersOK
<1>2. StagedAgainOnlyAfterMishap
  <2>1. Cardinality(Unpaid) \in Nat /\ again \in Nat /\ tally.mishaps \in Nat
    BY StagedFinite DEF PollTypes
  <2> QED BY <2>1 DEF StagedAgainOnlyAfterMishap, RestagePaid
<1>3. MissedAttachmentsCounted
  <2>1. /\ IsFiniteSet(missing) /\ IsFiniteSet(missing \ NextPost)
        /\ Cardinality(missing \ NextPost) \in Nat /\ Cardinality(missing \ NextPost) <= tally.mishaps
        /\ tally.mishaps \in Nat
    BY StagedFinite, FS_Subset DEF MissingPaid, PollTypes
  <2>2. CASE st = "poll" /\ todo.att # 0
    <3>1. missing \subseteq (missing \ NextPost) \cup {<<todo.s, todo.att>>}
      BY <2>2 DEF NextPost
    <3>2. Cardinality(missing) <= Cardinality(missing \ NextPost) + 1 /\ Cardinality(missing) \in Nat
      BY <2>1, <3>1, OneMore
    <3> QED BY <2>1, <2>2, <3>2 DEF MissedAttachmentsCounted
  <2>3. CASE ~(st = "poll" /\ todo.att # 0)
    <3>1. missing \ NextPost = missing
      BY <2>3 DEF NextPost
    <3> QED BY <2>1, <2>3, <3>1 DEF MissedAttachmentsCounted
  <2> QED BY <2>2, <2>3
<1>4. TriggerNotLost /\ ScheduledOncePerWindow /\ OneReceiptPerClass
  BY DEF CountersOK, TriggerNotLost, ScheduledOncePerWindow
<1>5. RefusedSessionLeft
  <2> DEFINE D == dead \cap (1..marked)
  <2>1. /\ IsFiniteSet(dead) /\ Cardinality(dead) \in Nat /\ IsFiniteSet(D) /\ Cardinality(D) \in Nat
        /\ marked \in Nat /\ using \in Nat /\ wasted \in Nat /\ tally.mishaps \in Nat
    <3>1. dead \in SUBSET (1..Sessions) /\ D \in SUBSET (1..Sessions)
      BY DEF PollTypes
    <3>2. marked \in Nat /\ using \in Nat /\ wasted \in Nat /\ tally.mishaps \in Nat
      BY IdFacts DEF PollTypes
    <3> QED BY <3>1, <3>2, IdFacts
  <2>2. wasted <= Cardinality(D) + tally.mishaps + (IF DeadPoll THEN 1 ELSE 0)
    BY DEF SessionsPaid
  <2> HIDE DEF D
  <2>3. CASE DeadPoll
    <3>1. using \in dead /\ using \notin D
      BY <2>1, <2>3 DEF DeadPoll, SessionsPaid, D
    <3>2. (D \cup {using}) \in SUBSET dead /\ Cardinality(D \cup {using}) = Cardinality(D) + 1
      BY <2>1, <3>1, FS_AddElement DEF D
    <3>3. Cardinality(D) + 1 <= Cardinality(dead)
      BY <2>1, <3>2, FS_Subset
    <3> QED BY <2>1, <2>2, <2>3, <3>3 DEF RefusedSessionLeft
  <2>4. CASE ~DeadPoll
    <3>1. D \in SUBSET dead
      BY DEF D
    <3>2. Cardinality(D) <= Cardinality(dead)
      BY <2>1, <3>1, FS_Subset
    <3> QED BY <2>1, <2>2, <2>4, <3>2 DEF RefusedSessionLeft
  <2> QED BY <2>3, <2>4
<1> QED
  BY <1>1, <1>2, <1>3, <1>4, <1>5 DEF SchoologySafe

\* Schoology passes nothing over, forgets nothing still listed, loses no
\* trigger and leaves a refused session alone, for any surfaces, any bound of
\* the seen-set and any number of mishaps (schoology/connector.go,
\* checkpoint.go, feed.go, trigger.go, session_wait.go).
THEOREM SchoologyIsKept == MCSpec => []SchoologyKept
<1>1. MCInit => SchoologyInv
  BY SchoologyStart DEF MCInit
<1>2. SchoologyInv /\ [MCNext]_<<gateVars, vars, carryVars, pollVars, part>> => SchoologyInv'
  <2> SUFFICES ASSUME SchoologyInv, [SchoologyNext]_pollVars PROVE SchoologyInv'
    BY DEF MCNext
  <2> QED BY SchoologyStep
<1>3. SchoologyInv => SchoologyKept
  BY SchoologyInvSafe DEF SchoologyKept
<1> QED
  BY <1>1, <1>2, <1>3, PTL DEF MCSpec
=============================================================================
