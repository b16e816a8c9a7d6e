----------------------------- MODULE MCPortals -----------------------------
(* The two school connectors on small instances: the PowerSchool connector's *)
(* session gate, its turns and its carried attendance days, and the          *)
(* Schoology connector.  They share no state here; a behaviour is of the one *)
(* that part names, and the others keep their initial state.                 *)
EXTENDS SessionGate, StudentTurn, AttendanceCarry, SchoologyPoll

\* Two poll windows in one day.
MCWindows  == <<[start |-> 1, end |-> 3], [start |-> 4, end |-> 5]>>
MCBlackout == {3}

CONSTANTS k1, k2
MCOrder  == <<k1, k2>>
MCQuiet  == {<<k1, "course1">>, <<k1, "attendance">>, <<k2, "term_grade">>}
MCMoving == {<<k1, "course1">>, <<k2, "term_grade">>, <<k2, "grade">>}
MCDesc   == {2}

MCNoSchool == {4}

MCSurfaces == << <<"assignments", "a">>, <<"feed", "a">>, <<"feed", "b">>, <<"messages", "">> >>
MCListed   == [s \in Range1 |-> IF s = <<"feed", "b">> THEN {} ELSE {1}]
MCGrowing  == {<<"feed", "a">>}

VARIABLE part

MCInit == /\ GateInit /\ TurnInit /\ CarryInit /\ SchoologyInit
          /\ part \in {"gate", "turn", "carry", "schoology"}
          /\ part # "gate" => mode = "off"
          /\ part # "turn" => cfg = [bound |-> {}, assignments |-> FALSE, extras |-> FALSE]
MCNext ==
  \/ part = "gate" /\ GateNext /\ UNCHANGED <<vars, carryVars, pollVars, part>>
  \/ part = "turn" /\ TurnNext /\ UNCHANGED <<gateVars, carryVars, pollVars, part>>
  \/ part = "carry" /\ CarryNext /\ UNCHANGED <<gateVars, vars, pollVars, part>>
  \/ part = "schoology" /\ SchoologyNext /\ UNCHANGED <<gateVars, vars, carryVars, part>>

MCSpec == MCInit /\ [][MCNext]_<<gateVars, vars, carryVars, pollVars, part>>

\* The session gate polls and asks for logins as seldom as promised, across
\* crashes and restarts (session_gate.go, connector.go pollNow).
GateKept == part = "gate" => GateSafe

\* Every kid gets its own student's pages and no change is passed over,
\* whoever else uses the session (connector.go pollKids, binding.go).
TurnKept == part = "turn" => TurnSafe

\* The end of a term loses no coded day and brings none back over a correction
\* (records_attendance_day.go).
CarryKept == part = "carry" => CarrySafe

\* Schoology passes no item over, loses no trigger and leaves a refused session
\* alone (schoology/connector.go, feed.go, trigger.go).
SchoologyKept == part = "schoology" => SchoologySafe

\* Four things no step may do: ask for a login sooner than min_interval after
\* the last request; go back from the broker's session to an older one in the
\* file; learn another student's id unless somebody switched away and back
\* within the turn; put an unsettled day into the journal (requestAndWait,
\* reload, learnBinding, carriedDays).
PortalSteps == RequestsPaced /\ HeldSessionKept /\ LearnedByMistake /\ EnteredSettled
=============================================================================
