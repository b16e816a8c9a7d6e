------------------------------ MODULE ItemFate ------------------------------
(***************************************************************************)
(* What routing promises about an item, whatever files it takes: the       *)
(* verdict is on record before the last whole copy goes, a record is never *)
(* taken back, and an agent gets only what was cleared.  Module Delivery   *)
(* implements it.                                                          *)
(*                                                                         *)
(* The promise has one exception, items that failed/ was copied over       *)
(* (copyDir onto itself, or onto an older copy): they are spoiled and may  *)
(* go without a record.                                                    *)
(***************************************************************************)
CONSTANTS Items, Verdicts

VARIABLES clear,     \* items that may reach an agent; never changes
          known,     \* items that arrived
          kept,      \* items of which a whole copy waits
          inboxed,   \* items whose content is at the agent
          log,       \* log[i]: verdicts on record
          spoiled    \* items copied over

fate == <<clear, known, kept, inboxed, log, spoiled>>

FateInit ==
  /\ clear \subseteq Items
  /\ known = {} /\ kept = {} /\ inboxed = {} /\ spoiled = {}
  /\ log = [i \in Items |-> {}]

Receive(i) ==
  /\ i \notin known
  /\ known' = known \cup {i} /\ kept' = kept \cup {i}
  /\ UNCHANGED <<clear, inboxed, log, spoiled>>

\* Content is written to the agent's inbox ...
Give(i) ==
  /\ i \in clear \cap known
  /\ inboxed' = inboxed \cup {i}
  /\ UNCHANGED <<clear, known, kept, log, spoiled>>

\* ... and a later attempt may truncate it.
TakeBack(i) ==
  /\ inboxed' = inboxed \ {i}
  /\ UNCHANGED <<clear, known, kept, log, spoiled>>

Record(i, v) ==
  /\ i \in known
  /\ v = "pass" => i \in clear
  /\ log' = [log EXCEPT ![i] = @ \cup {v}]
  /\ UNCHANGED <<clear, known, kept, inboxed, spoiled>>

\* May the whole copies of i change?
Released(i) == log[i] # {} \/ i \in spoiled

\* The last whole copy goes, or one is put together again.
Discard(i) ==
  /\ Released(i)
  /\ kept' \in {kept \ {i}, kept \cup {i}}
  /\ UNCHANGED <<clear, known, inboxed, log, spoiled>>

Spoil(i) ==
  /\ i \in known
  /\ spoiled' = spoiled \cup {i}
  /\ kept' \in {kept, kept \ {i}, kept \cup {i}}
  /\ UNCHANGED <<clear, known, inboxed, log>>

FateNext ==
  \E i \in Items :
    \/ Receive(i) \/ Give(i) \/ TakeBack(i) \/ Discard(i) \/ Spoil(i)
    \/ \E v \in Verdicts : Record(i, v)

FateSpec == FateInit /\ [][FateNext]_fate
=============================================================================
