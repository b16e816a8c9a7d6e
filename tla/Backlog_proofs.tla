--------------------------- MODULE Backlog_proofs ---------------------------
(***************************************************************************)
(* Proofs about the records spool (module RecordSpool) and the queue of    *)
(* detail pages (module DetailQueue).  SpoolInv and DetailInv are the      *)
(* inductive invariants.  SpoolInv: the types, where the file of every     *)
(* accepted snapshot is, and what the answer the sender holds says of the  *)
(* journal.  DetailInv: the types, that the reads of a poll are listed     *)
(* assignments within the cap, and that every page staged and not          *)
(* remembered is the doing of an outage; its lemmas show that the plan's   *)
(* numbering gives no two assignments one place, which bounds the reads.   *)
(***************************************************************************)
EXTENDS RecordSpool, DetailQueue, FiniteSetTheorems, WellFoundedInduction, TLAPS

-----------------------------------------------------------------------------
(* The inductive invariant. *)

Seen == 1..(next - 1)

SpoolTypes ==
  /\ next \in 1..(N + 1)
  /\ pending \subseteq Seen /\ rejected \subseteq Seen /\ acked \subseteq Seen
  /\ sending \in 0..(next - 1)
  /\ backoff \subseteq Scopes \cup {All}
  /\ net \subseteq Seen /\ stored \subseteq Seen
  /\ answer # None => sending # 0
  /\ up \in BOOLEAN
  /\ dropped \in [aged : SUBSET Seen, bytes : SUBSET Seen, erased : SUBSET Seen]

\* What the answer in the sender's hands says is so in the journal: an
\* accepted snapshot is stored, unless its subject was erased since.
AnswerTrue ==
  /\ answer \in {"applied", "duplicate"} => sending \in stored \/ Subj(sending) \in gone
  /\ answer = "schema" => sending \in Invalid

\* Only what the journal refused for good is in rejected/.
RejectedInvalid == rejected \subseteq Invalid

\* A file is in one directory, except between a crash and the restart.
OneDirectory == up => pending \cap rejected = {}

SpoolInv ==
  SpoolTypes /\ NothingLost /\ NewestKept /\ AnswerTrue /\ RejectedInvalid /\ OneDirectory

\* The snapshot needs no earlier turn than a later one of its scope: the
\* journal has it or will never take it, or its file could not be read.
Settled(j) == j \in stored \cup Invalid \cup unread \/ Subj(j) \in gone

\* j is an older file of i's scope.
Older(j, i) == j < i /\ ScopeOf[j] = ScopeOf[i]

\* What the sender has sent was not sent ahead of an older file of its scope.
SentSettled == \A i \in net : \A j \in pending : Older(j, i) => Settled(j)

\* What the pass has still to send comes after the older files of its scope.
TodoSettled ==
  /\ todo \in Seq(Seen)
  /\ \A k \in 1..Len(todo) : ScopeOf[todo[k]] \notin left =>
       \A j \in pending : Older(j, todo[k]) =>
         Settled(j) \/ j = sending \/ \E m \in 1..(k - 1) : todo[m] = j

OrderInv == SpoolInv /\ SentSettled /\ TodoSettled

-----------------------------------------------------------------------------
(* The bounds. *)

\* A nonempty set of numbers has a least element.
LEMMA LeastExists ==
  ASSUME NEW S \in SUBSET Nat, S # {}
  PROVE  \E x \in S : \A y \in S : x <= y
<1> DEFINE R == OpToRel(<, Nat)
<1>1. IsWellFoundedOn(R, Nat)
  BY NatLessThanWellFounded
<1>r. \A a, b \in Nat : a < b => <<a, b>> \in R
  BY DEF R, OpToRel
<1> HIDE DEF R
<1>2. PICK x \in S : \A y \in S : <<y, x>> \notin R
  BY <1>1, WFMin
<1>3. ASSUME NEW y \in S PROVE x <= y
  <2>1. x \in Nat /\ y \in Nat
    OBVIOUS
  <2>2. ~(y < x)
    BY <1>2, <1>r, <2>1, Zenon
  <2> QED BY <2>1, <2>2
<1> QED BY <1>3

\* Making room takes a rejected file, or a pending one that a later snapshot
\* of its scope supersedes.
LEMMA SpareRule ==
  ASSUME NEW P \in SUBSET Nat, NEW R \in SUBSET Nat, NEW i \in Spare(P, R)
  PROVE  i \in R \/ (i \in P /\ \E j \in P : i < j /\ ScopeOf[j] = ScopeOf[i])
<1> DEFINE cand == {x \in P : ~Newest(P, x)}
           oldest(S) == CHOOSE x \in S : \A y \in S : x <= y
<1>1. ASSUME NEW S \in SUBSET Nat, S # {} PROVE oldest(S) \in S
  BY <1>1, LeastExists
<1>2. CASE R # {}
  <2>1. i = oldest(R)
    BY <1>2 DEF Spare
  <2> QED BY <2>1, <1>1, <1>2
<1>3. CASE R = {} /\ cand # {}
  <2>1. i = oldest(cand)
    BY <1>3 DEF Spare
  <2>2. i \in cand
    <3>1. cand \in SUBSET Nat
      OBVIOUS
    <3> HIDE DEF cand
    <3> QED BY <2>1, <1>1, <1>3, <3>1
  <2>3. PICK j \in P : ScopeOf[j] = ScopeOf[i] /\ ~(j <= i)
    BY <2>2 DEF Newest
  <2>4. i \in Nat /\ j \in Nat /\ i \in P
    BY <2>2
  <2> QED BY <2>3, <2>4
<1>4. CASE R = {} /\ cand = {}
  BY <1>4 DEF Spare
<1> QED BY <1>2, <1>3, <1>4

\* The same of all the files one enforcement of the bounds takes for space.
LEMMA SpaceRule ==
  ASSUME NEW P \in SUBSET Nat, NEW R \in SUBSET Nat, NEW i \in ForSpace(P, R)
  PROVE  i \in R \/ (i \in P /\ \E j \in P : i < j /\ ScopeOf[j] = ScopeOf[i])
<1> DEFINE over(p, r) == Cardinality(p) + Cardinality(r) > MaxFiles
           first == IF over(P, R) THEN Spare(P, R) ELSE {}
           second == IF over(P \ first, R \ first) THEN Spare(P \ first, R \ first) ELSE {}
<1>1. i \in first \cup second
  BY DEF ForSpace
<1>2. CASE i \in first
  <2>1. i \in Spare(P, R)
    BY <1>2
  <2> QED BY <2>1, SpareRule
<1>3. CASE i \in second
  <2>1. i \in Spare(P \ first, R \ first)
    BY <1>3
  <2> HIDE DEF first, second
  <2>2. P \ first \in SUBSET Nat /\ R \ first \in SUBSET Nat
    OBVIOUS
  <2>3. i \in R \ first \/ (i \in P \ first /\ \E j \in P \ first : i < j /\ ScopeOf[j] = ScopeOf[i])
    BY <2>1, <2>2, SpareRule
  <2> QED BY <2>3
<1> QED BY <1>1, <1>2, <1>3

\* What enforcing the bounds does: what leaves is counted, and what leaves for
\* space was refused or is superseded.
LEMMA EnforcedRule ==
  ASSUME NEW P \in SUBSET Nat, NEW R \in SUBSET Nat, Enforced(P, R),
         NEW S, dropped \in [aged : SUBSET S, bytes : SUBSET S, erased : SUBSET S],
         P \subseteq S, R \subseteq S
  PROVE  /\ pending' \subseteq P /\ rejected' \subseteq R
         /\ dropped' \in [aged : SUBSET S, bytes : SUBSET S, erased : SUBSET S]
         /\ P \cup R \subseteq pending' \cup rejected' \cup dropped'.aged \cup dropped'.bytes
         /\ dropped.aged \subseteq dropped'.aged /\ dropped.bytes \subseteq dropped'.bytes
         /\ dropped'.erased = dropped.erased
         /\ \A i \in dropped'.bytes \ dropped.bytes :
              i \in R \/ (i \in P /\ \E j \in P : i < j /\ ScopeOf[j] = ScopeOf[i])
<1> DEFINE a == Aged(P, R)
           b == ForSpace(P \ a, R \ a)
<1>1. /\ pending' = P \ (a \cup b) /\ rejected' = R \ (a \cup b)
      /\ dropped' = [dropped EXCEPT !.aged = @ \cup a, !.bytes = @ \cup b]
  BY DEF Enforced
<1>2. a \subseteq P \cup R
  BY DEF Aged
<1>3. \A i \in b : i \in R \/ (i \in P /\ \E j \in P : i < j /\ ScopeOf[j] = ScopeOf[i])
  <2> SUFFICES ASSUME NEW i \in b
               PROVE  i \in R \/ (i \in P /\ \E j \in P : i < j /\ ScopeOf[j] = ScopeOf[i])
    OBVIOUS
  <2>2. P \ a \in SUBSET Nat /\ R \ a \in SUBSET Nat
    OBVIOUS
  <2> HIDE DEF a
  <2>3. i \in R \ a \/ (i \in P \ a /\ \E j \in P \ a : i < j /\ ScopeOf[j] = ScopeOf[i])
    BY <2>2, SpaceRule
  <2> QED BY <2>3
<1> HIDE DEF a, b
<1>4. b \subseteq P \cup R
  BY <1>3
<1>5. /\ dropped'.aged = dropped.aged \cup a /\ dropped'.bytes = dropped.bytes \cup b
      /\ dropped'.erased = dropped.erased
      /\ dropped' \in [aged : SUBSET S, bytes : SUBSET S, erased : SUBSET S]
  BY <1>1, <1>2, <1>4
<1> QED BY <1>1, <1>2, <1>3, <1>4, <1>5

-----------------------------------------------------------------------------
(* The spool's invariant, action by action. *)

\* What the operators of the constants are about.
LEMMA SpoolFacts ==
  ASSUME SpoolTypes
  PROVE  /\ next \in Nat /\ next >= 1 /\ Seen \subseteq Nat /\ Seen \subseteq Ids
         /\ \A i \in Ids : ScopeOf[i] \in Scopes /\ Subj(i) \in Subjects
BY SpoolAssumption DEF SpoolTypes, Seen, Ids, Subj

LEMMA SpoolInit == Init => SpoolInv
BY SpoolAssumption DEF Init, SpoolInv, SpoolTypes, Seen, NothingLost, NewestKept, AnswerTrue,
   RejectedInvalid, OneDirectory, None

\* As more snapshots are observed, the ones observed before remain.
LEMMA SeenGrows ==
  ASSUME NEW a \in Nat, NEW b \in Nat, a <= b
  PROVE  /\ 1..(a - 1) \subseteq 1..(b - 1) /\ 0..(a - 1) \subseteq 0..(b - 1) /\ 1..(b - 1) \subseteq Nat
         /\ \A i \in Nat : (i + 1)..(a - 1) \subseteq (i + 1)..(b - 1)
         /\ \A i \in Nat, j \in 1..(b - 1) : i < j => j \in (i + 1)..(b - 1)
OBVIOUS

\* A step that leaves the directories, the counters and the journal alone.
LEMMA QuietStep ==
  ASSUME SpoolInv, UNCHANGED <<pending, rejected, next, acked, dropped, up, stored, gone>>,
         sending' \in 0..(next - 1), backoff' \subseteq Scopes \cup {All}, net' \subseteq Seen,
         answer' # None => sending' # 0, AnswerTrue'
  PROVE  SpoolInv'
BY DEF SpoolInv, SpoolTypes, Seen, NothingLost, NewestKept, RejectedInvalid, OneDirectory, Subj

\* The bounds are enforced over the files and at most one new one.
LEMMA EnforceStep ==
  ASSUME SpoolInv, NEW P, Enforced(P, rejected), next' \in {next, next + 1},
         next' \in 1..(N + 1), pending \subseteq P, P \subseteq 1..(next' - 1),
         P \cap rejected = {} \/ ~up, up' = up,
         acked' \subseteq acked \cup P,
         UNCHANGED <<sending, answer, backoff, net, stored, gone>>
  PROVE  SpoolInv'
<1> DEFINE S == 1..(next' - 1)
<1>0. next \in Nat /\ next' \in Nat /\ next <= next' /\ next >= 1
  BY SpoolFacts, next' \in {next, next + 1} DEF SpoolInv
<1>1. /\ P \in SUBSET Nat /\ rejected \in SUBSET Nat /\ P \subseteq S /\ rejected \subseteq S
      /\ Seen \subseteq S /\ S \subseteq Nat
      /\ dropped \in [aged : SUBSET S, bytes : SUBSET S, erased : SUBSET S]
  <2>1. Seen \subseteq S /\ S \subseteq Nat
    BY <1>0, SeenGrows DEF Seen
  <2> HIDE DEF S
  <2>2. dropped \in [aged : SUBSET S, bytes : SUBSET S, erased : SUBSET S]
    <3>1. dropped \in [aged : SUBSET Seen, bytes : SUBSET Seen, erased : SUBSET Seen]
      BY DEF SpoolInv, SpoolTypes
    <3> QED BY <3>1, <2>1
  <2>3. rejected \subseteq Seen
    BY DEF SpoolInv, SpoolTypes
  <2>4. P \subseteq S
    BY DEF S
  <2> QED BY <2>1, <2>2, <2>3, <2>4
<1> HIDE DEF S
<1>2. /\ pending' \subseteq P /\ rejected' \subseteq rejected
      /\ dropped' \in [aged : SUBSET S, bytes : SUBSET S, erased : SUBSET S]
      /\ P \cup rejected \subseteq pending' \cup rejected' \cup dropped'.aged \cup dropped'.bytes
      /\ dropped.aged \subseteq dropped'.aged /\ dropped.bytes \subseteq dropped'.bytes
      /\ dropped'.erased = dropped.erased
      /\ \A i \in dropped'.bytes \ dropped.bytes :
           i \in rejected \/ (i \in P /\ \E j \in P : i < j /\ ScopeOf[j] = ScopeOf[i])
  BY <1>1, EnforcedRule
<1>3. SpoolTypes'
  <2>1. S = Seen'
    BY DEF S, Seen
  <2>2. acked \subseteq S /\ net \subseteq S /\ stored \subseteq S /\ rejected \subseteq S
    BY <1>1 DEF SpoolInv, SpoolTypes
  <2>3. sending \in 0..(next' - 1)
    <3>1. sending \in 0..(next - 1)
      BY DEF SpoolInv, SpoolTypes
    <3> QED BY <3>1, <1>0, SeenGrows
  <2>4. acked' \subseteq S /\ pending' \subseteq S /\ rejected' \subseteq S
    BY <2>2, <1>1, <1>2
  <2> QED BY <1>2, <2>1, <2>2, <2>3, <2>4 DEF SpoolInv, SpoolTypes
<1>4. NothingLost'
  <2> SUFFICES ASSUME NEW i \in acked', i \notin pending' \cup rejected' \cup stored', Subj(i)' \notin gone'
               PROVE  i \in dropped'.aged \cup dropped'.bytes \cup dropped'.erased
    BY DEF NothingLost
  <2>1. CASE i \in P \cup rejected
    BY <2>1, <1>2
  <2>2. CASE i \in acked /\ i \notin P \cup rejected
    <3>1. i \in dropped.aged \cup dropped.bytes \cup dropped.erased
      BY <2>2 DEF SpoolInv, NothingLost, Subj
    <3> QED BY <3>1, <1>2
  <2> QED BY <2>1, <2>2
<1>5. NewestKept'
  <2> SUFFICES ASSUME NEW i \in dropped'.bytes, i \notin Invalid
               PROVE  \E j \in (i + 1)..(next' - 1) : ScopeOf[j] = ScopeOf[i]
    BY DEF NewestKept
  <2>1. CASE i \in dropped.bytes
    <3>1. PICK j \in (i + 1)..(next - 1) : ScopeOf[j] = ScopeOf[i]
      BY <2>1 DEF SpoolInv, NewestKept
    <3>2. i \in Nat
      BY <2>1, <1>1
    <3>3. j \in (i + 1)..(next' - 1)
      BY <3>1, <3>2, <1>0, SeenGrows
    <3> QED BY <3>1, <3>3
  <2>2. CASE i \notin dropped.bytes
    <3>1. i \notin rejected
      BY DEF SpoolInv, RejectedInvalid
    <3>2. PICK j \in P : i < j /\ ScopeOf[j] = ScopeOf[i]
      BY <3>1, <2>2, <1>2
    <3>3. i \in P /\ i \in Nat /\ j \in 1..(next' - 1)
      BY <3>1, <2>2, <1>2, <1>1
    <3>4. j \in (i + 1)..(next' - 1)
      BY <3>2, <3>3, <1>0, SeenGrows
    <3> QED BY <3>2, <3>4
  <2> QED BY <2>1, <2>2
<1>6. AnswerTrue' /\ RejectedInvalid' /\ OneDirectory'
  BY <1>2 DEF SpoolInv, AnswerTrue, RejectedInvalid, OneDirectory, Subj
<1> QED BY <1>3, <1>4, <1>5, <1>6 DEF SpoolInv

LEMMA PutStep == ASSUME SpoolInv, Put PROVE SpoolInv'
<1>0. next \in Nat /\ next >= 1 /\ next <= N /\ N \in Nat /\ next \notin Seen
  BY SpoolAssumption, SpoolFacts DEF Put, SpoolInv, SpoolTypes, Seen
<1>1. CASE Subj(next) \notin purged
  <2>1. Enforced(pending \cup {next}, rejected)
    BY <1>1 DEF Put
  <2>2. pending \cup {next} \subseteq 1..(next' - 1) /\ next' = next + 1
    BY <1>0 DEF Put, SpoolInv, SpoolTypes, Seen
  <2>3. (pending \cup {next}) \cap rejected = {}
    BY <1>0 DEF Put, SpoolInv, SpoolTypes, OneDirectory
  <2>4. acked' \subseteq acked \cup (pending \cup {next})
    BY DEF Put
  <2>5. /\ next' \in {next, next + 1} /\ next' \in 1..(N + 1) /\ up' = up
        /\ UNCHANGED <<sending, answer, backoff, net, stored, gone>>
    BY <1>0 DEF Put, pass, journal
  <2> QED BY <2>1, <2>2, <2>3, <2>4, <2>5, EnforceStep
<1>2. CASE Subj(next) \in purged
  <2>1. /\ dropped' = [dropped EXCEPT !.erased = @ \cup {next}] /\ next' = next + 1
        /\ acked' = acked \cup {next}
        /\ UNCHANGED <<pending, rejected, up, sending, answer, backoff, net, stored, gone>>
    BY <1>2 DEF Put, pass, journal
  <2>2. Seen \subseteq Seen' /\ next \in Seen' /\ Seen' = 1..next
    BY <1>0, <2>1 DEF Seen
  <2>3. /\ dropped'.aged = dropped.aged /\ dropped'.bytes = dropped.bytes
        /\ dropped'.erased = dropped.erased \cup {next}
        /\ dropped' \in [aged : SUBSET Seen', bytes : SUBSET Seen', erased : SUBSET Seen']
    <3>1. dropped \in [aged : SUBSET Seen, bytes : SUBSET Seen, erased : SUBSET Seen]
      BY DEF SpoolInv, SpoolTypes
    <3>2. dropped' = [aged |-> dropped.aged, bytes |-> dropped.bytes, erased |-> dropped.erased \cup {next}]
      BY <3>1, <2>1
    <3> QED BY <3>1, <3>2, <2>2
  <2>4. SpoolTypes'
    <3>1. next' \in 1..(N + 1) /\ sending' \in 0..(next' - 1)
      BY <2>1, <1>0 DEF SpoolInv, SpoolTypes
    <3>2. /\ pending' \subseteq Seen' /\ rejected' \subseteq Seen' /\ acked' \subseteq Seen'
          /\ net' \subseteq Seen' /\ stored' \subseteq Seen'
      BY <2>1, <2>2 DEF SpoolInv, SpoolTypes
    <3>3. backoff' \subseteq Scopes \cup {All} /\ (answer' # None => sending' # 0) /\ up' \in BOOLEAN
      BY <2>1 DEF SpoolInv, SpoolTypes
    <3> QED BY <3>1, <3>2, <3>3, <2>3 DEF SpoolTypes
  <2>5. NothingLost'
    BY <2>1, <2>3 DEF SpoolInv, NothingLost, Subj
  <2>6. NewestKept'
    <3> SUFFICES ASSUME NEW i \in dropped'.bytes, i \notin Invalid
                 PROVE  \E j \in (i + 1)..(next' - 1) : ScopeOf[j] = ScopeOf[i]
      BY DEF NewestKept
    <3>1. PICK j \in (i + 1)..(next - 1) : ScopeOf[j] = ScopeOf[i]
      BY <2>3 DEF SpoolInv, NewestKept
    <3>2. i \in Nat
      BY <2>2, <2>3
    <3> QED BY <3>1, <3>2, <2>1, <1>0
  <2>7. AnswerTrue' /\ RejectedInvalid' /\ OneDirectory'
    BY <2>1 DEF SpoolInv, AnswerTrue, RejectedInvalid, OneDirectory, Subj
  <2> QED BY <2>4, <2>5, <2>6, <2>7 DEF SpoolInv
<1> QED BY <1>1, <1>2

\* A snapshot is observed whose file is or is not there, and nothing else of
\* the spool changes (PutFails, and a crash in Put).
LEMMA UnackedStep ==
  ASSUME SpoolInv, next <= N, next' = next + 1, pending' \in {pending, pending \cup {next}},
         UNCHANGED <<rejected, acked, dropped, net, stored, gone>>, up' \in {up, FALSE},
         (sending' = sending /\ answer' = answer) \/ (sending' = 0 /\ answer' = None),
         backoff' \subseteq Scopes \cup {All}
  PROVE  SpoolInv'
<1>0. next \in Nat /\ next' \in Nat /\ next <= next' /\ next >= 1 /\ next \notin Seen
  BY SpoolFacts DEF SpoolInv, Seen
<1>1. Seen \subseteq Seen' /\ next \in Seen' /\ 0..(next - 1) \subseteq 0..(next' - 1) /\ Seen \subseteq Nat
  BY <1>0 DEF Seen
<1>2. dropped' \in [aged : SUBSET Seen', bytes : SUBSET Seen', erased : SUBSET Seen']
  <2>1. dropped \in [aged : SUBSET Seen, bytes : SUBSET Seen, erased : SUBSET Seen]
    BY DEF SpoolInv, SpoolTypes
  <2> QED BY <2>1, <1>1
<1>3. SpoolTypes'
  <2>1. next' \in 1..(N + 1)
    BY <1>0, SpoolAssumption
  <2>2. /\ pending' \subseteq Seen' /\ rejected' \subseteq Seen' /\ acked' \subseteq Seen'
        /\ net' \subseteq Seen' /\ stored' \subseteq Seen'
    BY <1>1 DEF SpoolInv, SpoolTypes
  <2>3. sending' \in 0..(next' - 1)
    <3>1. 0 \in 0..(next - 1) /\ sending \in 0..(next - 1)
      BY <1>0 DEF SpoolInv, SpoolTypes
    <3> QED BY <3>1, <1>1
  <2>4. up' \in BOOLEAN /\ (answer' # None => sending' # 0)
    BY DEF SpoolInv, SpoolTypes
  <2> QED BY <2>1, <2>2, <2>3, <2>4, <1>2 DEF SpoolTypes
<1>4. NothingLost'
  BY DEF SpoolInv, NothingLost, Subj
<1>5. NewestKept'
  <2> SUFFICES ASSUME NEW i \in dropped'.bytes, i \notin Invalid
               PROVE  \E j \in (i + 1)..(next' - 1) : ScopeOf[j] = ScopeOf[i]
    BY DEF NewestKept
  <2>1. PICK j \in (i + 1)..(next - 1) : ScopeOf[j] = ScopeOf[i]
    BY DEF SpoolInv, NewestKept
  <2>2. i \in Nat
    BY <1>1 DEF SpoolInv, SpoolTypes
  <2>3. j \in (i + 1)..(next' - 1)
    BY <2>1, <2>2, <1>0, SeenGrows
  <2> QED BY <2>1, <2>3
<1>6. RejectedInvalid'
  BY DEF SpoolInv, RejectedInvalid
<1>7. AnswerTrue'
  BY DEF SpoolInv, AnswerTrue, Subj, None
<1>8. OneDirectory'
  BY <1>0 DEF SpoolInv, OneDirectory, SpoolTypes
<1> QED BY <1>3, <1>4, <1>5, <1>6, <1>7, <1>8 DEF SpoolInv

LEMMA PutFailsStep == ASSUME SpoolInv, PutFails PROVE SpoolInv'
<1>1. /\ next <= N /\ next' = next + 1 /\ pending' \in {pending, pending \cup {next}}
      /\ UNCHANGED <<rejected, acked, dropped, net, stored, gone, up, sending, answer, backoff>>
  BY DEF PutFails, pass, journal
<1>2. backoff' \subseteq Scopes \cup {All}
  BY <1>1 DEF SpoolInv, SpoolTypes
<1>3. /\ up' \in {up, FALSE}
      /\ (sending' = sending /\ answer' = answer) \/ (sending' = 0 /\ answer' = None)
      /\ UNCHANGED <<rejected, acked, dropped, net, stored, gone>>
  BY <1>1
<1> QED BY <1>1, <1>2, <1>3, UnackedStep

LEMMA StartPassStep == ASSUME SpoolInv, StartPass PROVE SpoolInv'
<1>1. /\ Enforced(pending, rejected) /\ up
      /\ UNCHANGED <<next, acked, up, sending, answer, backoff, net, stored, gone>>
  BY DEF StartPass, journal
<1>2. next' \in {next, next + 1} /\ next' \in 1..(N + 1) /\ pending \subseteq 1..(next' - 1)
  BY <1>1 DEF SpoolInv, SpoolTypes, Seen
<1>3. pending \cap rejected = {}
  BY <1>1 DEF SpoolInv, OneDirectory
<1> QED BY <1>1, <1>2, <1>3, EnforceStep

LEMMA NextEntryStep == ASSUME SpoolInv, NextEntry PROVE SpoolInv'
<1>1. /\ sending' = 0 \/ sending' \in pending
      /\ net' \subseteq net \cup pending
      /\ UNCHANGED <<pending, rejected, next, acked, dropped, up, stored, gone, answer, backoff>>
      /\ sending = 0
  BY DEF NextEntry, spool
<1>2. answer = None /\ answer' = None
  BY <1>1 DEF SpoolInv, SpoolTypes
<1>3. sending' \in 0..(next - 1) /\ net' \subseteq Seen /\ backoff' \subseteq Scopes \cup {All}
  <2>1. 0 \in 0..(next - 1) /\ Seen \subseteq 0..(next - 1)
    BY SpoolFacts DEF SpoolInv, Seen
  <2> QED BY <1>1, <2>1 DEF SpoolInv, SpoolTypes
<1>4. AnswerTrue'
  BY <1>2 DEF AnswerTrue, None
<1> QED BY <1>1, <1>2, <1>3, <1>4, QuietStep

\* The other steps that touch neither the files nor the journal.
LEMMA BodyFailsStep ==
  ASSUME SpoolInv, BodyFails \/ Age
  PROVE  SpoolInv'
<1>1. UNCHANGED <<pending, rejected, next, acked, dropped, up, stored, gone, answer, backoff, sending, net>>
  BY DEF BodyFails, Age, spool, pass, journal
<1> QED BY <1>1 DEF SpoolInv, SpoolTypes, Seen, NothingLost, NewestKept, AnswerTrue, RejectedInvalid,
        OneDirectory, Subj

LEMMA NoAnswerStep ==
  ASSUME SpoolInv, NoAnswer \/ BackoffEnds
  PROVE  SpoolInv'
<1>1. /\ UNCHANGED <<pending, rejected, next, acked, dropped, up, stored, gone, answer, net>>
      /\ backoff' \subseteq backoff \cup {All}
      /\ sending' = sending \/ (sending' = 0 /\ answer = None)
  BY DEF NoAnswer, BackoffEnds, spool, journal
<1>2. sending' \in 0..(next - 1) /\ backoff' \subseteq Scopes \cup {All} /\ net' \subseteq Seen
  <2>1. 0 \in 0..(next - 1)
    BY SpoolFacts DEF SpoolInv
  <2> QED BY <1>1, <2>1 DEF SpoolInv, SpoolTypes
<1>3. (answer' # None => sending' # 0) /\ AnswerTrue'
  BY <1>1 DEF SpoolInv, SpoolTypes, AnswerTrue, Subj, None
<1> QED BY <1>1, <1>2, <1>3, QuietStep

\* What the sender does with an answer, by its class.
LEMMA ClassRule ==
  /\ \A a : Classify(a) = "delete" <=> a \in {"applied", "duplicate"}
  /\ \A a : Classify(a) = "reject" <=> a = "schema"
  /\ \A a : Classify(a) = "erased" <=> a = "erased_subject"
  /\ \A a : Classify(a) = "scope" <=> a = "unknown_subject"
  /\ \A a : Classify(a) \in {"delete", "reject", "erased", "scope", "retry"}
BY DEF Classify

LEMMA AnsweredStep == ASSUME SpoolInv, Answered PROVE SpoolInv'
<1> DEFINE i == sending
           act == Classify(answer)
<1>0. /\ up /\ sending # 0 /\ answer # None /\ sending' = 0 /\ answer' = None
      /\ UNCHANGED <<next, acked, up, net, stored, gone>>
  BY DEF Answered, journal
<1>1. i \in Seen /\ i \in Ids /\ ScopeOf[i] \in Scopes /\ 0 \in 0..(next - 1) /\ next \in Nat
  <2>1. i \in Seen /\ 0 \in 0..(next - 1) /\ next \in Nat
    BY <1>0, SpoolFacts DEF SpoolInv, SpoolTypes, Seen
  <2> QED BY <2>1, SpoolFacts DEF SpoolInv
<1>2. backoff' \subseteq Scopes \cup {All}
  <2>1. backoff' \subseteq backoff \cup {ScopeOf[i], All}
    <3>1. backoff' = CASE act \in {"delete", "reject"} -> backoff \ {ScopeOf[i]}
                        [] act = "scope" -> backoff \cup {ScopeOf[i]}
                        [] act = "retry" -> backoff \cup {All} [] OTHER -> backoff
      BY DEF Answered
    <3> HIDE DEF act
    <3> QED BY <3>1
  <2> QED BY <2>1, <1>1 DEF SpoolInv, SpoolTypes
<1>3. AnswerTrue'
  BY <1>0 DEF AnswerTrue, None
<1>4. CASE act = "delete"
  <2>1. pending' = pending \ {i} /\ rejected' = rejected /\ dropped' = dropped
    BY <1>4 DEF Answered
  <2>2. i \in stored \/ Subj(i) \in gone
    BY <1>4, ClassRule DEF SpoolInv, AnswerTrue
  <2>3. NothingLost'
    BY <2>1, <2>2, <1>0 DEF SpoolInv, NothingLost, Subj
  <2> QED BY <2>1, <2>3, <1>0, <1>1, <1>2, <1>3
          DEF SpoolInv, SpoolTypes, Seen, NewestKept, RejectedInvalid, OneDirectory
<1>5. CASE act = "reject"
  <2>1. pending' = pending \ {i} /\ rejected' = rejected \cup {i} /\ dropped' = dropped
    BY <1>5 DEF Answered
  <2>2. i \in Invalid
    BY <1>5, ClassRule DEF SpoolInv, AnswerTrue
  <2>3. NothingLost' /\ RejectedInvalid' /\ OneDirectory'
    BY <2>1, <2>2, <1>0 DEF SpoolInv, NothingLost, Subj, RejectedInvalid, OneDirectory
  <2> QED BY <2>1, <2>3, <1>0, <1>1, <1>2, <1>3 DEF SpoolInv, SpoolTypes, Seen, NewestKept
<1>6. CASE act = "erased"
  <2> DEFINE gonefiles == Purge(Subj(i))
  <2>1. /\ pending' = pending \ gonefiles /\ rejected' = rejected \ gonefiles
        /\ dropped' = [dropped EXCEPT !.erased = @ \cup gonefiles]
    BY <1>6 DEF Answered
  <2>2. gonefiles \subseteq Seen
    BY DEF Purge, SpoolInv, SpoolTypes
  <2> HIDE DEF gonefiles
  <2>3. /\ dropped'.aged = dropped.aged /\ dropped'.bytes = dropped.bytes
        /\ dropped'.erased = dropped.erased \cup gonefiles
        /\ dropped' \in [aged : SUBSET Seen', bytes : SUBSET Seen', erased : SUBSET Seen']
    <3>1. dropped \in [aged : SUBSET Seen, bytes : SUBSET Seen, erased : SUBSET Seen]
      BY DEF SpoolInv, SpoolTypes
    <3>2. Seen' = Seen
      BY <1>0 DEF Seen
    <3>3. dropped' = [aged |-> dropped.aged, bytes |-> dropped.bytes, erased |-> dropped.erased \cup gonefiles]
      BY <3>1, <2>1
    <3> QED BY <3>1, <3>2, <3>3, <2>2
  <2>4. NothingLost'
    BY <2>1, <2>3, <1>0 DEF SpoolInv, NothingLost, Subj
  <2>5. RejectedInvalid' /\ OneDirectory'
    BY <2>1, <1>0 DEF SpoolInv, RejectedInvalid, OneDirectory
  <2>6. NewestKept'
    BY <2>3, <1>0 DEF SpoolInv, NewestKept
  <2>7. SpoolTypes'
    BY <2>1, <2>3, <1>0, <1>1, <1>2 DEF SpoolInv, SpoolTypes, Seen
  <2> QED BY <2>4, <2>5, <2>6, <2>7, <1>3 DEF SpoolInv
<1>7. CASE act \in {"scope", "retry"}
  <2>1. pending' = pending /\ rejected' = rejected /\ dropped' = dropped
    BY <1>7 DEF Answered
  <2>2. net' \subseteq Seen /\ sending' \in 0..(next - 1) /\ (answer' # None => sending' # 0)
    BY <1>0, <1>1 DEF SpoolInv, SpoolTypes
  <2> QED BY <2>1, <2>2, <1>0, <1>2, <1>3, QuietStep
<1> QED BY <1>4, <1>5, <1>6, <1>7, ClassRule

LEMMA AnsweredFileStaysStep == ASSUME SpoolInv, AnsweredFileStays PROVE SpoolInv'
<1>1. /\ UNCHANGED <<pending, rejected, next, acked, dropped, up, stored, gone, net>>
      /\ sending' = 0 /\ answer' = None /\ backoff' \subseteq backoff
  BY DEF AnsweredFileStays, journal
<1>2. sending' \in 0..(next - 1) /\ backoff' \subseteq Scopes \cup {All} /\ net' \subseteq Seen
  <2>1. 0 \in 0..(next - 1)
    BY SpoolFacts DEF SpoolInv
  <2> QED BY <1>1, <2>1 DEF SpoolInv, SpoolTypes
<1>3. AnswerTrue'
  BY <1>1 DEF AnswerTrue, None
<1> QED BY <1>1, <1>2, <1>3, QuietStep

LEMMA HandleStep == ASSUME SpoolInv, NEW i \in Ids, Handle(i) PROVE SpoolInv'
<1>1. /\ UNCHANGED <<pending, rejected, next, acked, dropped, up, sending, backoff, gone>>
      /\ i \in net /\ net' \subseteq net
      /\ stored' = IF AnswerTo(i) = "applied" THEN stored \cup {i} ELSE stored
      /\ answer' = IF sending = i THEN AnswerTo(i) ELSE answer
  BY DEF Handle, spool
<1>2. i \in Seen /\ i # 0 /\ stored' \subseteq Seen /\ stored \subseteq stored'
  BY <1>1 DEF SpoolInv, SpoolTypes, Seen
<1>3. NothingLost'
  BY <1>1, <1>2 DEF SpoolInv, NothingLost, Subj
<1>4. AnswerTrue'
  <2>1. CASE sending = i
    BY <2>1, <1>1 DEF AnswerTrue, AnswerTo
  <2>2. CASE sending # i
    BY <2>2, <1>1, <1>2 DEF SpoolInv, AnswerTrue, Subj
  <2> QED BY <2>1, <2>2
<1>5. SpoolTypes'
  <2>1. answer' # None => sending' # 0
    BY <1>1, <1>2 DEF SpoolInv, SpoolTypes
  <2> QED BY <2>1, <1>1, <1>2 DEF SpoolInv, SpoolTypes, Seen
<1> QED BY <1>1, <1>3, <1>4, <1>5 DEF SpoolInv, NewestKept, RejectedInvalid, OneDirectory

LEMMA UnavailableStep == ASSUME SpoolInv, NEW i \in Ids, Unavailable(i) PROVE SpoolInv'
<1>1. /\ UNCHANGED <<pending, rejected, next, acked, dropped, up, sending, backoff, stored, gone>>
      /\ i \in net /\ net' \subseteq net
      /\ answer' \in (IF sending = i THEN {"unavailable", "unauthenticated"} ELSE {answer})
  BY DEF Unavailable, spool
<1>2. i # 0 /\ net' \subseteq Seen /\ sending' \in 0..(next - 1) /\ backoff' \subseteq Scopes \cup {All}
  BY <1>1 DEF SpoolInv, SpoolTypes, Seen
<1>3. answer' # None => sending' # 0
  BY <1>1, <1>2 DEF SpoolInv, SpoolTypes
<1>4. AnswerTrue'
  <2>1. CASE sending = i
    <3>1. answer' \in {"unavailable", "unauthenticated"}
      BY <2>1, <1>1
    <3> QED BY <3>1 DEF AnswerTrue
  <2>2. CASE sending # i
    BY <2>2, <1>1 DEF SpoolInv, AnswerTrue, Subj
  <2> QED BY <2>1, <2>2
<1> QED BY <1>1, <1>2, <1>3, <1>4, QuietStep

LEMMA EraseSubjectStep == ASSUME SpoolInv, NEW s \in Subjects, EraseSubject(s) PROVE SpoolInv'
<1>1. /\ UNCHANGED <<pending, rejected, next, acked, dropped, up, sending, answer, backoff, net>>
      /\ gone' = gone \cup {s} /\ stored' = {i \in stored : Subj(i) # s}
  BY DEF EraseSubject, spool, pass
<1>2. NothingLost'
  BY <1>1 DEF SpoolInv, NothingLost, Subj
<1>3. AnswerTrue'
  BY <1>1 DEF SpoolInv, AnswerTrue, Subj
<1> QED BY <1>1, <1>2, <1>3 DEF SpoolInv, SpoolTypes, Seen, NewestKept, RejectedInvalid, OneDirectory

LEMMA CrashStep == ASSUME SpoolInv, Crash PROVE SpoolInv'
<1>0. /\ up' = FALSE /\ sending' = 0 /\ answer' = None /\ backoff' = {}
      /\ UNCHANGED <<acked, dropped, net, stored, gone>> /\ CrashImage
      /\ next \in Nat /\ 0 \in 0..(next - 1)
  <2>1. next \in Nat /\ 0 \in 0..(next - 1)
    BY SpoolFacts DEF SpoolInv
  <2> QED BY <2>1 DEF Crash, journal
<1>1. CASE next <= N /\ next' = next + 1 /\ pending' = pending \cup {next} /\ rejected' = rejected
  BY <1>0, <1>1, UnackedStep
<1>2. CASE /\ next' = next /\ pending' \subseteq pending /\ rejected \subseteq rejected'
           /\ rejected' \subseteq Seen \cap (rejected \cup Invalid)
           /\ \A j \in pending \ pending' : j \in rejected' \cup stored \/ Subj(j) \in gone
  <2>1. NothingLost'
    BY <1>0, <1>2 DEF SpoolInv, NothingLost, Subj
  <2>2. RejectedInvalid' /\ OneDirectory' /\ AnswerTrue' /\ NewestKept'
    BY <1>0, <1>2 DEF SpoolInv, RejectedInvalid, OneDirectory, AnswerTrue, NewestKept, None
  <2>3. SpoolTypes'
    BY <1>0, <1>2 DEF SpoolInv, SpoolTypes, Seen, None
  <2> QED BY <2>1, <2>2, <2>3 DEF SpoolInv
<1>3. CASE UNCHANGED <<pending, rejected, next>>
  BY <1>3, <1>2 DEF SpoolInv, SpoolTypes
<1>4. CASE sending # 0 /\ answer # None /\ next' = next /\ Classify(answer) = "delete"
           /\ pending' = pending \ {sending} /\ rejected' = rejected
  <2>1. sending \in stored \/ Subj(sending) \in gone
    BY <1>4, ClassRule DEF SpoolInv, AnswerTrue
  <2> QED BY <2>1, <1>4, <1>2 DEF SpoolInv, SpoolTypes
<1>5. CASE sending # 0 /\ answer # None /\ next' = next /\ Classify(answer) = "reject"
           /\ rejected' = rejected \cup {sending} /\ pending' \in {pending, pending \ {sending}}
  <2>1. sending \in Invalid
    BY <1>5, ClassRule DEF SpoolInv, AnswerTrue
  <2>2. sending \in Seen
    BY <1>5, <1>0 DEF SpoolInv, SpoolTypes, Seen
  <2>3. rejected \subseteq Seen
    BY DEF SpoolInv, SpoolTypes
  <2> QED BY <2>1, <2>2, <2>3, <1>5, <1>2
<1> QED BY <1>0, <1>1, <1>3, <1>4, <1>5 DEF CrashImage

LEMMA RestartStep == ASSUME SpoolInv, Restart PROVE SpoolInv'
<1>1. /\ up' = TRUE /\ pending' = pending \ rejected
      /\ UNCHANGED <<rejected, next, acked, dropped, sending, answer, backoff, net, stored, gone>>
  BY DEF Restart, pass, journal
<1> QED BY <1>1 DEF SpoolInv, SpoolTypes, Seen, NothingLost, NewestKept, AnswerTrue, RejectedInvalid,
        OneDirectory, Subj

LEMMA SpoolStep == SpoolInv /\ [Next]_vars => SpoolInv'
<1> SUFFICES ASSUME SpoolInv, [Next]_vars PROVE SpoolInv'
  OBVIOUS
<1>1. CASE UNCHANGED vars
  BY <1>1 DEF vars, spool, pass, journal, SpoolInv, SpoolTypes, Seen, NothingLost, NewestKept, AnswerTrue,
     RejectedInvalid, OneDirectory, Subj
<1>2. CASE \E i \in Ids : Handle(i) \/ Unavailable(i)
  BY <1>2, HandleStep, UnavailableStep
<1>3. CASE \E s \in Subjects : EraseSubject(s)
  BY <1>3, EraseSubjectStep
<1> QED
  BY <1>1, <1>2, <1>3, PutStep, PutFailsStep, StartPassStep, NextEntryStep, BodyFailsStep, AnsweredStep,
     AnsweredFileStaysStep, NoAnswerStep, CrashStep, RestartStep DEF Next

\* In every reachable state the spool's invariant holds.
THEOREM SpoolInvHolds == Spec => []SpoolInv
BY SpoolInit, SpoolStep, PTL DEF Spec

\* Nothing Put accepted is lost uncounted and room is never made at the cost
\* of a scope's newest snapshot, for any number of snapshots, scopes and
\* faults (spool.go, bounds.go, sender.go).
THEOREM SpoolIsSafe == Spec => []SpoolSafe
<1>1. SpoolInv => SpoolSafe
  BY SpoolFacts, SpoolAssumption DEF SpoolInv, SpoolSafe, TypeOK, SpoolTypes, Seen, Ids
<1> QED BY <1>1, SpoolInvHolds, PTL

-----------------------------------------------------------------------------
(* The order of a pass. *)

\* The oldest file of i's scope is the same for all of its files.
LEMMA FirstRule ==
  ASSUME NEW P \in SUBSET Nat
  PROVE  /\ \A i \in P : First(P, i) \in Nat
         /\ \A i, j \in P : ScopeOf[i] = ScopeOf[j] => First(P, i) = First(P, j)
<1> DEFINE least(i, j) == j \in P /\ ScopeOf[j] = ScopeOf[i] /\ \A k \in P : ScopeOf[k] = ScopeOf[i] => j <= k
<1>1. ASSUME NEW i \in P PROVE least(i, First(P, i))
  <2> DEFINE S == {j \in P : ScopeOf[j] = ScopeOf[i]}
  <2>1. S \in SUBSET Nat /\ S # {}
    OBVIOUS
  <2> HIDE DEF S
  <2>2. PICK x \in S : \A y \in S : x <= y
    BY <2>1, LeastExists
  <2>3. x \in P /\ ScopeOf[x] = ScopeOf[i] /\ \A k \in P : ScopeOf[k] = ScopeOf[i] => x <= k
    BY <2>2 DEF S
  <2> QED BY <2>3 DEF First
<1>2. ASSUME NEW i \in P, NEW j \in P, ScopeOf[i] = ScopeOf[j] PROVE First(P, i) = First(P, j)
  <2>1. least(i, First(P, i)) /\ least(j, First(P, j))
    BY <1>1
  <2>2. First(P, i) <= First(P, j) /\ First(P, j) <= First(P, i)
    BY <2>1, <1>2
  <2>3. First(P, i) \in Nat /\ First(P, j) \in Nat
    BY <2>1
  <2> QED BY <2>2, <2>3
<1> QED BY <1>1, <1>2

\* The files before one file are fewer than those before a later one.
LEMMA BeforeRule ==
  ASSUME NEW P \in SUBSET Nat, IsFiniteSet(P)
  PROVE  /\ \A i \in P : Cardinality(Before(P, i)) \in 0..(Cardinality(P) - 1)
         /\ \A i, j \in P : i \in Before(P, j) => Cardinality(Before(P, i)) < Cardinality(Before(P, j))
         /\ \A i, j \in P : i = j \/ i \in Before(P, j) \/ j \in Before(P, i)
<1>0. \A i \in P : First(P, i) \in Nat /\ i \in Nat
  BY FirstRule
<1>1. \A i, j \in P : j \in Before(P, i) <=> First(P, j) < First(P, i) \/ (First(P, j) = First(P, i) /\ j < i)
  BY DEF Before
<1>2. \A i \in P : Before(P, i) \subseteq P
  BY DEF Before
<1>3. \A i \in P : i \notin Before(P, i)
  BY <1>0, <1>1
<1>4. \A i, j \in P : i \in Before(P, j) => Before(P, i) \subseteq Before(P, j)
  <2> SUFFICES ASSUME NEW i \in P, NEW j \in P, i \in Before(P, j), NEW k \in Before(P, i)
               PROVE  k \in Before(P, j)
    OBVIOUS
  <2>1. k \in P
    BY <1>2
  <2> QED BY <2>1, <1>0, <1>1
<1>5. \A i, j \in P : i = j \/ i \in Before(P, j) \/ j \in Before(P, i)
  BY <1>0, <1>1
<1>6. \A i \in P : IsFiniteSet(Before(P, i)) /\ Cardinality(Before(P, i)) \in Nat
  <2> SUFFICES ASSUME NEW i \in P PROVE IsFiniteSet(Before(P, i)) /\ Cardinality(Before(P, i)) \in Nat
    OBVIOUS
  <2>1. Before(P, i) \in SUBSET P
    BY <1>2
  <2>2. IsFiniteSet(Before(P, i))
    BY <2>1, FS_Subset
  <2> QED BY <2>2, FS_CardinalityType
<1>7. ASSUME NEW i \in P PROVE Cardinality(Before(P, i)) \in 0..(Cardinality(P) - 1)
  <2>1. Before(P, i) \in SUBSET P /\ Before(P, i) # P
    BY <1>2, <1>3
  <2>2. Cardinality(Before(P, i)) <= Cardinality(P) /\ Cardinality(Before(P, i)) # Cardinality(P)
    BY <2>1, FS_Subset
  <2>3. Cardinality(P) \in Nat
    BY FS_CardinalityType
  <2> QED BY <2>2, <2>3, <1>6
<1>8. ASSUME NEW i \in P, NEW j \in P, i \in Before(P, j)
      PROVE  Cardinality(Before(P, i)) < Cardinality(Before(P, j))
  <2>1. Before(P, i) \in SUBSET Before(P, j) /\ Before(P, i) # Before(P, j)
    BY <1>4, <1>3, <1>8
  <2>2. /\ Cardinality(Before(P, i)) <= Cardinality(Before(P, j))
        /\ Cardinality(Before(P, i)) # Cardinality(Before(P, j))
    BY <2>1, <1>6, FS_Subset
  <2> QED BY <2>2, <1>6
<1> QED BY <1>5, <1>7, <1>8

\* The listing of a pass holds every file, and no file ahead of an older one
\* of its scope.
LEMMA GroupedRule ==
  ASSUME NEW P \in SUBSET Nat, IsFiniteSet(P)
  PROVE  /\ Cardinality(P) \in Nat
         /\ Grouped(P) \in [1..Cardinality(P) -> P]
         /\ \A k \in 1..Cardinality(P), j \in P : Older(j, Grouped(P)[k]) =>
              \E m \in 1..(k - 1) : Grouped(P)[m] = j
<1> DEFINE n == Cardinality(P)
           rank == [i \in P |-> Cardinality(Before(P, i)) + 1]
<1>0. n \in Nat
  BY FS_CardinalityType
<1>1. rank \in [P -> 1..n]
  BY BeforeRule, <1>0
<1>2. \A i, j \in P : rank[i] = rank[j] => i = j
  <2> SUFFICES ASSUME NEW i \in P, NEW j \in P, rank[i] = rank[j] PROVE i = j
    OBVIOUS
  <2>1. Cardinality(Before(P, i)) \in Nat /\ Cardinality(Before(P, j)) \in Nat
    BY BeforeRule, <1>0
  <2>2. Cardinality(Before(P, i)) = Cardinality(Before(P, j))
    BY <2>1
  <2> QED BY <2>1, <2>2, BeforeRule
<1>3. rank \in Injection(P, 1..n)
  <2> HIDE DEF rank, n
  <2> QED BY <1>1, <1>2 DEF Injection, IsInjective
<1>4. \A m \in 1..n : \E i \in P : rank[i] = m
  <2>1. IsFiniteSet(1..n) /\ Cardinality(1..n) = n
    BY <1>0, FS_Interval
  <2>2. rank \in Surjection(P, 1..n)
    <3> HIDE DEF rank
    <3> QED BY <1>3, <2>1, FS_Injection
  <2> HIDE DEF rank, n
  <2> QED BY <2>2 DEF Surjection
<1>5. \A m \in 1..n : Grouped(P)[m] \in P /\ rank[Grouped(P)[m]] = m
  <2> SUFFICES ASSUME NEW m \in 1..n PROVE Grouped(P)[m] \in P /\ rank[Grouped(P)[m]] = m
    OBVIOUS
  <2>1. PICK i \in P : rank[i] = m
    BY <1>4
  <2>2. Cardinality(Before(P, i)) = m - 1
    BY <2>1, BeforeRule, <1>0
  <2>3. Grouped(P)[m] = CHOOSE x \in P : Cardinality(Before(P, x)) = m - 1
    BY DEF Grouped
  <2>4. Grouped(P)[m] \in P /\ Cardinality(Before(P, Grouped(P)[m])) = m - 1
    BY <2>2, <2>3
  <2> QED BY <2>4, <1>0
<1>6. Grouped(P) \in [1..n -> P]
  <2>1. Grouped(P) = [m \in 1..n |-> Grouped(P)[m]]
    BY DEF Grouped
  <2> HIDE DEF n
  <2> QED BY <2>1, <1>5
<1>8. \A x \in P : Cardinality(Before(P, x)) \in Nat
  BY BeforeRule, <1>0
<1>7. ASSUME NEW k \in 1..n, NEW j \in P, Older(j, Grouped(P)[k])
      PROVE  \E m \in 1..(k - 1) : Grouped(P)[m] = j
  <2> DEFINE i == Grouped(P)[k]
  <2>1. i \in P /\ rank[i] = k
    BY <1>5
  <2>2. j \in Before(P, i)
    <3>1. First(P, j) = First(P, i) /\ j < i
      BY <2>1, <1>7, FirstRule DEF Older
    <3> QED BY <3>1 DEF Before
  <2>3. Cardinality(Before(P, j)) < Cardinality(Before(P, i))
    BY <2>1, <2>2, BeforeRule
  <2>4. Cardinality(Before(P, j)) \in Nat /\ Cardinality(Before(P, i)) \in Nat
    BY <2>1, <1>8
  <2>5. rank[j] \in 1..(k - 1)
    BY <2>1, <2>3, <2>4
  <2>6. rank[j] \in 1..n
    BY <1>1
  <2>7. rank[Grouped(P)[rank[j]]] = rank[j] /\ Grouped(P)[rank[j]] \in P
    BY <1>5, <2>6
  <2>8. Grouped(P)[rank[j]] = j
    BY <1>2, <2>7
  <2> QED BY <2>5, <2>8
<1> QED BY <1>0, <1>6, <1>7

\* A listing of observed snapshots stays one.
LEMMA SeqGrows ==
  ASSUME NEW S, NEW T, S \subseteq T, NEW q \in Seq(S)
  PROVE  q \in Seq(T)
<1>1. q \in [1..Len(q) -> T] /\ Len(q) \in Nat
  OBVIOUS
<1> QED BY <1>1

\* A function on 1..n is a sequence of length n.
LEMMA SeqOfFcn ==
  ASSUME NEW S, NEW T, S \subseteq T, NEW n \in Nat, NEW q \in [1..n -> S]
  PROVE  Len(q) = n /\ q \in Seq(T)
<1>1. q \in [1..n -> T]
  OBVIOUS
<1>2. q \in Seq(T)
  BY <1>1
<1>3. DOMAIN q = 1..n
  OBVIOUS
<1> QED BY <1>2, <1>3

\* Finitely many snapshots were observed.
LEMMA SeenFinite ==
  ASSUME NEW n \in Nat
  PROVE  IsFiniteSet(1..(n - 1)) /\ 1..(n - 1) \in SUBSET Nat
<1>1. 1 \in Int /\ n - 1 \in Int
  OBVIOUS
<1>2. IsFiniteSet(1..(n - 1))
  BY <1>1, FS_Interval
<1>3. 1..(n - 1) \in SUBSET Nat
  OBVIOUS
<1> QED BY <1>2, <1>3

LEMMA OrderInit == Init => SentSettled /\ TodoSettled
BY DEF Init, SentSettled, TodoSettled

\* A step that sends nothing keeps the order: the pass goes on with what it
\* has, no scope it left is taken up again, and an entry whose answer is dealt
\* with is settled, is gone or has its scope left.
LEMMA OrderKept ==
  ASSUME OrderInv, SpoolTypes', net' \subseteq net,
         pending' \subseteq pending \cup {next}, next' \in {next, next + 1},
         \A j \in Seen : Settled(j) => Settled(j)',
         \/ todo' = <<>>
         \/ /\ todo' = todo /\ left \subseteq left'
            /\ \/ sending' = sending \/ ScopeOf[sending] \in left'
               \/ \A j \in pending' : j = sending => Settled(j)'
  PROVE  SentSettled' /\ TodoSettled'
<1>0. next \in Nat /\ next' \in Nat /\ next <= next' /\ Seen \subseteq Seen' /\ next \notin Seen /\ Seen \subseteq Nat
  <2>1. next \in Nat /\ next >= 1
    BY SpoolFacts DEF OrderInv, SpoolInv
  <2>2. next' \in Nat /\ next <= next'
    BY <2>1, next' \in {next, next + 1}
  <2>3. Seen \subseteq Seen'
    BY <2>1, <2>2, SeenGrows DEF Seen
  <2>4. next \notin Seen /\ Seen \subseteq Nat
    BY <2>1 DEF Seen
  <2> QED BY <2>1, <2>2, <2>3, <2>4
<1>1. ASSUME NEW i \in Seen, NEW j \in pending', Older(j, i) PROVE j \in pending /\ j \in Seen
  <2>1. j # next
    BY <1>0, <1>1 DEF Older, Seen
  <2> QED BY <2>1 DEF OrderInv, SpoolInv, SpoolTypes
<1>2. SentSettled'
  <2> SUFFICES ASSUME NEW i \in net', NEW j \in pending', Older(j, i) PROVE Settled(j)'
    BY DEF SentSettled, Older
  <2>1. i \in net /\ i \in Seen
    BY DEF OrderInv, SpoolInv, SpoolTypes
  <2>2. j \in pending /\ j \in Seen
    BY <2>1, <1>1
  <2>3. Settled(j)
    BY <2>1, <2>2 DEF OrderInv, SentSettled
  <2> QED BY <2>2, <2>3
<1>3. CASE todo' = <<>>
  <2>1. TodoSettled'
    BY <1>3 DEF TodoSettled
  <2> QED BY <2>1, <1>2
<1>4. CASE /\ todo' = todo /\ left \subseteq left'
           /\ \/ sending' = sending \/ ScopeOf[sending] \in left'
              \/ \A j \in pending' : j = sending => Settled(j)'
  <2>0. todo \in Seq(Seen)
    BY DEF OrderInv, TodoSettled
  <2>1. todo' \in Seq(Seen')
    BY <1>4, <1>0, <2>0, SeqGrows
  <2>2. ASSUME NEW k \in 1..Len(todo), ScopeOf[todo[k]] \notin left', NEW j \in pending', Older(j, todo[k])
        PROVE  Settled(j)' \/ j = sending' \/ \E m \in 1..(k - 1) : todo[m] = j
    <3>0. todo[k] \in Seen
      BY <2>0
    <3>1. j \in pending /\ j \in Seen
      BY <3>0, <2>2, <1>1
    <3>2. Settled(j) \/ j = sending \/ \E m \in 1..(k - 1) : todo[m] = j
      BY <1>4, <2>2, <3>1 DEF OrderInv, TodoSettled
    <3>3. CASE j = sending
      BY <3>3, <2>2, <1>4 DEF Older
    <3> QED BY <3>1, <3>2, <3>3
  <2>3. TodoSettled'
    BY <2>1, <2>2, <1>4 DEF TodoSettled, Older
  <2> QED BY <2>3, <1>2
<1> QED BY <1>3, <1>4

LEMMA PutOrder == ASSUME OrderInv, SpoolTypes', Put \/ PutFails PROVE SentSettled' /\ TodoSettled'
<1>1. UNCHANGED <<stored, gone, unread, net, todo, left, sending>> /\ next' = next + 1
  BY DEF Put, PutFails, pass, journal
<1>2. pending' \subseteq pending \cup {next}
  BY DEF Put, PutFails, Enforced
<1>3. \A j \in Seen : Settled(j) => Settled(j)'
  BY <1>1 DEF Settled, Subj
<1> QED BY <1>1, <1>2, <1>3, OrderKept

LEMMA StartPassOrder == ASSUME OrderInv, SpoolTypes', StartPass PROVE SentSettled' /\ TodoSettled'
<1>1. UNCHANGED <<stored, gone, unread, net, next, sending, backoff>> /\ todo = <<>> /\ sending = 0
  BY DEF StartPass, journal, Idle
<1>2. pending' \subseteq pending
  BY DEF StartPass, Enforced
<1>3. \A j \in Seen : Settled(j) => Settled(j)'
  BY <1>1 DEF Settled, Subj
<1>4. CASE All \in backoff
  BY <1>1, <1>2, <1>3, <1>4, OrderKept DEF StartPass
<1>5. CASE All \notin backoff
  <2>1. todo' = Grouped(pending')
    BY <1>5 DEF StartPass
  <2>2. pending' \in SUBSET Nat /\ IsFiniteSet(pending') /\ pending' \subseteq Seen'
    <3>1. pending' \in SUBSET Seen' /\ Seen' \in SUBSET Nat /\ IsFiniteSet(Seen')
      <4>1. next' \in Nat /\ next' >= 1 /\ pending' \subseteq Seen'
        BY <1>1, SpoolFacts DEF OrderInv, SpoolInv, SpoolTypes
      <4>2. Seen' = 1..(next' - 1) /\ next' - 1 \in Int
        BY <4>1 DEF Seen
      <4>3. IsFiniteSet(1..(next' - 1)) /\ 1..(next' - 1) \in SUBSET Nat
        BY <4>1, SeenFinite
      <4> QED BY <4>1, <4>2, <4>3
    <3> HIDE DEF Seen
    <3> QED BY <3>1, FS_Subset
  <2> DEFINE c == Cardinality(pending')
  <2>3. /\ c \in Nat /\ todo' \in [1..c -> pending']
        /\ \A k \in 1..c, j \in pending' : Older(j, todo'[k]) => \E m \in 1..(k - 1) : todo'[m] = j
    BY <2>1, <2>2, GroupedRule
  <2> HIDE DEF c
  <2>4. Len(todo') = c /\ todo' \in Seq(Seen')
    BY <2>2, <2>3, SeqOfFcn
  <2>5. TodoSettled'
    BY <2>3, <2>4 DEF TodoSettled, Older
  <2>6. SentSettled'
    BY <1>1, <1>2 DEF OrderInv, SentSettled, Settled, Older, Subj
  <2> QED BY <2>5, <2>6
<1> QED BY <1>4, <1>5

\* What is left of a pass after its head.
LEMMA TailRule ==
  ASSUME NEW S, todo \in Seq(S), todo # <<>>
  PROVE  /\ Head(todo) = todo[1] /\ todo[1] \in S /\ Tail(todo) \in Seq(S)
         /\ Len(todo) \in Nat \ {0} /\ Len(Tail(todo)) = Len(todo) - 1
         /\ \A k \in 1..Len(Tail(todo)) : Tail(todo)[k] = todo[k + 1] /\ k + 1 \in 1..Len(todo)
OBVIOUS

\* The head is sent, or left out because its scope was left, its file has gone
\* or could not be read.
LEMMA HeadOrder ==
  ASSUME OrderInv, SpoolTypes', NextEntry \/ BodyFails
  PROVE  SentSettled' /\ TodoSettled'
<1> DEFINE i == todo[1]
<1>0. todo \in Seq(Seen) /\ todo # <<>> /\ sending = 0
  BY DEF OrderInv, TodoSettled, NextEntry, BodyFails
<1>1. /\ Head(todo) = i /\ i \in Seen /\ Tail(todo) \in Seq(Seen)
      /\ Len(todo) \in Nat \ {0} /\ Len(Tail(todo)) = Len(todo) - 1
      /\ \A k \in 1..Len(Tail(todo)) : Tail(todo)[k] = todo[k + 1] /\ k + 1 \in 1..Len(todo)
  BY <1>0, TailRule
<1>2. /\ todo' = Tail(todo) /\ UNCHANGED <<pending, next, stored, gone, left>> /\ unread \subseteq unread'
      /\ Seen' = Seen
  BY DEF NextEntry, BodyFails, spool, journal, Seen
<1>3. \A j \in Seen : Settled(j) => Settled(j)'
  BY <1>2 DEF Settled, Subj
<1>4. \/ i \in pending /\ ScopeOf[i] \notin left /\ sending' = i /\ net' = net \cup {i}
      \/ /\ net' = net /\ sending' = 0
         /\ ScopeOf[i] \in left \/ i \notin pending \/ i \in unread'
  BY <1>0, <1>1 DEF NextEntry, BodyFails, journal
<1>5. pending \subseteq Seen /\ net \subseteq Seen /\ 0 \notin Seen
  BY DEF OrderInv, SpoolInv, SpoolTypes, Seen
<1>6. ASSUME ScopeOf[i] \notin left, NEW j \in pending, Older(j, i) PROVE Settled(j)
  <2>1. 1 \in 1..Len(todo) /\ ~\E m \in 1..(1 - 1) : todo[m] = j
    BY <1>1
  <2>2. Settled(j) \/ j = sending \/ \E m \in 1..(1 - 1) : todo[m] = j
    BY <2>1, <1>6 DEF OrderInv, TodoSettled
  <2> QED BY <2>1, <2>2, <1>0, <1>5
<1>7. SentSettled'
  <2> SUFFICES ASSUME NEW x \in net', NEW j \in pending', Older(j, x) PROVE Settled(j)'
    BY DEF SentSettled, Older
  <2>1. j \in pending /\ j \in Seen
    BY <1>2, <1>5
  <2>2. CASE x \in net
    BY <2>1, <2>2, <1>3 DEF OrderInv, SentSettled
  <2>3. CASE x \notin net
    <3>1. x = i /\ ScopeOf[i] \notin left
      BY <2>3, <1>4
    <3> QED BY <3>1, <1>6, <2>1, <1>3
  <2> QED BY <2>2, <2>3
<1>8. TodoSettled'
  <2>1. todo' \in Seq(Seen')
    BY <1>1, <1>2
  <2>2. ASSUME NEW k \in 1..Len(todo'), ScopeOf[todo'[k]] \notin left', NEW j \in pending', Older(j, todo'[k])
        PROVE  Settled(j)' \/ j = sending' \/ \E m \in 1..(k - 1) : todo'[m] = j
    <3>1. todo'[k] = todo[k + 1] /\ k + 1 \in 1..Len(todo) /\ k \in Nat /\ k >= 1
      BY <1>1, <1>2
    <3>2. j \in pending /\ j \in Seen
      BY <1>2, <1>5
    <3>3. Settled(j) \/ j = sending \/ \E m \in 1..(k + 1 - 1) : todo[m] = j
      BY <3>1, <3>2, <2>2, <1>2 DEF OrderInv, TodoSettled
    <3>4. CASE Settled(j) \/ j = sending
      BY <3>4, <3>2, <1>0, <1>3, <1>5
    <3>5. CASE \E m \in 1..(k + 1 - 1) : todo[m] = j
      <4>1. PICK m \in 1..k : todo[m] = j
        BY <3>5, <3>1
      <4>2. CASE m = 1
        <5>1. j = i /\ ScopeOf[i] \notin left
          BY <4>1, <4>2, <3>1, <2>2, <1>2 DEF Older
        <5>2. sending' = i \/ i \in unread'
          BY <5>1, <1>4, <3>2
        <5> QED BY <5>1, <5>2 DEF Settled
      <4>3. CASE m # 1
        <5>1. m - 1 \in 1..(k - 1) /\ m - 1 \in 1..Len(Tail(todo))
          BY <4>3, <3>1, <1>1, <1>2
        <5>2. todo'[m - 1] = todo[m]
          BY <5>1, <1>1, <1>2
        <5> QED BY <5>1, <5>2, <4>1
      <4> QED BY <4>2, <4>3
    <3> QED BY <3>3, <3>4, <3>5
  <2> QED BY <2>1, <2>2 DEF TodoSettled, Older
<1> QED BY <1>7, <1>8

LEMMA AnsweredOrder ==
  ASSUME OrderInv, SpoolTypes', Answered \/ AnsweredFileStays
  PROVE  SentSettled' /\ TodoSettled'
<1> DEFINE act == Classify(answer)
<1>1. UNCHANGED <<stored, gone, unread, net, next>>
  BY DEF Answered, AnsweredFileStays, journal
<1>2. pending' \subseteq pending
  <2>1. CASE Answered
    <3>1. pending' = CASE act \in {"delete", "reject"} -> pending \ {sending}
                       [] act = "erased" -> pending \ Purge(Subj(sending)) [] OTHER -> pending
      BY <2>1 DEF Answered
    <3> HIDE DEF act
    <3> QED BY <3>1
  <2>2. CASE AnsweredFileStays
    BY <2>2 DEF AnsweredFileStays
  <2> QED BY <2>1, <2>2
<1>3. \A j : Settled(j) => Settled(j)'
  BY <1>1 DEF Settled, Subj
<1>4. left \subseteq left'
  <2>1. CASE Answered
    <3>1. left' = CASE act = "erased" -> left \cup {x \in Scopes : SubjectOf[x] = Subj(sending)}
                    [] act = "scope" -> left \cup {ScopeOf[sending]} [] OTHER -> left
      BY <2>1 DEF Answered
    <3> HIDE DEF act
    <3> QED BY <3>1
  <2>2. CASE AnsweredFileStays
    BY <2>2 DEF AnsweredFileStays
  <2> QED BY <2>1, <2>2
<1>5. sending # 0 /\ ScopeOf[sending] \in Scopes
  <2>1. sending # 0
    BY DEF Answered, AnsweredFileStays
  <2>2. sending \in Seen /\ Seen \subseteq Ids
    BY <2>1, SpoolFacts DEF OrderInv, SpoolInv, SpoolTypes, Seen
  <2> QED BY <2>1, <2>2, SpoolFacts DEF OrderInv, SpoolInv
<1>6. CASE act = "retry"
  <2>1. todo' = <<>>
    BY <1>6 DEF Answered, AnsweredFileStays
  <2> QED BY <2>1, <1>1, <1>2, <1>3, OrderKept
<1>7. CASE act \in {"delete", "reject"}
  <2>1. todo' = todo
    BY <1>7 DEF Answered, AnsweredFileStays
  <2>2. Settled(sending)
    BY <1>7, ClassRule DEF OrderInv, SpoolInv, AnswerTrue, Settled
  <2>3. \A j \in pending' : j = sending => Settled(j)'
    BY <2>2, <1>3
  <2> QED BY <2>1, <2>3, <1>1, <1>2, <1>3, <1>4, OrderKept
<1>8. CASE act \in {"erased", "scope"}
  <2>1. todo' = todo
    BY <1>8 DEF Answered, AnsweredFileStays
  <2>2. ScopeOf[sending] \in left'
    BY <1>8, <1>5 DEF Answered, AnsweredFileStays, Subj
  <2> QED BY <2>1, <2>2, <1>1, <1>2, <1>3, <1>4, OrderKept
<1> QED BY <1>6, <1>7, <1>8, ClassRule

\* The steps of the journal, the clock and the backoffs.
LEMMA JournalOrder ==
  ASSUME OrderInv, SpoolTypes',
         \/ NoAnswer \/ BackoffEnds \/ Age \/ Restart
         \/ \E i \in Ids : Handle(i) \/ Unavailable(i)
         \/ \E s \in Subjects : EraseSubject(s)
  PROVE  SentSettled' /\ TodoSettled'
<1>1. /\ net' \subseteq net /\ pending' \subseteq pending
      /\ todo' = <<>> \/ (todo' = todo /\ left' = left /\ sending' = sending)
      /\ next' = next
  BY DEF NoAnswer, BackoffEnds, Age, Restart, Handle, Unavailable, EraseSubject, spool, pass, journal
<1>2. /\ unread' = unread /\ gone \subseteq gone'
      /\ \A i \in stored : i \in stored' \/ Subj(i) \in gone'
  BY DEF NoAnswer, BackoffEnds, Age, Restart, Handle, Unavailable, EraseSubject, spool, pass, journal
<1>3. \A j \in Seen : Settled(j) => Settled(j)'
  BY <1>2 DEF Settled, Subj
<1> QED BY <1>1, <1>3, OrderKept

LEMMA CrashOrder == ASSUME OrderInv, SpoolTypes', Crash PROVE SentSettled' /\ TodoSettled'
<1>1. UNCHANGED <<stored, gone, unread, net>> /\ todo' = <<>>
  BY DEF Crash, journal
<1>2. pending' \subseteq pending \cup {next} /\ next' \in {next, next + 1}
  BY DEF Crash, CrashImage
<1>3. \A j \in Seen : Settled(j) => Settled(j)'
  BY <1>1 DEF Settled, Subj
<1> QED BY <1>1, <1>2, <1>3, OrderKept

LEMMA OrderStep == OrderInv /\ [Next]_vars => OrderInv'
<1> SUFFICES ASSUME OrderInv, [Next]_vars PROVE OrderInv'
  OBVIOUS
<1>1. SpoolInv' /\ SpoolTypes'
  BY SpoolStep DEF OrderInv, SpoolInv
<1>2. CASE UNCHANGED vars
  BY <1>2, <1>1 DEF vars, spool, pass, journal, OrderInv, SentSettled, TodoSettled, Settled, Older, Seen, Subj
<1>3. CASE Next
  <2>1. SentSettled' /\ TodoSettled'
    BY <1>3, <1>1, PutOrder, StartPassOrder, HeadOrder, AnsweredOrder, JournalOrder, CrashOrder DEF Next
  <2> QED BY <2>1, <1>1 DEF OrderInv
<1> QED BY <1>2, <1>3

\* In every reachable state the spool's invariant and the order of the pass
\* hold.
THEOREM OrderInvHolds == Spec => []OrderInv
<1>1. Init => OrderInv
  BY SpoolInit, OrderInit DEF OrderInv
<1> QED BY <1>1, OrderStep, PTL DEF Spec

\* The step of the journal that stores a snapshot, and the step that sends one.
LEMMA SentStep ==
  ASSUME OrderInv, [Next]_vars
  PROVE  /\ \A i \in stored' \ stored : \A j \in pending :
              j < i /\ ScopeOf[j] = ScopeOf[i] => j \in stored \cup Invalid \cup unread
         /\ sending' # sending /\ sending' # 0 => sending' \notin rejected
<1>1. ASSUME NEW i \in stored', i \notin stored, NEW j \in pending, j < i, ScopeOf[j] = ScopeOf[i]
      PROVE  j \in stored \cup Invalid \cup unread
  <2>1. i \in net /\ AnswerTo(i) = "applied"
    BY <1>1 DEF Next, vars, spool, pass, journal, Put, PutFails, StartPass, NextEntry, BodyFails, Answered,
       AnsweredFileStays, NoAnswer, BackoffEnds, Age, Crash, Restart, Handle, Unavailable, EraseSubject
  <2>2. Subj(i) \notin gone
    BY <2>1 DEF AnswerTo
  <2>3. Settled(j)
    BY <2>1, <1>1 DEF OrderInv, SentSettled, Older
  <2> QED BY <2>2, <2>3, <1>1 DEF Settled, Subj
<1>2. ASSUME sending' # sending, sending' # 0 PROVE sending' \notin rejected
  <2>1. up /\ sending' \in pending
    BY <1>2 DEF Next, vars, spool, pass, journal, Put, PutFails, StartPass, NextEntry, BodyFails, Answered,
       AnsweredFileStays, NoAnswer, BackoffEnds, Age, Crash, Restart, Handle, Unavailable, EraseSubject
  <2> QED BY <2>1 DEF OrderInv, SpoolInv, OneDirectory
<1> QED BY <1>1, <1>2

\* The snapshots of a scope are stored oldest first, and a rejected one is not
\* sent again, through retries, late requests, crashes and restarts, for any
\* number of snapshots, scopes and faults (sender.go Drain, spool.go
\* recoverLocked).
THEOREM SentOldestFirst == Spec => SentInOrder
<1>1. OrderInv /\ [Next]_vars =>
        [\A i \in stored' \ stored : \A j \in pending :
           j < i /\ ScopeOf[j] = ScopeOf[i] => j \in stored \cup Invalid \cup unread]_vars
  BY SentStep
<1>2. OrderInv /\ [Next]_vars => [sending' # sending /\ sending' # 0 => sending' \notin rejected]_vars
  BY SentStep
<1> QED BY <1>1, <1>2, OrderInvHolds, PTL DEF Spec, SentInOrder, OldestFirst, RejectedNotResent

-----------------------------------------------------------------------------
(* The queue of detail pages. *)

RowType == [known : BOOLEAN, fp : 0..2, at : 0..Never, since : 0..Never, missing : 0..2]

DetailTypes ==
  /\ shown \subseteq AllIds /\ entry \in [AllIds -> 1..2] /\ detail \in [AllIds -> Nat \ {0}]
  /\ row \in [AllIds -> RowType] /\ seen \in [AllIds -> Nat]
  /\ turn \in 0..(Len(KidSeq) - 1) /\ maxPerPoll \in Caps /\ view \in Kid \cup {"none"}
  /\ edits \in Nat /\ outages \in Nat /\ edits + outages <= MaxEvents
  /\ twice \in Nat /\ forgotten \subseteq AllIds /\ given \subseteq AllIds \X Nat

\* A page has no more versions than the portal made edits, and what was seen
\* of it is a version it had.
Versions == \A id \in AllIds : detail[id] <= 1 + edits /\ seen[id] <= detail[id]

\* The reads of the poll are of listed assignments, within the cap.
Reads ==
  /\ work \in Seq(shown) /\ Len(work) <= maxPerPoll
  /\ step = IF work = <<>> THEN "idle" ELSE "execute"

\* No list is longer than the set of fingerprints may be.
ShortLists == \A k \in Kid : Cardinality(shown \cap RowsOf(k)) <= MaxSeen

\* What was staged is a version the page had, of an assignment that is listed
\* or left its list since; what the checkpoint remembers was staged.
Staged ==
  /\ \A g \in given : g[2] <= detail[g[1]] /\ g[1] \in shown \cup forgotten
  /\ \A id \in AllIds : seen[id] # 0 => <<id, seen[id]>> \in given

\* The assignments whose page was staged as it is, unknown to the checkpoint.
Unsaved == {id \in AllIds \ forgotten : <<id, detail[id]>> \in given /\ seen[id] # detail[id]}

\* Each of them, and each page staged twice, is an outage's doing.
OutagesOwed == twice + Cardinality(Unsaved) <= outages

DetailInv == DetailTypes /\ Versions /\ Reads /\ ShortLists /\ Staged /\ OutagesOwed

\* There are n numbers from 1 to n.
LEMMA CountTo ==
  ASSUME NEW n \in Nat
  PROVE  IsFiniteSet(1..n) /\ Cardinality(1..n) = n
<1>1. IsFiniteSet(1..n) /\ Cardinality(1..n) = IF 1 > n THEN 0 ELSE n - 1 + 1
  <2>1. 1 \in Int /\ n \in Int
    OBVIOUS
  <2> QED BY <2>1, FS_Interval
<1> QED BY <1>1

\* Each assignment is some kid's, and only that kid's.
LEMMA Owner ==
  ASSUME NEW id \in AllIds
  PROVE  KidOf[id] \in Kid /\ id \in RowsOf(KidOf[id]) /\ id \in Nat \ {0}
         /\ \A k \in Kid : id \in RowsOf(k) => k = KidOf[id]
<1>1. PICK k \in Kid : id \in RowsOf(k)
  BY DEF AllIds
<1>2. KidOf[id] = CHOOSE j \in Kid : id \in RowsOf(j)
  BY DEF KidOf
<1>3. KidOf[id] \in Kid /\ id \in RowsOf(KidOf[id])
  BY <1>1, <1>2
<1>4. Row[KidOf[id]] \in Seq(Nat \ {0})
  BY <1>3, QueueAssumption
<1>5. id \in Nat \ {0}
  BY <1>3, <1>4 DEF RowsOf
<1>6. ASSUME NEW j \in Kid, id \in RowsOf(j) PROVE j = KidOf[id]
  BY <1>3, <1>6, QueueAssumption
<1> QED BY <1>3, <1>5, <1>6

\* There are finitely many kids, no more than the configuration names, and
\* finitely many assignments.
LEMMA Finitely ==
  /\ IsFiniteSet(Kid) /\ Cardinality(Kid) \in Nat /\ Cardinality(Kid) <= Len(KidSeq)
  /\ IsFiniteSet(AllIds) /\ Cardinality(AllIds) \in Nat
<1>0. Len(KidSeq) \in Nat
  <2>1. KidSeq \in Seq(Kid)
    BY QueueAssumption
  <2> QED BY <2>1
<1>1. [i \in 1..Len(KidSeq) |-> KidSeq[i]] \in Surjection(1..Len(KidSeq), Kid)
  BY DEF Kid, Surjection
<1>2. IsFiniteSet(1..Len(KidSeq)) /\ Cardinality(1..Len(KidSeq)) = Len(KidSeq)
  BY <1>0, CountTo
<1>3. IsFiniteSet(Kid) /\ Cardinality(Kid) <= Len(KidSeq)
  BY <1>1, <1>2, FS_Surjection
<1>4. ASSUME NEW k \in Kid PROVE IsFiniteSet(RowsOf(k))
  <2>1. Row[k] \in Seq(Nat \ {0})
    BY QueueAssumption
  <2>2. Len(Row[k]) \in Nat
    BY <2>1
  <2>3. [i \in 1..Len(Row[k]) |-> Row[k][i]] \in Surjection(1..Len(Row[k]), RowsOf(k))
    BY DEF RowsOf, Surjection
  <2>4. IsFiniteSet(1..Len(Row[k]))
    BY <2>2, FS_Interval
  <2> QED BY <2>3, <2>4, FS_Surjection
<1>5. DEFINE rows == [k \in Kid |-> RowsOf(k)]
             lists == {RowsOf(k) : k \in Kid}
<1>6. rows \in Surjection(Kid, lists)
  BY DEF Surjection
<1>7. IsFiniteSet(lists)
  BY <1>6, <1>3, FS_Surjection
<1>8. \A T \in lists : IsFiniteSet(T)
  BY <1>4
<1>9. IsFiniteSet(UNION lists)
  <2> HIDE DEF lists
  <2> QED BY <1>7, <1>8, FS_UNION
<1>10. AllIds = UNION lists
  BY DEF AllIds
<1> QED BY <1>3, <1>9, <1>10, FS_CardinalityType

\* A finite set is counted by a number, and so is every part of it.
LEMMA PartCounted ==
  ASSUME NEW D, IsFiniteSet(D), NEW S \in SUBSET D
  PROVE  IsFiniteSet(S) /\ Cardinality(S) \in Nat /\ Cardinality(S) <= Cardinality(D)
BY FS_Subset, FS_CardinalityType

\* A proper part of a finite set counts less.
LEMMA LessCounted ==
  ASSUME NEW D, IsFiniteSet(D), NEW S \in SUBSET D, NEW x \in D, x \notin S
  PROVE  Cardinality(S) \in Nat /\ Cardinality(D) \in Nat /\ Cardinality(S) < Cardinality(D)
<1>1. IsFiniteSet(S) /\ Cardinality(S) <= Cardinality(D) /\ (Cardinality(S) = Cardinality(D) => D = S)
  BY FS_Subset
<1>2. Cardinality(S) \in Nat /\ Cardinality(D) \in Nat
  BY <1>1, FS_CardinalityType
<1> QED BY <1>1, <1>2

\* In a strict order, what comes later has more before it.
LEMMA RankGrows ==
  ASSUME NEW D, IsFiniteSet(D), NEW R \in SUBSET (D \X D),
         \A a \in D : <<a, a>> \notin R,
         \A a, b, c \in D : <<a, b>> \in R /\ <<b, c>> \in R => <<a, c>> \in R,
         NEW x \in D, NEW y \in D, <<x, y>> \in R
  PROVE  Cardinality({a \in D : <<a, x>> \in R}) < Cardinality({a \in D : <<a, y>> \in R})
<1> DEFINE S == {a \in D : <<a, x>> \in R}
           T == {a \in D : <<a, y>> \in R}
<1>1. S \in SUBSET T /\ x \in T /\ x \notin S
  OBVIOUS
<1>2. IsFiniteSet(T)
  BY PartCounted
<1> QED BY <1>1, <1>2, LessCounted

\* The members of a finite set, numbered apart from 0 below its size, take
\* every number below it.
LEMMA RankReaches ==
  ASSUME NEW D, IsFiniteSet(D), NEW f \in [D -> Nat],
         \A x \in D : f[x] < Cardinality(D),
         \A x, y \in D : f[x] = f[y] => x = y,
         NEW i \in Nat, i < Cardinality(D)
  PROVE  \E x \in D : f[x] = i
<1> DEFINE n == Cardinality(D)
           T == 0..(n - 1)
<1>1. n \in Nat
  BY FS_CardinalityType
<1>2. IsFiniteSet(T) /\ Cardinality(T) = n
  <2>1. 0 \in Int /\ n - 1 \in Int
    BY <1>1
  <2>2. IsFiniteSet(T) /\ Cardinality(T) = IF 0 > n - 1 THEN 0 ELSE (n - 1) - 0 + 1
    <3> HIDE DEF n
    <3> QED BY <2>1, FS_Interval
  <2> QED BY <1>1, <2>2
<1>3. f \in Injection(D, T)
  BY <1>1 DEF Injection, IsInjective
<1>4. f \in Surjection(D, T)
  BY <1>2, <1>3, FS_Injection
<1>5. i \in T
  BY <1>1
<1> QED BY <1>4, <1>5 DEF Surjection

\* Of numbers apart, at most c are below c.
LEMMA BelowCap ==
  ASSUME NEW D, NEW f \in [D -> Nat], \A x, y \in D : f[x] = f[y] => x = y, NEW c \in Nat
  PROVE  /\ IsFiniteSet({x \in D : f[x] < c})
         /\ Cardinality({x \in D : f[x] < c}) \in Nat
         /\ Cardinality({x \in D : f[x] < c}) <= c
<1> DEFINE S == {x \in D : f[x] < c}
           T == 0..(c - 1)
           g == [x \in S |-> f[x]]
<1>1. IsFiniteSet(T) /\ Cardinality(T) = c
  BY FS_Interval
<1>2. g \in Injection(S, T)
  BY DEF Injection, IsInjective
<1>3. IsFiniteSet(S) /\ Cardinality(S) <= Cardinality(T)
  <2> HIDE DEF S, T, g
  <2> QED BY <1>1, <1>2, FS_Injection
<1> QED BY <1>1, <1>3, FS_CardinalityType

-----------------------------------------------------------------------------
(* The order of the plan of the detail pages. *)

\* The numbers of a place are the kid's in the configuration and the row's in
\* that kid's list.
LEMMA PlaceIs ==
  ASSUME NEW id \in AllIds
  PROVE  /\ place[id][1] \in 1..Len(KidSeq) /\ KidSeq[place[id][1]] = KidOf[id]
         /\ place[id][2] \in Nat /\ Row[KidOf[id]][place[id][2]] = id
<1> DEFINE k == KidOf[id]
           kidAt == CHOOSE i \in 1..Len(KidSeq) : KidSeq[i] = k
           rowAt == CHOOSE i \in 1..Len(Row[k]) : Row[k][i] = id
<1>1. place[id] = <<kidAt, rowAt>>
  BY DEF place
<1>2. \E i \in 1..Len(KidSeq) : KidSeq[i] = k
  <2>1. k \in Kid
    BY Owner
  <2> QED BY <2>1 DEF Kid
<1>3. \E i \in 1..Len(Row[k]) : Row[k][i] = id
  <2>1. id \in RowsOf(k)
    BY Owner
  <2> QED BY <2>1 DEF RowsOf
<1>4. kidAt \in 1..Len(KidSeq) /\ KidSeq[kidAt] = k
  BY <1>2
<1>5. rowAt \in 1..Len(Row[k]) /\ Row[k][rowAt] = id
  BY <1>3
<1>6. place[id][1] = kidAt /\ place[id][2] = rowAt
  BY <1>1
<1> QED BY <1>4, <1>5, <1>6

\* Of two assignments one comes first.
LEMMA PlacesApart ==
  ASSUME NEW a \in AllIds, NEW b \in AllIds, a # b
  PROVE  earlier(place[a], place[b]) \/ earlier(place[b], place[a])
<1>1. /\ place[a][1] \in Nat /\ place[a][2] \in Nat /\ place[b][1] \in Nat /\ place[b][2] \in Nat
  BY PlaceIs
<1>2. place[a][1] # place[b][1] \/ place[a][2] # place[b][2]
  BY PlaceIs
<1> QED BY <1>1, <1>2 DEF earlier

\* The rows a poll starts from are rows.
LEMMA AgedTyped ==
  ASSUME row \in [AllIds -> RowType], NEW kids
  PROVE  agedRows(kids) \in [AllIds -> RowType]
<1>0. MaxAge \in Nat /\ Never = MaxAge + 1
  BY QueueAssumption DEF Never
<1>1. NoRow \in RowType
  BY <1>0 DEF NoRow, RowType
<1>2. ASSUME NEW a \in 0..Never PROVE (IF a = Never THEN a ELSE older(a)) \in 0..Never
  BY <1>0 DEF older
<1>3. ASSUME NEW r \in RowType PROVE PollPassed(r) \in RowType
  <2>1. r.at \in 0..Never /\ r.since \in 0..Never
    BY DEF RowType
  <2> DEFINE at == IF r.at = Never THEN r.at ELSE older(r.at)
             since == IF r.since = Never THEN r.since ELSE older(r.since)
  <2>2. at \in 0..Never /\ since \in 0..Never
    BY <2>1, <1>2
  <2>3. PollPassed(r) = [r EXCEPT !.at = at, !.since = since]
    BY DEF PollPassed
  <2> HIDE DEF at, since
  <2> QED BY <2>2, <2>3 DEF RowType
<1>4. ASSUME NEW r \in RowType, NEW l \in BOOLEAN PROVE ageDetailRows(r, l) \in RowType
  <2>1. [r EXCEPT !.missing = 0] \in RowType
    BY DEF RowType
  <2>2. ASSUME ~(r.missing + 1 >= GracePolls)
        PROVE  [r EXCEPT !.missing = IF r.known THEN @ + 1 ELSE 0] \in RowType
    BY <2>2 DEF RowType, GracePolls
  <2> QED BY <2>1, <2>2, <1>1 DEF ageDetailRows
<1>5. ASSUME NEW id \in AllIds
      PROVE  (IF KidOf[id] \in kids THEN ageDetailRows(PollPassed(row[id]), id \in shown)
                                    ELSE PollPassed(row[id])) \in RowType
  <2>1. PollPassed(row[id]) \in RowType
    BY <1>3
  <2>2. (id \in shown) \in BOOLEAN
    OBVIOUS
  <2>3. ageDetailRows(PollPassed(row[id]), id \in shown) \in RowType
    BY <2>1, <2>2, <1>4, Zenon
  <2> QED BY <2>1, <2>3
<1> QED BY <1>5 DEF agedRows

\* How long a row has waited is a number.
LEMMA WaitingNumber ==
  ASSUME NEW r \in RowType, NEW id PROVE waiting(r, id) \in Nat
<1>0. MaxAge \in Nat /\ Never = MaxAge + 1
  BY QueueAssumption DEF Never
<1>1. r.at \in Nat /\ r.since \in Nat
  BY <1>0 DEF RowType
<1> QED BY <1>1 DEF waiting

\* Rows that queue behind each other have different numbers in the queue.
LEMMA QueuedApart ==
  ASSUME NEW r \in [AllIds -> RowType], NEW due \in SUBSET AllIds
  PROVE  /\ queued(r, due) \in [due -> Nat]
         /\ \A id \in due : queued(r, due)[id] < Cardinality(AllIds)
         /\ \A x, y \in due :
              /\ x # y /\ isRefresh(r[x], x) = isRefresh(r[y], y)
              /\ KidOf[x] = KidOf[y] \/ isRefresh(r[x], x)
              => queued(r, due)[x] # queued(r, due)[y]
<1> DEFINE same(a, id) == isRefresh(r[a], a) = isRefresh(r[id], id) /\ (KidOf[a] = KidOf[id] \/ isRefresh(r[a], a))
           R == {p \in due \X due : same(p[1], p[2]) /\ ahead(r, p[1], p[2])}
           num(id) == Cardinality({a \in due : <<a, id>> \in R})
<1>0. IsFiniteSet(due) /\ Cardinality(due) <= Cardinality(AllIds)
      /\ Cardinality(due) \in Nat /\ Cardinality(AllIds) \in Nat
  BY Finitely, PartCounted
<1>1. ASSUME NEW id \in due PROVE queued(r, due)[id] = num(id)
  <2>1. {a \in due : <<a, id>> \in R}
        = {a \in due : /\ isRefresh(r[a], a) = isRefresh(r[id], id)
                       /\ KidOf[a] = KidOf[id] \/ isRefresh(r[a], a)
                       /\ ahead(r, a, id)}
    OBVIOUS
  <2> QED BY <2>1 DEF queued
<1>2. ASSUME NEW a \in due
      PROVE  waiting(r[a], a) \in Nat /\ place[a][1] \in Nat /\ place[a][2] \in Nat
  BY WaitingNumber, PlaceIs
<1>3. \A a \in due : <<a, a>> \notin R
  BY <1>2 DEF ahead, earlier
<1>4. ASSUME NEW a \in due, NEW b \in due, NEW c \in due, ahead(r, a, b), ahead(r, b, c)
      PROVE  ahead(r, a, c)
  BY <1>2, <1>4 DEF ahead, earlier
<1>5. ASSUME NEW a \in due, NEW b \in due, NEW c \in due, <<a, b>> \in R, <<b, c>> \in R
      PROVE  <<a, c>> \in R
  <2>1. same(a, c)
    BY <1>5
  <2>2. ahead(r, a, c)
    BY <1>5, <1>4
  <2> QED BY <2>1, <2>2
<1>6. ASSUME NEW x \in due, NEW y \in due, <<x, y>> \in R PROVE num(x) < num(y)
  <2>1. \A a, b, c \in due : <<a, b>> \in R /\ <<b, c>> \in R => <<a, c>> \in R
    BY <1>5
  <2>2. R \in SUBSET (due \X due)
    OBVIOUS
  <2> HIDE DEF R
  <2> QED BY <1>0, <1>3, <2>1, <2>2, <1>6, RankGrows
<1>7. ASSUME NEW id \in due PROVE num(id) \in Nat /\ num(id) < Cardinality(AllIds)
  <2> DEFINE S == {a \in due : <<a, id>> \in R}
  <2>1. S \in SUBSET due /\ id \notin S
    BY <1>3
  <2>2. Cardinality(S) \in Nat /\ Cardinality(S) < Cardinality(due)
    <3> HIDE DEF S
    <3> QED BY <2>1, <1>0, LessCounted
  <2> QED BY <2>2, <1>0
<1>8. ASSUME NEW x \in due, NEW y \in due, x # y, isRefresh(r[x], x) = isRefresh(r[y], y),
             KidOf[x] = KidOf[y] \/ isRefresh(r[x], x)
      PROVE  num(x) # num(y)
  <2>1. ahead(r, x, y) \/ ahead(r, y, x)
    BY <1>2, <1>8, PlacesApart DEF ahead
  <2>2. same(x, y) /\ same(y, x)
    BY <1>8
  <2>3. <<x, y>> \in R \/ <<y, x>> \in R
    BY <2>1, <2>2
  <2>4. num(x) < num(y) \/ num(y) < num(x)
    BY <2>3, <1>6
  <2>5. num(x) \in Nat /\ num(y) \in Nat
    BY <1>7
  <2> HIDE DEF num
  <2> QED BY <2>4, <2>5
<1>9. queued(r, due) \in [due -> Nat]
  <2>1. queued(r, due) = [id \in due |-> queued(r, due)[id]]
    BY DEF queued
  <2>2. \A id \in due : queued(r, due)[id] \in Nat
    BY <1>1, <1>7
  <2> QED BY <2>1, <2>2
<1> HIDE DEF num, R, same
<1>10. \A id \in due : queued(r, due)[id] < Cardinality(AllIds)
  BY <1>1, <1>7
<1>11. \A x, y \in due :
         /\ x # y /\ isRefresh(r[x], x) = isRefresh(r[y], y)
         /\ KidOf[x] = KidOf[y] \/ isRefresh(r[x], x)
         => queued(r, due)[x] # queued(r, due)[y]
  BY <1>1, <1>8
<1> QED BY <1>9, <1>10, <1>11

\* The kid's turn among the kids read: how many of them the configuration
\* names before it.
Turn(id, kids) == Cardinality({i \in 1..(place[id][1] - 1) : KidSeq[i] \in kids})

\* The kids read take turns, each at its own place among them.
LEMMA TurnsApart ==
  ASSUME NEW kids \in SUBSET Kid
  PROVE  /\ \A x \in AllIds : KidOf[x] \in kids => Turn(x, kids) \in 0..(Cardinality(kids) - 1)
         /\ \A x, y \in AllIds :
              /\ KidOf[x] \in kids /\ KidOf[y] \in kids /\ KidOf[x] # KidOf[y]
              => Turn(x, kids) # Turn(y, kids)
<1> DEFINE S(x) == {i \in 1..(place[x][1] - 1) : KidSeq[i] \in kids}
<1>0. IsFiniteSet(kids) /\ Cardinality(kids) \in Nat
  BY Finitely, PartCounted
<1>1. ASSUME NEW x \in AllIds PROVE place[x][1] \in 1..Len(KidSeq) /\ KidSeq[place[x][1]] = KidOf[x]
  BY PlaceIs
<1>2. ASSUME NEW x \in AllIds PROVE IsFiniteSet(S(x))
  <2>1. place[x][1] - 1 \in Nat
    BY <1>1
  <2>2. IsFiniteSet(1..(place[x][1] - 1))
    BY <2>1, CountTo
  <2> QED BY <2>2, FS_Subset
<1>n. Len(KidSeq) \in Nat
  <2>1. KidSeq \in Seq(Kid)
    BY QueueAssumption
  <2> QED BY <2>1
<1>3. ASSUME NEW x \in AllIds, KidOf[x] \in kids
      PROVE  Turn(x, kids) \in 0..(Cardinality(kids) - 1)
  <2> DEFINE f == [i \in S(x) |-> KidSeq[i]]
             T == kids \ {KidOf[x]}
  <2>0. \A i, j \in 1..Len(KidSeq) : KidSeq[i] = KidSeq[j] => i = j
    BY QueueAssumption
  <2>1. S(x) \subseteq 1..Len(KidSeq) /\ place[x][1] \notin S(x)
    BY <1>1, <1>n
  <2>2. ASSUME NEW i \in S(x) PROVE KidSeq[i] \in T
    <3>1. KidSeq[i] # KidOf[x]
      BY <2>0, <2>1, <1>1
    <3> QED BY <3>1
  <2>3. f \in Injection(S(x), T)
    BY <2>0, <2>1, <2>2 DEF Injection, IsInjective
  <2>4. IsFiniteSet(T) /\ Cardinality(T) = Cardinality(kids) - 1
    BY <1>0, <1>3, FS_RemoveElement
  <2>5. Cardinality(S(x)) <= Cardinality(T)
    <3> HIDE DEF S, T, f
    <3> QED BY <2>3, <2>4, FS_Injection
  <2>6. Cardinality(S(x)) \in Nat
    <3> HIDE DEF S
    <3> QED BY <1>2, FS_CardinalityType
  <2>7. Turn(x, kids) = Cardinality(S(x))
    BY DEF Turn
  <2> HIDE DEF S, T
  <2> QED BY <2>4, <2>5, <2>6, <2>7, <1>0
<1>4. ASSUME NEW x \in AllIds, NEW y \in AllIds, KidOf[x] \in kids, place[x][1] < place[y][1]
      PROVE  Cardinality(S(x)) < Cardinality(S(y))
  <2>1. S(x) \in SUBSET S(y)
    BY <1>1, <1>4
  <2>2. place[x][1] \in S(y) /\ place[x][1] \notin S(x)
    BY <1>1, <1>4
  <2> HIDE DEF S
  <2> QED BY <2>1, <2>2, <1>2, LessCounted
<1>5. ASSUME NEW x \in AllIds, NEW y \in AllIds, KidOf[x] \in kids, KidOf[y] \in kids, KidOf[x] # KidOf[y]
      PROVE  Turn(x, kids) # Turn(y, kids)
  <2>1. place[x][1] # place[y][1] /\ place[x][1] \in Nat /\ place[y][1] \in Nat
    BY <1>1, <1>5
  <2>2. place[x][1] < place[y][1] \/ place[y][1] < place[x][1]
    BY <2>1
  <2>3. Cardinality(S(x)) < Cardinality(S(y)) \/ Cardinality(S(y)) < Cardinality(S(x))
    <3> HIDE DEF S
    <3> QED BY <2>2, <1>4, <1>5
  <2>4. Cardinality(S(x)) \in Nat /\ Cardinality(S(y)) \in Nat
    <3> HIDE DEF S
    <3> QED BY <1>2, FS_CardinalityType
  <2>5. Turn(x, kids) = Cardinality(S(x)) /\ Turn(y, kids) = Cardinality(S(y))
    BY DEF Turn
  <2> HIDE DEF S
  <2> QED BY <2>3, <2>4, <2>5
<1> QED BY <1>3, <1>5

\* Turns counted round from the first one stay apart.
LEMMA RoundApart ==
  ASSUME NEW n \in Nat, n # 0, NEW f \in 0..(n - 1)
  PROVE  /\ \A a \in 0..(n - 1) : (a + n - f) % n \in 0..(n - 1)
         /\ \A a, b \in 0..(n - 1) : a # b => (a + n - f) % n # (b + n - f) % n
<1>1. ASSUME NEW a \in 0..(n - 1)
      PROVE  (a + n - f) % n = IF a < f THEN a + n - f ELSE a - f
  OBVIOUS
<1> QED BY <1>1

\* The plan puts no two assignments in one place.
LEMMA InterleaveApart ==
  ASSUME NEW r \in [AllIds -> RowType], NEW due \in SUBSET AllIds, NEW kids \in SUBSET Kid,
         \A id \in due : KidOf[id] \in kids,
         NEW first \in Nat, due # {} => first \in 0..(Cardinality(kids) - 1),
         NEW number \in [due -> Nat], number = queued(r, due)
  PROVE  /\ interleave(r, number, first, kids) \in [due -> Nat]
         /\ \A x, y \in due : interleave(r, number, first, kids)[x] = interleave(r, number, first, kids)[y]
              => x = y
<1> DEFINE n == Cardinality(kids)
           round(id) == (Turn(id, kids) + n - first) % n
           cell(id) == IF isRefresh(r[id], id) THEN <<Len(KidSeq) + Cardinality(AllIds), number[id]>>
                                               ELSE <<number[id], round(id)>>
           R == {p \in due \X due : earlier(cell(p[1]), cell(p[2]))}
           num(id) == Cardinality({a \in due : <<a, id>> \in R})
           order == interleave(r, number, first, kids)
<1>0. /\ IsFiniteSet(due) /\ Cardinality(AllIds) \in Nat
      /\ IsFiniteSet(kids) /\ n \in Nat /\ Len(KidSeq) \in Nat
  <2>1. KidSeq \in Seq(Kid)
    BY QueueAssumption
  <2> QED BY <2>1, Finitely, PartCounted
<1>1. DOMAIN number = due
  OBVIOUS
<1>2. ASSUME NEW id \in due PROVE order[id] = num(id)
  <2> DEFINE kidNumber(a) == Cardinality({i \in 1..(place[a][1] - 1) : KidSeq[i] \in kids})
             cell2(a) == IF isRefresh(r[a], a) THEN <<Len(KidSeq) + Cardinality(AllIds), number[a]>>
                         ELSE <<number[a], (kidNumber(a) + Cardinality(kids) - first) % Cardinality(kids)>>
  <2>1. order = [x \in due |-> Cardinality({a \in due : earlier(cell2(a), cell2(x))})]
    BY <1>1 DEF interleave
  <2>2. ASSUME NEW a \in due PROVE cell2(a) = cell(a)
    BY DEF Turn
  <2>3. {a \in due : <<a, id>> \in R} = {a \in due : earlier(cell(a), cell(id))}
    OBVIOUS
  <2>4. {a \in due : earlier(cell2(a), cell2(id))} = {a \in due : earlier(cell(a), cell(id))}
    <3> HIDE DEF cell, cell2
    <3> QED BY <2>2
  <2> HIDE DEF cell, cell2, R
  <2> QED BY <2>1, <2>3, <2>4
<1>3. ASSUME NEW id \in due PROVE round(id) \in 0..(n - 1)
  <2>1. n # 0
    BY <1>0, FS_EmptySet
  <2>2. Turn(id, kids) \in 0..(n - 1)
    BY TurnsApart
  <2> HIDE DEF n
  <2> QED BY <2>1, <2>2, <1>0, RoundApart
<1>4. ASSUME NEW x \in due, NEW y \in due, KidOf[x] # KidOf[y] PROVE round(x) # round(y)
  <2>1. n # 0
    BY <1>0, FS_EmptySet
  <2>2. Turn(x, kids) \in 0..(n - 1) /\ Turn(y, kids) \in 0..(n - 1) /\ Turn(x, kids) # Turn(y, kids)
    BY <1>4, TurnsApart
  <2>3. first \in 0..(n - 1)
    OBVIOUS
  <2> HIDE DEF n
  <2>4. \A a, b \in 0..(n - 1) : a # b => (a + n - first) % n # (b + n - first) % n
    BY <2>1, <2>3, <1>0, RoundApart
  <2> QED BY <2>2, <2>4
<1>5. ASSUME NEW id \in due PROVE cell(id)[1] \in Nat /\ cell(id)[2] \in Nat
  <2> HIDE DEF round, n
  <2>1. round(id) \in Nat /\ number[id] \in Nat
    BY <1>3, <1>0
  <2> QED BY <2>1, <1>0
<1>6. ASSUME NEW id \in due PROVE number[id] \in Nat /\ number[id] < Cardinality(AllIds)
  BY QueuedApart
<1>7. ASSUME NEW x \in due, NEW y \in due, x # y
      PROVE  cell(x)[1] # cell(y)[1] \/ cell(x)[2] # cell(y)[2]
  <2> DEFINE rx == isRefresh(r[x], x)
             ry == isRefresh(r[y], y)
  <2>0. rx \in BOOLEAN /\ ry \in BOOLEAN
    BY DEF isRefresh
  <2>1. CASE rx /\ ry
    <3>1. number[x] # number[y]
      BY <1>7, <2>1, QueuedApart
    <3> QED BY <2>1, <3>1
  <2>2. CASE ~rx /\ ~ry /\ KidOf[x] = KidOf[y]
    <3>1. number[x] # number[y]
      BY <1>7, <2>2, <2>0, QueuedApart
    <3> QED BY <2>2, <3>1
  <2>3. CASE ~rx /\ ~ry /\ KidOf[x] # KidOf[y]
    <3> HIDE DEF round
    <3> QED BY <2>3, <1>4
  <2>4. CASE rx /\ ~ry
    BY <2>4, <1>6, <1>0
  <2>5. CASE ~rx /\ ry
    BY <2>5, <1>6, <1>0
  <2> QED BY <2>0, <2>1, <2>2, <2>3, <2>4, <2>5
<1> HIDE DEF cell
<1>8. ASSUME NEW x \in due, NEW y \in due, <<x, y>> \in R PROVE num(x) < num(y)
  <2>1. \A a \in due : <<a, a>> \notin R
    BY <1>5 DEF earlier
  <2>2. \A a, b, c \in due : <<a, b>> \in R /\ <<b, c>> \in R => <<a, c>> \in R
    BY <1>5 DEF earlier
  <2>3. R \in SUBSET (due \X due)
    OBVIOUS
  <2>4. IsFiniteSet(due)
    BY <1>0
  <2> HIDE DEF R
  <2> QED BY <2>1, <2>2, <2>3, <2>4, <1>8, RankGrows
<1>9. ASSUME NEW x \in due PROVE num(x) \in Nat
  <2> HIDE DEF R
  <2>1. {a \in due : <<a, x>> \in R} \in SUBSET due
    OBVIOUS
  <2> QED BY <1>0, <2>1, PartCounted
<1>10. ASSUME NEW x \in due, NEW y \in due, x # y PROVE num(x) # num(y)
  <2>1. <<x, y>> \in R \/ <<y, x>> \in R
    BY <1>5, <1>7, <1>10 DEF earlier
  <2> HIDE DEF R, num
  <2> QED BY <2>1, <1>8, <1>9
<1>11. order = [id \in due |-> order[id]]
  BY <1>1 DEF interleave
<1> HIDE DEF num
<1>12. order \in [due -> Nat]
  BY <1>2, <1>9, <1>11
<1>13. \A x, y \in due : order[x] = order[y] => x = y
  BY <1>2, <1>10
<1> QED BY <1>12, <1>13

\* The reads, gathered kid by kid, are these reads, each once.
LEMMA GroupTyped ==
  ASSUME NEW due, NEW order \in [due -> Nat], \A x, y \in due : order[x] = order[y] => x = y,
         NEW reads \in SUBSET due, IsFiniteSet(reads)
  PROVE  /\ groupByKid(reads, order) \in Seq(reads)
         /\ Len(groupByKid(reads, order)) = Cardinality(reads)
<1> DEFINE ofKid(id) == {m \in {order[a] : a \in reads} :
                           \E a \in reads : KidOf[a] = KidOf[id] /\ order[a] = m}
           lead(id) == CHOOSE m \in {order[a] : a \in reads} :
                         /\ \E a \in reads : KidOf[a] = KidOf[id] /\ order[a] = m
                         /\ \A a \in reads : KidOf[a] = KidOf[id] => m <= order[a]
           before(a, b) == earlier(<<lead(a), order[a]>>, <<lead(b), order[b]>>)
           R == {p \in reads \X reads : before(p[1], p[2])}
           num(id) == Cardinality({a \in reads : <<a, id>> \in R})
<1>1. ASSUME NEW id \in reads PROVE lead(id) \in Nat
  <2>1. ofKid(id) \in SUBSET Nat /\ ofKid(id) # {}
    OBVIOUS
  <2>2. PICK m \in ofKid(id) : \A x \in ofKid(id) : m <= x
    <3> HIDE DEF ofKid
    <3> QED BY <2>1, LeastExists
  <2>3. /\ m \in {order[a] : a \in reads}
        /\ \E a \in reads : KidOf[a] = KidOf[id] /\ order[a] = m
        /\ \A a \in reads : KidOf[a] = KidOf[id] => m <= order[a]
    BY <2>2
  <2>4. lead(id) \in {order[a] : a \in reads}
    BY <2>3
  <2> HIDE DEF lead
  <2> QED BY <2>4
<1> HIDE DEF lead
<1>2. ASSUME NEW a \in reads PROVE order[a] \in Nat
  OBVIOUS
<1>3. ASSUME NEW x \in reads, NEW y \in reads, <<x, y>> \in R PROVE num(x) < num(y)
  <2>1. \A a \in reads : <<a, a>> \notin R
    BY <1>1, <1>2 DEF earlier
  <2>2. \A a, b, c \in reads : <<a, b>> \in R /\ <<b, c>> \in R => <<a, c>> \in R
    BY <1>1, <1>2 DEF earlier
  <2>3. R \in SUBSET (reads \X reads)
    OBVIOUS
  <2> HIDE DEF R
  <2> QED BY <2>1, <2>2, <2>3, <1>3, RankGrows
<1>4. ASSUME NEW x \in reads PROVE num(x) \in Nat /\ num(x) < Cardinality(reads)
  <2> DEFINE S == {a \in reads : <<a, x>> \in R}
  <2>1. S \in SUBSET reads /\ x \notin S
    BY <1>1, <1>2 DEF earlier
  <2> HIDE DEF S
  <2>2. Cardinality(S) \in Nat /\ Cardinality(S) < Cardinality(reads)
    BY <2>1, LessCounted
  <2> QED BY <2>2 DEF S
<1>5. ASSUME NEW x \in reads, NEW y \in reads, x # y PROVE num(x) # num(y)
  <2>1. <<x, y>> \in R \/ <<y, x>> \in R
    BY <1>1, <1>2, <1>5 DEF earlier
  <2> HIDE DEF R, num
  <2> QED BY <2>1, <1>3, <1>4
<1>6. ASSUME NEW i \in 1..Cardinality(reads) PROVE \E id \in reads : num(id) = i - 1
  <2> DEFINE f == [id \in reads |-> num(id)]
  <2>0. Cardinality(reads) \in Nat
    BY FS_CardinalityType
  <2> HIDE DEF num
  <2>1. f \in [reads -> Nat] /\ \A x \in reads : f[x] < Cardinality(reads)
    BY <1>4
  <2>2. \A x, y \in reads : f[x] = f[y] => x = y
    BY <1>5
  <2>3. i - 1 \in Nat /\ i - 1 < Cardinality(reads)
    BY <2>0
  <2>4. \E id \in reads : f[id] = i - 1
    <3> HIDE DEF f
    <3> QED BY <2>1, <2>2, <2>3, RankReaches
  <2> QED BY <2>4
<1>7. ASSUME NEW id \in reads PROVE Cardinality({a \in reads : before(a, id)}) = num(id)
  <2>1. {a \in reads : <<a, id>> \in R} = {a \in reads : before(a, id)}
    OBVIOUS
  <2> QED BY <2>1
<1>8. groupByKid(reads, order)
        = [i \in 1..Cardinality(reads) |->
             CHOOSE id \in reads : Cardinality({a \in reads : before(a, id)}) = i - 1]
  BY DEF groupByKid, lead
<1>9. ASSUME NEW i \in 1..Cardinality(reads)
      PROVE  (CHOOSE id \in reads : Cardinality({a \in reads : before(a, id)}) = i - 1) \in reads
  <2>1. \E id \in reads : Cardinality({a \in reads : before(a, id)}) = i - 1
    <3> HIDE DEF num, before
    <3> QED BY <1>6, <1>7
  <2> HIDE DEF before
  <2> QED BY <2>1
<1>10. Cardinality(reads) \in Nat
  BY FS_CardinalityType
<1> DEFINE at(i) == CHOOSE id \in reads : Cardinality({a \in reads : before(a, id)}) = i - 1
<1>11. groupByKid(reads, order) = [i \in 1..Cardinality(reads) |-> at(i)]
  BY <1>8
<1>12. \A i \in 1..Cardinality(reads) : at(i) \in reads
  BY <1>9
<1> HIDE DEF at
<1> QED BY <1>10, <1>11, <1>12

-----------------------------------------------------------------------------
(* Each step of the surface preserves DetailInv. *)

\* The pages staged and not remembered are finitely many.
LEMMA UnsavedCounted ==
  IsFiniteSet(Unsaved) /\ Cardinality(Unsaved) \in Nat
<1>1. Unsaved \in SUBSET AllIds
  BY DEF Unsaved
<1> QED BY <1>1, Finitely, PartCounted

\* Nothing more is owed when nothing more is unsaved and no outage taken back.
LEMMA OwedKept ==
  ASSUME NEW U, NEW V \in SUBSET U, IsFiniteSet(U), NEW t \in Nat, NEW o \in Nat, NEW p \in Nat,
         t + Cardinality(U) <= o, o <= p
  PROVE  t + Cardinality(V) <= p
<1>1. Cardinality(V) <= Cardinality(U) /\ Cardinality(V) \in Nat /\ Cardinality(U) \in Nat
  BY PartCounted, FS_CardinalityType
<1> QED BY <1>1

\* The bounds are numbers.
LEMMA QueueBounds ==
  /\ MaxAge \in Nat /\ Never = MaxAge + 1 /\ MaxEvents \in Nat /\ MaxSeen \in Nat
  /\ Caps \subseteq Nat \ {0} /\ KidSeq \in Seq(Kid) /\ Len(KidSeq) \in Nat \ {0}
<1>1. /\ MaxAge \in Nat /\ MaxEvents \in Nat /\ MaxSeen \in Nat
      /\ Caps \subseteq Nat \ {0} /\ KidSeq \in Seq(Kid) /\ KidSeq # <<>>
  BY QueueAssumption
<1>2. Len(KidSeq) \in Nat \ {0}
  BY <1>1
<1> QED BY <1>1, <1>2 DEF Never

LEMMA DetailStarts == DetailInit => DetailInv
<1> SUFFICES ASSUME DetailInit PROVE DetailInv
  OBVIOUS
<1>0. /\ maxPerPoll \in Caps /\ shown = Listed0
      /\ entry = [id \in AllIds |-> 1] /\ detail = [id \in AllIds |-> 1]
      /\ row = [id \in AllIds |-> NoRow] /\ seen = [id \in AllIds |-> 0]
      /\ turn = 0 /\ work = <<>> /\ view = "none" /\ step = "idle"
      /\ forgotten = {} /\ given = {} /\ twice = 0 /\ edits = 0 /\ outages = 0
  BY DEF DetailInit
<1>1. NoRow \in RowType
  BY QueueBounds DEF NoRow, RowType
<1>2. Listed0 \subseteq AllIds /\ \A k \in Kid : Cardinality(Listed0 \cap RowsOf(k)) <= MaxSeen
  BY QueueAssumption
<1>3. DetailTypes
  BY <1>0, <1>1, <1>2, QueueBounds DEF DetailTypes
<1>4. Versions
  BY <1>0 DEF Versions
<1>5. Reads
  <2>1. work \in Seq(shown) /\ Len(work) = 0
    BY <1>0
  <2>2. maxPerPoll \in Nat
    BY <1>0, QueueBounds
  <2> QED BY <2>1, <2>2, <1>0 DEF Reads
<1>6. ShortLists
  BY <1>0, <1>2 DEF ShortLists
<1>7. Staged
  BY <1>0 DEF Staged
<1>8. OutagesOwed
  <2>1. Unsaved = {}
    BY <1>0 DEF Unsaved
  <2> QED BY <2>1, <1>0, FS_EmptySet DEF OutagesOwed
<1> QED BY <1>3, <1>4, <1>5, <1>6, <1>7, <1>8 DEF DetailInv

LEMMA EditKeeps ==
  ASSUME DetailInv, NEW id \in AllIds, Edit(id)
  PROVE  DetailInv'
<1>0. /\ step = "idle" /\ edits + outages < MaxEvents /\ edits' = edits + 1
      /\ UNCHANGED <<maxPerPoll, row, seen, turn, work, view, step, given, twice, outages>>
  BY DEF Edit
<1>1. work = <<>>
  BY <1>0 DEF DetailInv, Reads
<1>t. DetailTypes
  BY DEF DetailInv
<1>b. MaxEvents \in Nat
  BY QueueBounds
<1>u. /\ edits' \in Nat /\ outages' \in Nat /\ edits' + outages' <= MaxEvents /\ twice' \in Nat
      /\ row' \in [AllIds -> RowType] /\ seen' \in [AllIds -> Nat] /\ turn' \in 0..(Len(KidSeq) - 1)
      /\ maxPerPoll' \in Caps /\ view' \in Kid \cup {"none"} /\ given' \subseteq AllIds \X Nat
  BY <1>0, <1>t, <1>b DEF DetailTypes
\* What holds whatever the portal changed.
<1>r. ASSUME shown' \subseteq AllIds PROVE Reads'
  <2>1. work' \in Seq(shown') /\ Len(work') = 0 /\ work' = <<>> /\ step' = "idle"
    BY <1>0, <1>1
  <2>2. maxPerPoll' \in Nat
    BY <1>0, <1>t, QueueBounds DEF DetailTypes
  <2> QED BY <2>1, <2>2 DEF Reads
<1>o. ASSUME Unsaved' \subseteq Unsaved PROVE OutagesOwed'
  <2>1. twice \in Nat /\ outages \in Nat /\ twice + Cardinality(Unsaved) <= outages
    BY <1>t DEF DetailTypes, DetailInv, OutagesOwed
  <2>2. twice + Cardinality(Unsaved') <= outages
    BY <1>o, <2>1, UnsavedCounted, OwedKept
  <2> QED BY <2>2, <1>0 DEF OutagesOwed
<1>2. CASE entry' = [entry EXCEPT ![id] = 3 - @] /\ UNCHANGED <<detail, shown, forgotten>>
  <2>1. DetailTypes'
    <3>1. entry' \in [AllIds -> 1..2]
      <4>1. entry \in [AllIds -> 1..2] /\ 3 - entry[id] \in 1..2
        BY <1>t DEF DetailTypes
      <4> QED BY <4>1, <1>2
    <3> QED BY <3>1, <1>u, <1>2, <1>t DEF DetailTypes
  <2>2. Versions'
    BY <1>0, <1>2, <1>t DEF DetailInv, Versions, DetailTypes
  <2>3. ShortLists' /\ Staged'
    BY <1>0, <1>2 DEF DetailInv, ShortLists, Staged
  <2>4. Unsaved' = Unsaved
    BY <1>0, <1>2 DEF Unsaved
  <2> QED BY <2>1, <2>2, <2>3, <2>4, <1>r, <1>o, <1>2, <1>t DEF DetailInv, DetailTypes
<1>3. CASE detail' = [detail EXCEPT ![id] = @ + 1] /\ UNCHANGED <<entry, shown, forgotten>>
  <2>0. /\ detail[id] \in Nat /\ detail'[id] = detail[id] + 1
        /\ \A j \in AllIds : j # id => detail'[j] = detail[j]
    BY <1>3, <1>t DEF DetailTypes
  <2>1. DetailTypes'
    <3>1. detail' \in [AllIds -> Nat \ {0}]
      BY <1>3, <1>t DEF DetailTypes
    <3> QED BY <3>1, <1>u, <1>3, <1>t DEF DetailTypes
  <2>2. Versions'
    <3>1. ASSUME NEW j \in AllIds PROVE detail'[j] <= 1 + edits' /\ seen'[j] <= detail'[j]
      <4>1. detail[j] <= 1 + edits /\ seen[j] <= detail[j]
        BY DEF DetailInv, Versions
      <4>2. detail[j] \in Nat /\ seen[j] \in Nat /\ edits \in Nat /\ seen'[j] = seen[j]
        BY <1>t, <1>0 DEF DetailTypes
      <4> QED BY <4>1, <4>2, <2>0, <1>0
    <3> QED BY <3>1 DEF Versions
  <2>3. ShortLists'
    BY <1>3 DEF DetailInv, ShortLists
  <2>4. ASSUME NEW g \in given PROVE g[1] \in AllIds /\ g[2] \in Nat /\ g[2] <= detail[g[1]]
    BY <1>t DEF DetailTypes, DetailInv, Staged
  <2>5. Staged'
    <3>1. ASSUME NEW g \in given PROVE g[2] <= detail'[g[1]]
      BY <2>4, <2>0, <1>t DEF DetailTypes
    <3> QED BY <3>1, <1>0, <1>3 DEF DetailInv, Staged
  <2>6. Unsaved' \subseteq Unsaved
    <3>1. <<id, detail'[id]>> \notin given
      <4>1. ~(detail'[id] <= detail[id])
        BY <2>0
      <4> QED BY <2>4, <4>1
    <3>2. ASSUME NEW j \in Unsaved' PROVE j \in Unsaved
      <4>1. j \in AllIds \ forgotten /\ <<j, detail'[j]>> \in given /\ seen[j] # detail'[j]
        BY <3>2, <1>0, <1>3 DEF Unsaved
      <4>2. j # id
        BY <4>1, <3>1
      <4> QED BY <4>1, <4>2, <2>0 DEF Unsaved
    <3> QED BY <3>2
  <2> QED BY <2>1, <2>2, <2>3, <2>5, <2>6, <1>r, <1>o, <1>3, <1>t DEF DetailInv, DetailTypes
<1>4. ASSUME NEW out \in SUBSET {id}, NEW in \in {{}} \cup {{a} : a \in RowsOf(KidOf[id]) \ shown},
             out \subseteq shown,
             shown' = (shown \ out) \cup in, forgotten' = forgotten \cup out,
             Cardinality(shown' \cap RowsOf(KidOf[id])) <= MaxSeen,
             UNCHANGED <<entry, detail>>
      PROVE  DetailInv'
  <2>0. in \subseteq RowsOf(KidOf[id]) /\ RowsOf(KidOf[id]) \subseteq AllIds /\ out \subseteq {id}
    <3>1. KidOf[id] \in Kid
      BY Owner
    <3> QED BY <3>1 DEF AllIds
  <2>1. DetailTypes'
    <3>1. shown' \subseteq AllIds /\ forgotten' \subseteq AllIds
      BY <1>4, <2>0, <1>t DEF DetailTypes
    <3> QED BY <3>1, <1>u, <1>4, <1>t DEF DetailTypes
  <2>2. Versions'
    BY <1>0, <1>4, <1>t DEF DetailInv, Versions, DetailTypes
  <2>3. ShortLists'
    <3>1. ASSUME NEW k \in Kid, k # KidOf[id] PROVE shown' \cap RowsOf(k) = shown \cap RowsOf(k)
      <4>1. KidOf[id] \in Kid /\ id \in RowsOf(KidOf[id])
        BY Owner
      <4>2. RowsOf(k) \cap RowsOf(KidOf[id]) = {}
        BY <3>1, <4>1, QueueAssumption
      <4> QED BY <4>1, <4>2, <2>0, <1>4
    <3>2. ASSUME NEW k \in Kid PROVE Cardinality(shown' \cap RowsOf(k)) <= MaxSeen
      <4>1. CASE k = KidOf[id]
        BY <4>1, <1>4
      <4>2. CASE k # KidOf[id]
        BY <4>2, <3>1 DEF DetailInv, ShortLists
      <4> QED BY <4>1, <4>2
    <3> QED BY <3>2 DEF ShortLists
  <2>4. Staged'
    <3>1. shown \cup forgotten \subseteq shown' \cup forgotten'
      BY <1>4
    <3> QED BY <3>1, <1>0, <1>4 DEF DetailInv, Staged
  <2>5. Unsaved' \subseteq Unsaved
    BY <1>0, <1>4 DEF Unsaved
  <2> QED BY <2>1, <2>2, <2>3, <2>4, <2>5, <1>r, <1>o DEF DetailInv, DetailTypes
<1> QED BY <1>2, <1>3, <1>4 DEF Edit

LEMMA PollKeeps ==
  ASSUME DetailInv, NEW kids \in SUBSET Kid, pollOf(kids)
  PROVE  DetailInv'
<1>t. DetailTypes
  BY DEF DetailInv
<1>b. MaxEvents \in Nat /\ Len(KidSeq) \in Nat \ {0} /\ Caps \subseteq Nat \ {0}
  BY QueueBounds
<1> DEFINE aged == agedRows(kids)
           n == Cardinality(kids)
           due == dueRows(aged, kids)
           number == queued(aged, due)
           order == interleave(aged, number, nextTurn(n), kids)
           reads == {id \in due : order[id] < maxPerPoll}
<1>n. IsFiniteSet(kids) /\ n \in Nat /\ n <= Len(KidSeq)
  BY Finitely, PartCounted, <1>b
<1>1. aged \in [AllIds -> RowType]
  BY <1>t, AgedTyped DEF DetailTypes
<1>2. due \subseteq shown /\ due \in SUBSET AllIds /\ \A id \in due : KidOf[id] \in kids
  BY <1>t DEF dueRows, DetailTypes
<1>3. nextTurn(n) \in Nat /\ (n # 0 => nextTurn(n) \in 0..(n - 1))
  BY <1>t, <1>n, <1>b DEF nextTurn, DetailTypes
<1>4. number \in [due -> Nat]
  BY <1>1, <1>2, QueuedApart
<1>5. due # {} => nextTurn(n) \in 0..(n - 1)
  <2>1. ASSUME due # {} PROVE n # 0
    <3>1. kids # {}
      BY <2>1, <1>2
    <3> QED BY <3>1, <1>n, FS_EmptySet
  <2> QED BY <2>1, <1>3
<1>6. order \in [due -> Nat] /\ \A x, y \in due : order[x] = order[y] => x = y
  <2>1. number = queued(aged, due) /\ kids \in SUBSET Kid
    OBVIOUS
  <2>2. \A id \in due : KidOf[id] \in kids
    BY <1>2
  <2> HIDE DEF aged, due, number
  <2> QED BY <1>1, <1>2, <1>3, <1>4, <1>5, <2>1, <2>2, InterleaveApart
<1>7. maxPerPoll \in Nat
  BY <1>t, <1>b DEF DetailTypes
<1>8. reads \in SUBSET due /\ IsFiniteSet(reads) /\ Cardinality(reads) <= maxPerPoll
      /\ Cardinality(reads) \in Nat
  <2> HIDE DEF order, due
  <2> QED BY <1>6, <1>7, BelowCap
<1>9. groupByKid(reads, order) \in Seq(reads) /\ Len(groupByKid(reads, order)) = Cardinality(reads)
  <2> HIDE DEF order, due, reads
  <2> QED BY <1>6, <1>8, GroupTyped
<1>10. /\ step = "idle"
       /\ outages' = outages + Cardinality(Kid \ kids) /\ outages' + edits <= MaxEvents
       /\ work' = groupByKid(reads, order)
       /\ step' = IF reads = {} THEN "idle" ELSE "execute"
       /\ turn' = IF n <= 1 THEN turn ELSE (nextTurn(n) + 1) % n
       /\ row' = [id \in AllIds |-> IF id \in due \ reads THEN markWaiting(aged[id], id) ELSE aged[id]]
       /\ view' = "none"
       /\ UNCHANGED <<maxPerPoll, shown, entry, detail, seen, forgotten, given, twice, edits>>
  <2>1. DOMAIN order = due
    BY <1>6
  <2>2. reads = {id \in DOMAIN order : order[id] < maxPerPoll}
    BY <2>1
  <2> QED BY <2>1, <2>2, ZenonT(40) DEF pollOf
<1> HIDE DEF due, order, reads, number
<1>11. row' \in [AllIds -> RowType]
  <2>1. ASSUME NEW r \in RowType, NEW id PROVE markWaiting(r, id) \in RowType
    <3>1. r.since = Never => waiting(r, id) \in 0..Never
      BY QueueBounds DEF RowType, waiting
    <3> HIDE DEF waiting
    <3> QED BY <3>1 DEF markWaiting, RowType
  <2>2. ASSUME NEW id \in AllIds
        PROVE  (IF id \in due \ reads THEN markWaiting(aged[id], id) ELSE aged[id]) \in RowType
    <3> HIDE DEF aged
    <3> QED BY <2>1, <1>1
  <2> HIDE DEF aged
  <2> QED BY <2>2, <1>10
<1>12. turn' \in 0..(Len(KidSeq) - 1)
  <2>1. CASE n <= 1
    BY <2>1, <1>10, <1>t DEF DetailTypes
  <2>2. CASE ~(n <= 1)
    <3>1. turn' = (nextTurn(n) + 1) % n
      BY <2>2, <1>10
    <3>2. (nextTurn(n) + 1) % n \in 0..(n - 1)
      <4> HIDE DEF n
      <4> QED BY <1>3, <1>n, <2>2
    <3> HIDE DEF n
    <3> QED BY <3>1, <3>2, <1>n, <1>b
  <2> QED BY <2>1, <2>2
<1>13. outages' \in Nat /\ outages <= outages'
  <2>1. Cardinality(Kid \ kids) \in Nat
    BY Finitely, PartCounted
  <2> QED BY <2>1, <1>10, <1>t DEF DetailTypes
<1>14. DetailTypes'
  <2>1. edits' \in Nat /\ edits' + outages' <= MaxEvents
    BY <1>10, <1>13, <1>t, <1>b DEF DetailTypes
  <2>2. UNCHANGED <<maxPerPoll, shown, entry, detail, seen, forgotten, given, twice>> /\ view' = "none"
    BY <1>10
  <2> QED BY <2>1, <2>2, <1>11, <1>12, <1>13, <1>t DEF DetailTypes
<1>15. Versions' /\ ShortLists' /\ Staged'
  BY <1>10 DEF DetailInv, Versions, ShortLists, Staged
<1>16. Reads'
  <2>1. work' \in Seq(reads) /\ Len(work') = Cardinality(reads)
    BY <1>9, <1>10
  <2>2. reads \subseteq shown'
    BY <1>8, <1>2, <1>10
  <2>3. work' \in Seq(shown')
    BY <2>1, <2>2
  <2>4. work' = <<>> <=> reads = {}
    <3>1. reads = {} <=> Cardinality(reads) = 0
      BY <1>8, FS_EmptySet
    <3>2. work' = <<>> <=> Len(work') = 0
      BY <2>1
    <3> QED BY <3>1, <3>2, <2>1
  <2> QED BY <2>1, <2>3, <2>4, <1>8, <1>10 DEF Reads
<1>17. OutagesOwed'
  <2>1. Unsaved' = Unsaved
    BY <1>10 DEF Unsaved
  <2> QED BY <2>1, <1>10, <1>13, <1>t, UnsavedCounted DEF DetailInv, OutagesOwed, DetailTypes
<1> QED BY <1>14, <1>15, <1>16, <1>17 DEF DetailInv

\* What is left of the reads after some are gone is still a list of reads.
LEMMA RestOfReads ==
  ASSUME Reads, maxPerPoll \in Nat, NEW m \in Nat \ {0}
  PROVE  /\ SubSeq(work, m, Len(work)) \in Seq(shown)
         /\ Len(SubSeq(work, m, Len(work))) <= maxPerPoll
<1>1. work \in Seq(shown) /\ Len(work) \in Nat /\ Len(work) <= maxPerPoll
  BY DEF Reads
<1>2. SubSeq(work, m, Len(work)) \in Seq(shown)
  BY <1>1
<1>3. Len(SubSeq(work, m, Len(work))) = IF m <= Len(work) THEN Len(work) - m + 1 ELSE 0
  BY <1>1
<1> QED BY <1>1, <1>2, <1>3

\* While the poll executes, its next read is of a listed assignment.
LEMMA HeadListed ==
  ASSUME DetailInv, step = "execute"
  PROVE  /\ id0 \in shown /\ id0 \in AllIds /\ KidOf[id0] \in Kid
         /\ work # <<>> /\ Len(work) \in Nat \ {0} /\ maxPerPoll \in Nat
<1>1. work \in Seq(shown) /\ work # <<>> /\ shown \subseteq AllIds /\ maxPerPoll \in Nat
  BY QueueBounds DEF DetailInv, Reads, DetailTypes
<1>2. id0 \in shown
  BY <1>1 DEF id0
<1>3. Len(work) \in Nat \ {0}
  BY <1>1
<1> QED BY <1>1, <1>2, <1>3, Owner

\* A step that goes on with the reads, or ends the poll, and touches neither
\* the portal nor what was staged.
LEMMA QuietKeeps ==
  ASSUME DetailInv, row' \in [AllIds -> RowType], view' \in Kid \cup {"none"},
         work' \in Seq(shown), Len(work') <= maxPerPoll,
         step' = IF work' = <<>> THEN "idle" ELSE "execute",
         outages' \in Nat, outages <= outages', edits + outages' <= MaxEvents,
         UNCHANGED <<maxPerPoll, shown, entry, detail, turn, seen, forgotten, given, twice, edits>>
  PROVE  DetailInv'
<1>1. DetailTypes'
  BY QueueBounds DEF DetailInv, DetailTypes
<1>2. Versions' /\ ShortLists' /\ Staged'
  BY DEF DetailInv, Versions, ShortLists, Staged
<1>3. Reads'
  BY DEF Reads
<1>4. OutagesOwed'
  <2>1. Unsaved' = Unsaved
    BY DEF Unsaved
  <2>2. twice \in Nat /\ outages \in Nat
    BY DEF DetailInv, DetailTypes
  <2> QED BY <2>1, <2>2, UnsavedCounted DEF DetailInv, OutagesOwed
<1> QED BY <1>1, <1>2, <1>3, <1>4 DEF DetailInv

\* An outage counted, or none.
LEMMA OutageCounts ==
  ASSUME DetailInv, NEW n \in {0, 1}, Outage(n)
  PROVE  outages' \in Nat /\ outages <= outages' /\ edits + outages' <= MaxEvents /\ outages' = outages + n
BY QueueBounds DEF Outage, DetailInv, DetailTypes

LEMMA SwitchKeeps ==
  ASSUME DetailInv, switchTo
  PROVE  DetailInv'
<1>0. step = "execute" /\ UNCHANGED <<maxPerPoll, shown, entry, detail, row, seen, turn, forgotten, given, twice, edits>>
  BY DEF switchTo
<1>1. row' \in [AllIds -> RowType] /\ view \in Kid \cup {"none"}
  BY <1>0 DEF DetailInv, DetailTypes
<1>2. Reads
  BY DEF DetailInv
<1>3. KidOf[id0] \in Kid /\ maxPerPoll \in Nat /\ Len(work) \in Nat
  BY <1>0, HeadListed
<1>4. CASE view' = KidOf[id0] /\ Outage(0) /\ UNCHANGED <<work, step>>
  <2>1. /\ work' \in Seq(shown) /\ Len(work') <= maxPerPoll
        /\ step' = IF work' = <<>> THEN "idle" ELSE "execute"
    BY <1>2, <1>4 DEF Reads
  <2>2. outages' \in Nat /\ outages <= outages' /\ edits + outages' <= MaxEvents
    BY <1>4, OutageCounts
  <2> QED BY <2>1, <2>2, <1>0, <1>1, <1>3, <1>4, QuietKeeps
<1>5. CASE Outage(1) /\ UNCHANGED view /\ endSurface
  <2>1. /\ work' \in Seq(shown) /\ Len(work') <= maxPerPoll
        /\ step' = IF work' = <<>> THEN "idle" ELSE "execute"
    BY <1>3, <1>5 DEF endSurface
  <2>2. outages' \in Nat /\ outages <= outages' /\ edits + outages' <= MaxEvents
    BY <1>5, OutageCounts
  <2> QED BY <2>1, <2>2, <1>0, <1>1, <1>5, QuietKeeps
<1>6. ASSUME NEW m, m = 1 + Cardinality({i \in 1..Len(work) : KidOf[work[i]] = KidOf[id0]}),
             Outage(1), UNCHANGED view, work' = SubSeq(work, m, Len(work)),
             step' = IF work' = <<>> THEN "idle" ELSE "execute"
      PROVE  DetailInv'
  <2>1. m \in Nat \ {0}
    <3> DEFINE S == {i \in 1..Len(work) : KidOf[work[i]] = KidOf[id0]}
    <3>1. IsFiniteSet(1..Len(work)) /\ S \in SUBSET (1..Len(work))
      BY <1>3, CountTo
    <3>2. Cardinality(S) \in Nat
      <4> HIDE DEF S
      <4> QED BY <3>1, PartCounted
    <3> QED BY <3>2, <1>6
  <2>2. work' \in Seq(shown) /\ Len(work') <= maxPerPoll
    BY <2>1, <1>2, <1>3, <1>6, RestOfReads
  <2>3. outages' \in Nat /\ outages <= outages' /\ edits + outages' <= MaxEvents
    BY <1>6, OutageCounts
  <2> QED BY <2>2, <2>3, <1>0, <1>1, <1>6, QuietKeeps
<1> QED BY <1>4, <1>5, <1>6 DEF switchTo

LEMMA FailureKeeps ==
  ASSUME DetailInv, hardFailure
  PROVE  DetailInv'
<1>0. /\ step = "execute" /\ work' = <<>> /\ step' = "idle"
      /\ UNCHANGED <<maxPerPoll, shown, entry, detail, row, seen, turn, view, forgotten, given, twice, edits>>
  BY DEF hardFailure, fetch, endSurface
<1>1. row' \in [AllIds -> RowType] /\ view' \in Kid \cup {"none"} /\ maxPerPoll \in Nat
  BY <1>0, QueueBounds DEF DetailInv, DetailTypes
<1>2. work' \in Seq(shown) /\ Len(work') <= maxPerPoll /\ step' = IF work' = <<>> THEN "idle" ELSE "execute"
  BY <1>0, <1>1
<1>3. \E n \in {0, 1} : Outage(n)
  BY DEF hardFailure
<1>4. outages' \in Nat /\ outages <= outages' /\ edits + outages' <= MaxEvents
  BY <1>3, OutageCounts
<1> QED BY <1>0, <1>1, <1>2, <1>4, QuietKeeps

\* The checkpoint's set of fingerprints drops only assignments that left the
\* list: the list is never longer than the set may be.
LEMMA BoundDropsUnlisted ==
  ASSUME DetailInv, NEW k \in Kid, NEW s \in [AllIds -> Nat], NEW j \in AllIds,
         boundDetailSeen(s, k)[j] # s[j]
  PROVE  j \notin shown /\ boundDetailSeen(s, k)[j] = 0
<1> DEFINE kept == {id \in RowsOf(k) : s[id] # 0}
           first == IF kept \ shown # {} THEN kept \ shown ELSE kept
           least == CHOOSE id \in first : \A x \in first : id <= x
<1>1. ~(Cardinality(kept) <= MaxSeen) /\ boundDetailSeen(s, k) = [s EXCEPT ![least] = 0]
  BY DEF boundDetailSeen
<1>2. RowsOf(k) \subseteq AllIds
  BY DEF AllIds
<1>3. kept \ shown # {}
  <2>1. SUFFICES ASSUME kept \subseteq shown PROVE FALSE
    OBVIOUS
  <2>2. kept \in SUBSET (shown \cap RowsOf(k))
    BY <2>1
  <2>3. IsFiniteSet(shown \cap RowsOf(k))
    <3>1. shown \cap RowsOf(k) \in SUBSET AllIds
      BY <1>2
    <3> QED BY <3>1, Finitely, PartCounted
  <2>4. Cardinality(shown \cap RowsOf(k)) <= MaxSeen
    BY DEF DetailInv, ShortLists
  <2>5. Cardinality(kept) \in Nat /\ Cardinality(kept) <= Cardinality(shown \cap RowsOf(k))
        /\ Cardinality(shown \cap RowsOf(k)) \in Nat
    <3> HIDE DEF kept
    <3> QED BY <2>2, <2>3, PartCounted, FS_CardinalityType
  <2> QED BY <1>1, <2>4, <2>5, QueueBounds
<1>4. first = kept \ shown
  BY <1>3
<1>5. least \in first
  <2>1. first \in SUBSET Nat /\ first # {}
    <3>1. AllIds \subseteq Nat
      BY Owner
    <3> QED BY <3>1, <1>2, <1>3, <1>4
  <2> HIDE DEF first
  <2>2. \E x \in first : \A y \in first : x <= y
    BY <2>1, LeastExists
  <2> QED BY <2>2
<1>6. j = least
  BY <1>1
<1>7. j \notin shown
  BY <1>4, <1>5, <1>6
<1> HIDE DEF least
<1>8. boundDetailSeen(s, k)[j] = 0
  BY <1>1, <1>6
<1> QED BY <1>7, <1>8

\* boundDetailSeen leaves a set of fingerprints.
LEMMA BoundTyped ==
  ASSUME NEW k, NEW s \in [AllIds -> Nat]
  PROVE  boundDetailSeen(s, k) \in [AllIds -> Nat]
BY DEF boundDetailSeen

LEMMA AdvanceKeeps ==
  ASSUME DetailInv, step = "execute", Advance, UNCHANGED <<shown, maxPerPoll>>
  PROVE  /\ work' \in Seq(shown) /\ Len(work') <= maxPerPoll
         /\ step' = IF work' = <<>> THEN "idle" ELSE "execute"
<1>1. work' = Tail(work) /\ step' = IF Len(work) = 1 THEN "idle" ELSE "execute"
  BY DEF Advance
<1>2. work \in Seq(shown) /\ work # <<>> /\ Len(work) \in Nat \ {0} /\ Len(work) <= maxPerPoll
      /\ maxPerPoll \in Nat
  BY HeadListed DEF DetailInv, Reads
<1>3. work' \in Seq(shown) /\ Len(work') = Len(work) - 1
  BY <1>1, <1>2
<1>4. work' = <<>> <=> Len(work) = 1
  BY <1>2, <1>3
<1> QED BY <1>1, <1>2, <1>3, <1>4

\* What Give does to the books when the checkpoint then holds newSeen: p more
\* outages, and the fingerprint saved or not.
LEMMA GiveKeeps ==
  ASSUME DetailInv, step = "execute", seen[id0] # detail[id0], Give(id0),
         row' \in [AllIds -> RowType], NEW p \in {0, 1}, Outage(p),
         work' \in Seq(shown), Len(work') <= maxPerPoll,
         step' = IF work' = <<>> THEN "idle" ELSE "execute",
         UNCHANGED <<maxPerPoll, shown, entry, detail, turn, view, edits>>,
         \/ p = 1 /\ seen' = seen
         \/ seen' = boundDetailSeen([seen EXCEPT ![id0] = detail[id0]], KidOf[id0])
  PROVE  DetailInv'
<1>t. DetailTypes
  BY DEF DetailInv
<1> DEFINE id == id0
<1>h. id \in shown /\ id \in AllIds /\ KidOf[id] \in Kid /\ detail[id] \in Nat \ {0}
  BY HeadListed, <1>t DEF DetailTypes
<1>g. /\ given' = given \cup {<<id, detail[id]>>}
      /\ twice' = IF <<id, detail[id]>> \in given /\ id \notin forgotten THEN twice + 1 ELSE twice
      /\ forgotten' = forgotten \ {id}
  BY DEF Give
<1>o. outages' \in Nat /\ outages' = outages + p /\ edits + outages' <= MaxEvents
      /\ outages \in Nat /\ twice \in Nat /\ edits \in Nat
  BY <1>t, OutageCounts DEF DetailTypes
<1>u. UNCHANGED <<maxPerPoll, shown, entry, detail, turn, view, edits>>
  OBVIOUS
<1> HIDE DEF id
\* The checkpoint afterwards.
<1>s. /\ seen' \in [AllIds -> Nat]
      /\ (p = 1 /\ seen' = seen) \/ seen'[id] = detail[id]
      /\ \A j \in AllIds : j # id => seen'[j] = seen[j] \/ (seen'[j] = 0 /\ j \notin shown)
  <2>1. CASE p = 1 /\ seen' = seen
    BY <2>1, <1>t DEF DetailTypes
  <2>2. CASE seen' = boundDetailSeen([seen EXCEPT ![id0] = detail[id0]], KidOf[id0])
    <3> DEFINE s == [seen EXCEPT ![id] = detail[id]]
    <3>1. s \in [AllIds -> Nat] /\ s[id] = detail[id] /\ \A j \in AllIds : j # id => s[j] = seen[j]
      BY <1>h, <1>t DEF DetailTypes
    <3>2. seen' = boundDetailSeen(s, KidOf[id])
      BY <2>2 DEF id
    <3> HIDE DEF s
    <3>3. ASSUME NEW j \in AllIds PROVE seen'[j] = s[j] \/ (seen'[j] = 0 /\ j \notin shown)
      BY <3>1, <3>2, <1>h, BoundDropsUnlisted
    <3>4. seen' \in [AllIds -> Nat]
      BY <3>1, <3>2, BoundTyped
    <3>5. seen'[id] = detail[id]
      BY <3>1, <3>3, <1>h
    <3> QED BY <3>1, <3>3, <3>4, <3>5
  <2> QED BY <2>1, <2>2
<1>1. DetailTypes'
  <2>1. given' \subseteq AllIds \X Nat /\ forgotten' \subseteq AllIds
    BY <1>g, <1>h, <1>t DEF DetailTypes
  <2>2. twice' \in Nat
    BY <1>g, <1>o
  <2>3. /\ maxPerPoll' \in Caps /\ shown' \subseteq AllIds /\ entry' \in [AllIds -> 1..2]
        /\ detail' \in [AllIds -> Nat \ {0}] /\ turn' \in 0..(Len(KidSeq) - 1)
        /\ view' \in Kid \cup {"none"} /\ edits' \in Nat /\ edits' + outages' <= MaxEvents
    BY <1>u, <1>o, <1>t DEF DetailTypes
  <2> QED BY <2>1, <2>2, <2>3, <1>o, <1>s DEF DetailTypes
<1>2. Versions'
  <2>1. ASSUME NEW j \in AllIds PROVE detail[j] <= 1 + edits /\ seen'[j] <= detail[j]
    <3>1. detail[j] <= 1 + edits /\ seen[j] <= detail[j] /\ detail[j] \in Nat
      BY <1>t DEF DetailInv, Versions, DetailTypes
    <3> QED BY <3>1, <1>s
  <2> QED BY <2>1, <1>u DEF Versions
<1>3. ShortLists' /\ Reads'
  BY DEF DetailInv, ShortLists, Reads
<1>4. Staged'
  <2>1. ASSUME NEW g \in given' PROVE g[2] <= detail'[g[1]] /\ g[1] \in shown' \cup forgotten'
    <3>1. CASE g \in given
      <4>1. g[2] <= detail[g[1]] /\ g[1] \in shown \cup forgotten
        BY <3>1 DEF DetailInv, Staged
      <4> QED BY <4>1, <1>g, <1>u, <1>h
    <3>2. CASE g = <<id, detail[id]>>
      BY <3>2, <1>h, <1>u
    <3> QED BY <3>1, <3>2, <1>g
  <2>2. ASSUME NEW j \in AllIds, seen'[j] # 0 PROVE <<j, seen'[j]>> \in given'
    <3>1. CASE seen'[j] = seen[j]
      BY <3>1, <2>2, <1>g DEF DetailInv, Staged
    <3>2. CASE j = id /\ seen'[j] = detail[j]
      BY <3>2, <1>g
    <3> QED BY <3>1, <3>2, <2>2, <1>s
  <2> QED BY <2>1, <2>2 DEF Staged
<1>5. OutagesOwed'
  <2> DEFINE U == Unsaved
             V == Unsaved'
  <2>0. IsFiniteSet(U) /\ Cardinality(U) \in Nat /\ twice + Cardinality(U) <= outages
    BY UnsavedCounted DEF DetailInv, OutagesOwed
  \* No other assignment's page becomes unsaved.
  <2>1. ASSUME NEW j \in V, j # id PROVE j \in U
    <3>1. j \in AllIds /\ j \notin forgotten /\ <<j, detail[j]>> \in given /\ seen'[j] # detail[j]
      BY <2>1, <1>g, <1>u DEF Unsaved
    <3>2. seen'[j] = seen[j]
      <4>1. SUFFICES ASSUME j \notin shown PROVE FALSE
        BY <3>1, <2>1, <1>s
      <4>2. j \in shown \cup forgotten
        BY <3>1 DEF DetailInv, Staged
      <4> QED BY <4>1, <4>2, <3>1
    <3> QED BY <3>1, <3>2 DEF Unsaved
  <2>2. CASE seen'[id] = detail[id]
    <3>1. id \notin V
      BY <2>2, <1>u DEF Unsaved
    <3>2. V \in SUBSET (U \ {id})
      BY <2>1, <3>1
    <3>3. IsFiniteSet(U \ {id}) /\ Cardinality(U \ {id}) \in Nat
          /\ Cardinality(U \ {id}) = IF id \in U THEN Cardinality(U) - 1 ELSE Cardinality(U)
      <4> HIDE DEF U
      <4> QED BY <2>0, FS_RemoveElement, FS_CardinalityType
    <3>4. twice' + Cardinality(U \ {id}) <= outages
      <4>0. Cardinality(U \ {id}) \in Nat /\ Cardinality(U \ {id}) <= Cardinality(U)
            /\ Cardinality(U) \in Nat /\ twice + Cardinality(U) <= outages
        <5> HIDE DEF U
        <5> QED BY <3>3, <2>0
      <4>1. CASE <<id, detail[id]>> \in given /\ id \notin forgotten
        <5>1. id \in U
          BY <4>1, <1>h DEF Unsaved, id
        <5> HIDE DEF U
        <5> QED BY <4>1, <5>1, <3>3, <2>0, <1>g, <1>o
      <4>2. CASE ~(<<id, detail[id]>> \in given /\ id \notin forgotten)
        <5>1. twice' = twice
          BY <4>2, <1>g
        <5> HIDE DEF U
        <5> QED BY <5>1, <4>0, <1>o
      <4> QED BY <4>1, <4>2
    <3>5. twice' \in Nat /\ outages <= outages'
      BY <1>g, <1>o
    <3>6. twice' + Cardinality(V) <= outages'
      <4> HIDE DEF U, V
      <4> QED BY <3>2, <3>3, <3>4, <3>5, <1>o, OwedKept
    <3> QED BY <3>6 DEF OutagesOwed
  <2>3. CASE p = 1 /\ seen' = seen
    <3>1. V \in SUBSET (U \cup {id})
      BY <2>1
    <3>2. IsFiniteSet(U \cup {id}) /\ Cardinality(U \cup {id}) \in Nat
          /\ Cardinality(U \cup {id}) = IF id \in U THEN Cardinality(U) ELSE Cardinality(U) + 1
      <4> HIDE DEF U
      <4> QED BY <2>0, FS_AddElement, FS_CardinalityType
    <3>3. twice' + Cardinality(U \cup {id}) <= outages'
      <4>1. CASE <<id, detail[id]>> \in given /\ id \notin forgotten
        <5>1. id \in U
          BY <4>1, <1>h DEF Unsaved, id
        <5> HIDE DEF U
        <5> QED BY <4>1, <5>1, <3>2, <2>0, <2>3, <1>g, <1>o
      <4>2. CASE ~(<<id, detail[id]>> \in given /\ id \notin forgotten)
        <5> HIDE DEF U
        <5> QED BY <4>2, <3>2, <2>0, <2>3, <1>g, <1>o
      <4> QED BY <4>1, <4>2
    <3>4. twice' \in Nat
      BY <1>g, <1>o
    <3>5. twice' + Cardinality(V) <= outages'
      <4> HIDE DEF U, V
      <4> QED BY <3>1, <3>2, <3>3, <3>4, <1>o, OwedKept
    <3> QED BY <3>5 DEF OutagesOwed
  <2> QED BY <2>2, <2>3, <1>s
<1> QED BY <1>1, <1>2, <1>3, <1>4, <1>5 DEF DetailInv

LEMMA CrashKeeps ==
  ASSUME DetailInv, detailCrash
  PROVE  DetailInv'
<1>0. /\ step = "execute" /\ seen[id0] # detail[id0] /\ Give(id0) /\ Outage(1)
      /\ work' = <<>> /\ step' = "idle"
      /\ UNCHANGED <<maxPerPoll, shown, entry, detail, row, seen, turn, view, edits>>
  BY DEF detailCrash, fetch, endSurface
<1>1. row' \in [AllIds -> RowType] /\ maxPerPoll \in Nat
  BY <1>0, QueueBounds DEF DetailInv, DetailTypes
<1>2. work' \in Seq(shown) /\ Len(work') <= maxPerPoll /\ step' = IF work' = <<>> THEN "idle" ELSE "execute"
  BY <1>0, <1>1
<1> QED BY <1>0, <1>1, <1>2, GiveKeeps

LEMMA HandleKeeps ==
  ASSUME DetailInv, handle
  PROVE  DetailInv'
<1>0. /\ step = "execute" /\ rememberRow(id0) /\ Advance
      /\ UNCHANGED <<maxPerPoll, shown, entry, detail, turn, view, edits>>
  BY DEF handle, fetch
<1>1. row' \in [AllIds -> RowType]
  <2>1. id0 \in AllIds /\ row \in [AllIds -> RowType] /\ entry[id0] \in 1..2
    BY <1>0, HeadListed DEF DetailInv, DetailTypes
  <2>2. [NoRow EXCEPT !.known = TRUE, !.fp = entry[id0], !.at = 0] \in RowType
    <3>1. NoRow \in RowType /\ 0 \in 0..Never
      BY QueueBounds DEF NoRow, RowType
    <3>2. entry[id0] \in 0..2
      BY <2>1
    <3> HIDE DEF id0
    <3> QED BY <3>1, <3>2 DEF RowType
  <2> QED BY <2>1, <2>2, <1>0 DEF rememberRow
<1>2. /\ work' \in Seq(shown) /\ Len(work') <= maxPerPoll
      /\ step' = IF work' = <<>> THEN "idle" ELSE "execute"
  BY <1>0, AdvanceKeeps
<1>3. view' \in Kid \cup {"none"}
  BY <1>0 DEF DetailInv, DetailTypes
<1>4. ASSUME UNCHANGED <<seen, given, twice, forgotten>>, NEW n \in {0, 1}, Outage(n) PROVE DetailInv'
  <2>1. outages' \in Nat /\ outages <= outages' /\ edits + outages' <= MaxEvents
    BY <1>4, OutageCounts
  <2> QED BY <2>1, <1>0, <1>1, <1>2, <1>3, <1>4, QuietKeeps
<1>5. ASSUME seen[id0] # detail[id0], Outage(0), Give(id0),
             seen' = boundDetailSeen([seen EXCEPT ![id0] = detail[id0]], KidOf[id0])
      PROVE  DetailInv'
  BY <1>0, <1>1, <1>2, <1>5, GiveKeeps
<1> QED BY <1>4, <1>5 DEF handle

\* The queue of detail pages keeps its invariant.
LEMMA DetailInvariant == DetailSpec => []DetailInv
<1>1. DetailInit => DetailInv
  BY DetailStarts
<1>2. DetailInv /\ [DetailNext]_detailVars => DetailInv'
  <2> SUFFICES ASSUME DetailInv, [DetailNext]_detailVars PROVE DetailInv'
    OBVIOUS
  <2>1. ASSUME NEW id \in AllIds, Edit(id) PROVE DetailInv'
    BY <2>1, EditKeeps
  <2>2. ASSUME ProcessAssignmentDetails PROVE DetailInv'
    BY <2>2, PollKeeps DEF ProcessAssignmentDetails
  <2>3. CASE UNCHANGED detailVars
    BY <2>3 DEF detailVars, DetailInv, DetailTypes, Versions, Reads, ShortLists, Staged, OutagesOwed, Unsaved
  <2> QED BY <2>1, <2>2, <2>3, SwitchKeeps, HandleKeeps, FailureKeeps, CrashKeeps DEF DetailNext
<1> QED BY <1>1, <1>2, PTL DEF DetailSpec

\* Whatever the kids, the assignments on their lists and the cap, however the
\* lists, the rows and the pages change and whatever fails in between: no poll
\* reads more than max_per_poll pages, no age or turn leaves its range, and an
\* assignment that stays listed is staged once per content, but for what an
\* outage between staging and saving stages again (plan, execute,
\* boundDetailSeen, saveDetailSeen).
THEOREM DetailIsSafe == DetailSpec => []DetailSafe
<1>1. DetailInv => DetailSafe
  <2> SUFFICES ASSUME DetailInv PROVE DetailSafe
    OBVIOUS
  <2>1. DetailTypes /\ Versions /\ Reads
    BY DEF DetailInv
  <2>2. MaxEvents \in Nat
    BY QueueBounds
  <2>3. ASSUME NEW id \in AllIds PROVE detail[id] \in 1..(1 + MaxEvents) /\ seen[id] \in 0..(1 + MaxEvents)
    <3>1. detail[id] \in Nat \ {0} /\ seen[id] \in Nat /\ edits \in Nat /\ outages \in Nat
          /\ edits + outages <= MaxEvents /\ detail[id] <= 1 + edits /\ seen[id] <= detail[id]
      BY <2>1 DEF DetailTypes, Versions
    <3> QED BY <3>1, <2>2
  <2>4. detail \in [AllIds -> 1..(1 + MaxEvents)] /\ seen \in [AllIds -> 0..(1 + MaxEvents)]
    BY <2>1, <2>3 DEF DetailTypes
  <2>5. edits + outages \in 0..MaxEvents
    BY <2>1, <2>2 DEF DetailTypes
  <2>6. DetailTypeOK
    BY <2>1, <2>4, <2>5 DEF DetailTypes, DetailTypeOK, RowType, Reads
  <2>7. ListedStagedOnce
    <3>1. twice \in Nat /\ outages \in Nat /\ twice + Cardinality(Unsaved) <= outages
      BY DEF DetailInv, DetailTypes, OutagesOwed
    <3> QED BY <3>1, UnsavedCounted DEF ListedStagedOnce
  <2> QED BY <2>6, <2>7 DEF DetailSafe
<1> QED BY <1>1, DetailInvariant, PTL
=============================================================================
