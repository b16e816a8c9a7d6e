--------------------------- MODULE Journal_proofs ---------------------------
(***************************************************************************)
(* Proofs about Journal, for any household, scopes, snapshots, notes,      *)
(* replicas, scanner versions and number of concurrent transactions: an    *)
(* erasure is complete and stays complete, every stored verdict is true of *)
(* its text, sequence numbers become visible in order, transactions never  *)
(* wait for each other in a circle, what the tables say replays from the   *)
(* history and is the newest observation, and a removal beyond the guard   *)
(* is only ever made by an operator's confirmation.                        *)
(*                                                                         *)
(* JournalInv is the inductive invariant.  What carries the argument is    *)
(* InFlight: what a transaction may still commit was checked under locks   *)
(* it still holds, so an erase of its subject or author cannot have        *)
(* happened in between.  HistoryInv adds what the stored rows owe to the   *)
(* events and snapshots and what a plan in flight may rely on; GuardInv    *)
(* that a plan in flight still removes what its guard counted.             *)
(***************************************************************************)
EXTENDS Journal, FiniteSetTheorems, TLAPS

Subjects == Members \cup {Household}
Ids == ({"grade"} \X Members \X Keys)
         \cup ({"note"} \X (Subjects \cup Pseudonyms) \X Members)
Verdicts == {"pass", "fail"}
Texts == Values \cup {None}

Rows == [scope : Scopes \cup Subjects, val : Values, removed : BOOLEAN, confAt : Nat,
         confBy : SnapIds \cup {None}, seq : Nat, verdict : Verdicts, ver : Versions]
EventRecs == [id : Ids, kind : {"created", "restored", "updated", "removed"},
              scope : Scopes \cup Subjects, old : Texts, new : Texts,
              oldV : Verdicts \cup {None}, newV : Verdicts \cup {None},
              ver : Versions \cup {"mixed"}]
Snaps == [scope : Scopes, obs : Nat, complete : BOOLEAN,
          recs : UNION {[K -> Values] : K \in SUBSET Keys},
          status : {"applied", "late", "held", "discarded"}]

-----------------------------------------------------------------------------
(* The invariant.                                                           *)

\* A row's verdict is true, and its scope belongs to its subject.
RowOK(id, r) ==
  /\ r \in Rows /\ r.verdict = Verdict(r.ver, r.val)
  /\ id[1] = "grade" => r.scope \in Scopes /\ SubjectOf[r.scope] = id[2]
  /\ id[1] = "note" => r.scope \in Subjects

\* The verdict on one side of an event is that of some version, and of the
\* event's when it has one.
SideTrue(ver, text, verdict) ==
  text # None =>
    /\ ver \in Versions => verdict = Verdict(ver, text)
    /\ \E v \in Versions : verdict = Verdict(v, text)

EventOK(e) ==
  /\ e \in EventRecs
  /\ SideTrue(e.ver, e.old, e.oldV) /\ SideTrue(e.ver, e.new, e.newV)

Tables ==
  /\ nextSeq \in Nat \ {0}
  /\ \A id \in DOMAIN cur : id \in Ids /\ RowOK(id, cur[id])
  /\ \A q \in DOMAIN events : q \in Nat /\ q < nextSeq /\ EventOK(events[q])
  /\ \A i \in DOMAIN snaps : i \in SnapIds /\ snaps[i] \in Snaps
  /\ \A s \in DOMAIN kept : s \in Pseudonyms /\ kept[s] \subseteq Members
  /\ erased \subseteq Members /\ roster \subseteq Members

\* The event a rescan has read still has the text it had, if it is still there.
Scanned ==
  /\ scan.what = "row" => scan.ver \in Versions
  /\ scan.what = "event" =>
       /\ scan.ver \in Versions /\ scan.at \in Nat /\ scan.at < nextSeq /\ EventOK(scan.was)
       /\ scan.at \in DOMAIN events =>
            events[scan.at].old = scan.was.old /\ events[scan.at].new = scan.was.new

\* No lock is held twice.
Exclusive == \A p, q \in Procs : p # q => txs[p].held \cap txs[q].held = {}

TxFields == {"op", "phase", "subj", "need", "held", "id", "snap", "author", "val", "obs",
             "ros", "subjects", "write", "confirm"}
Writing(tx) == tx.phase \in {"insert", "commit"}

\* What every operation has read, and its locks: held, or still to be taken.
TxLocks(tx) ==
  /\ DOMAIN tx = TxFields
  /\ tx.op \in {"idle", "apply", "confirm", "note", "erase"}
  /\ tx.phase \in {"locks", "insert", "commit"}
  /\ tx.op = "idle" => tx = Idle
  /\ tx.op \in {"apply", "confirm"} => /\ tx.subj \in Members /\ tx.id \in SnapIds
                                       /\ SubjectLock(tx.subj) \in tx.need \cup tx.held
  /\ tx.op = "apply" => tx.snap \in Menu /\ SubjectOf[tx.snap.scope] = tx.subj
  /\ tx.op = "note" =>
       /\ tx.subj \in Subjects /\ tx.author \in Members /\ tx.val \in Values /\ tx.obs \in Nat
       /\ {SubjectLock(tx.subj), AuthorLock(tx.author)} \subseteq tx.need \cup tx.held
  /\ tx.op = "erase" =>
       /\ tx.subj \in Members /\ tx.ros \subseteq Members
       /\ AuthorLock(tx.subj) \in tx.need \cup tx.held
       /\ tx.subjects # {} => SubjectLock(tx.subj) \in tx.need \cup tx.held

\* What a transaction has planned is about its subject, which is not erased,
\* and its numbers are ahead of every event that can be read.
InFlight(tx) ==
  Writing(tx) =>
    /\ tx.op \in {"apply", "confirm", "note"} /\ tx.need = {} /\ tx.subj \notin erased
    /\ tx.op = "note" => tx.author \notin erased
    /\ tx.op \in {"apply", "confirm"} =>
         /\ tx.snap.scope \in Scopes /\ SubjectOf[tx.snap.scope] = tx.subj
         /\ Stored(tx.snap, "applied") \in Snaps /\ tx.snap.obs = tx.obs
    /\ \A w \in tx.write :
         /\ DOMAIN w = {"id", "event", "row"} /\ w.id \in Ids /\ w.id[2] = tx.subj
         /\ w.id[1] = IF tx.op = "note" THEN "note" ELSE "grade"
         /\ tx.op = "note" => w.id[3] = tx.author
         /\ RowOK(w.id, w.row) /\ EventOK(w.event) /\ w.event.id = w.id
    /\ tx.obs \in Nat
    /\ tx.phase = "insert" => IsFiniteSet(tx.write)
    /\ tx.phase = "commit" =>
         /\ tx.write # {} => EventsLock \in tx.held
         /\ \A w \in tx.write :
              /\ w.row.seq < nextSeq
              /\ \A q \in DOMAIN events : q < w.row.seq
              /\ scan.what = "event" => scan.at # w.row.seq

\* A confirm names a snapshot of its subject, or one that an erase removed.
Confirms(tx) ==
  tx.op = "confirm" =>
    \/ tx.id \in DOMAIN snaps /\ SubjectOf[snaps[tx.id].scope] = tx.subj
    \/ tx.subj \in erased

\* Nothing is about or by an erased member, or read by one.
Free(id) == id[2] \notin erased /\ (id[1] = "note" => id[3] \notin erased)
Gone ==
  /\ \A i \in DOMAIN snaps : SubjectOf[snaps[i].scope] \notin erased
  /\ \A id \in DOMAIN cur : Free(id)
  /\ \A q \in DOMAIN events : Free(events[q].id)
  /\ \A s \in DOMAIN kept : kept[s] \cap erased = {}

JournalInv ==
  /\ Tables /\ Scanned /\ Exclusive /\ Gone /\ KeptHasReaders
  /\ DOMAIN txs = Procs
  /\ \A p \in Procs : TxLocks(txs[p]) /\ InFlight(txs[p]) /\ Confirms(txs[p])

-----------------------------------------------------------------------------
(* What one transaction keeps while another takes a step.                   *)

LEMMA InFlightKept ==
  ASSUME NEW q \in Procs, txs'[q] = txs[q], InFlight(txs[q]),
         nextSeq \in Nat, nextSeq' \in Nat, nextSeq' >= nextSeq,
         Writing(txs[q]) => /\ txs[q].subj \notin erased'
                            /\ txs[q].op = "note" => txs[q].author \notin erased',
         txs[q].phase = "commit" => \A w \in txs[q].write :
                              \A r \in DOMAIN events' \ DOMAIN events : r < w.row.seq,
         scan'.what = "event" => scan' = scan \/ scan'.at \in DOMAIN events,
         \A r \in DOMAIN events : r \in Nat
  PROVE  InFlight(txs[q])'
<1>1. ASSUME Writing(txs[q]), NEW w \in txs[q].write
      PROVE  w.row.seq \in Nat
  BY <1>1 DEF InFlight, RowOK, Rows
<1>2. ASSUME txs[q].phase = "commit", NEW w \in txs[q].write
      PROVE  /\ w.row.seq < nextSeq'
             /\ \A r \in DOMAIN events' : r < w.row.seq
             /\ scan'.what = "event" => scan'.at # w.row.seq
  <2>1. Writing(txs[q]) /\ w.row.seq \in Nat
    BY <1>1, <1>2 DEF Writing
  <2>2. w.row.seq < nextSeq /\ \A r \in DOMAIN events : r < w.row.seq
    BY <2>1, <1>2 DEF InFlight
  <2>3. scan.what = "event" => scan.at # w.row.seq
    BY <2>1, <1>2 DEF InFlight
  <2> QED
    BY <1>2, <2>1, <2>2, <2>3
<1> QED
  BY <1>2 DEF InFlight, Writing

\* A step of p alone that leaves the tables as they are.
LEMMA TxStep ==
  ASSUME JournalInv, NEW p \in Procs, UNCHANGED <<store, scan>>, roster' \subseteq Members,
         nextSeq' \in Nat, nextSeq' >= nextSeq,
         DOMAIN txs' = Procs, \A q \in Procs \ {p} : txs'[q] = txs[q],
         \A q \in Procs \ {p} : txs'[p].held \cap txs[q].held = {},
         TxLocks(txs[p])', InFlight(txs[p])', Confirms(txs[p])'
  PROVE  JournalInv'
<1> USE DEF JournalInv
<1>1. Tables'
  BY DEF Tables, store
<1>2. Scanned'
  BY DEF Scanned, store, Tables
<1>3. Exclusive'
  BY DEF Exclusive
<1>4. Gone' /\ KeptHasReaders'
  BY DEF Gone, KeptHasReaders, Free, store
<1>5. ASSUME NEW q \in Procs \ {p}
      PROVE  TxLocks(txs[q])' /\ InFlight(txs[q])' /\ Confirms(txs[q])'
  <2>1. TxLocks(txs[q])'
    BY DEF TxLocks
  <2>2. InFlight(txs[q])'
    <3>1. Writing(txs[q]) => /\ txs[q].subj \notin erased'
                             /\ txs[q].op = "note" => txs[q].author \notin erased'
      BY DEF InFlight, store
    <3> QED
      BY <3>1, InFlightKept DEF store, Tables
  <2>3. Confirms(txs[q])'
    BY DEF Confirms, store
  <2> QED
    BY <2>1, <2>2, <2>3
<1> QED
  BY <1>1, <1>2, <1>3, <1>4, <1>5

LEMMA IdleOK == /\ TxLocks(Idle) /\ InFlight(Idle) /\ Confirms(Idle)
                /\ Idle.held = {} /\ Idle.need = {} /\ Idle.op = "idle"
  BY DEF Idle, TxLocks, InFlight, Writing, Confirms, TxFields

\* The end of a transaction.
LEMMA FinishStep ==
  ASSUME JournalInv, NEW p \in Procs, Finish(p), UNCHANGED <<store, nextSeq, roster, scan>>
  PROVE  JournalInv'
<1>1. txs'[p] = Idle /\ DOMAIN txs' = Procs /\ \A q \in Procs \ {p} : txs'[q] = txs[q]
  BY DEF JournalInv, Finish
<1>2. TxLocks(txs[p])' /\ InFlight(txs[p])' /\ Confirms(txs[p])'
  BY <1>1 DEF Idle, TxLocks, InFlight, Writing, Confirms, TxFields
<1> QED
  BY <1>1, <1>2, IdleOK, TxStep DEF JournalInv, Tables

-----------------------------------------------------------------------------
(* The actions that leave the tables alone.                                 *)

LEMMA BeginStep ==
  ASSUME JournalInv, NEW p \in Procs, NEW tx, Begin(p, tx), tx.held = {},
         tx.phase = "locks", TxLocks(tx), Confirms(tx)
  PROVE  JournalInv'
<1>1. txs'[p] = tx /\ DOMAIN txs' = Procs /\ \A q \in Procs \ {p} : txs'[q] = txs[q]
  BY DEF JournalInv, Begin
<1>2. TxLocks(txs[p])' /\ InFlight(txs[p])' /\ Confirms(txs[p])'
  BY <1>1 DEF TxLocks, InFlight, Writing, Confirms, Begin, store
<1> QED
  BY <1>1, <1>2, TxStep DEF Begin, JournalInv, Tables

LEMMA BeginApplyStep ==
  ASSUME JournalInv, NEW p \in Procs, BeginApply(p)
  PROVE  JournalInv'
<1>1. PICK i \in SnapIds, s \in Menu :
        Begin(p, [Tx("apply", SubjectOf[s.scope], {SubjectLock(SubjectOf[s.scope])})
                    EXCEPT !.id = i, !.snap = s])
  BY DEF BeginApply
<1> DEFINE tx == [Tx("apply", SubjectOf[s.scope], {SubjectLock(SubjectOf[s.scope])})
                    EXCEPT !.id = i, !.snap = s]
<1>2. SubjectOf[s.scope] \in Members
  BY JournalAssumption
<1>3. /\ DOMAIN tx = TxFields /\ tx.op = "apply" /\ tx.phase = "locks" /\ tx.held = {}
      /\ tx.subj = SubjectOf[s.scope] /\ tx.id = i /\ tx.snap = s
      /\ tx.need = {SubjectLock(tx.subj)}
  BY DEF Tx, Idle, TxFields
<1> HIDE DEF tx
<1>4. TxLocks(tx) /\ Confirms(tx)
  BY <1>2, <1>3 DEF TxLocks, Confirms
<1>5. Begin(p, tx)
  BY <1>1 DEF tx
<1> QED
  BY <1>3, <1>4, <1>5, BeginStep

LEMMA BeginConfirmStep ==
  ASSUME JournalInv, NEW p \in Procs, BeginConfirm(p)
  PROVE  JournalInv'
<1>1. PICK i \in DOMAIN snaps :
        Begin(p, [Tx("confirm", SubjectOf[snaps[i].scope], {SubjectLock(SubjectOf[snaps[i].scope])})
                    EXCEPT !.id = i])
  BY DEF BeginConfirm
<1>2. PICK m \in Members : m = SubjectOf[snaps[i].scope]
  BY JournalAssumption DEF JournalInv, Tables, Snaps
<1> DEFINE tx == [Tx("confirm", m, {SubjectLock(m)}) EXCEPT !.id = i]
<1>3. /\ DOMAIN tx = TxFields /\ tx.op = "confirm" /\ tx.phase = "locks" /\ tx.held = {}
      /\ tx.subj = m /\ tx.id = i /\ tx.need = {SubjectLock(m)}
  BY DEF Tx, Idle, TxFields
<1>4. Begin(p, tx)
  BY <1>1, <1>2
<1> HIDE DEF tx
<1>5. TxLocks(tx) /\ Confirms(tx)
  BY <1>2, <1>3 DEF TxLocks, Confirms, JournalInv, Tables
<1> QED
  BY <1>3, <1>4, <1>5, BeginStep

LEMMA BeginNoteStep ==
  ASSUME JournalInv, NEW p \in Procs, BeginNote(p)
  PROVE  JournalInv'
<1>1. PICK n \in NoteMenu :
        Begin(p, NoteTx(n, {AuthorLock(n.author), SubjectLock(n.subj)}))
  BY DEF BeginNote
<1>2. PICK r : r = roster
  OBVIOUS
<1> DEFINE need == {AuthorLock(n.author), SubjectLock(n.subj)}
           tx == [Tx("note", n.subj, need) EXCEPT !.author = n.author, !.val = n.val,
                                                  !.obs = n.obs, !.ros = r]
<1>3. /\ n.author \in Members /\ n.subj \in Subjects /\ n.val \in Values /\ n.obs \in Nat
  BY JournalAssumption DEF Subjects
<1>4. /\ DOMAIN tx = TxFields /\ tx.op = "note" /\ tx.phase = "locks" /\ tx.held = {}
      /\ tx.subj = n.subj /\ tx.author = n.author /\ tx.val = n.val /\ tx.obs = n.obs
      /\ tx.need = need
  BY DEF Tx, Idle, TxFields
<1>5. Begin(p, tx)
  BY <1>1, <1>2 DEF NoteTx
<1> HIDE DEF tx
<1>6. TxLocks(tx) /\ Confirms(tx)
  BY <1>3, <1>4 DEF TxLocks, Confirms
<1> QED
  BY <1>4, <1>5, <1>6, BeginStep

LEMMA BeginEraseStep ==
  ASSUME JournalInv, NEW p \in Procs, BeginErase(p)
  PROVE  JournalInv'
<1>1. PICK m \in Members : Begin(p, [Tx("erase", m, {AuthorLock(m)}) EXCEPT !.ros = roster])
  BY DEF BeginErase
<1>2. PICK r : r = roster
  OBVIOUS
<1> DEFINE tx == [Tx("erase", m, {AuthorLock(m)}) EXCEPT !.ros = r]
<1>3. /\ DOMAIN tx = TxFields /\ tx.op = "erase" /\ tx.phase = "locks" /\ tx.held = {}
      /\ tx.subj = m /\ tx.ros = r /\ tx.need = {AuthorLock(m)} /\ tx.subjects = {}
  BY DEF Tx, Idle, TxFields
<1>4. Begin(p, tx)
  BY <1>1, <1>2
<1> HIDE DEF tx
<1>5. TxLocks(tx) /\ Confirms(tx)
  BY <1>2, <1>3 DEF TxLocks, Confirms, JournalInv, Tables
<1> QED
  BY <1>3, <1>4, <1>5, BeginStep

LEMMA AcquireStep ==
  ASSUME JournalInv, NEW p \in Procs, Acquire(p)
  PROVE  JournalInv'
<1>1. PICK l \in txs[p].need \ Held :
        txs' = [txs EXCEPT ![p].held = @ \cup {l}, ![p].need = @ \ {l}]
  BY DEF Acquire
<1> DEFINE t == txs[p]
<1>2. DOMAIN t = TxFields /\ TxLocks(t) /\ InFlight(t) /\ Confirms(t) /\ t.phase = "locks"
  BY DEF JournalInv, TxLocks, Acquire
<1>3. /\ DOMAIN txs' = Procs /\ \A q \in Procs \ {p} : txs'[q] = txs[q]
      /\ DOMAIN txs'[p] = TxFields
      /\ txs'[p].held = t.held \cup {l} /\ txs'[p].need = t.need \ {l}
      /\ \A f \in TxFields \ {"held", "need"} : txs'[p][f] = t[f]
  BY <1>1, <1>2 DEF JournalInv, TxFields
<1>4. \A q \in Procs \ {p} : txs'[p].held \cap txs[q].held = {}
  BY <1>1, <1>3 DEF JournalInv, Exclusive, Held
<1>5. /\ txs'[p].op = t.op /\ txs'[p].phase = t.phase /\ txs'[p].subj = t.subj
      /\ txs'[p].id = t.id /\ txs'[p].snap = t.snap /\ txs'[p].author = t.author
      /\ txs'[p].val = t.val /\ txs'[p].obs = t.obs /\ txs'[p].ros = t.ros
      /\ txs'[p].subjects = t.subjects
  BY <1>3 DEF TxFields
<1> HIDE DEF t
<1>6. TxLocks(txs[p])'
  <2>1. txs'[p].need \cup txs'[p].held = t.need \cup t.held
    BY <1>1, <1>3 DEF t
  <2>2. t.op # "idle"
    BY DEF Acquire, t
  <2> QED
    BY <1>2, <1>3, <1>5, <2>1, <2>2 DEF TxLocks
<1>7. InFlight(txs[p])' /\ Confirms(txs[p])'
  BY <1>2, <1>5 DEF InFlight, Writing, Confirms, Acquire, store
<1> QED
  BY <1>3, <1>4, <1>6, <1>7, TxStep DEF Acquire, JournalInv, Tables

LEMMA AuthoredStep ==
  ASSUME JournalInv, NEW p \in Procs, Authored(p)
  PROVE  JournalInv'
<1> DEFINE t == txs[p]
           S == {t.subj, Household}
                  \cup {id[2] : id \in {x \in DOMAIN cur : x[1] = "note" /\ x[3] = t.subj}}
           todo == S \ Pseudonyms
<1>1. txs' = [txs EXCEPT ![p].subjects = todo, ![p].need = {SubjectLock(s) : s \in todo}]
  BY DEF Authored
<1>2. /\ DOMAIN t = TxFields /\ TxLocks(t) /\ t.phase = "locks" /\ t.op = "erase" /\ t.need = {}
  BY DEF JournalInv, TxLocks, Authored, Ready
<1>3. t.subj \in todo
  BY <1>2, JournalAssumption DEF TxLocks
<1> HIDE DEF todo
<1>4. /\ DOMAIN txs' = Procs /\ \A q \in Procs \ {p} : txs'[q] = txs[q]
      /\ DOMAIN txs'[p] = TxFields
      /\ txs'[p].need = {SubjectLock(s) : s \in todo} /\ txs'[p].held = t.held
      /\ txs'[p].op = t.op /\ txs'[p].phase = t.phase /\ txs'[p].subj = t.subj
      /\ txs'[p].ros = t.ros
  BY <1>1, <1>2 DEF JournalInv, TxFields
<1>5. \A q \in Procs \ {p} : txs'[p].held \cap txs[q].held = {}
  BY <1>4 DEF JournalInv, Exclusive
<1> HIDE DEF t
<1>6. SubjectLock(t.subj) \in txs'[p].need
  BY <1>3, <1>4
<1>7. TxLocks(txs[p])'
  BY <1>2, <1>4, <1>6 DEF TxLocks
<1>8. InFlight(txs[p])' /\ Confirms(txs[p])'
  BY <1>2, <1>4 DEF InFlight, Writing, Confirms
<1> QED
  <2>1. UNCHANGED <<store, nextSeq, roster, scan>>
    BY DEF Authored
  <2> QED
    BY <1>4, <1>5, <1>7, <1>8, <2>1, TxStep DEF JournalInv, Tables

LEMMA ReloadStep == ASSUME JournalInv, Reload PROVE JournalInv'
<1> USE DEF JournalInv, Reload, store
<1>1. Tables' /\ Scanned' /\ Exclusive' /\ Gone' /\ KeptHasReaders' /\ DOMAIN txs' = Procs
  BY DEF Tables, Scanned, Exclusive, Gone, KeptHasReaders, Free
<1>2. \A q \in Procs : TxLocks(txs[q])' /\ InFlight(txs[q])' /\ Confirms(txs[q])'
  BY DEF TxLocks, InFlight, Writing, Confirms
<1> QED
  BY <1>1, <1>2

\* A step that changes snapshots but not their scopes, and may end transactions.
LEMMA SnapsStep ==
  ASSUME JournalInv, UNCHANGED <<cur, events, kept, erased, nextSeq, roster, scan>>,
         \A i \in DOMAIN snaps' : /\ i \in SnapIds /\ snaps'[i] \in Snaps
                                  /\ SubjectOf[snaps'[i].scope] \notin erased,
         \A i \in DOMAIN snaps : i \in DOMAIN snaps' /\ snaps'[i].scope = snaps[i].scope,
         DOMAIN txs' = Procs, \A q \in Procs : txs'[q] \in {txs[q], Idle}
  PROVE  JournalInv'
<1> USE DEF JournalInv
<1>1. Tables' /\ Scanned' /\ Gone' /\ KeptHasReaders'
  BY DEF Tables, Scanned, Gone, KeptHasReaders, Free
<1>2. Exclusive'
  BY IdleOK DEF Exclusive
<1>3. ASSUME NEW q \in Procs
      PROVE  TxLocks(txs[q])' /\ InFlight(txs[q])' /\ Confirms(txs[q])'
  <2>1. CASE txs'[q] = Idle
    BY <2>1 DEF Idle, TxLocks, InFlight, Writing, Confirms, TxFields
  <2>2. CASE txs'[q] = txs[q]
    <3>1. TxLocks(txs[q])'
      BY <2>2 DEF TxLocks
    <3>2. Confirms(txs[q])'
      BY <2>2 DEF Confirms
    <3>3. InFlight(txs[q])'
      BY <2>2 DEF InFlight, Writing
    <3> QED
      BY <3>1, <3>2, <3>3
  <2> QED
    BY <2>1, <2>2
<1> QED
  BY <1>1, <1>2, <1>3

LEMMA DiscardStep == ASSUME JournalInv, DiscardHeld PROVE JournalInv'
<1>1. PICK i \in DOMAIN snaps : snaps' = [snaps EXCEPT ![i].status = "discarded"]
  BY DEF DiscardHeld
<1>2. ASSUME NEW j \in DOMAIN snaps
      PROVE  snaps'[j] \in Snaps /\ snaps'[j].scope = snaps[j].scope
  <2>1. snaps[j] \in Snaps
    BY DEF JournalInv, Tables
  <2> QED
    BY <1>1, <2>1 DEF Snaps
<1>3. DOMAIN snaps' = DOMAIN snaps
  BY <1>1
<1>4. UNCHANGED <<cur, events, kept, erased, nextSeq, roster, scan, txs>>
  BY DEF DiscardHeld
<1> QED
  BY <1>2, <1>3, <1>4, SnapsStep DEF JournalInv, Tables, Gone

-----------------------------------------------------------------------------
(* Plans: what is built under the locks has true verdicts.                  *)

LEMMA VerdictType == \A v \in Versions, t \in Values : Verdict(v, t) \in Verdicts
  BY DEF Verdict, Verdicts

\* A change of a plan: an event other than "created" is about an existing
\* row, and a removal keeps its text.
Planned(w) ==
  /\ w.id \in Ids /\ w.kind \in {"created", "restored", "updated", "removed"} /\ w.val \in Values
  /\ w.id[1] = "grade" => w.scope \in Scopes /\ SubjectOf[w.scope] = w.id[2]
  /\ w.id[1] = "note" => w.scope \in Subjects
  /\ w.kind # "created" => w.id \in DOMAIN cur
  /\ w.kind = "removed" => w.val = cur[w.id].val

LEMMA IdKind == \A id \in Ids : id[1] \in {"grade", "note"}
  BY DEF Ids

LEMMA EventOfOK ==
  ASSUME Tables, NEW w, Planned(w), NEW ver \in Versions
  PROVE  EventOK(EventOf(w, ver)) /\ EventOf(w, ver).id = w.id
<1> DEFINE prev == cur[w.id]
           base == [id |-> w.id, kind |-> w.kind, scope |-> w.scope,
                    old |-> None, new |-> None, oldV |-> None, newV |-> None, ver |-> ver]
<1>1. base \in EventRecs
  BY IdKind DEF Planned, EventRecs, Texts
<1>2. w.kind # "created" => /\ prev \in Rows /\ prev.verdict = Verdict(prev.ver, prev.val)
                            /\ prev.ver \in Versions /\ prev.val \in Values
  BY DEF Planned, Tables, RowOK, Rows
<1>3. w.val \in Values
  BY DEF Planned
<1>4. CASE w.kind = "updated" /\ prev.val = w.val
  <2>1. EventOf(w, ver) = base
    BY <1>4 DEF EventOf
  <2> QED
    BY <2>1, <1>1 DEF EventOK, SideTrue
<1>5. CASE w.kind \in {"created", "restored"}
  <2>1. EventOf(w, ver) = [base EXCEPT !.new = w.val, !.newV = Verdict(ver, w.val)]
    BY <1>5 DEF EventOf
  <2>2. Verdict(ver, w.val) \in Verdicts
    BY <1>3, VerdictType
  <2>3. EventOf(w, ver) \in EventRecs
    BY <2>1, <2>2, <1>1, <1>3 DEF EventRecs, Texts
  <2> QED
    BY <2>1, <2>3 DEF EventOK, SideTrue
<1>6. CASE w.kind = "updated" /\ prev.val # w.val
  <2>1. EventOf(w, ver) = [base EXCEPT !.old = prev.val, !.oldV = prev.verdict,
                             !.new = w.val, !.newV = Verdict(ver, w.val),
                             !.ver = IF prev.ver = ver THEN ver ELSE "mixed"]
    BY <1>6 DEF EventOf
  <2>2. Verdict(ver, w.val) \in Verdicts /\ prev.verdict \in Verdicts
    BY <1>2, <1>3, <1>6, VerdictType
  <2> HIDE DEF prev
  <2>3. EventOf(w, ver) \in EventRecs
    BY <2>1, <2>2, <1>1, <1>2, <1>3, <1>6 DEF EventRecs, Texts
  <2> QED
    BY <2>1, <2>3, <1>2, <1>6, JournalAssumption DEF EventOK, SideTrue
<1>7. CASE w.kind = "removed"
  <2>1. EventOf(w, ver) = [base EXCEPT !.old = prev.val, !.oldV = prev.verdict, !.ver = prev.ver]
    BY <1>7 DEF EventOf
  <2>2. prev.verdict \in Verdicts
    BY <1>2, <1>7, VerdictType
  <2> HIDE DEF prev
  <2>3. EventOf(w, ver) \in EventRecs
    BY <2>1, <2>2, <1>1, <1>2, <1>7 DEF EventRecs, Texts
  <2> QED
    BY <2>1, <2>3, <1>2, <1>7 DEF EventOK, SideTrue
<1> QED
  BY <1>4, <1>5, <1>6, <1>7 DEF Planned

LEMMA RowOfOK ==
  ASSUME Tables, NEW w, Planned(w), NEW ver \in Versions, NEW obs \in Nat,
         NEW by \in SnapIds \cup {None}
  PROVE  RowOK(w.id, RowOf(w, ver, obs, by))
<1> DEFINE keep == w.kind = "removed" \/ (w.kind = "updated" /\ cur[w.id].val = w.val)
           row == RowOf(w, ver, obs, by)
<1>1. keep => /\ cur[w.id].val = w.val /\ cur[w.id].ver \in Versions
              /\ cur[w.id].verdict = Verdict(cur[w.id].ver, w.val)
  BY DEF Planned, Tables, RowOK, Rows
<1>2. /\ row.verdict = Verdict(row.ver, w.val) /\ row.ver \in Versions
      /\ row.val = w.val /\ row.scope = w.scope
  BY <1>1 DEF RowOf
<1>3. row.verdict \in Verdicts /\ w.scope \in Scopes \cup Subjects /\ w.val \in Values
  BY <1>2, VerdictType, IdKind DEF Planned
<1>4. PICK gone \in BOOLEAN : gone = (w.kind = "removed")
  OBVIOUS
<1>5. row = [scope |-> w.scope, val |-> w.val, removed |-> gone,
             confAt |-> obs, confBy |-> by, seq |-> 0, verdict |-> row.verdict, ver |-> row.ver]
  BY <1>4 DEF RowOf
<1> HIDE DEF row
<1>6. row \in Rows
  BY <1>2, <1>3, <1>5 DEF Rows
<1>7. RowOK(w.id, row)
  BY <1>2, <1>6 DEF RowOK, Planned
<1> QED
  BY <1>7 DEF row

LEMMA BuiltOK ==
  ASSUME Tables, NEW W, \A w \in W : Planned(w), NEW ver \in Versions, NEW obs \in Nat,
         NEW by \in SnapIds \cup {None}, NEW b \in Built(W, ver, obs, by)
  PROVE  /\ DOMAIN b = {"id", "event", "row"} /\ \E w \in W : b.id = w.id
         /\ b.id \in Ids /\ RowOK(b.id, b.row) /\ EventOK(b.event) /\ b.event.id = b.id
<1>1. PICK w \in W : b = [id |-> w.id, event |-> EventOf(w, ver), row |-> RowOf(w, ver, obs, by)]
  BY DEF Built
<1>2. b.id = w.id /\ b.event = EventOf(w, ver) /\ b.row = RowOf(w, ver, obs, by)
  BY <1>1
<1>3. Planned(w)
  OBVIOUS
<1>4. RowOK(w.id, RowOf(w, ver, obs, by)) /\ EventOK(EventOf(w, ver)) /\ EventOf(w, ver).id = w.id
  BY <1>3, RowOfOK, EventOfOK
<1> QED
  BY <1>1, <1>2, <1>3, <1>4 DEF Planned

\* A plan removes only rows of its scope.
LEMMA DiffOK ==
  ASSUME Tables, NEW sc, NEW obs, NEW complete \in BOOLEAN, NEW recs,
         \A id \in DOMAIN recs :
           /\ id \in Ids /\ recs[id] \in Values
           /\ id[1] = "grade" => sc \in Scopes /\ SubjectOf[sc] = id[2]
           /\ id[1] = "note" => sc \in Subjects,
         NEW w \in Diff(sc, obs, complete, recs).write \cup Diff(sc, obs, complete, recs).remove
  PROVE  /\ Planned(w)
         /\ \/ w.id \in DOMAIN recs
            \/ complete /\ w.id \in DOMAIN cur /\ cur[w.id].scope = sc
<1>1. CASE w \in Diff(sc, obs, complete, recs).write
  <2>1. PICK id \in DOMAIN recs :
          w = [id |-> id, kind |-> KindOf(id), scope |-> sc, val |-> recs[id]]
    BY <1>1 DEF Diff
  <2>2. /\ KindOf(id) \in {"created", "restored", "updated"}
        /\ KindOf(id) # "created" => id \in DOMAIN cur
    BY DEF KindOf
  <2> QED
    BY <2>1, <2>2 DEF Planned
<1>2. CASE w \in Diff(sc, obs, complete, recs).remove
  <2>1. complete
    BY <1>2 DEF Diff
  <2>2. PICK id \in DOMAIN cur :
          /\ cur[id].scope = sc
          /\ w = [id |-> id, kind |-> "removed", scope |-> sc, val |-> cur[id].val]
    BY <1>2, <2>1 DEF Diff
  <2>3. id \in Ids /\ RowOK(id, cur[id]) /\ cur[id].val \in Values
    BY DEF Tables, RowOK, Rows
  <2> QED
    BY <2>1, <2>2, <2>3 DEF Planned, RowOK
<1> QED
  BY <1>1, <1>2

LEMMA ImageFinite ==
  ASSUME NEW S, IsFiniteSet(S), NEW f, DOMAIN f = S
  PROVE  IsFiniteSet({f[x] : x \in S})
<1> DEFINE T == {f[x] : x \in S}
           g == [x \in S |-> f[x]]
<1>1. g \in Surjection(S, T)
  BY DEF Surjection
<1> QED
  BY <1>1, FS_Surjection

LEMMA PairsFinite ==
  ASSUME NEW k, NEW A, IsFiniteSet(A), NEW B, IsFiniteSet(B)
  PROVE  IsFiniteSet({k} \X A \X B)
<1> DEFINE f == [x \in A \X B |-> <<k, x[1], x[2]>>]
<1>1. IsFiniteSet(A \X B)
  BY FS_Product
<1>2. IsFiniteSet({f[x] : x \in A \X B})
  <2>1. DOMAIN f = A \X B
    OBVIOUS
  <2> HIDE DEF f
  <2> QED
    BY <1>1, <2>1, ImageFinite
<1>3. ASSUME NEW y \in {k} \X A \X B
      PROVE  y \in {f[x] : x \in A \X B}
  <2>1. PICK a \in A, b \in B : y = <<k, a, b>>
    OBVIOUS
  <2>2. <<a, b>> \in A \X B /\ f[<<a, b>>] = y
    BY <2>1
  <2> QED
    BY <2>2
<1>4. {k} \X A \X B \in SUBSET {f[x] : x \in A \X B}
  BY <1>3
<1> HIDE DEF f
<1> QED
  BY <1>2, <1>4, FS_Subset

LEMMA IdsFinite == \A S \in SUBSET Ids : IsFiniteSet(S)
<1>1. IsFiniteSet(Subjects \cup Pseudonyms)
  BY JournalFinite, FS_Union, FS_Singleton DEF Subjects
<1>2. IsFiniteSet({"grade"} \X Members \X Keys)
  BY JournalFinite, PairsFinite
<1>3. IsFiniteSet({"note"} \X (Subjects \cup Pseudonyms) \X Members)
  BY <1>1, JournalFinite, PairsFinite
<1>4. IsFiniteSet(Ids)
  BY <1>2, <1>3, FS_Union DEF Ids
<1> QED
  BY <1>4, FS_Subset

\* A plan writes finitely many events.
LEMMA DiffFinite ==
  ASSUME Tables, NEW sc, NEW obs, NEW complete \in BOOLEAN, NEW recs, DOMAIN recs \subseteq Ids
  PROVE  /\ IsFiniteSet(Diff(sc, obs, complete, recs).write)
         /\ IsFiniteSet(Diff(sc, obs, complete, recs).remove)
<1> DEFINE same(id) == KindOf(id) = "updated" /\ cur[id].val = recs[id] /\ cur[id].scope = sc
           live == {id \in DOMAIN cur : ~cur[id].removed /\ cur[id].scope = sc}
<1>1. PICK A : A = {x \in {id \in DOMAIN recs : ~Stale(id, obs)} : ~same(x)}
  OBVIOUS
<1>2. PICK f : f = [id \in A |-> [id |-> id, kind |-> KindOf(id), scope |-> sc, val |-> recs[id]]]
  OBVIOUS
<1>3. IsFiniteSet({f[x] : x \in A})
  BY <1>1, <1>2, IdsFinite, ImageFinite
<1>4. Diff(sc, obs, complete, recs).write = {f[x] : x \in A}
  BY <1>1, <1>2 DEF Diff
<1>5. PICK G : G = {id \in live \ DOMAIN recs : ~Stale(id, obs)}
  OBVIOUS
<1>6. PICK g : g = [id \in G |-> [id |-> id, kind |-> "removed", scope |-> sc, val |-> cur[id].val]]
  OBVIOUS
<1>7. G \in SUBSET Ids
  BY <1>5 DEF Tables
<1>8. IsFiniteSet({g[x] : x \in G})
  <2>1. IsFiniteSet(G) /\ DOMAIN g = G
    BY <1>6, <1>7, IdsFinite
  <2> QED
    BY <2>1, ImageFinite
<1>9. Diff(sc, obs, complete, recs).remove = IF ~complete THEN {} ELSE {g[x] : x \in G}
  BY <1>5, <1>6 DEF Diff
<1>10. IsFiniteSet(Diff(sc, obs, complete, recs).remove)
  BY <1>8, <1>9, FS_EmptySet
<1> QED
  BY <1>3, <1>4, <1>10

LEMMA BuiltFinite ==
  ASSUME NEW W, IsFiniteSet(W), NEW ver, NEW obs, NEW by
  PROVE  IsFiniteSet(Built(W, ver, obs, by))
<1>1. PICK f : f = [w \in W |->
                      [id |-> w.id, event |-> EventOf(w, ver), row |-> RowOf(w, ver, obs, by)]]
  OBVIOUS
<1>2. IsFiniteSet({f[w] : w \in W})
  BY <1>1, ImageFinite
<1>3. Built(W, ver, obs, by) = {f[w] : w \in W}
  BY <1>1 DEF Built
<1> QED
  BY <1>2, <1>3

LEMMA RecsOfOK ==
  ASSUME NEW s, s.scope \in Scopes, s.recs \in UNION {[K -> Values] : K \in SUBSET Keys},
         NEW id \in DOMAIN RecsOf(s)
  PROVE  /\ id \in Ids /\ id[1] = "grade" /\ id[2] = SubjectOf[s.scope]
         /\ RecsOf(s)[id] \in Values
<1>1. PICK k \in DOMAIN s.recs : id = <<"grade", SubjectOf[s.scope], k>>
  BY DEF RecsOf, Row
<1>2. k \in Keys /\ s.recs[k] \in Values /\ SubjectOf[s.scope] \in Members
  BY JournalAssumption
<1>3. RecsOf(s)[id] = s.recs[id[3]]
  BY DEF RecsOf
<1> QED
  BY <1>1, <1>2, <1>3 DEF Ids

LEMMA FromOrderingStep ==
  ASSUME JournalInv, NEW p \in Procs, NEW id \in SnapIds, NEW s, NEW confirm \in BOOLEAN,
         FromOrdering(p, id, s, confirm),
         txs[p].op \in {"apply", "confirm"}, txs[p].need = {}, txs[p].id = id,
         txs[p].subj \notin erased, SubjectOf[s.scope] = txs[p].subj,
         s.scope \in Scopes, s.obs \in Nat, s.complete \in BOOLEAN,
         s.recs \in UNION {[K -> Values] : K \in SUBSET Keys},
         txs[p].op = "apply" => id \notin DOMAIN snaps /\ s \in Menu,
         txs[p].op = "confirm" => id \in DOMAIN snaps /\ snaps[id].scope = s.scope
  PROVE  JournalInv'
<1> DEFINE plan == Diff(s.scope, s.obs, s.complete, RecsOf(s))
           t == txs[p]
<1>1. UNCHANGED <<cur, events, kept, erased, nextSeq, roster, scan>>
  BY DEF FromOrdering
<1>2. \A status \in {"applied", "late", "held"} : Stored(s, status) \in Snaps
  BY DEF Stored, Snaps
<1>3. ASSUME NEW status \in {"late", "held"}, Finish(p),
             snaps' = Merge(snaps, [i \in {id} |-> Stored(s, status)])
      PROVE  JournalInv'
  <2>1. /\ DOMAIN snaps' = DOMAIN snaps \cup {id} /\ snaps'[id] = Stored(s, status)
        /\ \A i \in DOMAIN snaps \ {id} : snaps'[i] = snaps[i]
    BY <1>3 DEF Merge
  <2>2. Stored(s, status) \in Snaps /\ Stored(s, status).scope = s.scope
    BY <1>2 DEF Stored
  <2>3. \A i \in DOMAIN snaps' : /\ i \in SnapIds /\ snaps'[i] \in Snaps
                                 /\ SubjectOf[snaps'[i].scope] \notin erased
    BY <2>1, <2>2 DEF JournalInv, Tables, Gone
  <2>4. \A i \in DOMAIN snaps : i \in DOMAIN snaps' /\ snaps'[i].scope = snaps[i].scope
    BY <2>1, <2>2
  <2>5. DOMAIN txs' = Procs /\ \A q \in Procs : txs'[q] \in {txs[q], Idle}
    BY <1>3 DEF Finish, JournalInv
  <2> QED
    BY <1>1, <2>3, <2>4, <2>5, SnapsStep
<1>4. ASSUME UNCHANGED snaps,
             txs' = [txs EXCEPT ![p] =
               [@ EXCEPT !.phase = "insert", !.snap = s, !.obs = s.obs, !.confirm = plan.confirm,
                         !.write = Built(plan.write \cup plan.remove, VersionOf[p], s.obs, id)]]
      PROVE  JournalInv'
  <2>1. PICK W : W = plan.write \cup plan.remove
    OBVIOUS
  <2>2. PICK B : B = Built(W, VersionOf[p], s.obs, id)
    OBVIOUS
  <2>3. DOMAIN t = TxFields /\ TxLocks(t) /\ Confirms(t) /\ t.subj \in Members
    BY DEF JournalInv, TxLocks
  <2> HIDE DEF plan
  <2>4. /\ DOMAIN txs' = Procs /\ \A q \in Procs \ {p} : txs'[q] = txs[q]
        /\ DOMAIN txs'[p] = TxFields
        /\ txs'[p].phase = "insert" /\ txs'[p].snap = s /\ txs'[p].obs = s.obs /\ txs'[p].write = B
        /\ txs'[p].held = t.held /\ txs'[p].need = t.need /\ txs'[p].op = t.op
        /\ txs'[p].subj = t.subj /\ txs'[p].id = id
    BY <1>4, <2>1, <2>2, <2>3 DEF JournalInv, TxFields
  <2>5. ASSUME NEW w \in W
        PROVE  Planned(w) /\ w.id[1] = "grade" /\ w.id[2] = t.subj
    <3>1. PICK recs : recs = RecsOf(s)
      OBVIOUS
    <3>2. \A x \in DOMAIN recs : /\ x \in Ids /\ x[1] = "grade" /\ x[2] = SubjectOf[s.scope]
                                 /\ recs[x] \in Values
      BY <3>1, RecsOfOK
    <3>3. Tables
      BY DEF JournalInv
    <3>4. w \in Diff(s.scope, s.obs, s.complete, recs).write
                  \cup Diff(s.scope, s.obs, s.complete, recs).remove
      BY <2>1, <3>1 DEF plan
    <3>5. /\ Planned(w)
          /\ w.id \in DOMAIN recs \/ (w.id \in DOMAIN cur /\ cur[w.id].scope = s.scope)
      BY <3>2, <3>3, <3>4, DiffOK
    <3>6. CASE w.id \in DOMAIN recs
      BY <3>2, <3>5, <3>6
    <3>7. CASE w.id \in DOMAIN cur /\ cur[w.id].scope = s.scope
      <4>1. w.id \in Ids /\ RowOK(w.id, cur[w.id])
        BY <3>3, <3>7 DEF Tables
      <4>2. w.id[1] = "grade"
        BY <4>1, <3>7, IdKind, JournalAssumption DEF RowOK, Subjects
      <4> QED
        BY <3>5, <3>7, <4>1, <4>2 DEF RowOK
    <3> QED
      BY <3>5, <3>6, <3>7
  <2>6. ASSUME NEW w \in B
        PROVE  /\ DOMAIN w = {"id", "event", "row"} /\ w.id \in Ids /\ w.id[2] = t.subj
               /\ w.id[1] = "grade" /\ RowOK(w.id, w.row) /\ EventOK(w.event) /\ w.event.id = w.id
    <3>1. VersionOf[p] \in Versions /\ Tables
      BY JournalAssumption DEF JournalInv
    <3>2. /\ DOMAIN w = {"id", "event", "row"} /\ \E v \in W : w.id = v.id
          /\ w.id \in Ids /\ RowOK(w.id, w.row) /\ EventOK(w.event) /\ w.event.id = w.id
      BY <2>2, <2>5, <3>1, BuiltOK
    <3> QED
      BY <3>2, <2>5
  <2>7. \A q \in Procs \ {p} : txs'[p].held \cap txs[q].held = {}
    BY <2>4 DEF JournalInv, Exclusive
  <2> HIDE DEF t
  <2>8. TxLocks(txs[p])'
    BY <2>3, <2>4 DEF TxLocks, t
  <2>9. InFlight(txs[p])'
    <3>1. PICK recs : recs = RecsOf(s)
      OBVIOUS
    <3>2. DOMAIN recs \subseteq Ids /\ Tables
      BY <3>1, RecsOfOK DEF JournalInv
    <3>3. IsFiniteSet(W)
      <4>1. /\ IsFiniteSet(Diff(s.scope, s.obs, s.complete, recs).write)
            /\ IsFiniteSet(Diff(s.scope, s.obs, s.complete, recs).remove)
        BY <3>2, DiffFinite
      <4>2. IsFiniteSet(plan.write) /\ IsFiniteSet(plan.remove)
        BY <4>1, <3>1 DEF plan
      <4> QED
        BY <4>2, <2>1, FS_Union
    <3>4. IsFiniteSet(B)
      BY <2>2, <3>3, BuiltFinite
    <3> QED
      BY <1>1, <1>2, <2>4, <2>6, <3>4 DEF InFlight, Writing, t
  <2>10. Confirms(txs[p])'
    BY <1>1, <1>4, <2>3, <2>4 DEF Confirms, t
  <2> QED
    BY <1>1, <1>4, <2>4, <2>7, <2>8, <2>9, <2>10, TxStep DEF store, JournalInv, Tables
<1> QED
  BY <1>3, <1>4 DEF FromOrdering

LEMMA ApplyPlanStep ==
  ASSUME JournalInv, NEW p \in Procs, ApplyPlan(p)
  PROVE  JournalInv'
<1>1. CASE Refused(p, txs[p].id, txs[p].subj)
  BY <1>1, FinishStep DEF ApplyPlan
<1>2. CASE ~Refused(p, txs[p].id, txs[p].subj)
  <2>1. FromOrdering(p, txs[p].id, txs[p].snap, FALSE)
    BY <1>2 DEF ApplyPlan
  <2>2. /\ txs[p].op = "apply" /\ txs[p].need = {} /\ txs[p].id \in SnapIds
        /\ txs[p].snap \in Menu /\ SubjectOf[txs[p].snap.scope] = txs[p].subj
    BY DEF JournalInv, TxLocks, ApplyPlan, Ready
  <2>3. txs[p].id \notin DOMAIN snaps /\ txs[p].subj \notin erased
    BY <1>2 DEF Refused
  <2>4. PICK i, s : i = txs[p].id /\ s = txs[p].snap
    OBVIOUS
  <2>5. /\ s.scope \in Scopes /\ s.obs \in Nat /\ s.complete \in BOOLEAN
        /\ s.recs \in UNION {[K -> Values] : K \in SUBSET Keys}
    BY <2>2, <2>4, JournalAssumption
  <2> QED
    BY <2>1, <2>2, <2>3, <2>4, <2>5, FromOrderingStep
<1> QED
  BY <1>1, <1>2

LEMMA ConfirmPlanStep ==
  ASSUME JournalInv, NEW p \in Procs, ConfirmPlan(p)
  PROVE  JournalInv'
<1> DEFINE i == txs[p].id
           ok == /\ i \in DOMAIN snaps /\ snaps[i].status = "held"
                 /\ txs[p].subj \notin erased /\ txs[p].subj \in roster
<1>1. CASE ~ok
  <2>1. Finish(p) /\ UNCHANGED <<store, nextSeq, roster, scan>>
    BY <1>1 DEF ConfirmPlan
  <2> QED
    BY <2>1, FinishStep
<1>2. CASE ok
  <2>1. FromOrdering(p, i, snaps[i], TRUE)
    BY <1>2 DEF ConfirmPlan
  <2>2. txs[p].op = "confirm" /\ txs[p].need = {} /\ i \in SnapIds
    BY DEF JournalInv, TxLocks, ConfirmPlan, Ready
  <2>3. SubjectOf[snaps[i].scope] = txs[p].subj
    BY <1>2, <2>2 DEF JournalInv, Confirms
  <2>4. PICK j, s : j = i /\ s = snaps[i]
    OBVIOUS
  <2>5. /\ s.scope \in Scopes /\ s.obs \in Nat /\ s.complete \in BOOLEAN
        /\ s.recs \in UNION {[K -> Values] : K \in SUBSET Keys}
    <3>1. s \in Snaps
      BY <1>2, <2>4 DEF JournalInv, Tables
    <3> QED
      BY <3>1 DEF Snaps
  <2> QED
    BY <1>2, <2>1, <2>2, <2>3, <2>4, <2>5, FromOrderingStep
<1> QED
  BY <1>1, <1>2

LEMMA NotePlanStep ==
  ASSUME JournalInv, NEW p \in Procs, NotePlan(p)
  PROVE  JournalInv'
<1> DEFINE t == txs[p]
           id == Note(t.subj, t.author)
           plan == Diff(t.subj, t.obs, FALSE, [x \in {id} |-> t.val])
<1>1. UNCHANGED <<store, nextSeq, roster, scan>>
  BY DEF NotePlan
<1>2. CASE Finish(p)
  BY <1>1, <1>2, FinishStep
<1>3. CASE ~Finish(p)
  <2>1. /\ {t.subj, t.author} \cap erased = {}
        /\ txs' = [txs EXCEPT ![p] =
               [@ EXCEPT !.phase = "insert", !.ros = {},
                         !.write = Built(plan.write, VersionOf[p], t.obs, None)]]
    BY <1>3 DEF NotePlan
  <2>2. /\ DOMAIN t = TxFields /\ TxLocks(t) /\ t.op = "note" /\ t.need = {}
        /\ t.subj \in Subjects /\ t.author \in Members /\ t.val \in Values /\ t.obs \in Nat
    BY DEF JournalInv, TxLocks, NotePlan, Ready
  <2>3. PICK sc, obs, recs : sc = t.subj /\ obs = t.obs /\ recs = [x \in {id} |-> t.val]
    OBVIOUS
  <2>4. PICK W : W = Diff(sc, obs, FALSE, recs).write
    OBVIOUS
  <2>5. PICK B : B = Built(W, VersionOf[p], obs, None)
    OBVIOUS
  <2>6. B = Built(plan.write, VersionOf[p], t.obs, None)
    BY <2>3, <2>4, <2>5
  <2>7. /\ id \in Ids /\ id[1] = "note" /\ id[2] = t.subj /\ id[3] = t.author
    BY <2>2 DEF Note, Ids
  <2>8. \A x \in DOMAIN recs : x = id /\ x \in Ids /\ recs[x] \in Values /\ x[1] = "note"
    BY <2>2, <2>3, <2>7
  <2> HIDE DEF plan, id
  <2>9. /\ DOMAIN txs' = Procs /\ \A q \in Procs \ {p} : txs'[q] = txs[q]
        /\ DOMAIN txs'[p] = TxFields
        /\ txs'[p].phase = "insert" /\ txs'[p].obs = t.obs /\ txs'[p].write = B
        /\ txs'[p].held = t.held /\ txs'[p].need = t.need /\ txs'[p].op = t.op
        /\ txs'[p].subj = t.subj /\ txs'[p].author = t.author /\ txs'[p].val = t.val
    BY <2>1, <2>2, <2>6 DEF JournalInv, TxFields
  <2>10. Tables /\ VersionOf[p] \in Versions
    BY JournalAssumption DEF JournalInv
  <2>11. ASSUME NEW w \in W
         PROVE  Planned(w) /\ w.id = id
    <3>1. /\ Planned(w)
          /\ w.id \in DOMAIN recs \/ (FALSE /\ w.id \in DOMAIN cur /\ cur[w.id].scope = sc)
      BY <2>2, <2>3, <2>4, <2>8, <2>10, DiffOK
    <3> QED
      BY <3>1, <2>8
  <2>12. ASSUME NEW w \in B
         PROVE  /\ DOMAIN w = {"id", "event", "row"} /\ w.id = id
                /\ RowOK(w.id, w.row) /\ EventOK(w.event) /\ w.event.id = w.id
    <3>1. /\ DOMAIN w = {"id", "event", "row"} /\ \E v \in W : w.id = v.id
          /\ RowOK(w.id, w.row) /\ EventOK(w.event) /\ w.event.id = w.id
      BY <2>2, <2>3, <2>5, <2>10, <2>11, BuiltOK
    <3> QED
      BY <3>1, <2>11
  <2>13. \A q \in Procs \ {p} : txs'[p].held \cap txs[q].held = {}
    BY <2>9 DEF JournalInv, Exclusive
  <2> HIDE DEF t
  <2>14. TxLocks(txs[p])'
    BY <2>2, <2>9 DEF TxLocks
  <2>15. InFlight(txs[p])'
    <3>1. IsFiniteSet(W)
      BY <2>4, <2>8, <2>10, DiffFinite
    <3>2. IsFiniteSet(B)
      BY <2>5, <3>1, BuiltFinite
    <3> QED
      BY <1>1, <2>1, <2>2, <2>7, <2>9, <2>12, <3>2 DEF InFlight, Writing, store
  <2>16. Confirms(txs[p])'
    BY <2>2, <2>9 DEF Confirms
  <2> QED
    BY <1>1, <2>9, <2>13, <2>14, <2>15, <2>16, TxStep DEF JournalInv, Tables
<1> QED
  BY <1>2, <1>3

-----------------------------------------------------------------------------
(* Numbering and the commit.                                                *)

\* What numbering the events of W yields: each keeps its event and gets a
\* number of its own.
LEMMA NumberedWrites ==
  ASSUME NEW W, NEW S \in SUBSET Nat, NEW num \in Bijection(W, S),
         \A w \in W : /\ DOMAIN w = {"id", "event", "row"}
                      /\ RowOK(w.id, w.row) /\ EventOK(w.event) /\ w.event.id = w.id,
         NEW b \in {[w EXCEPT !.row.seq = num[w]] : w \in W}
  PROVE  /\ DOMAIN b = {"id", "event", "row"} /\ b.row.seq \in S
         /\ \E w \in W : b.id = w.id /\ b.event = w.event
         /\ RowOK(b.id, b.row) /\ EventOK(b.event) /\ b.event.id = b.id
<1>1. PICK w \in W : b = [w EXCEPT !.row.seq = num[w]]
  OBVIOUS
<1>2. num[w] \in S
  BY DEF Bijection, Injection, Surjection
<1>3. DOMAIN w = {"id", "event", "row"} /\ w.row \in Rows
  BY DEF RowOK
<1>4. PICK r : r = [w.row EXCEPT !.seq = num[w]]
  OBVIOUS
<1>5. r \in Rows /\ r.seq = num[w] /\ r.verdict = w.row.verdict /\ r.ver = w.row.ver
      /\ r.val = w.row.val /\ r.scope = w.row.scope
  BY <1>2, <1>3, <1>4 DEF Rows
<1>6. DOMAIN b = {"id", "event", "row"} /\ b.id = w.id /\ b.event = w.event /\ b.row = r
  BY <1>1, <1>3, <1>4
<1>7. RowOK(w.id, r)
  BY <1>5 DEF RowOK
<1> QED
  BY <1>2, <1>5, <1>6, <1>7

LEMMA InsertStep ==
  ASSUME JournalInv, NEW p \in Procs, Insert(p)
  PROVE  JournalInv'
<1> DEFINE t == txs[p]
<1>1. PICK W : W = t.write
  OBVIOUS
<1>2. DOMAIN t = TxFields /\ TxLocks(t) /\ Writing(t) /\ InFlight(t) /\ Confirms(t)
  BY DEF JournalInv, TxLocks, Insert, Writing
<1>3. PICK n \in Nat : n = Cardinality(W)
  <2>1. IsFiniteSet(W)
    BY <1>1, <1>2 DEF InFlight, Insert
  <2> QED
    BY <2>1, FS_CardinalityType
<1>4. nextSeq \in Nat \ {0} /\ \A q \in DOMAIN events : q \in Nat /\ q < nextSeq
  BY DEF JournalInv, Tables
<1>5. PICK S \in SUBSET Nat : S = nextSeq..(nextSeq + n - 1)
  BY <1>3, <1>4
<1>6. PICK num \in Bijection(W, S) :
        /\ txs' = [txs EXCEPT ![p] =
             [@ EXCEPT !.phase = "commit", !.write = {[w EXCEPT !.row.seq = num[w]] : w \in W},
                       !.held = txs[p].held \cup {l \in {EventsLock} : W # {}}]]
        /\ nextSeq' = nextSeq + n - 1 + 1
        /\ UNCHANGED <<store, roster, begun, scan>>
  BY <1>1, <1>3, <1>5 DEF Insert, Numbered
<1>7. PICK B : B = {[w EXCEPT !.row.seq = num[w]] : w \in W}
  OBVIOUS
<1>8. /\ DOMAIN txs' = Procs /\ \A q \in Procs \ {p} : txs'[q] = txs[q]
      /\ DOMAIN txs'[p] = TxFields
      /\ txs'[p].phase = "commit" /\ txs'[p].write = B
      /\ txs'[p].held = t.held \cup {l \in {EventsLock} : W # {}}
      /\ txs'[p].need = t.need /\ txs'[p].op = t.op /\ txs'[p].subj = t.subj
      /\ txs'[p].id = t.id /\ txs'[p].snap = t.snap /\ txs'[p].author = t.author
      /\ txs'[p].val = t.val /\ txs'[p].obs = t.obs
  <2>1. PICK H : H = t.held \cup {l \in {EventsLock} : W # {}}
    OBVIOUS
  <2>2. txs' = [txs EXCEPT ![p] = [t EXCEPT !.phase = "commit", !.write = B, !.held = H]]
    BY <1>6, <1>7, <2>1
  <2> QED
    BY <1>2, <2>1, <2>2 DEF JournalInv, TxFields
<1>9. nextSeq' \in Nat /\ nextSeq' >= nextSeq /\ \A q \in S : nextSeq <= q /\ q < nextSeq'
  BY <1>3, <1>4, <1>5, <1>6
<1>10. \A q \in Procs \ {p} : txs'[p].held \cap txs[q].held = {}
  <2>1. W # {} => EventsLock \notin Held
    BY <1>1 DEF Insert
  <2> QED
    BY <1>8, <2>1 DEF JournalInv, Exclusive, Held
<1>11. ASSUME NEW b \in B
       PROVE  /\ DOMAIN b = {"id", "event", "row"} /\ b.row.seq \in S
              /\ \E w \in W : b.id = w.id /\ b.event = w.event
              /\ RowOK(b.id, b.row) /\ EventOK(b.event) /\ b.event.id = b.id
  <2>1. \A w \in W : /\ DOMAIN w = {"id", "event", "row"}
                     /\ RowOK(w.id, w.row) /\ EventOK(w.event) /\ w.event.id = w.id
    BY <1>1, <1>2 DEF InFlight
  <2> QED
    BY <1>7, <2>1, NumberedWrites
<1>12. W = {} => B = {}
  BY <1>7
<1>13. Scanned
  BY DEF JournalInv
<1> HIDE DEF t
<1>14. TxLocks(txs[p])'
  <2>1. t.op # "idle"
    BY DEF Insert, t
  <2>2. t.op # "erase"
    BY <1>2 DEF InFlight
  <2>3. t.held \subseteq txs'[p].held
    BY <1>8
  <2> QED
    BY <1>2, <1>8, <2>1, <2>2, <2>3 DEF TxLocks
<1>15. ASSUME NEW b \in B
       PROVE  /\ b.row.seq < nextSeq' /\ b.row.seq >= nextSeq
              /\ \A q \in DOMAIN events' : q < b.row.seq
              /\ scan'.what = "event" => scan'.at # b.row.seq
  <2>1. b.row.seq \in Nat /\ b.row.seq >= nextSeq /\ b.row.seq < nextSeq'
    BY <1>5, <1>9, <1>11
  <2>2. events' = events /\ scan' = scan
    BY <1>6 DEF store
  <2> QED
    BY <2>1, <2>2, <1>4, <1>13 DEF Scanned
<1>16. InFlight(txs[p])'
  <2>1. ASSUME NEW b \in B
        PROVE  /\ b.id \in Ids /\ b.id[2] = t.subj
               /\ b.id[1] = IF t.op = "note" THEN "note" ELSE "grade"
               /\ t.op = "note" => b.id[3] = t.author
    BY <1>1, <1>2, <1>11 DEF InFlight, t
  <2>2. B # {} => EventsLock \in txs'[p].held
    BY <1>8, <1>12
  <2>3. erased' = erased
    BY <1>6 DEF store
  <2> QED
    BY <1>2, <1>8, <1>11, <1>15, <2>1, <2>2, <2>3 DEF InFlight, Writing
<1>17. Confirms(txs[p])'
  BY <1>2, <1>6, <1>8 DEF Confirms, store
<1> QED
  BY <1>6, <1>8, <1>9, <1>10, <1>14, <1>16, <1>17, TxStep DEF JournalInv, Tables

-----------------------------------------------------------------------------
(* The rescan.                                                              *)

LEMMA RescanStep ==
  ASSUME JournalInv, UNCHANGED <<snaps, nextSeq, kept, erased, roster, txs>>,
         DOMAIN cur' = DOMAIN cur, \A id \in DOMAIN cur : RowOK(id, cur'[id]),
         DOMAIN events' = DOMAIN events,
         \A q \in DOMAIN events : EventOK(events'[q]) /\ events'[q].id = events[q].id,
         Scanned', scan'.what = "event" => scan'.at \in DOMAIN events
  PROVE  JournalInv'
<1> USE DEF JournalInv
<1>1. Tables'
  BY DEF Tables
<1>2. Exclusive' /\ DOMAIN txs' = Procs
  BY DEF Exclusive
<1>3. Gone' /\ KeptHasReaders'
  BY DEF Gone, KeptHasReaders, Free
<1>4. ASSUME NEW q \in Procs
      PROVE  TxLocks(txs[q])' /\ InFlight(txs[q])' /\ Confirms(txs[q])'
  <2>1. TxLocks(txs[q])'
    BY DEF TxLocks
  <2>2. InFlight(txs[q])'
    <3>1. Writing(txs[q]) => /\ txs[q].subj \notin erased'
                             /\ txs[q].op = "note" => txs[q].author \notin erased'
      BY DEF InFlight
    <3> QED
      BY <3>1, InFlightKept DEF Tables
  <2>3. Confirms(txs[q])'
    BY DEF Confirms
  <2> QED
    BY <2>1, <2>2, <2>3
<1> QED
  BY <1>1, <1>2, <1>3, <1>4

LEMMA RescanReadStep == ASSUME JournalInv, RescanRead PROVE JournalInv'
<1>1. PICK v \in Versions :
        \/ \E id \in DOMAIN cur : scan' = [what |-> "row", at |-> id, ver |-> v, was |-> cur[id]]
        \/ \E q \in DOMAIN events :
             scan' = [what |-> "event", at |-> q, ver |-> v, was |-> events[q]]
  BY DEF RescanRead
<1>2. UNCHANGED <<store, nextSeq, roster, txs>>
  BY DEF RescanRead
<1>3. Scanned' /\ (scan'.what = "event" => scan'.at \in DOMAIN events)
  <2>1. CASE \E id \in DOMAIN cur : scan' = [what |-> "row", at |-> id, ver |-> v, was |-> cur[id]]
    BY <2>1 DEF Scanned
  <2>2. ASSUME NEW q \in DOMAIN events,
               scan' = [what |-> "event", at |-> q, ver |-> v, was |-> events[q]]
        PROVE  Scanned' /\ scan'.at \in DOMAIN events
    <3>1. q \in Nat /\ q < nextSeq /\ EventOK(events[q])
      BY DEF JournalInv, Tables
    <3> QED
      BY <1>2, <2>2, <3>1 DEF Scanned, store
  <2> QED
    BY <1>1, <2>1, <2>2
<1> QED
  BY <1>2, <1>3, RescanStep DEF store, JournalInv, Tables

LEMMA JudgeCurrentStep == ASSUME JournalInv, JudgeCurrent PROVE JournalInv'
<1>1. UNCHANGED <<snaps, events, nextSeq, kept, erased, roster, txs>> /\ scan' = NoScan
  BY DEF JudgeCurrent
<1>2. Scanned' /\ scan'.what # "event"
  BY <1>1 DEF Scanned, NoScan, None
<1>3. scan.ver \in Versions
  BY DEF JournalInv, Scanned, JudgeCurrent
<1>4. DOMAIN cur' = DOMAIN cur
  BY DEF JudgeCurrent
<1>5. ASSUME NEW id \in DOMAIN cur
      PROVE  RowOK(id, cur'[id])
  <2>1. RowOK(id, cur[id]) /\ cur[id] \in Rows
    BY DEF JournalInv, Tables, RowOK
  <2>2. CASE cur'[id] = cur[id]
    BY <2>1, <2>2
  <2>3. CASE cur'[id] # cur[id]
    <3>1. PICK v, ver : v = Verdict(scan.ver, scan.was.val) /\ ver = scan.ver
      OBVIOUS
    <3>2. /\ scan.was.val = cur[id].val
          /\ cur'[id] = [cur[id] EXCEPT !.verdict = v, !.ver = ver]
      BY <2>3, <3>1 DEF JudgeCurrent, UnchangedRow
    <3>3. v = Verdict(ver, cur[id].val) /\ v \in Verdicts /\ ver \in Versions
      BY <1>3, <2>1, <3>1, <3>2, VerdictType DEF Rows
    <3> QED
      BY <2>1, <3>2, <3>3 DEF RowOK, Rows
  <2> QED
    BY <2>2, <2>3
<1> QED
  BY <1>1, <1>2, <1>4, <1>5, RescanStep DEF JournalInv, Tables

LEMMA JudgeEventsStep == ASSUME JournalInv, JudgeEvents PROVE JournalInv'
<1>1. UNCHANGED <<snaps, cur, nextSeq, kept, erased, roster, txs>> /\ scan' = NoScan
  BY DEF JudgeEvents
<1>2. Scanned' /\ scan'.what # "event"
  BY <1>1 DEF Scanned, NoScan, None
<1>3. scan.ver \in Versions /\ EventOK(scan.was)
  BY DEF JournalInv, Scanned, JudgeEvents
<1>4. DOMAIN events' = DOMAIN events
  BY DEF JudgeEvents
<1>5. ASSUME NEW q \in DOMAIN events
      PROVE  EventOK(events'[q]) /\ events'[q].id = events[q].id
  <2>1. EventOK(events[q]) /\ events[q] \in EventRecs
    BY DEF JournalInv, Tables, EventOK
  <2>2. CASE events'[q] = events[q]
    BY <2>1, <2>2
  <2>3. CASE events'[q] # events[q]
    <3>1. PICK j, was, ver : j = Judge(scan.was, scan.ver) /\ was = scan.was /\ ver = scan.ver
      OBVIOUS
    <3>2. q = scan.at /\ events' = [events EXCEPT ![q].oldV = j.oldV, ![q].newV = j.newV, ![q].ver = j.ver]
      BY <2>3, <3>1 DEF JudgeEvents
    <3>3. was.old = events[q].old /\ was.new = events[q].new /\ was \in EventRecs
      BY <1>3, <3>1, <3>2 DEF JournalInv, Scanned, JudgeEvents, EventOK
    <3>4. /\ j.ver = ver
          /\ j.oldV = IF was.old = None THEN was.oldV ELSE Verdict(ver, was.old)
          /\ j.newV = IF was.new = None THEN was.newV ELSE Verdict(ver, was.new)
      BY <3>1, <3>3 DEF Judge, EventRecs
    <3>5. j.oldV \in Verdicts \cup {None} /\ j.newV \in Verdicts \cup {None} /\ ver \in Versions
      BY <1>3, <3>1, <3>3, <3>4, VerdictType DEF EventRecs, Texts
    <3>6. /\ events'[q] \in EventRecs
          /\ events'[q].id = events[q].id /\ events'[q].old = was.old /\ events'[q].new = was.new
          /\ events'[q].oldV = j.oldV /\ events'[q].newV = j.newV /\ events'[q].ver = ver
      BY <2>1, <3>2, <3>3, <3>4, <3>5 DEF EventRecs
    <3> QED
      BY <3>4, <3>5, <3>6 DEF EventOK, SideTrue
  <2> QED
    BY <2>2, <2>3
<1> QED
  BY <1>1, <1>2, <1>4, <1>5, RescanStep DEF JournalInv, Tables

-----------------------------------------------------------------------------
(* The commit.                                                              *)

\* The rows and the events after a commit of W that confirms the rows C.
Committed(W, C, obs) ==
  /\ DOMAIN events' = DOMAIN events \cup {w.row.seq : w \in W}
  /\ \A q \in DOMAIN events : events'[q] = events[q]
  /\ \A q \in {w.row.seq : w \in W} : \E w \in W : w.row.seq = q /\ events'[q] = w.event
  /\ DOMAIN cur' = DOMAIN cur \cup {w.id : w \in W}
  /\ \A id \in {w.id : w \in W} : \E w \in W : w.id = id /\ cur'[id] = w.row
  /\ \A id \in DOMAIN cur \ {w.id : w \in W} :
       /\ cur'[id].val = cur[id].val /\ cur'[id].scope = cur[id].scope
       /\ cur'[id].removed = cur[id].removed /\ cur'[id].seq = cur[id].seq
       /\ cur'[id].confAt = IF id \in C THEN obs ELSE cur[id].confAt

\* What a commit adds is about its subject, which no erase can have banned
\* while the transaction holds its locks.
LEMMA CommitTables ==
  ASSUME JournalInv, NEW p \in Procs, Commit(p),
         ~(txs[p].op = "apply" /\ txs[p].id \in DOMAIN snaps)
  PROVE  /\ Tables' /\ Gone' /\ KeptHasReaders' /\ Scanned'
         /\ Committed(txs[p].write, txs[p].confirm, txs[p].obs)
         /\ \A i \in DOMAIN snaps : /\ i \in DOMAIN snaps'
                                    /\ SubjectOf[snaps'[i].scope] = SubjectOf[snaps[i].scope]
<1> DEFINE t == txs[p]
           W == t.write
           by == IF t.op = "note" THEN None ELSE t.id
           conf == [id \in DOMAIN cur |->
                      IF id \in t.confirm
                      THEN [cur[id] EXCEPT !.confAt = t.obs, !.confBy = by] ELSE cur[id]]
<1>1. /\ events' = Merge(events, [q \in {w.row.seq : w \in t.write} |->
                                    (CHOOSE w \in t.write : w.row.seq = q).event])
      /\ cur' = Merge(conf, [id \in {w.id : w \in t.write} |->
                               (CHOOSE w \in t.write : w.id = id).row])
      /\ snaps' = IF t.op = "note" THEN snaps
                  ELSE [i \in DOMAIN snaps \cup {t.id} |->
                          IF i = t.id THEN Stored(t.snap, "applied")
                          ELSE IF Superseded(i, t)
                               THEN [snaps[i] EXCEPT !.status = "discarded"]
                               ELSE snaps[i]]
      /\ UNCHANGED <<kept, erased>>
  BY DEF Commit
<1>2. UNCHANGED <<nextSeq, roster, scan>>
  BY DEF Commit
<1>3. Writing(t) /\ InFlight(t) /\ TxLocks(t) /\ Confirms(t) /\ t.phase = "commit"
  BY DEF JournalInv, Commit, Writing
<1>4. Tables /\ Gone /\ KeptHasReaders /\ Scanned
  BY DEF JournalInv
<1>6. t.obs \in Nat /\ by \in SnapIds \cup {None} /\ t.op \in {"apply", "confirm", "note"}
  BY <1>3 DEF InFlight, TxLocks
<1>7. ASSUME NEW w \in W
      PROVE  /\ w.id \in Ids /\ RowOK(w.id, w.row) /\ EventOK(w.event) /\ w.event.id = w.id
             /\ w.id[2] \notin erased /\ w.id[2] \notin Pseudonyms
             /\ w.id[1] = "note" => w.id[3] \notin erased
             /\ w.row.seq \in Nat /\ w.row.seq < nextSeq
             /\ \A q \in DOMAIN events : q < w.row.seq
             /\ scan.what = "event" => scan.at # w.row.seq
  <2>1. /\ w.id \in Ids /\ RowOK(w.id, w.row) /\ EventOK(w.event) /\ w.event.id = w.id
        /\ w.id[2] = t.subj /\ t.subj \notin erased
        /\ w.id[1] = "note" => w.id[3] \notin erased
    BY <1>3 DEF InFlight
  <2>2. t.subj \in Subjects
    BY <1>3, <1>6 DEF TxLocks, Subjects
  <2>3. w.id[2] \notin Pseudonyms
    BY <2>1, <2>2, JournalAssumption DEF Subjects
  <2>4. /\ w.row.seq < nextSeq /\ \A q \in DOMAIN events : q < w.row.seq
        /\ scan.what = "event" => scan.at # w.row.seq
    BY <1>3 DEF InFlight
  <2> QED
    BY <2>1, <2>3, <2>4 DEF RowOK, Rows
<1>8. /\ DOMAIN events' = DOMAIN events \cup {w.row.seq : w \in W}
      /\ \A q \in DOMAIN events : events'[q] = events[q]
      /\ \A q \in {w.row.seq : w \in W} : \E w \in W : w.row.seq = q /\ events'[q] = w.event
  <2> DEFINE N == {w.row.seq : w \in W}
             g == [q \in N |-> (CHOOSE w \in W : w.row.seq = q).event]
  <2>1. events' = Merge(events, g)
    BY <1>1
  <2>2. ASSUME NEW q \in N
        PROVE  \E w \in W : w.row.seq = q /\ g[q] = w.event
    OBVIOUS
  <2>3. DOMAIN g = N
    OBVIOUS
  <2>4. \A q \in DOMAIN events : q \notin N
    BY <1>4, <1>7 DEF Tables
  <2> HIDE DEF g
  <2>5. /\ DOMAIN events' = DOMAIN events \cup N
        /\ \A q \in DOMAIN events : events'[q] = events[q]
        /\ \A q \in N : events'[q] = g[q]
    BY <2>1, <2>3, <2>4 DEF Merge
  <2> QED
    BY <2>2, <2>5
<1>9. /\ DOMAIN cur' = DOMAIN cur \cup {w.id : w \in W}
      /\ \A id \in {w.id : w \in W} : \E w \in W : w.id = id /\ cur'[id] = w.row
      /\ \A id \in DOMAIN cur \ {w.id : w \in W} : cur'[id] = conf[id]
  <2> DEFINE N == {w.id : w \in W}
             g == [id \in N |-> (CHOOSE w \in W : w.id = id).row]
  <2>1. cur' = Merge(conf, g)
    BY <1>1
  <2>2. ASSUME NEW id \in N
        PROVE  \E w \in W : w.id = id /\ g[id] = w.row
    OBVIOUS
  <2>3. DOMAIN g = N /\ DOMAIN conf = DOMAIN cur
    OBVIOUS
  <2> HIDE DEF g, conf
  <2>4. /\ DOMAIN cur' = DOMAIN cur \cup N
        /\ \A id \in N : cur'[id] = g[id]
        /\ \A id \in DOMAIN cur \ N : cur'[id] = conf[id]
    BY <2>1, <2>3 DEF Merge
  <2> QED
    BY <2>2, <2>4
<1>10. ASSUME NEW id \in DOMAIN cur
       PROVE  /\ RowOK(id, conf[id])
              /\ conf[id].val = cur[id].val /\ conf[id].scope = cur[id].scope
              /\ conf[id].removed = cur[id].removed /\ conf[id].seq = cur[id].seq
              /\ conf[id].confAt = IF id \in t.confirm THEN t.obs ELSE cur[id].confAt
  <2>1. RowOK(id, cur[id]) /\ cur[id] \in Rows
    BY <1>4 DEF Tables, RowOK
  <2>2. PICK b, o : b = by /\ o = t.obs
    OBVIOUS
  <2>3. conf[id] = IF id \in t.confirm THEN [cur[id] EXCEPT !.confAt = o, !.confBy = b] ELSE cur[id]
    BY <2>2
  <2>4. b \in SnapIds \cup {None} /\ o \in Nat
    BY <1>6, <2>2
  <2> HIDE DEF conf
  <2> QED
    BY <2>1, <2>2, <2>3, <2>4 DEF RowOK, Rows
<1> HIDE DEF conf, by
<1>11. ASSUME NEW i \in DOMAIN snaps'
       PROVE  /\ i \in SnapIds /\ snaps'[i] \in Snaps /\ SubjectOf[snaps'[i].scope] \notin erased
              /\ i \in DOMAIN snaps => SubjectOf[snaps'[i].scope] = SubjectOf[snaps[i].scope]
  <2>1. i \in DOMAIN snaps => /\ i \in SnapIds /\ snaps[i] \in Snaps
                              /\ SubjectOf[snaps[i].scope] \notin erased
    BY <1>4 DEF Tables, Gone
  <2>2. CASE t.op = "note"
    BY <1>1, <2>1, <2>2
  <2>3. CASE t.op # "note" /\ i = t.id
    <3>1. snaps'[i] = Stored(t.snap, "applied")
      BY <1>1, <2>3
    <3>2. snaps'[i] \in Snaps /\ snaps'[i].scope = t.snap.scope /\ i \in SnapIds
      BY <1>3, <1>6, <2>3, <3>1 DEF InFlight, Stored, TxLocks
    <3>3. SubjectOf[t.snap.scope] = t.subj /\ t.subj \notin erased
      BY <1>3, <1>6, <2>3 DEF InFlight
    <3>4. i \in DOMAIN snaps => SubjectOf[snaps[i].scope] = t.subj
      BY <1>3, <1>6, <2>3, <3>3 DEF Confirms
    <3> QED
      BY <3>2, <3>3, <3>4
  <2>4. CASE t.op # "note" /\ i # t.id
    <3>1. i \in DOMAIN snaps /\ snaps'[i] \in {snaps[i], [snaps[i] EXCEPT !.status = "discarded"]}
      BY <1>1, <2>4
    <3> QED
      BY <2>1, <3>1 DEF Snaps
  <2> QED
    BY <2>2, <2>3, <2>4
<1>12. \A i \in DOMAIN snaps : i \in DOMAIN snaps'
  BY <1>1
<1>13. ASSUME NEW id \in DOMAIN cur'
       PROVE  id \in Ids /\ RowOK(id, cur'[id]) /\ Free(id)'
              /\ (id \notin DOMAIN cur => id[2] \notin Pseudonyms)
  <2>1. ASSUME NEW w \in W, w.id = id, cur'[id] = w.row
        PROVE  id \in Ids /\ RowOK(id, cur'[id]) /\ Free(id)' /\ id[2] \notin Pseudonyms
    BY <1>1, <1>7, <2>1 DEF Free
  <2>2. CASE id \in DOMAIN cur /\ cur'[id] = conf[id]
    BY <1>1, <1>4, <1>10, <2>2 DEF Tables, Gone, Free
  <2> QED
    BY <1>9, <2>1, <2>2
<1>14. ASSUME NEW q \in DOMAIN events'
       PROVE  /\ q \in Nat /\ q < nextSeq' /\ EventOK(events'[q]) /\ Free(events[q].id)'
  <2>1. CASE q \in DOMAIN events
    BY <1>1, <1>2, <1>4, <1>8, <2>1 DEF Tables, Gone, Free
  <2>2. CASE q \notin DOMAIN events
    <3>1. PICK w \in W : w.row.seq = q /\ events'[q] = w.event
      BY <1>8, <2>2
    <3> QED
      BY <1>1, <1>2, <1>7, <3>1 DEF Free
  <2> QED
    BY <2>1, <2>2
<1>15. Tables'
  BY <1>1, <1>2, <1>4, <1>11, <1>13, <1>14 DEF Tables
<1>16. Gone'
  <2>1. \A s \in DOMAIN kept' : (kept[s] \cap erased = {})'
    BY <1>1, <1>4 DEF Gone
  <2>2. \A i \in DOMAIN snaps' : (SubjectOf[snaps[i].scope] \notin erased)'
    BY <1>1, <1>11
  <2> QED
    BY <1>13, <1>14, <2>1, <2>2 DEF Gone
<1>17. KeptHasReaders'
  <2>1. \A id \in DOMAIN cur' : id[2] \in Pseudonyms => id[2] \in DOMAIN kept'
    BY <1>1, <1>4, <1>13 DEF KeptHasReaders
  <2>2. \A s \in DOMAIN kept' : kept'[s] # {} /\ \E id \in DOMAIN cur' : id[2] = s
    BY <1>1, <1>4, <1>9 DEF KeptHasReaders
  <2> QED
    BY <2>1, <2>2 DEF KeptHasReaders
<1>18. Scanned'
  <2>1. scan.what = "event" => (scan.at \in DOMAIN events' => scan.at \in DOMAIN events)
    BY <1>7, <1>8
  <2> QED
    BY <1>2, <1>4, <1>8, <2>1 DEF Scanned
<1>19. Committed(W, t.confirm, t.obs)
  BY <1>8, <1>9, <1>10 DEF Committed
<1> QED
  BY <1>11, <1>12, <1>15, <1>16, <1>17, <1>18, <1>19

LEMMA CommitStep ==
  ASSUME JournalInv, NEW p \in Procs, Commit(p)
  PROVE  JournalInv'
<1>1. CASE txs[p].op = "apply" /\ txs[p].id \in DOMAIN snaps
  <2>1. Finish(p) /\ UNCHANGED <<store, nextSeq, roster, scan>>
    BY <1>1 DEF Commit
  <2> QED
    BY <2>1, FinishStep
<1>2. CASE ~(txs[p].op = "apply" /\ txs[p].id \in DOMAIN snaps)
  <2>1. /\ Tables' /\ Gone' /\ KeptHasReaders' /\ Scanned'
        /\ DOMAIN events' = DOMAIN events \cup {w.row.seq : w \in txs[p].write}
        /\ \A i \in DOMAIN snaps : /\ i \in DOMAIN snaps'
                                   /\ SubjectOf[snaps'[i].scope] = SubjectOf[snaps[i].scope]
    <3>1. Committed(txs[p].write, txs[p].confirm, txs[p].obs)
      BY <1>2, CommitTables
    <3> QED
      BY <1>2, <3>1, CommitTables DEF Committed
  <2>2. txs'[p] = Idle /\ DOMAIN txs' = Procs /\ \A q \in Procs \ {p} : txs'[q] = txs[q]
    BY DEF JournalInv, Finish, Commit
  <2>3. UNCHANGED <<nextSeq, erased, scan>>
    BY <1>2 DEF Commit
  <2>4. Exclusive'
    BY <2>2, IdleOK DEF Exclusive, JournalInv
  <2>5. TxLocks(txs[p])' /\ InFlight(txs[p])' /\ Confirms(txs[p])'
    BY <2>2 DEF Idle, TxLocks, InFlight, Writing, Confirms, TxFields
  <2>6. ASSUME NEW q \in Procs \ {p}
        PROVE  TxLocks(txs[q])' /\ InFlight(txs[q])' /\ Confirms(txs[q])'
    <3>1. TxLocks(txs[q])'
      BY <2>2 DEF TxLocks, JournalInv
    <3>2. Confirms(txs[q])'
      BY <2>1, <2>2, <2>3 DEF Confirms, JournalInv
    <3>3. txs[q].phase = "commit" /\ txs[q].write # {} => txs[p].write = {}
      BY DEF JournalInv, Exclusive, InFlight, Writing, Commit
    <3>4. Writing(txs[q]) => /\ txs[q].subj \notin erased'
                             /\ txs[q].op = "note" => txs[q].author \notin erased'
      BY <2>3 DEF InFlight, JournalInv
    <3>5. txs[q].phase = "commit" =>
            \A w \in txs[q].write : \A r \in DOMAIN events' \ DOMAIN events : r < w.row.seq
      BY <2>1, <3>3
    <3>6. InFlight(txs[q])'
      BY <2>2, <2>3, <3>4, <3>5, InFlightKept DEF JournalInv, Tables
    <3> QED
      BY <3>1, <3>2, <3>6
  <2> QED
    BY <2>1, <2>2, <2>4, <2>5, <2>6 DEF JournalInv
<1> QED
  BY <1>1, <1>2

-----------------------------------------------------------------------------
(* The erase.                                                               *)

LEMMA MovedRowOK ==
  ASSUME NEW r, NEW x, RowOK(x, r), NEW id, id[1] = "note"
  PROVE  RowOK(id, [r EXCEPT !.scope = Household])
<1>1. r \in Rows
  BY DEF RowOK
<1>2. PICK n : n = [r EXCEPT !.scope = Household]
  OBVIOUS
<1>3. n \in Rows /\ n.verdict = r.verdict /\ n.ver = r.ver /\ n.val = r.val /\ n.scope = Household
  BY <1>1, <1>2 DEF Rows, Subjects
<1> QED
  BY <1>2, <1>3 DEF RowOK, Subjects

\* The rows and the events after an erase of m: those that stay are as they
\* were, and each kept note has moved to a pseudonym of its own.
Erasing(m, stays, keep, move) ==
  /\ stays \subseteq DOMAIN cur /\ keep \subseteq DOMAIN cur
  /\ \A id \in stays : id[2] # m /\ (id[2] \in Pseudonyms => id[2] \in DOMAIN kept)
  /\ \A id \in DOMAIN cur : /\ id[2] \in Subjects \ {m} /\ (id[1] = "note" => id[3] # m)
                            => id \in stays
  /\ \A x \in keep : x[2] = m /\ move[x] \in Pseudonyms /\ move[x] \notin DOMAIN kept
  /\ \A x, y \in keep : move[x] = move[y] => x = y
  /\ DOMAIN cur' = stays \cup {Note(move[x], x[3]) : x \in keep}
  /\ \A id \in stays : cur'[id] = cur[id]
  /\ \A x \in keep : cur'[Note(move[x], x[3])] = [cur[x] EXCEPT !.scope = Household]
  /\ DOMAIN events' = {q \in DOMAIN events : events[q].id \in stays \cup keep}
  /\ \A q \in DOMAIN events' :
       /\ events[q].id \in stays => events'[q] = events[q]
       /\ events[q].id \notin stays =>
            /\ events'[q].id = Note(move[events[q].id], events[q].id[3])
            /\ events'[q].scope = Household
            /\ events'[q].kind = events[q].kind /\ events'[q].new = events[q].new

LEMMA EraseTables ==
  ASSUME JournalInv, NEW p \in Procs, Erase(p)
  PROVE  /\ Tables' /\ Gone' /\ KeptHasReaders' /\ Scanned'
         /\ erased' = erased \cup {txs[p].subj} /\ DOMAIN events' \subseteq DOMAIN events
         /\ \A i \in DOMAIN snaps :
              SubjectOf[snaps[i].scope] # txs[p].subj => i \in DOMAIN snaps' /\ snaps'[i] = snaps[i]
         /\ \A i \in DOMAIN snaps' : /\ i \in DOMAIN snaps /\ snaps'[i] = snaps[i]
                                     /\ SubjectOf[snaps[i].scope] # txs[p].subj
         /\ \E stays, keep, move : Erasing(txs[p].subj, stays, keep, move)
<1> DEFINE m == txs[p].subj
           ros == txs[p].ros
<1>2. m \in Members /\ ros \subseteq Members
  BY DEF JournalInv, TxLocks, Erase, Ready
<1>3. Tables /\ Gone /\ KeptHasReaders /\ Scanned
  BY DEF JournalInv
<1> DEFINE own == {id \in DOMAIN cur : id[1] = "note" /\ id[3] = m}
           left == [s \in DOMAIN kept |-> kept[s] \ {m}]
           orphan == Orphans(left)
           keep == KeepNotes(ros, m, own)
           live == {id[2] : id \in DOMAIN cur \ (own \cup orphan)} \cap DOMAIN left
           stays == {id \in DOMAIN cur : id[2] # m} \ (own \cup orphan)
           moved(r) == [r EXCEPT !.scope = Household]
<1>4. PICK move \in Injection(keep, Pseudonyms \ DOMAIN kept) :
        LET newId(id) == Note(move[id], id[3])
            oldId(s) == CHOOSE id \in keep : move[id] = s
        IN /\ cur' = [id \in stays \cup {newId(x) : x \in keep} |->
                        IF id \in stays THEN cur[id] ELSE moved(cur[oldId(id[2])])]
           /\ events' = [q \in {x \in DOMAIN events : events[x].id \in stays \cup keep} |->
                           IF events[q].id \in stays THEN events[q]
                           ELSE [moved(events[q]) EXCEPT !.id = newId(@)]]
           /\ snaps' = Without(snaps, {i \in DOMAIN snaps : SubjectOf[snaps[i].scope] = m})
           /\ kept' = Merge([s \in live |-> left[s]],
                            [s \in {move[x] : x \in keep} |-> FrozenReaders(ros, m, oldId(s))])
           /\ erased' = erased \cup {m}
  BY DEF Erase
<1> HIDE DEF m, ros
<1>5. UNCHANGED <<nextSeq, roster, scan>>
  BY DEF Erase
<1> DEFINE newId(id) == Note(move[id], id[3])
           oldId(s) == CHOOSE id \in keep : move[id] = s
<1>6. \A s \in {move[x] : x \in keep} : oldId(s) \in keep /\ move[oldId(s)] = s
  OBVIOUS
<1>7. ASSUME NEW x \in keep
      PROVE  /\ x \in DOMAIN cur /\ x \in Ids /\ x[1] = "note" /\ x[2] = m /\ x[3] # m /\ x[3] \in Members
             /\ x[3] \notin erased
             /\ FrozenReaders(ros, m, x) # {} /\ move[x] \in Pseudonyms /\ move[x] \notin DOMAIN kept
  <2>1. x \in DOMAIN cur /\ x \notin own /\ x[1] = "note" /\ x[2] = m /\ FrozenReaders(ros, m, x) # {}
    BY DEF KeepNotes
  <2>2. x \in Ids /\ Free(x)
    BY <1>3, <2>1 DEF Tables, Gone
  <2>3. x[3] \in Members
    BY <2>1, <2>2 DEF Ids
  <2>4. move[x] \in Pseudonyms \ DOMAIN kept
    BY DEF Injection
  <2> QED
    BY <2>1, <2>2, <2>3, <2>4 DEF Free
<1>8. ASSUME NEW x \in keep
      PROVE  /\ newId(x) = <<"note", move[x], x[3]>> /\ newId(x) \in Ids
             /\ newId(x)[1] = "note" /\ newId(x)[2] = move[x] /\ newId(x)[3] = x[3]
  BY <1>7 DEF Note, Ids
<1>9. ASSUME NEW id \in stays
      PROVE  /\ id \in DOMAIN cur /\ id[2] # m /\ (id[1] = "note" => id[3] # m)
             /\ id \in Ids /\ RowOK(id, cur[id]) /\ Free(id)
             /\ id[2] \in Pseudonyms => id[2] \in live
  <2>1. id \in DOMAIN cur /\ id[2] # m /\ id \notin own /\ id \notin orphan
    OBVIOUS
  <2>2. id \in Ids /\ RowOK(id, cur[id]) /\ Free(id)
    BY <1>3, <2>1 DEF Tables, Gone
  <2>3. id[2] \in Pseudonyms => id[2] \in DOMAIN kept
    BY <1>3, <2>1 DEF KeptHasReaders
  <2> QED
    BY <2>1, <2>2, <2>3
<1>10. ASSUME NEW s \in live
       PROVE  /\ s \in DOMAIN kept /\ left[s] = kept[s] \ {m} /\ left[s] # {}
              /\ \E id \in stays : id[2] = s
  <2>1. PICK id \in DOMAIN cur \ (own \cup orphan) : id[2] = s
    OBVIOUS
  <2>2. s \in DOMAIN kept /\ s \in Pseudonyms
    BY <1>3 DEF Tables
  <2>3. left[s] # {}
    BY <2>1, <2>2 DEF Orphans
  <2>4. s # m
    BY <1>2, <2>2, JournalAssumption
  <2>5. id \in stays
    BY <2>1, <2>4
  <2> QED
    BY <2>1, <2>2, <2>3, <2>5
<1> HIDE DEF keep, stays, live, orphan
<1>11. DOMAIN cur' = stays \cup {newId(x) : x \in keep}
  BY <1>4
<1>12. /\ \A id \in stays : cur'[id] = cur[id]
       /\ \A id \in DOMAIN cur' : id \notin stays => cur'[id] = moved(cur[oldId(id[2])])
  BY <1>4
<1>13. ASSUME NEW id \in DOMAIN cur', id \notin stays
       PROVE  \E x \in keep : id = newId(x) /\ oldId(id[2]) \in keep
  <2>1. PICK x \in keep : id = newId(x)
    BY <1>11, <1>13
  <2>2. id[2] = move[x]
    BY <1>8, <2>1
  <2> HIDE DEF newId, oldId
  <2> QED
    BY <1>6, <2>1, <2>2
<1>14. ASSUME NEW id \in DOMAIN cur'
       PROVE  /\ id \in Ids /\ RowOK(id, cur'[id])
              /\ id[2] \notin erased \cup {m} /\ (id[1] = "note" => id[3] \notin erased \cup {m})
              /\ id[2] \in Pseudonyms => id[2] \in live \cup {move[x] : x \in keep}
  <2>1. CASE id \in stays
    BY <1>9, <1>12, <2>1 DEF Free
  <2>2. CASE id \notin stays
    <3>1. PICK x \in keep : id = newId(x) /\ oldId(id[2]) \in keep
      BY <1>13, <2>2
    <3>2. id \in Ids /\ id[1] = "note" /\ id[2] = move[x] /\ id[3] = x[3]
      BY <1>8, <3>1
    <3> HIDE DEF newId, oldId
    <3>3. PICK y : y = oldId(id[2])
      OBVIOUS
    <3>4. y \in DOMAIN cur /\ RowOK(y, cur[y]) /\ cur'[id] = moved(cur[y])
      BY <1>3, <1>7, <1>12, <2>2, <3>1, <3>3 DEF Tables
    <3>5. RowOK(id, cur'[id])
      BY <3>2, <3>4, MovedRowOK
    <3>6. move[x] \in Pseudonyms /\ move[x] \notin erased \cup {m} /\ x[3] \notin erased \cup {m}
      BY <1>2, <1>3, <1>7, JournalAssumption DEF Tables
    <3> QED
      BY <3>2, <3>5, <3>6
  <2> QED
    BY <2>1, <2>2
<1>15. DOMAIN events' = {x \in DOMAIN events : events[x].id \in stays \cup keep}
  BY <1>4
<1>16. ASSUME NEW q \in DOMAIN events'
       PROVE  /\ q \in DOMAIN events /\ EventOK(events'[q])
              /\ events'[q].old = events[q].old /\ events'[q].new = events[q].new
              /\ events'[q].id \in DOMAIN cur'
              /\ events[q].id \in stays => events'[q] = events[q]
              /\ events[q].id \notin stays =>
                   /\ events'[q].id = newId(events[q].id) /\ events'[q].scope = Household
                   /\ events'[q].kind = events[q].kind
  <2>1. q \in DOMAIN events /\ events[q].id \in stays \cup keep
    BY <1>15
  <2>2. EventOK(events[q]) /\ events[q] \in EventRecs
    BY <1>3, <2>1 DEF Tables, EventOK
  <2>3. CASE events[q].id \in stays
    <3>1. events'[q] = events[q]
      BY <1>4, <2>1, <2>3
    <3> QED
      BY <1>11, <2>1, <2>2, <2>3, <3>1
  <2>4. CASE events[q].id \notin stays
    <3>0. PICK e : e = events[q]
      OBVIOUS
    <3>1. PICK x \in keep : x = e.id /\ e = events[q]
      BY <2>1, <2>4, <3>0
    <3>2. moved(e).id = x
      BY <2>2, <3>1 DEF EventRecs
    <3>3. events'[q] = [moved(e) EXCEPT !.id = newId(moved(e).id)]
      BY <1>4, <2>1, <2>4, <3>1
    <3>4. events'[q] = [moved(e) EXCEPT !.id = newId(x)]
      BY <3>2, <3>3
    <3>5. PICK id \in Ids : id = newId(x) /\ id \in DOMAIN cur'
      BY <1>8, <1>11, <3>1
    <3> HIDE DEF newId
    <3>6. PICK n : n = events'[q] /\ n = [[e EXCEPT !.scope = Household] EXCEPT !.id = id]
      BY <3>4, <3>5
    <3>7. /\ EventOK(events'[q]) /\ events'[q].id = id
          /\ events'[q].old = e.old /\ events'[q].new = e.new
          /\ events'[q].scope = Household /\ events'[q].kind = e.kind
      <4>1. e \in EventRecs /\ EventOK(e)
        BY <2>2, <3>1
      <4>2. /\ n \in EventRecs /\ n.ver = e.ver /\ n.id = id /\ n.old = e.old /\ n.new = e.new
            /\ n.oldV = e.oldV /\ n.newV = e.newV /\ n.scope = Household /\ n.kind = e.kind
        BY <3>6, <4>1 DEF EventRecs, Subjects
      <4>3. EventOK(n)
        BY <4>1, <4>2 DEF EventOK
      <4> QED
        BY <3>6, <4>2, <4>3
    <3> QED
      BY <2>1, <2>4, <3>1, <3>5, <3>7
  <2> QED
    BY <2>3, <2>4
<1>17. /\ DOMAIN kept' = live \cup {move[x] : x \in keep}
       /\ \A s \in {move[x] : x \in keep} : kept'[s] = FrozenReaders(ros, m, oldId(s))
       /\ \A s \in live \ {move[x] : x \in keep} : kept'[s] = left[s]
  <2> DEFINE g == [s \in {move[x] : x \in keep} |-> FrozenReaders(ros, m, oldId(s))]
  <2>1. kept' = Merge([s \in live |-> left[s]], g)
    BY <1>4
  <2>2. /\ DOMAIN g = {move[x] : x \in keep}
        /\ \A s \in {move[x] : x \in keep} : g[s] = FrozenReaders(ros, m, oldId(s))
    OBVIOUS
  <2> HIDE DEF g, oldId, left
  <2> QED
    BY <2>1, <2>2 DEF Merge
<1>18. ASSUME NEW s \in DOMAIN kept'
       PROVE  /\ s \in Pseudonyms /\ kept'[s] \subseteq Members /\ kept'[s] # {}
              /\ kept'[s] \cap (erased \cup {m}) = {}
              /\ \E id \in DOMAIN cur' : id[2] = s
  <2>1. CASE s \in {move[x] : x \in keep}
    <3>1. PICK x \in keep : x = oldId(s) /\ move[x] = s
      BY <1>6, <2>1
    <3>2. kept'[s] = FrozenReaders(ros, m, x)
      BY <1>17, <2>1, <3>1
    <3>3. newId(x) \in DOMAIN cur' /\ newId(x)[2] = s
      BY <1>8, <1>11, <3>1
    <3> HIDE DEF newId, oldId
    <3> QED
      BY <1>2, <1>7, <3>1, <3>2, <3>3 DEF FrozenReaders
  <2>2. CASE s \notin {move[x] : x \in keep}
    <3>1. s \in live /\ kept'[s] = left[s]
      BY <1>17, <2>2
    <3>2. /\ s \in DOMAIN kept /\ kept'[s] = kept[s] \ {m} /\ kept'[s] # {}
          /\ \E id \in stays : id[2] = s
      BY <1>10, <3>1
    <3> HIDE DEF left
    <3> QED
      BY <1>3, <1>11, <3>2 DEF Tables, Gone
  <2> QED
    BY <2>1, <2>2
<1>19. /\ DOMAIN snaps' = {i \in DOMAIN snaps : SubjectOf[snaps[i].scope] # m}
       /\ \A i \in DOMAIN snaps' : snaps'[i] = snaps[i]
  BY <1>4 DEF Without
<1>20. erased' = erased \cup {m}
  BY <1>4
<1> HIDE DEF newId, oldId, left, own
<1>21. Tables'
  <2>1. \A q \in DOMAIN events' : q \in Nat /\ q < nextSeq' /\ EventOK(events'[q])
    BY <1>3, <1>5, <1>16 DEF Tables
  <2>2. \A i \in DOMAIN snaps' : i \in SnapIds /\ snaps'[i] \in Snaps
    BY <1>3, <1>19 DEF Tables
  <2>3. /\ nextSeq' \in Nat \ {0} /\ erased' \subseteq Members /\ roster' \subseteq Members
    BY <1>2, <1>3, <1>5, <1>20 DEF Tables
  <2> QED
    BY <1>14, <1>18, <2>1, <2>2, <2>3 DEF Tables
<1>22. Gone'
  <2>1. \A i \in DOMAIN snaps' : SubjectOf[snaps'[i].scope] \notin erased'
    BY <1>3, <1>19, <1>20 DEF Gone
  <2>2. \A id \in DOMAIN cur' : Free(id)'
    BY <1>14, <1>20 DEF Free
  <2>3. \A q \in DOMAIN events' : Free(events[q].id)'
    BY <1>14, <1>16, <1>20 DEF Free
  <2>4. \A s \in DOMAIN kept' : kept'[s] \cap erased' = {}
    BY <1>18, <1>20
  <2> QED
    BY <2>1, <2>2, <2>3, <2>4 DEF Gone
<1>23. KeptHasReaders'
  BY <1>14, <1>17, <1>18 DEF KeptHasReaders
<1>24. Scanned'
  BY <1>3, <1>5, <1>16 DEF Scanned
<1>25. \A x, y \in keep : move[x] = move[y] => x = y
  BY DEF Injection, IsInjective
<1>26. ASSUME NEW id \in DOMAIN cur, id[2] \in Subjects \ {m}, id[1] = "note" => id[3] # m
       PROVE  id \in stays
  <2>1. id[2] \notin DOMAIN kept
    BY <1>3, <1>26, JournalAssumption DEF Tables, Subjects
  <2> QED
    BY <1>26, <2>1 DEF stays, own, orphan, Orphans, left
<1>27. ASSUME NEW x \in keep
       PROVE  cur'[Note(move[x], x[3])] = [cur[x] EXCEPT !.scope = Household]
  <2>1. newId(x) \in DOMAIN cur' /\ newId(x)[2] = move[x]
    BY <1>8, <1>11
  <2>2. oldId(move[x]) = x
    BY <1>6, <1>25
  <2>3. newId(x) \notin stays
    BY <1>3, <1>7, <1>9, <2>1 DEF KeptHasReaders
  <2>4. cur'[newId(x)] = moved(cur[oldId(move[x])])
    BY <1>12, <2>1, <2>3
  <2> QED
    BY <2>2, <2>4 DEF newId
<1>28. \A id \in stays : id \in DOMAIN cur /\ id[2] # m /\ (id[2] \in Pseudonyms => id[2] \in DOMAIN kept)
  BY <1>3, <1>9 DEF KeptHasReaders
<1>29. Erasing(m, stays, keep, move)
  BY <1>7, <1>11, <1>12, <1>15, <1>16, <1>25, <1>26, <1>27, <1>28 DEF Erasing, newId
<1> QED
  BY <1>15, <1>19, <1>20, <1>21, <1>22, <1>23, <1>24, <1>29 DEF m

\* Nobody else plans to write about the erased member, or as them: p holds
\* the lock such a plan needs.
LEMMA EraseStep ==
  ASSUME JournalInv, NEW p \in Procs, Erase(p)
  PROVE  JournalInv'
<1>1. /\ Tables' /\ Gone' /\ KeptHasReaders' /\ Scanned'
      /\ erased' = erased \cup {txs[p].subj} /\ DOMAIN events' \subseteq DOMAIN events
      /\ \A i \in DOMAIN snaps :
           SubjectOf[snaps[i].scope] # txs[p].subj => i \in DOMAIN snaps' /\ snaps'[i] = snaps[i]
  BY EraseTables
<1>2. txs'[p] = Idle /\ DOMAIN txs' = Procs /\ \A q \in Procs \ {p} : txs'[q] = txs[q]
  BY DEF JournalInv, Finish, Erase
<1>3. UNCHANGED <<nextSeq, scan>>
  BY DEF Erase
<1>4. {SubjectLock(txs[p].subj), AuthorLock(txs[p].subj)} \subseteq txs[p].held
  BY DEF JournalInv, TxLocks, Erase, Ready
<1>5. Exclusive'
  BY <1>2, IdleOK DEF Exclusive, JournalInv
<1>6. TxLocks(txs[p])' /\ InFlight(txs[p])' /\ Confirms(txs[p])'
  BY <1>2 DEF Idle, TxLocks, InFlight, Writing, Confirms, TxFields
<1>7. ASSUME NEW q \in Procs \ {p}
      PROVE  TxLocks(txs[q])' /\ InFlight(txs[q])' /\ Confirms(txs[q])'
  <2>1. TxLocks(txs[q])'
    BY <1>2 DEF TxLocks, JournalInv
  <2>2. Confirms(txs[q])'
    BY <1>1, <1>2 DEF Confirms, JournalInv
  <2>3. txs[p].held \cap txs[q].held = {}
    BY DEF JournalInv, Exclusive
  <2>4. ASSUME Writing(txs[q])
        PROVE  /\ txs[q].subj \notin erased'
               /\ txs[q].op = "note" => txs[q].author \notin erased'
    <3>1. /\ txs[q].need = {} /\ txs[q].subj \notin erased
          /\ txs[q].op = "note" => txs[q].author \notin erased
          /\ txs[q].op \in {"apply", "confirm", "note"}
      BY <2>4 DEF InFlight, JournalInv
    <3>2. /\ SubjectLock(txs[q].subj) \in txs[q].held
          /\ txs[q].op = "note" => AuthorLock(txs[q].author) \in txs[q].held
      BY <3>1 DEF TxLocks, JournalInv
    <3> QED
      BY <1>1, <1>4, <2>3, <3>1, <3>2
  <2>5. InFlight(txs[q])'
    BY <1>1, <1>2, <1>3, <2>4, InFlightKept DEF JournalInv, Tables
  <2> QED
    BY <2>1, <2>2, <2>5
<1> QED
  BY <1>1, <1>2, <1>5, <1>6, <1>7 DEF JournalInv

-----------------------------------------------------------------------------
(* The theorems.                                                            *)

LEMMA InitInv == Init => JournalInv
<1> SUFFICES ASSUME Init PROVE JournalInv
  OBVIOUS
<1>1. DOMAIN cur = {} /\ DOMAIN events = {} /\ DOMAIN snaps = {} /\ DOMAIN kept = {}
  BY DEF Init
<1>2. Tables /\ Gone /\ KeptHasReaders
  BY <1>1 DEF Init, Tables, Gone, KeptHasReaders
<1>3. Scanned
  BY DEF Init, Scanned, NoScan, None
<1>4. DOMAIN txs = Procs /\ \A p \in Procs : txs[p] = Idle
  BY DEF Init
<1>5. Exclusive
  BY <1>4, IdleOK DEF Exclusive
<1>6. \A p \in Procs : TxLocks(txs[p]) /\ InFlight(txs[p]) /\ Confirms(txs[p])
  BY <1>4 DEF Idle, TxLocks, InFlight, Writing, Confirms, TxFields
<1> QED
  BY <1>2, <1>3, <1>4, <1>5, <1>6 DEF JournalInv

LEMMA NextInv == JournalInv /\ [Next]_vars => JournalInv'
<1> SUFFICES ASSUME JournalInv, [Next]_vars PROVE JournalInv'
  OBVIOUS
<1>1. CASE UNCHANGED vars
  <2> USE <1>1 DEF vars, JournalInv
  <2>1. Tables' /\ Scanned' /\ Exclusive' /\ Gone' /\ KeptHasReaders' /\ DOMAIN txs' = Procs
    BY DEF Tables, Scanned, Exclusive, Gone, KeptHasReaders, Free
  <2>2. \A q \in Procs : TxLocks(txs[q])' /\ InFlight(txs[q])' /\ Confirms(txs[q])'
    BY DEF TxLocks, InFlight, Writing, Confirms
  <2> QED
    BY <2>1, <2>2
<1>2. ASSUME NEW p \in Procs, BeginApply(p) \/ BeginConfirm(p) \/ BeginNote(p) \/ BeginErase(p)
      PROVE  JournalInv'
  BY <1>2, BeginApplyStep, BeginConfirmStep, BeginNoteStep, BeginEraseStep
<1>3. ASSUME NEW p \in Procs, Acquire(p) \/ Authored(p) \/ ApplyPlan(p) \/ ConfirmPlan(p) \/ NotePlan(p)
      PROVE  JournalInv'
  BY <1>3, AcquireStep, AuthoredStep, ApplyPlanStep, ConfirmPlanStep, NotePlanStep
<1>4. ASSUME NEW p \in Procs, Rollback(p)
      PROVE  JournalInv'
  BY <1>4, FinishStep DEF Rollback
<1>5. ASSUME NEW p \in Procs, Insert(p) \/ Commit(p) \/ Erase(p)
      PROVE  JournalInv'
  BY <1>5, InsertStep, CommitStep, EraseStep
<1>6. CASE DiscardHeld \/ Reload \/ RescanRead \/ JudgeCurrent \/ JudgeEvents
  BY <1>6, DiscardStep, ReloadStep, RescanReadStep, JudgeCurrentStep, JudgeEventsStep
<1> QED
  BY <1>1, <1>2, <1>3, <1>4, <1>5, <1>6 DEF Next

\* The invariant, for every step of every behaviour of the journal.
THEOREM JournalInvHolds == Spec => []JournalInv
  BY InitInv, NextInv, PTL DEF Spec

\* An erasure is complete and stays complete (erase.go): whatever was in
\* flight when it ran, nothing about or by the member is stored or shown to
\* them again, and every kept note has a reader.
THEOREM ErasureIsComplete == Spec => []ErasureComplete
<1>1. JournalInv => ErasureComplete
  <2> SUFFICES ASSUME JournalInv PROVE ErasureComplete
    OBVIOUS
  <2>1. KeptHasReaders
    BY DEF JournalInv
  <2>2. ASSUME NEW m \in erased
        PROVE  /\ \A i \in DOMAIN snaps : SubjectOf[snaps[i].scope] # m
               /\ \A id \in DOMAIN cur \cup {events[q].id : q \in DOMAIN events} :
                    id[2] # m /\ (id[1] = "note" => id[3] # m)
               /\ StateRows(m) = {} /\ EventRows(m) = {}
               /\ \A s \in DOMAIN kept : m \notin kept[s]
    <3>1. \A s : ~Readable(m, s)
      BY DEF Readable
    <3>2. StateRows(m) = {}
      BY <3>1 DEF StateRows
    <3>3. EventRows(m) = {}
      BY <3>1 DEF EventRows
    <3> QED
      BY <3>2, <3>3 DEF JournalInv, Gone, Free
  <2> QED
    BY <2>1, <2>2 DEF ErasureComplete, ErasedGone
<1> QED
  BY <1>1, JournalInvHolds, PTL

\* Every stored verdict is its scanner version's on its own text, and a text
\* no version passes is shown to nobody (buildEvent, judgeCurrent,
\* judgeEvents, access.Text).
THEOREM TextsAreJudged == Spec => []TextsJudged
<1>1. JournalInv => TextsJudged
  <2> SUFFICES ASSUME JournalInv PROVE TextsJudged
    OBVIOUS
  <2>1. \A id \in DOMAIN cur : /\ cur[id].verdict = Verdict(cur[id].ver, cur[id].val)
                               /\ cur[id].ver \in Versions /\ cur[id].val \in Values
    BY DEF JournalInv, Tables, RowOK, Rows
  <2>2. \A q \in DOMAIN events : EventOK(events[q])
    BY DEF JournalInv, Tables
  <2>3. VerdictsTrue
    BY <2>1, <2>2 DEF VerdictsTrue, EventOK, SideTrue
  <2>4. ASSUME NEW v \in Versions, NEW t, Text(t, Verdict(v, t)) \in Values
        PROVE  Text(t, Verdict(v, t)) = t /\ t \in Passes[v]
    BY <2>4, JournalAssumption DEF Text, Verdict, None, Withheld
  <2>5. ASSUME NEW m \in Members, NEW r \in StateRows(m), r.text \in Values
        PROVE  \E v \in Versions : r.text \in Passes[v]
    <3>1. PICK id \in DOMAIN cur : r = [id |-> id, text |-> Text(cur[id].val, cur[id].verdict)]
      BY DEF StateRows
    <3>2. PICK v, t : v = cur[id].ver /\ t = cur[id].val
      OBVIOUS
    <3>3. r.text = Text(t, Verdict(v, t))
      BY <2>1, <3>1, <3>2
    <3>4. v \in Versions
      BY <2>1, <3>2
    <3> QED
      BY <2>4, <2>5, <3>3, <3>4
  <2>6. ASSUME NEW m \in Members, NEW r \in EventRows(m), r.text \in Values
        PROVE  \E v \in Versions : r.text \in Passes[v]
    <3>1. PICK q \in DOMAIN events :
            \/ r = [id |-> events[q].id, text |-> Text(events[q].old, events[q].oldV)]
            \/ r = [id |-> events[q].id, text |-> Text(events[q].new, events[q].newV)]
      BY DEF EventRows
    <3>2. ASSUME NEW t, NEW d, NEW w, SideTrue(w, t, d), r.text = Text(t, d)
          PROVE  \E v \in Versions : r.text \in Passes[v]
      <4>1. t # None
        BY <2>6, <3>2, JournalAssumption DEF Text, None
      <4>2. PICK v \in Versions : d = Verdict(v, t)
        BY <3>2, <4>1 DEF SideTrue
      <4> QED
        BY <2>4, <2>6, <3>2, <4>2
    <3>3. /\ SideTrue(events[q].ver, events[q].old, events[q].oldV)
          /\ SideTrue(events[q].ver, events[q].new, events[q].newV)
      BY <2>2 DEF EventOK
    <3>4. r.text = Text(events[q].old, events[q].oldV) \/ r.text = Text(events[q].new, events[q].newV)
      BY <3>1
    <3> QED
      BY <3>2, <3>3, <3>4
  <2>7. FailedTextWithheld
    BY <2>5, <2>6 DEF FailedTextWithheld
  <2> QED
    BY <2>3, <2>7 DEF TextsJudged
<1> QED
  BY <1>1, JournalInvHolds, PTL

\* No step commits an event below one that can already be read (lockEvents):
\* a reader that resumes after the last sequence number it saw misses nothing.
THEOREM SeqsAppearInOrder == Spec => SeqInOrder
<1>1. JournalInv /\ [Next]_vars =>
        [\A q \in DOMAIN events' \ DOMAIN events : \A r \in DOMAIN events : q > r]_vars
  <2> SUFFICES ASSUME JournalInv, Next, NEW q \in DOMAIN events' \ DOMAIN events,
                      NEW r \in DOMAIN events
               PROVE  q > r
    BY DEF vars
  <2>1. r \in Nat
    BY DEF JournalInv, Tables
  <2>2. ASSUME NEW p \in Procs, Commit(p)
        PROVE  q > r
    <3>1. ~(txs[p].op = "apply" /\ txs[p].id \in DOMAIN snaps)
      BY <2>2 DEF Commit, store
    <3>2. PICK w \in txs[p].write : w.row.seq = q
      <4>1. Committed(txs[p].write, txs[p].confirm, txs[p].obs)
        BY <2>2, <3>1, CommitTables
      <4> QED
        BY <4>1 DEF Committed
    <3>3. InFlight(txs[p]) /\ txs[p].phase = "commit"
      BY <2>2 DEF JournalInv, Commit
    <3>4. r < w.row.seq /\ RowOK(w.id, w.row)
      BY <3>3 DEF InFlight, Writing
    <3> QED
      BY <2>1, <3>2, <3>4 DEF RowOK, Rows
  <2>3. ASSUME NEW p \in Procs, Erase(p)
        PROVE  FALSE
    BY <2>3, EraseTables
  <2>4. ASSUME NEW p \in Procs, BeginApply(p) \/ BeginConfirm(p) \/ BeginNote(p) \/ BeginErase(p)
        PROVE  FALSE
    <3>1. UNCHANGED events
      BY <2>4 DEF BeginApply, BeginConfirm, BeginNote, BeginErase, Begin, store
    <3> QED
      BY <3>1
  <2>5. ASSUME NEW p \in Procs, Acquire(p) \/ Authored(p) \/ ApplyPlan(p) \/ ConfirmPlan(p) \/ NotePlan(p)
        PROVE  FALSE
    <3>1. UNCHANGED events
      BY <2>5 DEF Acquire, Authored, ApplyPlan, ConfirmPlan, NotePlan, FromOrdering, store
    <3> QED
      BY <3>1
  <2>6. ASSUME NEW p \in Procs, Insert(p) \/ Rollback(p)
        PROVE  FALSE
    <3>1. UNCHANGED events
      BY <2>6 DEF Insert, Numbered, Rollback, store
    <3> QED
      BY <3>1
  <2>7. CASE DiscardHeld \/ Reload \/ RescanRead \/ JudgeCurrent \/ JudgeEvents
    <3>1. DOMAIN events' = DOMAIN events
      BY <2>7 DEF DiscardHeld, Reload, RescanRead, JudgeCurrent, JudgeEvents, store
    <3> QED
      BY <3>1
  <2> QED
    BY <2>2, <2>3, <2>4, <2>5, <2>6, <2>7 DEF Next
<1> QED
  BY <1>1, JournalInvHolds, PTL DEF Spec, SeqInOrder

-----------------------------------------------------------------------------
(* Locks are taken in one order.                                            *)

\* The order of the locks, and the locks there are.
Below(l, k) == /\ k[1] = "subject" /\ l[1] \in {"author", "subject"}
               /\ l[1] = "subject" => LockOrder[l[2]] < LockOrder[k[2]]
Locks == ({"subject"} \X Subjects) \cup ({"author"} \X Members)

\* Every lock a transaction holds comes before those it still needs.
LockRank(tx) ==
  /\ tx.need \subseteq Locks /\ tx.held \subseteq Locks \cup {EventsLock}
  /\ \A l \in tx.held, k \in tx.need : Below(l, k)
  /\ tx.op = "erase" /\ tx.subjects = {} => tx.need \cup tx.held \subseteq {AuthorLock(tx.subj)}

Ranked == \A p \in Procs : LockRank(txs[p])

LEMMA LockTypes == /\ \A s \in Subjects : SubjectLock(s) \in Locks
                   /\ \A m \in Members : AuthorLock(m) \in Locks
                   /\ \A l \in Locks : l[1] \in {"author", "subject"} /\ l[2] \in Subjects
  BY DEF SubjectLock, AuthorLock, Locks, Subjects

LEMMA BeginRank ==
  ASSUME JournalInv, Ranked, NEW p \in Procs,
         BeginApply(p) \/ BeginConfirm(p) \/ BeginNote(p) \/ BeginErase(p)
  PROVE  Ranked'
<1>1. /\ \A q \in Procs \ {p} : txs'[q] = txs[q]
      /\ txs'[p].held = {} /\ txs'[p].need \subseteq Locks
      /\ txs'[p].op = "erase" => txs'[p].need = {AuthorLock(txs'[p].subj)}
  <2>1. ASSUME NEW tx, Begin(p, tx), tx.held = {}, tx.need \subseteq Locks,
               tx.op = "erase" => tx.need = {AuthorLock(tx.subj)}
        PROVE  /\ \A q \in Procs \ {p} : txs'[q] = txs[q]
               /\ txs'[p].held = {} /\ txs'[p].need \subseteq Locks
               /\ txs'[p].op = "erase" => txs'[p].need = {AuthorLock(txs'[p].subj)}
    BY <2>1 DEF Begin, JournalInv
  <2>2. CASE BeginApply(p)
    <3>1. PICK i \in SnapIds, s \in Menu :
            Begin(p, [Tx("apply", SubjectOf[s.scope], {SubjectLock(SubjectOf[s.scope])})
                        EXCEPT !.id = i, !.snap = s])
      BY <2>2 DEF BeginApply
    <3>2. SubjectLock(SubjectOf[s.scope]) \in Locks
      BY LockTypes, JournalAssumption DEF Subjects
    <3>3. PICK tx : tx = [Tx("apply", SubjectOf[s.scope], {SubjectLock(SubjectOf[s.scope])})
                            EXCEPT !.id = i, !.snap = s]
      OBVIOUS
    <3>4. tx.held = {} /\ tx.need = {SubjectLock(SubjectOf[s.scope])} /\ tx.op # "erase"
      BY <3>3 DEF Tx, Idle
    <3> QED
      BY <2>1, <3>1, <3>2, <3>3, <3>4
  <2>3. CASE BeginConfirm(p)
    <3>1. PICK i \in DOMAIN snaps :
            Begin(p, [Tx("confirm", SubjectOf[snaps[i].scope], {SubjectLock(SubjectOf[snaps[i].scope])})
                        EXCEPT !.id = i])
      BY <2>3 DEF BeginConfirm
    <3>2. PICK m \in Members : m = SubjectOf[snaps[i].scope]
      BY JournalAssumption DEF JournalInv, Tables, Snaps
    <3>3. PICK tx : tx = [Tx("confirm", m, {SubjectLock(m)}) EXCEPT !.id = i]
      OBVIOUS
    <3>4. tx.held = {} /\ tx.need = {SubjectLock(m)} /\ tx.op # "erase"
      BY <3>3 DEF Tx, Idle
    <3>5. Begin(p, tx) /\ SubjectLock(m) \in Locks
      BY <3>1, <3>2, <3>3, LockTypes DEF Subjects
    <3> QED
      BY <2>1, <3>4, <3>5
  <2>4. CASE BeginNote(p)
    <3>1. PICK n \in NoteMenu :
            Begin(p, NoteTx(n, {AuthorLock(n.author), SubjectLock(n.subj)}))
      BY <2>4 DEF BeginNote
    <3>2. AuthorLock(n.author) \in Locks /\ SubjectLock(n.subj) \in Locks
      BY LockTypes, JournalAssumption DEF Subjects
    <3>3. PICK tx : tx = NoteTx(n, {AuthorLock(n.author), SubjectLock(n.subj)})
      OBVIOUS
    <3>4. tx.held = {} /\ tx.need = {AuthorLock(n.author), SubjectLock(n.subj)} /\ tx.op # "erase"
      BY <3>3 DEF NoteTx, Tx, Idle
    <3> QED
      BY <2>1, <3>1, <3>2, <3>3, <3>4
  <2>5. CASE BeginErase(p)
    <3>1. PICK m \in Members : Begin(p, [Tx("erase", m, {AuthorLock(m)}) EXCEPT !.ros = roster])
      BY <2>5 DEF BeginErase
    <3>2. PICK tx : tx = [Tx("erase", m, {AuthorLock(m)}) EXCEPT !.ros = roster]
      OBVIOUS
    <3>3. /\ tx.held = {} /\ tx.need = {AuthorLock(m)} /\ AuthorLock(m) \in Locks
          /\ tx.subj = m
      BY <3>2, LockTypes DEF Tx, Idle
    <3> QED
      BY <2>1, <3>1, <3>2, <3>3
  <2> QED
    BY <2>2, <2>3, <2>4, <2>5
<1> QED
  BY <1>1 DEF Ranked, LockRank

LEMMA AcquireRank ==
  ASSUME JournalInv, Ranked, NEW p \in Procs, Acquire(p)
  PROVE  Ranked'
<1>1. PICK l \in txs[p].need :
        /\ NextLock(txs[p].need, l)
        /\ txs' = [txs EXCEPT ![p].held = @ \cup {l}, ![p].need = @ \ {l}]
  BY DEF Acquire
<1>2. DOMAIN txs[p] = TxFields /\ TxLocks(txs[p]) /\ LockRank(txs[p])
  BY DEF JournalInv, TxLocks, Ranked
<1>3. /\ \A q \in Procs \ {p} : txs'[q] = txs[q]
      /\ txs'[p].held = txs[p].held \cup {l} /\ txs'[p].need = txs[p].need \ {l}
      /\ txs'[p].op = txs[p].op /\ txs'[p].subjects = txs[p].subjects
      /\ txs'[p].subj = txs[p].subj
  BY <1>1, <1>2 DEF JournalInv, TxFields
<1>4. l \in Locks /\ l[1] \in {"author", "subject"}
  BY <1>1, <1>2, LockTypes DEF LockRank
<1>5. \A k \in txs[p].need \ {l} : Below(l, k)
  BY <1>1, <1>4 DEF NextLock, Below
<1>6. CASE ~(txs[p].op = "erase" /\ txs[p].subjects = {})
  BY <1>2, <1>3, <1>4, <1>5, <1>6 DEF Ranked, LockRank
<1>7. CASE txs[p].op = "erase" /\ txs[p].subjects = {}
  <2>1. txs[p].need \subseteq {AuthorLock(txs[p].subj)}
    BY <1>2, <1>7 DEF LockRank
  <2> QED
    BY <1>2, <1>3, <1>4, <1>5, <1>7, <2>1 DEF Ranked, LockRank
<1> QED
  BY <1>6, <1>7

LEMMA AuthoredRank ==
  ASSUME JournalInv, Ranked, NEW p \in Procs, Authored(p)
  PROVE  Ranked'
<1> DEFINE t == txs[p]
           S == {t.subj, Household}
                  \cup {id[2] : id \in {x \in DOMAIN cur : x[1] = "note" /\ x[3] = t.subj}}
           todo == S \ Pseudonyms
<1>1. txs' = [txs EXCEPT ![p].subjects = todo, ![p].need = {SubjectLock(s) : s \in todo}]
  BY DEF Authored
<1>2. DOMAIN t = TxFields /\ TxLocks(t) /\ t.op = "erase" /\ t.subjects = {} /\ LockRank(t)
  BY DEF JournalInv, TxLocks, Authored, Ready, Ranked
<1>3. todo \subseteq Subjects /\ todo # {}
  <2>1. t.subj \in Members
    BY <1>2 DEF TxLocks
  <2>2. \A x \in DOMAIN cur : x[2] \in Subjects \cup Pseudonyms
    BY DEF JournalInv, Tables, Ids, Subjects
  <2> QED
    BY <2>1, <2>2, JournalAssumption DEF Subjects
<1> HIDE DEF todo
<1>4. /\ \A q \in Procs \ {p} : txs'[q] = txs[q]
      /\ txs'[p].need = {SubjectLock(s) : s \in todo} /\ txs'[p].held = t.held
      /\ txs'[p].subjects = todo
  BY <1>1, <1>2 DEF JournalInv, TxFields
<1>5. t.held \subseteq {AuthorLock(t.subj)} /\ t.held \subseteq Locks \cup {EventsLock}
  BY <1>2 DEF LockRank
<1>6. \A l \in t.held, k \in txs'[p].need : Below(l, k)
  BY <1>4, <1>5 DEF Below, AuthorLock, SubjectLock
<1>7. txs'[p].need \subseteq Locks
  BY <1>3, <1>4, LockTypes
<1> HIDE DEF t
<1> QED
  BY <1>3, <1>4, <1>5, <1>6, <1>7 DEF Ranked, LockRank

\* Insert adds the events lock to a transaction that needs no other.
LEMMA PlanRank ==
  ASSUME JournalInv, Ranked, NEW p \in Procs,
         \A q \in Procs \ {p} : txs'[q] = txs[q],
         \/ txs'[p] = Idle
         \/ /\ txs'[p].need = {} /\ txs'[p].op # "erase"
            /\ txs'[p].held \subseteq txs[p].held \cup {EventsLock}
  PROVE  Ranked'
  BY DEF Ranked, LockRank, Idle

LEMMA OrderingRank ==
  ASSUME JournalInv, NEW p \in Procs, NEW id, NEW s, NEW confirm, FromOrdering(p, id, s, confirm),
         txs[p].need = {}, txs[p].op # "erase"
  PROVE  /\ \A q \in Procs \ {p} : txs'[q] = txs[q]
         /\ \/ txs'[p] = Idle
            \/ /\ txs'[p].need = {} /\ txs'[p].op # "erase" /\ txs'[p].held \subseteq txs[p].held
<1>1. CASE Finish(p)
  BY <1>1 DEF Finish, JournalInv
<1>2. ASSUME NEW B, NEW C,
             txs' = [txs EXCEPT ![p] = [@ EXCEPT !.phase = "insert", !.snap = s, !.obs = s.obs,
                                                 !.confirm = C, !.write = B]]
      PROVE  /\ \A q \in Procs \ {p} : txs'[q] = txs[q]
             /\ txs'[p].need = {} /\ txs'[p].op # "erase" /\ txs'[p].held \subseteq txs[p].held
  <2>1. DOMAIN txs[p] = TxFields
    BY DEF JournalInv, TxLocks
  <2> QED
    BY <1>2, <2>1 DEF JournalInv, TxFields
<1> QED
  BY <1>1, <1>2 DEF FromOrdering

LEMMA NextRank == JournalInv /\ Ranked /\ [Next]_vars => Ranked'
<1> SUFFICES ASSUME JournalInv, Ranked, [Next]_vars PROVE Ranked'
  OBVIOUS
<1>1. CASE UNCHANGED txs
  BY <1>1 DEF Ranked, LockRank
<1>2. ASSUME NEW p \in Procs, BeginApply(p) \/ BeginConfirm(p) \/ BeginNote(p) \/ BeginErase(p)
                                \/ Acquire(p) \/ Authored(p)
      PROVE  Ranked'
  BY <1>2, BeginRank, AcquireRank, AuthoredRank
<1>3. ASSUME NEW p \in Procs, Finish(p)
      PROVE  Ranked'
  <2>1. txs'[p] = Idle /\ \A q \in Procs \ {p} : txs'[q] = txs[q]
    BY <1>3 DEF Finish, JournalInv
  <2> QED
    BY <2>1, PlanRank
<1>4. ASSUME NEW p \in Procs, NotePlan(p)
      PROVE  Ranked'
  <2>1. /\ DOMAIN txs[p] = TxFields /\ txs[p].need = {} /\ txs[p].op = "note"
    BY <1>4 DEF JournalInv, TxLocks, NotePlan, Ready
  <2>2. ASSUME NEW B, txs' = [txs EXCEPT ![p] = [@ EXCEPT !.phase = "insert", !.ros = {}, !.write = B]]
        PROVE  /\ \A q \in Procs \ {p} : txs'[q] = txs[q]
               /\ txs'[p].need = {} /\ txs'[p].op # "erase" /\ txs'[p].held \subseteq txs[p].held
    BY <2>1, <2>2 DEF JournalInv, TxFields
  <2>3. Finish(p) \/ \E B : txs' = [txs EXCEPT ![p] = [@ EXCEPT !.phase = "insert", !.ros = {}, !.write = B]]
    BY <1>4 DEF NotePlan
  <2> QED
    BY <1>3, <2>2, <2>3, PlanRank
<1>5. ASSUME NEW p \in Procs, ApplyPlan(p)
      PROVE  Ranked'
  <2>1. txs[p].need = {} /\ txs[p].op # "erase"
    BY <1>5 DEF ApplyPlan, Ready
  <2>2. Finish(p) \/ FromOrdering(p, txs[p].id, txs[p].snap, FALSE)
    BY <1>5 DEF ApplyPlan
  <2>3. PICK i, s : i = txs[p].id /\ s = txs[p].snap
    OBVIOUS
  <2>4. CASE FromOrdering(p, i, s, FALSE)
    BY <2>1, <2>4, OrderingRank, PlanRank
  <2> QED
    BY <1>3, <2>2, <2>3, <2>4
<1>6. ASSUME NEW p \in Procs, ConfirmPlan(p)
      PROVE  Ranked'
  <2>1. txs[p].need = {} /\ txs[p].op # "erase"
    BY <1>6 DEF ConfirmPlan, Ready
  <2>2. Finish(p) \/ FromOrdering(p, txs[p].id, snaps[txs[p].id], TRUE)
    BY <1>6 DEF ConfirmPlan
  <2>3. PICK i, s : i = txs[p].id /\ s = snaps[txs[p].id]
    OBVIOUS
  <2>4. CASE FromOrdering(p, i, s, TRUE)
    BY <2>1, <2>4, OrderingRank, PlanRank
  <2> QED
    BY <1>3, <2>2, <2>3, <2>4
<1>7. ASSUME NEW p \in Procs, Insert(p)
      PROVE  Ranked'
  <2>1. /\ DOMAIN txs[p] = TxFields /\ txs[p].need = {} /\ txs[p].op # "erase"
    BY <1>7 DEF JournalInv, TxLocks, InFlight, Writing, Insert
  <2>2. PICK B : txs' = [txs EXCEPT ![p] = [@ EXCEPT !.phase = "commit", !.write = B,
                           !.held = txs[p].held \cup {l \in {EventsLock} : txs[p].write # {}}]]
    BY <1>7 DEF Insert, Numbered
  <2>3. /\ \A q \in Procs \ {p} : txs'[q] = txs[q]
        /\ txs'[p].need = {} /\ txs'[p].op # "erase"
        /\ txs'[p].held \subseteq txs[p].held \cup {EventsLock}
    BY <2>1, <2>2 DEF JournalInv, TxFields
  <2> QED
    BY <2>3, PlanRank
<1>8. ASSUME NEW p \in Procs, Commit(p) \/ Rollback(p) \/ Erase(p)
      PROVE  Finish(p)
  BY <1>8 DEF Commit, Rollback, Erase
<1>9. DiscardHeld \/ Reload \/ RescanRead \/ JudgeCurrent \/ JudgeEvents => UNCHANGED txs
  BY DEF DiscardHeld, Reload, RescanRead, JudgeCurrent, JudgeEvents
<1> QED
  BY <1>1, <1>2, <1>3, <1>4, <1>5, <1>6, <1>7, <1>8, <1>9 DEF Next, vars

\* No two transactions wait for each other's locks: each would hold a lock
\* that comes after the one it waits for.
THEOREM NoDeadlock == Spec => []NoLockCycle
<1>1. Init => Ranked
  BY DEF Init, Ranked, LockRank, Idle
<1>2. JournalInv /\ Ranked => NoLockCycle
  <2> SUFFICES ASSUME Ranked, NEW p \in Procs, NEW q \in Procs,
                      NEW l \in txs[q].held, NextLock(txs[p].need, l),
                      NEW k \in txs[p].held, NextLock(txs[q].need, k)
               PROVE  FALSE
    BY DEF NoLockCycle
  <2>1. l \in txs[p].need /\ k \in txs[q].need
    BY DEF NextLock
  <2>2. Below(k, l) /\ Below(l, k) /\ l \in Locks /\ k \in Locks
    BY <2>1 DEF Ranked, LockRank
  <2>3. l[2] \in Subjects /\ k[2] \in Subjects
    BY <2>2, LockTypes
  <2>4. LockOrder[l[2]] \in Nat /\ LockOrder[k[2]] \in Nat
    BY <2>3, JournalAssumption DEF Subjects
  <2> QED
    BY <2>2, <2>4 DEF Below
<1> QED
  BY <1>1, <1>2, NextRank, JournalInvHolds, PTL DEF Spec

-----------------------------------------------------------------------------
(* The history and the observations.                                        *)

SameSnap(a, b) == a.scope = b.scope /\ a.obs = b.obs /\ a.recs = b.recs

\* A change to be committed is not older than the row it changes, and an event
\* without a text leaves the row's.
ChangeOK(w, obs) ==
  /\ w.row.confAt = obs
  /\ w.id \in DOMAIN cur => cur[w.id].confAt <= obs
  /\ w.event.scope = w.row.scope /\ (w.event.kind = "removed" <=> w.row.removed)
  /\ w.event.new \in {None, w.row.val}
  /\ w.event.new = None => w.id \in DOMAIN cur /\ cur[w.id].val = w.row.val

\* The row says what snapshot s says of it.
Shows(r, id, s) == /\ id \in DOMAIN RecsOf(s) /\ ~r.removed
                   /\ r.val = s.recs[id[3]] /\ r.scope = s.scope

\* A plan still fits the rows it was computed from: its subject's lock is held.
PlanOK(tx) ==
  /\ tx.op = "note" => tx.confirm = {}
  /\ Writing(tx) =>
       /\ \A w \in tx.write : ChangeOK(w, tx.obs)
       /\ \A w, v \in tx.write : w.id = v.id => w = v
       /\ tx.phase = "commit" => \A w, v \in tx.write : w.row.seq = v.row.seq => w = v
  /\ Writing(tx) /\ tx.op # "note" =>
       /\ \A id \in DOMAIN RecsOf(tx.snap) :
            \/ id \in tx.confirm \/ \E w \in tx.write : w.id = id
            \/ id \in DOMAIN cur /\ cur[id].confAt > tx.obs
       /\ \A w \in tx.write : ~w.row.removed => Shows(w.row, w.id, tx.snap)
       /\ \A id \in tx.confirm : /\ id \in DOMAIN cur /\ cur[id].confAt <= tx.obs
                                 /\ Shows(cur[id], id, tx.snap)
       /\ tx.op = "confirm" => tx.id \in DOMAIN snaps /\ SameSnap(snaps[tx.id], tx.snap)

\* Every applied snapshot's records have rows at least as recent, and a live
\* row shows an applied snapshot of its time.
Seen ==
  /\ \A i \in DOMAIN snaps : snaps[i].status = "applied" =>
       \A id \in DOMAIN RecsOf(snaps[i]) : id \in DOMAIN cur /\ cur[id].confAt >= snaps[i].obs
  /\ \A id \in DOMAIN cur : id[1] = "grade" /\ ~cur[id].removed =>
       \E i \in DOMAIN snaps : /\ snaps[i].status = "applied" /\ snaps[i].obs = cur[id].confAt
                               /\ Shows(cur[id], id, snaps[i])

HistoryInv ==
  /\ RowsReplay /\ Seen /\ NoStaleHeld /\ begun \in [tx : 0..MaxTx, aux : 0..MaxAux]
  /\ \A p \in Procs : PlanOK(txs[p])

LEMMA DiffChanges ==
  ASSUME Tables, NEW sc, NEW obs \in Nat, NEW complete \in BOOLEAN, NEW recs,
         NEW w \in Diff(sc, obs, complete, recs).write \cup Diff(sc, obs, complete, recs).remove
  PROVE  /\ w.scope = sc /\ w.id \in DOMAIN cur => cur[w.id].confAt <= obs
         /\ w.kind = "removed" => w.id \notin DOMAIN recs
         /\ w.kind # "removed" => w.id \in DOMAIN recs /\ w.val = recs[w.id] /\ w.kind = KindOf(w.id)
         /\ w = [id |-> w.id, kind |-> w.kind, scope |-> sc, val |-> w.val]
         /\ w.kind = "removed" => w.val = cur[w.id].val
<1>1. \A id \in DOMAIN cur : ~Stale(id, obs) => cur[id].confAt <= obs
  BY DEF Tables, RowOK, Rows, Stale
<1>2. CASE w \in Diff(sc, obs, complete, recs).write
  <2>1. PICK id \in DOMAIN recs :
          /\ ~Stale(id, obs)
          /\ w = [id |-> id, kind |-> KindOf(id), scope |-> sc, val |-> recs[id]]
    BY <1>2 DEF Diff
  <2>2. KindOf(id) # "removed"
    BY DEF KindOf
  <2> QED
    BY <1>1, <2>1, <2>2
<1>3. CASE w \in Diff(sc, obs, complete, recs).remove
  <2>1. complete
    BY <1>3 DEF Diff
  <2>2. PICK id \in DOMAIN cur :
          /\ ~Stale(id, obs) /\ id \notin DOMAIN recs
          /\ w = [id |-> id, kind |-> "removed", scope |-> sc, val |-> cur[id].val]
    BY <1>3, <2>1 DEF Diff
  <2> QED
    BY <1>1, <2>2
<1> QED
  BY <1>2, <1>3

LEMMA DiffOnce ==
  ASSUME Tables, NEW sc, NEW obs \in Nat, NEW complete \in BOOLEAN, NEW recs,
         NEW w \in Diff(sc, obs, complete, recs).write \cup Diff(sc, obs, complete, recs).remove,
         NEW v \in Diff(sc, obs, complete, recs).write \cup Diff(sc, obs, complete, recs).remove,
         w.id = v.id
  PROVE  w = v
<1>1. /\ w.kind = "removed" => w.id \notin DOMAIN recs /\ w.val = cur[w.id].val
      /\ w.kind # "removed" => w.id \in DOMAIN recs /\ w.val = recs[w.id] /\ w.kind = KindOf(w.id)
      /\ w = [id |-> w.id, kind |-> w.kind, scope |-> sc, val |-> w.val]
  BY DiffChanges
<1>2. /\ v.kind = "removed" => v.id \notin DOMAIN recs /\ v.val = cur[v.id].val
      /\ v.kind # "removed" => v.id \in DOMAIN recs /\ v.val = recs[v.id] /\ v.kind = KindOf(v.id)
      /\ v = [id |-> v.id, kind |-> v.kind, scope |-> sc, val |-> v.val]
  BY DiffChanges
<1>3. w.kind = v.kind /\ w.val = v.val
  BY <1>1, <1>2
<1> QED
  BY <1>1, <1>2, <1>3

\* Each record is confirmed, written or older than its row, and a confirmed
\* row agrees with its record.
Covers(C, W, sc, obs, recs) ==
  /\ \A id \in DOMAIN recs :
       \/ id \in C
       \/ \E w \in W : w.id = id
       \/ id \in DOMAIN cur /\ cur[id].confAt > obs
  /\ \A id \in C : /\ id \in DOMAIN recs /\ id \in DOMAIN cur /\ cur[id].confAt <= obs
                   /\ ~cur[id].removed /\ cur[id].val = recs[id] /\ cur[id].scope = sc

LEMMA DiffCovers ==
  ASSUME Tables, NEW sc, NEW obs \in Nat, NEW complete \in BOOLEAN, NEW recs
  PROVE  Covers(Diff(sc, obs, complete, recs).confirm, Diff(sc, obs, complete, recs).write,
                sc, obs, recs)
<1> DEFINE same(id) == KindOf(id) = "updated" /\ cur[id].val = recs[id] /\ cur[id].scope = sc
           D == Diff(sc, obs, complete, recs)
           fresh == {id \in DOMAIN recs : ~Stale(id, obs)}
<1>1. /\ D.confirm = {id \in fresh : same(id)}
      /\ D.write = {[id |-> id, kind |-> KindOf(id), scope |-> sc, val |-> recs[id]] :
                      id \in {x \in fresh : ~same(x)}}
  BY DEF Diff
<1> HIDE DEF D
<1>2. ASSUME NEW id \in DOMAIN recs, ~Stale(id, obs), ~same(id)
      PROVE  \E w \in D.write : w.id = id
  <2> DEFINE w == [id |-> id, kind |-> KindOf(id), scope |-> sc, val |-> recs[id]]
  <2>1. w \in D.write /\ w.id = id
    BY <1>1, <1>2
  <2> QED
    BY <2>1
<1>3. ASSUME NEW id \in DOMAIN recs
      PROVE  id \in D.confirm \/ (\E w \in D.write : w.id = id)
               \/ (id \in DOMAIN cur /\ cur[id].confAt > obs)
  BY <1>1, <1>2 DEF Stale
<1>4. ASSUME NEW id \in D.confirm
      PROVE  /\ id \in DOMAIN recs /\ id \in DOMAIN cur /\ cur[id].confAt <= obs
             /\ ~cur[id].removed /\ cur[id].val = recs[id] /\ cur[id].scope = sc
  <2>1. id \in DOMAIN recs /\ ~Stale(id, obs) /\ same(id)
    BY <1>1
  <2>2. id \in DOMAIN cur /\ ~cur[id].removed
    BY <2>1 DEF KindOf
  <2> QED
    BY <2>1, <2>2 DEF Stale, Tables, RowOK, Rows
<1> QED
  BY <1>3, <1>4 DEF D, Covers

LEMMA BuiltChanges ==
  ASSUME Tables, NEW w, Planned(w), NEW ver \in Versions, NEW obs \in Nat,
         NEW by \in SnapIds \cup {None},
         w.id \in DOMAIN cur => cur[w.id].confAt <= obs,
         NEW b, b = [id |-> w.id, event |-> EventOf(w, ver), row |-> RowOf(w, ver, obs, by)]
  PROVE  /\ ChangeOK(b, obs) /\ b.id = w.id /\ b.row.val = w.val /\ b.row.scope = w.scope
         /\ (b.row.removed <=> w.kind = "removed")
<1> DEFINE base == [id |-> w.id, kind |-> w.kind, scope |-> w.scope,
                    old |-> None, new |-> None, oldV |-> None, newV |-> None, ver |-> ver]
<1>1. b.id = w.id /\ b.event = EventOf(w, ver) /\ b.row = RowOf(w, ver, obs, by)
  OBVIOUS
<1>2. /\ b.row.val = w.val /\ b.row.scope = w.scope /\ b.row.confAt = obs
      /\ (b.row.removed <=> w.kind = "removed")
  BY <1>1 DEF RowOf
<1>3. /\ EventOf(w, ver).scope = w.scope /\ EventOf(w, ver).kind = w.kind
      /\ EventOf(w, ver).new \in {None, w.val}
      /\ EventOf(w, ver).new = None => w.id \in DOMAIN cur /\ cur[w.id].val = w.val
  <2>1. CASE w.kind = "updated" /\ cur[w.id].val = w.val
    <3>1. EventOf(w, ver) = base
      BY <2>1 DEF EventOf
    <3> QED
      BY <2>1, <3>1 DEF Planned
  <2>2. CASE w.kind \in {"created", "restored"}
    <3>1. EventOf(w, ver) = [base EXCEPT !.new = w.val, !.newV = Verdict(ver, w.val)]
      BY <2>2 DEF EventOf
    <3> QED
      BY <3>1, JournalAssumption DEF Planned, None
  <2>3. CASE w.kind = "updated" /\ cur[w.id].val # w.val
    <3>1. EventOf(w, ver) = [base EXCEPT !.old = cur[w.id].val, !.oldV = cur[w.id].verdict,
                               !.new = w.val, !.newV = Verdict(ver, w.val),
                               !.ver = IF cur[w.id].ver = ver THEN ver ELSE "mixed"]
      BY <2>3 DEF EventOf
    <3> QED
      BY <3>1, JournalAssumption DEF Planned, None
  <2>4. CASE w.kind = "removed"
    <3>1. EventOf(w, ver) = [base EXCEPT !.old = cur[w.id].val, !.oldV = cur[w.id].verdict,
                                         !.ver = cur[w.id].ver]
      BY <2>4 DEF EventOf
    <3> QED
      BY <2>4, <3>1 DEF Planned
  <2> QED
    BY <2>1, <2>2, <2>3, <2>4 DEF Planned
<1> QED
  BY <1>1, <1>2, <1>3 DEF ChangeOK

\* What the changes W of a plan for records recs say ...
PlanFor(W, sc, obs, recs) ==
  /\ \A w \in W : /\ Planned(w) /\ w.scope = sc
                  /\ w.id \in DOMAIN cur => cur[w.id].confAt <= obs
                  /\ w.kind # "removed" => w.id \in DOMAIN recs /\ w.val = recs[w.id]
  /\ \A w, v \in W : w.id = v.id => w = v

\* ... and the events and rows B built from them.
BuiltFor(B, W, sc, obs, recs) ==
  /\ \A b \in B : ChangeOK(b, obs)
  /\ \A b \in B : ~b.row.removed => /\ b.id \in DOMAIN recs /\ b.row.val = recs[b.id]
                                    /\ b.row.scope = sc
  /\ \A b, c \in B : b.id = c.id => b = c
  /\ \A w \in W : \E b \in B : b.id = w.id

LEMMA DiffPlan ==
  ASSUME Tables, NEW sc, NEW obs \in Nat, NEW complete \in BOOLEAN, NEW recs,
         \A id \in DOMAIN recs :
           /\ id \in Ids /\ recs[id] \in Values
           /\ id[1] = "grade" => sc \in Scopes /\ SubjectOf[sc] = id[2]
           /\ id[1] = "note" => sc \in Subjects
  PROVE  PlanFor(Diff(sc, obs, complete, recs).write \cup Diff(sc, obs, complete, recs).remove,
                 sc, obs, recs)
<1> DEFINE W == Diff(sc, obs, complete, recs).write \cup Diff(sc, obs, complete, recs).remove
<1>1. ASSUME NEW w \in W
      PROVE  /\ Planned(w) /\ w.scope = sc /\ (w.id \in DOMAIN cur => cur[w.id].confAt <= obs)
             /\ w.kind # "removed" => w.id \in DOMAIN recs /\ w.val = recs[w.id]
  BY DiffOK, DiffChanges
<1>2. \A w, v \in W : w.id = v.id => w = v
  BY DiffOnce
<1> HIDE DEF W
<1>3. PlanFor(W, sc, obs, recs)
  BY <1>1, <1>2 DEF PlanFor
<1> QED
  BY <1>3 DEF W

LEMMA BuiltPlan ==
  ASSUME Tables, NEW W, NEW sc, NEW obs \in Nat, NEW recs, PlanFor(W, sc, obs, recs),
         NEW ver \in Versions, NEW by \in SnapIds \cup {None}
  PROVE  BuiltFor(Built(W, ver, obs, by), W, sc, obs, recs)
<1> DEFINE B == Built(W, ver, obs, by)
<1>1. ASSUME NEW b \in B
      PROVE  \E w \in W : b = [id |-> w.id, event |-> EventOf(w, ver), row |-> RowOf(w, ver, obs, by)]
  BY DEF Built
<1>2. ASSUME NEW w \in W
      PROVE  /\ Planned(w) /\ w.scope = sc /\ (w.id \in DOMAIN cur => cur[w.id].confAt <= obs)
             /\ w.kind # "removed" => w.id \in DOMAIN recs /\ w.val = recs[w.id]
  BY DEF PlanFor
<1>3. ASSUME NEW w \in W, NEW b,
             b = [id |-> w.id, event |-> EventOf(w, ver), row |-> RowOf(w, ver, obs, by)]
      PROVE  /\ ChangeOK(b, obs) /\ b.id = w.id /\ b.row.val = w.val /\ b.row.scope = w.scope
             /\ (b.row.removed <=> w.kind = "removed")
  BY <1>2, <1>3, BuiltChanges
<1>4. \A b \in B : ChangeOK(b, obs)
  BY <1>1, <1>3
<1>5. ASSUME NEW b \in B, ~b.row.removed
      PROVE  b.id \in DOMAIN recs /\ b.row.val = recs[b.id] /\ b.row.scope = sc
  <2>1. PICK w \in W : b = [id |-> w.id, event |-> EventOf(w, ver), row |-> RowOf(w, ver, obs, by)]
    BY <1>1
  <2>2. /\ b.id = w.id /\ b.row.val = w.val /\ b.row.scope = w.scope
        /\ (b.row.removed <=> w.kind = "removed")
    BY <1>3, <2>1
  <2> QED
    BY <1>2, <1>5, <2>2
<1>6. ASSUME NEW b \in B, NEW c \in B, b.id = c.id
      PROVE  b = c
  <2>1. PICK w \in W : b = [id |-> w.id, event |-> EventOf(w, ver), row |-> RowOf(w, ver, obs, by)]
    BY <1>1
  <2>2. PICK v \in W : c = [id |-> v.id, event |-> EventOf(v, ver), row |-> RowOf(v, ver, obs, by)]
    BY <1>1
  <2>3. w.id = v.id
    BY <1>6, <2>1, <2>2
  <2>4. w = v
    BY <2>3 DEF PlanFor
  <2> QED
    BY <2>1, <2>2, <2>4
<1>7. ASSUME NEW w \in W
      PROVE  \E b \in B : b.id = w.id
  <2> DEFINE b == [id |-> w.id, event |-> EventOf(w, ver), row |-> RowOf(w, ver, obs, by)]
  <2>1. b \in B /\ b.id = w.id
    BY DEF Built
  <2> QED
    BY <2>1
<1> HIDE DEF B
<1>8. BuiltFor(B, W, sc, obs, recs)
  BY <1>4, <1>5, <1>6, <1>7 DEF BuiltFor
<1> QED
  BY <1>8 DEF B

LEMMA OrderingPlan ==
  ASSUME JournalInv, NEW p \in Procs, NEW id \in SnapIds, NEW s, NEW confirm \in BOOLEAN,
         FromOrdering(p, id, s, confirm), ~Finish(p),
         txs[p].op \in {"apply", "confirm"}, txs[p].id = id,
         s.scope \in Scopes, s.obs \in Nat, s.complete \in BOOLEAN,
         s.recs \in UNION {[K -> Values] : K \in SUBSET Keys},
         txs[p].op = "confirm" => id \in DOMAIN snaps /\ SameSnap(snaps[id], s)
  PROVE  PlanOK(txs[p])' /\ UNCHANGED <<snaps, cur>>
<1> DEFINE plan == Diff(s.scope, s.obs, s.complete, RecsOf(s))
<1>1. /\ UNCHANGED <<snaps, cur>>
      /\ txs' = [txs EXCEPT ![p] =
           [@ EXCEPT !.phase = "insert", !.snap = s, !.obs = s.obs, !.confirm = plan.confirm,
                     !.write = Built(plan.write \cup plan.remove, VersionOf[p], s.obs, id)]]
  BY DEF FromOrdering
<1>2. PICK recs : recs = RecsOf(s)
  OBVIOUS
<1>3. PICK W, C : /\ W = Diff(s.scope, s.obs, s.complete, recs).write
                          \cup Diff(s.scope, s.obs, s.complete, recs).remove
                  /\ C = Diff(s.scope, s.obs, s.complete, recs).confirm
  OBVIOUS
<1>4. PICK B : B = Built(W, VersionOf[p], s.obs, id)
  OBVIOUS
<1>5. DOMAIN txs[p] = TxFields
  BY DEF JournalInv, TxLocks
<1>6. C = plan.confirm /\ B = Built(plan.write \cup plan.remove, VersionOf[p], s.obs, id)
  BY <1>2, <1>3, <1>4
<1> HIDE DEF plan
<1>7. /\ txs'[p].phase = "insert" /\ txs'[p].snap = s /\ txs'[p].obs = s.obs /\ txs'[p].write = B
      /\ txs'[p].confirm = C /\ txs'[p].op = txs[p].op /\ txs'[p].id = id
  BY <1>1, <1>5, <1>6 DEF JournalInv, TxFields
<1>8. \A x \in DOMAIN recs : /\ x \in Ids /\ x[1] = "grade" /\ x[2] = SubjectOf[s.scope]
                             /\ recs[x] \in Values
  BY <1>2, RecsOfOK
<1>9. \A x \in DOMAIN recs : recs[x] = s.recs[x[3]]
  BY <1>2 DEF RecsOf
<1>10. Tables /\ VersionOf[p] \in Versions
  BY JournalAssumption DEF JournalInv
<1>11. /\ \A b \in B : ChangeOK(b, s.obs)
       /\ \A b \in B : ~b.row.removed => /\ b.id \in DOMAIN recs /\ b.row.val = recs[b.id]
                                         /\ b.row.scope = s.scope
       /\ \A b, c \in B : b.id = c.id => b = c
       /\ \A w \in W : \E b \in B : b.id = w.id
  <2>1. PICK ver \in Versions : ver = VersionOf[p]
    BY <1>10
  <2>2. \A x \in DOMAIN recs : /\ x \in Ids /\ recs[x] \in Values
                               /\ x[1] = "grade" => s.scope \in Scopes /\ SubjectOf[s.scope] = x[2]
                               /\ x[1] = "note" => s.scope \in Subjects
    BY <1>8
  <2>3. PlanFor(W, s.scope, s.obs, recs)
    BY <1>3, <1>10, <2>2, DiffPlan
  <2>4. BuiltFor(Built(W, ver, s.obs, id), W, s.scope, s.obs, recs)
    BY <2>3, <1>10, BuiltPlan
  <2>5. B = Built(W, ver, s.obs, id)
    BY <1>4, <2>1
  <2> QED
    BY <2>4, <2>5 DEF BuiltFor
<1>12. /\ \A x \in DOMAIN recs :
            x \in C \/ (\E w \in W : w.id = x) \/ (x \in DOMAIN cur /\ cur[x].confAt > s.obs)
       /\ \A x \in C : /\ x \in DOMAIN recs /\ x \in DOMAIN cur /\ cur[x].confAt <= s.obs
                       /\ ~cur[x].removed /\ cur[x].val = recs[x] /\ cur[x].scope = s.scope
  <2> DEFINE D == Diff(s.scope, s.obs, s.complete, recs)
  <2>1. Covers(D.confirm, D.write, s.scope, s.obs, recs)
    BY <1>10, DiffCovers
  <2>2. C = D.confirm /\ W = D.write \cup D.remove
    BY <1>3
  <2> HIDE DEF D
  <2> QED
    BY <2>1, <2>2 DEF Covers
<1>13. \A b \in B : ChangeOK(b, txs[p].obs)'
  BY <1>1, <1>7, <1>11 DEF ChangeOK
<1>14. \A b \in B : ~b.row.removed => Shows(b.row, b.id, s)
  BY <1>2, <1>9, <1>11 DEF Shows
<1>15. \A x \in C : x \in DOMAIN cur' /\ cur'[x].confAt <= s.obs /\ Shows(cur'[x], x, s)
  BY <1>1, <1>2, <1>9, <1>12 DEF Shows
<1>16. \A x \in DOMAIN RecsOf(s) :
         x \in C \/ (\E b \in B : b.id = x) \/ (x \in DOMAIN cur' /\ cur'[x].confAt > s.obs)
  BY <1>1, <1>2, <1>11, <1>12
<1>17. txs[p].op = "confirm" => id \in DOMAIN snaps' /\ SameSnap(snaps'[id], s)
  BY <1>1
<1>18. \A b, c \in B : b.id = c.id => b = c
  BY <1>11
<1> QED
  BY <1>1, <1>7, <1>13, <1>14, <1>15, <1>16, <1>17, <1>18 DEF PlanOK, Writing

LEMMA NotePlanned ==
  ASSUME JournalInv, NEW p \in Procs, NotePlan(p), ~Finish(p), PlanOK(txs[p])
  PROVE  PlanOK(txs[p])'
<1> DEFINE t == txs[p]
           id == Note(t.subj, t.author)
           plan == Diff(t.subj, t.obs, FALSE, [x \in {id} |-> t.val])
<1>1. /\ cur' = cur
      /\ txs' = [txs EXCEPT ![p] =
             [@ EXCEPT !.phase = "insert", !.ros = {},
                       !.write = Built(plan.write, VersionOf[p], t.obs, None)]]
  BY DEF NotePlan, store
<1>2. /\ DOMAIN t = TxFields /\ t.op = "note" /\ t.confirm = {}
      /\ t.subj \in Subjects /\ t.author \in Members /\ t.val \in Values /\ t.obs \in Nat
  BY DEF JournalInv, TxLocks, NotePlan, Ready, PlanOK
<1>3. PICK sc, obs, recs : sc = t.subj /\ obs = t.obs /\ recs = [x \in {id} |-> t.val]
  OBVIOUS
<1>4. PICK W : W = Diff(sc, obs, FALSE, recs).write
  OBVIOUS
<1>5. PICK B : B = Built(W, VersionOf[p], obs, None)
  OBVIOUS
<1>6. B = Built(plan.write, VersionOf[p], t.obs, None)
  BY <1>3, <1>4, <1>5
<1>7. \A x \in DOMAIN recs : x \in Ids /\ recs[x] \in Values /\ x[1] = "note"
  BY <1>2, <1>3 DEF Note, Ids
<1> HIDE DEF plan, id
<1>8. /\ txs'[p].phase = "insert" /\ txs'[p].obs = obs /\ txs'[p].write = B
      /\ txs'[p].op = "note" /\ txs'[p].confirm = {}
  BY <1>1, <1>2, <1>3, <1>6 DEF JournalInv, TxFields
<1>9. Tables /\ VersionOf[p] \in Versions
  BY JournalAssumption DEF JournalInv
<1>10. sc \in Subjects /\ obs \in Nat
  BY <1>2, <1>3
<1>11. W \in SUBSET (Diff(sc, obs, FALSE, recs).write \cup Diff(sc, obs, FALSE, recs).remove)
  BY <1>4
<1>12. /\ \A b \in B : ChangeOK(b, obs)
       /\ \A b, c \in B : b.id = c.id => b = c
  <2>1. PICK ver \in Versions : ver = VersionOf[p]
    BY <1>9
  <2>2. \A x \in DOMAIN recs : /\ x \in Ids /\ recs[x] \in Values
                               /\ x[1] = "grade" => sc \in Scopes /\ SubjectOf[sc] = x[2]
                               /\ x[1] = "note" => sc \in Subjects
    BY <1>7, <1>10
  <2>3. PlanFor(Diff(sc, obs, FALSE, recs).write \cup Diff(sc, obs, FALSE, recs).remove,
                sc, obs, recs)
    BY <1>9, <1>10, <2>2, DiffPlan
  <2>4. PlanFor(W, sc, obs, recs)
    BY <1>11, <2>3 DEF PlanFor
  <2>5. BuiltFor(Built(W, ver, obs, None), W, sc, obs, recs)
    BY <1>9, <1>10, <2>4, BuiltPlan
  <2>6. B = Built(W, ver, obs, None)
    BY <1>5, <2>1
  <2> QED
    BY <2>5, <2>6 DEF BuiltFor
<1>13. \A b \in B : ChangeOK(b, obs)'
  BY <1>1, <1>12 DEF ChangeOK
<1> QED
  BY <1>8, <1>12, <1>13 DEF PlanOK, Writing

LEMMA InsertPlanned ==
  ASSUME JournalInv, NEW p \in Procs, Insert(p), PlanOK(txs[p])
  PROVE  PlanOK(txs[p])'
<1> DEFINE t == txs[p]
<1>1. PICK W, S : W = t.write /\ S = nextSeq..(nextSeq + Cardinality(W) - 1)
  OBVIOUS
<1>2. PICK num \in Bijection(W, S) :
        /\ txs' = [txs EXCEPT ![p] =
             [@ EXCEPT !.phase = "commit", !.write = {[w EXCEPT !.row.seq = num[w]] : w \in W},
                       !.held = txs[p].held \cup {l \in {EventsLock} : W # {}}]]
        /\ UNCHANGED <<snaps, cur>>
  BY <1>1 DEF Insert, Numbered, store
<1>3. PICK B : B = {[w EXCEPT !.row.seq = num[w]] : w \in W}
  OBVIOUS
<1>4. DOMAIN t = TxFields /\ Writing(t) /\ InFlight(t) /\ t.op # "idle"
  BY DEF JournalInv, TxLocks, Insert, Writing
<1>5. /\ txs'[p].phase = "commit" /\ txs'[p].write = B /\ txs'[p].op = t.op
      /\ txs'[p].id = t.id /\ txs'[p].snap = t.snap /\ txs'[p].obs = t.obs
      /\ txs'[p].confirm = t.confirm
  BY <1>2, <1>3, <1>4 DEF JournalInv, TxFields
<1>6. \A w \in W : DOMAIN w = {"id", "event", "row"} /\ w.row \in Rows
  BY <1>1, <1>4 DEF InFlight, RowOK
<1>7. ASSUME NEW w \in W
      PROVE  LET b == [w EXCEPT !.row.seq = num[w]]
             IN /\ b.id = w.id /\ b.event = w.event /\ b.row.seq = num[w]
                /\ b.row.confAt = w.row.confAt /\ b.row.scope = w.row.scope
                /\ b.row.val = w.row.val /\ b.row.removed = w.row.removed
  BY <1>6 DEF Rows
<1>8. ASSUME NEW b \in B
      PROVE  \E w \in W : /\ b = [w EXCEPT !.row.seq = num[w]]
                          /\ b.id = w.id /\ b.event = w.event /\ b.row.seq = num[w]
                          /\ b.row.confAt = w.row.confAt /\ b.row.scope = w.row.scope
                          /\ b.row.val = w.row.val /\ b.row.removed = w.row.removed
  <2>1. PICK w \in W : b = [w EXCEPT !.row.seq = num[w]]
    BY <1>3
  <2>2. PICK n, m : n = num[w] /\ m = w.row
    OBVIOUS
  <2>3. w.row \in Rows /\ DOMAIN w = {"id", "event", "row"}
    BY <1>6
  <2>4. b = [w EXCEPT !.row = [m EXCEPT !.seq = n]]
    BY <2>1, <2>2, <2>3
  <2>5. /\ b.id = w.id /\ b.event = w.event /\ b.row = [m EXCEPT !.seq = n]
    BY <2>3, <2>4
  <2>6. /\ b.row.seq = n /\ b.row.confAt = m.confAt /\ b.row.scope = m.scope
        /\ b.row.val = m.val /\ b.row.removed = m.removed
    BY <2>2, <2>3, <2>5 DEF Rows
  <2> QED
    BY <2>1, <2>2, <2>5, <2>6
<1>9. \A w \in W : \E b \in B : b.id = w.id
  <2>1. ASSUME NEW w \in W PROVE \E b \in B : b.id = w.id
    <3> DEFINE b == [w EXCEPT !.row.seq = num[w]]
    <3>1. b \in B /\ b.id = w.id
      BY <1>3, <1>7
    <3> QED
      BY <3>1
  <2> QED
    BY <2>1
<1>10. ASSUME NEW b \in B, NEW c \in B, b.id = c.id \/ b.row.seq = c.row.seq
       PROVE  b = c
  <2>1. PICK w \in W : b = [w EXCEPT !.row.seq = num[w]] /\ b.id = w.id /\ b.row.seq = num[w]
    BY <1>8
  <2>2. PICK v \in W : c = [v EXCEPT !.row.seq = num[v]] /\ c.id = v.id /\ c.row.seq = num[v]
    BY <1>8
  <2>3. w.id = v.id => w = v
    BY <1>1, <1>4 DEF PlanOK
  <2>4. num[w] = num[v] => w = v
    BY DEF Bijection, Injection, IsInjective
  <2> QED
    BY <1>10, <2>1, <2>2, <2>3, <2>4
<1>11. \A w \in W : ChangeOK(w, t.obs)
  BY <1>1, <1>4 DEF PlanOK
<1>12. ASSUME NEW b \in B
       PROVE  ChangeOK(b, t.obs)'
  BY <1>2, <1>5, <1>8, <1>11 DEF ChangeOK
<1>13. t.op # "note" => \A b \in B : ~b.row.removed => Shows(b.row, b.id, t.snap)
  <2>1. t.op # "note" => \A w \in W : ~w.row.removed => Shows(w.row, w.id, t.snap)
    BY <1>1, <1>4 DEF PlanOK
  <2> QED
    BY <1>8, <2>1 DEF Shows
<1> QED
  BY <1>1, <1>2, <1>4, <1>5, <1>9, <1>10, <1>12, <1>13 DEF PlanOK, Writing

\* Snapshots with the same contents say the same.
LEMMA SameRecs ==
  ASSUME NEW a, NEW b, SameSnap(a, b)
  PROVE  /\ DOMAIN RecsOf(a) = DOMAIN RecsOf(b)
         /\ \A r, id : Shows(r, id, a) <=> Shows(r, id, b)
<1>1. DOMAIN RecsOf(a) = DOMAIN RecsOf(b)
  BY DEF SameSnap, RecsOf
<1> QED
  BY <1>1 DEF SameSnap, Shows

\* The identities a transaction may write, and a row no step has touched.
Mine(tx, id) ==
  /\ id \in Ids /\ id[2] = tx.subj
  /\ id[1] = IF tx.op = "note" THEN "note" ELSE "grade"
  /\ tx.op = "note" => id[3] = tx.author
RowKept(id) ==
  /\ id \in DOMAIN cur' <=> id \in DOMAIN cur
  /\ id \in DOMAIN cur => /\ cur'[id].confAt = cur[id].confAt /\ cur'[id].val = cur[id].val
                          /\ cur'[id].scope = cur[id].scope /\ cur'[id].removed = cur[id].removed
SnapKept(i) == i \in DOMAIN snaps => i \in DOMAIN snaps' /\ SameSnap(snaps'[i], snaps[i])

\* A plan fits as long as nobody touches the rows of its subject.
LEMMA PlanKept ==
  ASSUME NEW q \in Procs, txs'[q] = txs[q], PlanOK(txs[q]), InFlight(txs[q]), TxLocks(txs[q]),
         Writing(txs[q]) => \A id : Mine(txs[q], id) => RowKept(id),
         Writing(txs[q]) /\ txs[q].op = "confirm" => SnapKept(txs[q].id)
  PROVE  PlanOK(txs[q])'
<1> DEFINE t == txs[q]
<1>1. CASE ~Writing(t)
  BY <1>1 DEF PlanOK, Writing
<1>2. CASE Writing(t)
  <2>1. \A id : Mine(t, id) => RowKept(id)
    BY <1>2
  <2>2. \A w \in t.write : Mine(t, w.id)
    BY <1>2 DEF InFlight, Mine
  <2>3. \A w \in t.write : ChangeOK(w, t.obs)
    BY <1>2 DEF PlanOK
  <2>4. ASSUME NEW w \in t.write
        PROVE  ChangeOK(w, txs[q].obs)'
    <3>1. RowKept(w.id) /\ ChangeOK(w, t.obs)
      BY <2>1, <2>2, <2>3
    <3> QED
      BY <3>1 DEF ChangeOK, RowKept
  <2>5. CASE t.op = "note"
    BY <1>2, <2>4, <2>5 DEF PlanOK, Writing
  <2>6. CASE t.op # "note"
    <3>1. t.op \in {"apply", "confirm"}
      BY <1>2, <2>6 DEF InFlight
    <3>2. /\ t.snap.scope \in Scopes /\ SubjectOf[t.snap.scope] = t.subj
          /\ Stored(t.snap, "applied") \in Snaps
      BY <1>2, <3>1 DEF InFlight
    <3>3. t.snap.recs \in UNION {[K -> Values] : K \in SUBSET Keys}
      BY <3>2 DEF Stored, Snaps
    <3>4. \A id \in DOMAIN RecsOf(t.snap) : Mine(t, id)
      BY <3>2, <3>3, <2>6, RecsOfOK DEF Mine
    <3>5. \A id \in DOMAIN RecsOf(t.snap) : RowKept(id)
      BY <2>1, <3>4
    <3>6. \A id \in DOMAIN RecsOf(t.snap) :
            \/ id \in t.confirm \/ \E w \in t.write : w.id = id
            \/ id \in DOMAIN cur /\ cur[id].confAt > t.obs
      BY <1>2, <2>6 DEF PlanOK
    <3>7. \A id \in DOMAIN RecsOf(t.snap) :
            \/ id \in t.confirm \/ \E w \in t.write : w.id = id
            \/ id \in DOMAIN cur' /\ cur'[id].confAt > t.obs
      BY <3>5, <3>6 DEF RowKept
    <3>8. \A w \in t.write : ~w.row.removed => Shows(w.row, w.id, t.snap)
      BY <1>2, <2>6 DEF PlanOK
    <3>9. \A id \in t.confirm : /\ id \in DOMAIN cur /\ cur[id].confAt <= t.obs
                                /\ Shows(cur[id], id, t.snap)
      BY <1>2, <2>6 DEF PlanOK
    <3>10. \A id \in t.confirm : id \in DOMAIN RecsOf(t.snap)
      BY <3>9 DEF Shows
    <3>11. ASSUME NEW id \in t.confirm
           PROVE  /\ id \in DOMAIN cur' /\ cur'[id].confAt <= t.obs
                  /\ Shows(cur'[id], id, t.snap)
      <4>1. RowKept(id) /\ id \in DOMAIN cur /\ cur[id].confAt <= t.obs /\ Shows(cur[id], id, t.snap)
        BY <3>5, <3>9, <3>10
      <4> QED
        BY <4>1 DEF RowKept, Shows
    <3>12. t.op = "confirm" => t.id \in DOMAIN snaps' /\ SameSnap(snaps'[t.id], t.snap)
      <4>1. t.op = "confirm" => t.id \in DOMAIN snaps /\ SameSnap(snaps[t.id], t.snap)
        BY <1>2, <2>6 DEF PlanOK
      <4> QED
        BY <1>2, <4>1 DEF SnapKept, SameSnap
    <3>13. /\ \A w, v \in t.write : w.id = v.id => w = v
           /\ t.phase = "commit" => \A w, v \in t.write : w.row.seq = v.row.seq => w = v
      BY <1>2 DEF PlanOK
    <3> QED
      BY <2>4, <2>6, <3>7, <3>8, <3>11, <3>12, <3>13 DEF PlanOK, Writing
  <2> QED
    BY <2>5, <2>6
<1> QED
  BY <1>1, <1>2

BegunOK == begun \in [tx : 0..MaxTx, aux : 0..MaxAux]

\* A step of p alone that leaves the tables as they are.
LEMMA QuietHistory ==
  ASSUME JournalInv, HistoryInv, NEW p \in Procs, UNCHANGED <<cur, events, snaps>>, BegunOK',
         \A q \in Procs \ {p} : txs'[q] = txs[q], PlanOK(txs[p])'
  PROVE  HistoryInv'
<1>1. RowsReplay' /\ Seen' /\ NoStaleHeld'
  BY DEF HistoryInv, RowsReplay, Seen, NoStaleHeld, Later
<1>2. ASSUME NEW q \in Procs \ {p}
      PROVE  PlanOK(txs[q])'
  <2>1. \A id : RowKept(id)
    BY DEF RowKept
  <2>2. \A i : SnapKept(i)
    BY DEF SnapKept, SameSnap
  <2> QED
    BY <2>1, <2>2, PlanKept DEF JournalInv, HistoryInv
<1> QED
  BY <1>1, <1>2 DEF HistoryInv, BegunOK

LEMMA FinishHistory ==
  ASSUME JournalInv, HistoryInv, NEW p \in Procs, Finish(p), UNCHANGED <<cur, events, snaps, begun>>
  PROVE  HistoryInv'
<1>1. txs'[p] = Idle /\ \A q \in Procs \ {p} : txs'[q] = txs[q]
  BY DEF JournalInv, Finish
<1>2. PlanOK(txs[p])'
  BY <1>1 DEF Idle, PlanOK, Writing
<1>3. BegunOK'
  BY DEF BegunOK, HistoryInv
<1> QED
  BY <1>1, <1>2, <1>3, QuietHistory

LEMMA BeginHistory ==
  ASSUME JournalInv, HistoryInv, NEW p \in Procs, NEW tx, Begin(p, tx),
         tx.phase = "locks", tx.confirm = {}
  PROVE  HistoryInv'
<1>1. txs'[p] = tx /\ \A q \in Procs \ {p} : txs'[q] = txs[q]
  BY DEF JournalInv, Begin
<1>2. PlanOK(txs[p])'
  BY <1>1 DEF PlanOK, Writing
<1>3. BegunOK'
  BY JournalAssumption DEF BegunOK, HistoryInv, Begin
<1> QED
  BY <1>1, <1>2, <1>3, QuietHistory DEF Begin, store

LEMMA BeginsLocks ==
  ASSUME NEW p \in Procs, BeginApply(p) \/ BeginConfirm(p) \/ BeginNote(p) \/ BeginErase(p)
  PROVE  \E tx : Begin(p, tx) /\ tx.phase = "locks" /\ tx.confirm = {}
<1>1. CASE BeginApply(p)
  <2>1. PICK i, s, subj, need : Begin(p, [Tx("apply", subj, need) EXCEPT !.id = i, !.snap = s])
    BY <1>1 DEF BeginApply
  <2>2. PICK tx : tx = [Tx("apply", subj, need) EXCEPT !.id = i, !.snap = s]
    OBVIOUS
  <2>3. Begin(p, tx) /\ tx.phase = "locks" /\ tx.confirm = {}
    BY <2>1, <2>2 DEF Tx, Idle
  <2> QED
    BY <2>3
<1>2. CASE BeginConfirm(p)
  <2>1. PICK i, subj, need : Begin(p, [Tx("confirm", subj, need) EXCEPT !.id = i])
    BY <1>2 DEF BeginConfirm
  <2>2. PICK tx : tx = [Tx("confirm", subj, need) EXCEPT !.id = i]
    OBVIOUS
  <2>3. Begin(p, tx) /\ tx.phase = "locks" /\ tx.confirm = {}
    BY <2>1, <2>2 DEF Tx, Idle
  <2> QED
    BY <2>3
<1>3. CASE BeginNote(p)
  <2>1. PICK n, need : Begin(p, NoteTx(n, need))
    BY <1>3 DEF BeginNote
  <2>2. PICK tx : tx = NoteTx(n, need)
    OBVIOUS
  <2>3. Begin(p, tx) /\ tx.phase = "locks" /\ tx.confirm = {}
    BY <2>1, <2>2 DEF NoteTx, Tx, Idle
  <2> QED
    BY <2>3
<1>4. CASE BeginErase(p)
  <2>1. PICK m, need : Begin(p, [Tx("erase", m, need) EXCEPT !.ros = roster])
    BY <1>4 DEF BeginErase
  <2>2. PICK tx : tx = [Tx("erase", m, need) EXCEPT !.ros = roster]
    OBVIOUS
  <2>3. Begin(p, tx) /\ tx.phase = "locks" /\ tx.confirm = {}
    BY <2>1, <2>2 DEF Tx, Idle
  <2> QED
    BY <2>3
<1> QED
  BY <1>1, <1>2, <1>3, <1>4

LEMMA BeginsHistory ==
  ASSUME JournalInv, HistoryInv, NEW p \in Procs,
         BeginApply(p) \/ BeginConfirm(p) \/ BeginNote(p) \/ BeginErase(p)
  PROVE  HistoryInv'
  BY BeginsLocks, BeginHistory

\* Locks and the subjects of an erase.
LEMMA LockPhase ==
  ASSUME JournalInv, NEW p \in Procs, Acquire(p) \/ Authored(p)
  PROVE  /\ txs'[p].op = txs[p].op /\ txs'[p].phase = "locks" /\ txs'[p].confirm = txs[p].confirm
         /\ \A q \in Procs \ {p} : txs'[q] = txs[q]
<1>1. DOMAIN txs[p] = TxFields /\ txs[p].phase = "locks"
  BY DEF JournalInv, TxLocks, Acquire, Authored, Ready
<1>2. CASE Acquire(p)
  <2>1. PICK l : txs' = [txs EXCEPT ![p].held = @ \cup {l}, ![p].need = @ \ {l}]
    BY <1>2 DEF Acquire
  <2> QED
    BY <1>1, <2>1 DEF JournalInv, TxFields
<1>3. CASE Authored(p)
  <2>1. PICK S, N : txs' = [txs EXCEPT ![p].subjects = S, ![p].need = N]
    BY <1>3 DEF Authored
  <2> QED
    BY <1>1, <2>1 DEF JournalInv, TxFields
<1> QED
  BY <1>2, <1>3

LEMMA LockHistory ==
  ASSUME JournalInv, HistoryInv, NEW p \in Procs, Acquire(p) \/ Authored(p)
  PROVE  HistoryInv'
<1>1. PlanOK(txs[p])
  BY DEF HistoryInv
<1>2. /\ txs'[p].op = txs[p].op /\ txs'[p].phase = "locks" /\ txs'[p].confirm = txs[p].confirm
      /\ \A q \in Procs \ {p} : txs'[q] = txs[q]
  BY LockPhase
<1>3. PlanOK(txs[p])'
  BY <1>1, <1>2 DEF PlanOK, Writing
<1>4. UNCHANGED <<cur, events, snaps, begun>>
  BY DEF Acquire, Authored, store
<1>5. BegunOK'
  BY <1>4 DEF BegunOK, HistoryInv
<1> QED
  BY <1>2, <1>3, <1>4, <1>5, QuietHistory

\* A step that stores, or discards, snapshots that are not applied.
LEMMA SnapsHistory ==
  ASSUME JournalInv, HistoryInv, UNCHANGED <<cur, events, begun>>,
         \A i \in DOMAIN snaps : SnapKept(i),
         \A i \in DOMAIN snaps' :
           snaps'[i].status = "applied" <=> i \in DOMAIN snaps /\ snaps[i].status = "applied",
         \A i \in DOMAIN snaps' : snaps'[i].status = "held" =>
           \A j \in DOMAIN snaps : snaps[j].status = "applied" /\ snaps[j].scope = snaps'[i].scope
                                     => ~(snaps[j].obs > snaps'[i].obs),
         \A q \in Procs : txs'[q] \in {txs[q], Idle}
  PROVE  HistoryInv'
<1>1. \A i \in DOMAIN snaps : i \in DOMAIN snaps' /\ SameSnap(snaps'[i], snaps[i])
  BY DEF SnapKept
<1>2. RowsReplay'
  BY DEF HistoryInv, RowsReplay
<1>3. NoStaleHeld'
  <2> SUFFICES ASSUME NEW i \in DOMAIN snaps', snaps'[i].status = "held",
                      NEW j \in DOMAIN snaps', snaps'[j].scope = snaps'[i].scope,
                      snaps'[j].status = "applied", snaps'[j].obs > snaps'[i].obs
               PROVE  FALSE
    BY DEF NoStaleHeld, Later
  <2>1. j \in DOMAIN snaps /\ snaps[j].status = "applied" /\ SameSnap(snaps'[j], snaps[j])
    BY <1>1
  <2> QED
    BY <2>1 DEF SameSnap
<1>4. Seen'
  <2>1. ASSUME NEW i \in DOMAIN snaps', snaps'[i].status = "applied",
               NEW id \in DOMAIN RecsOf(snaps'[i])
        PROVE  id \in DOMAIN cur /\ cur[id].confAt >= snaps'[i].obs
    <3>1. i \in DOMAIN snaps /\ snaps[i].status = "applied" /\ SameSnap(snaps'[i], snaps[i])
      BY <1>1, <2>1
    <3>2. id \in DOMAIN RecsOf(snaps[i])
      BY <3>1, SameRecs
    <3>3. id \in DOMAIN cur /\ cur[id].confAt >= snaps[i].obs
      BY <3>1, <3>2 DEF HistoryInv, Seen
    <3> QED
      BY <3>1, <3>3 DEF SameSnap
  <2>2. ASSUME NEW id \in DOMAIN cur, id[1] = "grade", ~cur[id].removed
        PROVE  \E i \in DOMAIN snaps' :
                 /\ snaps'[i].status = "applied" /\ snaps'[i].obs = cur[id].confAt
                 /\ Shows(cur[id], id, snaps'[i])
    <3>1. PICK i \in DOMAIN snaps : /\ snaps[i].status = "applied" /\ snaps[i].obs = cur[id].confAt
                                    /\ Shows(cur[id], id, snaps[i])
      BY <2>2 DEF HistoryInv, Seen
    <3>2. i \in DOMAIN snaps' /\ SameSnap(snaps'[i], snaps[i]) /\ snaps'[i].status = "applied"
      BY <1>1, <3>1
    <3>3. Shows(cur[id], id, snaps'[i])
      BY <3>1, <3>2, SameRecs
    <3>4. snaps'[i].obs = cur[id].confAt
      BY <3>1, <3>2 DEF SameSnap
    <3> QED
      BY <3>2, <3>3, <3>4
  <2> QED
    BY <2>1, <2>2 DEF Seen
<1>5. ASSUME NEW q \in Procs
      PROVE  PlanOK(txs[q])'
  <2>1. CASE txs'[q] = Idle
    BY <2>1 DEF Idle, PlanOK, Writing
  <2>2. CASE txs'[q] = txs[q]
    <3>1. \A id : RowKept(id)
      BY DEF RowKept
    <3>2. \A i : SnapKept(i)
      BY <1>1 DEF SnapKept
    <3> QED
      BY <2>2, <3>1, <3>2, PlanKept DEF JournalInv, HistoryInv
  <2> QED
    BY <2>1, <2>2
<1> QED
  BY <1>2, <1>3, <1>4, <1>5 DEF HistoryInv

LEMMA DiscardHistory ==
  ASSUME JournalInv, HistoryInv, DiscardHeld
  PROVE  HistoryInv'
<1>1. PICK i \in DOMAIN snaps : /\ snaps[i].status = "held"
                                /\ snaps' = [snaps EXCEPT ![i].status = "discarded"]
  BY DEF DiscardHeld
<1>2. \A j \in DOMAIN snaps : snaps[j] \in Snaps
  BY DEF JournalInv, Tables
<1>3. /\ DOMAIN snaps' = DOMAIN snaps /\ snaps'[i].status = "discarded"
      /\ \A j \in DOMAIN snaps \ {i} : snaps'[j] = snaps[j]
      /\ \A j \in DOMAIN snaps : SameSnap(snaps'[j], snaps[j])
  BY <1>1, <1>2 DEF Snaps, SameSnap
<1>4. \A j \in DOMAIN snaps : SnapKept(j)
  BY <1>3 DEF SnapKept
<1>5. \A j \in DOMAIN snaps' :
        snaps'[j].status = "applied" <=> j \in DOMAIN snaps /\ snaps[j].status = "applied"
  BY <1>1, <1>3
<1>6. ASSUME NEW k \in DOMAIN snaps', snaps'[k].status = "held", NEW j \in DOMAIN snaps,
             snaps[j].status = "applied", snaps[j].scope = snaps'[k].scope
      PROVE  ~(snaps[j].obs > snaps'[k].obs)
  <2>1. snaps'[k] = snaps[k]
    BY <1>3, <1>6
  <2> QED
    BY <1>3, <1>6, <2>1 DEF HistoryInv, NoStaleHeld, Later
<1>7. UNCHANGED <<cur, events, begun, txs>>
  BY DEF DiscardHeld
<1> QED
  BY <1>4, <1>5, <1>6, <1>7, SnapsHistory

\* A snapshot stored late or held is not applied, and nothing applied is newer
\* than a held one.
LEMMA PutHistory ==
  ASSUME JournalInv, HistoryInv, NEW p \in Procs, NEW id \in SnapIds, NEW s,
         NEW status \in {"late", "held"}, Finish(p), UNCHANGED <<cur, events, begun>>,
         snaps' = Merge(snaps, [i \in {id} |-> Stored(s, status)]),
         status = "held" => ~Later(s),
         id \in DOMAIN snaps => snaps[id] = s /\ snaps[id].status = "held"
  PROVE  HistoryInv'
<1>1. /\ DOMAIN snaps' = DOMAIN snaps \cup {id} /\ snaps'[id] = Stored(s, status)
      /\ \A i \in DOMAIN snaps \ {id} : snaps'[i] = snaps[i]
  BY DEF Merge
<1>2. /\ Stored(s, status).scope = s.scope /\ Stored(s, status).obs = s.obs
      /\ Stored(s, status).recs = s.recs /\ Stored(s, status).status = status
  BY DEF Stored
<1>3. \A i \in DOMAIN snaps : SnapKept(i)
  BY <1>1, <1>2 DEF SnapKept, SameSnap
<1>4. \A i \in DOMAIN snaps' :
        snaps'[i].status = "applied" <=> i \in DOMAIN snaps /\ snaps[i].status = "applied"
  BY <1>1, <1>2
<1>5. ASSUME NEW k \in DOMAIN snaps', snaps'[k].status = "held", NEW j \in DOMAIN snaps,
             snaps[j].status = "applied", snaps[j].scope = snaps'[k].scope
      PROVE  ~(snaps[j].obs > snaps'[k].obs)
  <2>1. CASE k = id
    BY <1>1, <1>2, <1>5, <2>1 DEF Later
  <2>2. CASE k # id
    BY <1>1, <1>5, <2>2 DEF HistoryInv, NoStaleHeld, Later
  <2> QED
    BY <2>1, <2>2
<1>6. \A q \in Procs : txs'[q] \in {txs[q], Idle}
  BY DEF Finish, JournalInv
<1> QED
  BY <1>3, <1>4, <1>5, <1>6, SnapsHistory

LEMMA OrderingHistory ==
  ASSUME JournalInv, HistoryInv, NEW p \in Procs, NEW id \in SnapIds, NEW s, NEW confirm \in BOOLEAN,
         FromOrdering(p, id, s, confirm),
         txs[p].op \in {"apply", "confirm"}, txs[p].id = id,
         s.scope \in Scopes, s.obs \in Nat, s.complete \in BOOLEAN,
         s.recs \in UNION {[K -> Values] : K \in SUBSET Keys},
         txs[p].op = "confirm" => id \in DOMAIN snaps,
         id \in DOMAIN snaps => snaps[id] = s /\ snaps[id].status = "held"
  PROVE  HistoryInv'
<1>1. UNCHANGED <<cur, events, begun>>
  BY DEF FromOrdering
<1>2. CASE ~Finish(p)
  <2>1. txs[p].op = "confirm" => id \in DOMAIN snaps /\ SameSnap(snaps[id], s)
    BY DEF SameSnap
  <2>2. PlanOK(txs[p])' /\ UNCHANGED snaps
    BY <1>2, <2>1, OrderingPlan
  <2>3. PICK tx : txs' = [txs EXCEPT ![p] = tx]
    BY <1>2 DEF FromOrdering
  <2>4. \A q \in Procs \ {p} : txs'[q] = txs[q]
    BY <2>3 DEF JournalInv
  <2>5. BegunOK'
    BY <1>1 DEF BegunOK, HistoryInv
  <2> QED
    BY <1>1, <2>2, <2>4, <2>5, QuietHistory
<1>3. CASE Finish(p)
  <2>1. \E status \in {"late", "held"} :
          /\ snaps' = Merge(snaps, [i \in {id} |-> Stored(s, status)])
          /\ status = "held" => ~Later(s)
    <3>1. txs'[p].phase = "locks"
      BY <1>3 DEF Finish, JournalInv, Idle
    <3>2. ASSUME NEW W, NEW C,
                 txs' = [txs EXCEPT ![p] = [@ EXCEPT !.phase = "insert", !.snap = s, !.obs = s.obs,
                                                     !.confirm = C, !.write = W]]
          PROVE  FALSE
      <4>1. DOMAIN txs[p] = TxFields
        BY DEF JournalInv, TxLocks
      <4>2. txs'[p].phase = "insert"
        BY <3>2, <4>1 DEF JournalInv, TxFields
      <4> QED
        BY <3>1, <4>2
    <3> QED
      BY <3>2 DEF FromOrdering
  <2> QED
    BY <1>1, <1>3, <2>1, PutHistory
<1> QED
  BY <1>2, <1>3

LEMMA PlansHistory ==
  ASSUME JournalInv, HistoryInv, NEW p \in Procs, ApplyPlan(p) \/ ConfirmPlan(p)
  PROVE  HistoryInv'
<1>1. CASE ApplyPlan(p)
  <2>1. /\ txs[p].op = "apply" /\ txs[p].id \in SnapIds /\ txs[p].snap \in Menu
    BY <1>1 DEF JournalInv, TxLocks, ApplyPlan, Ready
  <2>2. CASE Refused(p, txs[p].id, txs[p].subj)
    BY <1>1, <2>2, FinishHistory DEF ApplyPlan, store
  <2>3. CASE ~Refused(p, txs[p].id, txs[p].subj)
    <3>1. FromOrdering(p, txs[p].id, txs[p].snap, FALSE) /\ txs[p].id \notin DOMAIN snaps
      BY <1>1, <2>3 DEF ApplyPlan, Refused
    <3>2. PICK i, s : i = txs[p].id /\ s = txs[p].snap
      OBVIOUS
    <3>3. /\ s.scope \in Scopes /\ s.obs \in Nat /\ s.complete \in BOOLEAN
          /\ s.recs \in UNION {[K -> Values] : K \in SUBSET Keys}
      BY <2>1, <3>2, JournalAssumption
    <3> QED
      BY <2>1, <3>1, <3>2, <3>3, OrderingHistory
  <2> QED
    BY <2>2, <2>3
<1>2. CASE ConfirmPlan(p)
  <2> DEFINE i == txs[p].id
             ok == /\ i \in DOMAIN snaps /\ snaps[i].status = "held"
                   /\ txs[p].subj \notin erased /\ txs[p].subj \in roster
  <2>1. txs[p].op = "confirm" /\ i \in SnapIds
    BY <1>2 DEF JournalInv, TxLocks, ConfirmPlan, Ready
  <2>2. CASE ~ok
    <3>1. Finish(p) /\ UNCHANGED <<cur, events, snaps, begun>>
      BY <1>2, <2>2 DEF ConfirmPlan, store
    <3> QED
      BY <3>1, FinishHistory
  <2>3. CASE ok
    <3>1. FromOrdering(p, i, snaps[i], TRUE)
      BY <1>2, <2>3 DEF ConfirmPlan
    <3>2. PICK j, s : j = i /\ s = snaps[i]
      OBVIOUS
    <3>3. s \in Snaps
      BY <2>3, <3>2 DEF JournalInv, Tables
    <3>4. /\ s.scope \in Scopes /\ s.obs \in Nat /\ s.complete \in BOOLEAN
          /\ s.recs \in UNION {[K -> Values] : K \in SUBSET Keys}
      BY <3>3 DEF Snaps
    <3> QED
      BY <2>1, <2>3, <3>1, <3>2, <3>4, OrderingHistory
  <2> QED
    BY <2>2, <2>3
<1> QED
  BY <1>1, <1>2

LEMMA NoteHistory ==
  ASSUME JournalInv, HistoryInv, NEW p \in Procs, NotePlan(p)
  PROVE  HistoryInv'
<1>1. UNCHANGED <<cur, events, snaps, begun>>
  BY DEF NotePlan, store
<1>2. CASE Finish(p)
  BY <1>1, <1>2, FinishHistory
<1>3. CASE ~Finish(p)
  <2>1. PlanOK(txs[p])'
    BY <1>3, NotePlanned DEF HistoryInv
  <2>2. PICK tx : txs' = [txs EXCEPT ![p] = tx]
    BY <1>3 DEF NotePlan
  <2>3. \A q \in Procs \ {p} : txs'[q] = txs[q]
    BY <2>2 DEF JournalInv
  <2>4. BegunOK'
    BY <1>1 DEF BegunOK, HistoryInv
  <2> QED
    BY <1>1, <2>1, <2>3, <2>4, QuietHistory
<1> QED
  BY <1>2, <1>3

LEMMA InsertHistory ==
  ASSUME JournalInv, HistoryInv, NEW p \in Procs, Insert(p)
  PROVE  HistoryInv'
<1>1. UNCHANGED <<cur, events, snaps, begun>>
  BY DEF Insert, Numbered, store
<1>2. PlanOK(txs[p])'
  BY InsertPlanned DEF HistoryInv
<1>3. PICK tx : txs' = [txs EXCEPT ![p] = tx]
  BY DEF Insert, Numbered
<1>4. \A q \in Procs \ {p} : txs'[q] = txs[q]
  BY <1>3 DEF JournalInv
<1>5. BegunOK'
  BY <1>1 DEF BegunOK, HistoryInv
<1> QED
  BY <1>1, <1>2, <1>4, <1>5, QuietHistory

\* A rescan changes verdicts only.
LEMMA VerdictsHistory ==
  ASSUME JournalInv, HistoryInv, UNCHANGED <<snaps, txs>>, BegunOK',
         DOMAIN cur' = DOMAIN cur, DOMAIN events' = DOMAIN events,
         \A id \in DOMAIN cur : RowKept(id) /\ cur'[id].seq = cur[id].seq,
         \A q \in DOMAIN events :
           /\ events'[q].id = events[q].id /\ events'[q].kind = events[q].kind
           /\ events'[q].scope = events[q].scope /\ events'[q].new = events[q].new
  PROVE  HistoryInv'
<1>1. \A id \in DOMAIN cur : /\ cur'[id].confAt = cur[id].confAt /\ cur'[id].val = cur[id].val
                             /\ cur'[id].scope = cur[id].scope /\ cur'[id].removed = cur[id].removed
                             /\ cur'[id].seq = cur[id].seq
  BY DEF RowKept
<1>2. RowsReplay'
  <2>1. \A q \in DOMAIN events' : events'[q].id \in DOMAIN cur'
    BY DEF HistoryInv, RowsReplay
  <2>2. ASSUME NEW id \in DOMAIN cur'
        PROVE  LET its == {q \in DOMAIN events' : events'[q].id = id}
                   last == cur'[id].seq
               IN /\ last \in its /\ \A q \in its : q <= last
                  /\ events'[last].scope = cur'[id].scope
                  /\ events'[last].kind = "removed" <=> cur'[id].removed
                  /\ \E q \in its : /\ events'[q].new = cur'[id].val
                                    /\ \A r \in its : r > q => events'[r].new = None
    <3>1. {q \in DOMAIN events' : events'[q].id = id} = {q \in DOMAIN events : events[q].id = id}
      OBVIOUS
    <3>2. PICK its : its = {q \in DOMAIN events : events[q].id = id}
      OBVIOUS
    <3>3. /\ cur[id].seq \in its /\ \A q \in its : q <= cur[id].seq
          /\ events[cur[id].seq].scope = cur[id].scope
          /\ events[cur[id].seq].kind = "removed" <=> cur[id].removed
          /\ \E q \in its : /\ events[q].new = cur[id].val
                            /\ \A r \in its : r > q => events[r].new = None
      BY <3>2 DEF HistoryInv, RowsReplay
    <3>4. its \subseteq DOMAIN events
      BY <3>2
    <3>5. PICK q \in its : /\ events[q].new = cur[id].val
                           /\ \A r \in its : r > q => events[r].new = None
      BY <3>3
    <3>6. events'[q].new = cur'[id].val /\ \A r \in its : r > q => events'[r].new = None
      BY <1>1, <3>4, <3>5
    <3>7. /\ cur'[id].seq \in its /\ \A r \in its : r <= cur'[id].seq
          /\ events'[cur'[id].seq].scope = cur'[id].scope
          /\ events'[cur'[id].seq].kind = "removed" <=> cur'[id].removed
      BY <1>1, <3>3, <3>4
    <3> QED
      BY <3>1, <3>2, <3>6, <3>7
  <2> QED
    BY <2>1, <2>2 DEF RowsReplay
<1>3. Seen'
  <2>1. \A i \in DOMAIN snaps' : snaps'[i].status = "applied" =>
          \A id \in DOMAIN RecsOf(snaps'[i]) : id \in DOMAIN cur' /\ cur'[id].confAt >= snaps'[i].obs
    BY <1>1 DEF HistoryInv, Seen
  <2>2. ASSUME NEW id \in DOMAIN cur', id[1] = "grade", ~cur'[id].removed
        PROVE  \E i \in DOMAIN snaps' : /\ snaps'[i].status = "applied" /\ snaps'[i].obs = cur'[id].confAt
                                        /\ Shows(cur'[id], id, snaps'[i])
    <3>1. PICK i \in DOMAIN snaps : /\ snaps[i].status = "applied" /\ snaps[i].obs = cur[id].confAt
                                    /\ Shows(cur[id], id, snaps[i])
      BY <1>1, <2>2 DEF HistoryInv, Seen
    <3>2. Shows(cur'[id], id, snaps[i])
      BY <1>1, <3>1 DEF Shows
    <3> QED
      BY <1>1, <3>1, <3>2
  <2> QED
    BY <2>1, <2>2 DEF Seen
<1>4. NoStaleHeld'
  BY DEF HistoryInv, NoStaleHeld, Later
<1>5. ASSUME NEW q \in Procs
      PROVE  PlanOK(txs[q])'
  <2>1. \A id : RowKept(id)
    BY DEF RowKept
  <2>2. \A i : SnapKept(i)
    BY DEF SnapKept, SameSnap
  <2> QED
    BY <2>1, <2>2, PlanKept DEF JournalInv, HistoryInv
<1> QED
  BY <1>2, <1>3, <1>4, <1>5 DEF HistoryInv, BegunOK

LEMMA JudgeCurrentRows ==
  ASSUME JournalInv, JudgeCurrent, NEW id \in DOMAIN cur
  PROVE  RowKept(id) /\ cur'[id].seq = cur[id].seq
<1>1. cur[id] \in Rows /\ DOMAIN cur' = DOMAIN cur
  BY DEF JournalInv, Tables, RowOK, JudgeCurrent
<1>2. CASE cur'[id] = cur[id]
  BY <1>1, <1>2 DEF RowKept
<1>3. CASE cur'[id] # cur[id]
  <2>1. PICK v, ver : v = Verdict(scan.ver, scan.was.val) /\ ver = scan.ver
    OBVIOUS
  <2>2. cur'[id] = [cur[id] EXCEPT !.verdict = v, !.ver = ver]
    BY <1>3, <2>1 DEF JudgeCurrent
  <2> QED
    BY <1>1, <2>2 DEF RowKept, Rows
<1> QED
  BY <1>2, <1>3

LEMMA RescanHistory ==
  ASSUME JournalInv, HistoryInv, Reload \/ RescanRead \/ JudgeCurrent \/ JudgeEvents
  PROVE  HistoryInv'
<1>1. CASE Reload \/ RescanRead
  <2>1. UNCHANGED <<cur, events, snaps, txs>>
    BY <1>1 DEF Reload, RescanRead, store
  <2>2. BegunOK'
    BY <1>1, JournalAssumption DEF Reload, RescanRead, BegunOK, HistoryInv
  <2>3. \A id \in DOMAIN cur : RowKept(id) /\ cur'[id].seq = cur[id].seq
    BY <2>1 DEF RowKept
  <2> QED
    BY <2>1, <2>2, <2>3, VerdictsHistory
<1>2. CASE JudgeCurrent
  <2>1. UNCHANGED <<snaps, events, txs, begun>> /\ DOMAIN cur' = DOMAIN cur
    BY <1>2 DEF JudgeCurrent
  <2>2. BegunOK'
    BY <2>1 DEF BegunOK, HistoryInv
  <2>3. \A id \in DOMAIN cur : RowKept(id) /\ cur'[id].seq = cur[id].seq
    BY <1>2, JudgeCurrentRows
  <2> QED
    BY <2>1, <2>2, <2>3, VerdictsHistory
<1>3. CASE JudgeEvents
  <2>1. UNCHANGED <<snaps, cur, txs, begun>> /\ DOMAIN events' = DOMAIN events
    BY <1>3 DEF JudgeEvents
  <2>2. BegunOK'
    BY <2>1 DEF BegunOK, HistoryInv
  <2>3. \A id \in DOMAIN cur : RowKept(id) /\ cur'[id].seq = cur[id].seq
    BY <2>1 DEF RowKept
  <2>4. ASSUME NEW q \in DOMAIN events
        PROVE  /\ events'[q].id = events[q].id /\ events'[q].kind = events[q].kind
               /\ events'[q].scope = events[q].scope /\ events'[q].new = events[q].new
    <3>1. events[q] \in EventRecs
      BY DEF JournalInv, Tables, EventOK
    <3>2. CASE events'[q] = events[q]
      BY <3>2
    <3>3. CASE events'[q] # events[q]
      <4>1. PICK j : j = Judge(scan.was, scan.ver)
        OBVIOUS
      <4>2. q = scan.at /\ events' = [events EXCEPT ![q].oldV = j.oldV, ![q].newV = j.newV, ![q].ver = j.ver]
        BY <1>3, <3>3, <4>1 DEF JudgeEvents
      <4> QED
        BY <3>1, <4>2 DEF EventRecs
    <3> QED
      BY <3>2, <3>3
  <2> QED
    BY <2>1, <2>2, <2>3, <2>4, VerdictsHistory
<1> QED
  BY <1>1, <1>2, <1>3

-----------------------------------------------------------------------------
(* The commit and the history.                                              *)

\* What a commit of W relies on.
Changes(W, obs) ==
  /\ \A w \in W : /\ ChangeOK(w, obs) /\ w.event.id = w.id /\ w.row.seq \in Nat
                  /\ \A q \in DOMAIN events : q < w.row.seq
  /\ \A w, v \in W : w.id = v.id => w = v
  /\ \A w, v \in W : w.row.seq = v.row.seq => w = v

\* RowsReplay for one row.
Replays(id) ==
  /\ cur[id].seq \in DOMAIN events /\ events[cur[id].seq].id = id
  /\ \A q \in DOMAIN events : events[q].id = id => q <= cur[id].seq
  /\ events[cur[id].seq].scope = cur[id].scope
  /\ events[cur[id].seq].kind = "removed" <=> cur[id].removed
  /\ \E q \in DOMAIN events :
       /\ events[q].id = id /\ events[q].new = cur[id].val
       /\ \A r \in DOMAIN events : events[r].id = id /\ r > q => events[r].new = None

\* The new events come after the others, one for each row.
LEMMA CommitReplay ==
  ASSUME RowsReplay, \A q \in DOMAIN events : q \in Nat,
         NEW W, NEW C, NEW obs, Committed(W, C, obs), Changes(W, obs)
  PROVE  RowsReplay'
<1>1. ASSUME NEW w \in W
      PROVE  /\ w.row.seq \in DOMAIN events' /\ events'[w.row.seq] = w.event
             /\ w.id \in DOMAIN cur' /\ cur'[w.id] = w.row
  <2>1. /\ w.row.seq \in DOMAIN events' /\ w.id \in DOMAIN cur'
        /\ \E v \in W : v.row.seq = w.row.seq /\ events'[w.row.seq] = v.event
        /\ \E v \in W : v.id = w.id /\ cur'[w.id] = v.row
    BY DEF Committed
  <2> QED
    BY <2>1 DEF Changes
<1>2. \A q \in DOMAIN events' : q \in DOMAIN events \/ \E w \in W : q = w.row.seq
  BY DEF Committed
<1>3. \A q \in DOMAIN events : q \in DOMAIN events' /\ events'[q] = events[q] /\ q \in Nat
  BY DEF Committed
<1>4. \A w \in W : /\ ChangeOK(w, obs) /\ w.event.id = w.id /\ w.row.seq \in Nat
                   /\ \A q \in DOMAIN events : q < w.row.seq
  BY DEF Changes
<1>5. \A w, v \in W : w.id = v.id => w = v
  BY DEF Changes
<1>6. ASSUME NEW q \in DOMAIN events'
      PROVE  events'[q].id \in DOMAIN cur'
  <2>1. CASE q \in DOMAIN events
    <3>1. events[q].id \in DOMAIN cur
      BY <2>1 DEF RowsReplay
    <3> QED
      BY <1>3, <2>1, <3>1 DEF Committed
  <2>2. CASE \E w \in W : q = w.row.seq
    BY <1>1, <1>4, <2>2
  <2> QED
    BY <1>2, <2>1, <2>2
<1>7. ASSUME NEW id \in DOMAIN cur
      PROVE  Replays(id)
  BY DEF RowsReplay, Replays
<1>8. ASSUME NEW id \in DOMAIN cur'
      PROVE  Replays(id)'
  <2>1. ASSUME NEW w \in W, w.id = id
        PROVE  Replays(id)'
    <3>1. /\ w.row.seq \in DOMAIN events' /\ events'[w.row.seq] = w.event /\ cur'[id] = w.row
          /\ w.event.id = id /\ ChangeOK(w, obs) /\ w.row.seq \in Nat
      BY <1>1, <1>4, <2>1
    <3>2. ASSUME NEW q \in DOMAIN events', events'[q].id = id
          PROVE  q = w.row.seq \/ (q \in DOMAIN events /\ events[q].id = id /\ q < w.row.seq)
      <4>1. CASE q \in DOMAIN events
        BY <1>3, <1>4, <3>2, <4>1
      <4>2. ASSUME NEW v \in W, q = v.row.seq
            PROVE  q = w.row.seq
        BY <1>1, <1>4, <1>5, <2>1, <3>2, <4>2
      <4> QED
        BY <1>2, <4>1, <4>2
    <3>3. \A q \in DOMAIN events' : events'[q].id = id => q <= cur'[id].seq
      BY <1>3, <3>1, <3>2
    <3>4. /\ w.event.scope = w.row.scope /\ (w.event.kind = "removed" <=> w.row.removed)
          /\ w.event.new \in {None, w.row.val}
          /\ w.event.new = None => w.id \in DOMAIN cur /\ cur[w.id].val = w.row.val
      BY <3>1 DEF ChangeOK
    <3>5. CASE w.event.new # None
      <4>1. \A r \in DOMAIN events' : events'[r].id = id /\ r > w.row.seq => events'[r].new = None
        BY <1>3, <3>1, <3>2
      <4> QED
        BY <3>1, <3>3, <3>4, <3>5, <4>1 DEF Replays
    <3>6. CASE w.event.new = None
      <4>1. PICK q \in DOMAIN events :
              /\ events[q].id = id /\ events[q].new = cur[id].val
              /\ \A r \in DOMAIN events : events[r].id = id /\ r > q => events[r].new = None
        BY <1>7, <2>1, <3>4, <3>6 DEF Replays
      <4>2. \A r \in DOMAIN events' : events'[r].id = id /\ r > q => events'[r].new = None
        BY <1>3, <3>1, <3>2, <3>6, <4>1
      <4>3. q \in DOMAIN events' /\ events'[q].id = id /\ events'[q].new = cur'[id].val
        BY <1>3, <2>1, <3>1, <3>4, <3>6, <4>1
      <4> QED
        BY <3>1, <3>3, <3>4, <4>2, <4>3 DEF Replays
    <3> QED
      BY <3>5, <3>6
  <2>2. ASSUME \A w \in W : w.id # id
        PROVE  Replays(id)'
    <3>1. /\ id \in DOMAIN cur
          /\ cur'[id].val = cur[id].val /\ cur'[id].scope = cur[id].scope
          /\ cur'[id].removed = cur[id].removed /\ cur'[id].seq = cur[id].seq
      BY <2>2 DEF Committed
    <3>2. ASSUME NEW q \in DOMAIN events', events'[q].id = id
          PROVE  q \in DOMAIN events /\ events[q].id = id
      BY <1>1, <1>2, <1>3, <1>4, <2>2, <3>2
    <3>3. PICK q \in DOMAIN events :
            /\ events[q].id = id /\ events[q].new = cur[id].val
            /\ \A r \in DOMAIN events : events[r].id = id /\ r > q => events[r].new = None
      BY <1>7, <3>1 DEF Replays
    <3>4. /\ q \in DOMAIN events' /\ events'[q].id = id /\ events'[q].new = cur'[id].val
          /\ \A r \in DOMAIN events' : events'[r].id = id /\ r > q => events'[r].new = None
      BY <1>3, <3>1, <3>2, <3>3
    <3>5. /\ cur'[id].seq \in DOMAIN events' /\ events'[cur'[id].seq].id = id
          /\ events'[cur'[id].seq].scope = cur'[id].scope
          /\ events'[cur'[id].seq].kind = "removed" <=> cur'[id].removed
      BY <1>3, <1>7, <3>1 DEF Replays
    <3>6. \A r \in DOMAIN events' : events'[r].id = id => r <= cur'[id].seq
      BY <1>3, <1>7, <3>1, <3>2 DEF Replays
    <3> QED
      BY <3>4, <3>5, <3>6 DEF Replays
  <2> QED
    BY <2>1, <2>2
<1> QED
  BY <1>6, <1>8 DEF RowsReplay, Replays

\* What a commit does to the snapshots: those in fresh become applied with
\* the contents of s, the other applied ones stay.
Stores(fresh, s, obs) ==
  /\ \A k \in fresh : /\ k \in DOMAIN snaps' /\ snaps'[k].status = "applied"
                      /\ SameSnap(snaps'[k], s) /\ snaps'[k].obs = obs
  /\ \A i \in DOMAIN snaps' : snaps'[i].status = "applied" =>
       i \in fresh \/ (i \in DOMAIN snaps /\ snaps[i].status = "applied")
  /\ \A i \in DOMAIN snaps : SnapKept(i) /\ (snaps[i].status = "applied" => snaps'[i].status = "applied")

\* What a commit of s covers: each record of s is written, confirmed, or in a
\* newer row, and what is written or confirmed shows s.
CoversSnap(W, C, fresh, s, obs) ==
  /\ fresh # {} => \A id \in DOMAIN RecsOf(s) :
       id \in C \/ (\E w \in W : w.id = id) \/ (id \in DOMAIN cur /\ cur[id].confAt > obs)
  /\ \A id \in C : /\ id \in DOMAIN cur /\ cur[id].confAt <= obs
                   /\ fresh # {} /\ Shows(cur[id], id, s)
  /\ \A w \in W : w.id[1] = "grade" /\ ~w.row.removed => fresh # {} /\ Shows(w.row, w.id, s)

\* An applied snapshot of its time shows the row.
Shown(r, id) ==
  \E i \in DOMAIN snaps : /\ snaps[i].status = "applied" /\ snaps[i].obs = r.confAt
                          /\ Shows(r, id, snaps[i])

LEMMA CommitSeen ==
  ASSUME Seen, Tables, NEW W, NEW C, NEW fresh, NEW s, NEW obs \in Nat,
         Committed(W, C, obs), Changes(W, obs), Stores(fresh, s, obs), CoversSnap(W, C, fresh, s, obs)
  PROVE  Seen'
<1>1. \A w \in W : w.row.confAt = obs /\ (w.id \in DOMAIN cur => cur[w.id].confAt <= obs)
  BY DEF Changes, ChangeOK
<1>2. ASSUME NEW id \in DOMAIN cur', \E w \in W : w.id = id
      PROVE  \E w \in W : w.id = id /\ cur'[id] = w.row /\ cur'[id].confAt = obs
  <2>1. \E w \in W : w.id = id /\ cur'[id] = w.row
    BY <1>2 DEF Committed
  <2> QED
    BY <1>1, <2>1
<1>3. ASSUME NEW id \in DOMAIN cur', ~\E w \in W : w.id = id
      PROVE  /\ id \in DOMAIN cur /\ cur'[id].val = cur[id].val /\ cur'[id].scope = cur[id].scope
             /\ cur'[id].removed = cur[id].removed
             /\ cur'[id].confAt = IF id \in C THEN obs ELSE cur[id].confAt
  BY <1>3 DEF Committed
<1>4. \A id \in DOMAIN cur : cur[id].confAt \in Nat
  BY DEF Tables, RowOK, Rows
<1>5. DOMAIN cur' = DOMAIN cur \cup {w.id : w \in W}
  BY DEF Committed
<1>6. ASSUME NEW id \in DOMAIN cur
      PROVE  id \in DOMAIN cur' /\ cur'[id].confAt >= cur[id].confAt
  <2>1. id \in DOMAIN cur' /\ cur[id].confAt \in Nat
    BY <1>4, <1>5
  <2>2. CASE \E w \in W : w.id = id
    <3>1. cur'[id].confAt = obs /\ cur[id].confAt <= obs
      BY <1>1, <1>2, <2>1, <2>2
    <3> QED
      BY <2>1, <3>1
  <2>3. CASE ~\E w \in W : w.id = id
    <3>1. id \in C => cur[id].confAt <= obs
      BY DEF CoversSnap
    <3> QED
      BY <1>3, <2>1, <2>3, <3>1
  <2> QED
    BY <2>2, <2>3
<1>7. ASSUME NEW i \in DOMAIN snaps', snaps'[i].status = "applied",
             NEW id \in DOMAIN RecsOf(snaps'[i])
      PROVE  id \in DOMAIN cur' /\ cur'[id].confAt >= snaps'[i].obs
  <2>1. CASE i \in DOMAIN snaps /\ snaps[i].status = "applied"
    <3>1. SameSnap(snaps'[i], snaps[i])
      BY <2>1 DEF Stores, SnapKept
    <3>2. id \in DOMAIN RecsOf(snaps[i]) /\ snaps'[i].obs = snaps[i].obs
      BY <3>1, <1>7, SameRecs DEF SameSnap
    <3>3. id \in DOMAIN cur /\ cur[id].confAt >= snaps[i].obs
      BY <2>1, <3>2 DEF Seen
    <3>4. snaps[i].obs \in Nat
      BY <2>1 DEF Tables, Snaps
    <3>5. cur'[id].confAt \in Nat
      BY <1>1, <1>2, <1>3, <1>4, <1>6, <3>3
    <3> QED
      BY <1>4, <1>6, <3>2, <3>3, <3>4, <3>5
  <2>2. CASE i \in fresh
    <3>1. SameSnap(snaps'[i], s) /\ snaps'[i].obs = obs
      BY <2>2 DEF Stores
    <3>2. id \in DOMAIN RecsOf(s)
      BY <3>1, <1>7, SameRecs
    <3>3. id \in C \/ (\E w \in W : w.id = id) \/ (id \in DOMAIN cur /\ cur[id].confAt > obs)
      BY <2>2, <3>2 DEF CoversSnap
    <3>4. id \in C => id \in DOMAIN cur
      BY DEF CoversSnap
    <3>5. id \in DOMAIN cur'
      BY <1>5, <3>3, <3>4
    <3>6. CASE \E w \in W : w.id = id
      BY <1>2, <3>1, <3>5, <3>6
    <3>7. CASE ~\E w \in W : w.id = id
      BY <1>3, <1>4, <3>1, <3>3, <3>5, <3>7
    <3> QED
      BY <3>6, <3>7
  <2> QED
    BY <1>7, <2>1, <2>2 DEF Stores
<1>8. ASSUME NEW id \in DOMAIN cur', id[1] = "grade", ~cur'[id].removed
      PROVE  Shown(cur[id], id)'
  <2>1. ASSUME fresh # {}, Shows(cur'[id], id, s), cur'[id].confAt = obs
        PROVE  Shown(cur[id], id)'
    <3>1. PICK k \in fresh : TRUE
      BY <2>1
    <3>2. /\ k \in DOMAIN snaps' /\ snaps'[k].status = "applied"
          /\ SameSnap(snaps'[k], s) /\ snaps'[k].obs = obs
      BY DEF Stores
    <3>3. Shows(cur'[id], id, snaps'[k])
      BY <2>1, <3>2, SameRecs
    <3> QED
      BY <2>1, <3>2, <3>3 DEF Shown
  <2>2. CASE \E w \in W : w.id = id
    <3>1. PICK w \in W : w.id = id /\ cur'[id] = w.row /\ cur'[id].confAt = obs
      BY <1>2, <2>2
    <3>2. fresh # {} /\ Shows(cur'[id], id, s)
      BY <1>8, <3>1 DEF CoversSnap
    <3> QED
      BY <2>1, <3>1, <3>2
  <2>3. CASE ~\E w \in W : w.id = id
    <3>1. /\ id \in DOMAIN cur /\ cur'[id].val = cur[id].val /\ cur'[id].scope = cur[id].scope
          /\ cur'[id].removed = cur[id].removed
          /\ cur'[id].confAt = IF id \in C THEN obs ELSE cur[id].confAt
      BY <1>3, <2>3
    <3>2. \A x : Shows(cur[id], id, x) => Shows(cur'[id], id, x)
      BY <3>1 DEF Shows
    <3>3. CASE id \in C
      BY <2>1, <3>1, <3>2, <3>3 DEF CoversSnap
    <3>4. CASE id \notin C
      <4>1. PICK i \in DOMAIN snaps : /\ snaps[i].status = "applied" /\ snaps[i].obs = cur[id].confAt
                                      /\ Shows(cur[id], id, snaps[i])
        BY <1>8, <3>1 DEF Seen
      <4>2. i \in DOMAIN snaps' /\ SameSnap(snaps'[i], snaps[i]) /\ snaps'[i].status = "applied"
        BY <4>1 DEF Stores, SnapKept
      <4>3. Shows(cur'[id], id, snaps'[i])
        BY <3>2, <4>1, <4>2, SameRecs
      <4>4. snaps'[i].obs = cur'[id].confAt
        BY <3>1, <3>4, <4>1, <4>2 DEF SameSnap
      <4> QED
        BY <4>2, <4>3, <4>4 DEF Shown
    <3> QED
      BY <3>3, <3>4
  <2> QED
    BY <2>2, <2>3
<1> QED
  BY <1>7, <1>8 DEF Seen, Shown

\* The commit of a snapshot: it becomes applied, the older held ones of its
\* scope are discarded, the others stay.
LEMMA CommitSnaps ==
  ASSUME JournalInv, HistoryInv, NEW p \in Procs, Commit(p), txs[p].op # "note",
         ~(txs[p].op = "apply" /\ txs[p].id \in DOMAIN snaps)
  PROVE  /\ Stores({txs[p].id}, txs[p].snap, txs[p].obs) /\ NoStaleHeld'
<1> DEFINE t == txs[p]
<1>1. snaps' = [i \in DOMAIN snaps \cup {t.id} |->
                  IF i = t.id THEN Stored(t.snap, "applied")
                  ELSE IF Superseded(i, t)
                       THEN [snaps[i] EXCEPT !.status = "discarded"]
                       ELSE snaps[i]]
  BY DEF Commit
<1>2. Writing(t) /\ InFlight(t) /\ PlanOK(t) /\ TxLocks(t) /\ t.op \in {"apply", "confirm"}
  BY DEF JournalInv, HistoryInv, Commit, Writing, InFlight
<1>3. t.snap.obs = t.obs /\ t.obs \in Nat
  BY <1>2 DEF InFlight
<1>4. DOMAIN snaps' = DOMAIN snaps \cup {t.id} /\ snaps'[t.id] = Stored(t.snap, "applied")
  BY <1>1
<1>5. /\ snaps'[t.id].status = "applied" /\ SameSnap(snaps'[t.id], t.snap) /\ snaps'[t.id].obs = t.obs
  BY <1>3, <1>4 DEF Stored, SameSnap
<1>6. t.id \in DOMAIN snaps => SameSnap(snaps[t.id], t.snap)
  BY <1>2 DEF PlanOK
<1>7. ASSUME NEW i \in DOMAIN snaps, i # t.id
      PROVE  /\ SameSnap(snaps'[i], snaps[i])
             /\ \/ ~Superseded(i, t) /\ snaps'[i] = snaps[i]
                \/ snaps[i].status = "held" /\ snaps'[i].status = "discarded"
  <2>1. snaps[i] \in Snaps
    BY DEF JournalInv, Tables
  <2>2. CASE Superseded(i, t)
    <3>1. snaps'[i] = [snaps[i] EXCEPT !.status = "discarded"]
      BY <1>1, <1>7, <2>2
    <3>2. SameSnap(snaps'[i], snaps[i]) /\ snaps'[i].status = "discarded"
      BY <2>1, <3>1 DEF SameSnap, Snaps
    <3> QED
      BY <2>2, <3>2 DEF Superseded
  <2>3. CASE ~Superseded(i, t)
    BY <1>1, <1>7, <2>3 DEF SameSnap
  <2> QED
    BY <2>2, <2>3
<1>8. \A i \in DOMAIN snaps : SnapKept(i) /\ (snaps[i].status = "applied" => snaps'[i].status = "applied")
  <2>1. ASSUME NEW i \in DOMAIN snaps
        PROVE  /\ SameSnap(snaps'[i], snaps[i])
               /\ snaps[i].status = "applied" => snaps'[i].status = "applied"
    <3>1. CASE i = t.id
      BY <1>5, <1>6, <3>1 DEF SameSnap
    <3>2. CASE i # t.id
      BY <1>7, <3>2
    <3> QED
      BY <3>1, <3>2
  <2> QED
    BY <1>4, <2>1 DEF SnapKept
<1>9. \A i \in DOMAIN snaps' : snaps'[i].status = "applied" =>
        i \in {t.id} \/ (i \in DOMAIN snaps /\ snaps[i].status = "applied")
  BY <1>4, <1>7
<1>10. Stores({t.id}, t.snap, t.obs)
  BY <1>4, <1>5, <1>8, <1>9 DEF Stores
<1>11. NoStaleHeld'
  <2> SUFFICES ASSUME NEW i \in DOMAIN snaps', snaps'[i].status = "held",
                      NEW j \in DOMAIN snaps', snaps'[j].scope = snaps'[i].scope,
                      snaps'[j].status = "applied", snaps'[j].obs > snaps'[i].obs
               PROVE  FALSE
    BY DEF NoStaleHeld, Later
  <2>1. i # t.id /\ i \in DOMAIN snaps
    BY <1>4, <1>5
  <2>2. snaps'[i] = snaps[i] /\ ~Superseded(i, t)
    BY <1>7, <2>1
  <2>3. CASE j = t.id
    BY <1>3, <1>5, <2>2, <2>3 DEF Superseded, SameSnap
  <2>4. CASE j # t.id
    <3>1. j \in DOMAIN snaps /\ snaps[j].status = "applied" /\ SameSnap(snaps'[j], snaps[j])
      BY <1>4, <1>7, <2>4
    <3> QED
      BY <2>1, <2>2, <3>1 DEF HistoryInv, NoStaleHeld, Later, SameSnap
  <2> QED
    BY <2>3, <2>4
<1> QED
  BY <1>10, <1>11

\* Another transaction's rows are not touched: they are of another subject.
LEMMA CommitRows ==
  ASSUME JournalInv, HistoryInv, NEW p \in Procs, Commit(p),
         Committed(txs[p].write, txs[p].confirm, txs[p].obs),
         NEW q \in Procs \ {p}, Writing(txs[q]), NEW id, Mine(txs[q], id)
  PROVE  RowKept(id)
<1> DEFINE t == txs[p]
<1>2. Writing(t) /\ InFlight(t) /\ PlanOK(t) /\ TxLocks(t)
  BY DEF JournalInv, HistoryInv, Commit, Writing
<1>3. SubjectLock(t.subj) \in t.held
  BY <1>2 DEF InFlight, TxLocks
<1>4. SubjectLock(txs[q].subj) \in txs[q].held
  BY DEF JournalInv, InFlight, TxLocks
<1>5. SubjectLock(t.subj) # SubjectLock(txs[q].subj)
  BY <1>3, <1>4 DEF JournalInv, Exclusive
<1>6. id[2] # t.subj
  BY <1>5 DEF Mine
<1>7. \A w \in t.write : w.id # id
  BY <1>2, <1>6 DEF InFlight
<1>8. id \notin t.confirm
  <2>1. CASE t.op = "note"
    BY <1>2, <2>1 DEF PlanOK
  <2>2. CASE t.op # "note"
    <3>1. \A x \in t.confirm : x \in DOMAIN RecsOf(t.snap)
      BY <1>2, <2>2 DEF PlanOK, Shows
    <3>2. /\ t.snap.scope \in Scopes /\ SubjectOf[t.snap.scope] = t.subj
          /\ Stored(t.snap, "applied") \in Snaps
      BY <1>2, <2>2 DEF InFlight
    <3>3. t.snap.recs \in UNION {[K -> Values] : K \in SUBSET Keys}
      BY <3>2 DEF Stored, Snaps
    <3>4. \A x \in DOMAIN RecsOf(t.snap) : x[2] = t.subj
      BY <3>2, <3>3, RecsOfOK
    <3> QED
      BY <1>6, <3>1, <3>4
  <2> QED
    BY <2>1, <2>2
<1> QED
  BY <1>7, <1>8 DEF Committed, RowKept

LEMMA CommitOthers ==
  ASSUME JournalInv, HistoryInv, NEW p \in Procs, Commit(p),
         Committed(txs[p].write, txs[p].confirm, txs[p].obs),
         \A i \in DOMAIN snaps : SnapKept(i), NEW q \in Procs \ {p}
  PROVE  PlanOK(txs[q])'
<1>1. txs'[q] = txs[q]
  BY DEF Commit, Finish, JournalInv
<1>2. Writing(txs[q]) => \A id : Mine(txs[q], id) => RowKept(id)
  BY CommitRows
<1>3. \A i : SnapKept(i)
  BY DEF SnapKept
<1> QED
  BY <1>1, <1>2, <1>3, PlanKept DEF JournalInv, HistoryInv

LEMMA CommitHistory ==
  ASSUME JournalInv, HistoryInv, NEW p \in Procs, Commit(p)
  PROVE  HistoryInv'
<1> DEFINE t == txs[p]
<1>1. CASE t.op = "apply" /\ t.id \in DOMAIN snaps
  <2>1. Finish(p) /\ UNCHANGED <<cur, events, snaps, begun>>
    BY <1>1 DEF Commit, store
  <2> QED
    BY <2>1, FinishHistory
<1>2. CASE ~(t.op = "apply" /\ t.id \in DOMAIN snaps)
  <2>1. Committed(t.write, t.confirm, t.obs)
    BY <1>2, CommitTables
  <2>2. Writing(t) /\ InFlight(t) /\ PlanOK(t) /\ t.phase = "commit" /\ t.obs \in Nat
    BY DEF JournalInv, HistoryInv, Commit, Writing, InFlight
  <2>3. Changes(t.write, t.obs)
    <3>1. \A w \in t.write : /\ w.event.id = w.id /\ w.row.seq \in Nat
                             /\ \A q \in DOMAIN events : q < w.row.seq
      BY <2>2 DEF InFlight, RowOK, Rows
    <3> QED
      BY <2>2, <3>1 DEF PlanOK, Changes
  <2>4. RowsReplay'
    BY <2>1, <2>3, CommitReplay DEF JournalInv, Tables, HistoryInv
  <2>5. Seen' /\ NoStaleHeld' /\ \A i \in DOMAIN snaps : SnapKept(i)
    <3>1. CASE t.op = "note"
      <4>1. snaps' = snaps
        BY <1>2, <3>1 DEF Commit
      <4>2. NoStaleHeld' /\ \A i \in DOMAIN snaps : SnapKept(i)
        BY <4>1 DEF HistoryInv, NoStaleHeld, Later, SnapKept, SameSnap
      <4>3. Stores({}, None, t.obs)
        BY <4>1, <4>2 DEF Stores
      <4>4. CoversSnap(t.write, t.confirm, {}, None, t.obs)
        BY <2>2, <3>1 DEF CoversSnap, PlanOK, InFlight
      <4>5. Seen'
        BY <2>1, <2>2, <2>3, <4>3, <4>4, CommitSeen DEF JournalInv, HistoryInv
      <4> QED
        BY <4>2, <4>5
    <3>2. CASE t.op # "note"
      <4>1. Stores({t.id}, t.snap, t.obs) /\ NoStaleHeld'
        BY <1>2, <3>2, CommitSnaps
      <4>2. CoversSnap(t.write, t.confirm, {t.id}, t.snap, t.obs)
        BY <2>2, <3>2 DEF CoversSnap, PlanOK
      <4>3. Seen'
        BY <2>1, <2>2, <2>3, <4>1, <4>2, CommitSeen DEF JournalInv, HistoryInv
      <4> QED
        BY <4>1, <4>3 DEF Stores
    <3> QED
      BY <3>1, <3>2
  <2>6. \A q \in Procs \ {p} : PlanOK(txs[q])'
    BY <2>1, <2>5, CommitOthers
  <2>7. PlanOK(txs[p])'
    <3>1. txs'[p] = Idle
      BY DEF Commit, Finish, JournalInv
    <3> QED
      BY <3>1 DEF Idle, PlanOK, Writing
  <2>8. begun' = begun
    BY DEF Commit
  <2> QED
    BY <2>4, <2>5, <2>6, <2>7, <2>8 DEF HistoryInv
<1> QED
  BY <1>1, <1>2

-----------------------------------------------------------------------------
(* The erase and the history.                                               *)

\* A kept note keeps its events, under a name nobody else has.
LEMMA EraseReplay ==
  ASSUME RowsReplay, Tables, NEW m, NEW stays, NEW keep, NEW move, Erasing(m, stays, keep, move)
  PROVE  RowsReplay'
<1>1. \A id \in stays : id \in DOMAIN cur /\ id[2] # m /\ (id[2] \in Pseudonyms => id[2] \in DOMAIN kept)
  BY DEF Erasing
<1>2. \A x \in keep : /\ x \in DOMAIN cur /\ x[2] = m
                      /\ move[x] \in Pseudonyms /\ move[x] \notin DOMAIN kept
  BY DEF Erasing
<1>3. \A x, y \in keep : move[x] = move[y] => x = y
  BY DEF Erasing
<1>4. \A x \in keep : x \notin stays /\ Note(move[x], x[3]) \notin stays
  BY <1>1, <1>2 DEF Note
<1>5. \A x, y \in keep : Note(move[x], x[3]) = Note(move[y], y[3]) => x = y
  BY <1>3 DEF Note
<1>6. DOMAIN cur' = stays \cup {Note(move[x], x[3]) : x \in keep}
  BY DEF Erasing
<1>7. DOMAIN events' = {q \in DOMAIN events : events[q].id \in stays \cup keep}
  BY DEF Erasing
<1>8. \A q \in DOMAIN events' :
       /\ events[q].id \in stays => events'[q] = events[q]
       /\ events[q].id \notin stays =>
            /\ events'[q].id = Note(move[events[q].id], events[q].id[3])
            /\ events'[q].scope = Household
            /\ events'[q].kind = events[q].kind /\ events'[q].new = events[q].new
  BY DEF Erasing
<1>9. \A id \in DOMAIN cur : Replays(id) /\ cur[id] \in Rows
  BY DEF RowsReplay, Replays, Tables, RowOK
<1>10. ASSUME NEW id \in stays
       PROVE  Replays(id)'
  <2>1. cur'[id] = cur[id] /\ Replays(id)
    BY <1>1, <1>9 DEF Erasing
  <2>2. \A q : q \in DOMAIN events' /\ events'[q].id = id <=> q \in DOMAIN events /\ events[q].id = id
    BY <1>4, <1>7, <1>8
  <2>3. \A q \in DOMAIN events : events[q].id = id => events'[q] = events[q]
    BY <1>7, <1>8
  <2> QED
    BY <2>1, <2>2, <2>3 DEF Replays
<1>11. ASSUME NEW x \in keep
       PROVE  Replays(Note(move[x], x[3]))'
  <2>1. PICK id : id = Note(move[x], x[3])
    OBVIOUS
  <2>2. /\ cur'[id] = [cur[x] EXCEPT !.scope = Household] /\ Replays(x) /\ cur[x] \in Rows
    BY <1>2, <1>9, <2>1 DEF Erasing
  <2>3. /\ cur'[id].seq = cur[x].seq /\ cur'[id].val = cur[x].val
        /\ cur'[id].removed = cur[x].removed /\ cur'[id].scope = Household
    BY <2>2 DEF Rows
  <2>4. ASSUME NEW q
        PROVE  q \in DOMAIN events' /\ events'[q].id = id <=> q \in DOMAIN events /\ events[q].id = x
    <3>1. ASSUME q \in DOMAIN events', events'[q].id = id
          PROVE  q \in DOMAIN events /\ events[q].id = x
      <4>1. q \in DOMAIN events /\ events[q].id \in stays \cup keep
        BY <1>7, <3>1
      <4>2. events[q].id \notin stays
        BY <1>4, <1>8, <2>1, <3>1
      <4>3. events'[q].id = Note(move[events[q].id], events[q].id[3]) /\ events[q].id \in keep
        BY <1>8, <3>1, <4>1, <4>2
      <4> QED
        BY <1>5, <2>1, <3>1, <4>1, <4>3
    <3>2. ASSUME q \in DOMAIN events, events[q].id = x
          PROVE  q \in DOMAIN events' /\ events'[q].id = id
      BY <1>4, <1>7, <1>8, <2>1, <3>2
    <3> QED
      BY <3>1, <3>2
  <2>5. \A q \in DOMAIN events : events[q].id = x =>
          /\ q \in DOMAIN events' /\ events'[q].scope = Household
          /\ events'[q].kind = events[q].kind /\ events'[q].new = events[q].new
    BY <1>4, <1>7, <1>8
  <2>6. Replays(id)'
    BY <2>2, <2>3, <2>4, <2>5 DEF Replays
  <2> QED
    BY <2>1, <2>6
<1>12. \A id \in DOMAIN cur' : Replays(id)'
  BY <1>6, <1>10, <1>11
<1>13. \A q \in DOMAIN events' : events'[q].id \in DOMAIN cur'
  BY <1>6, <1>7, <1>8
<1> QED
  BY <1>12, <1>13 DEF RowsReplay, Replays

\* The observations of the other subjects stay with their rows.
LEMMA EraseSeen ==
  ASSUME JournalInv, HistoryInv, NEW m, NEW stays, NEW keep, NEW move, Erasing(m, stays, keep, move),
         \A i \in DOMAIN snaps : SubjectOf[snaps[i].scope] # m => i \in DOMAIN snaps' /\ snaps'[i] = snaps[i],
         \A i \in DOMAIN snaps' : /\ i \in DOMAIN snaps /\ snaps'[i] = snaps[i]
                                  /\ SubjectOf[snaps[i].scope] # m
  PROVE  Seen' /\ NoStaleHeld'
<1>1. NoStaleHeld'
  BY DEF HistoryInv, NoStaleHeld, Later
<1>2. \A id \in stays : id \in DOMAIN cur /\ id[2] # m /\ id \in DOMAIN cur' /\ cur'[id] = cur[id]
  BY DEF Erasing
<1>3. ASSUME NEW i \in DOMAIN snaps', snaps'[i].status = "applied",
             NEW id \in DOMAIN RecsOf(snaps'[i])
      PROVE  id \in DOMAIN cur' /\ cur'[id].confAt >= snaps'[i].obs
  <2>1. i \in DOMAIN snaps /\ snaps'[i] = snaps[i] /\ SubjectOf[snaps[i].scope] # m
    OBVIOUS
  <2>2. id \in DOMAIN cur /\ cur[id].confAt >= snaps[i].obs
    BY <1>3, <2>1 DEF HistoryInv, Seen
  <2>3. /\ snaps[i].scope \in Scopes
        /\ snaps[i].recs \in UNION {[K -> Values] : K \in SUBSET Keys}
    BY <2>1 DEF JournalInv, Tables, Snaps
  <2>4. id[1] = "grade" /\ id[2] = SubjectOf[snaps[i].scope] /\ SubjectOf[snaps[i].scope] \in Members
    BY <1>3, <2>1, <2>3, RecsOfOK, JournalAssumption
  <2>5. id \in stays
    BY <2>1, <2>2, <2>4 DEF Erasing, Subjects
  <2> QED
    BY <1>2, <2>1, <2>2, <2>5
<1>4. ASSUME NEW id \in DOMAIN cur', id[1] = "grade", ~cur'[id].removed
      PROVE  Shown(cur[id], id)'
  <2>1. id \in stays
    BY <1>4 DEF Erasing, Note
  <2>2. id \in DOMAIN cur /\ id[2] # m /\ cur'[id] = cur[id]
    BY <1>2, <2>1
  <2>3. PICK i \in DOMAIN snaps : /\ snaps[i].status = "applied" /\ snaps[i].obs = cur[id].confAt
                                  /\ Shows(cur[id], id, snaps[i])
    BY <1>4, <2>2 DEF HistoryInv, Seen
  <2>4. snaps[i].scope = cur[id].scope /\ SubjectOf[cur[id].scope] = id[2]
    BY <1>4, <2>2, <2>3 DEF Shows, JournalInv, Tables, RowOK
  <2>5. i \in DOMAIN snaps' /\ snaps'[i] = snaps[i]
    BY <2>2, <2>4
  <2> QED
    BY <2>2, <2>3, <2>5 DEF Shown
<1> QED
  BY <1>1, <1>3, <1>4 DEF Seen, Shown

\* A plan of another transaction is about another subject and by another author.
LEMMA ErasePlans ==
  ASSUME JournalInv, NEW p \in Procs, Erase(p), NEW q \in Procs \ {p}, Writing(txs[q])
  PROVE  /\ txs[q].subj # txs[p].subj /\ txs[q].subj \in Subjects
         /\ txs[q].op = "note" => txs[q].author # txs[p].subj
<1>1. {SubjectLock(txs[p].subj), AuthorLock(txs[p].subj)} \subseteq txs[p].held
  BY DEF JournalInv, TxLocks, Erase, Ready
<1>2. txs[p].held \cap txs[q].held = {} /\ InFlight(txs[q]) /\ TxLocks(txs[q])
  BY DEF JournalInv, Exclusive
<1>3. /\ SubjectLock(txs[q].subj) \in txs[q].held /\ txs[q].subj \in Subjects
      /\ txs[q].op = "note" => AuthorLock(txs[q].author) \in txs[q].held
  BY <1>2 DEF TxLocks, InFlight, Subjects
<1> QED
  BY <1>1, <1>2, <1>3

LEMMA EraseRows ==
  ASSUME JournalInv, NEW p \in Procs, Erase(p), NEW q \in Procs \ {p}, Writing(txs[q]),
         NEW id, Mine(txs[q], id)
  PROVE  RowKept(id)
<1> DEFINE m == txs[p].subj
<1>1. PICK stays, keep, move : Erasing(m, stays, keep, move)
  BY EraseTables
<1>2. id[2] \in Subjects \ {m} /\ (id[1] = "note" => id[3] # m)
  BY ErasePlans DEF Mine
<1>3. id[2] \notin Pseudonyms
  BY <1>2, JournalAssumption DEF Subjects
<1>4. id \in DOMAIN cur => id \in stays /\ id \in DOMAIN cur' /\ cur'[id] = cur[id]
  BY <1>1, <1>2 DEF Erasing
<1>5. id \in DOMAIN cur' => id \in DOMAIN cur
  BY <1>1, <1>3 DEF Erasing, Note
<1> QED
  BY <1>4, <1>5 DEF RowKept

LEMMA EraseHistory ==
  ASSUME JournalInv, HistoryInv, NEW p \in Procs, Erase(p)
  PROVE  HistoryInv'
<1> DEFINE m == txs[p].subj
<1>1. /\ \A i \in DOMAIN snaps : SubjectOf[snaps[i].scope] # m => i \in DOMAIN snaps' /\ snaps'[i] = snaps[i]
      /\ \A i \in DOMAIN snaps' : /\ i \in DOMAIN snaps /\ snaps'[i] = snaps[i]
                                  /\ SubjectOf[snaps[i].scope] # m
      /\ \E stays, keep, move : Erasing(m, stays, keep, move)
  BY EraseTables
<1>2. PICK stays, keep, move : Erasing(m, stays, keep, move)
  BY <1>1
<1>3. RowsReplay'
  BY <1>2, EraseReplay DEF JournalInv, HistoryInv
<1>4. Seen' /\ NoStaleHeld'
  BY <1>1, <1>2, EraseSeen
<1>5. ASSUME NEW q \in Procs \ {p}
      PROVE  PlanOK(txs[q])'
  <2>1. txs'[q] = txs[q]
    BY DEF Erase, Finish, JournalInv
  <2>2. Writing(txs[q]) => \A id : Mine(txs[q], id) => RowKept(id)
    BY EraseRows
  <2>3. ASSUME Writing(txs[q]), txs[q].op = "confirm"
        PROVE  SnapKept(txs[q].id)
    <3>1. /\ SameSnap(snaps[txs[q].id], txs[q].snap) /\ SubjectOf[txs[q].snap.scope] = txs[q].subj
      BY <2>3 DEF JournalInv, HistoryInv, PlanOK, InFlight
    <3>2. SubjectOf[snaps[txs[q].id].scope] # m
      BY <2>3, <3>1, ErasePlans DEF SameSnap
    <3> QED
      BY <1>1, <3>2 DEF SnapKept, SameSnap
  <2> QED
    BY <2>1, <2>2, <2>3, PlanKept DEF JournalInv, HistoryInv
<1>6. PlanOK(txs[p])'
  <2>1. txs'[p] = Idle
    BY DEF Erase, Finish, JournalInv
  <2> QED
    BY <2>1 DEF Idle, PlanOK, Writing
<1>7. begun' = begun
  BY DEF Erase
<1> QED
  BY <1>3, <1>4, <1>5, <1>6, <1>7 DEF HistoryInv

-----------------------------------------------------------------------------
(* The history theorem.                                                     *)

LEMMA NextHistory == JournalInv /\ HistoryInv /\ [Next]_vars => HistoryInv'
<1> SUFFICES ASSUME JournalInv, HistoryInv, [Next]_vars PROVE HistoryInv'
  OBVIOUS
<1>1. CASE UNCHANGED vars
  <2>1. UNCHANGED <<cur, events, snaps, txs, begun>>
    BY <1>1 DEF vars
  <2>2. BegunOK' /\ \A id \in DOMAIN cur : RowKept(id) /\ cur'[id].seq = cur[id].seq
    BY <2>1 DEF BegunOK, HistoryInv, RowKept
  <2> QED
    BY <2>1, <2>2, VerdictsHistory
<1>2. ASSUME NEW p \in Procs, \/ BeginApply(p) \/ BeginConfirm(p) \/ BeginNote(p) \/ BeginErase(p)
                              \/ Acquire(p) \/ Authored(p)
      PROVE  HistoryInv'
  BY <1>2, BeginsHistory, LockHistory
<1>3. ASSUME NEW p \in Procs, ApplyPlan(p) \/ ConfirmPlan(p) \/ NotePlan(p) \/ Insert(p)
      PROVE  HistoryInv'
  BY <1>3, PlansHistory, NoteHistory, InsertHistory
<1>4. ASSUME NEW p \in Procs, Rollback(p)
      PROVE  HistoryInv'
  BY <1>4, FinishHistory DEF Rollback, store
<1>5. ASSUME NEW p \in Procs, Commit(p) \/ Erase(p)
      PROVE  HistoryInv'
  BY <1>5, CommitHistory, EraseHistory
<1>6. CASE DiscardHeld \/ Reload \/ RescanRead \/ JudgeCurrent \/ JudgeEvents
  BY <1>6, DiscardHistory, RescanHistory
<1> QED
  BY <1>1, <1>2, <1>3, <1>4, <1>5, <1>6 DEF Next

\* The rows, the events and the plans in flight keep fitting together, for
\* every step of every behaviour of the journal.
THEOREM HistoryInvHolds == Spec => []HistoryInv
<1>1. Init => HistoryInv
  <2> SUFFICES ASSUME Init PROVE HistoryInv
    OBVIOUS
  <2>1. DOMAIN cur = {} /\ DOMAIN events = {} /\ DOMAIN snaps = {}
    BY DEF Init
  <2>2. RowsReplay /\ Seen /\ NoStaleHeld
    BY <2>1 DEF RowsReplay, Seen, NoStaleHeld
  <2>3. \A p \in Procs : txs[p] = Idle
    BY DEF Init
  <2>4. \A p \in Procs : PlanOK(txs[p])
    BY <2>3 DEF Idle, PlanOK, Writing
  <2>5. begun \in [tx : 0..MaxTx, aux : 0..MaxAux]
    BY JournalAssumption DEF Init
  <2> QED
    BY <2>2, <2>4, <2>5 DEF HistoryInv
<1> QED
  BY <1>1, NextHistory, JournalInvHolds, PTL DEF Spec

\* Whatever the interleaving of snapshots, confirms, notes, erasures, rescans
\* and reloads, the current rows are what the event history says, the newest
\* observation wins, nothing held is stale, and no two transactions block one
\* another.
THEOREM JournalIsConsistent == Spec => []JournalConsistent
<1>1. JournalInv /\ HistoryInv => TypeOK /\ RowsReplay /\ NewestWins /\ NoStaleHeld
  <2> SUFFICES ASSUME JournalInv, HistoryInv PROVE TypeOK /\ RowsReplay /\ NewestWins /\ NoStaleHeld
    OBVIOUS
  <2>1. RowsReplay /\ NoStaleHeld /\ Seen /\ Tables
    BY DEF JournalInv, HistoryInv
  <2>2. TypeOK
    <3>1. \A id \in DOMAIN cur : cur[id].seq \in DOMAIN events /\ cur[id].ver \in Versions
      BY <2>1 DEF RowsReplay, Tables, RowOK, Rows
    <3>2. \A i \in DOMAIN snaps : i \in SnapIds /\ snaps[i].status \in {"applied", "late", "held", "discarded"}
      BY <2>1 DEF Tables, Snaps
    <3>3. begun \in [tx : 0..MaxTx, aux : 0..MaxAux]
      BY DEF HistoryInv
    <3> QED
      BY <2>1, <3>1, <3>2, <3>3 DEF TypeOK, Tables
  <2>3. NewestWins
    <3> SUFFICES ASSUME NEW id \in DOMAIN cur, id[1] = "grade"
                 PROVE  LET saw == {i \in DOMAIN snaps :
                                      snaps[i].status = "applied" /\ id \in DOMAIN RecsOf(snaps[i])}
                        IN /\ \A i \in saw : cur[id].confAt >= snaps[i].obs
                           /\ ~cur[id].removed =>
                                \E i \in saw : /\ snaps[i].obs = cur[id].confAt
                                               /\ snaps[i].scope = cur[id].scope
                                               /\ snaps[i].recs[id[3]] = cur[id].val
      BY DEF NewestWins
    <3>1. \A i \in DOMAIN snaps : snaps[i].status = "applied" /\ id \in DOMAIN RecsOf(snaps[i])
                                    => cur[id].confAt >= snaps[i].obs
      BY <2>1 DEF Seen
    <3>2. ASSUME ~cur[id].removed
          PROVE  \E i \in DOMAIN snaps :
                   /\ snaps[i].status = "applied" /\ id \in DOMAIN RecsOf(snaps[i])
                   /\ snaps[i].obs = cur[id].confAt /\ snaps[i].scope = cur[id].scope
                   /\ snaps[i].recs[id[3]] = cur[id].val
      <4>1. PICK i \in DOMAIN snaps : /\ snaps[i].status = "applied" /\ snaps[i].obs = cur[id].confAt
                                      /\ Shows(cur[id], id, snaps[i])
        BY <2>1, <3>2 DEF Seen
      <4> QED
        BY <4>1 DEF Shows
    <3> QED
      BY <3>1, <3>2
  <2> QED
    BY <2>1, <2>2, <2>3
<1>2. TypeOK /\ RowsReplay /\ NewestWins /\ NoStaleHeld /\ NoLockCycle => JournalConsistent
  BY DEF JournalConsistent
<1> QED
  BY <1>1, <1>2, HistoryInvHolds, JournalInvHolds, NoDeadlock, PTL

-----------------------------------------------------------------------------
(* The guard against mass removals.                                         *)

LiveIn(sc) == {id \in DOMAIN cur : ~cur[id].removed /\ cur[id].scope = sc}
RemovedIds(tx) == {w.id : w \in {v \in tx.write : v.row.removed}}

\* What an apply will remove is what the guard let through: live rows of the
\* snapshot's scope, no more of them than the guard's share.
GuardOK(tx) ==
  Writing(tx) =>
    /\ \A w \in tx.write : w.row.removed => tx.op # "note" /\ w.id \in LiveIn(tx.snap.scope)
    /\ tx.op = "apply" => ~Hold(Cardinality(LiveIn(tx.snap.scope)), Cardinality(RemovedIds(tx)))
GuardInv == \A p \in Procs : GuardOK(txs[p])

LEMMA HoldMonotone ==
  ASSUME NEW live \in Nat, NEW r \in Nat, NEW s \in Nat, r <= s, s <= live, Hold(live, r)
  PROVE  Hold(live, s)
<1>1. PICK k : k = MaxPercent * live
  OBVIOUS
<1>2. k \in Int
  BY <1>1, JournalAssumption
<1>3. r > 0 /\ live > MinKeys /\ (r = live \/ r * 100 > k)
  BY <1>1 DEF Hold
<1>4. s > 0 /\ (s = live \/ s * 100 > k)
  BY <1>2, <1>3
<1> QED
  BY <1>1, <1>3, <1>4 DEF Hold

LEMMA DiffRemoves ==
  ASSUME NEW sc, NEW obs, NEW complete \in BOOLEAN, NEW recs
  PROVE  /\ \A w \in Diff(sc, obs, complete, recs).write : w.kind # "removed"
         /\ \A w \in Diff(sc, obs, complete, recs).remove : w.kind = "removed" /\ w.id \in LiveIn(sc)
         /\ \A w, v \in Diff(sc, obs, complete, recs).remove : w.id = v.id => w = v
         /\ Diff(sc, obs, complete, recs).live = Cardinality(LiveIn(sc))
<1>1. \A w \in Diff(sc, obs, complete, recs).write : w.kind # "removed"
  <2>1. \A w \in Diff(sc, obs, complete, recs).write : \E id : w.kind = KindOf(id)
    BY DEF Diff
  <2> QED
    BY <2>1 DEF KindOf
<1>2. \A w \in Diff(sc, obs, complete, recs).remove :
        \E id \in LiveIn(sc) : w = [id |-> id, kind |-> "removed", scope |-> sc, val |-> cur[id].val]
  BY DEF Diff, LiveIn
<1>3. Diff(sc, obs, complete, recs).live = Cardinality(LiveIn(sc))
  BY DEF Diff, LiveIn
<1> QED
  BY <1>1, <1>2, <1>3

\* The rows a plan removes, counted by their identities.
LEMMA RemovedCount ==
  ASSUME NEW R, IsFiniteSet(R), \A w, v \in R : w.id = v.id => w = v
  PROVE  IsFiniteSet({w.id : w \in R}) /\ Cardinality({w.id : w \in R}) = Cardinality(R)
<1> DEFINE T == {w.id : w \in R}
           f == [w \in R |-> w.id]
<1>1. f \in Bijection(R, T)
  <2>1. f \in [R -> T] /\ \A w, v \in R : f[w] = f[v] => w = v
    OBVIOUS
  <2>2. \A t \in T : \E w \in R : f[w] = t
    OBVIOUS
  <2> HIDE DEF f, T
  <2> QED
    BY <2>1, <2>2 DEF Bijection, Injection, Surjection, IsInjective
<1> HIDE DEF f, T
<1>2. ExistsBijection(R, T)
  BY <1>1 DEF ExistsBijection
<1>3. IsFiniteSet(T) /\ Cardinality(T) = Cardinality(R)
  BY <1>2, FS_Bijection
<1> QED
  BY <1>3 DEF T

LEMMA GuardPlanned ==
  ASSUME JournalInv, NEW p \in Procs, NEW id \in SnapIds, NEW s, NEW confirm \in BOOLEAN,
         FromOrdering(p, id, s, confirm), ~Finish(p),
         txs[p].op \in {"apply", "confirm"}, txs[p].op = "apply" => ~confirm,
         s.scope \in Scopes, s.complete \in BOOLEAN,
         s.recs \in UNION {[K -> Values] : K \in SUBSET Keys}
  PROVE  GuardOK(txs[p])'
<1> DEFINE plan == Diff(s.scope, s.obs, s.complete, RecsOf(s))
<1>1. /\ cur' = cur /\ ~Guarded(confirm, plan)
      /\ txs' = [txs EXCEPT ![p] =
           [@ EXCEPT !.phase = "insert", !.snap = s, !.obs = s.obs, !.confirm = plan.confirm,
                     !.write = Built(plan.write \cup plan.remove, VersionOf[p], s.obs, id)]]
  BY DEF FromOrdering
<1>2. PICK recs : recs = RecsOf(s)
  OBVIOUS
<1>3. PICK W, R : /\ W = Diff(s.scope, s.obs, s.complete, recs).write
                  /\ R = Diff(s.scope, s.obs, s.complete, recs).remove
  OBVIOUS
<1>4. PICK B : B = Built(W \cup R, VersionOf[p], s.obs, id)
  OBVIOUS
<1>5. DOMAIN txs[p] = TxFields
  BY DEF JournalInv, TxLocks
<1>6. /\ W = plan.write /\ R = plan.remove /\ plan.live = Cardinality(LiveIn(s.scope))
  BY <1>2, <1>3, DiffRemoves
<1>7. B = Built(plan.write \cup plan.remove, VersionOf[p], s.obs, id)
  BY <1>4, <1>6
<1>8. ~confirm => ~Hold(Cardinality(LiveIn(s.scope)), Cardinality(R))
  BY <1>1, <1>6 DEF Guarded
<1> HIDE DEF plan
<1>9. /\ txs'[p].phase = "insert" /\ txs'[p].snap = s /\ txs'[p].write = B
      /\ txs'[p].op = txs[p].op
  BY <1>1, <1>5, <1>7 DEF JournalInv, TxFields
<1>10. /\ \A w \in W : w.kind # "removed"
       /\ \A w \in R : w.kind = "removed" /\ w.id \in LiveIn(s.scope)
       /\ \A w, v \in R : w.id = v.id => w = v
  <2> DEFINE D == Diff(s.scope, s.obs, s.complete, recs)
  <2>1. /\ \A w \in D.write : w.kind # "removed"
        /\ \A w \in D.remove : w.kind = "removed" /\ w.id \in LiveIn(s.scope)
        /\ \A w, v \in D.remove : w.id = v.id => w = v
    BY DiffRemoves
  <2>2. W = D.write /\ R = D.remove
    BY <1>3
  <2> HIDE DEF D
  <2> QED
    BY <2>1, <2>2
<1>11. ASSUME NEW b \in B, b.row.removed
       PROVE  b.id \in {w.id : w \in R}
  <2>1. PICK w \in W \cup R : b = [id |-> w.id, event |-> EventOf(w, VersionOf[p]),
                                   row |-> RowOf(w, VersionOf[p], s.obs, id)]
    BY <1>4 DEF Built
  <2>2. b.id = w.id /\ (b.row.removed <=> w.kind = "removed")
    BY <2>1 DEF RowOf
  <2> QED
    BY <1>10, <1>11, <2>2
<1>12. PICK rid, bid, live : /\ rid = {w.id : w \in R} /\ live = LiveIn(s.scope)
                             /\ bid = {w.id : w \in {v \in B : v.row.removed}}
  OBVIOUS
<1>13. IsFiniteSet(live) /\ IsFiniteSet(rid) /\ Cardinality(rid) = Cardinality(R)
  <2>1. Tables /\ DOMAIN recs \subseteq Ids
    BY <1>2, RecsOfOK DEF JournalInv
  <2>2. IsFiniteSet(R)
    BY <1>3, <2>1, DiffFinite
  <2>3. IsFiniteSet(live)
    BY <1>12, <2>1, IdsFinite DEF LiveIn, Tables
  <2> QED
    BY <1>10, <1>12, <2>2, <2>3, RemovedCount
<1>14. bid \subseteq rid /\ rid \subseteq live
  BY <1>10, <1>11, <1>12
<1>15. /\ IsFiniteSet(bid) /\ Cardinality(bid) <= Cardinality(rid) /\ Cardinality(rid) <= Cardinality(live)
  BY <1>13, <1>14, FS_Subset
<1>16. ~confirm => ~Hold(Cardinality(live), Cardinality(bid))
  <2>1. Cardinality(bid) \in Nat /\ Cardinality(rid) \in Nat /\ Cardinality(live) \in Nat
    BY <1>13, <1>15, FS_CardinalityType
  <2> QED
    BY <1>8, <1>12, <1>13, <1>15, <2>1, HoldMonotone
<1>17. LiveIn(s.scope)' = live /\ LiveIn(txs[p].snap.scope)' = live
  BY <1>1, <1>9, <1>12 DEF LiveIn
<1>18. RemovedIds(txs[p])' = bid
  BY <1>9, <1>12 DEF RemovedIds
<1>19. \A w \in B : w.row.removed => w.id \in live
  BY <1>11, <1>12, <1>14
<1> QED
  BY <1>9, <1>16, <1>17, <1>18, <1>19 DEF GuardOK, Writing

LEMMA GuardNote ==
  ASSUME JournalInv, NEW p \in Procs, NotePlan(p), ~Finish(p)
  PROVE  GuardOK(txs[p])'
<1> DEFINE t == txs[p]
           id == Note(t.subj, t.author)
           recs == [x \in {id} |-> t.val]
           W == Diff(t.subj, t.obs, FALSE, recs).write
           B == Built(W, VersionOf[p], t.obs, None)
<1>1. txs' = [txs EXCEPT ![p] = [@ EXCEPT !.phase = "insert", !.ros = {}, !.write = B]]
  BY DEF NotePlan
<1>2. DOMAIN t = TxFields /\ t.op = "note"
  BY DEF JournalInv, TxLocks, NotePlan, Ready
<1>3. \A w \in W : w.kind # "removed"
  <2>1. PICK sc, obs, rs : sc = t.subj /\ obs = t.obs /\ rs = recs
    OBVIOUS
  <2>2. \A w \in Diff(sc, obs, FALSE, rs).write : w.kind # "removed"
    BY DiffRemoves
  <2> QED
    BY <2>1, <2>2
<1> HIDE DEF W
<1>4. ASSUME NEW b \in B
      PROVE  ~b.row.removed
  <2>1. PICK w \in W : b.row = RowOf(w, VersionOf[p], t.obs, None)
    BY DEF Built
  <2>2. b.row.removed = (w.kind = "removed")
    BY <2>1 DEF RowOf
  <2> QED
    BY <1>3, <2>2
<1> HIDE DEF B
<1>5. txs'[p].write = B /\ txs'[p].op = "note"
  BY <1>1, <1>2 DEF JournalInv, TxFields
<1> QED
  BY <1>4, <1>5 DEF GuardOK

LEMMA GuardInsert ==
  ASSUME JournalInv, NEW p \in Procs, Insert(p), GuardOK(txs[p])
  PROVE  GuardOK(txs[p])'
<1> DEFINE t == txs[p]
<1>1. PICK W, S : W = t.write /\ S = nextSeq..(nextSeq + Cardinality(W) - 1)
  OBVIOUS
<1>2. PICK num \in Bijection(W, S) :
        /\ txs' = [txs EXCEPT ![p] =
             [@ EXCEPT !.phase = "commit", !.write = {[w EXCEPT !.row.seq = num[w]] : w \in W},
                       !.held = txs[p].held \cup {l \in {EventsLock} : W # {}}]]
        /\ UNCHANGED cur
  BY <1>1 DEF Insert, Numbered, store
<1>3. PICK B : B = {[w EXCEPT !.row.seq = num[w]] : w \in W}
  OBVIOUS
<1>4. DOMAIN t = TxFields /\ Writing(t) /\ InFlight(t)
  BY DEF JournalInv, TxLocks, Insert, Writing
<1>5. txs'[p].write = B /\ txs'[p].op = t.op /\ txs'[p].snap = t.snap
  BY <1>2, <1>3, <1>4 DEF JournalInv, TxFields
<1>6. \A w \in W : DOMAIN w = {"id", "event", "row"} /\ w.row \in Rows
  BY <1>1, <1>4 DEF InFlight, RowOK
<1>7. ASSUME NEW w \in W
      PROVE  LET b == [w EXCEPT !.row.seq = num[w]]
             IN b.id = w.id /\ b.row.removed = w.row.removed
  BY <1>6 DEF Rows
<1>8. \A b \in B : \E w \in W : b.id = w.id /\ b.row.removed = w.row.removed
  BY <1>3, <1>7
<1>9. \A w \in W : \E b \in B : b.id = w.id /\ b.row.removed = w.row.removed
  <2>1. ASSUME NEW w \in W
        PROVE  \E b \in B : b.id = w.id /\ b.row.removed = w.row.removed
    <3> DEFINE b == [w EXCEPT !.row.seq = num[w]]
    <3>1. b \in B /\ b.id = w.id /\ b.row.removed = w.row.removed
      BY <1>3, <1>7
    <3> QED
      BY <3>1
  <2> QED
    BY <2>1
<1>10. {w.id : w \in {v \in B : v.row.removed}} = {w.id : w \in {v \in W : v.row.removed}}
  BY <1>8, <1>9
<1>11. RemovedIds(txs[p])' = RemovedIds(txs[p])
  BY <1>1, <1>5, <1>10 DEF RemovedIds
<1>12. LiveIn(txs[p].snap.scope)' = LiveIn(txs[p].snap.scope)
  BY <1>2, <1>5 DEF LiveIn
<1>13. \A b \in B : b.row.removed => t.op # "note" /\ b.id \in LiveIn(t.snap.scope)
  BY <1>1, <1>4, <1>8 DEF GuardOK
<1> QED
  BY <1>4, <1>5, <1>11, <1>12, <1>13 DEF GuardOK

\* The live rows of a scope are all of its subject.
LEMMA GuardKept ==
  ASSUME JournalInv, JournalInv', NEW q \in Procs, txs'[q] = txs[q], GuardOK(txs[q]),
         Writing(txs[q]) => \A id : Mine(txs[q], id) => RowKept(id)
  PROVE  GuardOK(txs[q])'
<1> DEFINE t == txs[q]
<1>1. CASE ~Writing(t)
  BY <1>1 DEF GuardOK, Writing
<1>2. CASE Writing(t) /\ t.op = "note"
  BY <1>2 DEF GuardOK, Writing
<1>3. CASE Writing(t) /\ t.op # "note"
  <2>1. t.snap.scope \in Scopes /\ SubjectOf[t.snap.scope] = t.subj
    BY <1>3 DEF JournalInv, InFlight
  <2>2. ASSUME NEW id, NEW r, id \in Ids, RowOK(id, r), r.scope = t.snap.scope
        PROVE  RowKept(id)
    <3>1. id[1] = "grade"
      BY <2>1, <2>2, IdKind, JournalAssumption DEF RowOK, Subjects
    <3>2. Mine(t, id)
      BY <1>3, <2>1, <2>2, <3>1 DEF Mine, RowOK
    <3> QED
      BY <1>3, <3>2
  <2>3. \A id \in DOMAIN cur : id \in Ids /\ RowOK(id, cur[id])
    BY DEF JournalInv, Tables
  <2>4. \A id \in DOMAIN cur' : id \in Ids /\ RowOK(id, cur'[id])
    BY DEF JournalInv, Tables, RowOK, Verdict
  <2>5. ASSUME NEW id
        PROVE  id \in LiveIn(t.snap.scope)' <=> id \in LiveIn(t.snap.scope)
    <3>1. id \in LiveIn(t.snap.scope)' => RowKept(id)
      BY <2>2, <2>4 DEF LiveIn
    <3>2. id \in LiveIn(t.snap.scope) => RowKept(id)
      BY <2>2, <2>3 DEF LiveIn
    <3> QED
      BY <3>1, <3>2 DEF LiveIn, RowKept
  <2>6. LiveIn(t.snap.scope)' = LiveIn(t.snap.scope)
    BY <2>5
  <2>7. RemovedIds(txs[q])' = RemovedIds(txs[q])
    BY DEF RemovedIds
  <2> QED
    BY <1>3, <2>6, <2>7 DEF GuardOK, Writing
<1> QED
  BY <1>1, <1>2, <1>3

\* The steps that leave every row's state alone.
LEMMA RowsStay ==
  ASSUME JournalInv, [Next]_vars, ~\E p \in Procs : Commit(p) \/ Erase(p), NEW id
  PROVE  RowKept(id)
<1>1. CASE JudgeCurrent
  <2>1. DOMAIN cur' = DOMAIN cur
    BY <1>1 DEF JudgeCurrent
  <2> QED
    BY <1>1, <2>1, JudgeCurrentRows DEF RowKept
<1>2. CASE UNCHANGED cur
  BY <1>2 DEF RowKept
<1>3. ASSUME NEW p \in Procs, BeginApply(p) \/ BeginConfirm(p) \/ BeginNote(p) \/ BeginErase(p)
      PROVE  UNCHANGED cur
  BY <1>3 DEF BeginApply, BeginConfirm, BeginNote, BeginErase, Begin, store
<1>4. ASSUME NEW p \in Procs, Acquire(p) \/ Authored(p) \/ ApplyPlan(p) \/ ConfirmPlan(p) \/ NotePlan(p)
      PROVE  UNCHANGED cur
  BY <1>4 DEF Acquire, Authored, ApplyPlan, ConfirmPlan, NotePlan, FromOrdering, store
<1>5. ASSUME NEW p \in Procs, Insert(p) \/ Rollback(p)
      PROVE  UNCHANGED cur
  BY <1>5 DEF Insert, Numbered, Rollback, store
<1>6. DiscardHeld \/ Reload \/ RescanRead \/ JudgeEvents \/ UNCHANGED vars => UNCHANGED cur
  BY DEF DiscardHeld, Reload, RescanRead, JudgeEvents, store, vars
<1> QED
  BY <1>1, <1>2, <1>3, <1>4, <1>5, <1>6 DEF Next

\* A step of p, for the other transactions' plans.
LEMMA GuardStep ==
  ASSUME JournalInv, HistoryInv, GuardInv, [Next]_vars, NEW p \in Procs,
         \A q \in Procs \ {p} : txs'[q] = txs[q], GuardOK(txs[p])',
         Commit(p) \/ Erase(p) \/ ~\E q \in Procs : Commit(q) \/ Erase(q)
  PROVE  GuardInv'
<1>1. JournalInv'
  BY NextInv
<1>2. ASSUME NEW q \in Procs \ {p}, Writing(txs[q]), NEW id, Mine(txs[q], id)
      PROVE  RowKept(id)
  <2>1. CASE Commit(p)
    <3>1. CASE txs[p].op = "apply" /\ txs[p].id \in DOMAIN snaps
      BY <2>1, <3>1 DEF Commit, store, RowKept
    <3>2. CASE ~(txs[p].op = "apply" /\ txs[p].id \in DOMAIN snaps)
      <4>1. Committed(txs[p].write, txs[p].confirm, txs[p].obs)
        BY <2>1, <3>2, CommitTables
      <4> QED
        BY <1>2, <2>1, <4>1, CommitRows
    <3> QED
      BY <3>1, <3>2
  <2>2. CASE Erase(p)
    BY <1>2, <2>2, EraseRows
  <2> QED
    BY <2>1, <2>2, RowsStay
<1>3. \A q \in Procs \ {p} : GuardOK(txs[q])'
  BY <1>1, <1>2, GuardKept DEF GuardInv
<1> QED
  BY <1>3 DEF GuardInv

LEMMA NextGuard == JournalInv /\ HistoryInv /\ GuardInv /\ [Next]_vars => GuardInv'
<1> SUFFICES ASSUME JournalInv, HistoryInv, GuardInv, [Next]_vars PROVE GuardInv'
  OBVIOUS
<1>1. CASE UNCHANGED txs /\ ~\E p \in Procs : Commit(p) \/ Erase(p)
  <2>1. JournalInv'
    BY NextInv
  <2>2. ASSUME NEW q \in Procs PROVE GuardOK(txs[q])'
    BY <1>1, <2>1, RowsStay, GuardKept DEF GuardInv
  <2> QED
    BY <2>2 DEF GuardInv
<1>2. ASSUME NEW p \in Procs, \A q \in Procs \ {p} : txs'[q] = txs[q], txs'[p].phase = "locks",
             Commit(p) \/ Erase(p) \/ ~\E q \in Procs : Commit(q) \/ Erase(q)
      PROVE  GuardInv'
  <2>1. GuardOK(txs[p])'
    BY <1>2 DEF GuardOK, Writing
  <2> QED
    BY <1>2, <2>1, GuardStep
<1>3. ASSUME NEW p \in Procs, Finish(p), Commit(p) \/ Erase(p) \/ ~\E q \in Procs : Commit(q) \/ Erase(q)
      PROVE  GuardInv'
  <2>1. txs'[p].phase = "locks" /\ \A q \in Procs \ {p} : txs'[q] = txs[q]
    BY <1>3 DEF Finish, JournalInv, Idle
  <2> QED
    BY <1>2, <1>3, <2>1
<1>4. CASE \E p \in Procs : Commit(p) \/ Erase(p)
  BY <1>3, <1>4 DEF Commit, Erase
<1>5. CASE ~\E p \in Procs : Commit(p) \/ Erase(p)
  <2>1. ASSUME NEW p \in Procs, BeginApply(p) \/ BeginConfirm(p) \/ BeginNote(p) \/ BeginErase(p)
        PROVE  GuardInv'
    <3>1. PICK tx : Begin(p, tx) /\ tx.phase = "locks"
      BY <2>1, BeginsLocks
    <3>2. txs'[p] = tx /\ \A q \in Procs \ {p} : txs'[q] = txs[q]
      BY <3>1 DEF Begin, JournalInv
    <3> QED
      BY <1>2, <1>5, <3>1, <3>2
  <2>2. ASSUME NEW p \in Procs, Acquire(p) \/ Authored(p)
        PROVE  GuardInv'
    <3>1. txs'[p].phase = "locks" /\ \A q \in Procs \ {p} : txs'[q] = txs[q]
      BY <2>2, LockPhase
    <3> QED
      BY <1>2, <1>5, <3>1
  <2>3. ASSUME NEW p \in Procs, NEW tx, txs' = [txs EXCEPT ![p] = tx], GuardOK(txs[p])'
        PROVE  GuardInv'
    <3>1. \A q \in Procs \ {p} : txs'[q] = txs[q]
      BY <2>3 DEF JournalInv
    <3> QED
      BY <1>5, <2>3, <3>1, GuardStep
  <2>4. ASSUME NEW p \in Procs, ApplyPlan(p)
        PROVE  GuardInv'
    <3>1. CASE Finish(p)
      BY <1>3, <1>5, <3>1
    <3>2. CASE ~Finish(p)
      <4>1. FromOrdering(p, txs[p].id, txs[p].snap, FALSE)
        BY <2>4, <3>2 DEF ApplyPlan
      <4>2. txs[p].op = "apply" /\ txs[p].id \in SnapIds /\ txs[p].snap \in Menu
        BY <2>4 DEF JournalInv, TxLocks, ApplyPlan, Ready
      <4>3. PICK i, s : i = txs[p].id /\ s = txs[p].snap
        OBVIOUS
      <4>4. /\ s.scope \in Scopes /\ s.complete \in BOOLEAN
            /\ s.recs \in UNION {[K -> Values] : K \in SUBSET Keys}
        BY <4>2, <4>3, JournalAssumption
      <4>5. GuardOK(txs[p])'
        BY <3>2, <4>1, <4>2, <4>3, <4>4, GuardPlanned
      <4>6. \E tx : txs' = [txs EXCEPT ![p] = tx]
        BY <3>2, <4>1 DEF FromOrdering
      <4> QED
        BY <2>3, <4>5, <4>6
    <3> QED
      BY <3>1, <3>2
  <2>5. ASSUME NEW p \in Procs, ConfirmPlan(p)
        PROVE  GuardInv'
    <3>1. CASE Finish(p)
      BY <1>3, <1>5, <3>1
    <3>2. CASE ~Finish(p)
      <4>1. FromOrdering(p, txs[p].id, snaps[txs[p].id], TRUE) /\ txs[p].id \in DOMAIN snaps
        BY <2>5, <3>2 DEF ConfirmPlan
      <4>2. txs[p].op = "confirm" /\ txs[p].id \in SnapIds
        BY <2>5 DEF JournalInv, TxLocks, ConfirmPlan, Ready
      <4>3. PICK i, s : i = txs[p].id /\ s = snaps[txs[p].id]
        OBVIOUS
      <4>4. s \in Snaps
        BY <4>1, <4>3 DEF JournalInv, Tables
      <4>5. /\ s.scope \in Scopes /\ s.complete \in BOOLEAN
            /\ s.recs \in UNION {[K -> Values] : K \in SUBSET Keys}
        BY <4>4 DEF Snaps
      <4>6. GuardOK(txs[p])'
        BY <3>2, <4>1, <4>2, <4>3, <4>5, GuardPlanned
      <4>7. \E tx : txs' = [txs EXCEPT ![p] = tx]
        BY <3>2, <4>1 DEF FromOrdering
      <4> QED
        BY <2>3, <4>6, <4>7
    <3> QED
      BY <3>1, <3>2
  <2>6. ASSUME NEW p \in Procs, NotePlan(p)
        PROVE  GuardInv'
    <3>1. CASE Finish(p)
      BY <1>3, <1>5, <3>1
    <3>2. CASE ~Finish(p)
      <4>1. GuardOK(txs[p])'
        BY <2>6, <3>2, GuardNote
      <4>2. \E tx : txs' = [txs EXCEPT ![p] = tx]
        BY <2>6, <3>2 DEF NotePlan
      <4> QED
        BY <2>3, <4>1, <4>2
    <3> QED
      BY <3>1, <3>2
  <2>7. ASSUME NEW p \in Procs, Insert(p)
        PROVE  GuardInv'
    <3>1. GuardOK(txs[p])'
      BY <2>7, GuardInsert DEF GuardInv
    <3>2. \E tx : txs' = [txs EXCEPT ![p] = tx]
      BY <2>7 DEF Insert, Numbered
    <3> QED
      BY <2>3, <3>1, <3>2
  <2>8. ASSUME NEW p \in Procs, Rollback(p)
        PROVE  GuardInv'
    BY <1>3, <1>5, <2>8 DEF Rollback
  <2>9. DiscardHeld \/ Reload \/ RescanRead \/ JudgeCurrent \/ JudgeEvents \/ UNCHANGED vars => UNCHANGED txs
    BY DEF DiscardHeld, Reload, RescanRead, JudgeCurrent, JudgeEvents, vars
  <2> QED
    BY <1>1, <1>5, <2>1, <2>2, <2>4, <2>5, <2>6, <2>7, <2>8, <2>9 DEF Next
<1> QED
  BY <1>4, <1>5

\* More than the guard's share of a scope's live rows is removed only by an
\* operator's confirmation: no interleaving between the plan and the commit
\* changes what the guard counted.
THEOREM GuardHolds == Spec => MassRemovalConfirmed
<1> DEFINE Body == \A sc \in Scopes :
       LET live == {id \in DOMAIN cur : ~cur[id].removed /\ cur[id].scope = sc}
           gone == {id \in live : id \in DOMAIN cur' /\ cur'[id].removed}
       IN Hold(Cardinality(live), Cardinality(gone)) =>
            \E p \in Procs : txs[p].op = "confirm" /\ txs'[p].op = "idle"
<1>1. JournalInv /\ HistoryInv /\ GuardInv /\ [Next]_vars => [Body]_vars
  <2> SUFFICES ASSUME JournalInv, HistoryInv, GuardInv, [Next]_vars, NEW sc \in Scopes,
                      ~\E p \in Procs : txs[p].op = "confirm" /\ txs'[p].op = "idle"
               PROVE  ~Hold(Cardinality(LiveIn(sc)),
                            Cardinality({id \in LiveIn(sc) : id \in DOMAIN cur' /\ cur'[id].removed}))
    BY DEF LiveIn
  <2>1. PICK live, gone : /\ live = LiveIn(sc)
                          /\ gone = {id \in live : id \in DOMAIN cur' /\ cur'[id].removed}
    OBVIOUS
  <2>2. IsFiniteSet(live) /\ Cardinality(live) \in Nat
    BY <2>1, IdsFinite, FS_CardinalityType DEF LiveIn, JournalInv, Tables
  <2>3. CASE gone = {}
    BY <2>1, <2>3, FS_EmptySet DEF Hold
  <2>4. CASE gone # {}
    <3>1. \A id \in gone : id \in live /\ ~RowKept(id)
      BY <2>1 DEF LiveIn, RowKept
    <3>2. PICK p \in Procs : Commit(p) \/ Erase(p)
      BY <2>4, <3>1, RowsStay
    <3>3. ~Erase(p)
      <4> SUFFICES ASSUME Erase(p) PROVE FALSE
        OBVIOUS
      <4>1. PICK stays, keep, move : Erasing(txs[p].subj, stays, keep, move)
        BY EraseTables
      <4>2. PICK id \in gone : TRUE
        BY <2>4
      <4>3. id \in DOMAIN cur /\ id \in DOMAIN cur' /\ ~RowKept(id)
        BY <2>1, <3>1 DEF LiveIn
      <4>4. id \notin stays
        BY <4>1, <4>3 DEF Erasing, RowKept
      <4>5. id[2] \in Pseudonyms /\ id[2] \notin DOMAIN kept
        BY <4>1, <4>3, <4>4 DEF Erasing, Note
      <4> QED
        BY <4>3, <4>5 DEF JournalInv, KeptHasReaders
    <3>4. ~(txs[p].op = "apply" /\ txs[p].id \in DOMAIN snaps)
      BY <2>4, <3>1, <3>2, <3>3 DEF Commit, store, RowKept
    <3>5. Committed(txs[p].write, txs[p].confirm, txs[p].obs)
      BY <3>2, <3>3, <3>4, CommitTables
    <3>6. Writing(txs[p]) /\ InFlight(txs[p]) /\ GuardOK(txs[p]) /\ txs'[p].op = "idle"
      <4>1. Commit(p)
        BY <3>2, <3>3
      <4>2. Writing(txs[p])
        BY <4>1 DEF Commit, Writing
      <4>3. InFlight(txs[p]) /\ GuardOK(txs[p])
        BY <4>2 DEF JournalInv, GuardInv
      <4>4. txs' = [txs EXCEPT ![p] = Idle]
        BY <4>1 DEF Commit, Finish
      <4>5. txs'[p] = Idle
        BY <4>4 DEF JournalInv
      <4> QED
        BY <4>2, <4>3, <4>5 DEF Idle
    <3>7. ASSUME NEW id \in gone
          PROVE  id \in RemovedIds(txs[p]) /\ txs[p].op # "note" /\ txs[p].snap.scope = sc
      <4>1. id \in DOMAIN cur /\ ~cur[id].removed /\ cur[id].scope = sc /\ cur'[id].removed
        BY <2>1 DEF LiveIn
      <4>2. PICK w \in txs[p].write : w.id = id /\ cur'[id] = w.row
        BY <3>5, <4>1 DEF Committed
      <4>3. txs[p].op # "note" /\ id \in LiveIn(txs[p].snap.scope)
        BY <3>6, <4>1, <4>2 DEF GuardOK
      <4> QED
        BY <4>1, <4>2, <4>3 DEF LiveIn, RemovedIds
    <3>8. txs[p].op = "apply" /\ txs[p].snap.scope = sc
      BY <2>4, <3>6, <3>7 DEF InFlight
    <3>9. PICK rid : rid = RemovedIds(txs[p])
      OBVIOUS
    <3>10. gone \subseteq rid /\ rid \subseteq live /\ ~Hold(Cardinality(live), Cardinality(rid))
      BY <2>1, <3>6, <3>7, <3>8, <3>9 DEF GuardOK, RemovedIds
    <3>11. /\ IsFiniteSet(rid) /\ IsFiniteSet(gone)
           /\ Cardinality(gone) <= Cardinality(rid) /\ Cardinality(rid) <= Cardinality(live)
      BY <2>2, <3>10, FS_Subset
    <3>12. Cardinality(rid) \in Nat /\ Cardinality(gone) \in Nat
      BY <3>11, FS_CardinalityType
    <3>13. ~Hold(Cardinality(live), Cardinality(gone))
      BY <2>2, <3>10, <3>11, <3>12, HoldMonotone
    <3> QED
      BY <2>1, <3>13
  <2> QED
    BY <2>3, <2>4
<1>2. Init => GuardInv
  BY DEF Init, GuardInv, GuardOK, Writing, Idle
<1> QED
  BY <1>1, <1>2, NextGuard, HistoryInvHolds, JournalInvHolds, PTL DEF Spec, MassRemovalConfirmed

=============================================================================
