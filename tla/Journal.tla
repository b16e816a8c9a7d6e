------------------------------ MODULE Journal ------------------------------
(***************************************************************************)
(* The record journal (src/internal/journal): snapshots of records, the    *)
(* current rows and the event history derived from them, household notes,  *)
(* held snapshots, erasure and the rescan of stored text.                  *)
(*                                                                         *)
(* Every write is a database transaction under advisory locks.  Here a     *)
(* writer p takes the locks of txs[p].need one at a time, computes its     *)
(* plan, takes the events lock, draws sequence numbers, and commits; other *)
(* writers and the rescan interleave with all of these steps.  A record    *)
(* has one text field, whose value stands for all the fields.              *)
(***************************************************************************)
EXTENDS Integers, FiniteSets, Sequences, SequencesExt

CONSTANTS
  Members,        \* roster ids; a member is also a data_subject
  Pseudonyms,     \* the subjects kept notes move to
  Household,      \* the data_subject "" of a note about nobody
  LockOrder,      \* [subjects -> Nat], a subject's place in the order of the names
  GuardianOf,     \* [Members -> SUBSET Members], the guardian_of lists
  HouseMembers,   \* the household_members list
  NoteAudience,   \* the fixed audience of the household type
  Scopes,         \* snapshot scopes
  SubjectOf,      \* [Scopes -> Members], a scope's data_subject part
  Keys,           \* keys of source records
  Values,         \* the values of the text field
  Versions,       \* scanner versions the replicas run
  Passes,         \* [Versions -> SUBSET Values], what each version passes
  SnapIds, Menu,  \* snapshot ids; the snapshots writers send
  NoteMenu,       \* the notes written: [author, subj, val, obs]
  MinKeys, MaxPercent,   \* diff.Guard
  MaxTime, MaxTx, MaxAux, \* bounds: clock values, transactions, reloads and rescans
  Procs,          \* concurrent transactions
  VersionOf       \* [Procs -> Versions], the scanner of the replica that runs one

ASSUME JournalAssumption ==
  /\ Members \cap Pseudonyms = {} /\ Household \notin Members \cup Pseudonyms
  /\ GuardianOf \in [Members -> SUBSET Members] /\ HouseMembers \subseteq Members
  /\ SubjectOf \in [Scopes -> Members] /\ Passes \in [Versions -> SUBSET Values]
  /\ VersionOf \in [Procs -> Versions]
  /\ \A n \in NoteMenu : /\ n.author \in Members /\ n.subj \in Members \cup {Household}
                          /\ n.val \in Values /\ n.obs \in 1..MaxTime
  /\ MinKeys \in Nat /\ MaxPercent \in Nat /\ MaxTime \in Nat /\ MaxTx \in Nat /\ MaxAux \in Nat
  /\ \A s \in Menu : /\ s.scope \in Scopes /\ s.obs \in 1..MaxTime /\ s.complete \in BOOLEAN
                      /\ s.recs \in UNION {[K -> Values] : K \in SUBSET Keys}
  /\ LockOrder \in [Members \cup {Household} -> Nat]
  /\ \A x, y \in Members \cup {Household} : LockOrder[x] = LockOrder[y] => x = y
  /\ Scopes \cap (Members \cup {Household}) = {}   \* a note's scope is its own
  /\ "mixed" \notin Versions /\ {"none", "withheld"} \cap Values = {}

ASSUME JournalFinite == IsFiniteSet(Members) /\ IsFiniteSet(Pseudonyms) /\ IsFiniteSet(Keys)

VARIABLES
  snaps,    \* table snapshot: id -> [scope, obs, complete, recs, status]
  cur,      \* table record_current: identity -> row
  events,   \* table record_event: seq -> event
  nextSeq,  \* the seq sequence; never rolled back
  kept,     \* tables erasure_kept and erasure_reader: pseudonym -> frozen readers
  erased,   \* table erasure: the banned members
  roster,   \* members of the roster in use
  txs,      \* the transactions in flight
  begun,    \* transactions begun so far, and reloads and rescans
  scan      \* the rescan's row or event as read, before it is written back

vars == <<snaps, cur, events, nextSeq, kept, erased, roster, txs, begun, scan>>
store == <<snaps, cur, events, kept, erased>>

\* The household scope of a note about subj is written as subj itself.
\* An identity is <<record type, data_subject, key>>; a note's key is its author.
Row(subj, k) == <<"grade", subj, k>>
Note(subj, author) == <<"note", subj, author>>

None == "none"
Withheld == "withheld"

\* A transaction; the fields an operation does not use, or not yet, are empty.
Idle == [op |-> "idle", phase |-> "locks", subj |-> None, need |-> {}, held |-> {},
         id |-> None, snap |-> None, author |-> None, val |-> None, obs |-> 0,
         ros |-> {}, subjects |-> {}, write |-> {}, confirm |-> {}]
NoScan == [what |-> None]

SubjectLock(s) == <<"subject", s>>
AuthorLock(m) == <<"author", m>>
EventsLock == <<"events", "all">>

Without(f, S) == [x \in DOMAIN f \ S |-> f[x]]
Merge(f, g) == [x \in DOMAIN f \cup DOMAIN g |-> IF x \in DOMAIN g THEN g[x] ELSE f[x]]

(***************************************************************************)
(* Roster grants and the read rule (roster.go, access.go).                 *)
(***************************************************************************)
Grants(ros, m) ==
  {<<m, "subject">>}
  \cup {<<c, "guardians">> : c \in GuardianOf[m] \cap ros}
  \cup (IF GuardianOf[m] \cap ros # {} THEN {<<Household, "guardians">>} ELSE {})
  \cup (IF m \in HouseMembers
        THEN {<<x, "household">> : x \in (HouseMembers \cap ros) \cup {Household}} ELSE {})

Visible(grants, subj, aud) == \E t \in aud : t = "public" \/ <<subj, t>> \in grants

\* The readers of a kept note from the erase on.
FrozenReaders(ros, m, id) ==
  {x \in ros \ (erased \cup {m}) :
     Visible(Grants(ros, x), m, NoteAudience) \/ x = id[3]}

(***************************************************************************)
(* diff.Diff, diff.Guard and diff.Fold.                                    *)
(***************************************************************************)
Stale(id, obs) == id \in DOMAIN cur /\ cur[id].confAt > obs

KindOf(id) ==
  IF id \notin DOMAIN cur THEN "created"
  ELSE IF cur[id].removed THEN "restored" ELSE "updated"

\* The plan for records recs (identity -> value) observed at obs in scope sc.
\* Nothing of a row confirmed later is touched, and a complete snapshot
\* removes the scope's other live rows.
Diff(sc, obs, complete, recs) ==
  LET fresh == {id \in DOMAIN recs : ~Stale(id, obs)}
      same(id) == /\ KindOf(id) = "updated"
                  /\ cur[id].val = recs[id] /\ cur[id].scope = sc
      live == {id \in DOMAIN cur : ~cur[id].removed /\ cur[id].scope = sc}
      gone == {id \in live \ DOMAIN recs : ~Stale(id, obs)}
  IN [write   |-> {[id |-> id, kind |-> KindOf(id), scope |-> sc, val |-> recs[id]] :
                     id \in {x \in fresh : ~same(x)}},
      remove  |-> IF ~complete THEN {}
                  ELSE {[id |-> id, kind |-> "removed", scope |-> sc, val |-> cur[id].val] :
                          id \in gone},
      confirm |-> {id \in fresh : same(id)},
      live    |-> Cardinality(live)]

Hold(live, removals) ==
  /\ removals > 0 /\ live > MinKeys
  /\ removals = live \/ removals * 100 > MaxPercent * live

Fold(history) ==
  FoldLeft(LAMBDA row, e :
             [scope   |-> e.scope,
              val     |-> IF e.new = None THEN row.val ELSE e.new,
              removed |-> e.kind = "removed"],
           [scope |-> None, val |-> None, removed |-> FALSE], history)

HistoryOf(id) ==
  LET seqs == SetToSortSeq({q \in DOMAIN events : events[q].id = id}, <)
  IN [i \in 1..Len(seqs) |-> events[seqs[i]]]

(***************************************************************************)
(* Scanning.  Verdict is the text scanner, external to the journal.        *)
(***************************************************************************)
Verdict(ver, v) == IF v \in Passes[ver] THEN "pass" ELSE "fail"

\* buildEvent: the event row, with a verdict for each side that holds text.
\* Sides judged by different scanners leave the event's version "mixed".
EventOf(w, ver) ==
  LET prev == cur[w.id]
      changed == w.kind # "updated" \/ prev.val # w.val
      base == [id |-> w.id, kind |-> w.kind, scope |-> w.scope,
               old |-> None, new |-> None, oldV |-> None, newV |-> None, ver |-> ver]
  IN CASE ~changed -> base
       [] w.kind \in {"created", "restored"} ->
            [base EXCEPT !.new = w.val, !.newV = Verdict(ver, w.val)]
       [] w.kind = "updated" /\ changed ->
            [base EXCEPT !.old = prev.val, !.oldV = prev.verdict,
                         !.new = w.val, !.newV = Verdict(ver, w.val),
                         !.ver = IF prev.ver = ver THEN ver ELSE "mixed"]
       [] OTHER ->
            [base EXCEPT !.old = prev.val, !.oldV = prev.verdict, !.ver = prev.ver]

\* Mutant: the upsert leaves the scope column alone.
RowKeepsScope(w, ver, obs, by) ==
  [scope |-> IF w.id \in DOMAIN cur THEN cur[w.id].scope ELSE w.scope,
   val |-> w.val, removed |-> w.kind = "removed", confAt |-> obs, confBy |-> by, seq |-> 0,
   verdict |-> Verdict(ver, w.val), ver |-> ver]

\* upsertCurrent: the row after an event; an unchanged text keeps its verdict.
RowOf(w, ver, obs, by) ==
  LET keep == w.kind = "removed" \/ (w.kind = "updated" /\ cur[w.id].val = w.val)
  IN [scope |-> w.scope, val |-> w.val, removed |-> w.kind = "removed",
      confAt |-> obs, confBy |-> by, seq |-> 0,
      verdict |-> IF keep THEN cur[w.id].verdict ELSE Verdict(ver, w.val),
      ver |-> IF keep THEN cur[w.id].ver ELSE ver]

\* buildEvent for a plan's events: judged and built before the events lock.
Built(W, ver, obs, by) ==
  {[id |-> w.id, event |-> EventOf(w, ver), row |-> RowOf(w, ver, obs, by)] : w \in W}

\* What a read shows of a text: State and fillEventValues mask every side.
Text(v, verdict) == IF v = None THEN None ELSE IF verdict = "pass" THEN v ELSE Withheld

(***************************************************************************)
(* Reads.  An erased or unknown reader gets nothing.                       *)
(***************************************************************************)
Readable(m, subj) ==
  /\ m \in roster /\ m \notin erased
  /\ IF subj \in Pseudonyms THEN subj \in DOMAIN kept /\ m \in kept[subj]
     ELSE Visible(Grants(roster, m), subj, NoteAudience)

StateRows(m) ==
  {[id |-> id, text |-> Text(cur[id].val, cur[id].verdict)] :
     id \in {x \in DOMAIN cur : Readable(m, x[2])}}

EventRows(m) ==
  UNION {{[id |-> events[q].id, text |-> Text(events[q].old, events[q].oldV)],
          [id |-> events[q].id, text |-> Text(events[q].new, events[q].newV)]} :
           q \in {x \in DOMAIN events : Readable(m, events[x].id[2])}}

(***************************************************************************)
(* Transactions: locks first, in the order the code takes them.            *)
(***************************************************************************)
Held == UNION {txs[p].held : p \in Procs}

\* loadCurrent locks the rows of a subject (FOR UPDATE) until the commit.
RowsLocked(subj) ==
  \E p \in Procs : txs[p].op # "idle" /\ txs[p].phase \in {"insert", "commit"} /\ txs[p].subj = subj

Begin(p, tx) ==
  /\ txs[p].op = "idle" /\ begun.tx < MaxTx
  /\ begun' = [begun EXCEPT !.tx = @ + 1]
  /\ txs' = [txs EXCEPT ![p] = tx]
  /\ UNCHANGED <<store, nextSeq, roster, scan>>

Tx(op, subj, need) == [Idle EXCEPT !.op = op, !.subj = subj, !.need = need]

\* handleRecords then Apply: one subject lock.
BeginApply(p) == \E i \in SnapIds, s \in Menu :
  Begin(p, [Tx("apply", SubjectOf[s.scope], {SubjectLock(SubjectOf[s.scope])})
              EXCEPT !.id = i, !.snap = s])

\* ConfirmHeld reads the snapshot's subject, then locks it.
BeginConfirm(p) == \E i \in DOMAIN snaps :
  LET subj == SubjectOf[snaps[i].scope]
  IN Begin(p, [Tx("confirm", subj, {SubjectLock(subj)}) EXCEPT !.id = i])

NoteTx(n, need) == [Tx("note", n.subj, need) EXCEPT !.author = n.author, !.val = n.val,
                                                    !.obs = n.obs, !.ros = roster]

\* Mutant: a note takes no author lock.
BeginNoteUnlocked(p) == \E n \in NoteMenu :
  Begin(p, NoteTx(n, {SubjectLock(n.subj)}))

\* WriteNote reads the roster before its transaction; author lock first.
BeginNote(p) == \E n \in NoteMenu :
  Begin(p, NoteTx(n, {AuthorLock(n.author), SubjectLock(n.subj)}))

\* Erase reads the roster before its transaction; the subjects the member
\* wrote about are looked up under the author lock.
BeginErase(p) == \E m \in Members :
  Begin(p, [Tx("erase", m, {AuthorLock(m)}) EXCEPT !.ros = roster])

Ready(p, op) == txs[p].op = op /\ txs[p].phase = "locks" /\ txs[p].need = {}

\* lockAuthor comes before lockSubject, and sortedSet puts the subjects of an
\* erase in the order of their names.
NextLock(need, l) ==
  /\ l \in need
  /\ \A k \in need \ {l} : /\ k[1] = "subject"
                           /\ l[1] = "author" \/ LockOrder[l[2]] < LockOrder[k[2]]

\* One advisory lock is granted.
Acquire(p) ==
  /\ txs[p].op # "idle" /\ txs[p].phase = "locks"
  /\ \E l \in txs[p].need \ Held :
       /\ NextLock(txs[p].need, l)
       /\ txs' = [txs EXCEPT ![p].held = @ \cup {l}, ![p].need = @ \ {l}]
  /\ UNCHANGED <<store, nextSeq, roster, begun, scan>>

\* authoredSubjects, between the author lock and the subject locks.
Authored(p) ==
  /\ Ready(p, "erase") /\ txs[p].subjects = {}
  /\ LET m == txs[p].subj
         S == {m, Household} \cup {id[2] : id \in {x \in DOMAIN cur : x[1] = "note" /\ x[3] = m}}
         todo == S \ Pseudonyms
     IN txs' = [txs EXCEPT ![p].subjects = todo,
                           ![p].need = {SubjectLock(s) : s \in todo}]
  /\ UNCHANGED <<store, nextSeq, roster, begun, scan>>

Finish(p) == txs' = [txs EXCEPT ![p] = Idle]

\* A snapshot's row as stored with a status.
Stored(s, status) == [scope |-> s.scope, obs |-> s.obs, complete |-> s.complete,
                      recs |-> s.recs, status |-> status]

Later(s) == \E i \in DOMAIN snaps :
  snaps[i].scope = s.scope /\ snaps[i].status = "applied" /\ snaps[i].obs > s.obs

RecsOf(s) == [id \in {Row(SubjectOf[s.scope], k) : k \in DOMAIN s.recs} |-> s.recs[id[3]]]

\* Apply up to the plan: a resend, a banned or unknown subject change
\* nothing; a snapshot older than an applied one is stored late.
Refused(p, id, subj) == id \in DOMAIN snaps \/ subj \in erased \/ subj \notin roster

Guarded(confirm, plan) == ~confirm /\ Hold(plan.live, Cardinality(plan.remove))

\* applyFromOrdering, shared by Apply and ConfirmHeld (which skips the guard).
FromOrdering(p, id, s, confirm) ==
  LET plan == Diff(s.scope, s.obs, s.complete, RecsOf(s))
      put(status) == /\ snaps' = Merge(snaps, [i \in {id} |-> Stored(s, status)])
                     /\ Finish(p)
  IN /\ \/ Later(s) /\ put("late")
        \/ ~Later(s) /\ Guarded(confirm, plan) /\ put("held")
        \/ /\ ~Later(s) /\ ~Guarded(confirm, plan)
           /\ txs' = [txs EXCEPT ![p] =
                [@ EXCEPT !.phase = "insert", !.snap = s, !.obs = s.obs, !.confirm = plan.confirm,
                          !.write = Built(plan.write \cup plan.remove, VersionOf[p], s.obs, id)]]
           /\ UNCHANGED snaps
     /\ UNCHANGED <<cur, events, kept, erased, nextSeq, roster, begun, scan>>

ApplyPlan(p) ==
  /\ Ready(p, "apply")
  /\ IF Refused(p, txs[p].id, txs[p].subj)
     THEN Finish(p) /\ UNCHANGED <<store, nextSeq, roster, begun, scan>>
     ELSE FromOrdering(p, txs[p].id, txs[p].snap, FALSE)

ConfirmPlan(p) ==
  /\ Ready(p, "confirm")
  /\ LET i == txs[p].id
         ok == /\ i \in DOMAIN snaps /\ snaps[i].status = "held"
               /\ txs[p].subj \notin erased /\ txs[p].subj \in roster
     IN IF ~ok THEN Finish(p) /\ UNCHANGED <<store, nextSeq, roster, begun, scan>>
        ELSE FromOrdering(p, i, snaps[i], TRUE)

\* WriteNote: bans, roster and grants are checked under the locks.
NotePlan(p) ==
  /\ Ready(p, "note")
  /\ LET tx == txs[p]
         id == Note(tx.subj, tx.author)
         ok == /\ {tx.subj, tx.author} \cap erased = {}
               /\ tx.author \in tx.ros
               /\ tx.subj # Household => tx.subj \in tx.ros
               /\ \E t \in NoteAudience : <<tx.subj, t>> \in Grants(tx.ros, tx.author)
         plan == Diff(tx.subj, tx.obs, FALSE, [x \in {id} |-> tx.val])
     IN IF ~ok \/ plan.write = {} THEN Finish(p)
        ELSE txs' = [txs EXCEPT ![p] =
               [@ EXCEPT !.phase = "insert", !.ros = {},
                         !.write = Built(plan.write, VersionOf[p], tx.obs, None)]]
  /\ UNCHANGED <<store, nextSeq, roster, begun, scan>>

\* writePlan: one sequence number for each event, in some order.
Numbered(p) ==
  LET W == txs[p].write
      last == nextSeq + Cardinality(W) - 1
  IN \E num \in Bijection(W, nextSeq..last) :
       /\ txs' = [txs EXCEPT ![p] =
            [@ EXCEPT !.phase = "commit", !.write = {[w EXCEPT !.row.seq = num[w]] : w \in W},
                      !.held = txs[p].held \cup {l \in {EventsLock} : W # {}}]]
       /\ nextSeq' = last + 1
       /\ UNCHANGED <<store, roster, begun, scan>>

\* Mutant: sequence numbers are drawn without the events lock.
InsertUnlocked(p) ==
  /\ txs[p].op # "idle" /\ txs[p].phase = "insert"
  /\ Numbered(p)

\* writePlan: the events lock, then the events and their numbers.
Insert(p) ==
  /\ txs[p].op # "idle" /\ txs[p].phase = "insert"
  /\ txs[p].write # {} => EventsLock \notin Held
  /\ Numbered(p)

Superseded(i, tx) == /\ snaps[i].scope = tx.snap.scope
                     /\ snaps[i].status = "held" /\ snaps[i].obs < tx.obs

\* The commit: events, rows, the snapshot's status and the older held
\* snapshots of its scope; all locks are released.  Two writers racing for
\* one id: the second gets snapshot_id_reused and writes nothing.
Commit(p) ==
  /\ txs[p].op # "idle" /\ txs[p].phase = "commit"
  /\ LET tx == txs[p]
         by == IF tx.op = "note" THEN None ELSE tx.id
         taken == tx.op = "apply" /\ tx.id \in DOMAIN snaps
     IN IF taken THEN UNCHANGED store
        ELSE /\ events' = Merge(events, [q \in {w.row.seq : w \in tx.write} |->
                                           (CHOOSE w \in tx.write : w.row.seq = q).event])
             /\ cur' = Merge([id \in DOMAIN cur |->
                                IF id \in tx.confirm
                                THEN [cur[id] EXCEPT !.confAt = tx.obs, !.confBy = by] ELSE cur[id]],
                             [id \in {w.id : w \in tx.write} |->
                                (CHOOSE w \in tx.write : w.id = id).row])
             /\ snaps' = IF tx.op = "note" THEN snaps
                         ELSE [i \in DOMAIN snaps \cup {tx.id} |->
                                 IF i = tx.id THEN Stored(tx.snap, "applied")
                                 ELSE IF Superseded(i, tx)
                                      THEN [snaps[i] EXCEPT !.status = "discarded"]
                                      ELSE snaps[i]]
             /\ UNCHANGED <<kept, erased>>
  /\ Finish(p)
  /\ UNCHANGED <<nextSeq, roster, begun, scan>>

\* A database error, a timeout or a revoked policy rolls everything back
\* but the sequence.
Rollback(p) ==
  /\ txs[p].op # "idle"
  /\ Finish(p)
  /\ UNCHANGED <<store, nextSeq, roster, begun, scan>>

\* DiscardHeld: one UPDATE; it waits for a confirm that holds the row.
DiscardHeld == \E i \in DOMAIN snaps :
  /\ snaps[i].status = "held"
  /\ ~\E p \in Procs : txs[p].op = "confirm" /\ txs[p].phase # "locks" /\ txs[p].id = i
  /\ snaps' = [snaps EXCEPT ![i].status = "discarded"]
  /\ UNCHANGED <<cur, events, nextSeq, kept, erased, roster, txs, begun, scan>>

\* The kept notes left without a reader.
Orphans(left) == {id \in DOMAIN cur : id[2] \in DOMAIN left /\ left[id[2]] = {}}

\* keepNotes: others' notes about the member that have a frozen reader.
KeepNotes(ros, m, own) ==
  {id \in DOMAIN cur \ own : id[1] = "note" /\ id[2] = m /\ FrozenReaders(ros, m, id) # {}}

\* eraseLocked, once every lock is held: the member's own notes go, the
\* member stops reading kept notes and those nobody reads go, others' notes
\* about the member move to fresh pseudonyms, everything else of the subject
\* goes.
Erase(p) ==
  /\ Ready(p, "erase") /\ txs[p].subjects # {}
  /\ ~RowsLocked(txs[p].subj)
  /\ LET m == txs[p].subj
         own == {id \in DOMAIN cur : id[1] = "note" /\ id[3] = m}
         left == [s \in DOMAIN kept |-> kept[s] \ {m}]
         orphan == Orphans(left)
         keep == KeepNotes(txs[p].ros, m, own)
         live == {id[2] : id \in DOMAIN cur \ (own \cup orphan)} \cap DOMAIN left
         stays == {id \in DOMAIN cur : id[2] # m} \ (own \cup orphan)
         moved(r) == [r EXCEPT !.scope = Household]
     IN \E move \in Injection(keep, Pseudonyms \ DOMAIN kept) :
          LET newId(id) == Note(move[id], id[3])
              oldId(s) == CHOOSE id \in keep : move[id] = s
          IN /\ cur' = [id \in stays \cup {newId(x) : x \in keep} |->
                          IF id \in stays THEN cur[id] ELSE moved(cur[oldId(id[2])])]
             /\ events' = [q \in {x \in DOMAIN events : events[x].id \in stays \cup keep} |->
                             IF events[q].id \in stays THEN events[q]
                             ELSE [moved(events[q]) EXCEPT !.id = newId(@)]]
             /\ snaps' = Without(snaps, {i \in DOMAIN snaps : SubjectOf[snaps[i].scope] = m})
             /\ kept' = Merge([s \in live |-> left[s]],
                              [s \in {move[x] : x \in keep} |->
                                 FrozenReaders(txs[p].ros, m, oldId(s))])
             /\ erased' = erased \cup {m}
  /\ Finish(p)
  /\ UNCHANGED <<nextSeq, roster, begun, scan>>

\* Holder.Reload: gitops removes a member from the roster or puts one back.
Reload == \E r \in SUBSET Members :
  /\ roster' = r /\ r # roster /\ r # {}
  /\ begun.aux < MaxAux /\ begun' = [begun EXCEPT !.aux = @ + 1]
  /\ UNCHANGED <<store, nextSeq, txs, scan>>

\* A rescan batch reads a row or an event without a lock ...
RescanRead == \E v \in Versions :   \* any replica
  /\ scan = NoScan
  /\ \/ \E id \in DOMAIN cur : cur[id].ver # v /\ scan' = [what |-> "row", at |-> id, ver |-> v, was |-> cur[id]]
     \/ \E q \in DOMAIN events : /\ events[q].ver # v /\ {events[q].old, events[q].new} # {None}
                                 /\ scan' = [what |-> "event", at |-> q, ver |-> v, was |-> events[q]]
  /\ begun.aux < MaxAux /\ begun' = [begun EXCEPT !.aux = @ + 1]
  /\ UNCHANGED <<store, nextSeq, roster, txs>>

\* Mutant: the write only looks whether the row is still there.
StillThere(id, was) == id \in DOMAIN cur

UnchangedRow(id, was) ==
  /\ id \in DOMAIN cur /\ cur[id].seq = was.seq /\ cur[id].val = was.val
  /\ cur[id].verdict = was.verdict /\ cur[id].ver = was.ver

\* ... judges it, and writes the verdict only if the locked row is the one
\* it read; an erased one is left alone, a changed one is read again.
JudgeCurrent ==
  /\ scan.what = "row"
  /\ ~RowsLocked(scan.at[2])
  /\ LET id == scan.at
     IN cur' = IF UnchangedRow(id, scan.was) THEN [cur EXCEPT ![id].verdict = Verdict(scan.ver, scan.was.val),
                                        ![id].ver = scan.ver] ELSE cur
  /\ scan' = NoScan
  /\ UNCHANGED <<snaps, events, nextSeq, kept, erased, roster, txs, begun>>

Judge(e, v) == [e EXCEPT !.oldV = IF e.old = None THEN @ ELSE Verdict(v, e.old),
                         !.newV = IF e.new = None THEN @ ELSE Verdict(v, e.new), !.ver = v]

JudgeEvents ==
  /\ scan.what = "event"
  /\ LET q == scan.at
         same == /\ q \in DOMAIN events /\ events[q].oldV = scan.was.oldV
                 /\ events[q].newV = scan.was.newV /\ events[q].ver = scan.was.ver
         j == Judge(scan.was, scan.ver)
     IN events' = IF same THEN [events EXCEPT ![q].oldV = j.oldV, ![q].newV = j.newV, ![q].ver = j.ver]
                  ELSE events
  /\ scan' = NoScan
  /\ UNCHANGED <<snaps, cur, nextSeq, kept, erased, roster, txs, begun>>

Init ==
  /\ snaps = <<>> /\ cur = <<>> /\ events = <<>> /\ nextSeq = 1 /\ kept = <<>>
  /\ erased = {} /\ roster = Members /\ txs = [p \in Procs |-> Idle] /\ begun = [tx |-> 0, aux |-> 0] /\ scan = NoScan

Next ==
  \/ \E p \in Procs :
       \/ BeginApply(p) \/ BeginConfirm(p) \/ BeginNote(p) \/ BeginErase(p)
       \/ Acquire(p) \/ Authored(p) \/ ApplyPlan(p) \/ ConfirmPlan(p) \/ NotePlan(p)
       \/ Insert(p) \/ Commit(p) \/ Rollback(p) \/ Erase(p)
  \/ DiscardHeld \/ Reload \/ RescanRead \/ JudgeCurrent \/ JudgeEvents

Spec == Init /\ [][Next]_vars

(***************************************************************************)
(* Properties.                                                             *)
(***************************************************************************)
\* The tables and the transactions in flight have their types: each row's
\* last_event_seq names an event the sequence has handed out.
TypeOK ==
  /\ DOMAIN snaps \subseteq SnapIds /\ erased \subseteq Members /\ roster \subseteq Members
  /\ \A i \in DOMAIN snaps : snaps[i].status \in {"applied", "late", "held", "discarded"}
  /\ DOMAIN kept \subseteq Pseudonyms
  /\ \A q \in DOMAIN events : q < nextSeq
  /\ \A id \in DOMAIN cur : cur[id].seq \in DOMAIN events /\ cur[id].ver \in Versions
  /\ begun \in [tx : 0..MaxTx, aux : 0..MaxAux]

\* Replaying an identity's events gives its current row (apply.go writePlan,
\* diff/fold.go): no interleaving of snapshots, scope moves, notes, confirms
\* and erasures lets the history and the state disagree.
FoldAgrees ==
  \A id \in DOMAIN cur :
    Fold(HistoryOf(id)) = [scope |-> cur[id].scope, val |-> cur[id].val, removed |-> cur[id].removed]

\* The same without the fold: a row stands where its identity's last event
\* left it, with the text of the last event that carries one, and every event
\* has its row.
RowsReplay ==
  /\ \A q \in DOMAIN events : events[q].id \in DOMAIN cur
  /\ \A id \in DOMAIN cur :
       LET its == {q \in DOMAIN events : events[q].id = id}
           last == cur[id].seq
       IN /\ last \in its /\ \A q \in its : q <= last
          /\ events[last].scope = cur[id].scope
          /\ events[last].kind = "removed" <=> cur[id].removed
          /\ \E q \in its : /\ events[q].new = cur[id].val
                            /\ \A r \in its : r > q => events[r].new = None

\* A late or stale observation never replaces a newer one (apply.go step 4,
\* diff.go LastConfirmedAt): a row is at least as recent as every applied
\* snapshot that contains it, and a live one holds what a snapshot observed
\* at its confirmation says.
NewestWins ==
  \A id \in DOMAIN cur : id[1] = "grade" =>
    LET saw == {i \in DOMAIN snaps : snaps[i].status = "applied" /\ id \in DOMAIN RecsOf(snaps[i])}
    IN /\ \A i \in saw : cur[id].confAt >= snaps[i].obs
       /\ ~cur[id].removed =>
            \E i \in saw : /\ snaps[i].obs = cur[id].confAt /\ snaps[i].scope = cur[id].scope
                           /\ snaps[i].recs[id[3]] = cur[id].val

\* An erase is a ban (erase.go, banned in apply.go): nothing about or by an
\* erased member is stored, they read nothing, and no write that began
\* before the erase puts anything back.
ErasedGone ==
  \A m \in erased :
    /\ \A i \in DOMAIN snaps : SubjectOf[snaps[i].scope] # m
    /\ \A id \in DOMAIN cur \cup {events[q].id : q \in DOMAIN events} :
         id[2] # m /\ (id[1] = "note" => id[3] # m)
    /\ StateRows(m) = {} /\ EventRows(m) = {}
    /\ \A s \in DOMAIN kept : m \notin kept[s]

\* A kept note has a reader, and no reader rows outlive their note.
KeptHasReaders ==
  /\ \A id \in DOMAIN cur : id[2] \in Pseudonyms => id[2] \in DOMAIN kept
  /\ \A s \in DOMAIN kept : kept[s] # {} /\ \E id \in DOMAIN cur : id[2] = s

\* No snapshot stays held once a newer one of its scope is applied
\* (apply.go, the update at the end of applyFromOrdering): confirming it
\* could not move the scope backwards.
NoStaleHeld ==
  \A i \in DOMAIN snaps : snaps[i].status = "held" => ~Later(snaps[i])

\* A stored verdict is what the scanner version beside it says of the text it
\* is stored with (buildEvent, judgeCurrent, judgeEvents), although replicas
\* run different versions and a rescan judges rows it read without a lock.
VerdictsTrue ==
  /\ \A id \in DOMAIN cur : cur[id].verdict = Verdict(cur[id].ver, cur[id].val)
  /\ \A q \in DOMAIN events : events[q].ver \in Versions =>
       /\ events[q].old # None => events[q].oldV = Verdict(events[q].ver, events[q].old)
       /\ events[q].new # None => events[q].newV = Verdict(events[q].ver, events[q].new)

\* A text no scanner version passes is shown to nobody, in no row and on no
\* side of an event (access.Text, fillEventValues).
FailedTextWithheld ==
  \A m \in Members : \A r \in StateRows(m) \cup EventRows(m) :
    r.text \in Values => \E v \in Versions : r.text \in Passes[v]

\* No two transactions wait for each other's locks (lockAuthor before
\* lockSubject in sorted order before lockEvents).
NoLockCycle ==
  \A p, q \in Procs :
    p # q => ~ /\ \E l \in txs[q].held : NextLock(txs[p].need, l)
               /\ \E l \in txs[p].held : NextLock(txs[q].need, l)

\* Sequence numbers become visible in order (lockEvents): an event is never
\* committed below one a reader's cursor may already have passed.
SeqInOrder ==
  [][\A q \in DOMAIN events' \ DOMAIN events : \A r \in DOMAIN events : q > r]_vars

\* More than the guard's share of a scope's live rows is removed only by an
\* operator's confirmation (guard.go), whatever was applied since the plan.
MassRemovalConfirmed ==
  [][\A sc \in Scopes :
       LET live == {id \in DOMAIN cur : ~cur[id].removed /\ cur[id].scope = sc}
           gone == {id \in live : id \in DOMAIN cur' /\ cur'[id].removed}
       IN Hold(Cardinality(live), Cardinality(gone)) =>
            \E p \in Procs : txs[p].op = "confirm" /\ txs'[p].op = "idle"]_vars

\* Whatever the interleaving of snapshots, confirms, notes, erasures, rescans
\* and reloads, the current rows are what the event history says, the newest
\* observation wins, nothing held is stale, and no two transactions block one
\* another (apply.go, hold.go, the lock order).
JournalConsistent == TypeOK /\ RowsReplay /\ NewestWins /\ NoStaleHeld /\ NoLockCycle

\* An erasure is complete and stays complete: no trace of the member in any
\* row, event or reader set, and nothing left behind that nobody may read
\* (erase.go).
ErasureComplete == ErasedGone /\ KeptHasReaders

\* What readers see was judged: every stored verdict is its scanner version's
\* on its own text, and a text that no version passes is shown to nobody
\* (rescan.go, access.Text).
TextsJudged == VerdictsTrue /\ FailedTextWithheld

\* Throughout, diff.Fold of the history gives the current rows, no step
\* commits an event behind a reader's cursor, and none removes more than the
\* guard's share of a scope without a confirmation (lockEvents, guard.go).
JournalSteps == []FoldAgrees /\ SeqInOrder /\ MassRemovalConfirmed
=============================================================================
