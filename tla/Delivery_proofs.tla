-------------------------- MODULE Delivery_proofs --------------------------
(***************************************************************************)
(* Proofs about Delivery, for any number of items, goroutines and faults:  *)
(* IndInv is an inductive invariant, and NoSilentLoss, Custody,            *)
(* OnlyCleared and InboxResolved follow from it; every step is one of      *)
(* ItemFate; with PlaceInv, PlaceholderBacked follows.                     *)
(*                                                                         *)
(* A step of goroutine t touches t itself and its item only (Frame).  What *)
(* IndInv says of other items is untouched; what it says of another        *)
(* goroutine at the same item survives because such an item is marked as   *)
(* overlapping, or because whoever destroys the copy in failed/ leaves a   *)
(* record (Stable).  Each action then only has to establish ItemInv and    *)
(* ThreadInv for its own item and goroutine.                               *)
(***************************************************************************)
EXTENDS Delivery, TLAPS

\* What a step of goroutine t leaves alone.
Frame(t) ==
  /\ attr' = attr /\ arrived' = arrived /\ read' = read
  /\ item' = item /\ from' = from
  /\ \A u \in Threads : u # t => pc'[u] = pc[u]
  /\ \A j \in Items : j # item[t] =>
       /\ inbox'[j] = inbox[j] /\ audit'[j] = audit[j] /\ mishap'[j] = mishap[j]
       /\ \A s \in Sources : dir'[s][j] = dir[s][j]
  /\ audit[item[t]] \subseteq audit'[item[t]]
  /\ mishap[item[t]] \subseteq mishap'[item[t]]

\* A complete copy in failed/ does not disappear without a record.
Stable(t) ==
  Whole(dir["failed"][item[t]]) =>
    \/ Whole(dir'["failed"][item[t]])
    \/ audit'[item[t]] # {}
    \/ "recopied" \in mishap'[item[t]]

LEMMA LiveItem ==
  ASSUME IndInv, NEW t \in Threads, Live(t)
  PROVE  item[t] \in arrived /\ item[t] \in Items /\ from[t] \in Sources
BY DEF IndInv, TypeOK, Known

LEMMA OtherItems ==
  ASSUME IndInv, NEW t \in Threads, Frame(t), NEW j \in Items, j # item[t]
  PROVE  ItemInv(j)'
<1>1. ItemInv(j)
  BY DEF IndInv
<1> QED
  BY <1>1 DEF Frame, ItemInv, Traced, Kept, ClearedAt, ResolvedAt, CleanDirs, Held,
              Recorded, RejectLogged, Cleared, Whole, Sources

LEMMA OtherThreads ==
  ASSUME IndInv, NEW t \in Threads, Live(t), Frame(t), Stable(t),
         NEW u \in Threads, u # t
  PROVE  ThreadInv(u)'
<1> SUFFICES ASSUME Live(u) PROVE (MayDelete(u) /\ Progressed(u) /\ Judged(u))'
  BY DEF ThreadInv, Frame, Live
<1>1. MayDelete(u) /\ Progressed(u) /\ Judged(u)
  BY DEF IndInv, ThreadInv
<1>2. item[u] \in Items /\ from[u] \in Sources
  BY LiveItem
<1>3. CASE item[u] # item[t]
  <2>1. MayDelete(u)'
    BY <1>1, <1>2, <1>3 DEF Frame, MayDelete, Recorded, RejectLogged, Whole, Sources
  <2>2. Progressed(u)'
    BY <1>1, <1>2, <1>3 DEF Frame, Progressed, RejectLogged, Whole, Sources, SrcOf
  <2>3. Judged(u)'
    BY <1>1, <1>2, <1>3 DEF Frame, Judged, Cleared, SrcOf
  <2> QED BY <2>1, <2>2, <2>3
<1>4. CASE item[u] = item[t]
  <2>1. "overlap" \in mishap'[item[u]]
    BY <1>4 DEF IndInv, Exclusive, Frame
  <2>2. MayDelete(u)'
    BY <1>1, <1>2, <1>4 DEF Frame, Stable, MayDelete, Recorded, RejectLogged
  <2>3. Progressed(u)'
    BY <2>1 DEF Progressed, Frame
  <2>4. Judged(u)'
    BY <1>1, <2>1 DEF Frame, Judged, Cleared
  <2> QED BY <2>2, <2>3, <2>4
<1> QED BY <1>3, <1>4

\* The rule every action of a goroutine uses.
LEMMA FrameRule ==
  ASSUME IndInv, TypeOK', NEW t \in Threads, Live(t), Frame(t), Stable(t),
         NEW i \in Items, i = item[t], ItemInv(i)', ThreadInv(t)'
  PROVE  IndInv'
<1>1. item[t] \in arrived /\ item[t] \in Items
  BY LiveItem
<1>2. Known'
  BY <1>1 DEF IndInv, Known, Frame, Live
<1>3. Exclusive'
  <2> SUFFICES ASSUME NEW u \in Threads, NEW v \in Threads, u # v,
                      Live(u)', Live(v)', item[u] = item[v]
               PROVE  "overlap" \in mishap'[item[u]]
    BY DEF Exclusive, Frame
  <2>1. Live(u) /\ Live(v)
    BY DEF Frame, Live
  <2>2. "overlap" \in mishap[item[u]] /\ item[u] \in Items
    BY <2>1, LiveItem DEF IndInv, Exclusive
  <2> QED BY <2>2 DEF Frame
<1>4. \A j \in Items : ItemInv(j)'
  BY OtherItems
<1>5. \A u \in Threads : ThreadInv(u)'
  BY OtherThreads
<1> QED BY <1>2, <1>3, <1>4, <1>5 DEF IndInv

-----------------------------------------------------------------------------
(* Facts about the shared steps.                                            *)

LEMMA GotoFact ==
  ASSUME TypeOK, NEW t \in Threads, NEW next \in PCs, Goto(t, next)
  PROVE  /\ pc' \in [Threads -> PCs] /\ pc'[t] = next
         /\ \A u \in Threads : u # t => pc'[u] = pc[u]
         /\ item' = item /\ from' = from /\ qid' = qid
BY DEF TypeOK, Goto

LEMMA FaultType ==
  ASSUME TypeOK, Fault \/ NoFault
  PROVE  faults' \in 0..MaxFaults
BY DeliveryAssumption DEF TypeOK, Fault, NoFault

LEMMA SetSrcFact ==
  ASSUME TypeOK, NEW t \in Threads, item[t] \in Items,
         NEW files \in SUBSET Files, SetSrc(t, files)
  PROVE  /\ dir' \in [Sources -> [Items -> SUBSET Files]]
         /\ dir'[from[t]][item[t]] = files
         /\ \A s \in Sources, j \in Items :
              s # from[t] \/ j # item[t] => dir'[s][j] = dir[s][j]
<1>1. from[t] \in Sources /\ dir \in [Sources -> [Items -> SUBSET Files]]
  BY DEF TypeOK
<1> DEFINE row == [dir[from[t]] EXCEPT ![item[t]] = files]
<1>2. row \in [Items -> SUBSET Files]
  BY <1>1
<1>3. dir' = [dir EXCEPT ![from[t]] = row]
  BY <1>1 DEF SetSrc
<1>4. row[item[t]] = files /\ \A j \in Items : j # item[t] => row[j] = dir[from[t]][j]
  BY <1>1
<1> HIDE DEF row
<1> QED BY <1>1, <1>2, <1>3, <1>4

\* Only the parts of IndInv an action needs, for its own item and goroutine.
LEMMA Own ==
  ASSUME IndInv, NEW t \in Threads, Live(t)
  PROVE  /\ TypeOK
         /\ ItemInv(item[t]) /\ MayDelete(t) /\ Progressed(t) /\ Judged(t)
BY LiveItem DEF IndInv, ThreadInv

LEMMA InboxFact ==
  ASSUME TypeOK, NEW i \in Items, NEW files \in SUBSET Files,
         inbox' = [inbox EXCEPT ![i] = files]
  PROVE  /\ inbox' \in [Items -> SUBSET Files] /\ inbox'[i] = files
         /\ \A j \in Items : j # i => inbox'[j] = inbox[j]
BY DEF TypeOK

LEMMA MishapFact ==
  ASSUME TypeOK, NEW i \in Items, NEW more \in SUBSET Mishaps,
         mishap' = [mishap EXCEPT ![i] = @ \cup more]
  PROVE  /\ mishap' \in [Items -> SUBSET Mishaps] /\ mishap'[i] = mishap[i] \cup more
         /\ \A j \in Items : j # i => mishap'[j] = mishap[j]
BY DEF TypeOK

-----------------------------------------------------------------------------
(* RoutePass.                                                               *)

LEMMA PassMkdirStep ==
  ASSUME IndInv, NEW t \in Threads, PassMkdir(t)
  PROVE  IndInv'
<1>0. PICK i \in Items : i = item[t] /\ i \in arrived
  BY LiveItem DEF PassMkdir, Live, Ended
<1>1. Live(t) /\ pc[t] = "p_mkdir"
  BY DEF PassMkdir, Live, Ended
<1>2. /\ pc'[t] \in {"p_content", "err"} /\ pc' \in [Threads -> PCs]
      /\ \A u \in Threads : u # t => pc'[u] = pc[u]
      /\ item' = item /\ from' = from /\ qid' = qid
  BY GotoFact DEF IndInv, PassMkdir, PCs, Ended
<1>3. /\ inbox' \in [Items -> SUBSET Files]
      /\ \A j \in Items : j # i => inbox'[j] = inbox[j]
      /\ inbox'[i] \in {inbox[i], inbox[i] \cup {"dir"}}
      /\ pc'[t] = "p_content" => "dir" \in inbox'[i]
  <2>1. CASE inbox' = [inbox EXCEPT ![i] = @ \cup {"dir"}]
    <3>1. inbox[i] \cup {"dir"} \in SUBSET Files
      BY DEF IndInv, TypeOK, Files
    <3> QED BY <2>1, <3>1, InboxFact DEF IndInv
  <2>2. CASE inbox' = inbox /\ Goto(t, "err")
    BY <2>2, GotoFact DEF IndInv, TypeOK, PCs, Ended
  <2> QED BY <1>0, <2>1, <2>2 DEF PassMkdir
<1>4. TypeOK'
  BY <1>2, <1>3, FaultType DEF IndInv, TypeOK, PassMkdir, quarantine
<1>5. Frame(t) /\ Stable(t)
  BY <1>0, <1>2, <1>3 DEF Frame, Stable, PassMkdir
<1>6. ItemInv(i)'
  BY <1>0, <1>1, <1>3, Own DEF PassMkdir, ItemInv, Traced, Kept, ClearedAt, ResolvedAt,
     CleanDirs, Held, Recorded, RejectLogged, Cleared, Whole
<1>7. ThreadInv(t)'
  BY <1>0, <1>1, <1>2, <1>3, Own DEF PassMkdir, ThreadInv, Live, Ended, MayDelete,
     Progressed, Judged, Gating, Passing, Cleared, SrcOf
<1> QED BY <1>0, <1>1, <1>4, <1>5, <1>6, <1>7, FrameRule

LEMMA PassContentStep ==
  ASSUME IndInv, NEW t \in Threads, PassContent(t)
  PROVE  IndInv'
<1>0. PICK i \in Items : i = item[t] /\ i \in arrived
  BY LiveItem DEF PassContent, Live, Ended
<1>1. Live(t) /\ pc[t] = "p_content"
  BY DEF PassContent, Live, Ended
<1>2. /\ pc'[t] \in {"p_meta", "err"} /\ pc' \in [Threads -> PCs]
      /\ \A u \in Threads : u # t => pc'[u] = pc[u]
      /\ item' = item /\ from' = from /\ qid' = qid
  BY GotoFact DEF IndInv, PassContent, PCs, Ended
<1>3. /\ inbox' \in [Items -> SUBSET Files]
      /\ \A j \in Items : j # i => inbox'[j] = inbox[j]
      /\ \/ pc'[t] = "p_meta" /\ inbox'[i] = inbox[i] \cup {"content"} /\ "content" \in SrcOf(t)
         \/ pc'[t] = "err" /\ inbox'[i] = inbox[i] \ {"content"} /\ "content" \in SrcOf(t)
         \/ pc'[t] = "err" /\ inbox'[i] = inbox[i]
  <2>1. inbox[i] \cup {"content"} \in SUBSET Files /\ inbox[i] \ {"content"} \in SUBSET Files
    BY DEF IndInv, TypeOK, Files
  <2>2. CASE /\ inbox' = [inbox EXCEPT ![i] = @ \cup {"content"}] /\ Goto(t, "p_meta")
             /\ "content" \in SrcOf(t)
    BY <2>1, <2>2, InboxFact, GotoFact DEF IndInv, PCs
  <2>3. CASE /\ inbox' = [inbox EXCEPT ![i] = @ \ {"content"}] /\ Goto(t, "err")
             /\ "content" \in SrcOf(t)
    BY <2>1, <2>3, InboxFact, GotoFact DEF IndInv, PCs, Ended
  <2>4. CASE inbox' = inbox /\ Goto(t, "err")
    BY <2>4, GotoFact DEF IndInv, TypeOK, PCs, Ended
  <2> QED BY <1>0, <2>2, <2>3, <2>4 DEF PassContent, Written, Torn
<1>4. TypeOK'
  BY <1>2, <1>3, FaultType DEF IndInv, TypeOK, PassContent, quarantine
<1>5. Frame(t) /\ Stable(t)
  BY <1>0, <1>2, <1>3 DEF Frame, Stable, PassContent
<1>6. ItemInv(i)'
  <2>1. "content" \in SrcOf(t) /\ mishap[i] = {} => Held(i)
    BY <1>0, <1>1, Own, LiveItem DEF ItemInv, CleanDirs, SrcOf, Held, Sources
  <2>2. Kept(i)' /\ Traced(i)'
    BY <1>0, <1>1, <1>3, <2>1, Own DEF PassContent, ItemInv, Kept, Traced, Held, Recorded,
       RejectLogged, Whole
  <2>3. ClearedAt(i)' /\ ResolvedAt(i)' /\ CleanDirs(i)'
    BY <1>0, <1>1, <1>3, Own DEF PassContent, ItemInv, Judged, Passing, ClearedAt,
       ResolvedAt, CleanDirs, Cleared, Whole
  <2> QED BY <2>2, <2>3 DEF ItemInv
<1>7. ThreadInv(t)'
  BY <1>0, <1>1, <1>2, <1>3, Own DEF PassContent, ThreadInv, Live, Ended, MayDelete,
     Progressed, Judged, Gating, Passing, Cleared, SrcOf
<1> QED BY <1>0, <1>1, <1>4, <1>5, <1>6, <1>7, FrameRule

LEMMA PassMetaStep ==
  ASSUME IndInv, NEW t \in Threads, PassMeta(t)
  PROVE  IndInv'
<1>0. PICK i \in Items : i = item[t] /\ i \in arrived
  BY LiveItem DEF PassMeta, Live, Ended
<1>1. Live(t) /\ pc[t] = "p_meta"
  BY DEF PassMeta, Live, Ended
<1>2. /\ pc'[t] \in {"p_audit", "err"} /\ pc' \in [Threads -> PCs]
      /\ \A u \in Threads : u # t => pc'[u] = pc[u]
      /\ item' = item /\ from' = from /\ qid' = qid
  BY GotoFact DEF IndInv, PassMeta, PCs, Ended
<1>3. /\ inbox' \in [Items -> SUBSET Files]
      /\ \A j \in Items : j # i => inbox'[j] = inbox[j]
      /\ \/ /\ pc'[t] = "p_audit" /\ "metadata" \in SrcOf(t)
            /\ inbox'[i] = (inbox[i] \ {"resolved"}) \cup {"metadata"}
                             \cup (SrcOf(t) \cap {"resolved"})
         \/ pc'[t] = "err" /\ inbox'[i] = (inbox[i] \ {"resolved"}) \ {"metadata"}
         \/ pc'[t] = "err" /\ inbox'[i] = inbox[i]
  <2> DEFINE copy == (inbox[i] \ {"resolved"}) \cup {"metadata"}
                       \cup (SrcOf(t) \cap {"resolved"})
             torn == (inbox[i] \ {"resolved"}) \ {"metadata"}
  <2>1. copy \in SUBSET Files /\ torn \in SUBSET Files
    BY DEF IndInv, TypeOK, Files
  <2>2. \/ /\ inbox' = [inbox EXCEPT ![i] = copy]
           /\ Goto(t, "p_audit") /\ "metadata" \in SrcOf(t)
        \/ inbox' = [inbox EXCEPT ![i] = torn] /\ Goto(t, "err")
        \/ inbox' = inbox /\ Goto(t, "err")
    BY <1>0 DEF PassMeta, Written, Torn
  <2> HIDE DEF copy, torn
  <2>3. CASE /\ inbox' = [inbox EXCEPT ![i] = copy]
             /\ Goto(t, "p_audit") /\ "metadata" \in SrcOf(t)
    <3>1. inbox' \in [Items -> SUBSET Files] /\ inbox'[i] = copy
          /\ \A j \in Items : j # i => inbox'[j] = inbox[j]
      BY <2>1, <2>3, InboxFact DEF IndInv
    <3> QED BY <2>3, <3>1, GotoFact DEF IndInv, PCs, copy
  <2>4. CASE inbox' = [inbox EXCEPT ![i] = torn] /\ Goto(t, "err")
    <3>1. inbox' \in [Items -> SUBSET Files] /\ inbox'[i] = torn
          /\ \A j \in Items : j # i => inbox'[j] = inbox[j]
      BY <2>1, <2>4, InboxFact DEF IndInv
    <3> QED BY <2>4, <3>1, GotoFact DEF IndInv, PCs, Ended, torn
  <2>5. CASE inbox' = inbox /\ Goto(t, "err")
    BY <2>5, GotoFact DEF IndInv, TypeOK, PCs, Ended
  <2> QED BY <2>2, <2>3, <2>4, <2>5
<1>4. TypeOK'
  BY <1>2, <1>3, FaultType DEF IndInv, TypeOK, PassMeta, quarantine
<1>5. Frame(t) /\ Stable(t)
  BY <1>0, <1>2, <1>3 DEF Frame, Stable, PassMeta
<1>6. ItemInv(i)'
  <2>1. mishap[i] = {} => Held(i)
    BY <1>0, <1>1, Own, LiveItem DEF ItemInv, CleanDirs, Progressed, SrcOf, Held, Sources
  <2>2. Kept(i)' /\ Traced(i)'
    BY <1>0, <1>1, <1>3, <2>1, Own DEF PassMeta, ItemInv, Kept, Traced, Held, Recorded,
       RejectLogged, Whole
  <2>3. ClearedAt(i)' /\ ResolvedAt(i)' /\ CleanDirs(i)'
    BY <1>0, <1>1, <1>3, Own DEF PassMeta, ItemInv, Judged, Passing, ClearedAt,
       ResolvedAt, CleanDirs, Cleared, Whole
  <2> QED BY <2>2, <2>3 DEF ItemInv
<1>7. ThreadInv(t)'
  BY <1>0, <1>1, <1>2, <1>3, Own DEF PassMeta, ThreadInv, Live, Ended, MayDelete,
     Progressed, Judged, Gating, Passing, Cleared, SrcOf, Whole
<1> QED BY <1>0, <1>1, <1>4, <1>5, <1>6, <1>7, FrameRule

\* Appending to the audit log, for the three kinds of record.
LEMMA AppendStep ==
  ASSUME IndInv, NEW t \in Threads, NEW verdict \in Verdicts, NEW next \in PCs,
         appendJSONL(t, verdict, next),
         \/ pc[t] = "p_audit" /\ verdict = "pass" /\ next = "p_remove"
         \/ pc[t] = "q_audit" /\ verdict = "quarantine" /\ next = "q_remove"
         \/ pc[t] = "r_audit" /\ verdict = "reject" /\ next = "r_remove",
         UNCHANGED <<attr, arrived, dir, read, inbox, placeholder, quarantine, mishap>>
  PROVE  IndInv'
<1>1. Live(t)
  BY DEF Live, Ended
<1>0. PICK i \in Items : i = item[t] /\ i \in arrived
  BY <1>1, LiveItem
<1>2. /\ pc'[t] \in {next, "err"} /\ pc' \in [Threads -> PCs]
      /\ \A u \in Threads : u # t => pc'[u] = pc[u]
      /\ item' = item /\ from' = from /\ qid' = qid
  BY GotoFact DEF IndInv, appendJSONL, PCs, Ended
<1>3. /\ audit' \in [Items -> SUBSET Verdicts]
      /\ \A j \in Items : j # i => audit'[j] = audit[j]
      /\ audit[i] \subseteq audit'[i]
      /\ pc'[t] = next => verdict \in audit'[i]
  <2>1. CASE audit' = [audit EXCEPT ![i] = @ \cup {verdict}]
    BY <2>1 DEF IndInv, TypeOK
  <2>2. CASE audit' = audit /\ Goto(t, "err")
    BY <2>2, GotoFact DEF IndInv, TypeOK, PCs, Ended
  <2> QED BY <1>0, <2>1, <2>2 DEF appendJSONL
<1>4. TypeOK'
  <2>1. degraded' \in BOOLEAN /\ faults' \in 0..MaxFaults
    BY FaultType DEF IndInv, appendJSONL
  <2> QED BY <1>2, <1>3, <2>1 DEF IndInv, TypeOK, quarantine
<1>5. Frame(t) /\ Stable(t)
  BY <1>0, <1>2, <1>3 DEF Frame, Stable
<1>6. ItemInv(i)'
  BY <1>0, <1>1, <1>3, Own DEF ItemInv, Traced, Kept, ClearedAt, ResolvedAt,
     CleanDirs, Held, Recorded, RejectLogged, Cleared, Whole
<1>7. ThreadInv(t)'
  BY <1>0, <1>1, <1>2, <1>3, Own DEF ThreadInv, Live, Ended, MayDelete, Recorded, RejectLogged,
     Progressed, Judged, Gating, Passing, Cleared, SrcOf, Whole
<1> QED BY <1>0, <1>1, <1>4, <1>5, <1>6, <1>7, FrameRule

LEMMA RemoveSourceFact ==
  ASSUME TypeOK, NEW t \in Threads, NEW i \in Items, i = item[t], NEW next \in PCs,
         RemoveSource(t, next)
  PROVE  /\ dir' \in [Sources -> [Items -> SUBSET Files]]
         /\ \A s \in Sources, j \in Items :
              s # from[t] \/ j # i => dir'[s][j] = dir[s][j]
         /\ mishap' \in [Items -> SUBSET Mishaps]
         /\ \A j \in Items : j # i => mishap'[j] = mishap[j]
         /\ mishap[i] \subseteq mishap'[i]
         /\ mishap'[i] = {} => dir'[from[t]][i] = {}
         /\ "metadata" \in dir'[from[t]][i] =>
              "metadata" \in SrcOf(t)
              /\ ("resolved" \in SrcOf(t) => "resolved" \in dir'[from[t]][i])
<1>1. SrcOf(t) \in SUBSET Files
  BY DEF TypeOK, SrcOf
<1>2. CASE SetSrc(t, {}) /\ UNCHANGED mishap
  BY <1>2, SetSrcFact DEF TypeOK
<1>3. CASE /\ \E gone \in SUBSET (SrcOf(t) \ {"dir", "resolved"}) :
                SetSrc(t, SrcOf(t) \ Named(gone))
           /\ mishap' = [mishap EXCEPT ![i] = @ \cup {"leftover"}]
  <2>1. PICK gone \in SUBSET (SrcOf(t) \ {"dir", "resolved"}) :
               SetSrc(t, SrcOf(t) \ Named(gone))
    BY <1>3
  <2>2. /\ dir' \in [Sources -> [Items -> SUBSET Files]]
        /\ dir'[from[t]][i] = SrcOf(t) \ Named(gone)
        /\ \A s \in Sources, j \in Items :
              s # from[t] \/ j # i => dir'[s][j] = dir[s][j]
    BY <1>1, <2>1, SetSrcFact
  <2>3. /\ mishap' \in [Items -> SUBSET Mishaps] /\ mishap'[i] = mishap[i] \cup {"leftover"}
        /\ \A j \in Items : j # i => mishap'[j] = mishap[j]
    BY <1>3, MishapFact DEF Mishaps
  <2> QED BY <2>2, <2>3 DEF Named
<1> QED BY <1>2, <1>3 DEF RemoveSource

\* The RemoveAll at the end of RoutePass, RouteQuarantine, RouteReject and
\* copyDir.
LEMMA RemoveStep ==
  ASSUME IndInv, NEW t \in Threads, NEW next \in PCs, RemoveSource(t, next),
         \/ pc[t] = "p_remove" /\ next = "p_pend"
         \/ pc[t] \in {"q_remove", "r_remove", "f_remove"} /\ next = "ok",
         UNCHANGED <<attr, arrived, read, inbox, placeholder, quarantine, audit, degraded>>
  PROVE  IndInv' /\ Frame(t)
<1>1. Live(t)
  BY DEF Live, Ended
<1>0. PICK i \in Items : i = item[t] /\ i \in arrived
  BY <1>1, LiveItem
<1>2. /\ pc'[t] = next /\ pc' \in [Threads -> PCs]
      /\ \A u \in Threads : u # t => pc'[u] = pc[u]
      /\ item' = item /\ from' = from /\ qid' = qid
  BY GotoFact DEF IndInv, RemoveSource
<1>3. /\ dir' \in [Sources -> [Items -> SUBSET Files]]
      /\ \A s \in Sources, j \in Items : s # from[t] \/ j # i => dir'[s][j] = dir[s][j]
      /\ mishap' \in [Items -> SUBSET Mishaps]
      /\ \A j \in Items : j # i => mishap'[j] = mishap[j]
      /\ mishap[i] \subseteq mishap'[i]
      /\ mishap'[i] = {} => dir'[from[t]][i] = {}
      /\ "metadata" \in dir'[from[t]][i] =>
           "metadata" \in SrcOf(t)
           /\ ("resolved" \in SrcOf(t) => "resolved" \in dir'[from[t]][i])
  <2>1. TypeOK /\ i = item[t]
    BY <1>0 DEF IndInv
  <2> QED BY <2>1, RemoveSourceFact
<1>4. TypeOK'
  <2>1. faults' \in 0..MaxFaults
    BY FaultType DEF IndInv, RemoveSource
  <2> QED BY <1>2, <1>3, <2>1 DEF IndInv, TypeOK, quarantine
<1>5. from[t] \in Sources /\ "failed" \in Sources /\ "staging" \in Sources
  BY DEF IndInv, TypeOK, Sources
<1>6. Recorded(i) \/ "recopied" \in mishap[i] \/ (from[t] # "failed" /\ Whole(dir["failed"][i]))
  BY <1>0, <1>1, Own DEF MayDelete
<1>7. Frame(t)
  BY <1>0, <1>2, <1>3 DEF Frame
<1>8. Stable(t)
  BY <1>0, <1>3, <1>5, <1>6 DEF Stable, Recorded
<1>9. ItemInv(i)'
  <2>1. Traced(i)'
    BY <1>3, <1>5, <1>6 DEF Traced, Held, Recorded
  <2>2. Kept(i)'
    <3> SUFFICES ASSUME mishap'[i] = {}
                 PROVE  (Held(i) \/ Whole(inbox[i]) \/ RejectLogged(i))'
      BY DEF Kept
    <3>1. mishap[i] = {}
      BY <1>3
    <3>2. CASE pc[t] = "p_remove"
      BY <3>1, <3>2, <1>0, <1>1, Own DEF Progressed
    <3>3. CASE pc[t] \in {"q_remove", "r_remove"}
      BY <3>3, <1>0, <1>1, Own DEF MayDelete, RejectLogged
    <3>4. CASE pc[t] = "f_remove"
      <4>1. from[t] # "failed"
        BY <3>1, <3>4, <1>0, <1>1, Own DEF MayDelete
      <4>2. Whole(dir["failed"][i]) \/ Whole(inbox[i]) \/ RejectLogged(i)
        BY <3>1, <3>4, <1>0, <1>1, Own DEF Progressed
      <4> QED BY <4>1, <4>2, <1>3, <1>5 DEF Held, RejectLogged
    <3> QED BY <3>2, <3>3, <3>4
  <2>3. CleanDirs(i)'
    BY <1>0, <1>1, <1>3, <1>5, Own DEF ItemInv, CleanDirs
  <2>4. ClearedAt(i)' /\ ResolvedAt(i)'
    BY <1>0, <1>1, <1>3, Own DEF ItemInv, ClearedAt, ResolvedAt, Cleared
  <2> QED BY <2>1, <2>2, <2>3, <2>4 DEF ItemInv
<1>10. ThreadInv(t)'
  BY <1>0, <1>1, <1>2, <1>3, Own DEF ThreadInv, Live, Ended, MayDelete, Progressed, Judged,
     Gating, Passing, Cleared, SrcOf
<1> QED BY <1>0, <1>1, <1>4, <1>7, <1>8, <1>9, <1>10, FrameRule

\* A step that touches nothing IndInv speaks of but the program counter.
LEMMA QuietStep ==
  ASSUME IndInv, TypeOK', NEW t \in Threads, Live(t),
         NEW next \in {"q_meta", "q_note", "q_audit", "ok", "err"},
         pc' = [pc EXCEPT ![t] = next],
         UNCHANGED <<attr, arrived, dir, read, inbox, audit, mishap, item, from>>
  PROVE  IndInv'
<1>0. PICK i \in Items : i = item[t] /\ i \in arrived
  BY LiveItem
<1>1. pc'[t] = next /\ \A u \in Threads : u # t => pc'[u] = pc[u]
  BY DEF IndInv, TypeOK
<1>2. Frame(t) /\ Stable(t)
  BY <1>1 DEF Frame, Stable
<1>3. ItemInv(i)'
  BY <1>0, Own DEF ItemInv, Traced, Kept, ClearedAt, ResolvedAt, CleanDirs, Held,
     Recorded, RejectLogged, Cleared, Whole
<1>4. ThreadInv(t)'
  BY <1>0, <1>1 DEF ThreadInv, MayDelete, Progressed, Judged, Gating, Passing
<1> QED BY <1>0, <1>2, <1>3, <1>4, FrameRule

LEMMA PassPendStep ==
  ASSUME IndInv, NEW t \in Threads, PassPend(t)
  PROVE  IndInv'
<1>1. TypeOK'
  BY GotoFact, FaultType DEF IndInv, TypeOK, PassPend, RemovePending, PCs, Ended, quarantine
<1> QED BY <1>1, QuietStep DEF PassPend, Goto, Live, Ended

LEMMA QuarantineWriteStep ==
  ASSUME IndInv, NEW t \in Threads,
         QuarantineContent(t) \/ QuarantineMeta(t) \/ QuarantineNote(t)
  PROVE  IndInv'
<1>0. PICK i \in Items : i = item[t]
  BY LiveItem DEF QuarantineContent, QuarantineMeta, QuarantineNote, Live, Ended
<1>1. CASE QuarantineContent(t)
  <2>1. \A s \in Seconds : <<s, attr[item[t]].hash>> \in QIds
    BY <1>0, DeliveryAssumption DEF IndInv, TypeOK, QIds, AttrType
  <2>2. PICK next \in {"q_meta", "err"} :
          pc' = [pc EXCEPT ![t] = next] /\ UNCHANGED <<item, from>>
    BY <1>1 DEF QuarantineContent, Goto
  <2>3. sanitized' \subseteq QIds /\ qid' \in [Threads -> QIds \cup {NoQId}]
    BY <1>1, <2>1 DEF QuarantineContent, Goto, IndInv, TypeOK
  <2>4. TypeOK'
    BY <1>1, <2>2, <2>3, FaultType DEF IndInv, TypeOK, QuarantineContent, PCs, Ended
  <2> QED BY <1>1, <2>2, <2>4, QuietStep DEF QuarantineContent, Live, Ended
<1>2. CASE QuarantineMeta(t)
  <2>1. TypeOK'
    BY <1>2, <1>0, GotoFact, FaultType DEF IndInv, TypeOK, QuarantineMeta, PCs, Ended
  <2> QED BY <1>2, <2>1, QuietStep DEF QuarantineMeta, Goto, Live, Ended
<1>3. CASE QuarantineNote(t)
  <2>1. TypeOK'
    BY <1>3, <1>0, GotoFact, FaultType DEF IndInv, TypeOK, QuarantineNote, PCs, Ended
  <2> QED BY <1>3, <2>1, QuietStep DEF QuarantineNote, Goto, Live, Ended
<1> QED BY <1>1, <1>2, <1>3

-----------------------------------------------------------------------------
(* The subject gate.                                                        *)

\* A rewrite of the source directory that keeps what is there and loses at
\* most metadata.json.tmp.
LEMMA GateRule ==
  ASSUME IndInv, TypeOK', NEW t \in Threads, pc[t] \in Gating,
         NEW files \in SUBSET Files, NEW next \in PCs,
         \/ SetSrc(t, files) \/ (UNCHANGED dir /\ files = SrcOf(t)),
         pc' = [pc EXCEPT ![t] = next],
         UNCHANGED <<attr, arrived, read, inbox, audit, mishap, item, from>>,
         SrcOf(t) \ {"tmp"} \subseteq files,
         "content" \in files => "content" \in SrcOf(t),
         \/ next \in {"gate_rename", "f_rename", "q_content", "r_audit"}
         \/ next = "p_mkdir" /\ Cleared(attr[item[t]]) /\ "resolved" \in files
  PROVE  IndInv' /\ Frame(t)
<1>1. Live(t)
  BY DEF Live, Ended, Gating
<1>0. PICK i \in Items : i = item[t] /\ i \in arrived
  BY <1>1, LiveItem
<1>2. pc'[t] = next /\ \A u \in Threads : u # t => pc'[u] = pc[u]
  BY DEF IndInv, TypeOK
<1>3. /\ dir'[from[t]][i] = files
      /\ \A s \in Sources, j \in Items : s # from[t] \/ j # i => dir'[s][j] = dir[s][j]
  BY <1>0, SetSrcFact DEF IndInv, SrcOf
<1>4. \A s \in Sources : Whole(dir[s][i]) => Whole(dir'[s][i])
  BY <1>0, <1>3 DEF Whole, SrcOf
<1>5. Frame(t) /\ Stable(t)
  BY <1>0, <1>2, <1>3, <1>4 DEF Frame, Stable, Sources
<1>6. ItemInv(i)'
  <2>1. Traced(i)' /\ Kept(i)'
    BY <1>0, <1>1, <1>4, Own DEF ItemInv, Traced, Kept, Held, Recorded, RejectLogged, Whole, Sources
  <2>2. ClearedAt(i)' /\ ResolvedAt(i)'
    BY <1>0, <1>1, Own DEF ItemInv, ClearedAt, ResolvedAt, Cleared
  <2>3. CleanDirs(i)'
    BY <1>0, <1>1, <1>3, <1>4, Own, LiveItem DEF ItemInv, CleanDirs, SrcOf
  <2> QED BY <2>1, <2>2, <2>3 DEF ItemInv
<1>7. ThreadInv(t)'
  BY <1>0, <1>1, <1>2, <1>3, Own DEF ThreadInv, MayDelete, Progressed, Judged, Gating,
     Passing, Cleared, SrcOf
<1> QED BY <1>0, <1>1, <1>5, <1>6, <1>7, FrameRule

LEMMA GateTmpStep ==
  ASSUME IndInv, NEW t \in Threads, GateTmp(t)
  PROVE  IndInv' /\ Frame(t)
<1>1. Live(t) /\ pc[t] \in Gating
  BY DEF GateTmp, Live, Ended, Gating
<1>2. item[t] \in Items /\ SrcOf(t) \in SUBSET Files
  BY <1>1, LiveItem DEF IndInv, TypeOK, SrcOf
<1>3. TypeOK /\ SrcOf(t) \cup {"tmp"} \in SUBSET Files
  BY <1>2 DEF IndInv, Files
<1>4. PICK files \in SUBSET Files, next \in {"gate_rename", "f_rename"} :
        /\ SetSrc(t, files) \/ (UNCHANGED dir /\ files = SrcOf(t))
        /\ files \in {SrcOf(t), SrcOf(t) \cup {"tmp"}}
        /\ Goto(t, next)
  BY <1>2, <1>3 DEF GateTmp
<1>5. dir' \in [Sources -> [Items -> SUBSET Files]]
  BY <1>2, <1>3, <1>4, SetSrcFact DEF TypeOK
<1>6. faults' \in 0..MaxFaults /\ placeholder' \subseteq Items
  BY <1>3, FaultType DEF GateTmp, TypeOK
<1>7. next \in PCs
  BY DEF PCs
<1>8. TypeOK'
  BY <1>3, <1>4, <1>5, <1>6, <1>7, GotoFact DEF TypeOK, GateTmp, quarantine
<1> QED BY <1>1, <1>4, <1>7, <1>8, GateRule DEF GateTmp, Goto

LEMMA GateRenameStep ==
  ASSUME IndInv, NEW t \in Threads, GateRename(t)
  PROVE  IndInv' /\ Frame(t)
<1>1. Live(t) /\ pc[t] \in Gating
  BY DEF GateRename, Live, Ended, Gating
<1>2. item[t] \in Items /\ SrcOf(t) \in SUBSET Files
  BY <1>1, LiveItem DEF IndInv, TypeOK, SrcOf
<1>3. /\ TypeOK /\ SrcOf(t) \ {"tmp"} \in SUBSET Files
      /\ (SrcOf(t) \ {"tmp"}) \cup {"metadata", "resolved"} \in SUBSET Files
  BY <1>2 DEF IndInv, Files
<1>4. /\ Routed(attr[item[t]]) \in {"q_content", "r_audit", "p_mkdir"}
      /\ Routed(attr[item[t]]) = "p_mkdir" => Cleared(attr[item[t]])
  <2>1. attr[item[t]] \in AttrType
    BY <1>2, <1>3, DeliveryAssumption DEF TypeOK
  <2>2. /\ attr[item[t]].valid /\ ~attr[item[t]].tagged
        /\ attr[item[t]].subject = "known"
    BY <1>1, Own DEF Judged
  <2> QED BY <2>1, <2>2 DEF Routed, Cleared, AttrType
<1>5. PICK files \in SUBSET Files, next \in {"f_rename", "q_content", "r_audit", "p_mkdir"} :
        /\ SetSrc(t, files) \/ (UNCHANGED dir /\ files = SrcOf(t))
        /\ files \in {SrcOf(t), SrcOf(t) \ {"tmp"},
                      (SrcOf(t) \ {"tmp"}) \cup {"metadata", "resolved"}}
        /\ next = "p_mkdir" => Cleared(attr[item[t]]) /\ "resolved" \in files
        /\ Goto(t, next)
  BY <1>2, <1>3, <1>4 DEF GateRename
<1>6. dir' \in [Sources -> [Items -> SUBSET Files]]
  BY <1>2, <1>3, <1>5, SetSrcFact DEF TypeOK
<1>7. faults' \in 0..MaxFaults /\ placeholder' \subseteq Items
  BY <1>3, FaultType DEF GateRename, TypeOK
<1>8. next \in PCs
  BY DEF PCs
<1>9. TypeOK'
  BY <1>3, <1>5, <1>6, <1>7, <1>8, GotoFact DEF TypeOK, GateRename, quarantine
<1>10. /\ SrcOf(t) \ {"tmp"} \subseteq files
       /\ "content" \in files => "content" \in SrcOf(t)
  BY <1>5
<1> QED BY <1>1, <1>5, <1>8, <1>9, <1>10, GateRule DEF GateRename, Goto

-----------------------------------------------------------------------------
(* RouteToFailed.                                                           *)

LEMMA FailRenameStep ==
  ASSUME IndInv, NEW t \in Threads, FailRename(t)
  PROVE  IndInv' /\ Frame(t)
<1>1. Live(t) /\ pc[t] = "f_rename"
  BY DEF FailRename, Live, Ended
<1>0. PICK i \in Items : i = item[t] /\ i \in arrived
  BY <1>1, LiveItem
<1>2. /\ pc'[t] \in {"ok", "err", "f_copy"} /\ pc' \in [Threads -> PCs]
      /\ \A u \in Threads : u # t => pc'[u] = pc[u]
      /\ item' = item /\ from' = from /\ qid' = qid
  BY GotoFact DEF IndInv, FailRename, PCs, Ended
<1>3. /\ dir' \in [Sources -> [Items -> SUBSET Files]]
      /\ \A s \in Sources, j \in Items : j # i => dir'[s][j] = dir[s][j]
      /\ \/ \A s \in Sources : dir'[s][i] = dir[s][i]
         \/ /\ dir["failed"][i] = {} /\ dir'["staging"][i] = {}
            /\ dir'["failed"][i] = dir["staging"][i]
  <2>1. dir \in [Sources -> [Items -> SUBSET Files]]
    BY DEF IndInv, TypeOK
  <2>2. CASE dir' = dir
    BY <2>1, <2>2
  <2>3. CASE dir["failed"][i] = {} /\ dir' = [dir EXCEPT !["staging"][i] = {},
                                                         !["failed"][i] = dir["staging"][i]]
    <3> DEFINE st == [dir["staging"] EXCEPT ![i] = {}]
               fl == [dir["failed"] EXCEPT ![i] = dir["staging"][i]]
    <3>1. /\ st \in [Items -> SUBSET Files] /\ fl \in [Items -> SUBSET Files]
          /\ st[i] = {} /\ fl[i] = dir["staging"][i]
          /\ \A j \in Items : j # i => st[j] = dir["staging"][j] /\ fl[j] = dir["failed"][j]
      BY <2>1 DEF Sources
    <3>2. dir' = [dir EXCEPT !["staging"] = st, !["failed"] = fl]
      BY <2>1, <2>3 DEF Sources
    <3> HIDE DEF st, fl
    <3>3. dir'["staging"] = st /\ dir'["failed"] = fl
      BY <2>1, <3>2 DEF Sources
    <3>4. dir' \in [Sources -> [Items -> SUBSET Files]]
      BY <2>1, <3>1, <3>2
    <3> QED BY <2>3, <3>1, <3>3, <3>4 DEF Sources
  <2> QED BY <1>0, <2>2, <2>3 DEF FailRename
<1>4. TypeOK'
  BY <1>2, <1>3, FaultType DEF IndInv, TypeOK, FailRename, quarantine
<1>5. Frame(t) /\ Stable(t)
  BY <1>0, <1>2, <1>3 DEF Frame, Stable, FailRename, Whole, Sources
<1>6. ItemInv(i)'
  BY <1>0, <1>1, <1>3, Own DEF FailRename, ItemInv, Traced, Kept, ClearedAt, ResolvedAt,
     CleanDirs, Held, Recorded, RejectLogged, Cleared, Whole, Sources
<1>7. ThreadInv(t)'
  BY <1>0, <1>2 DEF ThreadInv, Live, Ended, MayDelete, Progressed, Judged, Gating, Passing
<1> QED BY <1>0, <1>1, <1>4, <1>5, <1>6, <1>7, FrameRule

\* copyDir into a directory that is not there: it is complete if the source is.
LEMMA CopyOverFact ==
  ASSUME NEW dst \in SUBSET Files, NEW src \in SUBSET Files,
         NEW copied \in SUBSET src, NEW torn
  PROVE  /\ CopyOver(dst, src, copied, torn) \in SUBSET Files
         /\ copied \subseteq CopyOver(dst, src, copied, torn)
         /\ "dir" \in CopyOver(dst, src, copied, torn)
         /\ dst = {} => CopyOver(dst, src, copied, torn) \subseteq src \cup {"dir"}
BY DEF CopyOver, Named, Files

LEMMA FailCopyStep ==
  ASSUME IndInv, NEW t \in Threads, FailCopy(t)
  PROVE  IndInv' /\ Frame(t)
<1>1. Live(t) /\ pc[t] = "f_copy"
  BY DEF FailCopy, Live, Ended
<1>0. PICK i \in Items : i = item[t] /\ i \in arrived
  BY <1>1, LiveItem
<1>2. /\ pc'[t] \in {"f_remove", "err"} /\ pc' \in [Threads -> PCs]
      /\ \A u \in Threads : u # t => pc'[u] = pc[u]
      /\ item' = item /\ from' = from /\ qid' = qid
  BY GotoFact DEF IndInv, FailCopy, PCs, Ended
<1> DEFINE names == SrcOf(t) \ {"dir", "resolved"}
           over == IF from[t] = "failed" \/ (SrcOf(t) # {} /\ dir["failed"][i] # {})
                   THEN {"recopied"} ELSE {}
<1>3. SrcOf(t) \in SUBSET Files /\ dir["failed"][i] \in SUBSET Files /\ TypeOK
  BY <1>0, <1>1, LiveItem DEF IndInv, TypeOK, SrcOf, Sources
<1>4. over \in SUBSET Mishaps /\ over \cup {"leftover"} \in SUBSET Mishaps
  BY DEF Mishaps
\* The three outcomes, in terms of the new failed/<item>.
<1>5. \E files \in SUBSET Files, more \in SUBSET Mishaps :
        /\ dir' = [dir EXCEPT !["failed"][i] = files]
        /\ mishap' = [mishap EXCEPT ![i] = @ \cup more]
        /\ \/ /\ pc'[t] = "f_remove" /\ more = over
              /\ files = CopyOver(dir["failed"][i], SrcOf(t), names, {})
              /\ SrcOf(t) # {} \/ from[t] = "failed"
           \/ /\ pc'[t] = "err" /\ more = {} /\ files = dir["failed"][i] \cup {"dir"}
           \/ /\ pc'[t] = "err" /\ more = over \cup {"leftover"} /\ SrcOf(t) # {}
  <2>1. CASE /\ SrcOf(t) # {} \/ from[t] = "failed"
             /\ dir' = [dir EXCEPT !["failed"][i] = CopyOver(@, SrcOf(t), names, {})]
             /\ mishap' = [mishap EXCEPT ![i] = @ \cup over]
             /\ Goto(t, "f_remove")
    <3>1. CopyOver(dir["failed"][i], SrcOf(t), names, {}) \in SUBSET Files
      BY <1>3, CopyOverFact
    <3>2. pc'[t] = "f_remove"
      BY <1>3, <2>1, GotoFact DEF PCs
    <3> HIDE DEF names, over
    <3> QED BY <1>4, <2>1, <3>1, <3>2
  <2>2. CASE /\ dir' = [dir EXCEPT !["failed"][i] = @ \cup {"dir"}]
             /\ mishap' = mishap /\ Goto(t, "err")
    <3>1. dir["failed"][i] \cup {"dir"} \in SUBSET Files
      BY <1>3 DEF Files
    <3>2. pc'[t] = "err"
      BY <1>3, <2>2, GotoFact DEF PCs, Ended
    <3>3. mishap' = [mishap EXCEPT ![i] = @ \cup {}]
      BY <1>3, <2>2 DEF TypeOK
    <3> QED BY <2>2, <3>1, <3>2, <3>3
  <2>3. CASE /\ SrcOf(t) # {}
             /\ \E copied \in SUBSET names : \E torn \in SUBSET (names \ copied) :
                  dir' = [dir EXCEPT !["failed"][i] = CopyOver(@, SrcOf(t), copied, torn)]
             /\ mishap' = [mishap EXCEPT ![i] = @ \cup over \cup {"leftover"}]
             /\ Goto(t, "err")
    <3>1. PICK copied \in SUBSET names, torn \in SUBSET names :
            dir' = [dir EXCEPT !["failed"][i] = CopyOver(@, SrcOf(t), copied, torn)]
      BY <2>3
    <3>2. CopyOver(dir["failed"][i], SrcOf(t), copied, torn) \in SUBSET Files
      BY <1>3, <3>1, CopyOverFact
    <3>3. pc'[t] = "err"
      BY <1>3, <2>3, GotoFact DEF PCs, Ended
    <3>4. mishap' = [mishap EXCEPT ![i] = @ \cup (over \cup {"leftover"})]
      BY <2>3
    <3> HIDE DEF names, over
    <3> QED BY <1>4, <2>3, <3>1, <3>2, <3>3, <3>4
  <2> QED BY <1>0, <2>1, <2>2, <2>3 DEF FailCopy
<1> HIDE DEF names, over
<1>6. PICK files \in SUBSET Files, more \in SUBSET Mishaps :
        /\ dir' = [dir EXCEPT !["failed"][i] = files]
        /\ mishap' = [mishap EXCEPT ![i] = @ \cup more]
        /\ \/ /\ pc'[t] = "f_remove" /\ more = over
              /\ files = CopyOver(dir["failed"][i], SrcOf(t), names, {})
              /\ SrcOf(t) # {} \/ from[t] = "failed"
           \/ /\ pc'[t] = "err" /\ more = {} /\ files = dir["failed"][i] \cup {"dir"}
           \/ /\ pc'[t] = "err" /\ more = over \cup {"leftover"} /\ SrcOf(t) # {}
  BY <1>5
<1>7. /\ dir' \in [Sources -> [Items -> SUBSET Files]]
      /\ dir'["failed"][i] = files /\ dir'["staging"][i] = dir["staging"][i]
      /\ \A s \in Sources, j \in Items : j # i => dir'[s][j] = dir[s][j]
  <2> DEFINE row == [dir["failed"] EXCEPT ![i] = files]
  <2>1. dir \in [Sources -> [Items -> SUBSET Files]] /\ "failed" \in Sources
    BY <1>3 DEF TypeOK, Sources
  <2>2. /\ row \in [Items -> SUBSET Files] /\ row[i] = files
        /\ \A j \in Items : j # i => row[j] = dir["failed"][j]
    BY <2>1
  <2>3. dir' = [dir EXCEPT !["failed"] = row]
    BY <1>6, <2>1
  <2> HIDE DEF row
  <2> QED BY <2>1, <2>2, <2>3 DEF Sources
<1>8. /\ mishap' \in [Items -> SUBSET Mishaps] /\ mishap'[i] = mishap[i] \cup more
      /\ \A j \in Items : j # i => mishap'[j] = mishap[j]
  BY <1>3, <1>6, MishapFact
<1>9. TypeOK'
  BY <1>2, <1>7, <1>8, FaultType DEF IndInv, TypeOK, FailCopy, quarantine
<1>10. CASE "recopied" \in more
  <2>1. "recopied" \in mishap'[i]
    BY <1>8, <1>10
  <2>2. Frame(t) /\ Stable(t)
    BY <1>0, <1>2, <1>7, <1>8, <2>1 DEF Frame, Stable, FailCopy, Sources
  <2>3. ItemInv(i)'
    BY <1>0, <1>1, <1>8, <2>1, Own DEF FailCopy, ItemInv, Traced, Kept, ClearedAt,
       ResolvedAt, CleanDirs, Cleared
  <2>4. ThreadInv(t)'
    BY <1>0, <1>2, <2>1 DEF ThreadInv, Live, Ended, MayDelete, Progressed, Judged, Gating,
       Passing
  <2> QED BY <1>0, <1>1, <1>9, <2>2, <2>3, <2>4, FrameRule
<1>11. CASE "recopied" \notin more
  <2>1. \/ /\ pc'[t] = "f_remove" /\ from[t] # "failed" /\ SrcOf(t) # {}
           /\ dir["failed"][i] = {} /\ more = {}
           /\ files = CopyOver({}, SrcOf(t), names, {})
        \/ pc'[t] = "err" /\ files = dir["failed"][i] \cup {"dir"} /\ more = {}
        \/ pc'[t] = "err" /\ dir["failed"][i] = {} /\ "leftover" \in more
    BY <1>6, <1>11 DEF over
  <2>2. from[t] # "failed" => SrcOf(t) = dir["staging"][i]
    BY <1>0, <1>3 DEF SrcOf, TypeOK, Sources
  <2>3. pc'[t] = "f_remove" =>
          /\ Whole(dir["staging"][i]) => Whole(files)
          /\ "content" \in files => "content" \in dir["staging"][i]
    <3>1. names \in SUBSET SrcOf(t) /\ {} \in SUBSET Files
      BY DEF names
    <3>2. /\ names \subseteq CopyOver({}, SrcOf(t), names, {})
          /\ "dir" \in CopyOver({}, SrcOf(t), names, {})
          /\ CopyOver({}, SrcOf(t), names, {}) \subseteq SrcOf(t) \cup {"dir"}
      BY <1>3, <3>1, CopyOverFact
    <3>3. {"content", "metadata"} \subseteq SrcOf(t) => {"content", "metadata"} \subseteq names
      BY DEF names
    <3> QED BY <2>1, <2>2, <3>2, <3>3 DEF Whole
  <2>4. Whole(dir["failed"][i]) => Whole(files)
    BY <2>1 DEF Whole
  <2>5. Frame(t) /\ Stable(t)
    BY <1>0, <1>2, <1>7, <1>8, <2>4 DEF Frame, Stable, FailCopy, Sources
  <2>6. ItemInv(i)'
    <3>1. Held(i) => Held(i)'
      BY <1>7, <2>4 DEF Held
    <3>2. Traced(i)' /\ Kept(i)' /\ ClearedAt(i)' /\ ResolvedAt(i)'
      BY <1>0, <1>1, <1>8, <3>1, Own DEF FailCopy, ItemInv, Traced, Kept, ClearedAt,
         ResolvedAt, Recorded, RejectLogged, Cleared, Whole
    <3>3. CleanDirs(i)'
      <4> SUFFICES ASSUME mishap'[i] = {}
                   PROVE  \A s \in Sources : "content" \in dir'[s][i] => Whole(dir'[s][i])
        BY DEF CleanDirs
      <4>1. mishap[i] = {} /\ more = {}
        BY <1>8
      <4>2. \A s \in Sources : "content" \in dir[s][i] => Whole(dir[s][i])
        BY <4>1, <1>0, <1>1, Own DEF ItemInv, CleanDirs
      <4>3. "content" \in files => Whole(files)
        BY <2>1, <2>3, <2>4, <4>1, <4>2 DEF Sources
      <4> QED BY <1>7, <4>2, <4>3 DEF Sources
    <3> QED BY <3>2, <3>3 DEF ItemInv
  <2>7. ThreadInv(t)'
    <3>1. CASE pc'[t] = "f_remove"
      <4>1. ItemInv(i)
        BY <1>0, <1>1, Own
      <4>2. dir["failed"][i] = {} /\ from[t] # "failed"
        BY <3>1, <2>1
      <4>3. ~Whole(dir["failed"][i])
        BY <4>2 DEF Whole
      <4>4. MayDelete(t)'
        BY <1>0, <1>2, <1>7, <1>8, <2>3, <3>1, <4>1, <4>2, <4>3
        DEF FailCopy, MayDelete, ItemInv, Traced, Held, Recorded
      <4>5. Progressed(t)'
        BY <1>0, <1>2, <1>7, <1>8, <2>3, <3>1, <4>1, <4>3
        DEF FailCopy, Progressed, ItemInv, Kept, Held, RejectLogged, Whole
      <4>6. Judged(t)'
        BY <3>1 DEF Judged, Gating, Passing
      <4> QED BY <4>4, <4>5, <4>6 DEF ThreadInv
    <3>2. CASE pc'[t] = "err"
      BY <3>2 DEF ThreadInv, Live, Ended
    <3> QED BY <2>1, <3>1, <3>2
  <2> QED BY <1>0, <1>1, <1>9, <2>5, <2>6, <2>7, FrameRule
<1> QED BY <1>10, <1>11

-----------------------------------------------------------------------------
(* Starting a delivery, and the environment.                                *)

LEMMA StartStep ==
  ASSUME IndInv, TypeOK', NEW t \in Threads, NEW i \in Items, NEW s \in Sources, NEW first,
         Start(t, i, s, first), i \in arrived,
         \/ first \in {"q_content", "f_rename", "r_audit"}
         \/ /\ first = "gate_tmp" /\ attr[i].valid /\ ~attr[i].tagged
            /\ attr[i].subject = "known"
         \/ first = "p_mkdir" /\ Cleared(attr[i]) /\ attr[i].subject # "known",
         UNCHANGED <<attr, arrived, dir, read, inbox, audit>>
  PROVE  IndInv'
<1>1. /\ pc[t] = "idle" /\ pc'[t] = first /\ item'[t] = i /\ from'[t] = s
      /\ \A u \in Threads : u # t => pc'[u] = pc[u] /\ item'[u] = item[u] /\ from'[u] = from[u]
  BY DEF Start, IndInv, TypeOK
<1>2. /\ \A j \in Items : mishap[j] \subseteq mishap'[j]
      /\ \A j \in Items : j # i => mishap'[j] = mishap[j]
      /\ (\E u \in Threads : Live(u) /\ item[u] = i) => "overlap" \in mishap'[i]
  BY DEF Start, IndInv, TypeOK
<1>3. Known'
  BY <1>1 DEF IndInv, Known, Live
<1>4. Exclusive'
  <2> SUFFICES ASSUME NEW u \in Threads, NEW v \in Threads, u # v,
                      Live(u)', Live(v)', item'[u] = item'[v]
               PROVE  "overlap" \in mishap'[item'[u]]
    BY DEF Exclusive
  <2>1. CASE u # t /\ v # t
    <3>1. Live(u) /\ Live(v) /\ item[u] = item[v] /\ item'[u] = item[u]
      BY <1>1, <2>1 DEF Live
    <3>2. "overlap" \in mishap[item[u]] /\ item[u] \in Items
      BY <3>1, LiveItem DEF IndInv, Exclusive
    <3> QED BY <1>2, <3>1, <3>2
  <2>2. CASE u = t
    BY <1>1, <1>2, <2>2 DEF Live
  <2>3. CASE v = t
    BY <1>1, <1>2, <2>3 DEF Live
  <2> QED BY <2>1, <2>2, <2>3
<1>5. \A j \in Items : ItemInv(j)'
  <2> TAKE j \in Items
  <2>1. ItemInv(j) /\ mishap[j] \subseteq mishap'[j]
    BY <1>2 DEF IndInv
  <2> QED BY <2>1 DEF ItemInv, Traced, Kept, ClearedAt, ResolvedAt, CleanDirs, Held,
             Recorded, RejectLogged, Cleared, Whole
<1>6. \A u \in Threads : ThreadInv(u)'
  <2> TAKE u \in Threads
  <2>1. CASE u = t
    BY <1>1, <2>1 DEF ThreadInv, MayDelete, Progressed, Judged, Gating, Passing, Cleared, SrcOf
  <2>2. CASE u # t
    <3> SUFFICES ASSUME Live(u) PROVE (MayDelete(u) /\ Progressed(u) /\ Judged(u))'
      BY <1>1, <2>2 DEF ThreadInv, Live
    <3>1. /\ MayDelete(u) /\ Progressed(u) /\ Judged(u)
          /\ pc'[u] = pc[u] /\ item'[u] = item[u] /\ from'[u] = from[u]
          /\ mishap[item[u]] \subseteq mishap'[item[u]]
      BY <1>1, <1>2, <2>2, LiveItem DEF IndInv, ThreadInv
    <3>2. MayDelete(u)'
      BY <3>1 DEF MayDelete, Recorded, RejectLogged, Whole
    <3>3. Progressed(u)'
      BY <3>1 DEF Progressed, RejectLogged, Whole, SrcOf
    <3>4. Judged(u)'
      BY <3>1 DEF Judged, Cleared, SrcOf
    <3> QED BY <3>2, <3>3, <3>4
  <2> QED BY <2>1, <2>2
<1> QED BY <1>3, <1>4, <1>5, <1>6 DEF IndInv

LEMMA StartType ==
  ASSUME TypeOK, NEW t \in Threads, NEW i \in Items, NEW s \in Sources,
         NEW first \in PCs, Start(t, i, s, first)
  PROVE  /\ pc' \in [Threads -> PCs] /\ item' \in [Threads -> Items \cup {NoItem}]
         /\ from' \in [Threads -> Sources] /\ qid' \in [Threads -> QIds \cup {NoQId}]
         /\ mishap' \in [Items -> SUBSET Mishaps]
BY DEF TypeOK, Start, Mishaps

LEMMA DeliverStep ==
  ASSUME IndInv, NEW t \in Threads, NEW i \in Items, NEW s \in Sources,
         NEW kind \in {"ok", "err", "timeout"}, Deliver(t, i, s, kind)
  PROVE  IndInv'
<1> DEFINE first == Chain(attr[i], kind)
<1>1. TypeOK /\ i \in arrived /\ attr[i].valid
  BY DEF Deliver, IndInv, Known
<1>2. attr[i] \in AttrType
  BY <1>1, DeliveryAssumption DEF TypeOK
<1>3. \/ first \in {"q_content", "f_rename", "r_audit"}
      \/ /\ first = "gate_tmp" /\ attr[i].valid /\ ~attr[i].tagged
         /\ attr[i].subject = "known"
      \/ first = "p_mkdir" /\ Cleared(attr[i]) /\ attr[i].subject # "known"
  BY <1>1, <1>2 DEF Chain, Routed, Cleared, AttrType
<1>4. first \in PCs
  BY <1>3 DEF PCs
<1> HIDE DEF first
<1>5. Start(t, i, s, first)
  BY DEF Deliver, first
<1>6. faults' \in 0..MaxFaults /\ placeholder' \subseteq Items
  BY <1>1, FaultType DEF Deliver, RemovePending, TypeOK
<1>7. TypeOK'
  BY <1>1, <1>4, <1>5, <1>6, StartType DEF TypeOK, Deliver, quarantine
<1> QED BY <1>1, <1>3, <1>5, <1>7, StartStep DEF Deliver

LEMMA RejectUnreadableStep ==
  ASSUME IndInv, NEW t \in Threads, NEW i \in Items, NEW s \in Sources,
         RejectUnreadable(t, i, s)
  PROVE  IndInv'
<1>1. TypeOK /\ i \in arrived /\ "r_audit" \in PCs /\ Start(t, i, s, "r_audit")
  BY DEF RejectUnreadable, IndInv, Known, PCs
<1>2. TypeOK'
  BY <1>1, StartType DEF TypeOK, RejectUnreadable, quarantine
<1> QED BY <1>1, <1>2, StartStep DEF RejectUnreadable

LEMMA ArriveStep ==
  ASSUME IndInv, NEW i \in Items, Arrive(i)
  PROVE  IndInv'
<1>1. TypeOK /\ {"dir", "content", "metadata"} \in SUBSET Files
  BY DEF IndInv, Files
<1>2. /\ dir' \in [Sources -> [Items -> SUBSET Files]]
      /\ dir'["staging"][i] = {"dir", "content", "metadata"} /\ dir'["failed"][i] = {}
      /\ \A s \in Sources, j \in Items : j # i => dir'[s][j] = dir[s][j]
  <2> DEFINE row == [dir["staging"] EXCEPT ![i] = {"dir", "content", "metadata"}]
  <2>1. dir \in [Sources -> [Items -> SUBSET Files]] /\ "staging" \in Sources
    BY <1>1 DEF TypeOK, Sources
  <2>2. /\ row \in [Items -> SUBSET Files] /\ row[i] = {"dir", "content", "metadata"}
        /\ \A j \in Items : j # i => row[j] = dir["staging"][j]
    BY <1>1, <2>1
  <2>3. dir' = [dir EXCEPT !["staging"] = row]
    BY <2>1 DEF Arrive
  <2>4. dir["failed"][i] = {}
    BY DEF Arrive, IndInv, Known, Sources
  <2> HIDE DEF row
  <2> QED BY <2>1, <2>2, <2>3, <2>4 DEF Sources
<1>3. TypeOK'
  BY <1>1, <1>2 DEF Arrive, TypeOK, task, quarantine
<1>4. Known' /\ Exclusive'
  BY <1>2 DEF Arrive, IndInv, Known, Exclusive, Live, task
<1>5. \A j \in Items : ItemInv(j)'
  <2> TAKE j \in Items
  <2>1. ItemInv(j)
    BY DEF IndInv
  <2>2. CASE j = i
    BY <1>2, <2>1, <2>2 DEF Arrive, ItemInv, Traced, Kept, ClearedAt, ResolvedAt, CleanDirs,
       Held, Cleared, Whole, Sources
  <2>3. CASE j # i
    BY <1>2, <2>1, <2>3 DEF Arrive, ItemInv, Traced, Kept, ClearedAt, ResolvedAt, CleanDirs,
       Held, Recorded, RejectLogged, Cleared, Whole, Sources
  <2> QED BY <2>2, <2>3
<1>6. \A u \in Threads : ThreadInv(u)'
  <2> SUFFICES ASSUME NEW u \in Threads, Live(u)
               PROVE  (MayDelete(u) /\ Progressed(u) /\ Judged(u))'
    BY DEF ThreadInv, Live, Arrive, task
  <2>1. /\ item[u] \in Items /\ item[u] # i /\ from[u] \in Sources
        /\ MayDelete(u) /\ Progressed(u) /\ Judged(u)
    BY LiveItem DEF Arrive, IndInv, ThreadInv
  <2>2. MayDelete(u)'
    BY <1>2, <2>1 DEF Arrive, task, MayDelete, Recorded, RejectLogged, Whole, Sources
  <2>3. Progressed(u)'
    BY <1>2, <2>1 DEF Arrive, task, Progressed, RejectLogged, Whole, SrcOf, Sources
  <2>4. Judged(u)'
    BY <1>2, <2>1 DEF Arrive, task, Judged, Cleared, SrcOf
  <2> QED BY <2>2, <2>3, <2>4
<1> QED BY <1>3, <1>4, <1>5, <1>6 DEF IndInv

\* Nothing that the invariant says of items and goroutines changes.
LEMMA IdleStep ==
  ASSUME IndInv, TypeOK',
         \A t \in Threads : \/ pc'[t] = pc[t] /\ item'[t] = item[t] /\ from'[t] = from[t]
                            \/ pc'[t] = "idle",
         \A i \in Items, s \in Sources :
           <<i, s>> \in read' => i \in arrived /\ attr[i].valid,
         UNCHANGED <<attr, arrived, dir, inbox, audit, mishap>>
  PROVE  IndInv'
<1>1. \A t \in Threads : Live(t)' =>
        Live(t) /\ pc'[t] = pc[t] /\ item'[t] = item[t] /\ from'[t] = from[t]
  BY DEF Live, Ended
<1>2. Known'
  BY <1>1 DEF IndInv, Known
<1>3. Exclusive'
  BY <1>1 DEF IndInv, Exclusive
<1>4. \A j \in Items : ItemInv(j)'
  <2> TAKE j \in Items
  <2>1. ItemInv(j)
    BY DEF IndInv
  <2> QED BY <2>1 DEF ItemInv, Traced, Kept, ClearedAt, ResolvedAt, CleanDirs, Held,
             Recorded, RejectLogged, Cleared, Whole
<1>5. \A u \in Threads : ThreadInv(u)'
  <2> SUFFICES ASSUME NEW u \in Threads, Live(u)'
               PROVE  (MayDelete(u) /\ Progressed(u) /\ Judged(u))'
    BY DEF ThreadInv
  <2>1. /\ MayDelete(u) /\ Progressed(u) /\ Judged(u)
        /\ pc'[u] = pc[u] /\ item'[u] = item[u] /\ from'[u] = from[u]
    BY <1>1 DEF IndInv, ThreadInv
  <2>2. MayDelete(u)'
    BY <2>1 DEF MayDelete, Recorded, RejectLogged, Whole
  <2>3. Progressed(u)'
    BY <2>1 DEF Progressed, RejectLogged, Whole, SrcOf
  <2>4. Judged(u)'
    BY <2>1 DEF Judged, Cleared, SrcOf
  <2> QED BY <2>2, <2>3, <2>4
<1> QED BY <1>2, <1>3, <1>4, <1>5 DEF IndInv

LEMMA ReadStep ==
  ASSUME IndInv, NEW i \in Items, NEW s \in Sources, Read(i, s)
  PROVE  IndInv'
<1>1. i \in arrived /\ attr[i].valid
  BY DEF Read, IndInv, Known
<1>2. faults' \in 0..MaxFaults /\ placeholder' \subseteq Items
  BY FaultType DEF Read, IndInv, TypeOK
<1>3. TypeOK'
  BY <1>2 DEF Read, IndInv, TypeOK, task, quarantine
<1>4. \A j \in Items, r \in Sources : <<j, r>> \in read' => j \in arrived /\ attr[j].valid
  BY <1>1 DEF Read, IndInv, Known
<1> QED BY <1>3, <1>4, IdleStep DEF Read, task

LEMMA ReturnStep ==
  ASSUME IndInv, NEW t \in Threads, Return(t)
  PROVE  IndInv'
<1>1. TypeOK'
  BY DEF Return, IndInv, TypeOK, PCs, Ended, Sources, quarantine
<1>2. \A u \in Threads : \/ pc'[u] = pc[u] /\ item'[u] = item[u] /\ from'[u] = from[u]
                         \/ pc'[u] = "idle"
  BY DEF Return, IndInv, TypeOK
<1> QED BY <1>1, <1>2, IdleStep DEF Return, IndInv, Known

LEMMA CrashStep ==
  ASSUME IndInv, Crash
  PROVE  IndInv'
<1>1. TypeOK'
  BY FaultType DEF Crash, IndInv, TypeOK, PCs, Ended, Sources, quarantine
<1> QED BY <1>1, IdleStep DEF Crash

-----------------------------------------------------------------------------
(* The invariant is inductive.                                              *)

LEMMA InitInd == Init => IndInv
<1> SUFFICES ASSUME Init PROVE IndInv
  OBVIOUS
<1>1. TypeOK
  <2>1. /\ dir \in [Sources -> [Items -> SUBSET Files]]
        /\ from \in [Threads -> Sources]
    BY DEF Init, Sources
  <2>2. pc \in [Threads -> PCs] /\ faults \in 0..MaxFaults
    BY DeliveryAssumption DEF Init, PCs, Ended
  <2>3. qmeta \in [QIds -> Items \cup {NoItem}] /\ notice \in [QIds -> Items \cup {NoItem}]
    BY DEF Init
  <2>4. /\ inbox \in [Items -> SUBSET Files] /\ audit \in [Items -> SUBSET Verdicts]
        /\ mishap \in [Items -> SUBSET Mishaps]
    BY DEF Init
  <2> QED BY <2>1, <2>2, <2>3, <2>4 DEF Init, TypeOK
<1>2. Known /\ Exclusive
  BY DEF Init, Known, Exclusive, Live, Ended
<1>3. \A i \in Items : ItemInv(i)
  BY DEF Init, ItemInv, ClearedAt, ResolvedAt, CleanDirs
<1>4. \A t \in Threads : ThreadInv(t)
  BY DEF Init, ThreadInv, Live, Ended
<1> QED BY <1>1, <1>2, <1>3, <1>4 DEF IndInv

LEMMA StepInd ==
  ASSUME IndInv, NEW t \in Threads, Step(t)
  PROVE  IndInv'
<1>1. CASE GateTmp(t)
  BY <1>1, GateTmpStep
<1>2. CASE GateRename(t)
  BY <1>2, GateRenameStep
<1>3. CASE PassMkdir(t)
  BY <1>3, PassMkdirStep
<1>4. CASE PassContent(t)
  BY <1>4, PassContentStep
<1>5. CASE PassMeta(t)
  BY <1>5, PassMetaStep
<1>6. CASE PassAudit(t) \/ QuarantineAudit(t) \/ RejectAudit(t)
  BY <1>6, AppendStep DEF PassAudit, QuarantineAudit, RejectAudit, Verdicts, PCs
<1>7. CASE PassRemove(t) \/ QuarantineRemove(t) \/ RejectRemove(t) \/ FailRemove(t)
  BY <1>7, RemoveStep DEF PassRemove, QuarantineRemove, RejectRemove, FailRemove, PCs, Ended
<1>8. CASE PassPend(t)
  BY <1>8, PassPendStep
<1>9. CASE QuarantineContent(t) \/ QuarantineMeta(t) \/ QuarantineNote(t)
  BY <1>9, QuarantineWriteStep
<1>10. CASE FailRename(t)
  BY <1>10, FailRenameStep
<1>11. CASE FailCopy(t)
  BY <1>11, FailCopyStep
<1>12. CASE Return(t)
  BY <1>12, ReturnStep
<1> QED BY <1>1, <1>2, <1>3, <1>4, <1>5, <1>6, <1>7, <1>8, <1>9, <1>10, <1>11, <1>12 DEF Step

LEMMA NextInd == IndInv /\ [Next]_vars => IndInv'
<1> SUFFICES ASSUME IndInv, [Next]_vars PROVE IndInv'
  OBVIOUS
<1>1. CASE \E i \in Items : Arrive(i)
  BY <1>1, ArriveStep
<1>2. CASE \E i \in Items, s \in Sources : Read(i, s)
  BY <1>2, ReadStep
<1>3. CASE \E t \in Threads, i \in Items, s \in Sources :
             \E kind \in {"ok", "err", "timeout"} : Deliver(t, i, s, kind)
  BY <1>3, DeliverStep
<1>4. CASE \E t \in Threads, i \in Items, s \in Sources : RejectUnreadable(t, i, s)
  BY <1>4, RejectUnreadableStep
<1>5. CASE \E t \in Threads : Step(t)
  BY <1>5, StepInd
<1>6. CASE Crash
  BY <1>6, CrashStep
<1>7. CASE UNCHANGED vars
  <2>1. TypeOK'
    BY <1>7 DEF IndInv, TypeOK, vars, task, quarantine
  <2> QED BY <1>7, <2>1, IdleStep DEF IndInv, Known, vars, task
<1> QED BY <1>1, <1>2, <1>3, <1>4, <1>5, <1>6, <1>7 DEF Next

-----------------------------------------------------------------------------
(* Every step of Delivery is a step of ItemFate or leaves the fate of every  *)
(* item as it is.  The mapping is that of the instance Fate: an item is      *)
(* kept while Held, inboxed while its content is in the inbox, spoiled once  *)
(* it was recopied.                                                          *)

LEMMA FateInitMapped == Init => Fate!FateInit
<1> SUFFICES ASSUME Init PROVE Fate!FateInit
  OBVIOUS
<1>1. {i \in Items : Held(i)} = {}
  BY DEF Init, Held, Whole, Sources
<1>2. {i \in Items : "content" \in inbox[i]} = {} /\ {i \in Items : "recopied" \in mishap[i]} = {}
  BY DEF Init
<1> QED BY <1>1, <1>2 DEF Init, Fate!FateInit

\* A step that keeps what ItemFate sees of every item is a stutter.
LEMMA FateStutter ==
  ASSUME attr' = attr, arrived' = arrived, audit' = audit,
         \A j \in Items : /\ Held(j)' <=> Held(j)
                          /\ ("content" \in inbox'[j]) <=> ("content" \in inbox[j])
                          /\ ("recopied" \in mishap'[j]) <=> ("recopied" \in mishap[j])
  PROVE  UNCHANGED Fate!fate
BY DEF Fate!fate, Cleared

\* A step of goroutine t on the directories of its item alone: a copy goes or
\* comes only when the item is released, because Traced holds before and after.
LEMMA FateOnDisk ==
  ASSUME IndInv, IndInv', NEW t \in Threads, Live(t), Frame(t),
         inbox' = inbox, audit' = audit
  PROVE  [Fate!FateNext]_(Fate!fate)
<1>0. PICK i \in Items : i = item[t] /\ i \in arrived
  BY LiveItem
<1>1. /\ attr' = attr /\ arrived' = arrived
      /\ mishap[i] \subseteq mishap'[i]
      /\ \A j \in Items : j # i => mishap'[j] = mishap[j] /\ (Held(j)' <=> Held(j))
  BY <1>0 DEF Frame, Held, Sources
<1>2. Traced(i) /\ Traced(i)'
  BY <1>0, <1>1 DEF IndInv, ItemInv
<1> DEFINE kept == {j \in Items : Held(j)}
           spoiled == {j \in Items : "recopied" \in mishap[j]}
<1>3. kept' \in {kept \ {i}, kept \cup {i}}
  <2>1. CASE Held(i)'
    <3>1. kept' = kept \cup {i}
      BY <1>1, <2>1
    <3> QED BY <3>1
  <2>2. CASE ~Held(i)'
    <3>1. kept' = kept \ {i}
      BY <1>1, <2>2
    <3> QED BY <3>1
  <2> QED BY <2>1, <2>2
<1>4. UNCHANGED {j \in Items : Cleared(attr[j])}
  BY <1>1 DEF Cleared
<1>5. CASE "recopied" \in mishap'[i] /\ "recopied" \notin mishap[i]
  <2>1. spoiled' = spoiled \cup {i}
    BY <1>1, <1>5
  <2>2. Fate!Spoil(i)
    BY <1>0, <1>1, <1>3, <1>4, <2>1 DEF Fate!Spoil
  <2> QED BY <2>2 DEF Fate!FateNext
<1>6. CASE ("recopied" \in mishap'[i]) <=> ("recopied" \in mishap[i])
  <2>1. spoiled' = spoiled
    BY <1>1, <1>6
  <2>2. CASE Held(i)' <=> Held(i)
    BY <1>1, <1>6, <2>2, FateStutter
  <2>3. CASE ~(Held(i)' <=> Held(i))
    <3>1. audit[i] # {} \/ i \in spoiled
      BY <1>2, <1>6, <2>3 DEF Traced, Recorded
    <3>2. Fate!Discard(i)
      BY <1>1, <1>3, <1>4, <2>1, <3>1 DEF Fate!Discard, Fate!Released
    <3> QED BY <3>2 DEF Fate!FateNext
  <2> QED BY <2>2, <2>3
<1> QED BY <1>1, <1>5, <1>6

LEMMA FateArrive ==
  ASSUME IndInv, NEW i \in Items, Arrive(i)
  PROVE  Fate!Receive(i)
<1>1. /\ dir'["staging"][i] = {"dir", "content", "metadata"}
      /\ \A s \in Sources, j \in Items : j # i => dir'[s][j] = dir[s][j]
  <2> DEFINE row == [dir["staging"] EXCEPT ![i] = {"dir", "content", "metadata"}]
  <2>1. dir \in [Sources -> [Items -> SUBSET Files]] /\ "staging" \in Sources
    BY DEF IndInv, TypeOK, Sources
  <2>2. /\ row \in [Items -> SUBSET Files] /\ row[i] = {"dir", "content", "metadata"}
        /\ \A j \in Items : j # i => row[j] = dir["staging"][j]
    BY <2>1 DEF Files
  <2>3. dir' = [dir EXCEPT !["staging"] = row]
    BY <2>1 DEF Arrive
  <2> HIDE DEF row
  <2> QED BY <2>1, <2>2, <2>3 DEF Sources
<1>2. Held(i)' /\ \A j \in Items : j # i => (Held(j)' <=> Held(j))
  BY <1>1 DEF Held, Whole, Sources
<1>3. {j \in Items : Held(j)}' = {j \in Items : Held(j)} \cup {i}
  BY <1>2
<1> QED BY <1>3 DEF Arrive, Cleared, Fate!Receive

\* Content reaches the inbox of a cleared item only: the early returns of
\* deliverResult stand behind every goroutine in RoutePass (Judged).
LEMMA FatePassContent ==
  ASSUME IndInv, NEW t \in Threads, PassContent(t)
  PROVE  [Fate!FateNext]_(Fate!fate)
<1>1. Live(t) /\ pc[t] \in Passing
  BY DEF PassContent, Live, Ended, Passing
<1>0. PICK i \in Items : i = item[t] /\ i \in arrived
  BY <1>1, LiveItem
<1>2. Cleared(attr[i]) /\ TypeOK
  BY <1>0, <1>1, Own DEF Judged
<1> DEFINE inboxed == {j \in Items : "content" \in inbox[j]}
<1>3. /\ attr' = attr /\ arrived' = arrived /\ audit' = audit /\ mishap' = mishap /\ dir' = dir
  BY DEF PassContent
<1>4. /\ UNCHANGED {j \in Items : Cleared(attr[j])}
      /\ UNCHANGED {j \in Items : Held(j)}
      /\ UNCHANGED {j \in Items : "recopied" \in mishap[j]}
  BY <1>3 DEF Cleared, Held, Whole
<1>5. CASE inbox' = [inbox EXCEPT ![i] = @ \cup {"content"}]
  <2>1. inboxed' = inboxed \cup {i}
    BY <1>2, <1>5 DEF TypeOK
  <2>2. Fate!Give(i)
    BY <1>0, <1>2, <1>3, <1>4, <2>1 DEF Fate!Give
  <2> QED BY <2>2 DEF Fate!FateNext
<1>6. CASE inbox' = [inbox EXCEPT ![i] = @ \ {"content"}]
  <2>1. inboxed' = inboxed \ {i}
    BY <1>2, <1>6 DEF TypeOK
  <2>2. Fate!TakeBack(i)
    BY <1>3, <1>4, <2>1 DEF Fate!TakeBack
  <2> QED BY <2>2 DEF Fate!FateNext
<1>7. CASE inbox' = inbox
  BY <1>3, <1>4, <1>7 DEF Fate!fate
<1> QED BY <1>0, <1>5, <1>6, <1>7 DEF PassContent, Written, Torn

\* RoutePass creates the directory and writes the metadata beside the content.
LEMMA FatePassOther ==
  ASSUME IndInv, NEW t \in Threads, PassMkdir(t) \/ PassMeta(t)
  PROVE  UNCHANGED Fate!fate
<1>1. /\ attr' = attr /\ arrived' = arrived /\ audit' = audit /\ mishap' = mishap /\ dir' = dir
  BY DEF PassMkdir, PassMeta
<1>0. PICK i \in Items : i = item[t]
  BY LiveItem DEF PassMkdir, PassMeta, Live, Ended
<1>2. \E files \in SUBSET Files :
        /\ inbox' = [inbox EXCEPT ![i] = files]
        /\ ("content" \in files) <=> ("content" \in inbox[i])
  <2> DEFINE copy == (inbox[i] \ {"resolved"}) \cup {"metadata"}
                       \cup (SrcOf(t) \cap {"resolved"})
             torn == (inbox[i] \ {"resolved"}) \ {"metadata"}
             made == inbox[i] \cup {"dir"}
  <2>1. /\ copy \in SUBSET Files /\ torn \in SUBSET Files /\ made \in SUBSET Files
        /\ inbox[i] \in SUBSET Files
        /\ ("content" \in copy) <=> ("content" \in inbox[i])
        /\ ("content" \in torn) <=> ("content" \in inbox[i])
        /\ ("content" \in made) <=> ("content" \in inbox[i])
    BY DEF IndInv, TypeOK, Files
  <2>2. inbox = [inbox EXCEPT ![i] = inbox[i]]
    BY DEF IndInv, TypeOK
  <2>3. \/ inbox' = [inbox EXCEPT ![i] = copy]
        \/ inbox' = [inbox EXCEPT ![i] = torn]
        \/ inbox' = [inbox EXCEPT ![i] = made]
        \/ inbox' = [inbox EXCEPT ![i] = inbox[i]]
    BY <1>0, <2>2 DEF PassMkdir, PassMeta, Written, Torn
  <2> HIDE DEF copy, torn, made
  <2> QED BY <2>1, <2>3
<1>3. \A j \in Items : ("content" \in inbox'[j]) <=> ("content" \in inbox[j])
  BY <1>2 DEF IndInv, TypeOK
<1>4. \A j \in Items : Held(j)' <=> Held(j)
  BY <1>1 DEF Held, Whole
<1> QED BY <1>1, <1>3, <1>4, FateStutter

\* A verdict is recorded; "pass" only for a cleared item.
LEMMA FateAppend ==
  ASSUME IndInv, NEW t \in Threads, NEW verdict \in Verdicts, NEW next,
         appendJSONL(t, verdict, next), Live(t),
         verdict = "pass" => pc[t] \in Passing,
         UNCHANGED <<attr, arrived, dir, inbox, mishap>>
  PROVE  [Fate!FateNext]_(Fate!fate)
<1>0. PICK i \in Items : i = item[t] /\ i \in arrived
  BY LiveItem
<1>1. /\ UNCHANGED {j \in Items : Cleared(attr[j])}
      /\ UNCHANGED {j \in Items : Held(j)}
      /\ UNCHANGED {j \in Items : "recopied" \in mishap[j]}
      /\ UNCHANGED {j \in Items : "content" \in inbox[j]}
  BY DEF Cleared, Held, Whole
<1>2. CASE audit' = [audit EXCEPT ![i] = @ \cup {verdict}]
  <2>1. verdict = "pass" => Cleared(attr[i])
    BY <1>0, Own DEF Judged
  <2>2. Fate!Record(i, verdict)
    BY <1>0, <1>1, <1>2, <2>1 DEF Fate!Record
  <2> QED BY <2>2 DEF Fate!FateNext
<1>3. CASE audit' = audit
  BY <1>1, <1>3 DEF Fate!fate
<1> QED BY <1>0, <1>2, <1>3 DEF appendJSONL

\* Steps that touch none of the files ItemFate looks at.
LEMMA FateQuiet ==
  ASSUME UNCHANGED <<attr, arrived, dir, inbox, audit, mishap>>
  PROVE  UNCHANGED Fate!fate
BY FateStutter DEF Held, Whole

LEMMA FateStart ==
  ASSUME IndInv, NEW t \in Threads, NEW i \in Items, NEW s \in Sources, NEW first,
         Start(t, i, s, first), UNCHANGED <<attr, arrived, dir, inbox, audit>>
  PROVE  UNCHANGED Fate!fate
<1>1. \A j \in Items : ("recopied" \in mishap'[j]) <=> ("recopied" \in mishap[j])
  BY DEF Start, IndInv, TypeOK
<1>2. \A j \in Items : Held(j)' <=> Held(j)
  BY DEF Held, Whole
<1> QED BY <1>1, <1>2, FateStutter

LEMMA FateStep ==
  ASSUME IndInv, IndInv', NEW t \in Threads, Step(t)
  PROVE  [Fate!FateNext]_(Fate!fate)
<1>1. CASE GateTmp(t)
  BY <1>1, GateTmpStep, FateOnDisk DEF GateTmp, Live, Ended
<1>2. CASE GateRename(t)
  BY <1>2, GateRenameStep, FateOnDisk DEF GateRename, Live, Ended
<1>3. CASE PassMkdir(t) \/ PassMeta(t)
  BY <1>3, FatePassOther
<1>4. CASE PassContent(t)
  BY <1>4, FatePassContent
<1>5. CASE PassAudit(t) \/ QuarantineAudit(t) \/ RejectAudit(t)
  BY <1>5, FateAppend DEF PassAudit, QuarantineAudit, RejectAudit, Verdicts, Live, Ended, Passing
<1>6. CASE PassRemove(t) \/ QuarantineRemove(t) \/ RejectRemove(t) \/ FailRemove(t)
  <2>1. Live(t) /\ Frame(t) /\ inbox' = inbox /\ audit' = audit
    BY <1>6, RemoveStep DEF PassRemove, QuarantineRemove, RejectRemove, FailRemove, PCs,
       Live, Ended
  <2> QED BY <2>1, FateOnDisk
<1>7. CASE PassPend(t) \/ QuarantineContent(t) \/ QuarantineMeta(t) \/ QuarantineNote(t)
           \/ Return(t)
  BY <1>7, FateQuiet DEF PassPend, QuarantineContent, QuarantineMeta, QuarantineNote, Return
<1>8. CASE FailRename(t)
  BY <1>8, FailRenameStep, FateOnDisk DEF FailRename, Live, Ended
<1>9. CASE FailCopy(t)
  BY <1>9, FailCopyStep, FateOnDisk DEF FailCopy, Live, Ended
<1> QED BY <1>1, <1>2, <1>3, <1>4, <1>5, <1>6, <1>7, <1>8, <1>9 DEF Step

LEMMA FateNextMapped ==
  IndInv /\ IndInv' /\ [Next]_vars => [Fate!FateNext]_(Fate!fate)
<1> SUFFICES ASSUME IndInv, IndInv', [Next]_vars PROVE [Fate!FateNext]_(Fate!fate)
  OBVIOUS
<1>1. CASE \E i \in Items : Arrive(i)
  BY <1>1, FateArrive DEF Fate!FateNext
<1>2. CASE \E i \in Items, s \in Sources : Read(i, s)
  BY <1>2, FateQuiet DEF Read
<1>3. CASE \E t \in Threads, i \in Items, s \in Sources :
             \E kind \in {"ok", "err", "timeout"} : Deliver(t, i, s, kind)
  BY <1>3, FateStart DEF Deliver
<1>4. CASE \E t \in Threads, i \in Items, s \in Sources : RejectUnreadable(t, i, s)
  BY <1>4, FateStart DEF RejectUnreadable
<1>5. CASE \E t \in Threads : Step(t)
  BY <1>5, FateStep
<1>6. CASE Crash
  BY <1>6, FateQuiet DEF Crash
<1>7. CASE UNCHANGED vars
  BY <1>7, FateQuiet DEF vars
<1> QED BY <1>1, <1>2, <1>3, <1>4, <1>5, <1>6, <1>7 DEF Next

-----------------------------------------------------------------------------
(* PlaceholderBacked.  A failure makes it true, so all is about behaviours   *)
(* without one: there the placeholder is written when the item is read from  *)
(* staging, which happens once, and every way out of deliverResult but a     *)
(* pass takes it away before the directory can go.                           *)

\* The steps of a delivery that is going to give the directory up without a
\* pass; deliverResult removed the placeholder before it entered them.
Leaving == {"q_content", "q_meta", "q_note", "q_audit", "q_remove", "r_audit", "r_remove",
            "f_rename", "f_copy", "f_remove"}

\* Only an item that was read from staging has a placeholder, and its staging
\* directory, while it is there, has its metadata.json.
PlaceItem(i) ==
  /\ i \in placeholder => <<i, "staging">> \in read
  /\ dir["staging"][i] # {} => "metadata" \in dir["staging"][i]
  /\ i \in placeholder => \/ dir["staging"][i] # {}
                          \/ \E t \in Threads : item[t] = i /\ pc[t] = "p_pend"

\* A delivery from staging began after the one read of its item, or rejects
\* an item that is never read; once Leaving, the placeholder is gone.
PlaceThread(t) ==
  Live(t) /\ from[t] = "staging" =>
    /\ <<item[t], "staging">> \in read \/ ~attr[item[t]].valid
    /\ pc[t] \in Leaving => item[t] \notin placeholder

PlaceInv ==
  faults = 0 => /\ \A i \in Items : PlaceItem(i)
                /\ \A t \in Threads : PlaceThread(t)

LEMMA FaultFree ==
  ASSUME TypeOK, Fault \/ NoFault, faults' = 0
  PROVE  faults = 0 /\ ~Fault
BY DeliveryAssumption DEF TypeOK, Fault, NoFault

\* What a fault-free step of goroutine t has to establish.
LEMMA PlaceRule ==
  ASSUME IndInv, PlaceInv, faults = 0, NEW t \in Threads, Live(t),
         NEW i \in Items, i = item[t],
         UNCHANGED <<attr, read, item, from>>,
         \A u \in Threads : u # t => pc'[u] = pc[u],
         \A j \in Items : j # i => dir'["staging"][j] = dir["staging"][j],
         placeholder' \in {placeholder, placeholder \ {i}},
         dir'["staging"][i] # {} => "metadata" \in dir'["staging"][i],
         dir["staging"][i] # {} =>
           dir'["staging"][i] # {} \/ i \notin placeholder' \/ pc'[t] = "p_pend",
         pc[t] = "p_pend" => i \notin placeholder',
         from[t] = "staging" /\ pc'[t] \in Leaving => i \notin placeholder'
  PROVE  PlaceInv'
<1>1. \A j \in Items : PlaceItem(j)'
  <2> TAKE j \in Items
  <2>1. PlaceItem(j)
    BY DEF PlaceInv
  <2>2. CASE j # i
    BY <2>1, <2>2 DEF PlaceItem
  <2>3. CASE j = i
    <3>1. i \in placeholder' => i \in placeholder
      OBVIOUS
    <3>2. i \in placeholder' => <<i, "staging">> \in read'
      BY <2>1, <2>3, <3>1 DEF PlaceItem
    <3>3. ASSUME i \in placeholder'
          PROVE  \/ dir'["staging"][i] # {}
                 \/ \E u \in Threads : item'[u] = i /\ pc'[u] = "p_pend"
      <4>1. CASE dir["staging"][i] # {}
        BY <3>3, <4>1
      <4>2. CASE \E u \in Threads : item[u] = i /\ pc[u] = "p_pend"
        BY <3>3, <4>2
      <4> QED BY <2>1, <2>3, <3>1, <3>3, <4>1, <4>2 DEF PlaceItem
    <3> QED BY <2>3, <3>2, <3>3 DEF PlaceItem
  <2> QED BY <2>2, <2>3
<1>2. \A u \in Threads : PlaceThread(u)'
  <2> TAKE u \in Threads
  <2>1. PlaceThread(u) /\ PlaceThread(t)
    BY DEF PlaceInv
  <2>2. CASE u = t
    BY <2>1, <2>2 DEF PlaceThread
  <2>3. CASE u # t
    BY <2>1, <2>3 DEF PlaceThread, Live
  <2> QED BY <2>2, <2>3
<1> QED BY <1>1, <1>2 DEF PlaceInv

\* A step that leaves directories and placeholders alone.
LEMMA PlaceQuiet ==
  ASSUME IndInv, PlaceInv, faults = 0, NEW t \in Threads, Live(t), pc[t] # "p_pend",
         NEW next \in PCs, pc' = [pc EXCEPT ![t] = next],
         next \in Leaving => pc[t] \in Leaving,
         UNCHANGED <<attr, read, item, from, dir, placeholder>>
  PROVE  PlaceInv'
<1>0. PICK i \in Items : i = item[t]
  BY LiveItem
<1>1. pc'[t] = next /\ \A u \in Threads : u # t => pc'[u] = pc[u]
  BY DEF IndInv, TypeOK
<1>2. PlaceItem(i) /\ PlaceThread(t)
  BY DEF PlaceInv
<1>3. /\ dir["staging"][i] # {} => "metadata" \in dir["staging"][i]
      /\ from[t] = "staging" /\ next \in Leaving => i \notin placeholder
  BY <1>0, <1>2 DEF PlaceItem, PlaceThread
<1> QED BY <1>0, <1>1, <1>3, PlaceRule

LEMMA PlaceGate ==
  ASSUME IndInv, PlaceInv, faults' = 0, NEW t \in Threads, GateTmp(t) \/ GateRename(t)
  PROVE  PlaceInv'
<1>1. Live(t) /\ pc[t] \in Gating
  BY DEF GateTmp, GateRename, Live, Ended, Gating
<1>0. PICK i \in Items : i = item[t]
  BY <1>1, LiveItem
<1>2. TypeOK /\ faults = 0 /\ ~Fault
  BY FaultFree DEF IndInv, GateTmp, GateRename
<1>3. PlaceItem(i) /\ PlaceThread(t)
  BY <1>2 DEF PlaceInv
<1>4. SrcOf(t) \in SUBSET Files
  BY <1>0, <1>2 DEF TypeOK, SrcOf
<1>5. PICK files \in SUBSET Files, next \in PCs :
        /\ SetSrc(t, files) \/ (UNCHANGED dir /\ files = SrcOf(t))
        /\ files \in {SrcOf(t), SrcOf(t) \cup {"tmp"},
                      (SrcOf(t) \ {"tmp"}) \cup {"metadata", "resolved"}}
        /\ files # SrcOf(t) => SrcOf(t) # {}
        /\ Goto(t, next)
        /\ placeholder' \in {placeholder, placeholder \ {i}}
        /\ next \in Leaving => i \notin placeholder'
  <2>1. CASE GateTmp(t)
    <3>1. SrcOf(t) \cup {"tmp"} \in SUBSET Files /\ {"gate_rename", "f_rename"} \subseteq PCs
          /\ "gate_rename" \notin Leaving
      BY <1>4 DEF Files, PCs, Leaving
    <3> QED BY <1>0, <1>2, <1>4, <2>1, <3>1 DEF GateTmp
  <2>2. CASE GateRename(t)
    <3> DEFINE next == Routed(attr[i])
    <3>1. (SrcOf(t) \ {"tmp"}) \cup {"metadata", "resolved"} \in SUBSET Files
      BY <1>4 DEF Files
    <3>2. next \in PCs /\ "f_rename" \in PCs
      BY DEF Routed, PCs
    <3>3. next \in KeepsPlaceholder => next \notin Leaving
      BY DEF KeepsPlaceholder, Leaving
    <3>4. \/ /\ "tmp" \in SrcOf(t) /\ Goto(t, next)
             /\ SetSrc(t, (SrcOf(t) \ {"tmp"}) \cup {"metadata", "resolved"})
             /\ placeholder' = IF next \in KeepsPlaceholder THEN placeholder
                               ELSE placeholder \ {i}
          \/ placeholder' = placeholder \ {i} /\ Goto(t, "f_rename") /\ UNCHANGED dir
      BY <1>0, <1>2, <2>2 DEF GateRename
    <3> HIDE DEF next
    <3> QED BY <1>4, <3>1, <3>2, <3>3, <3>4
  <2> QED BY <2>1, <2>2
<1>6. /\ dir'[from[t]][i] = files
      /\ \A s \in Sources, j \in Items : s # from[t] \/ j # i => dir'[s][j] = dir[s][j]
  BY <1>0, <1>2, <1>5, SetSrcFact DEF SrcOf
<1>7. pc'[t] = next /\ UNCHANGED <<item, from>> /\ \A u \in Threads : u # t => pc'[u] = pc[u]
  BY <1>2, <1>5, GotoFact
<1>8. /\ dir'["staging"][i] # {} => "metadata" \in dir'["staging"][i]
      /\ dir["staging"][i] # {} => dir'["staging"][i] # {}
  BY <1>0, <1>3, <1>5, <1>6 DEF PlaceItem, SrcOf, Sources
<1>9. pc[t] # "p_pend"
  BY <1>1 DEF Gating
<1>10. attr' = attr /\ read' = read
  BY DEF GateTmp, GateRename
<1> QED BY <1>0, <1>1, <1>2, <1>5, <1>6, <1>7, <1>8, <1>9, <1>10, PlaceRule DEF Sources

\* The directory goes only on a pass, or when the placeholder already went.
LEMMA PlaceRemove ==
  ASSUME IndInv, PlaceInv, faults' = 0, NEW t \in Threads, NEW next \in PCs,
         RemoveSource(t, next),
         \/ pc[t] = "p_remove" /\ next = "p_pend"
         \/ pc[t] \in Leaving /\ next = "ok",
         UNCHANGED <<attr, read, placeholder>>
  PROVE  PlaceInv'
<1>1. Live(t) /\ pc[t] # "p_pend"
  BY DEF Live, Ended, Leaving
<1>0. PICK i \in Items : i = item[t]
  BY <1>1, LiveItem
<1>2. TypeOK /\ faults = 0 /\ ~Fault
  BY FaultFree DEF IndInv, RemoveSource
<1>3. PlaceItem(i) /\ PlaceThread(t)
  BY <1>2 DEF PlaceInv
<1>4. SetSrc(t, {}) /\ Goto(t, next)
  BY <1>2 DEF RemoveSource
<1>5. /\ dir'[from[t]][i] = {}
      /\ \A s \in Sources, j \in Items : s # from[t] \/ j # i => dir'[s][j] = dir[s][j]
  BY <1>0, <1>2, <1>4, SetSrcFact
<1>6. pc'[t] = next /\ UNCHANGED <<item, from>> /\ \A u \in Threads : u # t => pc'[u] = pc[u]
  BY <1>2, <1>4, GotoFact
<1>7. /\ dir'["staging"][i] # {} => "metadata" \in dir'["staging"][i]
      /\ dir["staging"][i] # {} =>
           dir'["staging"][i] # {} \/ i \notin placeholder' \/ pc'[t] = "p_pend"
  BY <1>0, <1>1, <1>3, <1>5, <1>6 DEF PlaceItem, PlaceThread, Sources
<1>8. next \notin Leaving
  BY DEF Leaving
<1> QED BY <1>0, <1>1, <1>2, <1>5, <1>6, <1>7, <1>8, PlaceRule DEF Sources

LEMMA PlaceFailRename ==
  ASSUME IndInv, PlaceInv, faults' = 0, NEW t \in Threads, FailRename(t)
  PROVE  PlaceInv'
<1>1. Live(t) /\ pc[t] = "f_rename"
  BY DEF FailRename, Live, Ended
<1>0. PICK i \in Items : i = item[t]
  BY <1>1, LiveItem
<1>2. TypeOK /\ faults = 0 /\ ~Fault
  BY FaultFree DEF IndInv, FailRename
<1>3. CASE dir' = dir
  <2>1. Goto(t, "f_copy") \/ Goto(t, "err") \/ Goto(t, "ok")
    BY DEF FailRename
  <2> QED BY <1>1, <1>2, <1>3, <2>1, PlaceQuiet DEF FailRename, Goto, Leaving, PCs, Ended
<1>4. CASE dir' # dir
  <2>1. /\ from[t] = "staging" /\ Goto(t, "ok")
        /\ dir' = [dir EXCEPT !["staging"][i] = {}, !["failed"][i] = dir["staging"][i]]
    BY <1>0, <1>2, <1>4 DEF FailRename
  <2>2. dir'["staging"][i] = {} /\ \A j \in Items : j # i => dir'["staging"][j] = dir["staging"][j]
    BY <1>2, <2>1 DEF TypeOK, Sources
  <2>3. pc'[t] = "ok" /\ UNCHANGED <<item, from>> /\ \A u \in Threads : u # t => pc'[u] = pc[u]
    BY <1>2, <2>1, GotoFact DEF PCs, Ended
  <2>4. i \notin placeholder
    BY <1>0, <1>1, <1>2, <2>1 DEF PlaceInv, PlaceThread, Leaving
  <2>5. UNCHANGED <<attr, read, placeholder>>
    BY DEF FailRename
  <2> QED BY <1>0, <1>1, <1>2, <2>2, <2>3, <2>4, <2>5, PlaceRule
<1> QED BY <1>3, <1>4

LEMMA PlaceFailCopy ==
  ASSUME IndInv, PlaceInv, faults' = 0, NEW t \in Threads, FailCopy(t)
  PROVE  PlaceInv'
<1>1. Live(t) /\ pc[t] = "f_copy"
  BY DEF FailCopy, Live, Ended
<1>0. PICK i \in Items : i = item[t]
  BY <1>1, LiveItem
<1>2. TypeOK /\ faults = 0 /\ ~Fault
  BY FaultFree DEF IndInv, FailCopy
<1>3. PlaceItem(i) /\ PlaceThread(t)
  BY <1>2 DEF PlaceInv
<1>4. \A j \in Items : dir'["staging"][j] = dir["staging"][j]
  <2>1. PICK files : dir' = [dir EXCEPT !["failed"][i] = files]
    BY <1>0, <1>2 DEF FailCopy
  <2> QED BY <1>2, <2>1 DEF TypeOK, Sources
<1>5. /\ pc'[t] \in {"f_remove", "err"} /\ UNCHANGED <<item, from>>
      /\ \A u \in Threads : u # t => pc'[u] = pc[u]
  BY <1>2, GotoFact DEF FailCopy, PCs, Ended
<1>6. UNCHANGED <<attr, read, placeholder>>
  BY DEF FailCopy
<1>7. /\ dir["staging"][i] # {} => "metadata" \in dir["staging"][i]
      /\ from[t] = "staging" => i \notin placeholder
  BY <1>0, <1>1, <1>3 DEF PlaceItem, PlaceThread, Leaving
<1> QED BY <1>0, <1>1, <1>2, <1>4, <1>5, <1>6, <1>7, PlaceRule

LEMMA PlaceStepInv ==
  ASSUME IndInv, PlaceInv, faults' = 0, NEW t \in Threads, Step(t)
  PROVE  PlaceInv'
<1>1. CASE GateTmp(t) \/ GateRename(t)
  BY <1>1, PlaceGate
<1>2. CASE PassMkdir(t) \/ PassContent(t) \/ PassMeta(t) \/ PassAudit(t)
  <2>1. faults = 0 /\ Live(t) /\ pc[t] # "p_pend"
    BY <1>2, FaultFree DEF IndInv, PassMkdir, PassContent, PassMeta, PassAudit, appendJSONL,
       Live, Ended
  <2>2. PICK next \in {"p_content", "p_meta", "p_audit", "p_remove", "err"} : Goto(t, next)
    BY <1>2 DEF PassMkdir, PassContent, PassMeta, PassAudit, appendJSONL
  <2>3. next \in PCs /\ next \notin Leaving
    BY DEF PCs, Ended, Leaving
  <2>4. UNCHANGED <<attr, read, dir, placeholder>>
    BY <1>2 DEF PassMkdir, PassContent, PassMeta, PassAudit
  <2> QED BY <2>1, <2>2, <2>3, <2>4, PlaceQuiet DEF Goto
<1>3. CASE PassRemove(t) \/ QuarantineRemove(t) \/ RejectRemove(t) \/ FailRemove(t)
  BY <1>3, PlaceRemove DEF PassRemove, QuarantineRemove, RejectRemove, FailRemove, PCs, Ended,
     Leaving
<1>4. CASE PassPend(t)
  <2>0. PICK i \in Items : i = item[t]
    BY <1>4, LiveItem DEF PassPend, Live, Ended
  <2>1. faults = 0 /\ ~Fault /\ Live(t) /\ TypeOK
    BY <1>4, FaultFree DEF IndInv, PassPend, RemovePending, Live, Ended
  <2>2. placeholder' = placeholder \ {i} /\ UNCHANGED <<attr, read, dir>>
    BY <1>4, <2>0, <2>1 DEF PassPend, RemovePending
  <2>3. /\ pc'[t] = "ok" /\ UNCHANGED <<item, from>>
        /\ \A u \in Threads : u # t => pc'[u] = pc[u]
    BY <1>4, <2>1, GotoFact DEF PassPend, PCs, Ended
  <2>4. dir["staging"][i] # {} => "metadata" \in dir["staging"][i]
    BY <2>1 DEF PlaceInv, PlaceItem
  <2> QED BY <2>0, <2>1, <2>2, <2>3, <2>4, PlaceRule
<1>5. CASE QuarantineContent(t) \/ QuarantineMeta(t) \/ QuarantineNote(t)
           \/ QuarantineAudit(t) \/ RejectAudit(t)
  <2>1. faults = 0 /\ Live(t) /\ pc[t] \in Leaving /\ pc[t] # "p_pend"
    BY <1>5, FaultFree DEF IndInv, QuarantineContent, QuarantineMeta, QuarantineNote,
       QuarantineAudit, RejectAudit, appendJSONL, Live, Ended, Leaving
  <2>2. PICK next \in {"q_meta", "q_note", "q_audit", "q_remove", "r_remove", "err"} :
          pc' = [pc EXCEPT ![t] = next] /\ UNCHANGED <<item, from>>
    BY <1>5 DEF QuarantineContent, QuarantineMeta, QuarantineNote, QuarantineAudit,
       RejectAudit, appendJSONL, Goto
  <2>3. next \in PCs
    BY DEF PCs, Ended
  <2>4. UNCHANGED <<attr, read, dir, placeholder>>
    BY <1>5 DEF QuarantineContent, QuarantineMeta, QuarantineNote, QuarantineAudit, RejectAudit
  <2> QED BY <2>1, <2>2, <2>3, <2>4, PlaceQuiet
<1>6. CASE FailRename(t)
  BY <1>6, PlaceFailRename
<1>7. CASE FailCopy(t)
  BY <1>7, PlaceFailCopy
<1>8. CASE Return(t)
  <2>1. /\ faults = 0 /\ UNCHANGED <<attr, read, dir, placeholder>>
        /\ pc[t] \in {"ok", "err"} /\ pc'[t] = "idle"
        /\ \A u \in Threads : u # t => pc'[u] = pc[u] /\ item'[u] = item[u] /\ from'[u] = from[u]
    BY <1>8 DEF IndInv, TypeOK, Return
  <2>2. \A i \in Items : PlaceItem(i)'
    <3> TAKE i \in Items
    <3>1. PlaceItem(i)
      BY <2>1 DEF PlaceInv
    <3>2. \A u \in Threads : item[u] = i /\ pc[u] = "p_pend" => item'[u] = i /\ pc'[u] = "p_pend"
      BY <2>1
    <3> QED BY <2>1, <3>1, <3>2 DEF PlaceItem
  <2>3. \A u \in Threads : PlaceThread(u)'
    <3> TAKE u \in Threads
    <3>1. CASE u = t
      BY <2>1, <3>1 DEF PlaceThread, Live, Ended
    <3>2. CASE u # t
      BY <2>1, <3>2 DEF PlaceInv, PlaceThread, Live
    <3> QED BY <3>1, <3>2
  <2> QED BY <2>2, <2>3 DEF PlaceInv
<1> QED BY <1>1, <1>2, <1>3, <1>4, <1>5, <1>6, <1>7, <1>8 DEF Step

\* The watcher's handler reads each directory once, before any delivery of it.
LEMMA PlaceRead ==
  ASSUME IndInv, PlaceInv, faults' = 0, NEW i \in Items, NEW s \in Sources, Read(i, s)
  PROVE  PlaceInv'
<1>1. TypeOK /\ faults = 0 /\ ~Fault
  BY FaultFree DEF IndInv, Read
<1>2. /\ placeholder' = placeholder \/ (placeholder' = placeholder \cup {i} /\ s = "staging")
      /\ read' = read \cup {<<i, s>>} /\ <<i, s>> \notin read
      /\ "metadata" \in dir[s][i] /\ attr[i].valid
      /\ UNCHANGED <<attr, dir, pc, item, from>>
  BY <1>1 DEF Read, task
<1>3. \A j \in Items : PlaceItem(j)'
  <2> TAKE j \in Items
  <2>1. PlaceItem(j)
    BY <1>1 DEF PlaceInv
  <2> QED BY <1>2, <2>1 DEF PlaceItem
<1>4. \A u \in Threads : PlaceThread(u)'
  <2> TAKE u \in Threads
  <2>1. PlaceThread(u)
    BY <1>1 DEF PlaceInv
  <2> QED BY <1>2, <2>1 DEF PlaceThread, Live
<1> QED BY <1>3, <1>4 DEF PlaceInv

LEMMA PlaceArrive ==
  ASSUME IndInv, PlaceInv, faults' = 0, NEW i \in Items, Arrive(i)
  PROVE  PlaceInv'
<1>1. TypeOK /\ faults = 0 /\ i \notin arrived
  BY DEF IndInv, Arrive
<1>2. /\ dir'["staging"][i] = {"dir", "content", "metadata"}
      /\ \A j \in Items : j # i => dir'["staging"][j] = dir["staging"][j]
  BY <1>1 DEF TypeOK, Arrive, Sources
<1>3. UNCHANGED <<attr, read, placeholder, pc, item, from>>
  BY DEF Arrive, task
<1>4. \A j \in Items : PlaceItem(j)'
  <2> TAKE j \in Items
  <2>1. PlaceItem(j)
    BY <1>1 DEF PlaceInv
  <2>2. CASE j = i
    BY <1>2, <1>3, <2>1, <2>2 DEF PlaceItem
  <2>3. CASE j # i
    BY <1>2, <1>3, <2>1, <2>3 DEF PlaceItem
  <2> QED BY <2>2, <2>3
<1>5. \A u \in Threads : PlaceThread(u)'
  BY <1>1, <1>3 DEF PlaceInv, PlaceThread, Live
<1> QED BY <1>4, <1>5 DEF PlaceInv

\* A delivery starts, its placeholder removed unless it may still pass.
LEMMA PlaceStart ==
  ASSUME IndInv, PlaceInv, faults = 0, NEW t \in Threads, NEW i \in Items, NEW s \in Sources,
         NEW first, Start(t, i, s, first),
         UNCHANGED <<attr, read, dir>>,
         placeholder' \in {placeholder, placeholder \ {i}},
         s = "staging" => <<i, "staging">> \in read \/ ~attr[i].valid,
         s = "staging" /\ first \in Leaving => i \notin placeholder'
  PROVE  PlaceInv'
<1>1. /\ pc[t] = "idle" /\ pc'[t] = first /\ item'[t] = i /\ from'[t] = s
      /\ \A u \in Threads : u # t => pc'[u] = pc[u] /\ item'[u] = item[u] /\ from'[u] = from[u]
  BY DEF Start, IndInv, TypeOK
<1>2. \A j \in Items : PlaceItem(j)'
  <2> TAKE j \in Items
  <2>1. PlaceItem(j) /\ (j \in placeholder' => j \in placeholder)
    BY DEF PlaceInv
  <2>2. \A u \in Threads : item[u] = j /\ pc[u] = "p_pend" => item'[u] = j /\ pc'[u] = "p_pend"
    BY <1>1
  <2> QED BY <2>1, <2>2 DEF PlaceItem
<1>3. \A u \in Threads : PlaceThread(u)'
  <2> TAKE u \in Threads
  <2>1. PlaceThread(u)
    BY DEF PlaceInv
  <2>2. CASE u = t
    BY <1>1, <2>2 DEF PlaceThread
  <2>3. CASE u # t
    BY <1>1, <2>1, <2>3 DEF PlaceThread, Live
  <2> QED BY <2>2, <2>3
<1> QED BY <1>2, <1>3 DEF PlaceInv

LEMMA PlaceDeliver ==
  ASSUME IndInv, PlaceInv, faults' = 0, NEW t \in Threads, NEW i \in Items, NEW s \in Sources,
         NEW kind, Deliver(t, i, s, kind)
  PROVE  PlaceInv'
<1>1. faults = 0 /\ ~Fault
  BY FaultFree DEF IndInv, Deliver, RemovePending
<1> DEFINE first == Chain(attr[i], kind)
<1>2. /\ Start(t, i, s, first)
      /\ \/ first \in KeepsPlaceholder /\ placeholder' = placeholder
         \/ placeholder' = placeholder \ {i}
      /\ <<i, s>> \in read /\ UNCHANGED <<attr, read, dir>>
  BY <1>1 DEF Deliver, RemovePending
<1>3. KeepsPlaceholder \cap Leaving = {}
  BY DEF KeepsPlaceholder, Leaving
<1> HIDE DEF first
<1> QED BY <1>1, <1>2, <1>3, PlaceStart

LEMMA PlaceReject ==
  ASSUME IndInv, PlaceInv, faults' = 0, NEW t \in Threads, NEW i \in Items, NEW s \in Sources,
         RejectUnreadable(t, i, s)
  PROVE  PlaceInv'
<1>1. faults = 0 /\ Start(t, i, s, "r_audit") /\ UNCHANGED <<attr, read, dir, placeholder>>
  BY DEF RejectUnreadable
<1>2. PlaceItem(i)
  BY <1>1 DEF PlaceInv
<1>3. s = "staging" => ~attr[i].valid
  BY <1>2 DEF RejectUnreadable, PlaceItem
<1>4. s = "staging" => i \notin placeholder
  BY <1>2, <1>3 DEF PlaceItem, IndInv, Known, Sources
<1> QED BY <1>1, <1>3, <1>4, PlaceStart

LEMMA PlaceNext == IndInv /\ PlaceInv /\ [Next]_vars => PlaceInv'
<1> SUFFICES ASSUME IndInv, PlaceInv, [Next]_vars, faults' = 0 PROVE PlaceInv'
  BY DEF PlaceInv
<1>1. CASE \E i \in Items : Arrive(i)
  BY <1>1, PlaceArrive
<1>2. CASE \E i \in Items, s \in Sources : Read(i, s)
  BY <1>2, PlaceRead
<1>3. CASE \E t \in Threads, i \in Items, s \in Sources :
             \E kind \in {"ok", "err", "timeout"} : Deliver(t, i, s, kind)
  BY <1>3, PlaceDeliver
<1>4. CASE \E t \in Threads, i \in Items, s \in Sources : RejectUnreadable(t, i, s)
  BY <1>4, PlaceReject
<1>5. CASE \E t \in Threads : Step(t)
  BY <1>5, PlaceStepInv
<1>6. CASE Crash
  BY <1>6, FaultFree DEF Crash, IndInv
<1>7. CASE UNCHANGED vars
  BY <1>7 DEF vars, task, PlaceInv, PlaceItem, PlaceThread, Live
<1> QED BY <1>1, <1>2, <1>3, <1>4, <1>5, <1>6, <1>7 DEF Next

-----------------------------------------------------------------------------
(* The theorems.                                                            *)

LEMMA Inductive == Spec => []IndInv
BY InitInd, NextInd, PTL DEF Spec

\* Every variable of the delivery keeps its type, whatever fails.
THEOREM TypeCorrect == Spec => []TypeOK
<1>1. IndInv => TypeOK
  BY DEF IndInv
<1> QED BY <1>1, Inductive, PTL

\* Routing never loses an item without a trace in an audit log, except through
\* copyDir writing over itself: for any number of items, of deliveries at the
\* same time, of I/O failures and of crashes.
THEOREM LossIsLogged == Spec => []NoSilentLoss
<1>1. IndInv => NoSilentLoss
  BY DEF IndInv, TypeOK, ItemInv, NoSilentLoss
<1> QED BY <1>1, Inductive, PTL

\* An item that left staging/ and failed/ is complete in its agent's inbox or
\* recorded as quarantined or rejected, unless one of the mishaps befell it.
THEOREM ContentKept == Spec => []Custody
<1>1. IndInv => Custody
  BY DEF IndInv, TypeOK, ItemInv, Custody
<1> QED BY <1>1, Inductive, PTL

\* Content that is not cleared never reaches an inbox, on any of the paths
\* through deliverResult, failed/, retries and restarts.
THEOREM FailClosed == Spec => []OnlyCleared
<1>1. IndInv => OnlyCleared
  BY DEF IndInv, ItemInv, OnlyCleared
<1> QED BY <1>1, Inductive, PTL

\* The metadata an agent gets is the resolved one, unless two deliveries of the
\* item overlapped.
THEOREM AgentSeesEntity == Spec => []InboxResolved
<1>1. IndInv => InboxResolved
  BY DEF IndInv, ItemInv, InboxResolved
<1> QED BY <1>1, Inductive, PTL

\* Delivery implements ItemFate, for any number of items, goroutines, failures
\* and crashes: whatever deliverResult and the Route* functions do to the files
\* is, for each item, one of the few steps the abstract specification allows.
THEOREM FateImplemented == Spec => FateKept
<1>1. IndInv /\ IndInv' /\ [Next]_vars => [Fate!FateNext]_(Fate!fate)
  BY FateNextMapped
<1>2. Init => Fate!FateInit
  BY FateInitMapped
<1> QED BY <1>1, <1>2, Inductive, PTL DEF Spec, FateKept, Fate!FateSpec

\* Without an I/O failure a placeholder announces an item that is still in the
\* pipeline, whatever deliveries, retries and rejections of it are under way.
THEOREM PlaceholdersBacked == Spec => []PlaceholderBacked
<1>1. Init => PlaceInv
  BY DEF Init, PlaceInv, PlaceItem, PlaceThread, Live, Ended, Sources
<1>2. IndInv /\ PlaceInv => PlaceholderBacked
  <2> SUFFICES ASSUME IndInv, PlaceInv, NEW i \in placeholder, ~(faults > 0)
               PROVE  \/ dir["staging"][i] # {}
                      \/ \E t \in Threads : item[t] = i /\ pc[t] = "p_pend"
    BY DEF PlaceholderBacked
  <2>1. faults = 0 /\ i \in Items
    BY DeliveryAssumption DEF IndInv, TypeOK
  <2> QED BY <2>1 DEF PlaceInv, PlaceItem
<1> QED BY <1>1, <1>2, PlaceNext, Inductive, PTL DEF Spec
===========================================================================
