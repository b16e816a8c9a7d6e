------------------------------ MODULE Delivery ------------------------------
(***************************************************************************)
(* What happens to one scanned item: deliverResult in main.go, the Route*  *)
(* functions of internal/routing and the audit logger of internal/audit.   *)
(*                                                                         *)
(* A delivery is a sequence of file operations, each of which may fail,    *)
(* and the process may die between any two of them.  Several deliveries    *)
(* may be under way at once, even of the same item: a delivery that timed  *)
(* out goes on in its orphaned goroutine (pipeline.WithTimeout), Flush     *)
(* retries what it already delivered, and the rescan of failed/ enqueues   *)
(* an item again at every tick.  Who starts deliveries, and when, is left  *)
(* open here; module ScanPipeline says it.                                 *)
(*                                                                         *)
(* A directory of an item is the set of what is in it, {} when there is no *)
(* directory.  "content" and "metadata" stand for complete files: a write  *)
(* that fails leaves a truncated file, which is not counted.  "resolved"   *)
(* says that metadata.json carries the entity_id instead of the principal. *)
(***************************************************************************)
EXTENDS Naturals, FiniteSets

CONSTANTS Items,       \* names of item directories, positive numbers
          Attrs,       \* what the metadata and the content of an item may be
          Threads,     \* goroutines a delivery can run in
          Seconds,     \* clock readings, to the second, that name a quarantine
          Hashes,      \* content hashes
          Enforce,     \* subject.SubjectRegistry.enforce
          MaxFaults    \* bound: I/O failures and crashes in one behaviour

NoItem == 0

AttrType == [valid   : BOOLEAN,                       \* staging.Validate accepts
             ordered : BOOLEAN,
             tagged  : BOOLEAN,                       \* tag parse_status
             subject : {"none", "known", "unknown"},  \* data_subject
             verdict : {"pass", "quarantine"},        \* the scanner's verdict
             escapes : BOOLEAN,                       \* ValidateDestination fails
             hash    : Hashes]

ASSUME DeliveryAssumption ==
  /\ Items \subseteq Nat \ {0}
  /\ Attrs \subseteq AttrType
  /\ Enforce \in BOOLEAN
  /\ MaxFaults \in Nat

VARIABLES attr,        \* what each item is; never changes
          arrived,     \* items a connector has put into staging
          dir,         \* dir[s][i]: what the directory of i under s holds
          read,        \* <<i, s>>: this process read the item i from s
          inbox,       \* inbox[i]: the delivery directory of i at its agent
          placeholder, \* items with a .pending.json in the agent's inbox
          sanitized,   \* names of quarantines with a complete content.sanitized
          qmeta,       \* qmeta[q]: whose metadata.json quarantine q has
          notice,      \* notice[q]: whom the notification named q is about
          audit,       \* audit[i]: verdicts recorded for i in the audit logs
          degraded,    \* audit.Logger.degraded
          pc,          \* pc[t]: the step goroutine t is at
          item,        \* item[t]: the item it delivers
          from,        \* from[t]: where the item was read, "staging" or "failed"
          qid,         \* qid[t]: the name of the quarantine it writes
          faults,      \* failures so far
          mishap       \* history: what went wrong with an item (see Mishaps)

task == <<pc, item, from, qid>>
quarantine == <<sanitized, qmeta, notice>>
vars == <<attr, arrived, dir, read, inbox, placeholder, quarantine, audit,
          degraded, task, faults, mishap>>

Sources == {"staging", "failed"}
Files   == {"dir", "content", "metadata", "resolved", "tmp"}
QIds    == Seconds \X Hashes
Verdicts == {"pass", "quarantine", "reject"}

\* "overlap":  two deliveries of the item ran at the same time;
\* "leftover": RemoveAll or copyDir failed and left part of the item behind;
\* "recopied": copyDir wrote over itself or over an existing failed/<item>.
Mishaps == {"overlap", "leftover", "recopied"}

Ended == {"idle", "ok", "err"}
PCs   == Ended \cup
         {"gate_tmp", "gate_rename",
          "p_mkdir", "p_content", "p_meta", "p_audit", "p_remove", "p_pend",
          "q_content", "q_meta", "q_note", "q_audit", "q_remove",
          "r_audit", "r_remove",
          "f_rename", "f_copy", "f_remove"}

NoQId == <<>>

TypeOK ==
  /\ attr \in [Items -> Attrs]
  /\ arrived \subseteq Items
  /\ dir \in [Sources -> [Items -> SUBSET Files]]
  /\ read \subseteq Items \X Sources
  /\ inbox \in [Items -> SUBSET Files]
  /\ placeholder \subseteq Items
  /\ sanitized \subseteq QIds
  /\ qmeta \in [QIds -> Items \cup {NoItem}]
  /\ notice \in [QIds -> Items \cup {NoItem}]
  /\ audit \in [Items -> SUBSET Verdicts]
  /\ degraded \in BOOLEAN
  /\ pc \in [Threads -> PCs]
  /\ item \in [Threads -> Items \cup {NoItem}]
  /\ from \in [Threads -> Sources]
  /\ qid \in [Threads -> QIds \cup {NoQId}]
  /\ faults \in 0..MaxFaults
  /\ mishap \in [Items -> SUBSET Mishaps]

Init ==
  /\ attr \in [Items -> Attrs]
  /\ arrived = {}
  /\ dir = [s \in Sources |-> [i \in Items |-> {}]]
  /\ read = {}
  /\ inbox = [i \in Items |-> {}]
  /\ placeholder = {}
  /\ sanitized = {}
  /\ qmeta = [q \in QIds |-> NoItem]
  /\ notice = [q \in QIds |-> NoItem]
  /\ audit = [i \in Items |-> {}]
  /\ degraded = FALSE
  /\ pc = [t \in Threads |-> "idle"]
  /\ item = [t \in Threads |-> NoItem]
  /\ from = [t \in Threads |-> "staging"]
  /\ qid = [t \in Threads |-> NoQId]
  /\ faults = 0
  /\ mishap = [i \in Items |-> {}]

-----------------------------------------------------------------------------
(* Helpers.                                                                 *)

Whole(files) == {"dir", "content", "metadata"} \subseteq files

\* metadata.json and what it says go together.
Named(files) == files \cup IF "metadata" \in files THEN {"resolved"} ELSE {}

Live(t) == pc[t] \notin Ended

\* The directory goroutine t read its item from.
SrcOf(t) == dir[from[t]][item[t]]

SetSrc(t, files) == dir' = [dir EXCEPT ![from[t]][item[t]] = files]

Goto(t, next) == pc' = [pc EXCEPT ![t] = next] /\ UNCHANGED <<item, from, qid>>

\* A step in which an operating-system call returns an error.
Fault    == faults < MaxFaults /\ faults' = faults + 1
NoFault  == UNCHANGED faults

\* removePendingForItem: os.Remove may fail, and its error is ignored.
RemovePending(i) ==
  \/ placeholder' = placeholder \ {i} /\ NoFault
  \/ i \in placeholder /\ UNCHANGED placeholder /\ Fault

-----------------------------------------------------------------------------
(* The environment: a connector commits an item, the process reads it.      *)

\* A connector renames a complete item into staging/ (connector staging
\* writers, ingest.Handler).
Arrive(i) ==
  /\ i \notin arrived
  /\ arrived' = arrived \cup {i}
  /\ dir' = [dir EXCEPT !["staging"][i] = {"dir", "content", "metadata"}]
  /\ UNCHANGED <<attr, read, inbox, placeholder, quarantine, audit, degraded,
                 task, faults, mishap>>

\* ReadStagingItem succeeds: metadata.json is there and valid; content.raw is
\* not looked at.  For an ordered item the watcher's handler then writes the
\* placeholder (an error is ignored); the rescan of failed/ does not.  The
\* watcher hands over each directory once (Watcher.seen); to read failed/<i>
\* again at the next tick changes nothing here.
Read(i, s) ==
  /\ <<i, s>> \notin read
  /\ "metadata" \in dir[s][i] /\ attr[i].valid
  /\ read' = read \cup {<<i, s>>}
  /\ \/ /\ s = "staging" /\ attr[i].ordered
        /\ \/ placeholder' = placeholder \cup {i} /\ NoFault
           \/ UNCHANGED placeholder /\ Fault
     \/ /\ s = "failed" \/ ~attr[i].ordered
        /\ UNCHANGED placeholder /\ NoFault
  /\ UNCHANGED <<attr, arrived, dir, inbox, quarantine, audit, degraded, task,
                 mishap>>

\* A goroutine starts at step first with the item i read from s.
Start(t, i, s, first) ==
  /\ pc[t] = "idle"
  /\ pc' = [pc EXCEPT ![t] = first]
  /\ item' = [item EXCEPT ![t] = i]
  /\ from' = [from EXCEPT ![t] = s]
  /\ UNCHANGED qid
  /\ mishap' = IF \E u \in Threads : Live(u) /\ item[u] = i
               THEN [mishap EXCEPT ![i] = @ \cup {"overlap"}] ELSE mishap

-----------------------------------------------------------------------------
(* deliverResult.                                                           *)

\* Mutant: the verdict is not looked at after the gate.
RoutedAnyway(a) == IF a.escapes THEN "r_audit" ELSE "p_mkdir"

\* The end of deliverResult, once the subject gate let the item through.
Routed(a) ==
  CASE a.verdict = "quarantine" -> "q_content"
    [] a.verdict = "pass" /\ a.escapes -> "r_audit"
    [] OTHER -> "p_mkdir"

\* The chain of early returns: a scan that timed out, a scan error, a broken
\* audit log, a parse_status tag, then SubjectGate and the verdict.
Chain(a, kind) ==
  CASE kind = "timeout" -> "q_content"
    [] kind = "err" -> "f_rename"
    [] kind = "ok" /\ (degraded \/ a.tagged) -> "q_content"
    [] kind = "ok" /\ ~degraded /\ ~a.tagged /\ a.subject = "known" -> "gate_tmp"
    [] kind = "ok" /\ ~degraded /\ ~a.tagged /\ a.subject = "unknown" /\ Enforce
         -> "q_content"
    [] OTHER -> Routed(a)

\* Mutant: a quarantine forgets the placeholder.
KeepsPlaceholderQ == {"gate_tmp", "p_mkdir", "q_content"}

\* Every way out but a pass removes the placeholder before it routes.
KeepsPlaceholder == {"gate_tmp", "p_mkdir"}

\* deliverResult is called with a scan response for an item that was read.
Deliver(t, i, s, kind) ==
  /\ <<i, s>> \in read
  /\ LET first == Chain(attr[i], kind) IN
       /\ Start(t, i, s, first)
       /\ \/ /\ first \in KeepsPlaceholder
             /\ UNCHANGED placeholder /\ NoFault
          \/ /\ first \notin KeepsPlaceholder
             /\ RemovePending(i)
  /\ UNCHANGED <<attr, arrived, dir, read, inbox, quarantine, audit, degraded>>

\* ReadStagingItem fails: the watcher's handler and the failed/ rescan reject
\* the directory.
RejectUnreadable(t, i, s) ==
  /\ dir[s][i] # {}
  /\ "metadata" \notin dir[s][i] \/ ~attr[i].valid
  /\ Start(t, i, s, "r_audit")
  /\ UNCHANGED <<attr, arrived, dir, read, inbox, placeholder, quarantine,
                 audit, degraded, faults>>

\* persistMetadata creates metadata.json.tmp with O_EXCL: a leftover of a
\* crash makes it fail.  An error of the gate routes the item to failed/.
GateTmp(t) ==
  /\ pc[t] = "gate_tmp"
  /\ \/ /\ SrcOf(t) # {} /\ "tmp" \notin SrcOf(t)
        /\ SetSrc(t, SrcOf(t) \cup {"tmp"})
        /\ Goto(t, "gate_rename")
        /\ UNCHANGED placeholder /\ NoFault
     \/ /\ SrcOf(t) = {} \/ "tmp" \in SrcOf(t)
        /\ placeholder' = placeholder \ {item[t]} /\ NoFault
        /\ Goto(t, "f_rename") /\ UNCHANGED dir
     \/ /\ placeholder' = placeholder \ {item[t]} /\ Fault
        /\ Goto(t, "f_rename") /\ UNCHANGED dir
  /\ UNCHANGED <<attr, arrived, read, inbox, quarantine, audit, degraded,
                 mishap>>

\* Mutant: an error of the rename is logged and the item goes on.
GateRenameIgnored(t) ==
  /\ pc[t] = "gate_rename"
  /\ \/ /\ "tmp" \in SrcOf(t) /\ NoFault
        /\ SetSrc(t, (SrcOf(t) \ {"tmp"}) \cup {"metadata", "resolved"})
     \/ Fault /\ SetSrc(t, SrcOf(t) \ {"tmp"})
  /\ Goto(t, Routed(attr[item[t]]))
  /\ UNCHANGED <<attr, arrived, read, inbox, placeholder, quarantine, audit,
                 degraded, mishap>>

\* ... and renames it over metadata.json.  The rest of deliverResult follows.
GateRename(t) ==
  /\ pc[t] = "gate_rename"
  /\ \/ LET next == Routed(attr[item[t]]) IN
        /\ "tmp" \in SrcOf(t)
        /\ SetSrc(t, (SrcOf(t) \ {"tmp"}) \cup {"metadata", "resolved"})
        /\ Goto(t, next)
        /\ placeholder' = IF next \in KeepsPlaceholder THEN placeholder
                          ELSE placeholder \ {item[t]}
        /\ NoFault
     \/ /\ "tmp" \notin SrcOf(t) /\ NoFault
        /\ placeholder' = placeholder \ {item[t]}
        /\ Goto(t, "f_rename") /\ UNCHANGED dir
     \/ /\ Fault
        /\ placeholder' = placeholder \ {item[t]}
        /\ SetSrc(t, SrcOf(t) \ {"tmp"}) /\ Goto(t, "f_rename")
  /\ UNCHANGED <<attr, arrived, read, inbox, quarantine, audit, degraded,
                 mishap>>

-----------------------------------------------------------------------------
(* Steps the Route* functions share.                                        *)

\* Mutant: the caller ignores the error of the audit log.
appendJSONL_ignored(t, verdict, next) ==
  /\ \/ /\ audit' = [audit EXCEPT ![item[t]] = @ \cup {verdict}]
        /\ degraded' = FALSE /\ NoFault
     \/ UNCHANGED audit /\ degraded' = TRUE /\ Fault
  /\ Goto(t, next)

\* Mutant: the log is opened with O_TRUNC.
appendJSONL_truncates(t, verdict, next) ==
  \/ /\ audit' = [audit EXCEPT ![item[t]] = {verdict}]
     /\ degraded' = FALSE
     /\ Goto(t, next) /\ NoFault
  \/ /\ UNCHANGED audit
     /\ degraded' = TRUE
     /\ Goto(t, "err") /\ Fault

\* Logger.appendJSONL: a failed write switches degraded mode on, a written
\* entry switches it off.
appendJSONL(t, verdict, next) ==
  \/ /\ audit' = [audit EXCEPT ![item[t]] = @ \cup {verdict}]
     /\ degraded' = FALSE
     /\ Goto(t, next) /\ NoFault
  \/ /\ UNCHANGED audit
     /\ degraded' = TRUE
     /\ Goto(t, "err") /\ Fault

\* os.RemoveAll of the source directory, its error ignored: when it fails,
\* any part of the directory may be left.
RemoveSource(t, next) ==
  /\ \/ SetSrc(t, {}) /\ NoFault /\ UNCHANGED mishap
     \/ /\ \E gone \in SUBSET (SrcOf(t) \ {"dir", "resolved"}) :
             SetSrc(t, SrcOf(t) \ Named(gone))
        /\ mishap' = [mishap EXCEPT ![item[t]] = @ \cup {"leftover"}]
        /\ Fault
  /\ Goto(t, next)

\* A file written with os.WriteFile: truncated first, complete only if the
\* write succeeds.
Written(files, f) == files \cup {f}
Torn(files, f)    == files \ {f}

-----------------------------------------------------------------------------
(* RoutePass.                                                               *)

PassMkdir(t) ==
  /\ pc[t] = "p_mkdir"
  /\ \/ /\ inbox' = [inbox EXCEPT ![item[t]] = @ \cup {"dir"}]
        /\ Goto(t, "p_content") /\ NoFault
     \/ /\ UNCHANGED inbox
        /\ Goto(t, "err") /\ Fault
  /\ UNCHANGED <<attr, arrived, dir, read, placeholder, quarantine, audit,
                 degraded, mishap>>

\* Mutant: the error of WriteFile is dropped.
PassContentIgnored(t) ==
  /\ pc[t] = "p_content"
  /\ "content" \in SrcOf(t)
  /\ \/ inbox' = [inbox EXCEPT ![item[t]] = Written(@, "content")] /\ NoFault
     \/ inbox' = [inbox EXCEPT ![item[t]] = Torn(@, "content")] /\ Fault
  /\ Goto(t, "p_meta")
  /\ UNCHANGED <<attr, arrived, dir, read, placeholder, quarantine, audit,
                 degraded, mishap>>

PassContent(t) ==
  /\ pc[t] = "p_content"
  /\ \/ /\ "content" \in SrcOf(t)
        /\ inbox' = [inbox EXCEPT ![item[t]] = Written(@, "content")]
        /\ Goto(t, "p_meta") /\ NoFault
     \/ /\ ("content" \notin SrcOf(t) /\ NoFault) \/ Fault
        /\ UNCHANGED inbox
        /\ Goto(t, "err")
     \/ /\ "content" \in SrcOf(t)
        /\ inbox' = [inbox EXCEPT ![item[t]] = Torn(@, "content")]
        /\ Goto(t, "err") /\ Fault
  /\ UNCHANGED <<attr, arrived, dir, read, placeholder, quarantine, audit,
                 degraded, mishap>>

\* metadata.json is copied as the source directory holds it at this moment.
PassMeta(t) ==
  /\ pc[t] = "p_meta"
  /\ \/ /\ "metadata" \in SrcOf(t)
        /\ inbox' = [inbox EXCEPT ![item[t]] =
             Written(@ \ {"resolved"}, "metadata") \cup (SrcOf(t) \cap {"resolved"})]
        /\ Goto(t, "p_audit") /\ NoFault
     \/ /\ ("metadata" \notin SrcOf(t) /\ NoFault) \/ Fault
        /\ UNCHANGED inbox
        /\ Goto(t, "err")
     \/ /\ "metadata" \in SrcOf(t)
        /\ inbox' = [inbox EXCEPT ![item[t]] = Torn(@ \ {"resolved"}, "metadata")]
        /\ Goto(t, "err") /\ Fault
  /\ UNCHANGED <<attr, arrived, dir, read, placeholder, quarantine, audit,
                 degraded, mishap>>

PassAudit(t) ==
  /\ pc[t] = "p_audit"
  /\ appendJSONL(t, "pass", "p_remove")
  /\ UNCHANGED <<attr, arrived, dir, read, inbox, placeholder, quarantine,
                 mishap>>

PassRemove(t) ==
  /\ pc[t] = "p_remove"
  /\ RemoveSource(t, "p_pend")
  /\ UNCHANGED <<attr, arrived, read, inbox, placeholder, quarantine, audit,
                 degraded>>

\* Back in deliverResult: only a pass that succeeded removes the placeholder.
PassPend(t) ==
  /\ pc[t] = "p_pend"
  /\ RemovePending(item[t])
  /\ Goto(t, "ok")
  /\ UNCHANGED <<attr, arrived, dir, read, inbox, quarantine, audit, degraded,
                 mishap>>

-----------------------------------------------------------------------------
(* RouteQuarantine.                                                         *)

\* The quarantine is named by the current second and the content hash.
QuarantineContent(t) ==
  /\ pc[t] = "q_content"
  /\ \/ /\ "content" \in SrcOf(t)
        /\ \E s \in Seconds :
             LET q == <<s, attr[item[t]].hash>> IN
             \/ /\ sanitized' = sanitized \cup {q}
                /\ pc' = [pc EXCEPT ![t] = "q_meta"]
                /\ qid' = [qid EXCEPT ![t] = q]
                /\ UNCHANGED <<item, from>>
                /\ NoFault
             \/ /\ sanitized' = sanitized \ {q}
                /\ Goto(t, "err") /\ Fault
     \/ /\ ("content" \notin SrcOf(t) /\ NoFault) \/ Fault
        /\ UNCHANGED sanitized
        /\ Goto(t, "err")
  /\ UNCHANGED <<attr, arrived, dir, read, inbox, placeholder, qmeta, notice,
                 audit, degraded, mishap>>

QuarantineMeta(t) ==
  /\ pc[t] = "q_meta"
  /\ \/ /\ qmeta' = [qmeta EXCEPT ![qid[t]] = item[t]]
        /\ Goto(t, "q_note") /\ NoFault
     \/ /\ qmeta' \in {qmeta, [qmeta EXCEPT ![qid[t]] = NoItem]}
        /\ Goto(t, "err") /\ Fault
  /\ UNCHANGED <<attr, arrived, dir, read, inbox, placeholder, sanitized, notice,
                 audit, degraded, mishap>>

QuarantineNote(t) ==
  /\ pc[t] = "q_note"
  /\ \/ /\ notice' = [notice EXCEPT ![qid[t]] = item[t]]
        /\ Goto(t, "q_audit") /\ NoFault
     \/ /\ notice' \in {notice, [notice EXCEPT ![qid[t]] = NoItem]}
        /\ Goto(t, "err") /\ Fault
  /\ UNCHANGED <<attr, arrived, dir, read, inbox, placeholder, sanitized, qmeta,
                 audit, degraded, mishap>>

QuarantineAudit(t) ==
  /\ pc[t] = "q_audit"
  /\ appendJSONL(t, "quarantine", "q_remove")
  /\ UNCHANGED <<attr, arrived, dir, read, inbox, placeholder, quarantine,
                 mishap>>

QuarantineRemove(t) ==
  /\ pc[t] = "q_remove"
  /\ RemoveSource(t, "ok")
  /\ UNCHANGED <<attr, arrived, read, inbox, placeholder, quarantine, audit,
                 degraded>>

-----------------------------------------------------------------------------
(* RouteReject.                                                             *)

RejectAudit(t) ==
  /\ pc[t] = "r_audit"
  /\ appendJSONL(t, "reject", "r_remove")
  /\ UNCHANGED <<attr, arrived, dir, read, inbox, placeholder, quarantine,
                 mishap>>

RejectRemove(t) ==
  /\ pc[t] = "r_remove"
  /\ RemoveSource(t, "ok")
  /\ UNCHANGED <<attr, arrived, read, inbox, placeholder, quarantine, audit,
                 degraded>>

-----------------------------------------------------------------------------
(* RouteToFailed.                                                           *)

\* os.Rename to failed/<item>.  It refuses a target that is a directory, the
\* source itself included, so an item already in failed/ is always copied.
\* It also fails when the source is gone or on another volume (a fault).
FailRename(t) ==
  LET i == item[t] IN
  /\ pc[t] = "f_rename"
  /\ \/ /\ dir["staging"][i] # {} /\ from[t] = "staging"
        /\ dir["failed"][i] = {}
        /\ dir' = [dir EXCEPT !["staging"][i] = {},
                              !["failed"][i] = dir["staging"][i]]
        /\ Goto(t, "ok") /\ NoFault
     \/ /\ SrcOf(t) = {} \/ dir["failed"][i] # {}
        /\ UNCHANGED dir
        /\ Goto(t, "f_copy") /\ NoFault
     \/ /\ UNCHANGED dir
        /\ Goto(t, "f_copy") /\ Fault
     \/ /\ UNCHANGED dir                              \* MkdirAll(failedDir)
        /\ Goto(t, "err") /\ Fault
  /\ UNCHANGED <<attr, arrived, read, inbox, placeholder, quarantine, audit,
                 degraded, mishap>>

\* What is in dst after copyDir wrote the files of src named in copied and
\* truncated those in torn.
CopyOver(dst, src, copied, torn) ==
  {"dir"} \cup (dst \ Named(copied \cup torn)) \cup (src \cap Named(copied))

\* copyDir up to its RemoveAll.  When it fails, some files were copied and at
\* most one was truncated.
FailCopy(t) ==
  LET i     == item[t]
      names == SrcOf(t) \ {"dir", "resolved"}
      over  == IF from[t] = "failed" \/ (SrcOf(t) # {} /\ dir["failed"][i] # {})
               THEN {"recopied"} ELSE {}
  IN
  /\ pc[t] = "f_copy"
  /\ \/ /\ SrcOf(t) # {} \/ from[t] = "failed"
        /\ dir' = [dir EXCEPT !["failed"][i] = CopyOver(@, SrcOf(t), names, {})]
        /\ mishap' = [mishap EXCEPT ![i] = @ \cup over]
        /\ Goto(t, "f_remove") /\ NoFault
     \/ /\ SrcOf(t) = {} /\ from[t] = "staging"
        /\ dir' = [dir EXCEPT !["failed"][i] = @ \cup {"dir"}]
        /\ UNCHANGED mishap
        /\ Goto(t, "err") /\ NoFault
     \/ /\ SrcOf(t) # {}
        /\ \E copied \in SUBSET names : \E torn \in SUBSET (names \ copied) :
             /\ Cardinality(torn) <= 1
             /\ dir' = [dir EXCEPT !["failed"][i] =
                          CopyOver(@, SrcOf(t), copied, torn)]
        /\ mishap' = [mishap EXCEPT ![i] = @ \cup over \cup {"leftover"}]
        /\ Goto(t, "err") /\ Fault
  /\ UNCHANGED <<attr, arrived, read, inbox, placeholder, quarantine, audit,
                 degraded>>

\* The RemoveAll at the end of copyDir: of failed/<item> itself when that is
\* where the item came from.
FailRemove(t) ==
  /\ pc[t] = "f_remove"
  /\ RemoveSource(t, "ok")
  /\ UNCHANGED <<attr, arrived, read, inbox, placeholder, quarantine, audit,
                 degraded>>

-----------------------------------------------------------------------------
(* The goroutine returns; the process dies and starts again.                *)

Return(t) ==
  /\ pc[t] \in {"ok", "err"}
  /\ pc' = [pc EXCEPT ![t] = "idle"]
  /\ item' = [item EXCEPT ![t] = NoItem]
  /\ from' = [from EXCEPT ![t] = "staging"]
  /\ qid' = [qid EXCEPT ![t] = NoQId]
  /\ UNCHANGED <<attr, arrived, dir, read, inbox, placeholder, quarantine,
                 audit, degraded, faults, mishap>>

\* Everything in memory is lost.  A new process opens the audit log afresh
\* and CleanStalePending removes every placeholder.
Crash ==
  /\ Fault
  /\ pc' = [t \in Threads |-> "idle"]
  /\ item' = [t \in Threads |-> NoItem]
  /\ from' = [t \in Threads |-> "staging"]
  /\ qid' = [t \in Threads |-> NoQId]
  /\ read' = {}
  /\ degraded' = FALSE
  /\ placeholder' = {}
  /\ UNCHANGED <<attr, arrived, dir, inbox, quarantine, audit, mishap>>

Step(t) ==
  \/ GateTmp(t) \/ GateRename(t)
  \/ PassMkdir(t) \/ PassContent(t) \/ PassMeta(t)
  \/ PassAudit(t) \/ PassRemove(t) \/ PassPend(t)
  \/ QuarantineContent(t) \/ QuarantineMeta(t) \/ QuarantineNote(t)
  \/ QuarantineAudit(t) \/ QuarantineRemove(t)
  \/ RejectAudit(t) \/ RejectRemove(t)
  \/ FailRename(t) \/ FailCopy(t) \/ FailRemove(t)
  \/ Return(t)

Next ==
  \/ \E i \in Items : Arrive(i)
  \/ \E i \in Items, s \in Sources : Read(i, s)
  \/ \E t \in Threads, i \in Items, s \in Sources :
       \/ \E kind \in {"ok", "err", "timeout"} : Deliver(t, i, s, kind)
       \/ RejectUnreadable(t, i, s)
  \/ \E t \in Threads : Step(t)
  \/ Crash

Spec == Init /\ [][Next]_vars

-----------------------------------------------------------------------------
(* Properties.                                                              *)

Recorded(i)     == audit[i] # {}
RejectLogged(i) == "quarantine" \in audit[i] \/ "reject" \in audit[i]
Held(i)         == Whole(dir["staging"][i]) \/ Whole(dir["failed"][i])

Traced(i) == Held(i) \/ Recorded(i) \/ "recopied" \in mishap[i]

\* Routing never loses an item without a trace: while no complete copy is in
\* staging/ or failed/, pass.jsonl or rejected.jsonl has an entry for it.  The
\* one exception is an item that copyDir wrote over itself or over an older
\* copy in failed/ (failed.go promises "later rescan").
NoSilentLoss == \A i \in arrived : Traced(i)

Kept(i) == mishap[i] = {} => Held(i) \/ Whole(inbox[i]) \/ RejectLogged(i)

\* The content itself is kept: an item that is no longer in staging/ or
\* failed/ is complete in the agent's inbox, unless rejected.jsonl says that
\* it was quarantined or rejected.  A pass entry alone does not justify the
\* deletion.  It takes one of the mishaps to break this: two deliveries at the
\* same time (the second truncates content.raw in the inbox and fails, the
\* first deletes the source), or a retry from what RemoveAll or copyDir left.
Custody == \A i \in arrived : Kept(i)

\* What may reach an agent: valid metadata, a pass verdict, no parse_status
\* tag, no unresolved subject under enforcement, a destination inside the
\* agents directory.
Cleared(a) ==
  /\ a.valid /\ ~a.tagged /\ ~a.escapes
  /\ a.verdict = "pass"
  /\ ~(a.subject = "unknown" /\ Enforce)

ClearedAt(i) == "content" \in inbox[i] => Cleared(attr[i])

\* Fail closed: content of an item that is not cleared is never written to an
\* inbox, whatever fails, crashes, is retried or rescanned.
OnlyCleared == \A i \in Items : ClearedAt(i)

ResolvedAt(i) ==
  attr[i].subject = "known" /\ "metadata" \in inbox[i]
    => "resolved" \in inbox[i] \/ "overlap" \in mishap[i]

\* The copy of metadata.json an agent gets carries the resolved entity_id and
\* not the principal, also when the gate failed, the item went through failed/
\* and was delivered from there.  (A second delivery at the same time can put
\* the metadata from staging/ back under the first.)
InboxResolved == \A i \in Items : ResolvedAt(i)

\* A placeholder announces an item that is still in the pipeline: its
\* directory is in staging/, or a delivery is about to remove the placeholder,
\* or an I/O call failed.
PlaceholderBacked ==
  \A i \in placeholder :
    \/ dir["staging"][i] # {}
    \/ \E t \in Threads : item[t] = i /\ pc[t] = "p_pend"
    \/ faults > 0

-----------------------------------------------------------------------------
(* What routing promises, module ItemFate, in terms of the files.           *)

Fate == INSTANCE ItemFate WITH
          clear   <- {i \in Items : Cleared(attr[i])},
          known   <- arrived,
          kept    <- {i \in Items : Held(i)},
          inboxed <- {i \in Items : "content" \in inbox[i]},
          log     <- audit,
          spoiled <- {i \in Items : "recopied" \in mishap[i]}

\* Every step of every delivery is one that ItemFate allows: the last whole
\* copy of an item goes only when its verdict is on record, records stay, and
\* only cleared items are recorded as passed or reach an inbox.
FateKept == Fate!FateSpec

-----------------------------------------------------------------------------
(* The inductive invariant behind NoSilentLoss, Custody, OnlyCleared and     *)
(* InboxResolved (module Delivery_proofs).                                  *)

\* Only items that arrived are on disk, were read or are being delivered.
Known ==
  /\ \A s \in Sources, i \in Items : dir[s][i] # {} => i \in arrived
  /\ \A i \in Items, s \in Sources : <<i, s>> \in read => i \in arrived /\ attr[i].valid
  /\ \A t \in Threads : Live(t) => item[t] \in arrived

\* Two deliveries of one item at the same time are noticed.
Exclusive ==
  \A t, u \in Threads :
    t # u /\ Live(t) /\ Live(u) /\ item[t] = item[u] => "overlap" \in mishap[item[t]]

\* Without mishaps a directory that has content.raw is complete.
CleanDirs(i) ==
  mishap[i] = {} =>
    \A s \in Sources : "content" \in dir[s][i] => Whole(dir[s][i])

ItemInv(i) ==
  /\ i \in arrived => Traced(i) /\ Kept(i)
  /\ ClearedAt(i) /\ ResolvedAt(i) /\ CleanDirs(i)

\* A goroutine about to delete the source directory may do so.
MayDelete(t) ==
  LET i == item[t] IN
  /\ pc[t] \in {"p_remove", "q_remove", "r_remove"} => Recorded(i)
  /\ pc[t] \in {"q_remove", "r_remove"} => RejectLogged(i)
  /\ pc[t] = "f_remove" =>
       /\ Whole(dir["failed"][i]) \/ Recorded(i) \/ "recopied" \in mishap[i]
       /\ from[t] = "failed" => "recopied" \in mishap[i]

\* Without mishaps the inbox holds what the step of the delivery says.
Progressed(t) ==
  LET i == item[t] IN
  mishap[i] = {} =>
    /\ pc[t] \in {"p_content", "p_meta"} => "dir" \in inbox[i]
    /\ pc[t] = "p_meta" => "content" \in inbox[i] /\ "content" \in SrcOf(t)
    /\ pc[t] \in {"p_audit", "p_remove"} => Whole(inbox[i])
    /\ pc[t] = "f_remove" =>
         Whole(dir["failed"][i]) \/ Whole(inbox[i]) \/ RejectLogged(i)

Gating  == {"gate_tmp", "gate_rename"}
Passing == {"p_mkdir", "p_content", "p_meta", "p_audit", "p_remove", "p_pend"}

\* What the early returns of deliverResult have established, and that the
\* metadata to be copied is the resolved one.
Judged(t) ==
  LET a == attr[item[t]] IN
  /\ pc[t] \in Gating => a.valid /\ ~a.tagged /\ a.subject = "known"
  /\ pc[t] \in Passing =>
       /\ Cleared(a)
       /\ a.subject = "known" /\ "metadata" \in SrcOf(t)
            => "resolved" \in SrcOf(t) \/ "overlap" \in mishap[item[t]]

ThreadInv(t) == Live(t) => MayDelete(t) /\ Progressed(t) /\ Judged(t)

IndInv ==
  /\ TypeOK /\ Known /\ Exclusive
  /\ \A i \in Items : ItemInv(i)
  /\ \A t \in Threads : ThreadInv(t)

===========================================================================
