-------------------------------- MODULE Mbox --------------------------------
(***************************************************************************)
(* The mbox importer (importers/mbox) under its driver (importer/resume.go,*)
(* runoneshot.go) and its archive watcher (watch.go): a producer scans the *)
(* archive and feeds a pool of workers, a collector applies their results  *)
(* to the manifest, and the manifest tells the next run where to go on.    *)
(*                                                                         *)
(* Message m of the archive takes three positions: its start 3(m-1), its   *)
(* tail (behind the text that Size counts, which leaves out the From_ line *)
(* and the last newline) and its last newline.  What a scan yields depends *)
(* on where it starts: the message, the tail as a message of its own, or,  *)
(* from the last newline, the next message without its headers.            *)
(***************************************************************************)
EXTENDS Integers, Sequences, SequencesExt

CONSTANTS
    Imports,        \* the imports followed: mode, the messages' Message-IDs in archive
                    \* order (0: none), the messages the filter excludes, whether it
                    \* excludes a message without headers, the messages no routing rule
                    \* matches, and --concurrency
    WriteEveryN,    \* manifestWriteEveryN
    MaxUpsets       \* stops, crashes and failures in one behaviour

ASSUME MboxAssumption ==
    /\ WriteEveryN \in Nat \ {0} /\ MaxUpsets \in Nat
    /\ \A i \in Imports : /\ i.mode \in {"watch", "oneshot"} /\ i.workers \in Nat \ {0}
                           /\ i.ids \in Seq(Nat) /\ i.ids # <<>>

VARIABLES
    import,         \* the import followed
    locked,         \* the advisory lock file is in the archive's directory
    retired,        \* the archive was moved to .done
    disk,           \* the manifest file
    phase,          \* where the producer is; "down": no run under way
    pos, consumed,  \* the scanner's position and the producer's high-water mark
    unflushed,      \* messages seen since the last flush
    sending,        \* the message the producer is about to hand over
    jobs, busy, results,
    inflight,       \* messages without a result
    dedup,          \* DedupSet
    mf,             \* the manifest in memory
    stopping,       \* the context is cancelled
    outcome,        \* what the producer and the scanner ended with
    copies,         \* how often each reading of a message was staged, up to two
    skipped, failed,  \* history: messages dropped as duplicates; those with an error entry
    beheaded,       \* history: messages read without their headers
    startedOver,    \* history: a run began from zero, or a manifest write was lost, after something was staged
    stoppedLate,    \* history: stopped between the end of the scan and the end of the work
    killed,         \* history: the process was killed in a run
    upsets

poolVars == <<jobs, busy, results>>
runVars == <<pos, consumed, unflushed, sending, inflight, dedup, outcome>>
histVars == <<skipped, failed, beheaded, startedOver, stoppedLate, killed>>
mboxVars == <<import, locked, retired, disk, phase, runVars, poolVars, mf, stopping, copies, histVars, upsets>>

mode == import.mode
ids == import.ids
workers == import.workers
Messages == Len(ids)
NoManifest == [status |-> "none", off |-> 0, ids |-> {}, errs |-> {}]
FreshManifest == [status |-> "in_progress", off |-> 0, ids |-> {}, errs |-> {}]
Readings == (1..Messages) \X {"whole", "tail", "headerless"}
\* A message as the scanner gives it: at is its ByteOffset.
Msg(m, kind, at) == [m |-> m, kind |-> kind, at |-> at]
MessageID(t) == IF t.kind = "whole" THEN ids[t.m] ELSE 0
Upset == upsets < MaxUpsets /\ upsets' = upsets + 1

-----------------------------------------------------------------------------
(* The driver. *)

Decide(manifest, override) ==
    LET checkpointExists == manifest.off > 0
        resumed == IF checkpointExists THEN "Resume" ELSE "StartFresh"
    IN  IF override = "false" THEN "StartFresh"
        ELSE IF manifest.status = "complete" THEN "ExitComplete"
        ELSE IF override = "true" \/ manifest.status = "interrupted" THEN resumed
        ELSE IF manifest.status = "failed" THEN "RequireExplicitResume"
        ELSE "StartFresh"

\* newOrLoadManifest and the set-up of Import.
Begin(manifest) ==
    /\ phase' = "scan" /\ stopping' = FALSE
    /\ mf' = [manifest EXCEPT !.status = "in_progress"]
    /\ pos' = manifest.off /\ consumed' = manifest.off /\ unflushed' = 0
    /\ sending' = <<>> /\ inflight' = {} /\ outcome' = "ok"
    /\ dedup' = manifest.ids \ {0}
    /\ UNCHANGED <<poolVars, retired>>

AnyStaged == \E r \in Readings : copies[r] > 0

\* RunOneShot up to Import; ClearState removes the old manifest.
RunOneShot(override) ==
    \/ /\ Decide(disk, override) = "Resume"
       /\ Begin(disk) /\ UNCHANGED <<disk, startedOver>>
    \/ /\ Decide(disk, override) = "StartFresh"
       /\ disk' = NoManifest
       /\ startedOver' = (startedOver \/ AnyStaged)
       /\ Begin(FreshManifest)
    \/ /\ Decide(disk, override) = "ExitComplete" /\ mode = "watch"
       /\ phase' = "retire" /\ stopping' = FALSE
       /\ UNCHANGED <<retired, disk, mf, runVars, poolVars, startedOver>>
    \/ /\ Decide(disk, override) = "RequireExplicitResume" /\ mode = "watch"
       /\ phase' = "release" /\ stopping' = FALSE
       /\ UNCHANGED <<retired, disk, mf, runVars, poolVars, startedOver>>

\* The operator's one-shot run, or handle: an archive whose lock is held is
\* skipped, the flag --resume does not reach the watcher.
Start(override) ==
    /\ phase = "down" /\ ~retired
    /\ mode = "watch" => ~locked /\ override = "none"
    /\ locked' = (mode = "watch")
    /\ RunOneShot(override)
    /\ UNCHANGED <<import, copies, skipped, failed, beheaded, stoppedLate, killed, upsets>>

-----------------------------------------------------------------------------
(* The producer. *)

\* What Scan yields at pos, and the position behind it.
Scanned ==
    LET m == pos \div 3 + 1 IN
    CASE pos % 3 = 0 -> [t |-> Msg(m, "whole", pos), next |-> pos + 3]
      [] pos % 3 = 1 -> [t |-> Msg(m, "tail", pos), next |-> pos + 2]
      [] pos % 3 = 2 /\ m < Messages -> [t |-> Msg(m + 1, "headerless", pos), next |-> pos + 4]
      [] OTHER -> [t |-> Msg(m, "tail", pos), next |-> pos + 1]

\* ByteOffset + Size: in the tail of a whole message, at the last newline of
\* one that was read without its From_ line.
EndOf(t) ==
    CASE t.kind = "whole" -> 3 * (t.m - 1) + 1
      [] OTHER -> 3 * (t.m - 1) + 2

Excluded(t) == IF t.kind = "whole" THEN t.m \in import.excluded ELSE import.headerless
Seen(t) == MessageID(t) # 0 /\ MessageID(t) \in dedup

Scan ==
    /\ phase = "scan" /\ ~stopping /\ pos < 3 * Messages
    /\ LET t == Scanned.t IN
       /\ pos' = Scanned.next /\ consumed' = EndOf(t) /\ unflushed' = unflushed + 1
       /\ beheaded' = IF t.kind = "headerless" THEN beheaded \cup {t.m} ELSE beheaded
       /\ IF Excluded(t) THEN UNCHANGED <<phase, sending, inflight, skipped>>
          ELSE IF Seen(t) THEN skipped' = skipped \cup {t.m} /\ UNCHANGED <<phase, sending, inflight>>
          ELSE /\ inflight' = inflight \cup {t} /\ sending' = <<t>> /\ phase' = "send"
               /\ UNCHANGED skipped
    /\ UNCHANGED <<import, locked, retired, disk, poolVars, dedup, outcome, mf, stopping,
                   copies, failed, startedOver, stoppedLate, killed, upsets>>

\* The select on the jobs channel: room for the message, or the cancellation.
Send ==
    /\ phase = "send"
    /\ \/ /\ Len(jobs) < 2 * workers
          /\ jobs' = jobs \o sending
          /\ phase' = IF unflushed >= WriteEveryN THEN "flush" ELSE "scan"
          /\ outcome' = outcome
       \/ /\ stopping /\ phase' = "drain" /\ outcome' = "cancelled" /\ jobs' = jobs
    /\ sending' = <<>>
    /\ UNCHANGED <<import, locked, retired, disk, pos, consumed, unflushed, busy, results,
                   inflight, dedup, mf, stopping, copies, histVars, upsets>>

\* Mutant: the scanner's position, whatever is in flight.
resumeOffsetLocked_highWater == consumed

resumeOffsetLocked == Min({consumed} \cup {t.at : t \in inflight})

\* flushProgress: the offset is taken under the lock, the file is written
\* from the manifest as it is when the write gets to it; a failed write is
\* only logged.
FlushMark ==
    /\ phase = "flush" /\ phase' = "write"
    /\ mf' = [mf EXCEPT !.off = resumeOffsetLocked]
    /\ unflushed' = 0
    /\ UNCHANGED <<import, locked, retired, disk, pos, consumed, sending, inflight, dedup, outcome,
                   poolVars, stopping, copies, histVars, upsets>>
FlushWrite ==
    /\ phase = "write" /\ phase' = "scan"
    /\ \/ disk' = mf /\ UNCHANGED <<startedOver, upsets>>
       \/ Upset /\ startedOver' = TRUE /\ disk' = disk
    /\ UNCHANGED <<import, locked, retired, runVars, poolVars, mf, stopping, copies,
                   skipped, failed, beheaded, stoppedLate, killed>>

\* The producer's loop is left: at the end of the archive, by a cancelled
\* context, or because the scanner fails.
EndScan ==
    /\ phase = "scan" /\ phase' = "drain"
    /\ \/ stopping /\ outcome' = "cancelled" /\ upsets' = upsets
       \/ ~stopping /\ pos >= 3 * Messages /\ outcome' = "ok" /\ upsets' = upsets
       \/ ~stopping /\ pos < 3 * Messages /\ Upset /\ outcome' = "scanError"
    /\ UNCHANGED <<import, locked, retired, disk, pos, consumed, unflushed, sending, inflight, dedup,
                   poolVars, mf, stopping, copies, histVars>>

-----------------------------------------------------------------------------
(* The workers and the collector. *)

\* Mutant: a worker leaves at the cancellation, the queued jobs unreported.
workerLoop_exits ==
    /\ ~stopping /\ jobs # <<>> /\ Cardinality(busy) < workers
    /\ jobs' = Tail(jobs)
    /\ IF stopping THEN results' = results \cup {<<Head(jobs), "cancelled">>} /\ busy' = busy
                   ELSE busy' = busy \cup {Head(jobs)} /\ results' = results
    /\ UNCHANGED <<import, locked, retired, disk, phase, runVars, mf, stopping, copies, histVars, upsets>>

\* workerLoop takes a job; under a cancelled context it is only reported.
workerLoop ==
    /\ jobs # <<>> /\ Cardinality(busy) < workers
    /\ jobs' = Tail(jobs)
    /\ IF stopping THEN results' = results \cup {<<Head(jobs), "cancelled">>} /\ busy' = busy
                   ELSE busy' = busy \cup {Head(jobs)} /\ results' = results
    /\ UNCHANGED <<import, locked, retired, disk, phase, runVars, mf, stopping, copies, histVars, upsets>>

\* BuildItemOptions finds a destination for the message.
BuildItemOptions(t) == t.kind = "whole" => t.m \notin import.unrouted

\* The Ingest closure ends, cancelled context or not.
Ingest(t) ==
    /\ t \in busy /\ busy' = busy \ {t}
    /\ \/ /\ BuildItemOptions(t)
          /\ copies' = [copies EXCEPT ![<<t.m, t.kind>>] = IF @ = 2 THEN 2 ELSE @ + 1]
          /\ results' = results \cup {<<t, "ok">>} /\ upsets' = upsets
       \/ /\ IF BuildItemOptions(t) THEN Upset ELSE upsets' = upsets
          /\ copies' = copies
          /\ results' = results \cup {<<t, IF stopping THEN "cancelled" ELSE "failed">>}
    /\ UNCHANGED <<import, locked, retired, disk, phase, runVars, jobs, mf, stopping, histVars>>

\* The collector: a cancelled message stays in flight.
Collect(r) ==
    LET t == r[1] IN
    /\ r \in results /\ results' = results \ {r}
    /\ \/ /\ r[2] = "ok"
          /\ dedup' = dedup \cup ({MessageID(t)} \ {0})
          /\ mf' = [mf EXCEPT !.ids = @ \cup ({MessageID(t)} \ {0})]
          /\ inflight' = inflight \ {t} /\ failed' = failed
       \/ /\ r[2] = "failed"
          /\ mf' = [mf EXCEPT !.errs = @ \cup {t.m}]
          /\ inflight' = inflight \ {t} /\ failed' = failed \cup {t.m} /\ dedup' = dedup
       \/ r[2] = "cancelled" /\ UNCHANGED <<dedup, mf, inflight, failed>>
    /\ UNCHANGED <<import, locked, retired, disk, phase, pos, consumed, unflushed, sending, outcome,
                   jobs, busy, stopping, copies, skipped, beheaded, startedOver, stoppedLate, killed, upsets>>

\* The collector is through: the manifest gets its last offset and status and
\* is written by the deferred call, which may fail.
Finish ==
    /\ phase = "drain" /\ jobs = <<>> /\ busy = {} /\ results = {}
    /\ \E final \in {[mf EXCEPT !.off = resumeOffsetLocked,
                                !.status = CASE outcome = "cancelled" -> "interrupted"
                                             [] outcome = "scanError" -> "failed"
                                             [] OTHER -> "complete"]} :
       \/ disk' = final /\ UNCHANGED <<startedOver, upsets>>
       \/ Upset /\ startedOver' = TRUE /\ disk' = disk
    /\ phase' = IF outcome = "ok" THEN "retire" ELSE "release"
    /\ mf' = FreshManifest /\ inflight' = {} /\ dedup' = {} /\ pos' = 0 /\ consumed' = 0
    /\ unflushed' = 0 /\ outcome' = "ok"
    /\ UNCHANGED <<import, locked, retired, sending, poolVars, stopping, copies,
                   skipped, failed, beheaded, stoppedLate, killed>>

\* The end of handle: the lock is released, or the archive moved away with it;
\* a move that fails releases the lock.  A one-shot run just ends.
releaseLock ==
    /\ phase = "release" /\ phase' = "down" /\ locked' = FALSE /\ stopping' = FALSE
    /\ UNCHANGED <<import, retired, disk, runVars, poolVars, mf, copies, histVars, upsets>>
moveToDone ==
    /\ phase = "retire" /\ phase' = "down" /\ locked' = FALSE /\ stopping' = FALSE
    /\ \/ retired' = (mode = "watch") /\ upsets' = upsets
       \/ mode = "watch" /\ Upset /\ retired' = FALSE
    /\ UNCHANGED <<import, disk, runVars, poolVars, mf, copies, histVars>>

-----------------------------------------------------------------------------
(* The process. *)

\* SIGTERM or SIGINT.
Stop ==
    /\ phase # "down" /\ ~stopping /\ Upset /\ stopping' = TRUE
    /\ stoppedLate' = (stoppedLate \/ (phase = "drain" /\ outcome = "ok" /\ inflight # {}))
    /\ UNCHANGED <<import, locked, retired, disk, phase, runVars, poolVars, mf, copies,
                   skipped, failed, beheaded, startedOver, killed>>

\* The process is killed: the lock file and the manifest stay as they are.
Kill ==
    /\ phase # "down" /\ Upset /\ phase' = "down" /\ stopping' = FALSE
    /\ startedOver' = TRUE /\ killed' = TRUE
    /\ jobs' = <<>> /\ busy' = {} /\ results' = {} /\ sending' = <<>> /\ inflight' = {}
    /\ mf' = FreshManifest /\ dedup' = {} /\ pos' = 0 /\ consumed' = 0 /\ unflushed' = 0 /\ outcome' = "ok"
    /\ UNCHANGED <<import, locked, retired, disk, copies, skipped, failed, beheaded, stoppedLate>>

MboxInit ==
    /\ import \in Imports
    /\ locked = FALSE /\ retired = FALSE /\ disk = NoManifest
    /\ phase = "down" /\ pos = 0 /\ consumed = 0 /\ unflushed = 0 /\ sending = <<>> /\ outcome = "ok"
    /\ jobs = <<>> /\ busy = {} /\ results = {} /\ inflight = {} /\ dedup = {} /\ mf = FreshManifest
    /\ stopping = FALSE /\ copies = [r \in Readings |-> 0]
    /\ skipped = {} /\ failed = {} /\ beheaded = {}
    /\ startedOver = FALSE /\ stoppedLate = FALSE /\ killed = FALSE /\ upsets = 0

Ingested == \E t \in busy : Ingest(t)
Collected == \E r \in results : Collect(r)
Producer == Scan \/ Send \/ FlushMark \/ FlushWrite \/ EndScan

MboxNext ==
    \/ \E o \in {"none", "true", "false"} : Start(o)
    \/ Producer \/ workerLoop \/ Ingested \/ Collected \/ Finish \/ releaseLock \/ moveToDone
    \/ Stop \/ Kill

MboxFairness ==
    /\ WF_mboxVars(Start("none")) /\ WF_mboxVars(Producer) /\ WF_mboxVars(workerLoop)
    /\ WF_mboxVars(Ingested) /\ WF_mboxVars(Collected)
    /\ WF_mboxVars(Finish \/ releaseLock \/ moveToDone)
MboxSpec == MboxInit /\ [][MboxNext]_mboxVars /\ MboxFairness

-----------------------------------------------------------------------------
(* Properties. *)

MboxTypeOK ==
    /\ disk.status \in {"none", "in_progress", "interrupted", "failed", "complete"}
    /\ disk.off \in 0..3 * Messages /\ mf.off \in 0..3 * Messages
    /\ phase \in {"down", "scan", "send", "flush", "write", "drain", "release", "retire"}
    /\ Len(jobs) <= 2 * workers /\ Cardinality(busy) <= workers
    /\ Range(jobs) \cup busy \cup {r[1] : r \in results} \subseteq inflight
    /\ \A t, u \in inflight : t.at = u.at => t = u
    /\ copies \in [Readings -> 0..2] /\ upsets \in 0..MaxUpsets

\* What has become of a message: staged, excluded by the filter, recorded as
\* an error, dropped as a duplicate, or read without its headers.
Accounted(m) ==
    \/ copies[<<m, "whole">>] > 0 \/ m \in import.excluded \/ m \in failed \/ m \in skipped
    \/ m \in beheaded

\* A resume loses nothing: every message that starts before the offset in the
\* manifest file is accounted for, however the run that wrote it ended
\* (resumeOffsetLocked, the low-water mark).
ResumePointSafe == \A m \in 1..Messages : 3 * (m - 1) < disk.off => Accounted(m)

\* An archive whose manifest says complete, or that was moved to .done, was
\* imported whole, unless the process was told to stop after the scan had
\* ended and before the workers had.
CompleteUnlessStoppedLate ==
    (disk.status = "complete" \/ retired) /\ ~stoppedLate => \A m \in 1..Messages : Accounted(m)

\* On a clean end of the archive no message is left in flight (the comment in
\* Import before the last offset is taken).
CompleteMeansAll == disk.status = "complete" => \A m \in 1..Messages : Accounted(m)

\* A message dropped as a duplicate has a twin that was staged (the collector
\* adds an id to the DedupSet only after its message was accepted).
SkippedHasTwin ==
    \A m \in skipped : \E k \in 1..Messages : ids[k] = ids[m] /\ copies[<<k, "whole">>] > 0

\* A message with an id is staged twice only when a run began from zero or the
\* last manifest write was lost (NewDedupSet(decision.PreservedMessageIDs)).
StagedAgainOnlyWhenOver ==
    \A m \in 1..Messages : ids[m] # 0 /\ copies[<<m, "whole">>] = 2 => startedOver

\* The archive is finished, the scanner failed on it, or a killed watcher left
\* its lock behind.
ArchiveDone == retired \/ disk.status \in {"complete", "failed"} \/ killed

\* An interrupted import loses nothing and doubles little: what the manifest's
\* offset passes is accounted for, a complete archive is complete, a duplicate
\* has a twin that was staged, and a message with an id is staged again only
\* when the manifest was lost (Import, resumeOffsetLocked, DedupSet).
MboxSafe ==
    /\ MboxTypeOK /\ ResumePointSafe /\ CompleteUnlessStoppedLate
    /\ SkippedHasTwin /\ StagedAgainOnlyWhenOver
=============================================================================
