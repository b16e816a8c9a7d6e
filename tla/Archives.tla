------------------------------ MODULE Archives ------------------------------
(***************************************************************************)
(* Archive delivery: resumable uploads of large archives.  A client POSTs  *)
(* an upload, PATCHes its bytes block by block, may DELETE it, and the     *)
(* PATCH that completes it finalizes: the upload is verified, laid out     *)
(* under .tmp-archives/<id>.finalize and published as archives/<id> by one *)
(* rename.  Requests run in goroutines of the server, here handlers.  The  *)
(* upload table is in memory and is lost with the process; the files stay. *)
(* A goroutine removes what is older than 72 h (uploads) or 1 h            *)
(* (finalize directories), whoever may still use it.                       *)
(*                                                                         *)
(* Content is a sequence of blocks and a tar archive has one entry per     *)
(* block.  A sha256 is the sequence it was computed from.  Requests that   *)
(* are refused before they change anything (bad headers, wrong source,     *)
(* hard cap, HEAD, GET and OPTIONS) are steps that leave all unchanged.    *)
(***************************************************************************)
EXTENDS Integers, Sequences, FiniteSets

CONSTANTS Handlers,      \* goroutines of the server
          Ids,           \* upload ids, each random and used once
          NoId,          \* none of them
          Sources,       \* authenticated clients
          ArchiveIds,    \* archive_id of Upload-Metadata
          Blocks,        \* what a PATCH appends
          Unsafe,        \* blocks Untar refuses as an entry
          Offers,        \* uploads clients create
          Scanners,      \* sources registered as recognizer-scanner
          PerSourceMax,  \* PerSourceMaxConcurrent
          GlobalMax,     \* GlobalMaxConcurrent
          SlowUntar,     \* may Untar take longer than FinalizeAge?
          MaxFaults      \* bound: failures and crashes in one behaviour

\* What a POST fixes for an upload: the authenticated source and what
\* Upload-Metadata claims.
Info == [src : Sources, aid : ArchiveIds, claim : Seq(Blocks),
         media : {"raw", "tar", "scan"}]

ASSUME ArchivesAssumption ==
  /\ NoId \notin Ids
  /\ Unsafe \subseteq Blocks
  /\ Offers \subseteq Info
  /\ Scanners \subseteq Sources
  /\ PerSourceMax \in Nat /\ GlobalMax \in Nat
  /\ SlowUntar \in BOOLEAN /\ MaxFaults \in Nat

VARIABLES pc,         \* pc[h]: the step of handler h
          at,         \* at[h]: the upload it works on
          wrote,      \* wrote[h]: has it written to the upload's file?
          rest,       \* rest[h]: the tar entries it has yet to extract
          info,       \* info[u]: what was fixed when upload u was created
          offset,     \* offset[u]: UploadState.Offset
          hashed,     \* hashed[u]: what UploadState.Hasher was fed
          uploads,    \* Store.uploads
          perSrc,     \* Store.perSrc
          tmps,       \* ids with a file in .tmp-archives
          file,       \* file[u]: its content
          fins,       \* ids with a .finalize directory
          tree,       \* tree[u]: the content under its raw/ or tree/
          archive,    \* archive[a]: what archives/<a> holds
          done,       \* uploads whose archive an importer has taken
          old,        \* uploads whose file is older than TmpAge
          oldFin,     \* uploads whose .finalize is older than FinalizeAge
          reaping,    \* what the cleanup goroutine is about to remove
          told,       \* uploads whose completion was answered with 204
          orphaned,   \* uploads the process died under
          faults      \* failures so far

handler == <<pc, at, wrote, rest>>
upload  == <<info, offset, hashed>>
store   == <<uploads, perSrc>>
disk    == <<tmps, file, fins, tree>>
ages    == <<old, oldFin, reaping>>
history == <<told, orphaned>>
vars    == <<handler, upload, store, disk, archive, done, ages, history, faults>>

Unused  == [src |-> NoId]     \* an id that was not given out
Absent  == [from |-> NoId]    \* no archives/<a>
Nothing == [what |-> "nothing"]

\* Handlers at these steps hold UploadState.Mu.
Finalizing == {"check", "move", "open", "untar", "extract", "meta", "stat",
               "rename", "ok", "failed"}
Locking    == Finalizing \cup {"copy"}
Steps      == Locking \cup {"idle", "post", "create", "lock", "delete"}

Held(u) == \E h \in Handlers : pc[h] \in Locking /\ at[h] = u

Archive == [from : Ids, src : Sources, claim : Seq(Blocks),
            data : Seq(Blocks)]

HandlerType ==
  /\ pc \in [Handlers -> Steps] /\ at \in [Handlers -> Ids \cup {NoId}]
  /\ wrote \in [Handlers -> BOOLEAN] /\ rest \in [Handlers -> Seq(Blocks)]

UploadType ==
  /\ info \in [Ids -> Info \cup {Unused}]
  /\ offset \in [Ids -> Nat] /\ hashed \in [Ids -> Seq(Blocks)]
  /\ uploads \subseteq Ids
  /\ perSrc \in [Sources -> Nat]

DiskType ==
  /\ tmps \subseteq Ids /\ file \in [Ids -> Seq(Blocks)]
  /\ fins \subseteq Ids /\ tree \in [Ids -> Seq(Blocks)]
  /\ archive \in [ArchiveIds -> Archive \cup {Absent}]
  /\ done \subseteq Ids
  /\ old \subseteq tmps /\ oldFin \subseteq fins
  /\ reaping \in [what : {"tmp", "fin"}, id : Ids] \cup {Nothing}

TypeOK ==
  /\ HandlerType /\ UploadType /\ DiskType
  /\ told \subseteq Ids /\ orphaned \subseteq Ids /\ faults \in 0..MaxFaults

Init ==
  /\ pc = [h \in Handlers |-> "idle"] /\ at = [h \in Handlers |-> NoId]
  /\ wrote = [h \in Handlers |-> FALSE] /\ rest = [h \in Handlers |-> <<>>]
  /\ info = [u \in Ids |-> Unused]
  /\ offset = [u \in Ids |-> 0] /\ hashed = [u \in Ids |-> <<>>]
  /\ uploads = {} /\ perSrc = [s \in Sources |-> 0]
  /\ tmps = {} /\ file = [u \in Ids |-> <<>>]
  /\ fins = {} /\ tree = [u \in Ids |-> <<>>]
  /\ archive = [a \in ArchiveIds |-> Absent] /\ done = {}
  /\ old = {} /\ oldFin = {} /\ reaping = Nothing
  /\ told = {} /\ orphaned = {} /\ faults = 0

Fault == faults < MaxFaults /\ faults' = faults + 1

-----------------------------------------------------------------------------
(* The steps of a handler, the store and the files.                         *)

Goto(h, step) ==
  /\ pc' = [pc EXCEPT ![h] = step]
  /\ UNCHANGED <<at, wrote, rest>>

\* The request is answered; a lock it held is released.
Answer(h) ==
  /\ pc' = [pc EXCEPT ![h] = "idle"] /\ at' = [at EXCEPT ![h] = NoId]
  /\ wrote' = [wrote EXCEPT ![h] = FALSE] /\ rest' = [rest EXCEPT ![h] = <<>>]

\* Mutant: the counter is forgotten.
RemoveUncounted(u) == uploads' = uploads \ {u} /\ UNCHANGED perSrc

\* Store.Remove, which may find the upload gone.
Remove(u) ==
  /\ uploads' = uploads \ {u}
  /\ perSrc' = IF u \in uploads THEN [perSrc EXCEPT ![info[u].src] = @ - 1]
                                ELSE perSrc

RemoveTmp(u) ==
  /\ tmps' = tmps \ {u} /\ old' = old \ {u}
  /\ file' = [file EXCEPT ![u] = <<>>]

RemoveFin(u) ==
  /\ fins' = fins \ {u} /\ oldFin' = oldFin \ {u}
  /\ tree' = [tree EXCEPT ![u] = <<>>]

\* cleanupTmp.
CleanupTmp(u) == RemoveTmp(u) /\ RemoveFin(u) /\ UNCHANGED reaping

\* Mutant: the finalize directory is left behind.
AbortKeep(h) ==
  /\ RemoveTmp(at[h]) /\ Goto(h, "failed")
  /\ UNCHANGED <<fins, tree, oldFin, reaping>>

\* A step of Finalize fails: both paths are removed.
Abort(h) == CleanupTmp(at[h]) /\ Goto(h, "failed")

-----------------------------------------------------------------------------
(* POST: create.                                                            *)

\* preflightIdempotency finds no archive.  The upload gets its id here.
Preflight(h, u, i) ==
  /\ pc[h] = "idle" /\ info[u] = Unused
  /\ archive[i.aid] = Absent
  /\ info' = [info EXCEPT ![u] = i]
  /\ pc' = [pc EXCEPT ![h] = "post"] /\ at' = [at EXCEPT ![h] = u]
  /\ UNCHANGED <<wrote, rest, offset, hashed, store, disk, archive, done, ages,
                 history, faults>>

\* Store.Create: the caps, checked in the step that takes the slot.
Create(h) ==
  /\ pc[h] = "post"
  /\ Cardinality(uploads) < GlobalMax /\ perSrc[info[at[h]].src] < PerSourceMax
  /\ uploads' = uploads \cup {at[h]}
  /\ perSrc' = [perSrc EXCEPT ![info[at[h]].src] = @ + 1]
  /\ Goto(h, "create")
  /\ UNCHANGED <<upload, disk, archive, done, ages, history, faults>>

\* A cap is reached: 429, and the id is as if it had not been given out.
CreateRefuses(h) ==
  /\ pc[h] = "post"
  /\ Cardinality(uploads) >= GlobalMax \/ perSrc[info[at[h]].src] >= PerSourceMax
  /\ info' = [info EXCEPT ![at[h]] = Unused]
  /\ Answer(h)
  /\ UNCHANGED <<offset, hashed, store, disk, archive, done, ages, history, faults>>

\* The file is created and the upload is answered with 201.
CreateTmp(h) ==
  /\ pc[h] = "create"
  /\ tmps' = tmps \cup {at[h]}
  /\ Answer(h)
  /\ UNCHANGED <<upload, store, file, fins, tree, archive, done, ages, history,
                 faults>>

\* It cannot be created: 500, and the slot is given back.
CreateTmpFails(h) ==
  /\ pc[h] = "create" /\ Fault
  /\ Remove(at[h]) /\ Answer(h)
  /\ UNCHANGED <<upload, disk, archive, done, ages, history>>

-----------------------------------------------------------------------------
(* PATCH: append.                                                           *)

\* Store.Get of an upload whose id the client knows.
Get(h, u, step) ==
  /\ pc[h] = "idle" /\ u \in uploads
  /\ \A g \in Handlers : pc[g] = "create" => at[g] # u
  /\ pc' = [pc EXCEPT ![h] = step] /\ at' = [at EXCEPT ![h] = u]
  /\ UNCHANGED <<wrote, rest, upload, store, disk, archive, done, ages, history,
                 faults>>

\* TryLock, the offset the client sent, the open for append.
PatchLock(h, sent) ==
  /\ pc[h] = "lock"
  /\ IF ~Held(at[h]) /\ sent = offset[at[h]] /\ at[h] \in tmps
     THEN Goto(h, "copy") ELSE Answer(h)
  /\ UNCHANGED <<upload, store, disk, archive, done, ages, history, faults>>

\* A write to the open file.  If the cleanup has unlinked it, nobody will
\* ever see what is written.
Write(u, b) ==
  /\ file' = IF u \in tmps THEN [file EXCEPT ![u] = Append(@, b)] ELSE file
  /\ old' = old \ {u}
  /\ UNCHANGED <<tmps, fins, tree, oldFin, reaping>>

\* One block of the body goes to the file and into the hash.
PatchCopy(h, b) ==
  /\ pc[h] = "copy" /\ Len(hashed[at[h]]) < Len(info[at[h]].claim)
  /\ Write(at[h], b)
  /\ hashed' = [hashed EXCEPT ![at[h]] = Append(@, b)]
  /\ wrote' = [wrote EXCEPT ![h] = TRUE]
  /\ UNCHANGED <<pc, at, rest, info, offset, store, archive, done, history, faults>>

\* Mutant: the offset stays where it was when the PATCH began.
SetOffsetNever(u) == UNCHANGED <<info, offset, hashed>>

\* The counter has counted what the hash was fed.
SetOffset(u) ==
  /\ offset' = [offset EXCEPT ![u] = Len(hashed[u])]
  /\ UNCHANGED <<info, hashed>>

\* The write fails when part of a block is on disk: the hash misses it.
PatchShort(h, b) ==
  /\ pc[h] = "copy" /\ Len(hashed[at[h]]) < Len(info[at[h]].claim) /\ Fault
  /\ Write(at[h], b)
  /\ SetOffset(at[h]) /\ Answer(h)
  /\ UNCHANGED <<store, archive, done, history>>

\* The body stalls or the client goes away: 408 or 400, to be resumed.
PatchCut(h) ==
  /\ pc[h] = "copy" /\ Fault
  /\ SetOffset(at[h]) /\ Answer(h)
  /\ UNCHANGED <<store, disk, archive, done, ages, history>>

\* The body ends: 204, or finalize when the upload is complete.
PatchEnd(h) ==
  /\ pc[h] = "copy"
  /\ SetOffset(at[h])
  /\ IF Len(hashed[at[h]]) >= Len(info[at[h]].claim)
     THEN Goto(h, "check") ELSE Answer(h)
  /\ UNCHANGED <<store, disk, archive, done, ages, history, faults>>

-----------------------------------------------------------------------------
(* Finalize, with the lock of the upload held.                              *)

\* Mutant: no size check.
VerifiedHash(u) ==
  /\ info[u].media = "scan" => info[u].src \in Scanners
  /\ hashed[u] = info[u].claim /\ u \in tmps

\* The scanner lane is closed to other sources; sha256 and size must agree.
Verified(u) ==
  /\ info[u].media = "scan" => info[u].src \in Scanners
  /\ hashed[u] = info[u].claim
  /\ u \in tmps /\ Len(file[u]) = Len(info[u].claim)

\* The .finalize directory is made.
Check(h) ==
  /\ pc[h] = "check"
  /\ \/ /\ Verified(at[h])
        /\ fins' = fins \cup {at[h]}
        /\ Goto(h, IF info[at[h]].media = "raw" THEN "move" ELSE "open")
        /\ UNCHANGED <<tmps, file, tree, ages>>
     \/ ~Verified(at[h]) /\ Abort(h)
  /\ UNCHANGED <<upload, store, archive, done, history, faults>>

\* A raw file is renamed into raw/.
MoveRaw(h) ==
  /\ pc[h] = "move"
  /\ IF at[h] \in tmps
     THEN /\ tree' = [tree EXCEPT ![at[h]] = file[at[h]]]
          /\ RemoveTmp(at[h]) /\ Goto(h, "meta")
          /\ UNCHANGED <<fins, oldFin, reaping>>
     ELSE Abort(h)
  /\ UNCHANGED <<upload, store, archive, done, history, faults>>

\* A tar is opened; it can be read to its end even if it is unlinked.
OpenTar(h) ==
  /\ pc[h] = "open"
  /\ IF at[h] \in tmps
     THEN /\ rest' = [rest EXCEPT ![h] = file[at[h]]]
          /\ pc' = [pc EXCEPT ![h] = "untar"]
          /\ UNCHANGED <<at, wrote, disk, ages>>
     ELSE Abort(h)
  /\ UNCHANGED <<upload, store, archive, done, history, faults>>

\* Untar writes the next entry; MkdirAll makes the directories it lacks.
\* Only the creation of .finalize or of its tree/ changes its age.
UntarEntry(h) ==
  /\ pc[h] = "untar" /\ rest[h] # <<>> /\ Head(rest[h]) \notin Unsafe
  /\ tree' = [tree EXCEPT ![at[h]] = Append(@, Head(rest[h]))]
  /\ fins' = fins \cup {at[h]}
  /\ rest' = [rest EXCEPT ![h] = Tail(@)]
  /\ UNCHANGED <<pc, at, wrote, upload, store, tmps, file, archive, done, ages,
                 history, faults>>

\* An entry breaks one of the tar rules.
UntarRefuses(h) ==
  /\ pc[h] = "untar" /\ rest[h] # <<>> /\ Head(rest[h]) \in Unsafe
  /\ Abort(h)
  /\ UNCHANGED <<upload, store, archive, done, history, faults>>

\* The tar is removed; a registered scanner's text is extracted next.
UntarEnd(h) ==
  /\ pc[h] = "untar" /\ rest[h] = <<>>
  /\ RemoveTmp(at[h])
  /\ Goto(h, IF info[at[h]].src \in Scanners THEN "extract" ELSE "meta")
  /\ UNCHANGED <<upload, store, fins, tree, archive, done, oldFin, reaping,
                 history, faults>>

\* writeExtractedMarkdown: the text may be missing or refused.
Extract(h) ==
  /\ pc[h] = "extract"
  /\ \/ /\ at[h] \in fins /\ oldFin' = oldFin \ {at[h]}
        /\ Goto(h, "meta")
        /\ UNCHANGED <<disk, old, reaping>>
     \/ Abort(h)
  /\ UNCHANGED <<upload, store, archive, done, history, faults>>

\* metadata.json is written into .finalize, if it is there.
WriteMeta(h) ==
  /\ pc[h] = "meta"
  /\ \/ /\ at[h] \in fins /\ oldFin' = oldFin \ {at[h]}
        /\ Goto(h, "stat")
        /\ UNCHANGED <<disk, old, reaping>>
     \/ at[h] \notin fins /\ Abort(h)
  /\ UNCHANGED <<upload, store, archive, done, history, faults>>

\* Only the .finalize directory is left to remove.
Discard(h) ==
  /\ RemoveFin(at[h]) /\ Goto(h, "failed")
  /\ UNCHANGED <<tmps, file, old, reaping>>

\* Mutant: an archive that is there counts as this upload's.
StatFinalLenient(h) ==
  /\ pc[h] = "stat"
  /\ IF archive[info[at[h]].aid] = Absent
     THEN Goto(h, "rename") /\ UNCHANGED <<disk, ages>>
     ELSE RemoveFin(at[h]) /\ Goto(h, "ok") /\ UNCHANGED <<tmps, file, old, reaping>>
  /\ UNCHANGED <<upload, store, archive, done, history, faults>>

\* archives/<archive_id> must not exist.
StatFinal(h) ==
  /\ pc[h] = "stat"
  /\ IF archive[info[at[h]].aid] = Absent
     THEN Goto(h, "rename") /\ UNCHANGED <<disk, ages>>
     ELSE Discard(h)
  /\ UNCHANGED <<upload, store, archive, done, history, faults>>

\* Mutant: the target is replaced.
CanRenameOver(h) == at[h] \in fins

\* rename(2) does not replace a directory that is not empty.
CanRename(h) == at[h] \in fins /\ archive[info[at[h]].aid] = Absent

\* The archive is published.
Rename(h) ==
  /\ pc[h] = "rename"
  /\ IF CanRename(h)
     THEN LET u == at[h] IN
          /\ archive' = [archive EXCEPT ![info[u].aid] =
               [from |-> u, src |-> info[u].src, claim |-> info[u].claim,
                data |-> tree[u]]]
          /\ RemoveFin(u) /\ Goto(h, "ok")
          /\ UNCHANGED <<tmps, file, old, reaping>>
     ELSE Discard(h) /\ UNCHANGED archive
  /\ UNCHANGED <<upload, store, done, history, faults>>

\* A file operation of Finalize fails.
FinalizeFails(h) ==
  /\ Fault
  /\ \/ pc[h] \in Finalizing \ {"rename", "ok", "failed"} /\ Abort(h)
     \/ pc[h] = "rename" /\ Discard(h)
  /\ UNCHANGED <<upload, store, archive, done, history>>

\* finalizeAndRespond: the upload is over, either way.
Respond(h) ==
  /\ pc[h] \in {"ok", "failed"}
  /\ Remove(at[h])
  /\ told' = IF pc[h] = "ok" THEN told \cup {at[h]} ELSE told
  /\ Answer(h)
  /\ UNCHANGED <<upload, disk, archive, done, ages, orphaned, faults>>

-----------------------------------------------------------------------------
(* DELETE waits for the lock.                                               *)

Delete(h) ==
  /\ pc[h] = "delete" /\ ~Held(at[h])
  /\ CleanupTmp(at[h]) /\ Remove(at[h])
  /\ Answer(h)
  /\ UNCHANGED <<upload, archive, done, history, faults>>

-----------------------------------------------------------------------------
(* The passage of time and the cleanup goroutine.                           *)

\* TmpAge passes.  A PATCH takes a few minutes, so the file it has written
\* to stays young while it runs.
TmpAges(u) ==
  /\ u \in tmps \ old
  /\ \A h \in Handlers : at[h] = u => ~wrote[h]
  /\ old' = old \cup {u}
  /\ UNCHANGED <<handler, upload, store, disk, archive, done, oldFin, reaping,
                 history, faults>>

\* FinalizeAge passes for a directory nobody works on, or during an Untar:
\* entries deep in tree/ leave the age of .finalize as it is.
FinAges(u) ==
  /\ u \in fins \ oldFin
  /\ \/ u \in orphaned
     \/ SlowUntar /\ \E h \in Handlers : pc[h] = "untar" /\ at[h] = u
  /\ oldFin' = oldFin \cup {u}
  /\ UNCHANGED <<handler, upload, store, disk, archive, done, old, reaping,
                 history, faults>>

\* cleanupTmpArea finds an entry that is too old.
ReapPick(what, u) ==
  /\ reaping = Nothing
  /\ (what = "tmp" /\ u \in old) \/ (what = "fin" /\ u \in oldFin)
  /\ reaping' = [what |-> what, id |-> u]
  /\ UNCHANGED <<handler, upload, store, disk, archive, done, old, oldFin,
                 history, faults>>

\* Mutant: finalize directories are only recognised, never removed.
ReapFilesOnly ==
  /\ reaping # Nothing
  /\ \/ reaping.what = "tmp" /\ RemoveTmp(reaping.id)
     \/ reaping.what = "fin" /\ UNCHANGED <<tmps, file, old>>
  /\ reaping' = Nothing
  /\ UNCHANGED <<handler, upload, store, fins, tree, oldFin, archive, done,
                 history, faults>>

\* It removes the entry, whatever has become of it since.
Reap ==
  /\ reaping # Nothing
  /\ \/ /\ reaping.what = "tmp" /\ RemoveTmp(reaping.id)
        /\ UNCHANGED <<fins, tree, oldFin>>
     \/ /\ reaping.what = "fin" /\ RemoveFin(reaping.id)
        /\ UNCHANGED <<tmps, file, old>>
  /\ reaping' = Nothing
  /\ UNCHANGED <<handler, upload, store, archive, done, history, faults>>

-----------------------------------------------------------------------------
(* The importer and the process.                                            *)

\* An importer moves a processed archive to archives/.done.
Import(a) ==
  /\ archive[a] # Absent
  /\ done' = done \cup {archive[a].from}
  /\ archive' = [archive EXCEPT ![a] = Absent]
  /\ UNCHANGED <<handler, upload, store, disk, ages, history, faults>>

\* The process dies and is started again: the store is empty.
Crash ==
  /\ Fault
  /\ pc' = [h \in Handlers |-> "idle"] /\ at' = [h \in Handlers |-> NoId]
  /\ wrote' = [h \in Handlers |-> FALSE] /\ rest' = [h \in Handlers |-> <<>>]
  /\ uploads' = {} /\ perSrc' = [s \in Sources |-> 0]
  /\ reaping' = Nothing
  /\ orphaned' = orphaned \cup {u \in Ids : info[u] # Unused}
  /\ UNCHANGED <<upload, disk, archive, done, old, oldFin, told>>

-----------------------------------------------------------------------------
HandlerStep(h) ==
  \/ Create(h) \/ CreateRefuses(h) \/ CreateTmp(h) \/ CreateTmpFails(h)
  \/ \E n \in {offset[u] : u \in Ids} : PatchLock(h, n)
  \/ \E b \in Blocks : PatchCopy(h, b) \/ PatchShort(h, b)
  \/ PatchCut(h) \/ PatchEnd(h)
  \/ Check(h) \/ MoveRaw(h) \/ OpenTar(h)
  \/ UntarEntry(h) \/ UntarRefuses(h) \/ UntarEnd(h) \/ Extract(h)
  \/ WriteMeta(h) \/ StatFinal(h) \/ Rename(h) \/ FinalizeFails(h)
  \/ Respond(h)
  \/ Delete(h)

Request(h) ==
  \E u \in Ids :
    \/ \E i \in Offers : Preflight(h, u, i)
    \/ Get(h, u, "lock") \/ Get(h, u, "delete")

Cleanup ==
  \/ \E u \in Ids : TmpAges(u) \/ FinAges(u)
  \/ \E what \in {"tmp", "fin"}, u \in Ids : ReapPick(what, u)
  \/ Reap

Next ==
  \/ \E h \in Handlers : HandlerStep(h) \/ Request(h)
  \/ Cleanup
  \/ \E a \in ArchiveIds : Import(a)
  \/ Crash

\* The server's goroutines run on, the idle timeout ends a body that stalls,
\* time passes and the cleanup ticks.  No client need ever send anything.
Fairness ==
  /\ \A h \in Handlers : WF_vars(HandlerStep(h))
  /\ \A u \in Ids : /\ WF_vars(TmpAges(u)) /\ WF_vars(FinAges(u))
                    /\ WF_vars(ReapPick("tmp", u)) /\ WF_vars(ReapPick("fin", u))
  /\ WF_vars(Reap)

Spec     == Init /\ [][Next]_vars
FairSpec == Spec /\ Fairness

-----------------------------------------------------------------------------
(* What archive delivery promises.                                          *)

\* Whatever archives/<id> holds is all of the content whose sha256 the client
\* claimed, through resumed and short writes, removals by age, crashes and
\* other uploads with the same archive_id.
PublishedIntact ==
  \A a \in ArchiveIds :
    archive[a] # Absent => archive[a].data = archive[a].claim

\* Upload u was published, whole, or an importer has already taken it.
Landed(u) ==
  u \in done \/ archive[info[u].aid] = [from |-> u, src |-> info[u].src,
                                        claim |-> info[u].claim,
                                        data |-> info[u].claim]

\* An upload that was answered with the completing 204 is in archives/, or an
\* importer has taken it from there.
Delivered ==
  \A u \in told : Landed(u)

\* A published archive is replaced by no other upload; it only goes when an
\* importer has processed it.
PublishedStable ==
  [][\A a \in ArchiveIds :
       archive[a] # Absent =>
         archive'[a] = archive[a] \/ archive[a].from \in done']_vars

\* The per-source counters of the store count its uploads, whichever of PATCH
\* and DELETE removes an upload first, so no slot is lost or given out twice.
SlotsMatch ==
  \A s \in Sources :
    perSrc[s] = Cardinality({u \in uploads : info[u].src = s})

\* An upload that is over leaves no file behind, whatever ended it, unless
\* the process died under it.
NoLeftovers ==
  \A u \in tmps \cup fins : u \in uploads \cup orphaned

\* No file of an upload stays forever: it is published, removed by its own
\* request, or reaped, also after a crash in the middle of a finalize.
FilesGo == \A u \in Ids : u \in tmps \cup fins ~> u \notin tmps \cup fins

\* A client that resumes at the offset HEAD reports continues what the hash
\* has seen, and the bytes on disk are those, unless a write fell short and
\* the size gives it away.
Resumable ==
  \A u \in uploads :
    ~Held(u) => /\ offset[u] = Len(hashed[u])
                /\ u \in tmps /\ Len(file[u]) <= offset[u] => file[u] = hashed[u]

-----------------------------------------------------------------------------
(* Why they hold: the inductive invariants of Archives_proofs.              *)

\* An id that has left no trace.
Fresh(u) ==
  /\ offset[u] = 0 /\ hashed[u] = <<>> /\ tree[u] = <<>>
  /\ u \notin uploads \cup tmps \cup fins \cup orphaned \cup told \cup done
  /\ \A a \in ArchiveIds : archive[a] # Absent => archive[a].from # u

\* A handler that serves a request works on an upload that was created since
\* the process was started; before Store.Create nobody else knows its id.
Placed ==
  \A h \in Handlers :
    /\ pc[h] = "idle" => at[h] = NoId
    /\ pc[h] # "idle" =>
         at[h] \in Ids /\ info[at[h]] \in Info /\ at[h] \notin orphaned
    /\ pc[h] = "post" =>
         Fresh(at[h]) /\ \A g \in Handlers \ {h} : at[g] # at[h]

Given ==
  /\ \A u \in Ids : info[u] = Unused => Fresh(u)
  /\ uploads \cap orphaned = {}

TypeInv ==
  TypeOK /\ Placed /\ Given /\ SlotsMatch /\ IsFiniteSet(uploads)

\* UploadState.Mu, and an id nobody has been told yet.
Exclusive ==
  \A g, h \in Handlers :
    g # h /\ pc[g] # "idle" /\ at[g] = at[h] =>
      /\ ~(pc[g] \in Locking /\ pc[h] \in Locking)
      /\ pc[g] # "create"

\* Who holds the lock of an upload, or creates it, has it in the store.  Its
\* file is gone once it was moved or extracted, and its finalize directory
\* once it was renamed or removed.
AtWork(h) ==
  /\ pc[h] \in Locking \cup {"create"} => at[h] \in uploads
  /\ pc[h] \in {"create", "extract", "meta", "stat", "rename", "ok", "failed"}
       => at[h] \notin tmps
  /\ pc[h] \in {"create", "ok", "failed"} => at[h] \notin fins
  /\ pc[h] = "create" => hashed[at[h]] = <<>> /\ offset[at[h]] = 0

\* The file has at least the blocks of the hash, and if it has no more it has
\* the same: this is why the size check of Finalize matters.  The offset lags
\* behind the hash only while a PATCH copies.
Sound(u) ==
  /\ u \in tmps \cup fins => u \in uploads \cup orphaned
  /\ u \in tmps =>
       /\ Len(file[u]) >= Len(hashed[u])
       /\ Len(file[u]) = Len(hashed[u]) => file[u] = hashed[u]
  /\ u \notin tmps => file[u] = <<>>
  /\ u \in uploads /\ ~Held(u) => offset[u] = Len(hashed[u])

StoreInv ==
  Exclusive /\ (\A h \in Handlers : AtWork(h)) /\ (\A u \in Ids : Sound(u))

\* What the cleanup removes from the finalize area belongs to nobody.
Orphans ==
  /\ oldFin \subseteq orphaned
  /\ reaping # Nothing /\ reaping.what = "fin" => reaping.id \in orphaned

Staging == Finalizing \ {"check", "ok", "failed"}

\* Sequence t followed by r is c.
Parts(t, r, c) ==
  /\ Len(t) + Len(r) = Len(c)
  /\ \A i \in 1..Len(t) : t[i] = c[i]
  /\ \A i \in 1..Len(r) : r[i] = c[Len(t) + i]

\* How far the finalize of handler h has come.
Progress(h) ==
  /\ pc[h] \in {"move", "open"} =>
       /\ tree[at[h]] = <<>>
       /\ at[h] \in tmps => file[at[h]] = info[at[h]].claim
  /\ pc[h] = "untar" => Parts(tree[at[h]], rest[h], info[at[h]].claim)
  /\ pc[h] \in {"extract", "meta", "stat", "rename"} =>
       tree[at[h]] = info[at[h]].claim
  /\ pc[h] = "ok" => Landed(at[h])

\* Nobody finalizes upload u.
Unstaged(u) ==
  u \notin orphaned /\ (\A h \in Handlers : at[h] = u => pc[h] \notin Staging)
    => tree[u] = <<>>

DataInv ==
  /\ Orphans /\ PublishedIntact /\ Delivered
  /\ \A h \in Handlers : Progress(h)
  /\ \A u \in Ids : Unstaged(u)
=============================================================================
