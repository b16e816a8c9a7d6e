--------------------------- MODULE Archives_proofs ---------------------------
(***************************************************************************)
(* Proofs about Archives, for any number of request goroutines, uploads,   *)
(* sources, failures and crashes.                                          *)
(***************************************************************************)
EXTENDS Archives, FiniteSetTheorems, SequenceTheorems, TLAPS

LEMMA UnusedNotInfo == Unused \notin Info /\ \A i \in Info : i # Unused
<1> SUFFICES ASSUME NEW i \in Info PROVE i # Unused
  OBVIOUS
<1>1. i.src \in Sources /\ DOMAIN i = {"src", "aid", "claim", "media"}
  BY DEF Info
<1>2. DOMAIN Unused = {"src"}
  BY DEF Unused
<1> QED
  BY <1>1, <1>2

LEMMA GotoType ==
  ASSUME HandlerType, NEW h \in Handlers, NEW step \in Steps, Goto(h, step)
  PROVE  HandlerType'
BY DEF HandlerType, Goto

LEMMA AnswerType ==
  ASSUME HandlerType, NEW h \in Handlers, Answer(h)
  PROVE  HandlerType'
<1>1. pc' \in [Handlers -> Steps]
  BY DEF HandlerType, Answer, Steps
<1>2. at' \in [Handlers -> Ids \cup {NoId}]
  BY DEF HandlerType, Answer
<1>3. wrote' \in [Handlers -> BOOLEAN] /\ rest' \in [Handlers -> Seq(Blocks)]
  BY DEF HandlerType, Answer
<1> QED
  BY <1>1, <1>2, <1>3 DEF HandlerType

\* The uploads of source s.
Slots(s) == {u \in uploads : info[u].src = s}

\* A slot that is given back is counted down, also when it was given back
\* before.
LEMMA RemoveSlot ==
  ASSUME UploadType, SlotsMatch, IsFiniteSet(uploads),
         NEW u \in Ids, info[u] \in Info, Remove(u), UNCHANGED upload
  PROVE  UploadType' /\ SlotsMatch' /\ IsFiniteSet(uploads')
<1>1. CASE u \notin uploads
  <2>1. uploads' = uploads /\ perSrc' = perSrc
    BY <1>1 DEF Remove
  <2> QED
    BY <2>1 DEF UploadType, SlotsMatch, upload
<1>2. CASE u \in uploads
  <2>1. PICK s \in Sources : info[u].src = s
    BY DEF Info
  <2>2. \A x \in Sources : IsFiniteSet(Slots(x))
    BY FS_Subset DEF Slots
  <2>3. Slots(s)' = Slots(s) \ {u} /\ u \in Slots(s)
    BY <1>2, <2>1 DEF Slots, Remove, upload
  <2>4. \A x \in Sources \ {s} : Slots(x)' = Slots(x)
    BY <1>2, <2>1 DEF Slots, Remove, upload
  <2>5. Cardinality(Slots(s)') = Cardinality(Slots(s)) - 1
        /\ Cardinality(Slots(s)) \in Nat /\ Cardinality(Slots(s)') \in Nat
    <3>1. IsFiniteSet(Slots(s)) /\ IsFiniteSet(Slots(s) \ {u})
      BY <2>1, <2>2, FS_RemoveElement
    <3> QED
      BY <3>1, <2>3, FS_RemoveElement, FS_CardinalityType
  <2>6. perSrc[s] = Cardinality(Slots(s)) /\ perSrc'[s] = perSrc[s] - 1
    BY <1>2, <2>1 DEF SlotsMatch, Slots, Remove, UploadType
  <2>7. perSrc' \in [Sources -> Nat]
    BY <1>2, <2>1, <2>5, <2>6 DEF Remove, UploadType
  <2>8. \A x \in Sources : perSrc'[x] = Cardinality(Slots(x)')
    <3> TAKE x \in Sources
    <3>1. CASE x = s
      BY <3>1, <2>5, <2>6
    <3>2. CASE x # s
      BY <3>2, <2>1, <2>4, <1>2 DEF SlotsMatch, Slots, Remove, UploadType
    <3> QED
      BY <3>1, <3>2
  <2>9. UploadType'
    BY <2>7 DEF UploadType, Remove, upload
  <2>10. IsFiniteSet(uploads')
    BY FS_RemoveElement DEF Remove
  <2> QED
    BY <2>8, <2>9, <2>10 DEF SlotsMatch, Slots
<1> QED
  BY <1>1, <1>2

\* A slot is taken by an upload that is not in the store.
LEMMA CreateSlot ==
  ASSUME UploadType, SlotsMatch, IsFiniteSet(uploads),
         NEW u \in Ids, info[u] \in Info, u \notin uploads,
         uploads' = uploads \cup {u},
         perSrc' = [perSrc EXCEPT ![info[u].src] = @ + 1], UNCHANGED upload
  PROVE  UploadType' /\ SlotsMatch' /\ IsFiniteSet(uploads')
<1>1. PICK s \in Sources : info[u].src = s
  BY DEF Info
<1>2. \A x \in Sources : IsFiniteSet(Slots(x))
  BY FS_Subset DEF Slots
<1>3. Slots(s)' = Slots(s) \cup {u} /\ u \notin Slots(s)
  BY <1>1 DEF Slots, upload
<1>4. \A x \in Sources \ {s} : Slots(x)' = Slots(x)
  BY <1>1 DEF Slots, upload
<1>5. Cardinality(Slots(s)') = Cardinality(Slots(s)) + 1
  BY <1>1, <1>2, <1>3, FS_AddElement
<1>6. \A x \in Sources : perSrc'[x] = Cardinality(Slots(x)')
  <2> TAKE x \in Sources
  <2>1. CASE x = s
    BY <2>1, <1>1, <1>5 DEF SlotsMatch, Slots, UploadType
  <2>2. CASE x # s
    BY <2>2, <1>1, <1>4 DEF SlotsMatch, Slots, UploadType
  <2> QED
    BY <2>1, <2>2
<1>7. IsFiniteSet(uploads')
  BY FS_AddElement
<1>8. UploadType'
  BY <1>1 DEF UploadType, upload
<1> QED
  BY <1>6, <1>7, <1>8 DEF SlotsMatch, Slots

LEMMA RemoveTmpType ==
  ASSUME DiskType, NEW u \in Ids, RemoveTmp(u)
  PROVE  /\ tmps' \subseteq Ids /\ old' \subseteq tmps'
         /\ file' \in [Ids -> Seq(Blocks)]
BY DEF DiskType, RemoveTmp

LEMMA RemoveFinType ==
  ASSUME DiskType, NEW u \in Ids, RemoveFin(u)
  PROVE  /\ fins' \subseteq Ids /\ oldFin' \subseteq fins'
         /\ tree' \in [Ids -> Seq(Blocks)]
BY DEF DiskType, RemoveFin

LEMMA CleanupType ==
  ASSUME DiskType, NEW u \in Ids, CleanupTmp(u), UNCHANGED <<archive, done>>
  PROVE  DiskType'
BY RemoveTmpType, RemoveFinType DEF DiskType, CleanupTmp

LEMMA DiscardType ==
  ASSUME DiskType, NEW u \in Ids, RemoveFin(u),
         UNCHANGED <<tmps, file, old, reaping, done>>,
         archive' \in [ArchiveIds -> Archive \cup {Absent}]
  PROVE  DiskType'
BY RemoveFinType DEF DiskType

LEMMA SetOffsetType ==
  ASSUME UploadType, SlotsMatch, IsFiniteSet(uploads), NEW u \in Ids,
         SetOffset(u), UNCHANGED store
  PROVE  UploadType' /\ SlotsMatch' /\ IsFiniteSet(uploads')
<1>1. Len(hashed[u]) \in Nat
  BY DEF UploadType
<1> QED
  BY <1>1 DEF UploadType, SetOffset, SlotsMatch, store

\* A step of handler h concerns a request for an upload of its own.
LEMMA Serving ==
  ASSUME TypeInv, NEW h \in Handlers, pc[h] # "idle"
  PROVE  at[h] \in Ids /\ info[at[h]] \in Info /\ at[h] \notin orphaned
BY DEF TypeInv, Placed

LEMMA TypesStep ==
  ASSUME TypeInv, NEW h \in Handlers, HandlerStep(h)
  PROVE  TypeOK' /\ SlotsMatch' /\ IsFiniteSet(uploads')
<1> USE ArchivesAssumption
<1>1. ASSUME Create(h) PROVE TypeOK' /\ SlotsMatch' /\ IsFiniteSet(uploads')
  <2>0. at[h] \in Ids /\ info[at[h]] \in Info
    BY <1>1, Serving DEF Create
  <2>1. HandlerType'
    BY <1>1, GotoType DEF TypeInv, TypeOK, Create, Steps, Locking, Finalizing
  <2>2. UploadType' /\ SlotsMatch' /\ IsFiniteSet(uploads')
    BY <1>1, <2>0, CreateSlot DEF TypeInv, TypeOK, Placed, Fresh, Create
  <2>3. DiskType'
    BY <1>1, <2>0 DEF TypeInv, TypeOK, DiskType, Create, disk, ages
  <2>4. told' \subseteq Ids /\ orphaned' \subseteq Ids /\ faults' \in 0..MaxFaults
    BY <1>1, <2>0 DEF TypeInv, TypeOK, Create, history
  <2> QED
    BY <2>1, <2>2, <2>3, <2>4 DEF TypeOK
<1>2. ASSUME CreateRefuses(h) PROVE TypeOK' /\ SlotsMatch' /\ IsFiniteSet(uploads')
  <2>0. at[h] \in Ids /\ info[at[h]] \in Info
    BY <1>2, Serving DEF CreateRefuses
  <2>1. HandlerType'
    BY <1>2, AnswerType DEF TypeInv, TypeOK, CreateRefuses
  <2>2. UploadType' /\ SlotsMatch' /\ IsFiniteSet(uploads')
    <3>1. at[h] \notin uploads
      BY <1>2 DEF TypeInv, Placed, Fresh, CreateRefuses
    <3>2. \A s \in Sources : {u \in uploads : info'[u].src = s} = Slots(s)
      BY <1>2, <2>0, <3>1 DEF TypeInv, TypeOK, UploadType, CreateRefuses, Slots
    <3>3. uploads' = uploads /\ perSrc' = perSrc
      BY <1>2 DEF CreateRefuses, store
    <3>4. UploadType'
      BY <1>2, <2>0, <3>3 DEF TypeInv, TypeOK, UploadType, CreateRefuses
    <3>5. SlotsMatch'
      BY <3>2, <3>3 DEF TypeInv, SlotsMatch, Slots
    <3> QED
      BY <3>3, <3>4, <3>5 DEF TypeInv
  <2>3. DiskType'
    BY <1>2, <2>0 DEF TypeInv, TypeOK, DiskType, CreateRefuses, disk, ages
  <2>4. told' \subseteq Ids /\ orphaned' \subseteq Ids /\ faults' \in 0..MaxFaults
    BY <1>2, <2>0 DEF TypeInv, TypeOK, CreateRefuses, history
  <2> QED
    BY <2>1, <2>2, <2>3, <2>4 DEF TypeOK
<1>3. ASSUME CreateTmp(h) PROVE TypeOK' /\ SlotsMatch' /\ IsFiniteSet(uploads')
  <2>0. at[h] \in Ids /\ info[at[h]] \in Info
    BY <1>3, Serving DEF CreateTmp
  <2>1. HandlerType'
    BY <1>3, AnswerType DEF TypeInv, TypeOK, CreateTmp
  <2>2. UploadType' /\ SlotsMatch' /\ IsFiniteSet(uploads')
    BY <1>3, <2>0 DEF TypeInv, TypeOK, UploadType, SlotsMatch, CreateTmp,
      upload, store
  <2>3. DiskType'
    BY <1>3, <2>0 DEF TypeInv, TypeOK, DiskType, CreateTmp, disk, ages
  <2>4. told' \subseteq Ids /\ orphaned' \subseteq Ids /\ faults' \in 0..MaxFaults
    BY <1>3, <2>0 DEF TypeInv, TypeOK, CreateTmp, history
  <2> QED
    BY <2>1, <2>2, <2>3, <2>4 DEF TypeOK
<1>4. ASSUME CreateTmpFails(h) PROVE TypeOK' /\ SlotsMatch' /\ IsFiniteSet(uploads')
  <2>0. at[h] \in Ids /\ info[at[h]] \in Info
    BY <1>4, Serving DEF CreateTmpFails
  <2>1. HandlerType'
    BY <1>4, AnswerType DEF TypeInv, TypeOK, CreateTmpFails
  <2>2. UploadType' /\ SlotsMatch' /\ IsFiniteSet(uploads')
    BY <1>4, <2>0, RemoveSlot DEF TypeInv, TypeOK, CreateTmpFails
  <2>3. DiskType'
    BY <1>4, <2>0 DEF TypeInv, TypeOK, DiskType, CreateTmpFails, disk, ages
  <2>4. told' \subseteq Ids /\ orphaned' \subseteq Ids /\ faults' \in 0..MaxFaults
    BY <1>4, <2>0 DEF TypeInv, TypeOK, CreateTmpFails, history, Fault
  <2> QED
    BY <2>1, <2>2, <2>3, <2>4 DEF TypeOK
<1>5. ASSUME NEW n, PatchLock(h, n) PROVE TypeOK' /\ SlotsMatch' /\ IsFiniteSet(uploads')
  <2>0. at[h] \in Ids /\ info[at[h]] \in Info
    BY <1>5, Serving DEF PatchLock
  <2>1. HandlerType'
    BY <1>5, GotoType, AnswerType DEF TypeInv, TypeOK, PatchLock, Steps, Locking,
      Finalizing
  <2>2. UploadType' /\ SlotsMatch' /\ IsFiniteSet(uploads')
    BY <1>5, <2>0 DEF TypeInv, TypeOK, UploadType, SlotsMatch, PatchLock,
      upload, store
  <2>3. DiskType'
    BY <1>5, <2>0 DEF TypeInv, TypeOK, DiskType, PatchLock, disk, ages
  <2>4. told' \subseteq Ids /\ orphaned' \subseteq Ids /\ faults' \in 0..MaxFaults
    BY <1>5, <2>0 DEF TypeInv, TypeOK, PatchLock, history
  <2> QED
    BY <2>1, <2>2, <2>3, <2>4 DEF TypeOK
<1>6. ASSUME NEW b \in Blocks, PatchCopy(h, b) PROVE TypeOK' /\ SlotsMatch' /\ IsFiniteSet(uploads')
  <2>0. at[h] \in Ids /\ info[at[h]] \in Info
    BY <1>6, Serving DEF PatchCopy
  <2>1. HandlerType'
    BY <1>6 DEF TypeInv, TypeOK, PatchCopy, HandlerType
  <2>2. UploadType' /\ SlotsMatch' /\ IsFiniteSet(uploads')
    BY <1>6, <2>0 DEF TypeInv, TypeOK, UploadType, SlotsMatch, PatchCopy,
      upload, store
  <2>3. DiskType'
    BY <1>6, <2>0 DEF TypeInv, TypeOK, DiskType, PatchCopy, Write, disk, ages
  <2>4. told' \subseteq Ids /\ orphaned' \subseteq Ids /\ faults' \in 0..MaxFaults
    BY <1>6, <2>0 DEF TypeInv, TypeOK, PatchCopy, history
  <2> QED
    BY <2>1, <2>2, <2>3, <2>4 DEF TypeOK
<1>7. ASSUME NEW b \in Blocks, PatchShort(h, b) PROVE TypeOK' /\ SlotsMatch' /\ IsFiniteSet(uploads')
  <2>0. at[h] \in Ids /\ info[at[h]] \in Info
    BY <1>7, Serving DEF PatchShort
  <2>1. HandlerType'
    BY <1>7, AnswerType DEF TypeInv, TypeOK, PatchShort
  <2>2. UploadType' /\ SlotsMatch' /\ IsFiniteSet(uploads')
    BY <1>7, <2>0, SetOffsetType DEF TypeInv, TypeOK, PatchShort
  <2>3. DiskType'
    BY <1>7, <2>0 DEF TypeInv, TypeOK, DiskType, PatchShort, Write, disk, ages
  <2>4. told' \subseteq Ids /\ orphaned' \subseteq Ids /\ faults' \in 0..MaxFaults
    BY <1>7, <2>0 DEF TypeInv, TypeOK, PatchShort, history, Fault
  <2> QED
    BY <2>1, <2>2, <2>3, <2>4 DEF TypeOK
<1>8. ASSUME PatchCut(h) PROVE TypeOK' /\ SlotsMatch' /\ IsFiniteSet(uploads')
  <2>0. at[h] \in Ids /\ info[at[h]] \in Info
    BY <1>8, Serving DEF PatchCut
  <2>1. HandlerType'
    BY <1>8, AnswerType DEF TypeInv, TypeOK, PatchCut
  <2>2. UploadType' /\ SlotsMatch' /\ IsFiniteSet(uploads')
    BY <1>8, <2>0, SetOffsetType DEF TypeInv, TypeOK, PatchCut
  <2>3. DiskType'
    BY <1>8, <2>0 DEF TypeInv, TypeOK, DiskType, PatchCut, disk, ages
  <2>4. told' \subseteq Ids /\ orphaned' \subseteq Ids /\ faults' \in 0..MaxFaults
    BY <1>8, <2>0 DEF TypeInv, TypeOK, PatchCut, history, Fault
  <2> QED
    BY <2>1, <2>2, <2>3, <2>4 DEF TypeOK
<1>9. ASSUME PatchEnd(h) PROVE TypeOK' /\ SlotsMatch' /\ IsFiniteSet(uploads')
  <2>0. at[h] \in Ids /\ info[at[h]] \in Info
    BY <1>9, Serving DEF PatchEnd
  <2>1. HandlerType'
    BY <1>9, GotoType, AnswerType DEF TypeInv, TypeOK, PatchEnd, Steps,
      Locking, Finalizing
  <2>2. UploadType' /\ SlotsMatch' /\ IsFiniteSet(uploads')
    BY <1>9, <2>0, SetOffsetType DEF TypeInv, TypeOK, PatchEnd
  <2>3. DiskType'
    BY <1>9, <2>0 DEF TypeInv, TypeOK, DiskType, PatchEnd, disk, ages
  <2>4. told' \subseteq Ids /\ orphaned' \subseteq Ids /\ faults' \in 0..MaxFaults
    BY <1>9, <2>0 DEF TypeInv, TypeOK, PatchEnd, history
  <2> QED
    BY <2>1, <2>2, <2>3, <2>4 DEF TypeOK
<1>10. ASSUME Check(h) PROVE TypeOK' /\ SlotsMatch' /\ IsFiniteSet(uploads')
  <2>0. at[h] \in Ids /\ info[at[h]] \in Info
    BY <1>10, Serving DEF Check
  <2>1. HandlerType'
    BY <1>10, GotoType DEF TypeInv, TypeOK, Check, Abort, Steps, Locking,
      Finalizing
  <2>2. UploadType' /\ SlotsMatch' /\ IsFiniteSet(uploads')
    BY <1>10, <2>0 DEF TypeInv, TypeOK, UploadType, SlotsMatch, Check, upload,
      store
  <2>3. DiskType'
    BY <1>10, <2>0, CleanupType DEF TypeInv, TypeOK, DiskType, Check, Abort,
      RemoveTmp, RemoveFin, disk, ages
  <2>4. told' \subseteq Ids /\ orphaned' \subseteq Ids /\ faults' \in 0..MaxFaults
    BY <1>10, <2>0 DEF TypeInv, TypeOK, Check, history
  <2> QED
    BY <2>1, <2>2, <2>3, <2>4 DEF TypeOK
<1>11. ASSUME MoveRaw(h) PROVE TypeOK' /\ SlotsMatch' /\ IsFiniteSet(uploads')
  <2>0. at[h] \in Ids /\ info[at[h]] \in Info
    BY <1>11, Serving DEF MoveRaw
  <2>1. HandlerType'
    BY <1>11, GotoType DEF TypeInv, TypeOK, MoveRaw, Abort, Steps, Locking,
      Finalizing
  <2>2. UploadType' /\ SlotsMatch' /\ IsFiniteSet(uploads')
    BY <1>11, <2>0 DEF TypeInv, TypeOK, UploadType, SlotsMatch, MoveRaw,
      upload, store
  <2>3. DiskType'
    <3>1. CASE at[h] \in tmps
      <4>1. file[at[h]] \in Seq(Blocks)
        BY <2>0 DEF TypeInv, TypeOK, DiskType
      <4>2. tree' \in [Ids -> Seq(Blocks)]
        BY <1>11, <2>0, <3>1, <4>1 DEF TypeInv, TypeOK, DiskType, MoveRaw
      <4> QED
        BY <1>11, <2>0, <3>1, <4>2, RemoveTmpType
          DEF TypeInv, TypeOK, DiskType, MoveRaw
    <3>2. CASE at[h] \notin tmps
      BY <1>11, <2>0, <3>2, CleanupType DEF TypeInv, TypeOK, MoveRaw, Abort
    <3> QED
      BY <3>1, <3>2
  <2>4. told' \subseteq Ids /\ orphaned' \subseteq Ids /\ faults' \in 0..MaxFaults
    BY <1>11, <2>0 DEF TypeInv, TypeOK, MoveRaw, history
  <2> QED
    BY <2>1, <2>2, <2>3, <2>4 DEF TypeOK
<1>12. ASSUME OpenTar(h) PROVE TypeOK' /\ SlotsMatch' /\ IsFiniteSet(uploads')
  <2>0. at[h] \in Ids /\ info[at[h]] \in Info
    BY <1>12, Serving DEF OpenTar
  <2>1. HandlerType'
    <3>1. CASE at[h] \in tmps
      <4>1. file[at[h]] \in Seq(Blocks)
        BY <2>0 DEF TypeInv, TypeOK, DiskType
      <4> QED
        BY <1>12, <3>1, <4>1
          DEF TypeInv, TypeOK, HandlerType, OpenTar, Steps, Locking, Finalizing
    <3>2. CASE at[h] \notin tmps
      BY <1>12, <3>2, GotoType
        DEF TypeInv, TypeOK, OpenTar, Abort, Steps, Locking, Finalizing
    <3> QED
      BY <3>1, <3>2
  <2>2. UploadType' /\ SlotsMatch' /\ IsFiniteSet(uploads')
    BY <1>12, <2>0 DEF TypeInv, TypeOK, UploadType, SlotsMatch, OpenTar,
      upload, store
  <2>3. DiskType'
    BY <1>12, <2>0, CleanupType DEF TypeInv, TypeOK, DiskType, OpenTar, Abort,
      RemoveTmp, RemoveFin, disk, ages
  <2>4. told' \subseteq Ids /\ orphaned' \subseteq Ids /\ faults' \in 0..MaxFaults
    BY <1>12, <2>0 DEF TypeInv, TypeOK, OpenTar, history
  <2> QED
    BY <2>1, <2>2, <2>3, <2>4 DEF TypeOK
<1>13. ASSUME UntarEntry(h) PROVE TypeOK' /\ SlotsMatch' /\ IsFiniteSet(uploads')
  <2>0. at[h] \in Ids /\ info[at[h]] \in Info
    BY <1>13, Serving DEF UntarEntry
  <2>1. HandlerType'
    BY <1>13 DEF TypeInv, TypeOK, UntarEntry, HandlerType
  <2>2. UploadType' /\ SlotsMatch' /\ IsFiniteSet(uploads')
    BY <1>13, <2>0 DEF TypeInv, TypeOK, UploadType, SlotsMatch, UntarEntry,
      upload, store
  <2>3. DiskType'
    <3>1. rest[h] \in Seq(Blocks) /\ rest[h] # <<>> /\ tree[at[h]] \in Seq(Blocks)
      BY <1>13, <2>0 DEF TypeInv, TypeOK, HandlerType, DiskType, UntarEntry
    <3>2. Append(tree[at[h]], Head(rest[h])) \in Seq(Blocks)
      BY <3>1
    <3>3. tree' \in [Ids -> Seq(Blocks)]
      BY <1>13, <3>2 DEF TypeInv, TypeOK, DiskType, UntarEntry
    <3> QED
      BY <1>13, <2>0, <3>3 DEF TypeInv, TypeOK, DiskType, UntarEntry, ages
  <2>4. told' \subseteq Ids /\ orphaned' \subseteq Ids /\ faults' \in 0..MaxFaults
    BY <1>13, <2>0 DEF TypeInv, TypeOK, UntarEntry, history
  <2> QED
    BY <2>1, <2>2, <2>3, <2>4 DEF TypeOK
<1>14. ASSUME UntarRefuses(h) PROVE TypeOK' /\ SlotsMatch' /\ IsFiniteSet(uploads')
  <2>0. at[h] \in Ids /\ info[at[h]] \in Info
    BY <1>14, Serving DEF UntarRefuses
  <2>1. HandlerType'
    BY <1>14, GotoType DEF TypeInv, TypeOK, UntarRefuses, Abort, Steps,
      Locking, Finalizing
  <2>2. UploadType' /\ SlotsMatch' /\ IsFiniteSet(uploads')
    BY <1>14, <2>0 DEF TypeInv, TypeOK, UploadType, SlotsMatch, UntarRefuses,
      upload, store
  <2>3. DiskType'
    BY <1>14, <2>0, CleanupType DEF TypeInv, TypeOK, DiskType, UntarRefuses,
      Abort, disk, ages
  <2>4. told' \subseteq Ids /\ orphaned' \subseteq Ids /\ faults' \in 0..MaxFaults
    BY <1>14, <2>0 DEF TypeInv, TypeOK, UntarRefuses, history
  <2> QED
    BY <2>1, <2>2, <2>3, <2>4 DEF TypeOK
<1>15. ASSUME UntarEnd(h) PROVE TypeOK' /\ SlotsMatch' /\ IsFiniteSet(uploads')
  <2>0. at[h] \in Ids /\ info[at[h]] \in Info
    BY <1>15, Serving DEF UntarEnd
  <2>1. HandlerType'
    BY <1>15, GotoType DEF TypeInv, TypeOK, UntarEnd, Steps, Locking,
      Finalizing
  <2>2. UploadType' /\ SlotsMatch' /\ IsFiniteSet(uploads')
    BY <1>15, <2>0 DEF TypeInv, TypeOK, UploadType, SlotsMatch, UntarEnd,
      upload, store
  <2>3. DiskType'
    BY <1>15, <2>0 DEF TypeInv, TypeOK, DiskType, UntarEnd, RemoveTmp, disk,
      ages
  <2>4. told' \subseteq Ids /\ orphaned' \subseteq Ids /\ faults' \in 0..MaxFaults
    BY <1>15, <2>0 DEF TypeInv, TypeOK, UntarEnd, history
  <2> QED
    BY <2>1, <2>2, <2>3, <2>4 DEF TypeOK
<1>16. ASSUME Extract(h) PROVE TypeOK' /\ SlotsMatch' /\ IsFiniteSet(uploads')
  <2>0. at[h] \in Ids /\ info[at[h]] \in Info
    BY <1>16, Serving DEF Extract
  <2>1. HandlerType'
    BY <1>16, GotoType DEF TypeInv, TypeOK, Extract, Abort, Steps, Locking,
      Finalizing
  <2>2. UploadType' /\ SlotsMatch' /\ IsFiniteSet(uploads')
    BY <1>16, <2>0 DEF TypeInv, TypeOK, UploadType, SlotsMatch, Extract,
      upload, store
  <2>3. DiskType'
    BY <1>16, <2>0, CleanupType DEF TypeInv, TypeOK, DiskType, Extract, Abort,
      RemoveTmp, RemoveFin, disk, ages
  <2>4. told' \subseteq Ids /\ orphaned' \subseteq Ids /\ faults' \in 0..MaxFaults
    BY <1>16, <2>0 DEF TypeInv, TypeOK, Extract, history
  <2> QED
    BY <2>1, <2>2, <2>3, <2>4 DEF TypeOK
<1>17. ASSUME WriteMeta(h) PROVE TypeOK' /\ SlotsMatch' /\ IsFiniteSet(uploads')
  <2>0. at[h] \in Ids /\ info[at[h]] \in Info
    BY <1>17, Serving DEF WriteMeta
  <2>1. HandlerType'
    BY <1>17, GotoType DEF TypeInv, TypeOK, WriteMeta, Abort, Steps, Locking,
      Finalizing
  <2>2. UploadType' /\ SlotsMatch' /\ IsFiniteSet(uploads')
    BY <1>17, <2>0 DEF TypeInv, TypeOK, UploadType, SlotsMatch, WriteMeta,
      upload, store
  <2>3. DiskType'
    BY <1>17, <2>0, CleanupType DEF TypeInv, TypeOK, DiskType, WriteMeta,
      Abort, RemoveTmp, RemoveFin, disk, ages
  <2>4. told' \subseteq Ids /\ orphaned' \subseteq Ids /\ faults' \in 0..MaxFaults
    BY <1>17, <2>0 DEF TypeInv, TypeOK, WriteMeta, history
  <2> QED
    BY <2>1, <2>2, <2>3, <2>4 DEF TypeOK
<1>18. ASSUME StatFinal(h) PROVE TypeOK' /\ SlotsMatch' /\ IsFiniteSet(uploads')
  <2>0. at[h] \in Ids /\ info[at[h]] \in Info
    BY <1>18, Serving DEF StatFinal
  <2>1. HandlerType'
    BY <1>18, GotoType DEF TypeInv, TypeOK, StatFinal, Discard, Steps,
      Locking, Finalizing
  <2>2. UploadType' /\ SlotsMatch' /\ IsFiniteSet(uploads')
    BY <1>18, <2>0 DEF TypeInv, TypeOK, UploadType, SlotsMatch, StatFinal,
      upload, store
  <2>3. DiskType'
    <3>1. CASE Discard(h)
      BY <1>18, <2>0, <3>1, DiscardType
        DEF TypeInv, TypeOK, DiskType, StatFinal, Discard
    <3>2. CASE UNCHANGED <<disk, ages>>
      BY <1>18, <3>2 DEF TypeInv, TypeOK, DiskType, StatFinal, disk, ages
    <3> QED
      BY <1>18, <3>1, <3>2 DEF StatFinal
  <2>4. told' \subseteq Ids /\ orphaned' \subseteq Ids /\ faults' \in 0..MaxFaults
    BY <1>18, <2>0 DEF TypeInv, TypeOK, StatFinal, history
  <2> QED
    BY <2>1, <2>2, <2>3, <2>4 DEF TypeOK
<1>19. ASSUME Rename(h) PROVE TypeOK' /\ SlotsMatch' /\ IsFiniteSet(uploads')
  <2>0. at[h] \in Ids /\ info[at[h]] \in Info
    BY <1>19, Serving DEF Rename
  <2>1. HandlerType'
    BY <1>19, GotoType DEF TypeInv, TypeOK, Rename, Discard, Steps, Locking,
      Finalizing
  <2>2. UploadType' /\ SlotsMatch' /\ IsFiniteSet(uploads')
    BY <1>19, <2>0 DEF TypeInv, TypeOK, UploadType, SlotsMatch, Rename,
      upload, store
  <2>3. DiskType'
    <3>1. archive' \in [ArchiveIds -> Archive \cup {Absent}]
      <4>1. tree[at[h]] \in Seq(Blocks)
        BY <2>0 DEF TypeInv, TypeOK, DiskType
      <4>2. [from |-> at[h], src |-> info[at[h]].src, claim |-> info[at[h]].claim,
             data |-> tree[at[h]]] \in Archive
        BY <2>0, <4>1 DEF Archive, Info
      <4> QED
        BY <1>19, <4>2 DEF TypeInv, TypeOK, DiskType, Rename
    <3> QED
      BY <1>19, <2>0, <3>1, DiscardType DEF TypeInv, TypeOK, Rename, Discard
  <2>4. told' \subseteq Ids /\ orphaned' \subseteq Ids /\ faults' \in 0..MaxFaults
    BY <1>19, <2>0 DEF TypeInv, TypeOK, Rename, history
  <2> QED
    BY <2>1, <2>2, <2>3, <2>4 DEF TypeOK
<1>20. ASSUME FinalizeFails(h) PROVE TypeOK' /\ SlotsMatch' /\ IsFiniteSet(uploads')
  <2>0. at[h] \in Ids /\ info[at[h]] \in Info
    BY <1>20, Serving DEF FinalizeFails, Finalizing
  <2>1. HandlerType'
    BY <1>20, GotoType DEF TypeInv, TypeOK, FinalizeFails, Abort, Discard,
      Steps, Locking, Finalizing
  <2>2. UploadType' /\ SlotsMatch' /\ IsFiniteSet(uploads')
    BY <1>20, <2>0 DEF TypeInv, TypeOK, UploadType, SlotsMatch, FinalizeFails,
      upload, store
  <2>3. DiskType'
    <3>1. CASE Abort(h)
      BY <1>20, <2>0, <3>1, CleanupType DEF TypeInv, TypeOK, FinalizeFails, Abort
    <3>2. CASE Discard(h)
      BY <1>20, <2>0, <3>2, DiscardType
        DEF TypeInv, TypeOK, DiskType, FinalizeFails, Discard
    <3> QED
      BY <1>20, <3>1, <3>2 DEF FinalizeFails
  <2>4. told' \subseteq Ids /\ orphaned' \subseteq Ids /\ faults' \in 0..MaxFaults
    BY <1>20, <2>0 DEF TypeInv, TypeOK, FinalizeFails, history, Fault
  <2> QED
    BY <2>1, <2>2, <2>3, <2>4 DEF TypeOK
<1>21. ASSUME Respond(h) PROVE TypeOK' /\ SlotsMatch' /\ IsFiniteSet(uploads')
  <2>0. at[h] \in Ids /\ info[at[h]] \in Info
    BY <1>21, Serving DEF Respond
  <2>1. HandlerType'
    BY <1>21, AnswerType DEF TypeInv, TypeOK, Respond
  <2>2. UploadType' /\ SlotsMatch' /\ IsFiniteSet(uploads')
    BY <1>21, <2>0, RemoveSlot DEF TypeInv, TypeOK, Respond
  <2>3. DiskType'
    BY <1>21, <2>0 DEF TypeInv, TypeOK, DiskType, Respond, disk, ages
  <2>4. told' \subseteq Ids /\ orphaned' \subseteq Ids /\ faults' \in 0..MaxFaults
    BY <1>21, <2>0 DEF TypeInv, TypeOK, Respond, history
  <2> QED
    BY <2>1, <2>2, <2>3, <2>4 DEF TypeOK
<1>22. ASSUME Delete(h) PROVE TypeOK' /\ SlotsMatch' /\ IsFiniteSet(uploads')
  <2>0. at[h] \in Ids /\ info[at[h]] \in Info
    BY <1>22, Serving DEF Delete
  <2>1. HandlerType'
    BY <1>22, AnswerType DEF TypeInv, TypeOK, Delete
  <2>2. UploadType' /\ SlotsMatch' /\ IsFiniteSet(uploads')
    BY <1>22, <2>0, RemoveSlot DEF TypeInv, TypeOK, Delete
  <2>3. DiskType'
    BY <1>22, <2>0, CleanupType DEF TypeInv, TypeOK, DiskType, Delete, disk,
      ages
  <2>4. told' \subseteq Ids /\ orphaned' \subseteq Ids /\ faults' \in 0..MaxFaults
    BY <1>22, <2>0 DEF TypeInv, TypeOK, Delete, history
  <2> QED
    BY <2>1, <2>2, <2>3, <2>4 DEF TypeOK
<1> QED
  BY <1>1, <1>2, <1>3, <1>4, <1>5, <1>6, <1>7, <1>8, <1>9, <1>10, <1>11,
    <1>12, <1>13, <1>14, <1>15, <1>16, <1>17, <1>18, <1>19, <1>20, <1>21, <1>22
    DEF HandlerStep

\* The steps that do not continue a request.
Others ==
  \/ \E h \in Handlers : Request(h)
  \/ Cleanup
  \/ \E a \in ArchiveIds : Import(a)
  \/ Crash

LEMMA TypesOther ==
  ASSUME TypeInv, Others
  PROVE  TypeOK' /\ SlotsMatch' /\ IsFiniteSet(uploads')
<1> USE ArchivesAssumption
<1>1. ASSUME NEW h \in Handlers, NEW u \in Ids, NEW i \in Offers,
             Preflight(h, u, i)
      PROVE  TypeOK' /\ SlotsMatch' /\ IsFiniteSet(uploads')
  <2>1. HandlerType'
    BY <1>1 DEF TypeInv, TypeOK, HandlerType, Preflight, Steps
  <2>2. u \notin uploads /\ i \in Info
    BY <1>1 DEF TypeInv, Given, Fresh, Preflight
  <2>3. uploads' = uploads /\ perSrc' = perSrc
    BY <1>1 DEF Preflight, store
  <2>4. UploadType'
    BY <1>1, <2>2, <2>3 DEF TypeInv, TypeOK, UploadType, Preflight
  <2>5. \A s \in Sources : {v \in uploads : info'[v].src = s} = Slots(s)
    BY <1>1, <2>2 DEF TypeInv, TypeOK, UploadType, Preflight, Slots
  <2>6. SlotsMatch' /\ IsFiniteSet(uploads')
    BY <2>3, <2>5 DEF TypeInv, SlotsMatch, Slots
  <2> QED
    BY <1>1, <2>1, <2>4, <2>6
      DEF TypeInv, TypeOK, DiskType, Preflight, disk, ages, history
<1>2. ASSUME NEW h \in Handlers, NEW u \in Ids, NEW step \in {"lock", "delete"},
             Get(h, u, step)
      PROVE  TypeOK' /\ SlotsMatch' /\ IsFiniteSet(uploads')
  <2>1. HandlerType'
    BY <1>2 DEF TypeInv, TypeOK, HandlerType, Get, Steps
  <2>2. UploadType' /\ SlotsMatch' /\ IsFiniteSet(uploads')
    BY <1>2 DEF TypeInv, TypeOK, UploadType, SlotsMatch, Get, upload, store
  <2> QED
    BY <1>2, <2>1, <2>2 DEF TypeInv, TypeOK, DiskType, Get, disk, ages, history
<1>3. CASE Cleanup
  <2>1. UNCHANGED <<handler, upload, store, archive, done, history, faults>>
    BY <1>3 DEF Cleanup, TmpAges, FinAges, ReapPick, Reap
  <2>2. DiskType'
    <3>1. ASSUME NEW u \in Ids, TmpAges(u) \/ FinAges(u) PROVE DiskType'
      BY <3>1 DEF TypeInv, TypeOK, DiskType, TmpAges, FinAges, disk
    <3>2. ASSUME NEW what \in {"tmp", "fin"}, NEW u \in Ids, ReapPick(what, u)
          PROVE  DiskType'
      BY <3>2 DEF TypeInv, TypeOK, DiskType, ReapPick, disk
    <3>3. ASSUME Reap PROVE DiskType'
      <4>1. reaping.id \in Ids
        BY <3>3 DEF TypeInv, TypeOK, DiskType, Reap
      <4>2. CASE reaping.what = "tmp"
        BY <3>3, <4>1, <4>2, RemoveTmpType DEF TypeInv, TypeOK, DiskType, Reap
      <4>3. CASE reaping.what = "fin"
        BY <3>3, <4>1, <4>3, RemoveFinType DEF TypeInv, TypeOK, DiskType, Reap
      <4> QED
        BY <3>3, <4>2, <4>3 DEF Reap
    <3> QED
      BY <1>3, <3>1, <3>2, <3>3 DEF Cleanup
  <2>3. HandlerType' /\ UploadType' /\ SlotsMatch' /\ IsFiniteSet(uploads')
    BY <2>1 DEF TypeInv, TypeOK, HandlerType, UploadType, SlotsMatch,
      handler, upload, store
  <2> QED
    BY <2>1, <2>2, <2>3 DEF TypeInv, TypeOK, history
<1>4. ASSUME NEW a \in ArchiveIds, Import(a)
      PROVE  TypeOK' /\ SlotsMatch' /\ IsFiniteSet(uploads')
  <2>1. archive[a].from \in Ids
    BY <1>4 DEF TypeInv, TypeOK, DiskType, Archive, Import
  <2>2. DiskType'
    BY <1>4, <2>1 DEF TypeInv, TypeOK, DiskType, Import, disk, ages
  <2>3. HandlerType' /\ UploadType' /\ SlotsMatch' /\ IsFiniteSet(uploads')
    BY <1>4 DEF TypeInv, TypeOK, HandlerType, UploadType, SlotsMatch, Import,
      handler, upload, store
  <2> QED
    BY <1>4, <2>2, <2>3 DEF TypeInv, TypeOK, Import, history
<1>5. ASSUME Crash
      PROVE  TypeOK' /\ SlotsMatch' /\ IsFiniteSet(uploads')
  <2>1. HandlerType'
    BY <1>5 DEF HandlerType, Crash, Steps
  <2>2. UploadType' /\ DiskType'
    BY <1>5 DEF TypeInv, TypeOK, UploadType, DiskType, Crash, upload, disk
  <2>3. \A s \in Sources : {u \in {} : info'[u].src = s} = {}
    OBVIOUS
  <2>4. SlotsMatch' /\ IsFiniteSet(uploads')
    BY <1>5, <2>3, FS_EmptySet DEF Crash, SlotsMatch
  <2> QED
    BY <1>5, <2>1, <2>2, <2>4 DEF TypeInv, TypeOK, Crash, Fault
<1> QED
  BY <1>1, <1>2, <1>3, <1>4, <1>5 DEF Others, Request

LEMMA NextCases == Next => Others \/ \E h \in Handlers : HandlerStep(h)
BY DEF Next, Others

LEMMA InitTypeInv == Init => TypeInv
<1> SUFFICES ASSUME Init PROVE TypeInv
  OBVIOUS
<1> USE ArchivesAssumption
<1>1. HandlerType /\ UploadType /\ DiskType
  BY DEF Init, HandlerType, UploadType, DiskType, Steps
<1>2. TypeOK
  BY <1>1 DEF TypeOK, Init
<1>3. Given
  BY DEF Init, Given, Fresh, Absent
<1>4. Placed
  BY DEF Init, Placed
<1>5. \A s \in Sources : {u \in {} : info[u].src = s} = {}
  OBVIOUS
<1>6. SlotsMatch /\ IsFiniteSet(uploads)
  BY <1>5, FS_EmptySet DEF Init, SlotsMatch
<1> QED
  BY <1>2, <1>3, <1>4, <1>6 DEF TypeInv

\* A step of handler h leaves the other handlers and the other uploads alone,
\* and only a rename into a free place changes an archive.
Local(h) ==
  /\ \A g \in Handlers \ {h} : pc'[g] = pc[g] /\ at'[g] = at[g] /\ rest'[g] = rest[g]
  /\ \A u \in Ids \ {at[h]} :
       /\ info'[u] = info[u] /\ offset'[u] = offset[u] /\ hashed'[u] = hashed[u]
       /\ file'[u] = file[u] /\ tree'[u] = tree[u]
       /\ u \in uploads' <=> u \in uploads
       /\ u \in tmps' <=> u \in tmps
       /\ u \in fins' <=> u \in fins
       /\ u \in told' <=> u \in told
  /\ oldFin' \subseteq oldFin
  /\ done' = done /\ orphaned' = orphaned /\ reaping' = reaping
  /\ \/ archive' = archive
     \/ pc[h] = "rename" /\ CanRename(h) /\ Rename(h)

LEMMA LocalStep ==
  ASSUME TypeInv, NEW h \in Handlers, HandlerStep(h)
  PROVE  Local(h)
<1> USE DEF TypeInv, TypeOK, HandlerType, UploadType, DiskType, Local
<1>1. ASSUME Create(h) PROVE Local(h)
  BY <1>1 DEF Create, Goto, upload, store, disk, ages, history
<1>2. ASSUME CreateRefuses(h) PROVE Local(h)
  BY <1>2 DEF CreateRefuses, Answer, upload, store, disk, ages, history
<1>3. ASSUME CreateTmp(h) PROVE Local(h)
  BY <1>3 DEF CreateTmp, Answer, upload, store, disk, ages, history
<1>4. ASSUME CreateTmpFails(h) PROVE Local(h)
  BY <1>4 DEF CreateTmpFails, Answer, Remove, upload, store, disk, ages,
    history
<1>5. ASSUME NEW n, PatchLock(h, n) PROVE Local(h)
  BY <1>5 DEF PatchLock, Goto, Answer, upload, store, disk, ages, history
<1>6. ASSUME NEW b \in Blocks, PatchCopy(h, b) PROVE Local(h)
  BY <1>6 DEF PatchCopy, Write, upload, store, disk, ages, history
<1>7. ASSUME NEW b \in Blocks, PatchShort(h, b) PROVE Local(h)
  BY <1>7 DEF PatchShort, Write, SetOffset, Answer, upload, store, disk, ages,
    history
<1>8. ASSUME PatchCut(h) PROVE Local(h)
  BY <1>8 DEF PatchCut, SetOffset, Answer, upload, store, disk, ages, history
<1>9. ASSUME PatchEnd(h) PROVE Local(h)
  BY <1>9 DEF PatchEnd, SetOffset, Goto, Answer, upload, store, disk, ages,
    history
<1>10. ASSUME Check(h) PROVE Local(h)
  BY <1>10 DEF Check, Abort, Goto, CleanupTmp, RemoveTmp, RemoveFin, upload,
    store, disk, ages, history
<1>11. ASSUME MoveRaw(h) PROVE Local(h)
  BY <1>11 DEF MoveRaw, Abort, Goto, CleanupTmp, RemoveTmp, RemoveFin, upload,
    store, disk, ages, history
<1>12. ASSUME OpenTar(h) PROVE Local(h)
  BY <1>12 DEF OpenTar, Abort, Goto, CleanupTmp, RemoveTmp, RemoveFin, upload,
    store, disk, ages, history
<1>13. ASSUME UntarEntry(h) PROVE Local(h)
  BY <1>13 DEF UntarEntry, upload, store, disk, ages, history
<1>14. ASSUME UntarRefuses(h) PROVE Local(h)
  BY <1>14 DEF UntarRefuses, Abort, Goto, CleanupTmp, RemoveTmp, RemoveFin,
    upload, store, disk, ages, history
<1>15. ASSUME UntarEnd(h) PROVE Local(h)
  BY <1>15 DEF UntarEnd, Goto, RemoveTmp, upload, store, disk, ages, history
<1>16. ASSUME Extract(h) PROVE Local(h)
  BY <1>16 DEF Extract, Abort, Goto, CleanupTmp, RemoveTmp, RemoveFin, upload,
    store, disk, ages, history
<1>17. ASSUME WriteMeta(h) PROVE Local(h)
  BY <1>17 DEF WriteMeta, Abort, Goto, CleanupTmp, RemoveTmp, RemoveFin,
    upload, store, disk, ages, history
<1>18. ASSUME StatFinal(h) PROVE Local(h)
  BY <1>18 DEF StatFinal, Discard, Goto, RemoveFin, upload, store, disk, ages,
    history
<1>19. ASSUME Rename(h) PROVE Local(h)
  BY <1>19 DEF Rename, Discard, Goto, RemoveFin, CanRename, upload, store,
    disk, ages, history
<1>20. ASSUME FinalizeFails(h) PROVE Local(h)
  BY <1>20 DEF FinalizeFails, Abort, Discard, Goto, CleanupTmp, RemoveTmp,
    RemoveFin, upload, store, disk, ages, history
<1>21. ASSUME Respond(h) PROVE Local(h)
  BY <1>21 DEF Respond, Answer, Remove, upload, store, disk, ages, history
<1>22. ASSUME Delete(h) PROVE Local(h)
  BY <1>22 DEF Delete, Answer, Remove, CleanupTmp, RemoveTmp, RemoveFin,
    upload, store, disk, ages, history
<1> QED
  BY <1>1, <1>2, <1>3, <1>4, <1>5, <1>6, <1>7, <1>8, <1>9, <1>10, <1>11,
    <1>12, <1>13, <1>14, <1>15, <1>16, <1>17, <1>18, <1>19, <1>20, <1>21, <1>22
    DEF HandlerStep

\* What a step of handler h does with its own request.
Own(h) ==
  /\ pc[h] # "idle" /\ pc'[h] # "post"
  /\ pc'[h] = "idle" => at'[h] = NoId
  /\ pc'[h] # "idle" => at'[h] = at[h]
  /\ info'[at[h]] # info[at[h]] => CreateRefuses(h)
  /\ pc[h] = "post" => Create(h) \/ CreateRefuses(h)
  /\ pc[h] = "lock" => UNCHANGED <<upload, store, disk, archive, ages, history>>
  /\ pc[h] = "delete" => ~Held(at[h])
  /\ pc'[h] \in Locking => pc[h] \in Locking \/ ~Held(at[h])
  /\ pc'[h] = "create" => Create(h)
  /\ at[h] \in told' => at[h] \in told \/ pc[h] = "ok"

LEMMA OwnStep ==
  ASSUME TypeInv, NEW h \in Handlers, HandlerStep(h)
  PROVE  Own(h)
<1> USE DEF TypeInv, TypeOK, HandlerType, Own, Locking, Finalizing,
  history
<1>1. ASSUME Create(h) PROVE Own(h)
  BY <1>1 DEF Create, Goto, upload
<1>2. ASSUME CreateRefuses(h) PROVE Own(h)
  BY <1>2 DEF CreateRefuses, Answer, upload
<1>3. ASSUME CreateTmp(h) PROVE Own(h)
  BY <1>3 DEF CreateTmp, Answer, upload
<1>4. ASSUME CreateTmpFails(h) PROVE Own(h)
  BY <1>4 DEF CreateTmpFails, Answer, upload
<1>5. ASSUME NEW n, PatchLock(h, n) PROVE Own(h)
  BY <1>5 DEF PatchLock, Goto, Answer, upload
<1>6. ASSUME NEW b \in Blocks, PatchCopy(h, b) PROVE Own(h)
  BY <1>6 DEF PatchCopy, upload
<1>7. ASSUME NEW b \in Blocks, PatchShort(h, b) PROVE Own(h)
  BY <1>7 DEF PatchShort, SetOffset, Answer, upload
<1>8. ASSUME PatchCut(h) PROVE Own(h)
  BY <1>8 DEF PatchCut, SetOffset, Answer, upload
<1>9. ASSUME PatchEnd(h) PROVE Own(h)
  BY <1>9 DEF PatchEnd, SetOffset, Goto, Answer, upload
<1>10. ASSUME Check(h) PROVE Own(h)
  BY <1>10 DEF Check, Abort, Goto, upload
<1>11. ASSUME MoveRaw(h) PROVE Own(h)
  BY <1>11 DEF MoveRaw, Abort, Goto, upload
<1>12. ASSUME OpenTar(h) PROVE Own(h)
  BY <1>12 DEF OpenTar, Abort, Goto, upload
<1>13. ASSUME UntarEntry(h) PROVE Own(h)
  BY <1>13 DEF UntarEntry, upload
<1>14. ASSUME UntarRefuses(h) PROVE Own(h)
  BY <1>14 DEF UntarRefuses, Abort, Goto, upload
<1>15. ASSUME UntarEnd(h) PROVE Own(h)
  BY <1>15 DEF UntarEnd, Goto, upload
<1>16. ASSUME Extract(h) PROVE Own(h)
  BY <1>16 DEF Extract, Abort, Goto, upload
<1>17. ASSUME WriteMeta(h) PROVE Own(h)
  BY <1>17 DEF WriteMeta, Abort, Goto, upload
<1>18. ASSUME StatFinal(h) PROVE Own(h)
  BY <1>18 DEF StatFinal, Discard, Goto, upload
<1>19. ASSUME Rename(h) PROVE Own(h)
  BY <1>19 DEF Rename, Discard, Goto, upload
<1>20. ASSUME FinalizeFails(h) PROVE Own(h)
  BY <1>20 DEF FinalizeFails, Abort, Discard, Goto, upload
<1>21. ASSUME Respond(h) PROVE Own(h)
  BY <1>21 DEF Respond, Answer, upload
<1>22. ASSUME Delete(h) PROVE Own(h)
  BY <1>22 DEF Delete, Answer, upload
<1> QED
  BY <1>1, <1>2, <1>3, <1>4, <1>5, <1>6, <1>7, <1>8, <1>9, <1>10, <1>11,
    <1>12, <1>13, <1>14, <1>15, <1>16, <1>17, <1>18, <1>19, <1>20, <1>21, <1>22
    DEF HandlerStep

LEMMA FreshStep ==
  ASSUME TypeInv, NEW h \in Handlers, HandlerStep(h),
         NEW u \in Ids, Fresh(u), at[h] # u
  PROVE  Fresh(u)'
<1>1. Local(h)
  BY LocalStep
<1>2. \A a \in ArchiveIds : archive'[a] # Absent => archive'[a].from # u
  <2>1. CASE archive' = archive
    BY <2>1 DEF Fresh
  <2>2. CASE CanRename(h) /\ Rename(h)
    <3> SUFFICES ASSUME NEW a \in ArchiveIds, archive'[a] # Absent
                 PROVE  archive'[a].from # u
      OBVIOUS
    <3>1. CASE a = info[at[h]].aid
      BY <2>2, <3>1 DEF TypeInv, TypeOK, DiskType, Rename
    <3>2. CASE a # info[at[h]].aid
      BY <2>2, <3>2 DEF TypeInv, TypeOK, DiskType, Fresh, Rename
    <3> QED
      BY <3>1, <3>2
  <2> QED
    BY <1>1, <2>1, <2>2 DEF Local
<1> QED
  BY <1>1, <1>2 DEF Local, Fresh

LEMMA PlacedStep ==
  ASSUME TypeInv, NEW h \in Handlers, HandlerStep(h)
  PROVE  Placed' /\ Given'
<1>1. Local(h) /\ Own(h)
  BY LocalStep, OwnStep
<1>2. at[h] \in Ids /\ info[at[h]] \in Info
  BY <1>1, Serving DEF Own
<1>3. ASSUME NEW u \in Ids, info'[u] = Unused PROVE Fresh(u)'
  <2>1. CASE u # at[h]
    <3>1. info[u] = Unused
      BY <1>1, <1>3, <2>1 DEF Local
    <3> QED
      BY <2>1, <3>1, FreshStep DEF TypeInv, Given
  <2>2. CASE u = at[h]
    <3>1. CreateRefuses(h)
      BY <1>1, <1>2, <1>3, <2>2, UnusedNotInfo DEF Own
    <3>2. Fresh(u)
      BY <2>2, <3>1 DEF TypeInv, Placed, CreateRefuses
    <3> QED
      BY <3>1, <3>2 DEF CreateRefuses, Fresh, store, disk, history
  <2> QED
    BY <2>1, <2>2
<1>4. ASSUME NEW g \in Handlers
      PROVE  /\ pc'[g] = "idle" => at'[g] = NoId
             /\ pc'[g] # "idle" =>
                  at'[g] \in Ids /\ info'[at'[g]] \in Info /\ at'[g] \notin orphaned'
  <2>1. CASE g = h
    <3>1. pc'[h] # "idle" => ~CreateRefuses(h)
      BY DEF TypeInv, TypeOK, HandlerType, CreateRefuses, Answer
    <3> QED
      BY <1>1, <1>2, <2>1, <3>1, Serving DEF Own, Local
  <2>2. CASE g # h
    <3>1. pc'[g] = pc[g] /\ at'[g] = at[g] /\ orphaned' = orphaned
      BY <1>1, <2>2 DEF Local
    <3>2. pc[g] # "idle" => info'[at[g]] = info[at[g]]
      <4>1. CASE at[g] = at[h]
        <5>1. pc[h] # "post"
          BY <2>2, <4>1 DEF TypeInv, Placed
        <5> QED
          BY <1>1, <4>1, <5>1 DEF Own, CreateRefuses
      <4>2. CASE at[g] # at[h]
        BY <1>1, <4>2, Serving DEF Local
      <4> QED
        BY <4>1, <4>2
    <3> QED
      BY <3>1, <3>2 DEF TypeInv, Placed
  <2> QED
    BY <2>1, <2>2
<1>5. ASSUME NEW g \in Handlers, pc'[g] = "post"
      PROVE  /\ at'[g] \in Ids /\ Fresh(at[g])' /\ at'[g] = at[g]
             /\ \A k \in Handlers \ {g} : at'[k] # at'[g]
  <2>1. g # h /\ pc[g] = "post" /\ at'[g] = at[g]
    BY <1>1, <1>5 DEF Own, Local
  <2>2. PICK u \in Ids : at[g] = u
    BY <2>1, Serving
  <2>3. Fresh(u) /\ at[h] # u /\ \A k \in Handlers \ {g} : at[k] # u
    BY <2>1, <2>2 DEF TypeInv, Placed
  <2>4. Fresh(u)'
    BY <2>3, FreshStep
  <2>5. \A k \in Handlers \ {g} : at'[k] = at[k] \/ at'[k] = NoId
    BY <1>1 DEF Local, Own
  <2>6. at'[g] = u
    BY <2>1, <2>2
  <2>7. Fresh(at[g])'
    BY <2>4, <2>6
  <2> QED
    BY <2>1, <2>2, <2>3, <2>5, <2>7, ArchivesAssumption
<1>6. uploads' \cap orphaned' = {}
  BY <1>1, <1>2, TypesStep, Serving DEF Local, Own, TypeInv, TypeOK, UploadType, Given
<1> QED
  BY <1>3, <1>4, <1>5, <1>6 DEF Placed, Given

LEMMA PlacedOther ==
  ASSUME TypeInv, Others
  PROVE  Placed' /\ Given'
<1>1. ASSUME NEW h \in Handlers, NEW v \in Ids, NEW i \in Offers,
             Preflight(h, v, i)
      PROVE  Placed' /\ Given'
  <2>1. i \in Info /\ i # Unused /\ Fresh(v)
    BY <1>1, ArchivesAssumption, UnusedNotInfo DEF TypeInv, Given, Preflight
  <2>2. \A u \in Ids : Fresh(u) => Fresh(u)'
    BY <1>1 DEF Preflight, Fresh, store, disk, history
  <2>3. \A g \in Handlers : at[g] # v
    BY <1>1, UnusedNotInfo, ArchivesAssumption DEF TypeInv, Placed, Preflight
  <2>4. /\ \A g \in Handlers \ {h} : pc'[g] = pc[g] /\ at'[g] = at[g]
        /\ pc'[h] = "post" /\ at'[h] = v /\ orphaned' = orphaned
        /\ info'[v] = i /\ \A u \in Ids \ {v} : info'[u] = info[u]
    BY <1>1 DEF TypeInv, TypeOK, HandlerType, UploadType, Preflight, history
  <2>5. Given'
    BY <1>1, <2>1, <2>2, <2>4 DEF TypeInv, Given, Preflight, store
  <2>6. ASSUME NEW g \in Handlers
        PROVE  /\ pc'[g] = "idle" => at'[g] = NoId
               /\ pc'[g] # "idle" =>
                    at'[g] \in Ids /\ info'[at'[g]] \in Info /\ at'[g] \notin orphaned'
    BY <2>1, <2>3, <2>4 DEF TypeInv, Placed, Fresh
  <2>7. ASSUME NEW g \in Handlers, pc'[g] = "post"
        PROVE  Fresh(at[g])' /\ \A k \in Handlers \ {g} : at'[k] # at'[g]
    <3>1. CASE g = h
      <4>1. Fresh(v)' /\ at'[g] = v
        BY <2>1, <2>2, <2>4, <3>1
      <4> QED
        BY <4>1, <2>3, <2>4, <3>1
    <3>2. CASE g # h
      <4>1. PICK u \in Ids : at[g] = u /\ at'[g] = u /\ Fresh(u)
        BY <2>4, <2>7, <3>2 DEF TypeInv, Placed
      <4>2. Fresh(u)'
        BY <2>2, <4>1
      <4>3. \A k \in Handlers \ {g} : at[k] # u
        BY <2>4, <2>7, <3>2, <4>1 DEF TypeInv, Placed
      <4> QED
        BY <4>1, <4>2, <4>3, <2>3, <2>4
    <3> QED
      BY <3>1, <3>2
  <2> QED
    BY <2>5, <2>6, <2>7 DEF Placed
<1>2. ASSUME NEW h \in Handlers, NEW v \in Ids, NEW step \in {"lock", "delete"},
             Get(h, v, step)
      PROVE  Placed' /\ Given'
  <2>1. \A u \in Ids : Fresh(u) => Fresh(u)' /\ u # v
    BY <1>2 DEF Get, Fresh, upload, store, disk, history
  <2>2. /\ \A g \in Handlers \ {h} : pc'[g] = pc[g] /\ at'[g] = at[g]
        /\ pc'[h] = step /\ at'[h] = v
        /\ UNCHANGED <<upload, orphaned, uploads>>
    BY <1>2 DEF TypeInv, TypeOK, HandlerType, Get, history, store
  <2>3. Given'
    BY <2>1, <2>2 DEF TypeInv, Given, upload
  <2>4. info[v] \in Info /\ v \notin orphaned
    <3>1. v \in uploads
      BY <1>2 DEF Get
    <3>2. info[v] # Unused
      BY <3>1 DEF TypeInv, Given, Fresh
    <3> QED
      BY <3>1, <3>2 DEF TypeInv, TypeOK, UploadType, Given
  <2>6. ASSUME NEW g \in Handlers
        PROVE  /\ pc'[g] = "idle" => at'[g] = NoId
               /\ pc'[g] # "idle" =>
                    at'[g] \in Ids /\ info'[at'[g]] \in Info /\ at'[g] \notin orphaned'
    BY <2>2, <2>4 DEF TypeInv, Placed, upload
  <2>7. ASSUME NEW g \in Handlers, pc'[g] = "post"
        PROVE  Fresh(at[g])' /\ \A k \in Handlers \ {g} : at'[k] # at'[g]
    <3>1. g # h
      BY <2>2, <2>7
    <3>2. PICK u \in Ids : at[g] = u /\ at'[g] = u /\ Fresh(u)
      BY <2>2, <2>7, <3>1 DEF TypeInv, Placed
    <3>3. Fresh(u)' /\ u # v
      BY <2>1, <3>2
    <3>4. \A k \in Handlers \ {g} : at[k] # u
      BY <2>2, <2>7, <3>1, <3>2 DEF TypeInv, Placed
    <3> QED
      BY <3>1, <3>2, <3>3, <3>4, <2>2
  <2> QED
    BY <2>3, <2>6, <2>7 DEF Placed
<1>3. CASE Cleanup \/ \E a \in ArchiveIds : Import(a)
  <2>1. UNCHANGED <<handler, upload, store, history>>
    BY <1>3 DEF Cleanup, TmpAges, FinAges, ReapPick, Reap, Import
  <2>2. ASSUME NEW u \in Ids, Fresh(u) PROVE Fresh(u)'
    <3>1. CASE Cleanup
      <4>1. /\ tmps' \subseteq tmps /\ fins' \subseteq fins /\ tree'[u] = <<>>
            /\ archive' = archive /\ done' = done
        BY <2>2, <3>1 DEF Cleanup, TmpAges, FinAges, ReapPick, Reap, RemoveTmp,
          RemoveFin, disk, TypeInv, TypeOK, DiskType, Fresh
      <4> QED
        BY <2>1, <2>2, <4>1 DEF Fresh, upload, store, history
    <3>2. ASSUME NEW a \in ArchiveIds, Import(a) PROVE Fresh(u)'
      BY <2>1, <2>2, <3>2 DEF TypeInv, TypeOK, DiskType, Import, Fresh, upload,
        store, history, disk
    <3> QED
      BY <1>3, <3>1, <3>2
  <2> QED
    BY <2>1, <2>2 DEF TypeInv, Placed, Given, handler, upload, store, history
<1>4. CASE Crash
  <2>1. \A g \in Handlers : pc'[g] = "idle" /\ at'[g] = NoId
    BY <1>4 DEF Crash
  <2>2. Placed'
    BY <2>1 DEF Placed
  <2>3. Given'
    BY <1>4 DEF TypeInv, Given, Fresh, Crash, upload, disk
  <2> QED
    BY <2>2, <2>3
<1> QED
  BY <1>1, <1>2, <1>3, <1>4 DEF Others, Request

LEMMA NextTypeInv == TypeInv /\ [Next]_vars => TypeInv'
<1> SUFFICES ASSUME TypeInv, [Next]_vars PROVE TypeInv'
  OBVIOUS
<1>1. CASE Others
  BY <1>1, TypesOther, PlacedOther DEF TypeInv
<1>2. ASSUME NEW h \in Handlers, HandlerStep(h) PROVE TypeInv'
  BY <1>2, TypesStep, PlacedStep DEF TypeInv
<1>3. CASE UNCHANGED vars
  <2>1. TypeOK' /\ SlotsMatch' /\ IsFiniteSet(uploads')
    BY <1>3 DEF TypeInv, TypeOK, HandlerType, UploadType, DiskType, SlotsMatch,
      vars, handler, upload, store, disk, ages, history
  <2>2. Placed' /\ Given'
    BY <1>3 DEF TypeInv, Placed, Given, Fresh, vars, handler, upload, store, disk,
      history
  <2> QED
    BY <2>1, <2>2 DEF TypeInv
<1> QED
  BY <1>1, <1>2, <1>3, NextCases

\* Every variable keeps its type: counters of slots never become negative, and
\* no step of a request refers to an upload that was not created.
THEOREM ArchivesTyped == Spec => []TypeOK
<1>1. TypeInv => TypeOK
  BY DEF TypeInv
<1> QED
  BY <1>1, InitTypeInv, NextTypeInv, PTL DEF Spec

\* Store.perSrc counts the uploads of each source whatever PATCH, DELETE,
\* failures and restarts do.
THEOREM SlotsCounted == Spec => []SlotsMatch
<1>1. TypeInv => SlotsMatch
  BY DEF TypeInv
<1> QED
  BY <1>1, InitTypeInv, NextTypeInv, PTL DEF Spec

\* While a handler has an upload to itself, a step of another does not touch it.
LEMMA Apart ==
  ASSUME TypeInv, Exclusive, NEW h \in Handlers, HandlerStep(h),
         NEW g \in Handlers \ {h}, pc[g] \in Locking \cup {"create", "post"}
  PROVE  \/ at[g] # at[h]
         \/ UNCHANGED <<upload, store, disk, archive, ages, history>>
<1> SUFFICES ASSUME at[g] = at[h]
             PROVE  UNCHANGED <<upload, store, disk, archive, ages, history>>
  OBVIOUS
<1>1. Own(h)
  BY OwnStep
<1>2. pc[g] # "post" /\ pc[h] # "post"
  BY DEF TypeInv, Placed
<1>3. pc[g] # "idle" /\ pc[h] # "idle"
  BY <1>1 DEF Own, Locking, Finalizing
<1>4. pc[g] \in Locking /\ pc[h] \notin Locking \cup {"create"}
  BY <1>2, <1>3 DEF Exclusive
<1>5. pc[h] # "delete"
  BY <1>1, <1>4 DEF Own, Held
<1>6. pc[h] \in Steps
  BY DEF TypeInv, TypeOK, HandlerType
<1>7. pc[h] = "lock"
  BY <1>2, <1>3, <1>4, <1>5, <1>6 DEF Steps
<1> QED
  BY <1>1, <1>7 DEF Own

LEMMA ExclusiveStep ==
  ASSUME TypeInv, Exclusive, NEW h \in Handlers, HandlerStep(h)
  PROVE  Exclusive'
<1>1. Local(h) /\ Own(h)
  BY LocalStep, OwnStep
<1>2. ASSUME NEW k \in Handlers \ {h}, pc'[k] # "idle", pc'[h] # "idle",
             at'[k] = at'[h]
      PROVE  /\ ~(pc'[k] \in Locking /\ pc'[h] \in Locking)
             /\ pc'[k] # "create" /\ pc'[h] # "create"
  <2>1. pc'[k] = pc[k] /\ at[k] = at[h] /\ pc[h] # "idle"
    BY <1>1, <1>2 DEF Local, Own
  <2>2. pc'[h] # "create"
    BY <1>1, <2>1 DEF Own, Create, TypeInv, Placed
  <2>3. pc[k] # "create" /\ ~(pc[k] \in Locking /\ pc[h] \in Locking)
    BY <1>2, <2>1 DEF Exclusive
  <2>4. pc[k] \in Locking => Held(at[h])
    BY <2>1 DEF Held
  <2> QED
    BY <1>1, <2>1, <2>2, <2>3, <2>4 DEF Own
<1>3. ASSUME NEW k \in Handlers \ {h} PROVE pc'[k] # "idle" => at'[k] # NoId
  BY <1>1, Serving, ArchivesAssumption DEF Local
<1>4. pc'[h] = "idle" => at'[h] = NoId
  BY <1>1 DEF Own
<1>5. ASSUME NEW g \in Handlers, NEW k \in Handlers, g # k, pc'[g] # "idle",
             at'[g] = at'[k]
      PROVE  ~(pc'[g] \in Locking /\ pc'[k] \in Locking) /\ pc'[g] # "create"
  <2>1. CASE g = h
    <3>1. at'[h] \in Ids
      BY <1>1, <1>5, <2>1, Serving DEF Own
    <3>2. pc'[k] # "idle"
      BY <1>1, <1>5, <2>1, <3>1, ArchivesAssumption DEF Local, TypeInv, Placed
    <3> QED
      BY <1>2, <1>5, <2>1, <3>2
  <2>2. CASE k = h
    <3>1. CASE pc'[h] = "idle"
      BY <1>3, <1>4, <1>5, <2>2, <3>1
    <3>2. CASE pc'[h] # "idle"
      BY <1>2, <1>5, <2>2, <3>2
    <3> QED
      BY <3>1, <3>2
  <2>3. CASE g # h /\ k # h
    BY <1>1, <1>5, <2>3 DEF Local, Exclusive
  <2> QED
    BY <2>1, <2>2, <2>3
<1> QED
  BY <1>5 DEF Exclusive

\* Whether an upload is held depends on the handler that takes a step, if it
\* works on that upload, and on nobody else.
LEMMA HeldStep ==
  ASSUME TypeInv, NEW h \in Handlers, HandlerStep(h), NEW u \in Ids
  PROVE  /\ u # at[h] => (Held(u)' <=> Held(u))
         /\ u = at[h] /\ pc[h] \notin Locking /\ ~Held(u)' => ~Held(u)
         /\ u = at[h] /\ pc'[h] \in Locking => Held(u)'
<1>1. Local(h) /\ Own(h)
  BY LocalStep, OwnStep
<1>2. at'[h] = at[h] \/ (at'[h] = NoId /\ pc'[h] = "idle")
  BY <1>1 DEF Own
<1>3. "idle" \notin Locking /\ NoId \notin Ids
  BY ArchivesAssumption DEF Locking, Finalizing
<1> QED
  BY <1>1, <1>2, <1>3 DEF Local, Held

\* The step of a handler and its own upload.
LEMMA StoreOwn ==
  ASSUME TypeInv, StoreInv, NEW h \in Handlers, HandlerStep(h), TypeOK',
         NEW u \in Ids, u = at[h]
  PROVE  AtWork(h)' /\ Sound(u)'
<1> USE DEF TypeInv, TypeOK, HandlerType, UploadType, DiskType, StoreInv
<1>1. ASSUME Create(h) PROVE AtWork(h)' /\ Sound(u)'
  <2>1. AtWork(h)'
    BY <1>1 DEF Create, Goto, AtWork, Locking, Finalizing, store, upload,
      disk, Fresh, Placed
  <2>2. /\ u \in tmps' \cup fins' => u \in uploads' \cup orphaned'
        /\ u \notin tmps' => file'[u] = <<>>
    BY <1>1 DEF Create, Goto, AtWork, Sound, Locking, Finalizing, store,
      upload, disk, history, Fresh, Placed
  <2>3. u \in tmps' =>
          /\ Len(file'[u]) >= Len(hashed'[u])
          /\ Len(file'[u]) = Len(hashed'[u]) => file'[u] = hashed'[u]
    BY <1>1 DEF Create, Goto, AtWork, Sound, store, upload, disk, Fresh,
      Placed
  <2>4. u \in uploads' /\ ~Held(u)' => offset'[u] = Len(hashed'[u])
    BY <1>1, HeldStep DEF Create, Goto, AtWork, Sound, Locking, Finalizing,
      store, upload, Fresh, Placed
  <2> QED
    BY <2>1, <2>2, <2>3, <2>4 DEF Sound
<1>2. ASSUME CreateRefuses(h) PROVE AtWork(h)' /\ Sound(u)'
  <2>1. AtWork(h)'
    BY <1>2 DEF CreateRefuses, Answer, AtWork, Locking, Finalizing, store,
      upload, disk
  <2>2. /\ u \in tmps' \cup fins' => u \in uploads' \cup orphaned'
        /\ u \notin tmps' => file'[u] = <<>>
    BY <1>2 DEF CreateRefuses, Answer, AtWork, Sound, Locking, Finalizing,
      store, upload, disk, history, Fresh, Placed
  <2>3. u \in tmps' =>
          /\ Len(file'[u]) >= Len(hashed'[u])
          /\ Len(file'[u]) = Len(hashed'[u]) => file'[u] = hashed'[u]
    BY <1>2 DEF CreateRefuses, Answer, AtWork, Sound, store, upload, disk,
      Fresh, Placed
  <2>4. u \in uploads' /\ ~Held(u)' => offset'[u] = Len(hashed'[u])
    BY <1>2, HeldStep DEF CreateRefuses, Answer, AtWork, Sound, Locking,
      Finalizing, store, upload, Fresh, Placed
  <2> QED
    BY <2>1, <2>2, <2>3, <2>4 DEF Sound
<1>3. ASSUME CreateTmp(h) PROVE AtWork(h)' /\ Sound(u)'
  <2>1. AtWork(h)'
    BY <1>3 DEF CreateTmp, Answer, AtWork, Locking, Finalizing, store, upload,
      disk
  <2>2. /\ u \in tmps' \cup fins' => u \in uploads' \cup orphaned'
        /\ u \notin tmps' => file'[u] = <<>>
    BY <1>3 DEF CreateTmp, Answer, AtWork, Sound, Locking, Finalizing, store,
      upload, disk, history, Fresh, Placed
  <2>3. u \in tmps' =>
          /\ Len(file'[u]) >= Len(hashed'[u])
          /\ Len(file'[u]) = Len(hashed'[u]) => file'[u] = hashed'[u]
    BY <1>3 DEF CreateTmp, Answer, AtWork, Sound, store, upload, disk, Fresh,
      Placed
  <2>4. u \in uploads' /\ ~Held(u)' => offset'[u] = Len(hashed'[u])
    BY <1>3, HeldStep DEF CreateTmp, Answer, AtWork, Sound, Locking,
      Finalizing, store, upload, Fresh, Placed
  <2> QED
    BY <2>1, <2>2, <2>3, <2>4 DEF Sound
<1>4. ASSUME CreateTmpFails(h) PROVE AtWork(h)' /\ Sound(u)'
  <2>1. AtWork(h)'
    BY <1>4 DEF CreateTmpFails, Answer, Remove, AtWork, Locking, Finalizing,
      store, upload, disk
  <2>2. /\ u \in tmps' \cup fins' => u \in uploads' \cup orphaned'
        /\ u \notin tmps' => file'[u] = <<>>
    BY <1>4 DEF CreateTmpFails, Answer, Remove, AtWork, Sound, Locking,
      Finalizing, store, upload, disk, history, Fresh, Placed
  <2>3. u \in tmps' =>
          /\ Len(file'[u]) >= Len(hashed'[u])
          /\ Len(file'[u]) = Len(hashed'[u]) => file'[u] = hashed'[u]
    BY <1>4 DEF CreateTmpFails, Answer, Remove, AtWork, Sound, store, upload,
      disk, Fresh, Placed
  <2>4. u \in uploads' /\ ~Held(u)' => offset'[u] = Len(hashed'[u])
    BY <1>4, HeldStep DEF CreateTmpFails, Answer, Remove, AtWork, Sound,
      Locking, Finalizing, store, upload, Fresh, Placed
  <2> QED
    BY <2>1, <2>2, <2>3, <2>4 DEF Sound
<1>5. ASSUME NEW n, PatchLock(h, n) PROVE AtWork(h)' /\ Sound(u)'
  <2>1. AtWork(h)'
    <3>1. u \in tmps => u \in uploads
      BY <1>5, Serving DEF PatchLock, Sound
    <3>2. pc'[h] = "idle" \/ (pc'[h] = "copy" /\ u \in tmps /\ at'[h] = u)
      BY <1>5 DEF PatchLock, Goto, Answer
    <3>3. uploads' = uploads
      BY <1>5 DEF PatchLock, store
    <3> QED
      BY <3>1, <3>2, <3>3 DEF AtWork, Locking, Finalizing
  <2>2. /\ u \in tmps' \cup fins' => u \in uploads' \cup orphaned'
        /\ u \notin tmps' => file'[u] = <<>>
    BY <1>5 DEF PatchLock, Goto, Answer, AtWork, Sound, Locking, Finalizing,
      store, upload, disk, history
  <2>3. u \in tmps' =>
          /\ Len(file'[u]) >= Len(hashed'[u])
          /\ Len(file'[u]) = Len(hashed'[u]) => file'[u] = hashed'[u]
    BY <1>5 DEF PatchLock, Goto, Answer, AtWork, Sound, store, upload, disk
  <2>4. u \in uploads' /\ ~Held(u)' => offset'[u] = Len(hashed'[u])
    BY <1>5, HeldStep DEF PatchLock, Goto, Answer, AtWork, Sound, Locking,
      Finalizing, store, upload
  <2> QED
    BY <2>1, <2>2, <2>3, <2>4 DEF Sound
<1>6. ASSUME NEW b \in Blocks, PatchCopy(h, b) PROVE AtWork(h)' /\ Sound(u)'
  <2>1. AtWork(h)'
    BY <1>6 DEF PatchCopy, Write, AtWork, Locking, Finalizing, store, upload,
      disk
  <2>2. /\ u \in tmps' \cup fins' => u \in uploads' \cup orphaned'
        /\ u \notin tmps' => file'[u] = <<>>
    BY <1>6 DEF PatchCopy, Write, AtWork, Sound, Locking, Finalizing, store,
      upload, disk, history
  <2>3. u \in tmps' =>
          /\ Len(file'[u]) >= Len(hashed'[u])
          /\ Len(file'[u]) = Len(hashed'[u]) => file'[u] = hashed'[u]
    BY <1>6 DEF PatchCopy, Write, AtWork, Sound, store, upload, disk
  <2>4. u \in uploads' /\ ~Held(u)' => offset'[u] = Len(hashed'[u])
    BY <1>6, HeldStep DEF PatchCopy, Write, AtWork, Sound, Locking,
      Finalizing, store, upload
  <2> QED
    BY <2>1, <2>2, <2>3, <2>4 DEF Sound
<1>7. ASSUME NEW b \in Blocks, PatchShort(h, b) PROVE AtWork(h)' /\ Sound(u)'
  <2>1. AtWork(h)'
    BY <1>7 DEF PatchShort, Write, SetOffset, Answer, AtWork, Locking,
      Finalizing, store, upload, disk
  <2>2. /\ u \in tmps' \cup fins' => u \in uploads' \cup orphaned'
        /\ u \notin tmps' => file'[u] = <<>>
    BY <1>7 DEF PatchShort, Write, SetOffset, Answer, AtWork, Sound, Locking,
      Finalizing, store, upload, disk, history
  <2>3. u \in tmps' =>
          /\ Len(file'[u]) >= Len(hashed'[u])
          /\ Len(file'[u]) = Len(hashed'[u]) => file'[u] = hashed'[u]
    BY <1>7 DEF PatchShort, Write, SetOffset, Answer, AtWork, Sound, store,
      upload, disk
  <2>4. u \in uploads' /\ ~Held(u)' => offset'[u] = Len(hashed'[u])
    BY <1>7, HeldStep DEF PatchShort, Write, SetOffset, Answer, AtWork, Sound,
      Locking, Finalizing, store, upload
  <2> QED
    BY <2>1, <2>2, <2>3, <2>4 DEF Sound
<1>8. ASSUME PatchCut(h) PROVE AtWork(h)' /\ Sound(u)'
  <2>1. AtWork(h)'
    BY <1>8 DEF PatchCut, SetOffset, Answer, AtWork, Locking, Finalizing,
      store, upload, disk
  <2>2. /\ u \in tmps' \cup fins' => u \in uploads' \cup orphaned'
        /\ u \notin tmps' => file'[u] = <<>>
    BY <1>8 DEF PatchCut, SetOffset, Answer, AtWork, Sound, Locking,
      Finalizing, store, upload, disk, history
  <2>3. u \in tmps' =>
          /\ Len(file'[u]) >= Len(hashed'[u])
          /\ Len(file'[u]) = Len(hashed'[u]) => file'[u] = hashed'[u]
    BY <1>8 DEF PatchCut, SetOffset, Answer, AtWork, Sound, store, upload,
      disk
  <2>4. u \in uploads' /\ ~Held(u)' => offset'[u] = Len(hashed'[u])
    BY <1>8, HeldStep DEF PatchCut, SetOffset, Answer, AtWork, Sound, Locking,
      Finalizing, store, upload
  <2> QED
    BY <2>1, <2>2, <2>3, <2>4 DEF Sound
<1>9. ASSUME PatchEnd(h) PROVE AtWork(h)' /\ Sound(u)'
  <2>1. AtWork(h)'
    BY <1>9 DEF PatchEnd, SetOffset, Goto, Answer, AtWork, Locking,
      Finalizing, store, upload, disk
  <2>2. /\ u \in tmps' \cup fins' => u \in uploads' \cup orphaned'
        /\ u \notin tmps' => file'[u] = <<>>
    BY <1>9 DEF PatchEnd, SetOffset, Goto, Answer, AtWork, Sound, Locking,
      Finalizing, store, upload, disk, history
  <2>3. u \in tmps' =>
          /\ Len(file'[u]) >= Len(hashed'[u])
          /\ Len(file'[u]) = Len(hashed'[u]) => file'[u] = hashed'[u]
    BY <1>9 DEF PatchEnd, SetOffset, Goto, Answer, AtWork, Sound, store,
      upload, disk
  <2>4. u \in uploads' /\ ~Held(u)' => offset'[u] = Len(hashed'[u])
    BY <1>9, HeldStep DEF PatchEnd, SetOffset, Goto, Answer, AtWork, Sound,
      Locking, Finalizing, store, upload
  <2> QED
    BY <2>1, <2>2, <2>3, <2>4 DEF Sound
<1>10. ASSUME Check(h) PROVE AtWork(h)' /\ Sound(u)'
  <2>1. AtWork(h)'
    BY <1>10 DEF Check, Abort, Goto, CleanupTmp, RemoveTmp, RemoveFin, AtWork,
      Locking, Finalizing, store, upload, disk
  <2>2. /\ u \in tmps' \cup fins' => u \in uploads' \cup orphaned'
        /\ u \notin tmps' => file'[u] = <<>>
    BY <1>10 DEF Check, Abort, Goto, CleanupTmp, RemoveTmp, RemoveFin, AtWork,
      Sound, Locking, Finalizing, store, upload, disk, history
  <2>3. u \in tmps' =>
          /\ Len(file'[u]) >= Len(hashed'[u])
          /\ Len(file'[u]) = Len(hashed'[u]) => file'[u] = hashed'[u]
    BY <1>10 DEF Check, Abort, Goto, CleanupTmp, RemoveTmp, RemoveFin, AtWork,
      Sound, store, upload, disk
  <2>4. u \in uploads' /\ ~Held(u)' => offset'[u] = Len(hashed'[u])
    <3>1. pc'[h] \in Locking
      BY <1>10 DEF Check, Abort, Goto, Locking, Finalizing
    <3> QED
      BY <3>1, HeldStep
  <2> QED
    BY <2>1, <2>2, <2>3, <2>4 DEF Sound
<1>11. ASSUME MoveRaw(h) PROVE AtWork(h)' /\ Sound(u)'
  <2>1. AtWork(h)'
    BY <1>11 DEF MoveRaw, Abort, Goto, CleanupTmp, RemoveTmp, RemoveFin,
      AtWork, Locking, Finalizing, store, upload, disk
  <2>2. /\ u \in tmps' \cup fins' => u \in uploads' \cup orphaned'
        /\ u \notin tmps' => file'[u] = <<>>
    BY <1>11 DEF MoveRaw, Abort, Goto, CleanupTmp, RemoveTmp, RemoveFin,
      AtWork, Sound, Locking, Finalizing, store, upload, disk, history
  <2>3. u \in tmps' =>
          /\ Len(file'[u]) >= Len(hashed'[u])
          /\ Len(file'[u]) = Len(hashed'[u]) => file'[u] = hashed'[u]
    BY <1>11 DEF MoveRaw, Abort, Goto, CleanupTmp, RemoveTmp, RemoveFin,
      AtWork, Sound, store, upload, disk
  <2>4. u \in uploads' /\ ~Held(u)' => offset'[u] = Len(hashed'[u])
    BY <1>11, HeldStep DEF MoveRaw, Abort, Goto, CleanupTmp, RemoveTmp,
      RemoveFin, AtWork, Sound, Locking, Finalizing, store, upload
  <2> QED
    BY <2>1, <2>2, <2>3, <2>4 DEF Sound
<1>12. ASSUME OpenTar(h) PROVE AtWork(h)' /\ Sound(u)'
  <2>1. AtWork(h)'
    BY <1>12 DEF OpenTar, Abort, Goto, CleanupTmp, RemoveTmp, RemoveFin,
      AtWork, Locking, Finalizing, store, upload, disk
  <2>2. /\ u \in tmps' \cup fins' => u \in uploads' \cup orphaned'
        /\ u \notin tmps' => file'[u] = <<>>
    BY <1>12 DEF OpenTar, Abort, Goto, CleanupTmp, RemoveTmp, RemoveFin,
      AtWork, Sound, Locking, Finalizing, store, upload, disk, history
  <2>3. u \in tmps' =>
          /\ Len(file'[u]) >= Len(hashed'[u])
          /\ Len(file'[u]) = Len(hashed'[u]) => file'[u] = hashed'[u]
    BY <1>12 DEF OpenTar, Abort, Goto, CleanupTmp, RemoveTmp, RemoveFin,
      AtWork, Sound, store, upload, disk
  <2>4. u \in uploads' /\ ~Held(u)' => offset'[u] = Len(hashed'[u])
    BY <1>12, HeldStep DEF OpenTar, Abort, Goto, CleanupTmp, RemoveTmp,
      RemoveFin, AtWork, Sound, Locking, Finalizing, store, upload
  <2> QED
    BY <2>1, <2>2, <2>3, <2>4 DEF Sound
<1>13. ASSUME UntarEntry(h) PROVE AtWork(h)' /\ Sound(u)'
  <2>1. AtWork(h)'
    BY <1>13 DEF UntarEntry, AtWork, Locking, Finalizing, store, upload, disk
  <2>2. /\ u \in tmps' \cup fins' => u \in uploads' \cup orphaned'
        /\ u \notin tmps' => file'[u] = <<>>
    BY <1>13 DEF UntarEntry, AtWork, Sound, Locking, Finalizing, store,
      upload, disk, history
  <2>3. u \in tmps' =>
          /\ Len(file'[u]) >= Len(hashed'[u])
          /\ Len(file'[u]) = Len(hashed'[u]) => file'[u] = hashed'[u]
    BY <1>13 DEF UntarEntry, AtWork, Sound, store, upload, disk
  <2>4. u \in uploads' /\ ~Held(u)' => offset'[u] = Len(hashed'[u])
    BY <1>13, HeldStep DEF UntarEntry, AtWork, Sound, Locking, Finalizing,
      store, upload
  <2> QED
    BY <2>1, <2>2, <2>3, <2>4 DEF Sound
<1>14. ASSUME UntarRefuses(h) PROVE AtWork(h)' /\ Sound(u)'
  <2>1. AtWork(h)'
    BY <1>14 DEF UntarRefuses, Abort, Goto, CleanupTmp, RemoveTmp, RemoveFin,
      AtWork, Locking, Finalizing, store, upload, disk
  <2>2. /\ u \in tmps' \cup fins' => u \in uploads' \cup orphaned'
        /\ u \notin tmps' => file'[u] = <<>>
    BY <1>14 DEF UntarRefuses, Abort, Goto, CleanupTmp, RemoveTmp, RemoveFin,
      AtWork, Sound, Locking, Finalizing, store, upload, disk, history
  <2>3. u \in tmps' =>
          /\ Len(file'[u]) >= Len(hashed'[u])
          /\ Len(file'[u]) = Len(hashed'[u]) => file'[u] = hashed'[u]
    BY <1>14 DEF UntarRefuses, Abort, Goto, CleanupTmp, RemoveTmp, RemoveFin,
      AtWork, Sound, store, upload, disk
  <2>4. u \in uploads' /\ ~Held(u)' => offset'[u] = Len(hashed'[u])
    BY <1>14, HeldStep DEF UntarRefuses, Abort, Goto, CleanupTmp, RemoveTmp,
      RemoveFin, AtWork, Sound, Locking, Finalizing, store, upload
  <2> QED
    BY <2>1, <2>2, <2>3, <2>4 DEF Sound
<1>15. ASSUME UntarEnd(h) PROVE AtWork(h)' /\ Sound(u)'
  <2>1. AtWork(h)'
    BY <1>15 DEF UntarEnd, Goto, RemoveTmp, AtWork, Locking, Finalizing,
      store, upload, disk
  <2>2. /\ u \in tmps' \cup fins' => u \in uploads' \cup orphaned'
        /\ u \notin tmps' => file'[u] = <<>>
    BY <1>15 DEF UntarEnd, Goto, RemoveTmp, AtWork, Sound, Locking,
      Finalizing, store, upload, disk, history
  <2>3. u \in tmps' =>
          /\ Len(file'[u]) >= Len(hashed'[u])
          /\ Len(file'[u]) = Len(hashed'[u]) => file'[u] = hashed'[u]
    BY <1>15 DEF UntarEnd, Goto, RemoveTmp, AtWork, Sound, store, upload, disk
  <2>4. u \in uploads' /\ ~Held(u)' => offset'[u] = Len(hashed'[u])
    BY <1>15, HeldStep DEF UntarEnd, Goto, RemoveTmp, AtWork, Sound, Locking,
      Finalizing, store, upload
  <2> QED
    BY <2>1, <2>2, <2>3, <2>4 DEF Sound
<1>16. ASSUME Extract(h) PROVE AtWork(h)' /\ Sound(u)'
  <2>1. AtWork(h)'
    BY <1>16 DEF Extract, Abort, Goto, CleanupTmp, RemoveTmp, RemoveFin,
      AtWork, Locking, Finalizing, store, upload, disk
  <2>2. /\ u \in tmps' \cup fins' => u \in uploads' \cup orphaned'
        /\ u \notin tmps' => file'[u] = <<>>
    BY <1>16 DEF Extract, Abort, Goto, CleanupTmp, RemoveTmp, RemoveFin,
      AtWork, Sound, Locking, Finalizing, store, upload, disk, history
  <2>3. u \in tmps' =>
          /\ Len(file'[u]) >= Len(hashed'[u])
          /\ Len(file'[u]) = Len(hashed'[u]) => file'[u] = hashed'[u]
    BY <1>16 DEF Extract, Abort, Goto, CleanupTmp, RemoveTmp, RemoveFin,
      AtWork, Sound, store, upload, disk
  <2>4. u \in uploads' /\ ~Held(u)' => offset'[u] = Len(hashed'[u])
    BY <1>16, HeldStep DEF Extract, Abort, Goto, CleanupTmp, RemoveTmp,
      RemoveFin, AtWork, Sound, Locking, Finalizing, store, upload
  <2> QED
    BY <2>1, <2>2, <2>3, <2>4 DEF Sound
<1>17. ASSUME WriteMeta(h) PROVE AtWork(h)' /\ Sound(u)'
  <2>1. AtWork(h)'
    BY <1>17 DEF WriteMeta, Abort, Goto, CleanupTmp, RemoveTmp, RemoveFin,
      AtWork, Locking, Finalizing, store, upload, disk
  <2>2. /\ u \in tmps' \cup fins' => u \in uploads' \cup orphaned'
        /\ u \notin tmps' => file'[u] = <<>>
    BY <1>17 DEF WriteMeta, Abort, Goto, CleanupTmp, RemoveTmp, RemoveFin,
      AtWork, Sound, Locking, Finalizing, store, upload, disk, history
  <2>3. u \in tmps' =>
          /\ Len(file'[u]) >= Len(hashed'[u])
          /\ Len(file'[u]) = Len(hashed'[u]) => file'[u] = hashed'[u]
    BY <1>17 DEF WriteMeta, Abort, Goto, CleanupTmp, RemoveTmp, RemoveFin,
      AtWork, Sound, store, upload, disk
  <2>4. u \in uploads' /\ ~Held(u)' => offset'[u] = Len(hashed'[u])
    BY <1>17, HeldStep DEF WriteMeta, Abort, Goto, CleanupTmp, RemoveTmp,
      RemoveFin, AtWork, Sound, Locking, Finalizing, store, upload
  <2> QED
    BY <2>1, <2>2, <2>3, <2>4 DEF Sound
<1>18. ASSUME StatFinal(h) PROVE AtWork(h)' /\ Sound(u)'
  <2>1. AtWork(h)'
    BY <1>18 DEF StatFinal, Discard, Goto, RemoveFin, AtWork, Locking,
      Finalizing, store, upload, disk
  <2>2. /\ u \in tmps' \cup fins' => u \in uploads' \cup orphaned'
        /\ u \notin tmps' => file'[u] = <<>>
    BY <1>18 DEF StatFinal, Discard, Goto, RemoveFin, AtWork, Sound, Locking,
      Finalizing, store, upload, disk, history
  <2>3. u \in tmps' =>
          /\ Len(file'[u]) >= Len(hashed'[u])
          /\ Len(file'[u]) = Len(hashed'[u]) => file'[u] = hashed'[u]
    BY <1>18 DEF StatFinal, Discard, Goto, RemoveFin, AtWork, Sound, store,
      upload, disk
  <2>4. u \in uploads' /\ ~Held(u)' => offset'[u] = Len(hashed'[u])
    BY <1>18, HeldStep DEF StatFinal, Discard, Goto, RemoveFin, AtWork, Sound,
      Locking, Finalizing, store, upload
  <2> QED
    BY <2>1, <2>2, <2>3, <2>4 DEF Sound
<1>19. ASSUME Rename(h) PROVE AtWork(h)' /\ Sound(u)'
  <2>1. AtWork(h)'
    BY <1>19 DEF Rename, Discard, Goto, RemoveFin, CanRename, AtWork, Locking,
      Finalizing, store, upload, disk
  <2>2. /\ u \in tmps' \cup fins' => u \in uploads' \cup orphaned'
        /\ u \notin tmps' => file'[u] = <<>>
    BY <1>19 DEF Rename, Discard, Goto, RemoveFin, CanRename, AtWork, Sound,
      Locking, Finalizing, store, upload, disk, history
  <2>3. u \in tmps' =>
          /\ Len(file'[u]) >= Len(hashed'[u])
          /\ Len(file'[u]) = Len(hashed'[u]) => file'[u] = hashed'[u]
    BY <1>19 DEF Rename, Discard, Goto, RemoveFin, CanRename, AtWork, Sound,
      store, upload, disk
  <2>4. u \in uploads' /\ ~Held(u)' => offset'[u] = Len(hashed'[u])
    BY <1>19, HeldStep DEF Rename, Discard, Goto, RemoveFin, CanRename,
      AtWork, Sound, Locking, Finalizing, store, upload
  <2> QED
    BY <2>1, <2>2, <2>3, <2>4 DEF Sound
<1>20. ASSUME FinalizeFails(h) PROVE AtWork(h)' /\ Sound(u)'
  <2>1. AtWork(h)'
    BY <1>20 DEF FinalizeFails, Abort, Discard, Goto, CleanupTmp, RemoveTmp,
      RemoveFin, AtWork, Locking, Finalizing, store, upload, disk
  <2>2. /\ u \in tmps' \cup fins' => u \in uploads' \cup orphaned'
        /\ u \notin tmps' => file'[u] = <<>>
    BY <1>20 DEF FinalizeFails, Abort, Discard, Goto, CleanupTmp, RemoveTmp,
      RemoveFin, AtWork, Sound, Locking, Finalizing, store, upload, disk,
      history
  <2>3. u \in tmps' =>
          /\ Len(file'[u]) >= Len(hashed'[u])
          /\ Len(file'[u]) = Len(hashed'[u]) => file'[u] = hashed'[u]
    BY <1>20 DEF FinalizeFails, Abort, Discard, Goto, CleanupTmp, RemoveTmp,
      RemoveFin, AtWork, Sound, store, upload, disk
  <2>4. u \in uploads' /\ ~Held(u)' => offset'[u] = Len(hashed'[u])
    <3>1. pc'[h] \in Locking
      BY <1>20 DEF FinalizeFails, Abort, Discard, Goto, Locking, Finalizing
    <3> QED
      BY <3>1, HeldStep
  <2> QED
    BY <2>1, <2>2, <2>3, <2>4 DEF Sound
<1>21. ASSUME Respond(h) PROVE AtWork(h)' /\ Sound(u)'
  <2>1. AtWork(h)'
    BY <1>21 DEF Respond, Answer, Remove, AtWork, Locking, Finalizing, store,
      upload, disk
  <2>2. /\ u \in tmps' \cup fins' => u \in uploads' \cup orphaned'
        /\ u \notin tmps' => file'[u] = <<>>
    BY <1>21 DEF Respond, Answer, Remove, AtWork, Sound, Locking, Finalizing,
      store, upload, disk, history
  <2>3. u \in tmps' =>
          /\ Len(file'[u]) >= Len(hashed'[u])
          /\ Len(file'[u]) = Len(hashed'[u]) => file'[u] = hashed'[u]
    BY <1>21 DEF Respond, Answer, Remove, AtWork, Sound, store, upload, disk
  <2>4. u \in uploads' /\ ~Held(u)' => offset'[u] = Len(hashed'[u])
    BY <1>21, HeldStep DEF Respond, Answer, Remove, AtWork, Sound, Locking,
      Finalizing, store, upload
  <2> QED
    BY <2>1, <2>2, <2>3, <2>4 DEF Sound
<1>22. ASSUME Delete(h) PROVE AtWork(h)' /\ Sound(u)'
  <2>1. AtWork(h)'
    BY <1>22 DEF Delete, Answer, Remove, CleanupTmp, RemoveTmp, RemoveFin,
      AtWork, Locking, Finalizing, store, upload, disk
  <2>2. /\ u \in tmps' \cup fins' => u \in uploads' \cup orphaned'
        /\ u \notin tmps' => file'[u] = <<>>
    BY <1>22 DEF Delete, Answer, Remove, CleanupTmp, RemoveTmp, RemoveFin,
      AtWork, Sound, Locking, Finalizing, store, upload, disk, history
  <2>3. u \in tmps' =>
          /\ Len(file'[u]) >= Len(hashed'[u])
          /\ Len(file'[u]) = Len(hashed'[u]) => file'[u] = hashed'[u]
    BY <1>22 DEF Delete, Answer, Remove, CleanupTmp, RemoveTmp, RemoveFin,
      AtWork, Sound, store, upload, disk
  <2>4. u \in uploads' /\ ~Held(u)' => offset'[u] = Len(hashed'[u])
    BY <1>22, HeldStep DEF Delete, Answer, Remove, CleanupTmp, RemoveTmp,
      RemoveFin, AtWork, Sound, Locking, Finalizing, store, upload
  <2> QED
    BY <2>1, <2>2, <2>3, <2>4 DEF Sound
<1> QED
  BY <1>1, <1>2, <1>3, <1>4, <1>5, <1>6, <1>7, <1>8, <1>9, <1>10, <1>11,
    <1>12, <1>13, <1>14, <1>15, <1>16, <1>17, <1>18, <1>19, <1>20, <1>21, <1>22
    DEF HandlerStep

LEMMA StoreStep ==
  ASSUME TypeInv, StoreInv, NEW h \in Handlers, HandlerStep(h)
  PROVE  StoreInv'
<1>1. Local(h) /\ Own(h)
  BY LocalStep, OwnStep
<1>2. PICK v \in Ids : v = at[h]
  BY <1>1, Serving DEF Own
<1>3. AtWork(h)' /\ Sound(v)'
  BY <1>2, StoreOwn, TypesStep
<1>4. ASSUME NEW g \in Handlers \ {h} PROVE AtWork(g)'
  <2>1. pc'[g] = pc[g] /\ at'[g] = at[g] /\ AtWork(g)
    BY <1>1 DEF Local, StoreInv
  <2>2. CASE pc[g] \in Locking \cup {"create"}
    <3>1. at[g] \in Ids
      BY <2>2, Serving DEF Locking, Finalizing
    <3>2. CASE at[g] # at[h]
      BY <1>1, <2>1, <3>1, <3>2 DEF Local, AtWork
    <3>3. CASE UNCHANGED <<upload, store, disk>>
      BY <2>1, <3>3 DEF AtWork, upload, store, disk
    <3> QED
      BY <2>2, <3>2, <3>3, Apart DEF StoreInv
  <2>3. CASE pc[g] \notin Locking \cup {"create"}
    BY <2>1, <2>3 DEF AtWork, Locking, Finalizing
  <2> QED
    BY <2>2, <2>3
<1>5. ASSUME NEW u \in Ids, u # v PROVE Sound(u)'
  <2>1. Sound(u) /\ (Held(u)' <=> Held(u))
    BY <1>2, <1>5, HeldStep DEF StoreInv
  <2> QED
    BY <1>1, <1>2, <1>5, <2>1 DEF Local, Sound
<1> QED
  BY <1>3, <1>4, <1>5, ExclusiveStep DEF StoreInv

LEMMA StoreOther ==
  ASSUME TypeInv, StoreInv, Others
  PROVE  StoreInv'
<1>1. ASSUME NEW h \in Handlers, Request(h) PROVE StoreInv'
  <2>1. /\ UNCHANGED <<offset, hashed, store, disk, history>>
        /\ pc[h] = "idle" /\ pc'[h] \in {"post", "lock", "delete"}
        /\ \A g \in Handlers \ {h} : pc'[g] = pc[g] /\ at'[g] = at[g]
    BY <1>1 DEF Request, Preflight, Get, upload, TypeInv, TypeOK, HandlerType
  <2>2. \A g \in Handlers : pc[g] = "create" => at[g] # at'[h]
    <3>1. ASSUME NEW u \in Ids, NEW i \in Offers, Preflight(h, u, i)
          PROVE  \A g \in Handlers : pc[g] = "create" => at[g] # at'[h]
      BY <3>1, UnusedNotInfo DEF Preflight, TypeInv, TypeOK, HandlerType, Placed
    <3>2. ASSUME NEW u \in Ids, NEW step, Get(h, u, step)
          PROVE  \A g \in Handlers : pc[g] = "create" => at[g] # at'[h]
      BY <3>2 DEF Get, TypeInv, TypeOK, HandlerType
    <3> QED
      BY <1>1, <3>1, <3>2 DEF Request
  <2>3. Exclusive'
    BY <2>1, <2>2 DEF StoreInv, Exclusive, Locking, Finalizing
  <2>4. \A u \in Ids : Held(u)' <=> Held(u)
    BY <2>1 DEF Held, Locking, Finalizing
  <2>5. \A u \in Ids : Sound(u)'
    BY <2>1, <2>4 DEF StoreInv, Sound, store, disk, history
  <2>6. ASSUME NEW g \in Handlers PROVE AtWork(g)'
    BY <2>1 DEF StoreInv, AtWork, Locking, Finalizing, store, disk
  <2> QED
    BY <2>3, <2>5, <2>6 DEF StoreInv
<1>2. CASE Cleanup
  <2>1. UNCHANGED <<handler, upload, store, history>>
        /\ tmps' \subseteq tmps /\ fins' \subseteq fins
    BY <1>2 DEF Cleanup, TmpAges, FinAges, ReapPick, Reap, RemoveTmp, RemoveFin, disk
  <2>2. \A u \in Ids :
          IF u \in tmps' THEN file'[u] = file[u] ELSE file'[u] = file[u] \/ file'[u] = <<>>
    BY <1>2 DEF Cleanup, TmpAges, FinAges, ReapPick, Reap, RemoveTmp, disk,
      TypeInv, TypeOK, DiskType
  <2>3. \A u \in tmps \ tmps' : file'[u] = <<>>
    BY <1>2 DEF Cleanup, TmpAges, FinAges, ReapPick, Reap, RemoveTmp, disk,
      TypeInv, TypeOK, DiskType
  <2>4. Exclusive' /\ \A g \in Handlers : AtWork(g)'
    BY <2>1 DEF StoreInv, Exclusive, AtWork, handler, store, upload
  <2>5. \A u \in Ids : Held(u)' <=> Held(u)
    BY <2>1 DEF Held, handler
  <2>6. ASSUME NEW u \in Ids PROVE Sound(u)'
    BY <2>1, <2>2, <2>3, <2>5 DEF StoreInv, Sound, upload, store, history
  <2> QED
    BY <2>4, <2>6 DEF StoreInv
<1>3. ASSUME NEW a \in ArchiveIds, Import(a) PROVE StoreInv'
  BY <1>3 DEF Import, StoreInv, Exclusive, AtWork, Sound, Held, handler, upload,
    store, disk, history
<1>4. CASE Crash
  <2>1. \A g \in Handlers : pc'[g] = "idle"
    BY <1>4 DEF Crash
  <2>2. Exclusive' /\ \A g \in Handlers : AtWork(g)'
    BY <2>1 DEF Exclusive, AtWork, Locking, Finalizing
  <2>3. uploads' = {} /\ UNCHANGED <<tmps, file, fins, hashed>>
        /\ orphaned' = orphaned \cup {u \in Ids : info[u] # Unused}
    BY <1>4 DEF Crash, upload, disk
  <2>4. ASSUME NEW u \in Ids PROVE Sound(u)'
    <3>1. u \in tmps \cup fins => info[u] # Unused
      BY DEF TypeInv, Given, Fresh
    <3> QED
      BY <2>3, <3>1 DEF StoreInv, Sound
  <2> QED
    BY <2>2, <2>4 DEF StoreInv
<1> QED
  BY <1>1, <1>2, <1>3, <1>4 DEF Others

LEMMA InitStoreInv == Init => StoreInv
<1> SUFFICES ASSUME Init PROVE StoreInv
  OBVIOUS
<1>1. \A h \in Handlers : pc[h] = "idle"
  BY DEF Init
<1>2. Exclusive /\ \A h \in Handlers : AtWork(h)
  BY <1>1 DEF Exclusive, AtWork, Locking, Finalizing
<1>3. \A u \in Ids : Sound(u)
  BY DEF Init, Sound
<1> QED
  BY <1>2, <1>3 DEF StoreInv

LEMMA NextStoreInv == TypeInv /\ StoreInv /\ [Next]_vars => StoreInv'
<1> SUFFICES ASSUME TypeInv, StoreInv, [Next]_vars PROVE StoreInv'
  OBVIOUS
<1>1. CASE UNCHANGED vars
  BY <1>1 DEF StoreInv, Exclusive, AtWork, Sound, Held, vars, handler, upload,
    store, disk, history
<1> QED
  BY <1>1, NextCases, StoreStep, StoreOther

\* An upload that has ended leaves no file and no finalize directory, unless
\* the process died under it.
THEOREM NothingLeft == Spec => []NoLeftovers
<1>1. TypeInv /\ StoreInv => NoLeftovers
  BY DEF TypeInv, TypeOK, DiskType, StoreInv, Sound, NoLeftovers
<1> QED
  BY <1>1, InitTypeInv, NextTypeInv, InitStoreInv, NextStoreInv, PTL DEF Spec

\* The offset a client resumes at is where the hash stands, and the file has
\* the same blocks or is longer.
THEOREM OffsetHonest == Spec => []Resumable
<1>1. TypeInv /\ StoreInv => Resumable
  BY DEF TypeInv, TypeOK, UploadType, DiskType, StoreInv, Sound, Resumable
<1> QED
  BY <1>1, InitTypeInv, NextTypeInv, InitStoreInv, NextStoreInv, PTL DEF Spec

-----------------------------------------------------------------------------
(* The content of an upload on its way to archives/, when no Untar takes    *)
(* longer than FinalizeAge.                                                 *)

LEMMA PartsStart == ASSUME NEW c \in Seq(Blocks) PROVE Parts(<<>>, c, c)
BY DEF Parts

LEMMA PartsStep ==
  ASSUME NEW t \in Seq(Blocks), NEW r \in Seq(Blocks), NEW c \in Seq(Blocks),
         Parts(t, r, c), r # <<>>
  PROVE  Parts(Append(t, Head(r)), Tail(r), c)
<1> DEFINE t2 == Append(t, Head(r))
           r2 == Tail(r)
<1>1. /\ Len(t2) = Len(t) + 1 /\ Len(r2) = Len(r) - 1 /\ Len(r) > 0
      /\ Len(t) \in Nat /\ Len(r) \in Nat /\ Len(c) \in Nat
  OBVIOUS
<1>2. ASSUME NEW i \in 1..Len(t2) PROVE t2[i] = c[i]
  <2>1. CASE i = Len(t) + 1
    <3>1. t2[i] = r[1]
      BY <2>1, <1>1
    <3> QED
      BY <1>1, <2>1, <3>1 DEF Parts
  <2>2. CASE i # Len(t) + 1
    <3>1. i \in 1..Len(t) /\ t2[i] = t[i]
      BY <1>1, <2>2
    <3> QED
      BY <3>1 DEF Parts
  <2> QED
    BY <2>1, <2>2
<1>3. ASSUME NEW i \in 1..Len(r2) PROVE r2[i] = c[Len(t2) + i]
  <2>1. i + 1 \in 1..Len(r) /\ r2[i] = r[i + 1]
    BY <1>1
  <2>2. r[i + 1] = c[Len(t) + (i + 1)] /\ Len(t) + (i + 1) = Len(t2) + i
    BY <1>1, <2>1 DEF Parts
  <2> QED
    BY <2>1, <2>2
<1>4. Len(t2) + Len(r2) = Len(c)
  BY <1>1 DEF Parts
<1> QED
  BY <1>2, <1>3, <1>4 DEF Parts

LEMMA PartsEnd ==
  ASSUME NEW t \in Seq(Blocks), NEW c \in Seq(Blocks), Parts(t, <<>>, c)
  PROVE  t = c
<1>1. Len(t) = Len(c)
  BY DEF Parts
<1>2. \A i \in 1..Len(t) : t[i] = c[i]
  BY DEF Parts
<1> QED
  BY <1>1, <1>2, SeqEqual

\* Where handler h leaves blocks in the finalize directory of its upload, it
\* goes on with the finalize.
Tidy(h) ==
  \/ tree'[at[h]] = <<>>
  \/ tree'[at[h]] = tree[at[h]] /\ pc[h] \notin Staging
  \/ pc'[h] \in Staging /\ at'[h] = at[h]

LEMMA TidyStep ==
  ASSUME TypeInv, NEW h \in Handlers, HandlerStep(h)
  PROVE  Tidy(h)
<1> USE Serving DEF TypeInv, TypeOK, HandlerType, DiskType, Tidy, Staging, Finalizing, disk
<1>1. ASSUME Create(h) PROVE Tidy(h)
  BY <1>1 DEF Create, Goto
<1>2. ASSUME CreateRefuses(h) PROVE Tidy(h)
  BY <1>2 DEF CreateRefuses, Answer
<1>3. ASSUME CreateTmp(h) PROVE Tidy(h)
  BY <1>3 DEF CreateTmp, Answer
<1>4. ASSUME CreateTmpFails(h) PROVE Tidy(h)
  BY <1>4 DEF CreateTmpFails, Answer
<1>5. ASSUME NEW n, PatchLock(h, n) PROVE Tidy(h)
  BY <1>5 DEF PatchLock, Goto, Answer
<1>6. ASSUME NEW b \in Blocks, PatchCopy(h, b) PROVE Tidy(h)
  BY <1>6 DEF PatchCopy, Write
<1>7. ASSUME NEW b \in Blocks, PatchShort(h, b) PROVE Tidy(h)
  BY <1>7 DEF PatchShort, Write, Answer
<1>8. ASSUME PatchCut(h) PROVE Tidy(h)
  BY <1>8 DEF PatchCut, Answer
<1>9. ASSUME PatchEnd(h) PROVE Tidy(h)
  BY <1>9 DEF PatchEnd, Goto, Answer
<1>10. ASSUME Check(h) PROVE Tidy(h)
  BY <1>10 DEF Check, Abort, Goto, CleanupTmp, RemoveFin
<1>11. ASSUME MoveRaw(h) PROVE Tidy(h)
  BY <1>11 DEF MoveRaw, Abort, Goto, CleanupTmp, RemoveFin
<1>12. ASSUME OpenTar(h) PROVE Tidy(h)
  BY <1>12 DEF OpenTar, Abort, Goto, CleanupTmp, RemoveFin
<1>13. ASSUME UntarEntry(h) PROVE Tidy(h)
  BY <1>13 DEF UntarEntry
<1>14. ASSUME UntarRefuses(h) PROVE Tidy(h)
  BY <1>14 DEF UntarRefuses, Abort, Goto, CleanupTmp, RemoveFin
<1>15. ASSUME UntarEnd(h) PROVE Tidy(h)
  BY <1>15 DEF UntarEnd, Goto
<1>16. ASSUME Extract(h) PROVE Tidy(h)
  BY <1>16 DEF Extract, Abort, Goto, CleanupTmp, RemoveFin
<1>17. ASSUME WriteMeta(h) PROVE Tidy(h)
  BY <1>17 DEF WriteMeta, Abort, Goto, CleanupTmp, RemoveFin
<1>18. ASSUME StatFinal(h) PROVE Tidy(h)
  BY <1>18 DEF StatFinal, Discard, Goto, RemoveFin
<1>19. ASSUME Rename(h) PROVE Tidy(h)
  BY <1>19 DEF Rename, Discard, Goto, RemoveFin
<1>20. ASSUME FinalizeFails(h) PROVE Tidy(h)
  BY <1>20 DEF FinalizeFails, Abort, Discard, Goto, CleanupTmp, RemoveFin
<1>21. ASSUME Respond(h) PROVE Tidy(h)
  BY <1>21 DEF Respond, Answer
<1>22. ASSUME Delete(h) PROVE Tidy(h)
  BY <1>22 DEF Delete, Answer, CleanupTmp, RemoveFin
<1> QED
  BY <1>1, <1>2, <1>3, <1>4, <1>5, <1>6, <1>7, <1>8, <1>9, <1>10, <1>11,
    <1>12, <1>13, <1>14, <1>15, <1>16, <1>17, <1>18, <1>19, <1>20, <1>21,
    <1>22 DEF HandlerStep

\* What was published stays published, or an importer has it.
LEMMA LandedStep ==
  ASSUME TypeInv, NEW h \in Handlers, HandlerStep(h),
         NEW u \in Ids, info[u] \in Info, info'[u] = info[u], Landed(u)
  PROVE  Landed(u)'
<1>1. Local(h)
  BY LocalStep
<1>2. CASE u \in done
  BY <1>1, <1>2 DEF Local, Landed
<1>3. CASE u \notin done
  <2>1. archive[info[u].aid] # Absent /\ info[u].aid \in ArchiveIds
    <3>1. "src" \in DOMAIN archive[info[u].aid] /\ DOMAIN Absent = {"from"}
      BY <1>3 DEF Landed, Absent
    <3> QED
      BY <3>1 DEF Info
  <2>2. archive'[info[u].aid] = archive[info[u].aid]
    BY <1>1, <2>1 DEF Local, Rename, CanRename, TypeInv, TypeOK, DiskType
  <2> QED
    BY <1>3, <2>2 DEF Landed
<1> QED
  BY <1>2, <1>3

\* The step of a handler and the finalize it is in.
LEMMA ProgressOwn ==
  ASSUME TypeInv, StoreInv, DataInv, NEW h \in Handlers, HandlerStep(h),
         NEW u \in Ids, u = at[h], info[u] \in Info, u \notin orphaned
  PROVE  Progress(h)'
<1> USE DEF TypeInv, TypeOK, HandlerType, UploadType, DiskType, Finalizing
<1> DEFINE Later == {"move", "open", "untar", "extract", "meta", "stat", "rename", "ok"}
<1>1. pc'[h] \notin Later => Progress(h)'
  BY DEF Progress
<1>2. info[u].claim \in Seq(Blocks) /\ Progress(h)
  BY DEF DataInv, Info
<1>3. ASSUME Check(h), pc'[h] \in Later PROVE Progress(h)'
  <2>1. /\ Verified(u) /\ pc[h] = "check" /\ pc'[h] \in {"move", "open"}
        /\ at' = at /\ UNCHANGED <<info, file, tree, tmps>>
    BY <1>3 DEF Check, Abort, Goto, upload
  <2>2. \A g \in Handlers : at[g] = u => pc[g] \notin Staging
    BY <2>1 DEF StoreInv, Exclusive, Staging, Locking
  <2>3. tree[u] = <<>>
    BY <2>2 DEF DataInv, Unstaged
  <2>4. file[u] = info[u].claim
    BY <2>1 DEF Verified, StoreInv, Sound
  <2> QED
    BY <2>1, <2>3, <2>4 DEF Progress
<1>4. ASSUME MoveRaw(h), pc'[h] \in Later PROVE Progress(h)'
  <2>1. /\ pc[h] = "move" /\ u \in tmps /\ pc'[h] = "meta" /\ at' = at
        /\ info' = info /\ tree'[u] = file[u]
    BY <1>4 DEF MoveRaw, Abort, Goto, upload
  <2> QED
    BY <1>2, <2>1 DEF Progress
<1>5. ASSUME OpenTar(h), pc'[h] \in Later PROVE Progress(h)'
  <2>1. /\ pc[h] = "open" /\ u \in tmps /\ pc'[h] = "untar" /\ at' = at
        /\ info' = info /\ tree' = tree /\ rest'[h] = file[u]
    BY <1>5 DEF OpenTar, Abort, Goto, upload, disk
  <2>2. Parts(<<>>, info[u].claim, info[u].claim)
    BY <1>2, PartsStart
  <2> QED
    BY <1>2, <2>1, <2>2 DEF Progress
<1>6. ASSUME UntarEntry(h) PROVE Progress(h)'
  <2>1. /\ pc[h] = "untar" /\ pc' = pc /\ at' = at /\ info' = info
        /\ rest[h] # <<>> /\ rest[h] \in Seq(Blocks) /\ tree[u] \in Seq(Blocks)
        /\ tree'[u] = Append(tree[u], Head(rest[h])) /\ rest'[h] = Tail(rest[h])
    BY <1>6 DEF UntarEntry, upload
  <2>2. Parts(tree[u], rest[h], info[u].claim)
    BY <1>2, <2>1 DEF Progress
  <2>3. Parts(tree'[u], rest'[h], info[u].claim)
    BY <1>2, <2>1, <2>2, PartsStep
  <2> QED
    BY <2>1, <2>3 DEF Progress
<1>7. ASSUME UntarEnd(h) PROVE Progress(h)'
  <2>1. /\ pc[h] = "untar" /\ pc'[h] \in {"extract", "meta"} /\ at' = at
        /\ info' = info /\ tree' = tree /\ rest[h] = <<>>
        /\ tree[u] \in Seq(Blocks)
    BY <1>7 DEF UntarEnd, Goto, upload
  <2>2. Parts(tree[u], <<>>, info[u].claim)
    BY <1>2, <2>1 DEF Progress
  <2>3. tree[u] = info[u].claim
    BY <1>2, <2>1, <2>2, PartsEnd
  <2> QED
    BY <2>1, <2>3 DEF Progress
<1>8. ASSUME Extract(h) \/ WriteMeta(h) \/ StatFinal(h), pc'[h] \in Later
       PROVE  Progress(h)'
  <2>1. /\ pc[h] \in {"extract", "meta", "stat"}
        /\ pc'[h] \in {"meta", "stat", "rename"} /\ at' = at
        /\ info' = info /\ tree' = tree
    BY <1>8 DEF Extract, WriteMeta, StatFinal, Abort, Discard, Goto, upload, disk
  <2> QED
    BY <1>2, <2>1 DEF Progress
<1>9. ASSUME Rename(h), pc'[h] \in Later PROVE Progress(h)'
  <2>1. /\ pc[h] = "rename" /\ pc'[h] = "ok" /\ at' = at /\ info' = info
        /\ archive'[info[u].aid] =
             [from |-> u, src |-> info[u].src, claim |-> info[u].claim,
              data |-> tree[u]]
    BY <1>9 DEF Rename, Discard, Goto, upload, Info
  <2> QED
    BY <1>2, <2>1 DEF Progress, Landed
<1>10. ASSUME Create(h) \/ CreateRefuses(h) \/ CreateTmp(h) \/ CreateTmpFails(h)
       PROVE  pc'[h] \notin Later
  BY <1>10 DEF Create, CreateRefuses, CreateTmp, CreateTmpFails, Goto, Answer
<1>11. ASSUME NEW b \in Blocks, PatchCopy(h, b) \/ PatchShort(h, b)
       PROVE  pc'[h] \notin Later
  BY <1>11 DEF PatchCopy, PatchShort, Answer
<1>12. ASSUME NEW n, PatchLock(h, n) PROVE pc'[h] \notin Later
  BY <1>12 DEF PatchLock, Goto, Answer
<1>13. ASSUME PatchCut(h) \/ PatchEnd(h) \/ Respond(h) \/ Delete(h)
       PROVE  pc'[h] \notin Later
  BY <1>13 DEF PatchCut, PatchEnd, Respond, Delete, Goto, Answer
<1>14. ASSUME UntarRefuses(h) \/ FinalizeFails(h) PROVE pc'[h] \notin Later
  BY <1>14 DEF UntarRefuses, FinalizeFails, Abort, Discard, Goto
<1> QED
  BY <1>1, <1>3, <1>4, <1>5, <1>6, <1>7, <1>8, <1>9, <1>10, <1>11,
    <1>12, <1>13, <1>14 DEF HandlerStep

LEMMA DataStep ==
  ASSUME TypeInv, StoreInv, DataInv, NEW h \in Handlers, HandlerStep(h)
  PROVE  DataInv'
<1>1. Local(h) /\ Own(h) /\ Tidy(h)
  BY LocalStep, OwnStep, TidyStep
<1>2. PICK v \in Ids : v = at[h] /\ info[v] \in Info /\ v \notin orphaned
  BY <1>1, Serving DEF Own, TypeInv, Placed
<1>3. Orphans'
  BY <1>1 DEF Local, DataInv, Orphans
<1>4. PublishedIntact'
  <2>1. CASE archive' = archive
    BY <2>1 DEF DataInv, PublishedIntact
  <2>2. CASE pc[h] = "rename" /\ CanRename(h) /\ Rename(h)
    <3>1. tree[v] = info[v].claim
      BY <1>2, <2>2 DEF DataInv, Progress
    <3>2. archive' = [archive EXCEPT ![info[v].aid] =
            [from |-> v, src |-> info[v].src, claim |-> info[v].claim,
             data |-> tree[v]]]
      BY <1>2, <2>2 DEF Rename
    <3> QED
      BY <3>1, <3>2 DEF DataInv, PublishedIntact, TypeInv, TypeOK, DiskType
  <2> QED
    BY <1>1, <2>1, <2>2 DEF Local
<1>5. ASSUME NEW u \in Ids, u # v \/ pc[h] # "post" PROVE info'[u] = info[u]
  BY <1>1, <1>2, <1>5 DEF Local, Own, CreateRefuses
<1>6. Delivered'
  <2>1. ASSUME NEW u \in told, u \in Ids PROVE Landed(u)'
    <3>1. info[u] # Unused /\ info[u] \in Info
      BY <2>1 DEF TypeInv, Given, Fresh, TypeOK, UploadType
    <3>2. u # v \/ pc[h] # "post"
      BY <1>2, <2>1 DEF TypeInv, Placed, Fresh
    <3> QED
      BY <1>5, <2>1, <3>1, <3>2, LandedStep DEF DataInv, Delivered
  <2>2. pc[h] = "ok" => Landed(v)'
    BY <1>2, <1>5, LandedStep DEF DataInv, Progress
  <2>3. told' \subseteq Ids
    BY TypesStep DEF TypeOK
  <2>4. ASSUME NEW u \in told' PROVE Landed(u)'
    BY <1>1, <1>2, <2>1, <2>2, <2>3, <2>4 DEF Local, Own
  <2> QED
    BY <2>4 DEF Delivered
<1>7. Progress(h)'
  BY <1>2, ProgressOwn
<1>8. ASSUME NEW g \in Handlers \ {h} PROVE Progress(g)'
  <2>1. pc'[g] = pc[g] /\ at'[g] = at[g] /\ rest'[g] = rest[g] /\ Progress(g)
    BY <1>1 DEF Local, DataInv
  <2>2. CASE pc[g] \in Locking
    <3>1. PICK u \in Ids : u = at[g] /\ info[u] \in Info
      BY <2>2, Serving DEF Locking, Finalizing
    <3>2. CASE u # v
      <4>1. /\ info'[u] = info[u] /\ file'[u] = file[u] /\ tree'[u] = tree[u]
            /\ u \in tmps' <=> u \in tmps
        BY <1>1, <1>2, <3>2 DEF Local
      <4>2. pc[g] = "ok" => Landed(u)'
        BY <2>1, <3>1, <4>1, LandedStep DEF Progress
      <4> QED
        BY <2>1, <3>1, <4>1, <4>2 DEF Progress
    <3>3. CASE UNCHANGED <<upload, store, disk, archive, ages, history>>
      <4>1. UNCHANGED <<info, file, tree, tmps, archive, done>>
        BY <1>1, <3>3 DEF upload, disk, Local
      <4> QED
        BY <2>1, <4>1 DEF Progress, Landed
    <3> QED
      BY <1>2, <2>2, <3>1, <3>2, <3>3, Apart DEF StoreInv
  <2>3. CASE pc[g] \notin Locking
    BY <2>1, <2>3 DEF Progress, Locking, Finalizing
  <2> QED
    BY <2>2, <2>3
<1>9. ASSUME NEW u \in Ids PROVE Unstaged(u)'
  <2>1. \A g \in Handlers \ {h} : pc'[g] = pc[g] /\ at'[g] = at[g]
    BY <1>1 DEF Local
  <2>2. CASE u # v
    <3>1. at'[h] # u /\ at[h] # u /\ tree'[u] = tree[u] /\ orphaned' = orphaned
      BY <1>1, <1>2, <2>2, ArchivesAssumption DEF Local, Own
    <3> QED
      BY <2>1, <3>1 DEF DataInv, Unstaged
  <2>3. CASE u = v
    BY <1>1, <1>2, <2>1, <2>3 DEF DataInv, Unstaged, Tidy, Local
  <2> QED
    BY <2>2, <2>3
<1> QED
  BY <1>3, <1>4, <1>6, <1>7, <1>8, <1>9 DEF DataInv

LEMMA DataOther ==
  ASSUME ~SlowUntar, TypeInv, DataInv, Others
  PROVE  DataInv'
<1> USE DEF TypeInv, TypeOK, HandlerType, UploadType, DiskType
<1>a. \A u \in told : u \in Ids /\ info[u] \in Info
  BY DEF Given, Fresh
<1>1. ASSUME NEW h \in Handlers, Request(h) PROVE DataInv'
  <2>1. /\ UNCHANGED <<disk, archive, done, ages, history, rest>>
        /\ pc[h] = "idle" /\ pc'[h] \in {"post", "lock", "delete"}
        /\ \A g \in Handlers \ {h} : pc'[g] = pc[g] /\ at'[g] = at[g]
    BY <1>1 DEF Request, Preflight, Get
  <2>2. \A u \in Ids : info[u] # Unused => info'[u] = info[u]
    BY <1>1 DEF Request, Preflight, Get, upload
  <2>3. ASSUME NEW u \in Ids, info[u] \in Info PROVE info'[u] = info[u]
    BY <2>2, <2>3, UnusedNotInfo
  <2>4. Orphans' /\ PublishedIntact'
    BY <2>1 DEF DataInv, Orphans, PublishedIntact, ages, history
  <2>5. Delivered'
    BY <1>a, <2>1, <2>3 DEF DataInv, Delivered, Landed, history
  <2>6. Progress(h)'
    BY <2>1 DEF Progress
  <2>7. ASSUME NEW g \in Handlers \ {h} PROVE Progress(g)'
    <3>1. pc[g] # "idle" => at[g] \in Ids /\ info'[at[g]] = info[at[g]]
      BY <2>3, Serving
    <3> QED
      BY <2>1, <3>1 DEF DataInv, Progress, Landed, disk
  <2>8. \A u \in Ids : Unstaged(u)'
    <3>1. \A u \in Ids : tree'[u] = tree[u] /\ orphaned' = orphaned
      BY <2>1 DEF disk, history
    <3>2. pc[h] \notin Staging /\ pc'[h] \notin Staging
      BY <2>1 DEF Staging, Finalizing
    <3>3. ASSUME NEW u \in Ids, NEW g \in Handlers, at[g] = u, pc[g] \in Staging
          PROVE  at'[g] = u /\ pc'[g] \in Staging
      BY <2>1, <3>2, <3>3
    <3>4. ASSUME NEW u \in Ids PROVE Unstaged(u)'
      BY <3>1, <3>3 DEF DataInv, Unstaged
    <3> QED
      BY <3>4
  <2> QED
    BY <2>4, <2>5, <2>6, <2>7, <2>8 DEF DataInv
<1>2. CASE Cleanup
  <2>1. UNCHANGED <<handler, upload, store, archive, done, history>>
    BY <1>2 DEF Cleanup, TmpAges, FinAges, ReapPick, Reap
  <2>2. Orphans'
    BY <1>2 DEF DataInv, Orphans, Cleanup, TmpAges, FinAges, ReapPick, Reap,
      RemoveTmp, RemoveFin, history, Nothing
  <2>3. \A u \in Ids : tree'[u] = <<>> \/ tree'[u] = tree[u]
    BY <1>2 DEF Cleanup, TmpAges, FinAges, ReapPick, Reap, RemoveTmp,
      RemoveFin, disk
  <2>4. \A u \in Ids \ orphaned : tree'[u] = tree[u]
    BY <1>2 DEF DataInv, Orphans, Cleanup, TmpAges, FinAges, ReapPick, Reap,
      RemoveTmp, RemoveFin, disk
  <2>5. \A u \in tmps' : u \in tmps /\ file'[u] = file[u]
    BY <1>2 DEF Cleanup, TmpAges, FinAges, ReapPick, Reap, RemoveTmp, disk
  <2>6. ASSUME NEW h \in Handlers PROVE Progress(h)'
    <3>1. pc[h] # "idle" => at[h] \in Ids \ orphaned
      BY DEF Placed
    <3> QED
      BY <2>1, <2>4, <2>5, <3>1 DEF DataInv, Progress, Landed, handler, upload
  <2>7. \A u \in Ids : Unstaged(u)'
    BY <2>1, <2>3 DEF DataInv, Unstaged, handler, history
  <2>8. PublishedIntact' /\ Delivered'
    BY <2>1 DEF DataInv, PublishedIntact, Delivered, Landed, upload, history
  <2> QED
    BY <2>2, <2>6, <2>7, <2>8 DEF DataInv
<1>3. ASSUME NEW a \in ArchiveIds, Import(a) PROVE DataInv'
  <2>1. ASSUME NEW u \in Ids, Landed(u) PROVE Landed(u)'
    BY <1>3, <2>1 DEF Import, Landed, upload
  <2>2. UNCHANGED <<handler, upload, store, disk, ages, history>>
    BY <1>3 DEF Import
  <2>3. PublishedIntact'
    BY <1>3 DEF Import, DataInv, PublishedIntact
  <2>4. Delivered'
    BY <1>a, <2>1, <2>2 DEF DataInv, Delivered, history
  <2>5. Orphans' /\ \A u \in Ids : Unstaged(u)'
    BY <2>2 DEF DataInv, Orphans, Unstaged, handler, disk, ages, history
  <2>6. ASSUME NEW h \in Handlers PROVE Progress(h)'
    <3>1. pc[h] = "ok" => at[h] \in Ids
      BY Serving
    <3> QED
      BY <2>1, <2>2, <3>1 DEF DataInv, Progress, handler, upload, disk
  <2> QED
    BY <2>3, <2>4, <2>5, <2>6 DEF DataInv
<1>4. CASE Crash
  <2>1. /\ \A h \in Handlers : pc'[h] = "idle"
        /\ UNCHANGED <<info, tree, archive, done, oldFin, told>>
        /\ reaping' = Nothing
        /\ orphaned' = orphaned \cup {u \in Ids : info[u] # Unused}
    BY <1>4 DEF Crash, upload, disk
  <2>2. Orphans' /\ PublishedIntact' /\ Delivered'
    BY <2>1 DEF DataInv, Orphans, PublishedIntact, Delivered, Landed
  <2>3. \A h \in Handlers : Progress(h)'
    BY <2>1 DEF Progress
  <2>4. \A u \in Ids : Unstaged(u)'
    BY <2>1 DEF DataInv, Unstaged, Given, Fresh
  <2> QED
    BY <2>2, <2>3, <2>4 DEF DataInv
<1> QED
  BY <1>1, <1>2, <1>3, <1>4 DEF Others

LEMMA InitDataInv == Init => DataInv
<1> SUFFICES ASSUME Init PROVE DataInv
  OBVIOUS
<1>1. Orphans /\ PublishedIntact /\ Delivered
  BY DEF Init, Orphans, PublishedIntact, Delivered
<1>2. \A h \in Handlers : Progress(h)
  BY DEF Init, Progress
<1>3. \A u \in Ids : Unstaged(u)
  BY DEF Init, Unstaged
<1> QED
  BY <1>1, <1>2, <1>3 DEF DataInv

LEMMA NextDataInv ==
  ASSUME ~SlowUntar
  PROVE  TypeInv /\ StoreInv /\ DataInv /\ [Next]_vars => DataInv'
<1> SUFFICES ASSUME TypeInv, StoreInv, DataInv, [Next]_vars PROVE DataInv'
  OBVIOUS
<1>1. CASE UNCHANGED vars
  <2>1. UNCHANGED <<handler, upload, disk, archive, done, ages, history>>
    BY <1>1 DEF vars
  <2> QED
    BY <2>1 DEF DataInv, Orphans, PublishedIntact, Delivered, Landed, Progress,
      Unstaged, handler, upload, disk, ages, history
<1> QED
  BY <1>1, NextCases, DataStep, DataOther

\* What archives/<id> holds is all of the content whose sha256 the client
\* claimed, as long as no Untar takes longer than FinalizeAge.
THEOREM PublishedWhole == ASSUME ~SlowUntar PROVE Spec => []PublishedIntact
<1>1. DataInv => PublishedIntact
  BY DEF DataInv
<1> QED
  BY <1>1, InitTypeInv, NextTypeInv, InitStoreInv, NextStoreInv, InitDataInv,
    NextDataInv, PTL DEF Spec

\* An upload whose completion was answered is published or imported, under the
\* same assumption.
THEOREM CompletionKept == ASSUME ~SlowUntar PROVE Spec => []Delivered
<1>1. DataInv => Delivered
  BY DEF DataInv
<1> QED
  BY <1>1, InitTypeInv, NextTypeInv, InitStoreInv, NextStoreInv, InitDataInv,
    NextDataInv, PTL DEF Spec

\* A published archive is never replaced: it only goes when an importer has
\* processed it.
THEOREM PublishedKept == Spec => PublishedStable
<1>1. TypeInv /\ [Next]_vars =>
        [\A a \in ArchiveIds :
           archive[a] # Absent =>
             archive'[a] = archive[a] \/ archive[a].from \in done']_vars
  <2> SUFFICES ASSUME TypeInv, Next, NEW a \in ArchiveIds, archive[a] # Absent
               PROVE  archive'[a] = archive[a] \/ archive[a].from \in done'
    OBVIOUS
  <2>1. ASSUME NEW h \in Handlers, HandlerStep(h) PROVE archive'[a] = archive[a]
    <3>1. Local(h)
      BY <2>1, LocalStep
    <3> QED
      BY <3>1 DEF Local, Rename, CanRename, TypeInv, TypeOK, DiskType
  <2>2. CASE Others
    BY <2>2 DEF Others, Request, Preflight, Get, Cleanup, TmpAges, FinAges,
      ReapPick, Reap, Import, Crash, TypeInv, TypeOK, DiskType
  <2> QED
    BY <2>1, <2>2, NextCases
<1> QED
  BY <1>1, InitTypeInv, NextTypeInv, PTL DEF Spec, PublishedStable
=============================================================================
