--------------------------- MODULE Pipeline_proofs ---------------------------
(***************************************************************************)
(* Proofs about ScanPipeline, for any items, number of workers, sizes of   *)
(* the channels, failures and crashes: nothing the watcher has seen is     *)
(* forgotten, nothing in staging is under way twice, every placeholder     *)
(* stands for an item under way, and a flush keeps the order of the names. *)
(* PipelineInv is the inductive invariant.                                 *)
(*                                                                         *)
(* And, in the second part, about Intake, for any number of connectors,    *)
(* entries, listeners, goroutines, retries and failures: no gap behind a   *)
(* checkpoint, and what the endpoint keeps bounded.                        *)
(***************************************************************************)
EXTENDS ScanPipeline, Intake, FiniteSetTheorems, TLAPS

\* The copies of an item that have left the dispatch queue.
Downstream(i) == (IF feeder = i THEN 1 ELSE 0) + InPool(i) + Count(pending, i)

\* What the state says of one item: before it arrives it is nowhere; in staging
\* it is at most once under way, marked seen while it is, and under way while
\* it is marked, unless its delivery failed; and a placeholder stands for an
\* item that has left the queue.
Accounted(i) ==
  /\ place[i] = "new" => Copies(i) = 0 /\ i \notin seen
  /\ place[i] = "staging" => Copies(i) <= 1 /\ (Copies(i) > 0 => i \in seen)
  /\ phase = "run" /\ place[i] = "staging" /\ i \in seen => Copies(i) > 0 \/ i \in erred
  /\ phase = "run" /\ i \in announced => Downstream(i) > 0

\* A request or a response that a channel, a worker, the router or an orphaned
\* delivery holds.
Carries(r) ==
  \/ \E n \in DOMAIN input : input[n] = r
  \/ \E w \in Workers : wpc[w] \in {"scan", "send"} /\ job[w] = r
  \/ \E n \in DOMAIN output : output[n] = r
  \/ \E n \in DOMAIN pending : pending[n] = r
  \/ r \in orphans

\* What was read from failed/ never goes back to staging.
FromFailed ==
  \A r \in Reqs \cup Resps :
    Carries(r) /\ r.from = "failed" => place[r.item] \in {"failed", "gone"}

\* What the flush under way has delivered is not where it was read, and not
\* announced.
Flushed ==
  consumer = "flush" =>
    \A n \in DOMAIN pending \ todo :
      /\ place[pending[n].item] \notin {"new", "staging", pending[n].from}
      /\ pending[n].item \notin announced

PipelineInv ==
  PipelineTypeOK /\ (\A i \in PipelineItems : Accounted(i)) /\ FromFailed /\ Flushed

-----------------------------------------------------------------------------
(* Counting.                                                                *)

\* A set of positions, when the sequence is extended and when its head goes.
LEMMA CardGrow ==
  ASSUME NEW n \in Nat, NEW S \in SUBSET (1..n)
  PROVE  /\ IsFiniteSet(S) /\ Cardinality(S) \in Nat
         /\ Cardinality(S \cup {n + 1}) = Cardinality(S) + 1
<1>1. IsFiniteSet(S)
  <2>1. IsFiniteSet(1..n)
    BY FS_Interval
  <2> QED BY <2>1, FS_Subset
<1>2. n + 1 \notin S
  OBVIOUS
<1> QED
  BY <1>1, <1>2, FS_AddElement, FS_CardinalityType

LEMMA CardShift ==
  ASSUME NEW n \in Nat \ {0}, NEW S \in SUBSET (1..n),
         NEW T \in SUBSET (1..(n - 1)), \A m \in 1..(n - 1) : m \in T <=> m + 1 \in S
  PROVE  Cardinality(S) = Cardinality(T) + (IF 1 \in S THEN 1 ELSE 0)
<1> DEFINE R == S \ {1}
           f == [m \in T |-> m + 1]
<1>1. IsFiniteSet(S) /\ Cardinality(S) \in Nat
  BY CardGrow
<1>2. IsFiniteSet(T) /\ Cardinality(T) \in Nat
  <2>1. n - 1 \in Nat
    OBVIOUS
  <2> QED BY <2>1, CardGrow
<1>3. Cardinality(R) = IF 1 \in S THEN Cardinality(S) - 1 ELSE Cardinality(S)
  BY <1>1, FS_RemoveElement
<1>4. f \in [T -> R]
  <2>1. \A m \in T : m + 1 \in S /\ m + 1 # 1
    OBVIOUS
  <2> QED BY <2>1
<1>5. \A a, b \in T : f[a] = f[b] => a = b
  OBVIOUS
<1>6. \A y \in R : \E m \in T : f[m] = y
  <2>1. ASSUME NEW y \in R PROVE y - 1 \in T /\ f[y - 1] = y
    <3>1. y \in 2..n
      OBVIOUS
    <3>2. y - 1 \in 1..(n - 1) /\ (y - 1) + 1 = y
      BY <3>1
    <3>3. y - 1 \in T
      BY <3>2
    <3> QED BY <3>2, <3>3
  <2> QED BY <2>1
<1> HIDE DEF f
<1>7. ExistsBijection(T, R)
  BY <1>4, <1>5, <1>6 DEF ExistsBijection, Bijection, Injection, Surjection, IsInjective
<1>8. Cardinality(R) = Cardinality(T)
  BY <1>2, <1>7, FS_Bijection
<1> QED
  BY <1>1, <1>2, <1>3, <1>8

\* The same for Count: the responses or requests for i in a channel.
LEMMA CountRules ==
  ASSUME NEW R, NEW s \in Seq(R), NEW i
  PROVE  /\ Count(s, i) \in Nat
         /\ Count(<<>>, i) = 0
         /\ \A n \in DOMAIN s : s[n].item = i => Count(s, i) > 0
         /\ Count(s, i) > 0 => \E n \in DOMAIN s : s[n].item = i
<1> DEFINE S == {n \in DOMAIN s : s[n].item = i}
<1>1. S \in SUBSET (1..Len(s)) /\ Len(s) \in Nat
  OBVIOUS
<1>2. IsFiniteSet(S) /\ Cardinality(S) \in Nat
  BY <1>1, CardGrow
<1>3. Cardinality(S) = 0 <=> S = {}
  BY <1>2, FS_EmptySet
<1>4. {n \in DOMAIN <<>> : (<<>>)[n].item = i} = {}
  OBVIOUS
<1>5. Count(<<>>, i) = 0
  BY <1>4, FS_EmptySet DEF Count
<1>6. Count(s, i) = Cardinality(S)
  BY DEF Count
<1>7. \A n \in DOMAIN s : s[n].item = i => S # {}
  OBVIOUS
<1>8. S # {} => \E n \in DOMAIN s : s[n].item = i
  OBVIOUS
<1> HIDE DEF S
<1> QED
  BY <1>2, <1>3, <1>5, <1>6, <1>7, <1>8

LEMMA CountAppend ==
  ASSUME NEW R, NEW s \in Seq(R), NEW r \in R, NEW i
  PROVE  Count(Append(s, r), i) = Count(s, i) + (IF r.item = i THEN 1 ELSE 0)
<1> DEFINE S == {n \in DOMAIN s : s[n].item = i}
           t == Append(s, r)
           T == {n \in DOMAIN t : t[n].item = i}
<1>1. S \in SUBSET (1..Len(s)) /\ Len(s) \in Nat
  OBVIOUS
<1>2. /\ t \in Seq(R) /\ DOMAIN t = 1..(Len(s) + 1) /\ DOMAIN s = 1..Len(s)
      /\ \A n \in 1..Len(s) : t[n] = s[n]
      /\ t[Len(s) + 1] = r
  OBVIOUS
<1> HIDE DEF t
<1>3. T = IF r.item = i THEN S \cup {Len(s) + 1} ELSE S
  BY <1>1, <1>2
<1>4. Cardinality(S \cup {Len(s) + 1}) = Cardinality(S) + 1 /\ Cardinality(S) \in Nat
  BY <1>1, CardGrow
<1>5. Count(s, i) = Cardinality(S) /\ Count(Append(s, r), i) = Cardinality(T)
  BY DEF Count, t
<1> HIDE DEF S, T
<1> QED
  BY <1>3, <1>4, <1>5

LEMMA CountTail ==
  ASSUME NEW R, NEW s \in Seq(R), s # <<>>, NEW i
  PROVE  Count(s, i) = Count(Tail(s), i) + (IF Head(s).item = i THEN 1 ELSE 0)
<1> DEFINE S == {n \in DOMAIN s : s[n].item = i}
           t == Tail(s)
           T == {n \in DOMAIN t : t[n].item = i}
<1>1. S \in SUBSET (1..Len(s)) /\ Len(s) \in Nat \ {0} /\ DOMAIN s = 1..Len(s)
  OBVIOUS
<1>2. /\ t \in Seq(R) /\ DOMAIN t = 1..(Len(s) - 1)
      /\ \A n \in 1..(Len(s) - 1) : t[n] = s[n + 1]
  OBVIOUS
<1>2a. Head(s) = s[1]
  OBVIOUS
<1> HIDE DEF t
<1>3. \A m \in 1..(Len(s) - 1) : m \in T <=> m + 1 \in S
  BY <1>1, <1>2
<1>4. T \in SUBSET (1..(Len(s) - 1))
  BY <1>2
<1>5. Cardinality(S) = Cardinality(T) + (IF 1 \in S THEN 1 ELSE 0)
  <2> HIDE DEF S, T
  <2> QED BY <1>1, <1>3, <1>4, CardShift
<1>6. 1 \in S <=> Head(s).item = i
  BY <1>1, <1>2a
<1> QED
  BY <1>5, <1>6 DEF Count, t

\* The same for the dispatch queue, which holds the items themselves.
Waiting(s, i) == Cardinality({n \in DOMAIN s : s[n] = i})

LEMMA WaitingRules ==
  ASSUME NEW R, NEW s \in Seq(R), NEW i
  PROVE  /\ Waiting(s, i) \in Nat
         /\ Waiting(<<>>, i) = 0
         /\ \A r \in R : Waiting(Append(s, r), i) = Waiting(s, i) + (IF r = i THEN 1 ELSE 0)
         /\ s # <<>> => Waiting(s, i) = Waiting(Tail(s), i) + (IF Head(s) = i THEN 1 ELSE 0)
<1> DEFINE S == {n \in DOMAIN s : s[n] = i}
<1>1. S \in SUBSET (1..Len(s)) /\ Len(s) \in Nat /\ DOMAIN s = 1..Len(s)
  OBVIOUS
<1>2. IsFiniteSet(S) /\ Cardinality(S) \in Nat
      /\ Cardinality(S \cup {Len(s) + 1}) = Cardinality(S) + 1
  BY <1>1, CardGrow
<1>3. Waiting(<<>>, i) = 0
  <2>1. {n \in DOMAIN <<>> : (<<>>)[n] = i} = {}
    OBVIOUS
  <2> QED BY <2>1, FS_EmptySet DEF Waiting
<1>4. ASSUME NEW r \in R
      PROVE  Waiting(Append(s, r), i) = Waiting(s, i) + (IF r = i THEN 1 ELSE 0)
  <2> DEFINE t == Append(s, r)
             T == {n \in DOMAIN t : t[n] = i}
  <2>1. /\ DOMAIN t = 1..(Len(s) + 1)
        /\ \A n \in 1..Len(s) : t[n] = s[n]
        /\ t[Len(s) + 1] = r
    OBVIOUS
  <2> HIDE DEF t
  <2>2. T = IF r = i THEN S \cup {Len(s) + 1} ELSE S
    BY <1>1, <2>1
  <2>3. Waiting(s, i) = Cardinality(S) /\ Waiting(Append(s, r), i) = Cardinality(T)
    BY DEF Waiting, t
  <2> HIDE DEF S, T
  <2> QED BY <1>2, <2>2, <2>3
<1>5. ASSUME s # <<>>
      PROVE  Waiting(s, i) = Waiting(Tail(s), i) + (IF Head(s) = i THEN 1 ELSE 0)
  <2> DEFINE t == Tail(s)
             T == {n \in DOMAIN t : t[n] = i}
  <2>1. /\ Len(s) \in Nat \ {0} /\ DOMAIN t = 1..(Len(s) - 1)
        /\ \A n \in 1..(Len(s) - 1) : t[n] = s[n + 1]
        /\ Head(s) = s[1]
    BY <1>5
  <2> HIDE DEF t
  <2>2. T \in SUBSET (1..(Len(s) - 1)) /\ \A m \in 1..(Len(s) - 1) : m \in T <=> m + 1 \in S
    BY <1>1, <2>1
  <2>3. Cardinality(S) = Cardinality(T) + (IF 1 \in S THEN 1 ELSE 0)
    <3> HIDE DEF S, T
    <3> QED BY <1>1, <2>1, <2>2, CardShift
  <2>4. 1 \in S <=> Head(s) = i
    BY <1>1, <2>1
  <2> QED BY <2>3, <2>4 DEF Waiting, t
<1> QED
  BY <1>2, <1>3, <1>4, <1>5 DEF Waiting

\* Two sets of workers that differ in w only.
LEMMA CardSwap ==
  ASSUME NEW S \in SUBSET Workers, NEW T \in SUBSET Workers, NEW w \in Workers,
         \A u \in Workers \ {w} : u \in S <=> u \in T
  PROVE  /\ Cardinality(S) \in Nat /\ Cardinality(T) \in Nat
         /\ Cardinality(S) + (IF w \in T THEN 1 ELSE 0)
              = Cardinality(T) + (IF w \in S THEN 1 ELSE 0)
<1>1. IsFiniteSet(S) /\ IsFiniteSet(T)
  BY PipelineFinite, FS_Subset
<1>2. Cardinality(S) \in Nat /\ Cardinality(T) \in Nat
  BY <1>1, FS_CardinalityType
<1>3. S \ {w} = T \ {w}
  OBVIOUS
<1>4. Cardinality(S \ {w}) = IF w \in S THEN Cardinality(S) - 1 ELSE Cardinality(S)
  BY <1>1, FS_RemoveElement
<1>5. Cardinality(T \ {w}) = IF w \in T THEN Cardinality(T) - 1 ELSE Cardinality(T)
  BY <1>1, FS_RemoveElement
<1> QED
  BY <1>2, <1>3, <1>4, <1>5

\* The step of worker w moves its job to v.
LEMMA WorkerMoves ==
  ASSUME PipelineTypeOK, NEW w \in Workers, NEW v, NEW i,
         job' = [job EXCEPT ![w] = v]
  PROVE  /\ OnWorkers(i) \in Nat /\ OnWorkers(i)' \in Nat
         /\ OnWorkers(i) + (IF v # NoJob /\ v.item = i THEN 1 ELSE 0)
              = OnWorkers(i)' + (IF job[w] # NoJob /\ job[w].item = i THEN 1 ELSE 0)
<1> DEFINE S == {u \in Workers : job[u] # NoJob /\ job[u].item = i}
           T == {u \in Workers : job'[u] # NoJob /\ job'[u].item = i}
<1>1. job'[w] = v /\ \A u \in Workers \ {w} : job'[u] = job[u]
  BY DEF PipelineTypeOK
<1>2. /\ S \in SUBSET Workers /\ T \in SUBSET Workers
      /\ \A u \in Workers \ {w} : u \in S <=> u \in T
      /\ w \in S <=> job[w] # NoJob /\ job[w].item = i
      /\ w \in T <=> v # NoJob /\ v.item = i
  BY <1>1
<1>3. OnWorkers(i) = Cardinality(S) /\ OnWorkers(i)' = Cardinality(T)
  BY DEF OnWorkers
<1> HIDE DEF S, T
<1>4. /\ Cardinality(S) \in Nat /\ Cardinality(T) \in Nat
      /\ Cardinality(S) + (IF w \in T THEN 1 ELSE 0)
           = Cardinality(T) + (IF w \in S THEN 1 ELSE 0)
  BY <1>2, CardSwap
<1> QED
  BY <1>2, <1>3, <1>4

\* The counters are numbers, and the copies of an item are those in the queue
\* and those that have left it.
LEMMA CountersTyped ==
  ASSUME PipelineTypeOK, NEW i
  PROVE  /\ Queued(i) \in Nat /\ Queued(i) = Waiting(dispatch, i)
         /\ Count(input, i) \in Nat /\ OnWorkers(i) \in Nat
         /\ Count(output, i) \in Nat /\ Count(pending, i) \in Nat
         /\ Downstream(i) = (IF feeder = i THEN 1 ELSE 0) + Count(input, i)
              + OnWorkers(i) + Count(output, i) + Count(pending, i)
         /\ Downstream(i) \in Nat
         /\ Copies(i) = Queued(i) + Downstream(i)
<1>1. Queued(i) = Waiting(dispatch, i) /\ Waiting(dispatch, i) \in Nat
  <2>1. dispatch \in Seq(PipelineItems)
    BY DEF PipelineTypeOK
  <2>2. Queued(i) = Waiting(dispatch, i)
    BY DEF Queued, Waiting
  <2> QED BY <2>1, <2>2, WaitingRules
<1>2. Count(input, i) \in Nat /\ Count(output, i) \in Nat /\ Count(pending, i) \in Nat
  BY CountRules DEF PipelineTypeOK
<1>3. OnWorkers(i) \in Nat
  <2>1. {w \in Workers : job[w] # NoJob /\ job[w].item = i} \in SUBSET Workers
    OBVIOUS
  <2> QED BY <2>1, PipelineFinite, FS_Subset, FS_CardinalityType DEF OnWorkers
<1> QED
  BY <1>1, <1>2, <1>3 DEF Downstream, Copies, InPool

\* The same in the next state.
LEMMA CountersNext ==
  ASSUME PipelineTypeOK', NEW i
  PROVE  /\ Queued(i)' \in Nat /\ Queued(i)' = Waiting(dispatch', i)
         /\ Downstream(i)' = (IF feeder' = i THEN 1 ELSE 0) + Count(input', i)
              + OnWorkers(i)' + Count(output', i) + Count(pending', i)
         /\ Downstream(i)' \in Nat
         /\ Copies(i)' = Queued(i)' + Downstream(i)'
<1>1. Queued(i)' = Waiting(dispatch', i) /\ Waiting(dispatch', i) \in Nat
  <2>1. dispatch' \in Seq(PipelineItems)
    BY DEF PipelineTypeOK
  <2>2. Queued(i)' = Waiting(dispatch', i)
    BY DEF Queued, Waiting
  <2> QED BY <2>1, <2>2, WaitingRules
<1>2. Count(input', i) \in Nat /\ Count(output', i) \in Nat /\ Count(pending', i) \in Nat
  BY CountRules DEF PipelineTypeOK
<1>3. OnWorkers(i)' \in Nat
  <2>1. {w \in Workers : job'[w] # NoJob /\ job'[w].item = i} \in SUBSET Workers
    OBVIOUS
  <2> QED BY <2>1, PipelineFinite, FS_Subset, FS_CardinalityType DEF OnWorkers
<1> QED
  BY <1>1, <1>2, <1>3 DEF Downstream, Copies, InPool

-----------------------------------------------------------------------------
(* What every step keeps.                                                   *)

\* Directories only move on.
Moves ==
  \A i \in PipelineItems :
    \/ place'[i] \in {place[i], "gone"}
    \/ place[i] = "new" /\ place'[i] = "staging"
    \/ place[i] = "staging" /\ place'[i] = "failed"

\* An item whose counters stay, in a step that may move its directory out of
\* staging.
LEMMA AccountedKept ==
  ASSUME PipelineTypeOK, NEW i \in PipelineItems, Accounted(i),
         phase' = "run" => phase = "run",
         place'[i] = place[i] \/ place'[i] \in {"failed", "gone"},
         Copies(i)' = Copies(i), Downstream(i)' = Downstream(i),
         i \in seen' <=> i \in seen, i \in erred => i \in erred',
         i \in announced' => i \in announced
  PROVE  Accounted(i)'
BY DEF Accounted

LEMMA FromFailedKept ==
  ASSUME PipelineTypeOK, FromFailed, Moves,
         \A r \in Reqs \cup Resps : Carries(r)' =>
           \/ r.from # "failed"
           \/ place[r.item] \in {"failed", "gone"}
           \/ \E q \in Reqs \cup Resps : Carries(q) /\ q.item = r.item /\ q.from = r.from
  PROVE  FromFailed'
<1> SUFFICES ASSUME NEW r \in Reqs \cup Resps, Carries(r)', r.from = "failed"
             PROVE  place'[r.item] \in {"failed", "gone"}
  BY DEF FromFailed
<1>1. r.item \in PipelineItems
  BY DEF Reqs, Resps
<1>2. place[r.item] \in {"failed", "gone"}
  BY DEF FromFailed
<1> QED
  BY <1>1, <1>2 DEF Moves

\* A flush that goes on with the same batch.
LEMMA FlushedKept ==
  ASSUME PipelineTypeOK, Flushed, Moves,
         consumer' = "flush" => consumer = "flush" /\ pending' = pending /\ todo' = todo,
         \A i \in PipelineItems : i \in announced' => i \in announced \/ place[i] = "staging"
  PROVE  Flushed'
<1> SUFFICES ASSUME consumer' = "flush", NEW n \in DOMAIN pending \ todo
             PROVE  /\ place'[pending[n].item] \notin {"new", "staging", pending[n].from}
                    /\ pending[n].item \notin announced'
  BY DEF Flushed
<1>1. pending[n] \in Resps
  BY DEF PipelineTypeOK
<1>2. pending[n].item \in PipelineItems /\ pending[n].from \in Origins
  BY <1>1 DEF Resps
<1>3. /\ place[pending[n].item] \notin {"new", "staging", pending[n].from}
      /\ pending[n].item \notin announced
  BY DEF Flushed
<1> QED
  BY <1>2, <1>3 DEF Moves, Origins

\* Failed deliveries are counted.
LEMMA FaultTyped ==
  ASSUME deliveryFaults \in 0..MaxDeliveryFaults, erred \subseteq PipelineItems,
         NEW i \in PipelineItems, DeliveryFault(i) \/ UNCHANGED mishaps
  PROVE  /\ deliveryFaults' \in 0..MaxDeliveryFaults /\ erred' \subseteq PipelineItems
         /\ erred \subseteq erred'
<1>1. MaxDeliveryFaults \in Nat
  BY PipelineAssumption
<1>2. CASE DeliveryFault(i)
  BY <1>1, <1>2 DEF DeliveryFault
<1>3. CASE UNCHANGED mishaps
  BY <1>3 DEF mishaps
<1> QED
  BY <1>2, <1>3

-----------------------------------------------------------------------------
(* The steps.                                                               *)

\* A step that leaves the channels, the workers, the router and the disk.
LEMMA QuietStep ==
  ASSUME PipelineInv, PipelineTypeOK',
         UNCHANGED <<places, watching, pool, pending, erred>>,
         orphans' \subseteq orphans,
         phase' = "run" => phase = "run",
         consumer' = "flush" => (consumer = "flush" /\ todo' = todo) \/ todo' = DOMAIN pending
  PROVE  PipelineInv'
<1> USE DEF places, watching, pool
<1>1. \A i \in PipelineItems : Accounted(i)'
  <2> SUFFICES ASSUME NEW i \in PipelineItems PROVE Accounted(i)'
    OBVIOUS
  <2>1. Copies(i)' = Copies(i) /\ Downstream(i)' = Downstream(i)
    BY DEF Copies, Downstream, InPool, OnWorkers, Queued, Count
  <2> QED BY <2>1, AccountedKept DEF PipelineInv
<1>2. Moves
  BY DEF Moves
<1>3. FromFailed'
  <2>1. \A r \in Reqs \cup Resps : Carries(r)' => Carries(r)
    BY DEF Carries
  <2> QED BY <2>1, <1>2, FromFailedKept DEF PipelineInv
<1>4. Flushed'
  <2>1. CASE consumer' = "flush" /\ todo' = DOMAIN pending
    BY <2>1 DEF Flushed
  <2>2. CASE consumer' = "flush" => consumer = "flush" /\ todo' = todo
    BY <2>2, <1>2, FlushedKept DEF PipelineInv
  <2> QED BY <2>1, <2>2
<1> QED
  BY <1>1, <1>3, <1>4 DEF PipelineInv

LEMMA QuietSteps ==
  ASSUME PipelineInv,
         \/ RescanTick \/ FlushTick \/ Cancel \/ FinalFlush
         \/ \E g \in alive : LoopExit(g)
  PROVE  PipelineInv'
<1> USE DEF places, watching, pool, routing, accidents, mishaps
<1>1. CASE RescanTick
  <2>1. PipelineTypeOK'
    BY <1>1 DEF PipelineInv, PipelineTypeOK, RescanTick
  <2> QED BY <1>1, <2>1, QuietStep DEF RescanTick
<1>2. CASE FlushTick
  <2>1. PipelineTypeOK'
    BY <1>2 DEF PipelineInv, PipelineTypeOK, FlushTick, BeginFlush
  <2> QED BY <1>2, <2>1, QuietStep DEF FlushTick, BeginFlush
<1>3. CASE Cancel
  <2>1. PipelineTypeOK'
    BY <1>3 DEF PipelineInv, PipelineTypeOK, Cancel
  <2> QED BY <1>3, <2>1, QuietStep DEF Cancel
<1>4. CASE FinalFlush
  <2>1. PipelineTypeOK'
    BY <1>4 DEF PipelineInv, PipelineTypeOK, FinalFlush, BeginFlush
  <2> QED BY <1>4, <2>1, QuietStep DEF FinalFlush, BeginFlush
<1>5. CASE \E g \in alive : LoopExit(g)
  <2>1. PipelineTypeOK'
    BY <1>5 DEF PipelineInv, PipelineTypeOK, LoopExit
  <2> QED BY <1>5, <2>1, QuietStep DEF LoopExit
<1> QED
  BY <1>1, <1>2, <1>3, <1>4, <1>5

LEMMA ArrivesStep ==
  ASSUME PipelineInv, NEW j \in PipelineItems, Arrives(j)
  PROVE  PipelineInv'
<1> USE DEF places, watching, pool, routing, accidents, mishaps
<1>1. PipelineTypeOK'
  BY DEF PipelineInv, PipelineTypeOK, Arrives
<1>2. /\ place[j] = "new" /\ place'[j] = "staging"
      /\ \A i \in PipelineItems \ {j} : place'[i] = place[i]
  BY DEF PipelineInv, PipelineTypeOK, Arrives
<1>3. \A i \in PipelineItems : Accounted(i)'
  <2> SUFFICES ASSUME NEW i \in PipelineItems PROVE Accounted(i)'
    OBVIOUS
  <2>1. Copies(i)' = Copies(i) /\ Downstream(i)' = Downstream(i)
    BY DEF Arrives, Copies, Downstream, InPool, OnWorkers, Queued, Count
  <2>2. CASE i = j
    BY <1>2, <2>1, <2>2 DEF PipelineInv, Accounted, Arrives
  <2>3. CASE i # j
    BY <1>2, <2>1, <2>3, AccountedKept DEF PipelineInv, Arrives
  <2> QED BY <2>2, <2>3
<1>4. Moves
  BY <1>2 DEF Moves
<1>5. FromFailed'
  <2>1. \A r \in Reqs \cup Resps : Carries(r)' => Carries(r)
    BY DEF Carries, Arrives
  <2> QED BY <2>1, <1>4, FromFailedKept DEF PipelineInv
<1>6. Flushed'
  BY <1>4, FlushedKept DEF PipelineInv, Arrives
<1> QED
  BY <1>1, <1>3, <1>5, <1>6 DEF PipelineInv

LEMMA DispatchStep ==
  ASSUME PipelineInv, NEW j \in PipelineItems, DispatchIfNew(j)
  PROVE  PipelineInv'
<1> USE DEF places, watching, pool, routing, accidents, mishaps
<1>0. dispatch \in Seq(PipelineItems)
  BY DEF PipelineInv, PipelineTypeOK
<1>1. PipelineTypeOK'
  <2>1. /\ Append(dispatch, j) \in Seq(PipelineItems)
        /\ Len(Append(dispatch, j)) = Len(dispatch) + 1 /\ Len(dispatch) \in Nat
    BY <1>0
  <2>2. dispatch' \in Seq(PipelineItems) /\ Len(dispatch') <= QueueCap
    BY <2>1, PipelineAssumption DEF DispatchIfNew, Mark
  <2> QED BY <2>2 DEF PipelineInv, PipelineTypeOK, DispatchIfNew, Mark
<1>2. \A i \in PipelineItems : Accounted(i)'
  <2> SUFFICES ASSUME NEW i \in PipelineItems PROVE Accounted(i)'
    OBVIOUS
  <2>1. Downstream(i)' = Downstream(i)
    BY DEF DispatchIfNew, Downstream, InPool, OnWorkers, Count
  <2>2. Queued(i)' = Queued(i) + (IF i = j THEN 1 ELSE 0)
    <3>1. dispatch' = Append(dispatch, j)
      BY DEF DispatchIfNew, Mark
    <3>2. Waiting(dispatch', i) = Waiting(dispatch, i) + (IF j = i THEN 1 ELSE 0)
      BY <3>1, <1>0, WaitingRules
    <3> QED BY <3>2 DEF Queued, Waiting
  <2>3. /\ Queued(i) \in Nat /\ Downstream(i) \in Nat
        /\ Copies(i) = Queued(i) + Downstream(i)
        /\ Copies(i)' = Queued(i)' + Downstream(i)'
    BY <1>1, CountersTyped, CountersNext DEF PipelineInv
  <2>4. CASE i = j
    BY <2>1, <2>2, <2>3, <2>4 DEF PipelineInv, Accounted, DispatchIfNew, Mark, New
  <2>5. CASE i # j
    BY <2>1, <2>2, <2>3, <2>5, AccountedKept DEF PipelineInv, DispatchIfNew, Mark
  <2> QED BY <2>4, <2>5
<1>3. Moves
  BY DEF Moves, DispatchIfNew
<1>4. FromFailed'
  <2>1. \A r \in Reqs \cup Resps : Carries(r)' => Carries(r)
    BY DEF Carries, DispatchIfNew
  <2> QED BY <2>1, <1>3, FromFailedKept DEF PipelineInv
<1>5. Flushed'
  BY <1>3, FlushedKept DEF PipelineInv, DispatchIfNew
<1> QED
  BY <1>1, <1>2, <1>4, <1>5 DEF PipelineInv

LEMMA PruneSeenStep == ASSUME PipelineInv, PruneSeen PROVE PipelineInv'
<1> USE DEF places, watching, pool, routing, accidents, mishaps
<1>1. PipelineTypeOK'
  BY DEF PipelineInv, PipelineTypeOK, PruneSeen
<1>2. \A i \in PipelineItems : Accounted(i)'
  <2> SUFFICES ASSUME NEW i \in PipelineItems PROVE Accounted(i)'
    OBVIOUS
  <2>1. Copies(i)' = Copies(i) /\ Downstream(i)' = Downstream(i)
    BY DEF PruneSeen, Copies, Downstream, InPool, OnWorkers, Queued, Count
  <2> QED BY <2>1 DEF PipelineInv, Accounted, PruneSeen
<1>3. Moves
  BY DEF Moves, PruneSeen
<1>4. FromFailed'
  <2>1. \A r \in Reqs \cup Resps : Carries(r)' => Carries(r)
    BY DEF Carries, PruneSeen
  <2> QED BY <2>1, <1>3, FromFailedKept DEF PipelineInv
<1>5. Flushed'
  BY <1>3, FlushedKept DEF PipelineInv, PruneSeen
<1> QED
  BY <1>1, <1>2, <1>4, <1>5 DEF PipelineInv

\* The feeder drops a path whose directory is gone, rejects an item that does
\* not validate, or begins the send of the item.
LEMMA FeedStep == ASSUME PipelineInv, Feed PROVE PipelineInv'
<1> USE DEF places, watching, pool, routing, accidents, mishaps
<1> DEFINE j == Head(dispatch)
<1>0. /\ dispatch \in Seq(PipelineItems) /\ dispatch # <<>> /\ j \in PipelineItems
      /\ dispatch' = Tail(dispatch) /\ feeder = EmptyHand
      /\ EmptyHand \notin PipelineItems
  BY PipelineAssumption DEF PipelineInv, PipelineTypeOK, Feed
<1>a. \/ place[j] # "staging" /\ UNCHANGED <<places, feeder, mishaps>>
      \/ /\ place[j] = "staging" /\ j \in Invalid
         /\ \/ place' = [place EXCEPT ![j] = "gone"] /\ UNCHANGED mishaps
            \/ DeliveryFault(j) /\ UNCHANGED place
         /\ UNCHANGED <<delivered, announced, feeder>>
      \/ /\ place[j] = "staging" /\ j \notin Invalid
         /\ feeder' = j
         /\ announced' = announced \cup ({j} \cap Ordered)
         /\ UNCHANGED <<place, delivered, mishaps>>
  BY DEF Feed
<1>b. UNCHANGED <<seen, rescan, pool, routing, orphans, alive, phase, crashes>>
  BY DEF Feed
<1>c. /\ Tail(dispatch) \in Seq(PipelineItems) /\ Len(Tail(dispatch)) = Len(dispatch) - 1
      /\ Len(dispatch) \in Nat
  BY <1>0
<1> HIDE DEF j
<1>1. PipelineTypeOK'
  <2>1. dispatch' \in Seq(PipelineItems) /\ Len(dispatch') <= QueueCap
    BY <1>0, <1>c, PipelineAssumption DEF PipelineInv, PipelineTypeOK
  <2>2. /\ place' \in [PipelineItems -> {"new", "staging", "failed", "gone"}]
        /\ delivered' \subseteq Resps /\ announced' \subseteq Ordered
        /\ feeder' \in PipelineItems \cup {EmptyHand}
        /\ deliveryFaults' \in 0..MaxDeliveryFaults /\ erred' \subseteq PipelineItems
    <3>1. /\ place \in [PipelineItems -> {"new", "staging", "failed", "gone"}]
          /\ delivered \subseteq Resps /\ announced \subseteq Ordered
          /\ feeder \in PipelineItems \cup {EmptyHand}
          /\ deliveryFaults \in 0..MaxDeliveryFaults /\ erred \subseteq PipelineItems
      BY DEF PipelineInv, PipelineTypeOK
    <3>2. /\ place' \in [PipelineItems -> {"new", "staging", "failed", "gone"}]
          /\ delivered' \subseteq Resps /\ announced' \subseteq Ordered
          /\ feeder' \in PipelineItems \cup {EmptyHand}
      BY <3>1, <1>0, <1>a
    <3>3. deliveryFaults' \in 0..MaxDeliveryFaults /\ erred' \subseteq PipelineItems
      <4>1. DeliveryFault(j) \/ UNCHANGED mishaps
        BY <1>a
      <4> QED BY <4>1, <1>0, <3>1, FaultTyped
    <3> QED BY <3>2, <3>3
  <2> QED BY <1>b, <2>1, <2>2 DEF PipelineInv, PipelineTypeOK
<1>2. \A i \in PipelineItems : Accounted(i)'
  <2> SUFFICES ASSUME NEW i \in PipelineItems PROVE Accounted(i)'
    OBVIOUS
  <2>1. Queued(i) = Queued(i)' + (IF i = j THEN 1 ELSE 0)
    <3>1. Waiting(dispatch, i) = Waiting(dispatch', i) + (IF j = i THEN 1 ELSE 0)
      BY <1>0, WaitingRules DEF j
    <3> QED BY <3>1 DEF Queued, Waiting
  <2>2. Downstream(i)' = Downstream(i) + (IF feeder' = i THEN 1 ELSE 0)
    <3>1. /\ Count(input', i) = Count(input, i) /\ Count(output', i) = Count(output, i)
          /\ Count(pending', i) = Count(pending, i) /\ OnWorkers(i)' = OnWorkers(i)
      BY <1>b DEF OnWorkers
    <3>2. feeder # i
      BY <1>0
    <3> QED BY <3>1, <3>2, <1>1, CountersTyped, CountersNext DEF PipelineInv
  <2>3. /\ Queued(i) \in Nat /\ Downstream(i) \in Nat /\ Queued(i)' \in Nat
        /\ Copies(i) = Queued(i) + Downstream(i)
        /\ Copies(i)' = Queued(i)' + Downstream(i)'
    BY <1>1, CountersTyped, CountersNext DEF PipelineInv
  <2>4. Accounted(i) /\ place \in [PipelineItems -> {"new", "staging", "failed", "gone"}]
    BY DEF PipelineInv, PipelineTypeOK
  <2>5. /\ i # j => place'[i] = place[i]
        /\ i \in erred => i \in erred'
        /\ i # j /\ i \in announced' => i \in announced
    BY <1>0, <1>a, <2>4 DEF DeliveryFault
  <2>6. CASE i # j
    <3>1. feeder' # i
      BY <1>0, <1>a, <2>6
    <3>2. Copies(i)' = Copies(i) /\ Downstream(i)' = Downstream(i)
      BY <2>1, <2>2, <2>3, <2>6, <3>1
    <3> QED BY <3>2, <1>b, <2>4, <2>5, <2>6, AccountedKept DEF PipelineInv
  <2>7. CASE i = j /\ feeder' = j
    <3>1. place[j] = "staging" /\ place'[j] = "staging"
      BY <1>0, <1>a, <2>7
    <3>2. Copies(i)' = Copies(i) /\ Downstream(i)' > 0
      BY <2>1, <2>2, <2>3, <2>7
    <3> QED BY <3>1, <3>2, <1>b, <2>4, <2>5, <2>7 DEF Accounted
  <2>8. CASE i = j /\ feeder' # j
    <3>1. Downstream(i)' = Downstream(i) /\ Copies(i)' = Copies(i) - 1
      BY <2>1, <2>2, <2>3, <2>8
    <3>2. place'[j] # "staging" \/ j \in erred'
      BY <1>0, <1>a, <2>4, <2>8 DEF DeliveryFault
    <3>3. i \in announced' => i \in announced
      BY <1>a, <2>8
    <3>4. place'[j] = place[j] \/ place'[j] = "gone"
      BY <1>0, <1>a, <2>4, <2>8
    <3>5. Copies(i)' \in Nat
      BY <2>2, <2>3, <3>1
    <3> QED BY <3>1, <3>2, <3>3, <3>4, <3>5, <1>b, <2>3, <2>4, <2>8 DEF Accounted
  <2> QED BY <2>6, <2>7, <2>8
<1>3. Moves
  BY <1>0, <1>a DEF Moves, PipelineInv, PipelineTypeOK
<1>4. FromFailed'
  <2>1. \A r \in Reqs \cup Resps : Carries(r)' => Carries(r)
    BY <1>b DEF Carries
  <2> QED BY <2>1, <1>3, FromFailedKept DEF PipelineInv
<1>5. Flushed'
  <2>1. \A i \in PipelineItems : i \in announced' => i \in announced \/ place[i] = "staging"
    BY <1>a
  <2> QED BY <1>3, <1>b, <2>1, FlushedKept DEF PipelineInv
<1> QED
  BY <1>1, <1>2, <1>4, <1>5 DEF PipelineInv

\* What is appended to a channel, and what is taken from it.
LEMMA ChannelRules ==
  ASSUME NEW R, NEW s \in Seq(R)
  PROVE  /\ \A r \in R : /\ Append(s, r) \in Seq(R) /\ Len(Append(s, r)) = Len(s) + 1
                         /\ \A n \in DOMAIN Append(s, r) :
                              Append(s, r)[n] = r \/ (n \in DOMAIN s /\ Append(s, r)[n] = s[n])
                         /\ DOMAIN Append(s, r) = DOMAIN s \cup {Len(s) + 1}
         /\ Len(s) \in Nat
         /\ s # <<>> => /\ Head(s) \in R /\ Tail(s) \in Seq(R) /\ Len(Tail(s)) = Len(s) - 1
                        /\ 1 \in DOMAIN s /\ s[1] = Head(s)
                        /\ \A n \in DOMAIN Tail(s) : n + 1 \in DOMAIN s /\ Tail(s)[n] = s[n + 1]
<1>1. Len(s) \in Nat /\ DOMAIN s = 1..Len(s)
  OBVIOUS
<1>2. ASSUME NEW r \in R
      PROVE  /\ Append(s, r) \in Seq(R) /\ Len(Append(s, r)) = Len(s) + 1
             /\ \A n \in DOMAIN Append(s, r) :
                  Append(s, r)[n] = r \/ (n \in DOMAIN s /\ Append(s, r)[n] = s[n])
             /\ DOMAIN Append(s, r) = DOMAIN s \cup {Len(s) + 1}
  <2>1. Append(s, r) \in Seq(R) /\ Len(Append(s, r)) = Len(s) + 1
    OBVIOUS
  <2>2. DOMAIN Append(s, r) = 1..(Len(s) + 1)
    OBVIOUS
  <2>3. DOMAIN Append(s, r) = DOMAIN s \cup {Len(s) + 1}
    BY <1>1, <2>2
  <2>4. Append(s, r)[Len(s) + 1] = r /\ \A n \in 1..Len(s) : Append(s, r)[n] = s[n]
    OBVIOUS
  <2> QED BY <1>1, <2>1, <2>3, <2>4
<1>3. ASSUME s # <<>>
      PROVE  /\ Head(s) \in R /\ Tail(s) \in Seq(R) /\ Len(Tail(s)) = Len(s) - 1
             /\ 1 \in DOMAIN s /\ s[1] = Head(s)
             /\ \A n \in DOMAIN Tail(s) : n + 1 \in DOMAIN s /\ Tail(s)[n] = s[n + 1]
  BY <1>1, <1>3
<1> QED
  BY <1>1, <1>2, <1>3

LEMMA FeedSendStep == ASSUME PipelineInv, FeedSend PROVE PipelineInv'
<1> USE DEF places, watching, pool, routing, accidents, mishaps
<1> DEFINE q == [item |-> feeder, from |-> "staging"]
<1>0. /\ feeder \in PipelineItems /\ feeder' = EmptyHand /\ EmptyHand \notin PipelineItems
      /\ input' = Append(input, q) /\ Len(input) < ChanCap
      /\ input \in Seq(Reqs) /\ q \in Reqs /\ q.item = feeder /\ q.from = "staging"
  BY PipelineAssumption DEF PipelineInv, PipelineTypeOK, FeedSend, Reqs, Origins
<1>b. UNCHANGED <<places, seen, dispatch, rescan, wpc, job, output, routing, orphans, alive,
                  phase, accidents>>
  BY DEF FeedSend
<1> HIDE DEF q
<1>1. PipelineTypeOK'
  <2>1. input' \in Seq(Reqs) /\ Len(input') <= ChanCap
    BY <1>0, ChannelRules, PipelineAssumption
  <2> QED BY <1>0, <1>b, <2>1 DEF PipelineInv, PipelineTypeOK
<1>2. \A i \in PipelineItems : Accounted(i)'
  <2> SUFFICES ASSUME NEW i \in PipelineItems PROVE Accounted(i)'
    OBVIOUS
  <2>1. /\ Count(input', i) = Count(input, i) + (IF feeder = i THEN 1 ELSE 0)
        /\ Count(output', i) = Count(output, i) /\ Count(pending', i) = Count(pending, i)
        /\ OnWorkers(i)' = OnWorkers(i) /\ Queued(i)' = Queued(i) /\ feeder' # i
    <3>1. Count(input', i) = Count(input, i) + (IF feeder = i THEN 1 ELSE 0)
      BY <1>0, CountAppend
    <3> QED BY <3>1, <1>0, <1>b DEF OnWorkers, Queued
  <2>2. Copies(i)' = Copies(i) /\ Downstream(i)' = Downstream(i)
    BY <2>1, <1>1, CountersTyped, CountersNext DEF PipelineInv
  <2> QED BY <2>2, <1>b, AccountedKept DEF PipelineInv
<1>3. Moves
  BY <1>b DEF Moves
<1>4. FromFailed'
  <2>1. \A r \in Reqs \cup Resps : Carries(r)' => Carries(r) \/ r.from # "failed"
    BY <1>0, <1>b, ChannelRules DEF Carries
  <2> QED BY <2>1, <1>3, FromFailedKept DEF PipelineInv
<1>5. Flushed'
  BY <1>b, <1>3, FlushedKept DEF PipelineInv
<1> QED
  BY <1>1, <1>2, <1>4, <1>5 DEF PipelineInv

LEMMA RescanSendStep == ASSUME PipelineInv, RescanSend PROVE PipelineInv'
<1> USE DEF places, watching, pool, routing, accidents, mishaps
<1>a. PICK j \in rescan :
        /\ rescan' = rescan \ {j}
        /\ \/ /\ place[j] = "failed" /\ Len(input) < ChanCap
              /\ input' = Append(input, [item |-> j, from |-> "failed"])
           \/ place[j] # "failed" /\ UNCHANGED input
  BY DEF RescanSend
<1>b. UNCHANGED <<places, watching, wpc, job, output, routing, orphans, alive, phase, accidents>>
  BY DEF RescanSend
<1>c. j \in PipelineItems /\ input \in Seq(Reqs)
  BY DEF PipelineInv, PipelineTypeOK
<1>1. CASE UNCHANGED input
  <2>1. PipelineTypeOK'
    BY <1>1, <1>a, <1>b DEF PipelineInv, PipelineTypeOK
  <2> QED BY <1>1, <1>b, <2>1, QuietStep
<1>2. CASE /\ place[j] = "failed" /\ Len(input) < ChanCap
           /\ input' = Append(input, [item |-> j, from |-> "failed"])
  <2> DEFINE q == [item |-> j, from |-> "failed"]
  <2>0. q \in Reqs /\ q.item = j /\ input' = Append(input, q)
    BY <1>2, <1>c DEF Reqs, Origins
  <2> HIDE DEF q
  <2>1. PipelineTypeOK'
    <3>1. input' \in Seq(Reqs) /\ Len(input') <= ChanCap
      BY <1>2, <1>c, <2>0, ChannelRules, PipelineAssumption
    <3> QED BY <1>a, <1>b, <3>1 DEF PipelineInv, PipelineTypeOK
  <2>2. \A i \in PipelineItems : Accounted(i)'
    <3> SUFFICES ASSUME NEW i \in PipelineItems PROVE Accounted(i)'
      OBVIOUS
    <3>1. Count(input', i) = Count(input, i) + (IF j = i THEN 1 ELSE 0)
      BY <1>c, <2>0, CountAppend
    <3>2. /\ Count(output', i) = Count(output, i) /\ Count(pending', i) = Count(pending, i)
          /\ OnWorkers(i)' = OnWorkers(i) /\ Queued(i)' = Queued(i) /\ feeder' = feeder
      BY <1>b DEF OnWorkers, Queued
    <3>3. /\ Copies(i)' = Copies(i) + (IF j = i THEN 1 ELSE 0)
          /\ Downstream(i)' = Downstream(i) + (IF j = i THEN 1 ELSE 0)
          /\ Copies(i) \in Nat /\ Downstream(i) \in Nat
      BY <3>1, <3>2, <2>1, CountersTyped, CountersNext DEF PipelineInv
    <3>4. CASE i = j
      BY <1>2, <1>b, <3>3, <3>4 DEF PipelineInv, Accounted
    <3>5. CASE i # j
      BY <1>b, <3>3, <3>5, AccountedKept DEF PipelineInv
    <3> QED BY <3>4, <3>5
  <2>3. Moves
    BY <1>b DEF Moves
  <2>4. FromFailed'
    <3>1. \A r \in Reqs \cup Resps : Carries(r)' => Carries(r) \/ r = q
      BY <1>c, <1>b, <2>0, ChannelRules DEF Carries
    <3>2. place[q.item] \in {"failed", "gone"}
      BY <1>2, <2>0
    <3> QED BY <3>1, <3>2, <2>3, FromFailedKept DEF PipelineInv
  <2>5. Flushed'
    BY <1>b, <2>3, FlushedKept DEF PipelineInv
  <2> QED
    BY <2>1, <2>2, <2>4, <2>5 DEF PipelineInv
<1> QED
  BY <1>1, <1>2, <1>a

\* A request or a response is no NoJob, and a worker holds one exactly between
\* Take and the end of its send.
LEMMA JobRule ==
  ASSUME PipelineTypeOK, NEW w \in Workers
  PROVE  /\ \A r \in Reqs \cup Resps : r # NoJob /\ r.item \in PipelineItems
         /\ job[w] # NoJob <=> wpc[w] \in {"scan", "send"}
         /\ job[w] # NoJob => job[w] \in Reqs \cup Resps
         /\ wpc[w] = "scan" => job[w] \in Reqs
         /\ wpc[w] = "send" => job[w] \in Resps
<1>1. \A r \in Reqs \cup Resps : r # NoJob /\ r.item \in PipelineItems
  BY DEF Reqs, Resps, NoJob
<1> QED
  BY <1>1 DEF PipelineTypeOK

\* A step of worker w with a channel: what it holds moves, and nothing else.
LEMMA WorkerStep ==
  ASSUME PipelineInv, PipelineTypeOK', NEW w \in Workers, NEW v,
         job' = [job EXCEPT ![w] = v],
         UNCHANGED <<places, watching, routing, orphans, phase, accidents>>,
         \A i \in PipelineItems :
           Count(input', i) + Count(output', i) + (IF v # NoJob /\ v.item = i THEN 1 ELSE 0)
             = Count(input, i) + Count(output, i)
                 + (IF job[w] # NoJob /\ job[w].item = i THEN 1 ELSE 0),
         FromFailed'
  PROVE  PipelineInv'
<1> USE DEF places, watching, routing, accidents, mishaps
<1>1. \A i \in PipelineItems : Accounted(i)'
  <2> SUFFICES ASSUME NEW i \in PipelineItems PROVE Accounted(i)'
    OBVIOUS
  <2>1. /\ OnWorkers(i) \in Nat /\ OnWorkers(i)' \in Nat
        /\ OnWorkers(i) + (IF v # NoJob /\ v.item = i THEN 1 ELSE 0)
             = OnWorkers(i)' + (IF job[w] # NoJob /\ job[w].item = i THEN 1 ELSE 0)
    <3>1. PipelineTypeOK
      BY DEF PipelineInv
    <3>2. w \in Workers /\ job' = [job EXCEPT ![w] = v]
      OBVIOUS
    <3> QED BY ONLY <3>1, <3>2, WorkerMoves, Zenon
  <2>2. /\ Count(input', i) \in Nat /\ Count(output', i) \in Nat
        /\ Count(input, i) \in Nat /\ Count(output, i) \in Nat
    BY CountRules DEF PipelineInv, PipelineTypeOK
  <2>3. Queued(i)' = Queued(i) /\ feeder' = feeder /\ Count(pending', i) = Count(pending, i)
    BY DEF Queued
  <2>4. Count(input', i) + OnWorkers(i)' + Count(output', i)
          = Count(input, i) + OnWorkers(i) + Count(output, i)
    BY <2>1, <2>2
  <2>5. Copies(i)' = Copies(i) /\ Downstream(i)' = Downstream(i)
    BY <2>1, <2>2, <2>3, <2>4, CountersTyped, CountersNext DEF PipelineInv
  <2> QED BY <2>5, AccountedKept DEF PipelineInv
<1>2. Moves
  BY DEF Moves
<1>3. Flushed'
  BY <1>2, FlushedKept DEF PipelineInv
<1> QED
  BY <1>1, <1>3 DEF PipelineInv

LEMMA TakeStep == ASSUME PipelineInv, NEW w \in Workers, Take(w) PROVE PipelineInv'
<1> USE DEF routing
<1>0. /\ input \in Seq(Reqs) /\ input # <<>> /\ Head(input) \in Reqs /\ job[w] = NoJob
      /\ wpc[w] = "idle" /\ job \in [Workers -> Reqs \cup Resps \cup {NoJob}]
      /\ wpc \in [Workers -> {"idle", "scan", "send", "exit"}]
  BY DEF PipelineInv, PipelineTypeOK, Take
<1>a. /\ wpc' = [wpc EXCEPT ![w] = "scan"] /\ job' = [job EXCEPT ![w] = Head(input)]
      /\ input' = Tail(input)
      /\ UNCHANGED <<places, watching, rescan, output, routing, orphans, alive, phase, accidents>>
  BY DEF Take
<1>b. /\ input' \in Seq(Reqs) /\ Len(input') = Len(input) - 1 /\ Len(input) \in Nat
      /\ 1 \in DOMAIN input /\ input[1] = Head(input)
      /\ \A n \in DOMAIN input' : \E m \in DOMAIN input : input'[n] = input[m]
  BY <1>0, <1>a, ChannelRules
<1>1. PipelineTypeOK'
  <2>1. Len(input') <= ChanCap
    BY <1>b, PipelineAssumption DEF PipelineInv, PipelineTypeOK
  <2>2. /\ wpc' \in [Workers -> {"idle", "scan", "send", "exit"}]
        /\ job' \in [Workers -> Reqs \cup Resps \cup {NoJob}]
        /\ \A u \in Workers : /\ wpc'[u] = "scan" => job'[u] \in Reqs
                              /\ wpc'[u] = "send" => job'[u] \in Resps
                              /\ wpc'[u] \in {"idle", "exit"} => job'[u] = NoJob
    BY <1>0, <1>a DEF PipelineInv, PipelineTypeOK
  <2> QED BY <1>a, <1>b, <2>1, <2>2
          DEF PipelineInv, PipelineTypeOK, places, watching, accidents, mishaps
<1>2. \A i \in PipelineItems : Count(input, i) = Count(input', i) + (IF Head(input).item = i THEN 1 ELSE 0)
  BY <1>0, <1>a, CountTail
<1>3. Head(input) # NoJob
  BY <1>0, JobRule DEF PipelineInv
<1>4. \A i \in PipelineItems :
        Count(input', i) + Count(output', i)
            + (IF Head(input) # NoJob /\ Head(input).item = i THEN 1 ELSE 0)
          = Count(input, i) + Count(output, i)
              + (IF job[w] # NoJob /\ job[w].item = i THEN 1 ELSE 0)
  <2> SUFFICES ASSUME NEW i \in PipelineItems
               PROVE  Count(input', i) + Count(output, i) + (IF Head(input).item = i THEN 1 ELSE 0)
                        = Count(input, i) + Count(output, i)
    <3>1. output' = output /\ job[w] = NoJob /\ Head(input) # NoJob
      BY <1>0, <1>a, <1>3
    <3>2. \A i \in PipelineItems : Count(output, i) \in Nat /\ Count(input, i) \in Nat
      BY CountRules DEF PipelineInv, PipelineTypeOK
    <3> QED BY <3>1, <3>2
  <2>1. Count(input', i) \in Nat /\ Count(output, i) \in Nat
    BY <1>b, CountRules DEF PipelineInv, PipelineTypeOK
  <2> QED BY <1>2, <2>1
<1>5. FromFailed'
  <2>1. \A r \in Reqs \cup Resps : Carries(r)' => Carries(r)
    BY <1>0, <1>a, <1>b DEF Carries
  <2>2. Moves
    BY <1>a DEF Moves, places
  <2> QED BY <2>1, <2>2, FromFailedKept DEF PipelineInv
<1> QED
  BY <1>1, <1>4, <1>5, <1>a, WorkerStep

LEMMA ScanStep == ASSUME PipelineInv, NEW w \in Workers, Scan(w) PROVE PipelineInv'
<1> USE DEF routing
<1>0. /\ wpc[w] = "scan" /\ job[w] \in Reqs /\ job \in [Workers -> Reqs \cup Resps \cup {NoJob}]
      /\ wpc \in [Workers -> {"idle", "scan", "send", "exit"}]
  BY DEF PipelineInv, PipelineTypeOK, Scan
<1>b. PICK v \in Resps :
        /\ v.item = job[w].item /\ v.from = job[w].from
        /\ job' = [job EXCEPT ![w] = v]
  <2>1. PICK k \in Answers(job[w]) :
          job' = [job EXCEPT ![w] = [item |-> job[w].item, from |-> job[w].from, kind |-> k]]
    BY DEF Scan
  <2>2. [item |-> job[w].item, from |-> job[w].from, kind |-> k] \in Resps
    BY <1>0 DEF Answers, Reqs, Resps
  <2> QED BY <2>1, <2>2
<1>c. /\ wpc' = [wpc EXCEPT ![w] = "send"] /\ job' = [job EXCEPT ![w] = v]
      /\ UNCHANGED <<places, watching, rescan, input, output, routing, orphans, alive, phase,
                     accidents>>
  BY <1>b DEF Scan
<1>1. PipelineTypeOK'
  <2>2. /\ wpc' \in [Workers -> {"idle", "scan", "send", "exit"}]
        /\ job' \in [Workers -> Reqs \cup Resps \cup {NoJob}]
        /\ \A u \in Workers : /\ wpc'[u] = "scan" => job'[u] \in Reqs
                              /\ wpc'[u] = "send" => job'[u] \in Resps
                              /\ wpc'[u] \in {"idle", "exit"} => job'[u] = NoJob
    BY <1>0, <1>b, <1>c DEF PipelineInv, PipelineTypeOK
  <2> QED BY <1>c, <2>2 DEF PipelineInv, PipelineTypeOK, places, watching, accidents, mishaps
<1>2. v # NoJob /\ job[w] # NoJob
  BY <1>0, <1>b, JobRule DEF PipelineInv
<1>3. \A i \in PipelineItems :
        Count(input', i) + Count(output', i) + (IF v # NoJob /\ v.item = i THEN 1 ELSE 0)
          = Count(input, i) + Count(output, i)
              + (IF job[w] # NoJob /\ job[w].item = i THEN 1 ELSE 0)
  BY <1>2, <1>b, <1>c
<1>4. FromFailed'
  <2>1. ASSUME NEW r \in Reqs \cup Resps, Carries(r)'
        PROVE  \E q \in Reqs \cup Resps : Carries(q) /\ q.item = r.item /\ q.from = r.from
    <3>1. Carries(job[w])
      BY <1>0 DEF Carries
    <3>2. Carries(r) \/ r = v
      BY <1>0, <1>c, <2>1 DEF Carries
    <3> QED BY <1>0, <1>b, <3>1, <3>2
  <2>2. Moves
    BY <1>c DEF Moves, places
  <2> QED BY <2>1, <2>2, FromFailedKept DEF PipelineInv
<1> QED
  BY <1>1, <1>3, <1>4, <1>c, WorkerStep

LEMMA SendStep == ASSUME PipelineInv, NEW w \in Workers, Send(w) PROVE PipelineInv'
<1> USE DEF routing
<1>0. /\ wpc[w] = "send" /\ job[w] \in Resps /\ job \in [Workers -> Reqs \cup Resps \cup {NoJob}]
      /\ wpc \in [Workers -> {"idle", "scan", "send", "exit"}]
      /\ output \in Seq(Resps) /\ Len(output) < ChanCap
  BY DEF PipelineInv, PipelineTypeOK, Send
<1>a. /\ wpc' = [wpc EXCEPT ![w] = "idle"] /\ job' = [job EXCEPT ![w] = NoJob]
      /\ output' = Append(output, job[w])
      /\ UNCHANGED <<places, watching, rescan, input, routing, orphans, alive, phase, accidents>>
  BY DEF Send
<1>b. /\ output' \in Seq(Resps) /\ Len(output') = Len(output) + 1 /\ Len(output) \in Nat
      /\ \A n \in DOMAIN output' : output'[n] = job[w] \/ (n \in DOMAIN output /\ output'[n] = output[n])
  BY <1>0, <1>a, ChannelRules
<1>1. PipelineTypeOK'
  <2>1. Len(output') <= ChanCap
    BY <1>0, <1>b, PipelineAssumption
  <2>2. /\ wpc' \in [Workers -> {"idle", "scan", "send", "exit"}]
        /\ job' \in [Workers -> Reqs \cup Resps \cup {NoJob}]
        /\ \A u \in Workers : /\ wpc'[u] = "scan" => job'[u] \in Reqs
                              /\ wpc'[u] = "send" => job'[u] \in Resps
                              /\ wpc'[u] \in {"idle", "exit"} => job'[u] = NoJob
    BY <1>0, <1>a DEF PipelineInv, PipelineTypeOK
  <2> QED BY <1>a, <1>b, <2>1, <2>2
          DEF PipelineInv, PipelineTypeOK, places, watching, accidents, mishaps
<1>2. job[w] # NoJob
  BY <1>0, JobRule DEF PipelineInv
<1>3. \A i \in PipelineItems :
        Count(input', i) + Count(output', i) + (IF NoJob # NoJob /\ NoJob.item = i THEN 1 ELSE 0)
          = Count(input, i) + Count(output, i)
              + (IF job[w] # NoJob /\ job[w].item = i THEN 1 ELSE 0)
  <2> SUFFICES ASSUME NEW i \in PipelineItems
               PROVE  Count(input, i) + Count(output', i) + 0
                        = Count(input, i) + Count(output, i) + (IF job[w].item = i THEN 1 ELSE 0)
    BY <1>2, <1>a
  <2>1. Count(input, i) \in Nat /\ Count(output, i) \in Nat
    BY CountRules DEF PipelineInv, PipelineTypeOK
  <2>2. Count(output', i) = Count(output, i) + (IF job[w].item = i THEN 1 ELSE 0)
    BY <1>0, <1>a, CountAppend
  <2> QED BY <2>1, <2>2
<1>4. FromFailed'
  <2>1. \A r \in Reqs \cup Resps : Carries(r)' => Carries(r)
    BY <1>0, <1>a, <1>b DEF Carries
  <2>2. Moves
    BY <1>a DEF Moves, places
  <2> QED BY <2>1, <2>2, FromFailedKept DEF PipelineInv
<1> QED
  BY <1>1, <1>3, <1>4, <1>a, WorkerStep

LEMMA WorkerExitStep == ASSUME PipelineInv, NEW w \in Workers, WorkerExit(w) PROVE PipelineInv'
<1> USE DEF places, watching, pool, routing, accidents, mishaps
<1>a. /\ wpc' = [wpc EXCEPT ![w] = "exit"] /\ job' = [job EXCEPT ![w] = NoJob]
      /\ phase # "run"
      /\ UNCHANGED <<places, watching, rescan, input, output, routing, orphans, alive, phase,
                     accidents>>
  BY DEF WorkerExit
<1>b. /\ job \in [Workers -> Reqs \cup Resps \cup {NoJob}]
      /\ wpc \in [Workers -> {"idle", "scan", "send", "exit"}]
  BY DEF PipelineInv, PipelineTypeOK
<1>1. PipelineTypeOK'
  <2>1. /\ wpc' \in [Workers -> {"idle", "scan", "send", "exit"}]
        /\ job' \in [Workers -> Reqs \cup Resps \cup {NoJob}]
        /\ \A u \in Workers : /\ wpc'[u] = "scan" => job'[u] \in Reqs
                              /\ wpc'[u] = "send" => job'[u] \in Resps
                              /\ wpc'[u] \in {"idle", "exit"} => job'[u] = NoJob
    BY <1>a, <1>b DEF PipelineInv, PipelineTypeOK
  <2> QED BY <1>a, <2>1 DEF PipelineInv, PipelineTypeOK
<1>2. \A i \in PipelineItems : Accounted(i)'
  <2> SUFFICES ASSUME NEW i \in PipelineItems PROVE Accounted(i)'
    OBVIOUS
  <2>1. /\ Count(input', i) = Count(input, i) /\ Count(output', i) = Count(output, i)
        /\ Count(pending', i) = Count(pending, i) /\ Queued(i)' = Queued(i)
        /\ feeder' = feeder
    BY <1>a DEF Queued
  <2>2. /\ OnWorkers(i) \in Nat /\ OnWorkers(i)' \in Nat
        /\ OnWorkers(i) + (IF NoJob # NoJob /\ NoJob.item = i THEN 1 ELSE 0)
             = OnWorkers(i)' + (IF job[w] # NoJob /\ job[w].item = i THEN 1 ELSE 0)
    <3>1. PipelineTypeOK /\ job' = [job EXCEPT ![w] = NoJob]
      BY <1>a DEF PipelineInv
    <3> QED BY ONLY <3>1, w \in Workers, WorkerMoves, Zenon
  <2>3. OnWorkers(i)' <= OnWorkers(i)
    BY <2>2
  <2>4. Copies(i)' <= Copies(i) /\ Copies(i)' \in Nat /\ Copies(i) \in Nat
    BY <2>1, <2>2, <2>3, <1>1, CountersTyped, CountersNext DEF PipelineInv
  <2> QED BY <2>4, <1>a DEF PipelineInv, Accounted
<1>3. Moves
  BY <1>a DEF Moves
<1>4. FromFailed'
  <2>1. \A r \in Reqs \cup Resps : Carries(r)' => Carries(r)
    BY <1>a, <1>b DEF Carries
  <2> QED BY <2>1, <1>3, FromFailedKept DEF PipelineInv
<1>5. Flushed'
  BY <1>3, <1>a, FlushedKept DEF PipelineInv
<1> QED
  BY <1>1, <1>2, <1>4, <1>5 DEF PipelineInv

-----------------------------------------------------------------------------
(* Deliveries.                                                              *)

\* A delivery that succeeds takes the item out of where it was read, and its
\* placeholder with it.
LEMMA FinishRule ==
  ASSUME PipelineInv, NEW r \in Resps, Carries(r), Finish(r)
  PROVE  /\ r.item \in PipelineItems
         /\ place'[r.item] \in {"failed", "gone"} /\ place'[r.item] # r.from
         /\ \A i \in PipelineItems \ {r.item} : place'[i] = place[i]
         /\ announced' = announced \ {r.item}
         /\ Moves
         /\ place' \in [PipelineItems -> {"new", "staging", "failed", "gone"}]
         /\ delivered' \subseteq Resps /\ announced' \subseteq Ordered
<1>1. r.item \in PipelineItems /\ r.from \in Origins
  BY DEF Resps
<1>2. /\ place \in [PipelineItems -> {"new", "staging", "failed", "gone"}]
      /\ delivered \subseteq Resps /\ announced \subseteq Ordered
  BY DEF PipelineInv, PipelineTypeOK
<1>3. r.from = "failed" => place[r.item] \in {"failed", "gone"}
  BY DEF PipelineInv, FromFailed
<1>4. /\ place' = [place EXCEPT ![r.item] = After(r)]
      /\ delivered' = IF place[r.item] = r.from THEN delivered \cup {r} ELSE delivered
      /\ announced' = announced \ {r.item}
  BY DEF Finish
<1>5. /\ After(r) \in {"failed", "gone"} /\ After(r) # r.from
      /\ After(r) = "failed" => place[r.item] = "staging"
  BY <1>1 DEF After, Origins, Finish, Succeeds
<1>6. place'[r.item] = After(r) /\ \A i \in PipelineItems \ {r.item} : place'[i] = place[i]
  BY <1>1, <1>2, <1>4
<1>7. Moves
  BY <1>1, <1>5, <1>6 DEF Moves
<1>8. place' \in [PipelineItems -> {"new", "staging", "failed", "gone"}]
  BY <1>2, <1>4, <1>5
<1>9. delivered' \subseteq Resps /\ announced' \subseteq Ordered
  BY <1>2, <1>4
<1> QED
  BY <1>1, <1>4, <1>5, <1>6, <1>7, <1>8, <1>9

LEMMA AbandonRule ==
  ASSUME PipelineInv, NEW r \in Resps, Abandon(r)
  PROVE  place' = place /\ delivered' = delivered /\ announced' \subseteq announced
BY DEF Abandon

\* A delivery that does not succeed: nothing has moved, and the item is not
\* where it was read or its failure is on record.
LEMMA DeliverErrRule ==
  ASSUME PipelineInv, NEW r \in Resps, Carries(r), DeliverErr(r)
  PROVE  /\ r.item \in PipelineItems
         /\ place' = place /\ delivered' = delivered /\ announced' \subseteq announced
         /\ place[r.item] # "staging" \/ r.item \in erred'
         /\ orphans' \subseteq orphans \cup {r}
         /\ erred \subseteq erred'
         /\ deliveryFaults' \in 0..MaxDeliveryFaults /\ erred' \subseteq PipelineItems
<1>1. r.item \in PipelineItems /\ r.from \in Origins
  BY DEF Resps
<1>2. /\ deliveryFaults \in 0..MaxDeliveryFaults /\ erred \subseteq PipelineItems
      /\ place[r.item] \in {"new", "staging", "failed", "gone"}
  BY <1>1 DEF PipelineInv, PipelineTypeOK
<1>3. DeliveryFault(r.item) \/ UNCHANGED mishaps
  BY DEF DeliverErr
<1>4. /\ deliveryFaults' \in 0..MaxDeliveryFaults /\ erred' \subseteq PipelineItems
      /\ erred \subseteq erred'
  BY <1>1, <1>2, <1>3, FaultTyped
<1>5. place' = place /\ delivered' = delivered /\ announced' \subseteq announced
  BY DEF DeliverErr, Abandon, places
<1>6. orphans' \subseteq orphans \cup {r}
  BY DEF DeliverErr
<1>7. place[r.item] # "staging" \/ r.item \in erred'
  <2>1. CASE DeliveryFault(r.item)
    BY <2>1 DEF DeliveryFault
  <2>2. CASE ~Succeeds(r)
    <3>1. place[r.item] # r.from
      BY <2>2 DEF Succeeds
    <3>2. CASE r.from = "failed"
      BY <3>2 DEF PipelineInv, FromFailed
    <3>3. CASE r.from = "staging"
      BY <3>1, <3>3
    <3> QED BY <1>1, <3>2, <3>3 DEF Origins
  <2> QED BY <2>1, <2>2 DEF DeliverErr
<1> QED
  BY <1>1, <1>4, <1>5, <1>6, <1>7

LEMMA OrphanEndsStep == ASSUME PipelineInv, NEW r \in orphans, OrphanEnds(r) PROVE PipelineInv'
<1> USE DEF places, watching, pool, routing, accidents, mishaps
<1>0. r \in Resps /\ Carries(r)
  BY DEF PipelineInv, PipelineTypeOK, Carries
<1>a. /\ orphans' = orphans \ {r}
      /\ UNCHANGED <<watching, rescan, pool, routing, alive, phase, accidents>>
      /\ Finish(r) \/ Abandon(r)
  BY DEF OrphanEnds
<1>b. /\ place' \in [PipelineItems -> {"new", "staging", "failed", "gone"}]
      /\ delivered' \subseteq Resps /\ announced' \subseteq Ordered
      /\ announced' \subseteq announced /\ Moves
      /\ \A i \in PipelineItems : place'[i] = place[i] \/ place'[i] \in {"failed", "gone"}
  <2>1. CASE Finish(r)
    BY <1>0, <2>1, FinishRule
  <2>2. CASE Abandon(r)
    BY <1>0, <2>2, AbandonRule DEF PipelineInv, PipelineTypeOK, Moves
  <2> QED BY <1>a, <2>1, <2>2
<1>1. PipelineTypeOK'
  BY <1>a, <1>b DEF PipelineInv, PipelineTypeOK
<1>2. \A i \in PipelineItems : Accounted(i)'
  <2> SUFFICES ASSUME NEW i \in PipelineItems PROVE Accounted(i)'
    OBVIOUS
  <2>1. Copies(i)' = Copies(i) /\ Downstream(i)' = Downstream(i)
    BY <1>a DEF Copies, Downstream, InPool, OnWorkers, Queued, Count
  <2> QED BY <2>1, <1>a, <1>b, AccountedKept DEF PipelineInv
<1>3. FromFailed'
  <2>1. \A q \in Reqs \cup Resps : Carries(q)' => Carries(q)
    BY <1>a DEF Carries
  <2> QED BY <2>1, <1>b, FromFailedKept DEF PipelineInv
<1>4. Flushed'
  BY <1>a, <1>b, FlushedKept DEF PipelineInv
<1> QED
  BY <1>1, <1>2, <1>3, <1>4 DEF PipelineInv

\* The router takes a response: an ordered one waits, another is delivered.
LEMMA ConsumeStep == ASSUME PipelineInv, Consume PROVE PipelineInv'
<1> USE DEF places, watching, pool, routing, accidents, mishaps
<1>0. /\ output \in Seq(Resps) /\ output # <<>> /\ pending \in Seq(Resps)
  BY DEF PipelineInv, PipelineTypeOK, Consume
<1>a. PICK r \in Resps : r = Head(output)
  BY <1>0
<1>b. /\ consumer = "select" /\ output' = Tail(output)
      /\ UNCHANGED <<watching, rescan, input, wpc, job, consumer, todo, cur, alive, phase, crashes>>
      /\ \/ /\ r.item \in Ordered /\ pending' = Append(pending, r)
            /\ UNCHANGED <<places, mishaps, orphans>>
         \/ /\ r.item \notin Ordered
            /\ DeliverOk(r) \/ DeliverErr(r)
            /\ UNCHANGED pending
  BY <1>a DEF Consume
<1>c. /\ output' \in Seq(Resps) /\ Len(output') = Len(output) - 1 /\ Len(output) \in Nat
      /\ 1 \in DOMAIN output /\ output[1] = r
      /\ \A n \in DOMAIN output' : \E m \in DOMAIN output : output'[n] = output[m]
  BY <1>0, <1>a, <1>b, ChannelRules
<1>d. Carries(r) /\ r.item \in PipelineItems
  BY <1>c DEF Carries, Resps
<1>e. Len(output') <= ChanCap
  BY <1>c, PipelineAssumption DEF PipelineInv, PipelineTypeOK
<1>f. \A i \in PipelineItems :
        /\ Count(output, i) = Count(output', i) + (IF r.item = i THEN 1 ELSE 0)
        /\ Count(input', i) = Count(input, i) /\ OnWorkers(i)' = OnWorkers(i)
        /\ Queued(i)' = Queued(i) /\ feeder' = feeder
  BY <1>0, <1>a, <1>b, CountTail DEF OnWorkers, Queued
<1>g. Flushed'
  BY <1>b DEF Flushed
<1>1. CASE r.item \in Ordered /\ pending' = Append(pending, r) /\ UNCHANGED <<places, mishaps, orphans>>
  <2>1. PipelineTypeOK'
    <3>1. pending' \in Seq(Resps) /\ DOMAIN pending \subseteq DOMAIN pending'
      BY <1>0, <1>1, ChannelRules
    <3>2. todo' \subseteq DOMAIN pending'
      BY <1>b, <3>1 DEF PipelineInv, PipelineTypeOK
    <3> QED BY <1>1, <1>b, <1>c, <1>e, <3>1, <3>2 DEF PipelineInv, PipelineTypeOK
  <2>2. \A i \in PipelineItems : Accounted(i)'
    <3> SUFFICES ASSUME NEW i \in PipelineItems PROVE Accounted(i)'
      OBVIOUS
    <3>1. Count(pending', i) = Count(pending, i) + (IF r.item = i THEN 1 ELSE 0)
      BY <1>0, <1>1, CountAppend
    <3>2. Count(output', i) \in Nat
      BY <1>c, CountRules
    <3>3. Copies(i)' = Copies(i) /\ Downstream(i)' = Downstream(i)
      BY <1>f, <2>1, <3>1, <3>2, CountersTyped, CountersNext DEF PipelineInv
    <3> QED BY <1>1, <1>b, <3>3, AccountedKept DEF PipelineInv
  <2>3. Moves
    BY <1>1 DEF Moves
  <2>4. FromFailed'
    <3>1. \A n \in DOMAIN pending' : pending'[n] = r \/ (n \in DOMAIN pending /\ pending'[n] = pending[n])
      BY <1>0, <1>1, ChannelRules
    <3>2. \A q \in Reqs \cup Resps : Carries(q)' => Carries(q)
      BY <1>1, <1>b, <1>c, <3>1 DEF Carries
    <3> QED BY <2>3, <3>2, FromFailedKept DEF PipelineInv
  <2> QED BY <1>g, <2>1, <2>2, <2>4 DEF PipelineInv
<1>2. CASE r.item \notin Ordered /\ (DeliverOk(r) \/ DeliverErr(r)) /\ UNCHANGED pending
  <2>a. /\ place' \in [PipelineItems -> {"new", "staging", "failed", "gone"}]
        /\ delivered' \subseteq Resps /\ announced' \subseteq announced /\ Moves
        /\ \A i \in PipelineItems \ {r.item} : place'[i] = place[i]
        /\ place'[r.item] # "staging" \/ r.item \in erred'
        /\ place'[r.item] = place[r.item] \/ place'[r.item] \in {"failed", "gone"}
        /\ orphans' \subseteq orphans \cup {r} /\ erred \subseteq erred'
        /\ deliveryFaults' \in 0..MaxDeliveryFaults /\ erred' \subseteq PipelineItems
    <3>1. CASE DeliverOk(r)
      <4>1. Finish(r) /\ UNCHANGED <<mishaps, orphans>>
        BY <3>1 DEF DeliverOk
      <4> QED BY <1>d, <4>1, FinishRule DEF PipelineInv, PipelineTypeOK
    <3>2. CASE DeliverErr(r)
      BY <1>d, <3>2, DeliverErrRule DEF PipelineInv, PipelineTypeOK, Moves
    <3> QED BY <1>2, <3>1, <3>2
  <2>b. UNCHANGED pending /\ r.item \notin Ordered
    BY <1>2, <1>b
  <2>1. PipelineTypeOK'
    BY <1>b, <1>c, <1>e, <2>a, <2>b DEF PipelineInv, PipelineTypeOK
  <2>2. \A i \in PipelineItems : Accounted(i)'
    <3> SUFFICES ASSUME NEW i \in PipelineItems PROVE Accounted(i)'
      OBVIOUS
    <3>1. Count(output', i) \in Nat /\ Count(pending', i) = Count(pending, i)
      BY <1>c, <2>b, CountRules
    <3>2. /\ Copies(i) = Copies(i)' + (IF r.item = i THEN 1 ELSE 0)
          /\ Downstream(i) = Downstream(i)' + (IF r.item = i THEN 1 ELSE 0)
          /\ Copies(i)' \in Nat /\ Downstream(i)' \in Nat
      BY <1>f, <2>1, <3>1, CountersTyped, CountersNext DEF PipelineInv
    <3>3. CASE i # r.item
      BY <1>b, <2>a, <3>2, <3>3, AccountedKept DEF PipelineInv
    <3>4. CASE i = r.item
      <4>1. i \notin announced'
        BY <2>a, <2>b, <3>4 DEF PipelineInv, PipelineTypeOK
      <4> QED BY <1>b, <2>a, <3>2, <3>4, <4>1 DEF PipelineInv, Accounted
    <3> QED BY <3>3, <3>4
  <2>3. FromFailed'
    <3>1. \A q \in Reqs \cup Resps : Carries(q)' => Carries(q)
      BY <1>b, <1>c, <1>d, <2>a, <2>b DEF Carries
    <3> QED BY <2>a, <3>1, FromFailedKept DEF PipelineInv
  <2> QED BY <1>g, <2>1, <2>2, <2>3 DEF PipelineInv
<1> QED
  BY <1>1, <1>2, <1>b

\* An error ends a flush and leaves the batch.
LEMMA KeepBatchStep ==
  ASSUME PipelineInv, NEW n \in DOMAIN pending, KeepBatch(pending[n]),
         UNCHANGED <<watching, rescan, pool, alive, phase, crashes>>
  PROVE  PipelineInv'
<1> USE DEF watching, pool
<1>0. pending[n] \in Resps /\ Carries(pending[n])
  BY DEF PipelineInv, PipelineTypeOK, Carries
<1>a. /\ DeliverErr(pending[n]) /\ consumer' \in {"done", "select"} /\ todo' = {}
      /\ pending' = pending
  BY DEF KeepBatch, AfterFlush
<1>b. /\ place' = place /\ delivered' = delivered /\ announced' \subseteq announced
      /\ orphans' \subseteq orphans \cup {pending[n]} /\ erred \subseteq erred'
      /\ deliveryFaults' \in 0..MaxDeliveryFaults /\ erred' \subseteq PipelineItems
  BY <1>0, <1>a, DeliverErrRule
<1>1. PipelineTypeOK'
  BY <1>0, <1>a, <1>b DEF PipelineInv, PipelineTypeOK
<1>2. \A i \in PipelineItems : Accounted(i)'
  <2> SUFFICES ASSUME NEW i \in PipelineItems PROVE Accounted(i)'
    OBVIOUS
  <2>1. Copies(i)' = Copies(i) /\ Downstream(i)' = Downstream(i)
    BY <1>a DEF Copies, Downstream, InPool, OnWorkers, Queued, Count
  <2> QED BY <2>1, <1>b, AccountedKept DEF PipelineInv
<1>3. FromFailed'
  <2>1. \A q \in Reqs \cup Resps : Carries(q)' => Carries(q)
    BY <1>a, <1>b DEF Carries
  <2>2. Moves
    BY <1>b DEF Moves
  <2> QED BY <2>1, <2>2, FromFailedKept DEF PipelineInv
<1>4. Flushed'
  BY <1>a DEF Flushed
<1> QED
  BY <1>1, <1>2, <1>3, <1>4 DEF PipelineInv

\* A delivery of a flush that succeeds; the last one empties the batch.
LEMMA FlushOkStep ==
  ASSUME PipelineInv, NEW n \in DOMAIN pending, consumer = "flush", n \in todo,
         DeliverOk(pending[n]), todo' = todo \ {n},
         \/ todo' # {} /\ UNCHANGED <<consumer, pending>>
         \/ todo' = {} /\ consumer' = AfterFlush /\ pending' = <<>>,
         UNCHANGED <<watching, rescan, pool, alive, phase, crashes>>
  PROVE  PipelineInv'
<1> USE DEF watching, pool
<1>0. pending[n] \in Resps /\ Carries(pending[n]) /\ pending \in Seq(Resps)
  BY DEF PipelineInv, PipelineTypeOK, Carries
<1>a. Finish(pending[n]) /\ orphans' = orphans /\ deliveryFaults' = deliveryFaults /\ erred' = erred
  BY DEF DeliverOk, mishaps
<1> DEFINE j == pending[n].item
<1>b. /\ j \in PipelineItems /\ place'[j] \in {"failed", "gone"} /\ place'[j] # pending[n].from
      /\ \A i \in PipelineItems \ {j} : place'[i] = place[i]
      /\ announced' = announced \ {j} /\ Moves
      /\ place' \in [PipelineItems -> {"new", "staging", "failed", "gone"}]
      /\ delivered' \subseteq Resps /\ announced' \subseteq Ordered
  BY <1>0, <1>a, FinishRule
<1>c. consumer' \in {"flush", "done", "select"} /\ (todo' = {} => consumer' # "flush")
  BY DEF AfterFlush
<1>d. \A m \in DOMAIN pending \ todo' :
        /\ place'[pending[m].item] \notin {"new", "staging", pending[m].from}
        /\ pending[m].item \notin announced'
  <2> SUFFICES ASSUME NEW m \in DOMAIN pending \ todo'
               PROVE  /\ place'[pending[m].item] \notin {"new", "staging", pending[m].from}
                      /\ pending[m].item \notin announced'
    OBVIOUS
  <2>1. CASE m = n
    BY <1>b, <2>1
  <2>2. CASE m # n
    <3>1. pending[m].item \in PipelineItems /\ pending[m].from \in Origins
      <4>1. pending[m] \in Resps
        BY <1>0
      <4> QED BY <4>1 DEF Resps
    <3>2. /\ place[pending[m].item] \notin {"new", "staging", pending[m].from}
          /\ pending[m].item \notin announced
      BY <2>2 DEF PipelineInv, Flushed
    <3> QED BY <1>b, <3>1, <3>2 DEF Moves, Origins
  <2> QED BY <2>1, <2>2
<1>1. PipelineTypeOK'
  <2>1. pending' \in Seq(Resps) /\ todo' \subseteq DOMAIN pending'
    <3>1. todo \subseteq DOMAIN pending
      BY DEF PipelineInv, PipelineTypeOK
    <3>2. CASE pending' = pending
      BY <1>0, <3>1, <3>2
    <3>3. CASE todo' = {} /\ pending' = <<>>
      BY <3>3
    <3> QED BY <3>2, <3>3
  <2> QED BY <1>a, <1>b, <1>c, <2>1 DEF PipelineInv, PipelineTypeOK
<1>2. \A i \in PipelineItems : Accounted(i)'
  <2> SUFFICES ASSUME NEW i \in PipelineItems PROVE Accounted(i)'
    OBVIOUS
  <2>1. place'[i] = place[i] \/ place'[i] \in {"failed", "gone"}
    BY <1>b
  <2>2. CASE Count(pending', i) = Count(pending, i)
    <3>1. /\ Count(input', i) = Count(input, i) /\ Count(output', i) = Count(output, i)
          /\ OnWorkers(i)' = OnWorkers(i) /\ Queued(i)' = Queued(i) /\ feeder' = feeder
      BY DEF OnWorkers, Queued
    <3>2. Copies(i)' = Copies(i) /\ Downstream(i)' = Downstream(i)
      BY <1>1, <2>2, <3>1, CountersTyped, CountersNext DEF PipelineInv
    <3> QED BY <1>a, <1>b, <2>1, <3>2, AccountedKept DEF PipelineInv
  <2>3. CASE Count(pending', i) # Count(pending, i)
    <3>1. pending' = <<>> /\ todo' = {}
      BY <2>3
    <3>2. Count(pending, i) \in Nat /\ Count(pending', i) = 0
      BY <1>0, <3>1, CountRules
    <3>3. \E m \in DOMAIN pending : pending[m].item = i
      BY <1>0, <2>3, <3>2, CountRules
    <3>4. place'[i] \notin {"new", "staging"} /\ i \notin announced'
      BY <1>d, <3>1, <3>3
    <3> QED BY <3>4 DEF Accounted
  <2> QED BY <2>2, <2>3
<1>3. FromFailed'
  <2>1. \A q \in Reqs \cup Resps : Carries(q)' => Carries(q)
    BY <1>a DEF Carries
  <2> QED BY <1>b, <2>1, FromFailedKept DEF PipelineInv
<1>4. Flushed'
  BY <1>c, <1>d DEF Flushed
<1> QED
  BY <1>1, <1>2, <1>3, <1>4 DEF PipelineInv

LEMMA FlushOneStep == ASSUME PipelineInv, NEW n \in DOMAIN pending, FlushOne(n) PROVE PipelineInv'
<1>1. /\ consumer = "flush" /\ n \in todo
      /\ UNCHANGED <<watching, rescan, pool, alive, phase, crashes>>
  BY DEF FlushOne, NextInFlush
<1>2. CASE KeepBatch(pending[n])
  BY <1>1, <1>2, KeepBatchStep
<1>3. CASE /\ DeliverOk(pending[n]) /\ todo' = todo \ {n}
           /\ \/ todo' # {} /\ UNCHANGED <<consumer, pending>>
              \/ todo' = {} /\ consumer' = AfterFlush /\ pending' = <<>>
  BY <1>1, <1>3, FlushOkStep
<1> QED
  BY <1>2, <1>3 DEF FlushOne

-----------------------------------------------------------------------------
(* Shutdown, restart and the theorems.                                      *)

LEMMA StopSteps == ASSUME PipelineInv, Clean \/ Exit PROVE PipelineInv'
<1> USE DEF places, watching, pool, routing, accidents, mishaps
<1>a. /\ place' = place /\ delivered' = delivered /\ announced' \subseteq announced
      /\ UNCHANGED <<seen, dispatch, pool, routing, accidents>>
      /\ feeder' \in {feeder, EmptyHand} /\ rescan' \subseteq rescan
      /\ orphans' \subseteq orphans /\ alive' \subseteq alive /\ phase' \in {"exit", "stopped"}
  BY DEF Clean, Exit
<1>1. PipelineTypeOK'
  BY <1>a DEF PipelineInv, PipelineTypeOK
<1>2. \A i \in PipelineItems : Accounted(i)'
  <2> SUFFICES ASSUME NEW i \in PipelineItems PROVE Accounted(i)'
    OBVIOUS
  <2>1. /\ Count(input', i) = Count(input, i) /\ Count(output', i) = Count(output, i)
        /\ OnWorkers(i)' = OnWorkers(i) /\ Queued(i)' = Queued(i)
        /\ Count(pending', i) = Count(pending, i)
    BY <1>a DEF OnWorkers, Queued
  <2>2. feeder' = i => feeder = i
    BY <1>a, PipelineAssumption
  <2>3. Copies(i)' <= Copies(i) /\ Copies(i)' \in Nat /\ Copies(i) \in Nat
    BY <1>1, <2>1, <2>2, CountersTyped, CountersNext DEF PipelineInv
  <2> QED BY <1>a, <2>3 DEF PipelineInv, Accounted
<1>3. Moves
  BY <1>a DEF Moves
<1>4. FromFailed'
  <2>1. \A q \in Reqs \cup Resps : Carries(q)' => Carries(q)
    BY <1>a DEF Carries
  <2> QED BY <1>3, <2>1, FromFailedKept DEF PipelineInv
<1>5. Flushed'
  BY <1>3, <1>a, FlushedKept DEF PipelineInv
<1> QED
  BY <1>1, <1>2, <1>4, <1>5 DEF PipelineInv

\* A fresh process has nothing in hand.
LEMMA NothingInHand ==
  ASSUME NEW i \in PipelineItems
  PROVE  /\ Waiting(<<>>, i) = 0 /\ Count(<<>>, i) = 0 /\ EmptyHand # i
         /\ Cardinality({w \in Workers : [u \in Workers |-> NoJob][w] # NoJob
                                         /\ [u \in Workers |-> NoJob][w].item = i}) = 0
<1>1. Waiting(<<>>, i) = 0 /\ Count(<<>>, i) = 0
  <2>1. <<>> \in Seq({})
    OBVIOUS
  <2> QED BY <2>1, WaitingRules, CountRules
<1>2. {w \in Workers : [u \in Workers |-> NoJob][w] # NoJob
                       /\ [u \in Workers |-> NoJob][w].item = i} = {}
  OBVIOUS
<1> QED
  BY <1>1, <1>2, FS_EmptySet, PipelineAssumption

LEMMA RestartStep == ASSUME PipelineInv, Restart PROVE PipelineInv'
<1>1. PipelineTypeOK'
  <2>1. MaxCrashes \in Nat
    BY PipelineAssumption
  <2>2. crashes' \in 0..MaxCrashes
    BY <2>1 DEF PipelineInv, PipelineTypeOK, Restart
  <2>3. /\ QueueCap \in Nat /\ ChanCap \in Nat
        /\ dispatch' = <<>> /\ input' = <<>> /\ output' = <<>> /\ pending' = <<>>
    BY PipelineAssumption DEF Restart
  <2>4. /\ dispatch' \in Seq(PipelineItems) /\ Len(dispatch') <= QueueCap
        /\ input' \in Seq(Reqs) /\ Len(input') <= ChanCap
        /\ output' \in Seq(Resps) /\ Len(output') <= ChanCap /\ pending' \in Seq(Resps)
    BY <2>3
  <2> QED BY <2>2, <2>4 DEF PipelineInv, PipelineTypeOK, Restart
<1>2. \A i \in PipelineItems : Accounted(i)'
  <2> SUFFICES ASSUME NEW i \in PipelineItems PROVE Accounted(i)'
    OBVIOUS
  <2>1. /\ Waiting(dispatch', i) = 0 /\ Count(input', i) = 0 /\ Count(output', i) = 0
        /\ Count(pending', i) = 0 /\ feeder' # i /\ OnWorkers(i)' = 0
    BY NothingInHand DEF Restart, OnWorkers
  <2>2. Copies(i)' = 0
    BY <1>1, <2>1, CountersNext
  <2> QED BY <2>2 DEF Accounted, Restart
<1>3. FromFailed'
  <2>1. \A q \in Reqs \cup Resps : ~Carries(q)'
    BY DEF Carries, Restart
  <2> QED BY <2>1 DEF FromFailed
<1>4. Flushed'
  BY DEF Flushed, Restart
<1> QED
  BY <1>1, <1>2, <1>3, <1>4 DEF PipelineInv

LEMMA PipelineStart == PipelineInit => PipelineInv
<1> SUFFICES ASSUME PipelineInit PROVE PipelineInv
  OBVIOUS
<1>1. PipelineTypeOK
  <2>1. /\ QueueCap \in Nat /\ ChanCap \in Nat /\ MaxCrashes \in Nat /\ MaxDeliveryFaults \in Nat
        /\ dispatch = <<>> /\ input = <<>> /\ output = <<>> /\ pending = <<>>
    BY PipelineAssumption DEF PipelineInit, NewProcess
  <2>2. /\ dispatch \in Seq(PipelineItems) /\ Len(dispatch) <= QueueCap
        /\ input \in Seq(Reqs) /\ Len(input) <= ChanCap
        /\ output \in Seq(Resps) /\ Len(output) <= ChanCap /\ pending \in Seq(Resps)
    BY <2>1
  <2> QED BY <2>1, <2>2 DEF PipelineInit, NewProcess, PipelineTypeOK
<1>2. \A i \in PipelineItems : Accounted(i)
  <2> SUFFICES ASSUME NEW i \in PipelineItems PROVE Accounted(i)
    OBVIOUS
  <2>1. /\ Waiting(dispatch, i) = 0 /\ Count(input, i) = 0 /\ Count(output, i) = 0
        /\ Count(pending, i) = 0 /\ feeder # i /\ OnWorkers(i) = 0
    BY NothingInHand DEF PipelineInit, NewProcess, OnWorkers
  <2>2. Copies(i) = 0
    BY <1>1, <2>1, CountersTyped
  <2> QED BY <2>2 DEF Accounted, PipelineInit, NewProcess
<1>3. FromFailed
  <2>1. \A q \in Reqs \cup Resps : ~Carries(q)
    BY DEF Carries, PipelineInit, NewProcess
  <2> QED BY <2>1 DEF FromFailed
<1>4. Flushed
  BY DEF Flushed, PipelineInit, NewProcess
<1> QED
  BY <1>1, <1>2, <1>3, <1>4 DEF PipelineInv

LEMMA PipelineStep == PipelineInv /\ [PipelineNext]_pipelineVars => PipelineInv'
<1> SUFFICES ASSUME PipelineInv, [PipelineNext]_pipelineVars PROVE PipelineInv'
  OBVIOUS
<1>1. CASE UNCHANGED pipelineVars
  <2>1. UNCHANGED <<places, watching, rescan, pool, routing, orphans, alive, phase, accidents>>
    BY <1>1 DEF pipelineVars
  <2>2. PipelineTypeOK'
    BY <2>1 DEF PipelineInv, PipelineTypeOK, places, watching, pool, routing, accidents, mishaps
  <2> QED BY <2>1, <2>2, QuietStep DEF routing, accidents, mishaps
<1>2. CASE PipelineNext
  BY <1>2, ArrivesStep, DispatchStep, PruneSeenStep, FeedStep, FeedSendStep, RescanSendStep,
     TakeStep, ScanStep, SendStep, WorkerExitStep, ConsumeStep, FlushOneStep, OrphanEndsStep,
     QuietSteps, StopSteps, RestartStep
     DEF PipelineNext
<1> QED
  BY <1>1, <1>2

\* The inductive invariant: every item is accounted for, in the queue, at the
\* feeder, in the pool or with the router, in every reachable state.
THEOREM PipelineInvHolds == PipelineSpec => []PipelineInv
<1>1. PipelineInit => PipelineInv
  BY PipelineStart
<1>2. PipelineInv /\ [PipelineNext]_pipelineVars => PipelineInv'
  BY PipelineStep
<1> QED
  BY <1>1, <1>2, PTL DEF PipelineSpec

\* Nothing the watcher has seen is forgotten, nothing in staging is under way
\* twice, and every placeholder of a running process announces an item under
\* way (dispatchIfNew, pruneSeen, ConsumeResults, Router.Flush): for any sizes
\* of the queues and channels, any number of workers, failures and restarts.
THEOREM PipelineIsSafe == PipelineSpec => []PipelineSafe
<1>1. PipelineInv => PipelineSafe
  <2> SUFFICES ASSUME PipelineInv PROVE PipelineSafe
    OBVIOUS
  <2>1. PipelineTypeOK /\ \A i \in PipelineItems : Accounted(i)
    BY DEF PipelineInv
  <2>2. seen \subseteq PipelineItems /\ announced \subseteq PipelineItems
    BY <2>1, PipelineAssumption DEF PipelineTypeOK
  <2>3. Tracked
    BY <2>1, <2>2 DEF Tracked, Accounted
  <2>4. SoleCopy
    BY <2>1 DEF SoleCopy, Accounted
  <2>5. PlaceholderTracked
    <3> SUFFICES ASSUME phase = "run", NEW i \in announced PROVE Copies(i) > 0
      BY DEF PlaceholderTracked
    <3>1. Downstream(i) > 0
      BY <2>1, <2>2 DEF Accounted
    <3> QED BY <2>1, <3>1, CountersTyped
  <2> QED BY <2>1, <2>3, <2>4, <2>5 DEF PipelineSafe
<1>2. PipelineSpec => []PipelineInv
  BY PipelineInvHolds
<1> QED
  BY <1>1, <1>2, PTL

\* A flush delivers the items it holds for an agent in the order of their
\* names (Router.Flush), also when a delivery of the batch failed before.
LEMMA OrderStep ==
  ASSUME PipelineInv, PipelineNext,
         NEW r \in delivered' \ delivered, r.item \in Ordered, orphans' = orphans,
         NEW m \in DOMAIN pending, pending[m].item < r.item,
         Dest[pending[m].item] = Dest[r.item]
  PROVE  place[pending[m].item] # pending[m].from
<1> USE DEF places
<1>1. CASE Consume
  <2>1. delivered' \ delivered \subseteq {Head(output)} /\ Head(output).item \notin Ordered
    BY <1>1 DEF Consume, DeliverOk, DeliverErr, Finish, Abandon
  <2> QED BY <2>1
<1>2. CASE \E n \in DOMAIN pending : FlushOne(n)
  <2>1. PICK n \in DOMAIN pending : FlushOne(n)
    BY <1>2
  <2>2. r = pending[n] /\ consumer = "flush" /\ NextInFlush(n)
    BY <2>1 DEF FlushOne, KeepBatch, DeliverOk, DeliverErr, Finish, Abandon
  <2>3. m \notin todo
    <3>1. pending[m].item \in Nat /\ pending[n].item \in Nat
      <4>1. pending[m] \in Resps /\ pending[n] \in Resps
        BY DEF PipelineInv, PipelineTypeOK
      <4> QED BY <4>1, PipelineAssumption DEF Resps
    <3> QED BY <2>2, <3>1 DEF NextInFlush
  <2> QED BY <2>2, <2>3 DEF PipelineInv, Flushed
<1>3. CASE \E q \in orphans : OrphanEnds(q)
  BY <1>3 DEF OrphanEnds
<1>4. CASE ~Consume /\ ~(\E n \in DOMAIN pending : FlushOne(n)) /\ ~(\E q \in orphans : OrphanEnds(q))
  <2>1. delivered' = delivered
    BY <1>4 DEF PipelineNext, Arrives, DispatchIfNew, PruneSeen, Feed, FeedSend, RescanTick,
                RescanSend, Take, Scan, Send, WorkerExit, FlushTick, LoopExit, Cancel,
                FinalFlush, Clean, Exit, Restart
  <2> QED BY <2>1
<1> QED
  BY <1>1, <1>2, <1>3, <1>4

\* The action property of the runs, for every step of every behaviour: what a
\* flush delivers for an agent comes after what it holds with smaller names.
THEOREM FlushKeepsOrder == PipelineSpec => HeldOrder
<1>1. PipelineInv /\ [PipelineNext]_pipelineVars =>
        [\A r \in delivered' \ delivered :
           r.item \in Ordered /\ orphans' = orphans =>
             \A m \in DOMAIN pending :
               (pending[m].item < r.item /\ Dest[pending[m].item] = Dest[r.item])
                 => place[pending[m].item] # pending[m].from]_pipelineVars
  BY OrderStep
<1>2. PipelineSpec => []PipelineInv
  BY PipelineInvHolds
<1> QED
  BY <1>1, <1>2, PTL DEF PipelineSpec, HeldOrder

-----------------------------------------------------------------------------
(* The intake. *)

\* A slot whose request is at a step of the handler holds a request.
LEMMA Busy ==
  ASSUME ServerType, NEW s \in Slots, req[s].step # "free"
  PROVE  /\ req[s] \in IngestRequest /\ req[s] # Free
         /\ req[s].conn \in Conns /\ req[s].entry \in 1..Entries
         /\ req[s].step \in IngestSteps
<1>1. req[s] # Free
  BY DEF Free
<1>2. req[s] \in IngestRequest
  BY <1>1 DEF ServerType
<1> QED
  BY <1>1, <1>2 DEF IngestRequest

LEMMA InitInv == IntakeInit => Inv
<1> SUFFICES ASSUME IntakeInit PROVE Inv
  OBVIOUS
<1>1. IsFiniteSet(staged)
  BY FS_EmptySet DEF IntakeInit
<1>2. IntakeTypeOK
  BY <1>1, IntakeAssumption DEF IntakeInit, IntakeTypeOK, ClientType, ServerType
<1>3. Sending /\ Awaited /\ Confirmed /\ NoGap
  BY IntakeAssumption DEF IntakeInit, Sending, Awaited, Confirmed, NoGap, Free
<1> QED
  BY <1>2, <1>3 DEF Inv

\* A step of connector c alone, after which it waits for no answer and has no
\* checkpoint to save.
LEMMA ConnectorFrame ==
  ASSUME Inv, ClientType', intakeFaults' \in 0..MaxIntakeFaults, UNCHANGED server,
         NEW c \in Conns,
         \A d \in Conns \ {c} : /\ cpc'[d] = cpc[d] /\ entry'[d] = entry[d]
                               /\ waits'[d] = waits[d]
                               /\ memory'[d] = memory[d] /\ onDisk'[d] = onDisk[d],
         waits'[c] = {}, cpc'[c] # "save",
         cpc'[c] # "idle" => entry'[c] = memory'[c] + 1 /\ entry'[c] <= Entries,
         \A e \in 1..Entries :
           e <= memory'[c] \/ e <= onDisk'[c] => accepted[c][e] > 0
  PROVE  Inv'
<1>1. IntakeTypeOK'
  BY DEF Inv, IntakeTypeOK, ServerType, server
<1>2. Sending'
  BY DEF Inv, Sending
<1>3. Awaited'
  BY DEF Inv, Awaited, server
<1>4. Confirmed'
  BY DEF Inv, Confirmed, server
<1>5. NoGap'
  BY DEF Inv, NoGap, server
<1> QED
  BY <1>1, <1>2, <1>3, <1>4, <1>5 DEF Inv

\* What the invariant says of one connector.
LEMMA OfConnector ==
  ASSUME Inv, NEW c \in Conns
  PROVE  /\ ClientType /\ intakeFaults \in 0..MaxIntakeFaults
         /\ cpc[c] # "idle" => /\ entry[c] = memory[c] + 1
                               /\ entry[c] \in 1..Entries
         /\ cpc[c] # "wait" => waits[c] = {}
         /\ \A e \in 1..Entries :
              e <= memory[c] \/ e <= onDisk[c] => accepted[c][e] > 0
         /\ cpc[c] = "save" => accepted[c][entry[c]] > 0
<1>1. ClientType /\ intakeFaults \in 0..MaxIntakeFaults
  BY DEF Inv, IntakeTypeOK
<1>2. cpc[c] # "idle" => /\ entry[c] = memory[c] + 1
                         /\ entry[c] \in 1..Entries
  BY <1>1, IntakeAssumption DEF Inv, Sending, ClientType
<1> QED
  BY <1>1, <1>2 DEF Inv, Awaited, NoGap, Confirmed

LEMMA PollStep ==
  ASSUME Inv, NEW c \in Conns, Poll(c)
  PROVE  Inv'
<1>1. ClientType'
  BY OfConnector, IntakeAssumption DEF Poll, Commit, ClientType
<1> QED
  BY <1>1, OfConnector, ConnectorFrame, IntakeAssumption
     DEF Poll, Commit, ClientType

LEMMA NoAnswerStep ==
  ASSUME Inv, NEW c \in Conns, NoAnswer(c)
  PROVE  Inv'
<1>0. ClientType /\ intakeFaults \in 0..MaxIntakeFaults
  BY OfConnector
<1>1. ClientType'
  <2>1. CASE attempt[c] < RetryMax
    BY <1>0, <2>1, IntakeAssumption DEF NoAnswer, Retry, EndPoll, ClientType
  <2>2. CASE attempt[c] = RetryMax
    BY <1>0, <2>2, IntakeAssumption DEF NoAnswer, Retry, EndPoll, ClientType
  <2> QED
    BY <1>0, <2>1, <2>2 DEF NoAnswer, Retry
<1> QED
  BY <1>1, OfConnector, ConnectorFrame, IntakeAssumption
     DEF NoAnswer, Retry, EndPoll, ClientType

LEMMA TimeoutStep ==
  ASSUME Inv, NEW c \in Conns, Timeout(c)
  PROVE  Inv'
<1>1. ClientType' /\ intakeFaults' \in 0..MaxIntakeFaults
  BY OfConnector, IntakeAssumption DEF Timeout, IntakeFault, ClientType
<1> QED
  BY <1>1, OfConnector, ConnectorFrame, IntakeAssumption
     DEF Timeout, IntakeFault, ClientType

LEMMA ConnectorCrashStep ==
  ASSUME Inv, NEW c \in Conns, ConnectorCrash(c)
  PROVE  Inv'
<1>1. ClientType' /\ intakeFaults' \in 0..MaxIntakeFaults
  BY OfConnector, IntakeAssumption DEF ConnectorCrash, EndPoll, IntakeFault, ClientType
<1> QED
  BY <1>1, OfConnector, ConnectorFrame, IntakeAssumption
     DEF ConnectorCrash, EndPoll, IntakeFault, ClientType

\* A checkpoint is saved for an entry that has become an item.
LEMMA SaveStep ==
  ASSUME Inv, NEW c \in Conns, Save(c)
  PROVE  Inv'
<1>1. /\ ClientType /\ intakeFaults \in 0..MaxIntakeFaults
      /\ entry[c] = memory[c] + 1 /\ entry[c] \in 1..Entries
      /\ waits[c] = {} /\ accepted[c][entry[c]] > 0
      /\ \A e \in 1..Entries :
           e <= memory[c] \/ e <= onDisk[c] => accepted[c][e] > 0
  BY OfConnector DEF Save
<1>2. /\ memory' = [memory EXCEPT ![c] = entry[c]]
      /\ UNCHANGED <<waits, server>>
      /\ onDisk' = [onDisk EXCEPT ![c] = entry[c]] \/ onDisk' = onDisk
  BY DEF Save
<1>3. /\ cpc' = [cpc EXCEPT ![c] = "post"] \/ cpc' = [cpc EXCEPT ![c] = "idle"]
      /\ cpc'[c] = "post" =>
           /\ entry' = [entry EXCEPT ![c] = entry[c] + 1] /\ entry[c] < Entries
      /\ cpc'[c] = "idle" => entry' = entry
  BY <1>1 DEF Save, NextEntry, Commit, EndPoll, ClientType
<1>4. ClientType' /\ intakeFaults' \in 0..MaxIntakeFaults
  BY <1>1, IntakeAssumption DEF Save, NextEntry, Commit, EndPoll, IntakeFault, ClientType
<1>5. \A e \in 1..Entries :
        e <= memory'[c] \/ e <= onDisk'[c] => accepted[c][e] > 0
  BY <1>1, <1>2, IntakeAssumption DEF ClientType
<1>6. \A d \in Conns \ {c} : /\ cpc'[d] = cpc[d] /\ entry'[d] = entry[d]
                            /\ waits'[d] = waits[d]
                            /\ memory'[d] = memory[d] /\ onDisk'[d] = onDisk[d]
  BY <1>1, <1>2, <1>3 DEF ClientType
<1>7. /\ waits'[c] = {} /\ cpc'[c] # "save"
      /\ cpc'[c] # "idle" => entry'[c] = memory'[c] + 1 /\ entry'[c] <= Entries
  BY <1>1, <1>2, <1>3, IntakeAssumption DEF ClientType
<1> QED
  BY <1>2, <1>4, <1>5, <1>6, <1>7, ConnectorFrame

\* A post takes a slot no connector waits for.
LEMMA PostStep ==
  ASSUME Inv, NEW c \in Conns, Post(c)
  PROVE  Inv'
<1>1. /\ ClientType /\ intakeFaults \in 0..MaxIntakeFaults /\ waits[c] = {}
      /\ entry[c] = memory[c] + 1 /\ entry[c] \in 1..Entries
      /\ \A e \in 1..Entries :
           e <= memory[c] \/ e <= onDisk[c] => accepted[c][e] > 0
  BY OfConnector DEF Post
<1>2. CASE IntakeFault /\ Retry(c) /\ UNCHANGED <<waits, req>>
  <2>1. ClientType' /\ intakeFaults' \in 0..MaxIntakeFaults
    BY <1>1, <1>2, IntakeAssumption DEF Post, IntakeFault, Retry, EndPoll, ClientType
  <2>2. UNCHANGED server
    BY <1>2 DEF Post, server
  <2> QED
    BY <1>1, <1>2, <2>1, <2>2, ConnectorFrame DEF Post, Retry, EndPoll, ClientType
<1>3. ASSUME NEW s \in Slots, req[s] = Free,
             req' = [req EXCEPT ![s] = [conn |-> c, entry |-> entry[c],
                                        step |-> "check"]],
             waits' = [waits EXCEPT ![c] = {s}],
             cpc' = [cpc EXCEPT ![c] = "wait"],
             UNCHANGED <<entry, attempt, intakeFaults>>
      PROVE  Inv'
  <2>0. UNCHANGED <<fetched, memory, onDisk, tmp, staged, accepted, depth>>
    BY DEF Post
  <2>1. ClientType'
    BY <1>1, <1>3, <2>0 DEF ClientType
  <2>2. /\ req \in [Slots -> IngestRequest \cup {Free}]
        /\ [conn |-> c, entry |-> entry[c], step |-> "check"] \in IngestRequest
    BY <1>1 DEF Inv, IntakeTypeOK, ServerType, IngestRequest, IngestSteps
  <2>3. req' \in [Slots -> IngestRequest \cup {Free}]
    BY <1>3, <2>2
  <2>4. IntakeTypeOK'
    BY <1>3, <2>0, <2>1, <2>3 DEF Inv, IntakeTypeOK, ServerType
  <2>5. /\ \A r \in Slots \ {s} : req'[r] = req[r]
        /\ req'[s].conn = c /\ req'[s].entry = entry[c]
        /\ req'[s].step = "check" /\ req'[s] # Free
    BY <1>3, <2>2 DEF Free
  <2>6. Sending'
    BY <1>1, <1>3, <2>0 DEF Inv, Sending, ClientType
  <2>7. NoGap'
    BY <2>0 DEF Inv, NoGap
  <2>8. ASSUME NEW d \in Conns, NEW r \in waits'[d]
        PROVE  /\ cpc'[d] = "wait"
               /\ req'[r] # Free /\ req'[r].conn = d /\ req'[r].entry = entry'[d]
    <3>1. CASE d = c
      BY <1>1, <1>3, <2>5, <2>8, <3>1 DEF ClientType
    <3>2. CASE d # c
      <4>1. r \in waits[d] /\ cpc'[d] = cpc[d] /\ r \in Slots
        BY <1>1, <1>3, <2>8, <3>2 DEF ClientType
      <4>2. req[r] # Free /\ cpc[d] = "wait" /\ req[r].conn = d
            /\ req[r].entry = entry[d]
        BY <4>1 DEF Inv, Awaited
      <4> QED
        BY <1>3, <2>5, <4>1, <4>2
    <3> QED
      BY <3>1, <3>2
  <2>9. Awaited'
    BY <2>8 DEF Awaited
  <2>10. Confirmed'
    BY <1>1, <1>3, <2>0, <2>5 DEF Inv, Confirmed, ClientType
  <2> QED
    BY <2>4, <2>6, <2>7, <2>9, <2>10 DEF Inv
<1> QED
  BY <1>2, <1>3 DEF Post

\* The steps of a handler up to its answer, the rename apart.
LEMMA HandlerStep ==
  ASSUME Inv, NEW s \in Slots,
         CheckRequest(s) \/ WriteItem(s) \/ WriteFails(s) \/ CountUp(s)
  PROVE  Inv'
<1>0. ClientType /\ ServerType /\ intakeFaults \in 0..MaxIntakeFaults
  BY DEF Inv, IntakeTypeOK
<1>1. /\ req[s] \in IngestRequest /\ req[s] # Free
      /\ req[s].conn \in Conns /\ req[s].entry \in 1..Entries
  BY <1>0, Busy DEF CheckRequest, WriteItem, WriteFails, CountUp, At
<1>2. PICK next \in IngestSteps :
        /\ req' = [req EXCEPT ![s].step = next]
        /\ next = "202" => req[s].step = "count"
        /\ next # "count"
  <2>1. CASE CheckRequest(s)
    BY <2>1 DEF CheckRequest, ToStep, IngestSteps
  <2>2. CASE WriteItem(s)
    BY <2>2 DEF WriteItem, ToStep, IngestSteps
  <2>3. CASE WriteFails(s)
    BY <2>3 DEF WriteFails, ToStep, IngestSteps
  <2>4. CASE CountUp(s)
    BY <2>4 DEF CountUp, At, ToStep, IngestSteps
  <2> QED
    BY <2>1, <2>2, <2>3, <2>4
<1>3. UNCHANGED <<client, memory, onDisk, staged, accepted>>
  BY DEF CheckRequest, WriteItem, WriteFails, CountUp
<1>4. \A r \in Slots \ {s} : req'[r] = req[r]
  BY <1>0, <1>2 DEF ServerType
<1>5. req'[s] = [req[s] EXCEPT !.step = next]
  BY <1>0, <1>2 DEF ServerType
<1>6. /\ req'[s] \in IngestRequest /\ req'[s].conn = req[s].conn
      /\ req'[s].entry = req[s].entry /\ req'[s].step = next
  BY <1>1, <1>5 DEF IngestRequest
<1>7. req'[s] # Free
  BY <1>6 DEF Free, IngestSteps
<1>8. req' \in [Slots -> IngestRequest \cup {Free}]
  BY <1>0, <1>2, <1>4, <1>6 DEF ServerType
<1>9. tmp' \subseteq Slots /\ intakeFaults' \in 0..MaxIntakeFaults
  BY <1>0, IntakeAssumption
     DEF CheckRequest, WriteItem, WriteFails, CountUp, IntakeFault, ServerType
<1>10. depth' \in [Listeners -> Nat]
  <2>1. Via[req[s].conn] \in Listeners
    BY <1>1, IntakeAssumption
  <2>2. CASE CountUp(s)
    BY <1>0, <2>1, <2>2 DEF CountUp, ServerType
  <2>3. CASE depth' = depth
    BY <1>0, <2>3 DEF ServerType
  <2> QED
    BY <2>2, <2>3 DEF CheckRequest, WriteItem, WriteFails
<1>11. IntakeTypeOK'
  BY <1>0, <1>3, <1>8, <1>9, <1>10 DEF IntakeTypeOK, ClientType, ServerType, client
<1>12. Sending' /\ NoGap'
  BY <1>3 DEF Inv, client, Sending, NoGap
<1>13. Awaited'
  BY <1>0, <1>3, <1>4, <1>6, <1>7 DEF Inv, client, Awaited, ClientType
<1>14. Confirmed'
  BY <1>2, <1>3, <1>4, <1>6 DEF Inv, client, Confirmed
<1> QED
  BY <1>11, <1>12, <1>13, <1>14 DEF Inv

\* The rename makes an item of the entry.
LEMMA RenameStep ==
  ASSUME Inv, NEW s \in Slots, RenameItem(s)
  PROVE  Inv'
<1> DEFINE c == req[s].conn
           e == req[s].entry
<1>0. ClientType /\ ServerType /\ intakeFaults \in 0..MaxIntakeFaults
  BY DEF Inv, IntakeTypeOK
<1>1. req[s] \in IngestRequest /\ req[s] # Free /\ c \in Conns /\ e \in 1..Entries
  BY <1>0, Busy DEF RenameItem, At
<1>2. /\ accepted' = [accepted EXCEPT ![c][e] = @ + 1]
      /\ staged' = staged \cup {<<c, e, accepted[c][e]>>}
      /\ tmp' = tmp \ {s}
      /\ req' = [req EXCEPT ![s].step = "count"]
      /\ UNCHANGED <<client, memory, onDisk, depth, intakeFaults>>
  BY DEF RenameItem, ToStep
<1>3. req'[s] = [req[s] EXCEPT !.step = "count"]
  BY <1>0, <1>2 DEF ServerType
<1>4. /\ req'[s] \in IngestRequest /\ req'[s].conn = c /\ req'[s].entry = e
      /\ req'[s].step = "count"
  BY <1>1, <1>3 DEF IngestRequest, IngestSteps
<1>5. req'[s] # Free
  BY <1>4 DEF Free
<1>6. \A r \in Slots \ {s} : req'[r] = req[r]
  BY <1>0, <1>2 DEF ServerType
<1>7. req' \in [Slots -> IngestRequest \cup {Free}]
  BY <1>0, <1>2, <1>4, <1>6 DEF ServerType
<1> HIDE DEF c, e
<1>8. /\ accepted' \in [Conns -> [1..Entries -> Nat]]
      /\ accepted'[c][e] > 0
      /\ \A d \in Conns : \A f \in 1..Entries :
           accepted[d][f] > 0 => accepted'[d][f] > 0
  <2>1. accepted \in [Conns -> [1..Entries -> Nat]]
    BY <1>0 DEF ServerType
  <2>2. accepted' = [accepted EXCEPT ![c] = [accepted[c] EXCEPT ![e] = accepted[c][e] + 1]]
    BY <1>1, <1>2, <2>1
  <2>a. accepted[c] \in [1..Entries -> Nat]
    BY <1>1, <2>1
  <2>b. accepted[c][e] \in Nat
    BY <1>1, <2>a
  <2>3. /\ accepted[c] \in [1..Entries -> Nat] /\ accepted[c][e] + 1 \in Nat
        /\ accepted[c][e] + 1 > 0
    BY <2>a, <2>b
  <2>4. [accepted[c] EXCEPT ![e] = accepted[c][e] + 1] \in [1..Entries -> Nat]
    BY <2>3
  <2>5. accepted' \in [Conns -> [1..Entries -> Nat]]
    BY <2>1, <2>2, <2>4
  <2>6. /\ accepted'[c][e] = accepted[c][e] + 1
        /\ \A d \in Conns : \A f \in 1..Entries :
             accepted'[d][f] = accepted[d][f] \/ (d = c /\ f = e)
    BY <1>1, <2>1, <2>2
  <2> QED
    BY <2>3, <2>5, <2>6
<1>9. staged' \subseteq Conns \X (1..Entries) \X Nat /\ IsFiniteSet(staged')
  <2>1. IsFiniteSet(staged')
    BY <1>0, <1>2, FS_AddElement DEF ServerType
  <2>2. accepted[c][e] \in Nat
    BY <1>0, <1>1 DEF ServerType
  <2> QED
    BY <1>0, <1>1, <1>2, <2>1, <2>2 DEF ServerType
<1>10. IntakeTypeOK'
  BY <1>0, <1>2, <1>7, <1>8, <1>9 DEF IntakeTypeOK, ClientType, ServerType, client
<1>11. Sending'
  BY <1>2 DEF Inv, client, Sending
<1>12. NoGap'
  BY <1>2, <1>8 DEF Inv, NoGap
<1>13. Awaited'
  BY <1>0, <1>2, <1>4, <1>5, <1>6 DEF Inv, client, Awaited, ClientType, c, e
<1>14. ASSUME NEW r \in Slots, req'[r].step \in {"count", "202"}
       PROVE  accepted'[req'[r].conn][req'[r].entry] > 0
  <2>1. CASE r = s
    BY <2>1, <1>4, <1>8
  <2>2. CASE r # s
    <3>1. req'[r] = req[r] /\ accepted[req[r].conn][req[r].entry] > 0
      BY <2>2, <1>6, <1>14 DEF Inv, Confirmed
    <3>2. req[r].conn \in Conns /\ req[r].entry \in 1..Entries
      BY <3>1, <1>0, <1>14, Busy
    <3> QED
      BY <3>1, <3>2, <1>8
  <2> QED
    BY <2>1, <2>2
<1>15. ASSUME NEW d \in Conns, cpc'[d] = "save"
       PROVE  accepted'[d][entry'[d]] > 0
  <2>1. /\ entry'[d] = entry[d] /\ entry[d] \in 1..Entries
        /\ accepted[d][entry[d]] > 0
    BY <1>2, <1>15, OfConnector DEF client
  <2> QED
    BY <2>1, <1>8
<1>16. Confirmed'
  BY <1>14, <1>15 DEF Confirmed
<1> QED
  BY <1>10, <1>11, <1>12, <1>13, <1>16 DEF Inv

\* The answer goes to the connector that waits for it, about the entry it sent.
LEMMA ReplyStep ==
  ASSUME Inv, NEW s \in Slots, Reply(s)
  PROVE  Inv'
<1> DEFINE c == req[s].conn
<1>0. ClientType /\ ServerType /\ intakeFaults \in 0..MaxIntakeFaults
  BY DEF Inv, IntakeTypeOK
<1>1. /\ req[s] \in IngestRequest /\ req[s] # Free /\ c \in Conns
      /\ req[s].step \in IngestSteps
  BY <1>0, Busy DEF Reply
<1>2. /\ req' = [req EXCEPT ![s] = Free]
      /\ UNCHANGED <<fetched, memory, onDisk, tmp, staged, accepted, depth, intakeFaults>>
  BY DEF Reply
<1>3. /\ \A r \in Slots \ {s} : req'[r] = req[r]
      /\ req'[s].step = "free"
      /\ req' \in [Slots -> IngestRequest \cup {Free}]
  BY <1>0, <1>2 DEF ServerType, Free
<1>4. ServerType' /\ intakeFaults' \in 0..MaxIntakeFaults
  BY <1>0, <1>2, <1>3 DEF ServerType
<1>5. \A d \in Conns \ {c} : s \notin waits[d]
  BY <1>1 DEF Inv, Awaited
<1>6. NoGap'
  BY <1>2 DEF Inv, NoGap
<1>7. CASE s \notin waits[c] /\ UNCHANGED <<cpc, entry, attempt, waits>>
  <2>1. IntakeTypeOK'
    BY <1>0, <1>2, <1>4, <1>7 DEF IntakeTypeOK, ClientType
  <2>2. Sending'
    BY <1>2, <1>7 DEF Inv, Sending
  <2>3. Awaited'
    BY <1>0, <1>3, <1>5, <1>7 DEF Inv, Awaited, ClientType
  <2>4. Confirmed'
    BY <1>2, <1>3, <1>7 DEF Inv, Confirmed
  <2> QED
    BY <1>6, <2>1, <2>2, <2>3, <2>4 DEF Inv
<1>8. CASE /\ s \in waits[c]
           /\ waits' = [waits EXCEPT ![c] = {}]
           /\ Receive(c, req[s].step)
  <2>1. /\ cpc[c] = "wait" /\ req[s].entry = entry[c]
        /\ entry[c] = memory[c] + 1 /\ entry[c] <= Entries
    BY <1>1, <1>8 DEF Inv, Awaited, Sending
  <2>2. /\ \E k \in {"save", "post", "idle"} : cpc' = [cpc EXCEPT ![c] = k]
        /\ cpc'[c] = "save" => req[s].step = "202"
        /\ entry' = entry
        /\ attempt' \in [Conns -> 0..RetryMax]
    BY <1>0, <1>1, <1>8, IntakeAssumption DEF Receive, Retry, EndPoll, ClientType
  <2>3. IntakeTypeOK'
    BY <1>0, <1>1, <1>2, <1>4, <1>8, <2>2 DEF IntakeTypeOK, ClientType
  <2>4. \A d \in Conns \ {c} : cpc'[d] = cpc[d] /\ waits'[d] = waits[d]
    BY <1>0, <1>8, <2>2 DEF ClientType
  <2>5. waits'[c] = {}
    BY <1>0, <1>1, <1>8 DEF ClientType
  <2>6. Sending'
    BY <1>2, <2>1, <2>2, <2>4 DEF Inv, Sending
  <2>7. Awaited'
    BY <1>0, <1>3, <1>5, <2>2, <2>4, <2>5 DEF Inv, Awaited, ClientType
  <2>8. req[s].step = "202" => accepted[c][entry[c]] > 0
    BY <2>1 DEF Inv, Confirmed
  <2>9. Confirmed'
    BY <1>2, <1>3, <2>2, <2>4, <2>8 DEF Inv, Confirmed
  <2> QED
    BY <1>6, <2>3, <2>6, <2>7, <2>9 DEF Inv
<1> QED
  BY <1>7, <1>8 DEF Reply

\* The pipeline takes an item; the scanner starts again.
LEMMA ScannerStep ==
  ASSUME Inv, (\E x \in staged : Dispatch(x)) \/ ScannerCrash
  PROVE  Inv'
<1>0. ClientType /\ ServerType /\ intakeFaults \in 0..MaxIntakeFaults
  BY DEF Inv, IntakeTypeOK
<1>1. ASSUME NEW x \in staged, Dispatch(x)
      PROVE  Inv'
  <2>1. IsFiniteSet(staged')
    BY <1>0, <1>1, FS_RemoveElement DEF Dispatch, ServerType
  <2>2. IntakeTypeOK'
    BY <1>0, <1>1, <2>1 DEF Dispatch, IntakeTypeOK, ClientType, ServerType, client
  <2>3. Sending' /\ NoGap' /\ Awaited' /\ Confirmed'
    BY <1>1 DEF Inv, Dispatch, client, Sending, NoGap, Awaited, Confirmed
  <2> QED
    BY <2>2, <2>3 DEF Inv
<1>2. CASE ScannerCrash
  <2>1. Cardinality(staged) \in Nat
    BY <1>0, FS_CardinalityType DEF ServerType
  <2>2. IntakeTypeOK'
    <3>1. ServerType'
      BY <1>0, <1>2, <2>1 DEF ScannerCrash, ServerType
    <3>2. ClientType'
      BY <1>0, <1>2 DEF ScannerCrash, ClientType
    <3>3. intakeFaults' \in 0..MaxIntakeFaults
      BY <1>0, <1>2, IntakeAssumption DEF ScannerCrash, IntakeFault
    <3> QED
      BY <3>1, <3>2, <3>3 DEF IntakeTypeOK
  <2>3. Sending' /\ NoGap' /\ Awaited' /\ Confirmed'
    BY <1>2 DEF Inv, ScannerCrash, Sending, NoGap, Awaited, Confirmed, Free
  <2> QED
    BY <2>2, <2>3 DEF Inv
<1> QED
  BY <1>1, <1>2

LEMMA NextInv == Inv /\ [IntakeNext]_intakeVars => Inv'
<1> SUFFICES ASSUME Inv, [IntakeNext]_intakeVars PROVE Inv'
  OBVIOUS
<1>1. CASE IntakeNext
  BY <1>1, PollStep, PostStep, TimeoutStep, NoAnswerStep, SaveStep,
     ConnectorCrashStep, HandlerStep, RenameStep, ReplyStep,
     ScannerStep DEF IntakeNext
<1>2. CASE UNCHANGED intakeVars
  BY <1>2 DEF intakeVars, client, server, Inv, IntakeTypeOK, ClientType, ServerType, Sending, Awaited, Confirmed, NoGap
<1> QED
  BY <1>1, <1>2

-----------------------------------------------------------------------------
(* What the endpoint keeps bounded.                                         *)
(*                                                                          *)
(* Duplicates: an entry has one item to come, and only a failure adds one.  *)
(* What is to come is a request on its way to the rename, or the post a     *)
(* connector still owes.  Items in staging/: a handler lets a request pass  *)
(* while it counts fewer than Threshold items, and it counts every item of  *)
(* its own but those between the rename and the increment.                  *)

\* Requests about entry e of c that may still make an item of it.
Underway(c, e) ==
  {s \in Slots : /\ req[s].step \in {"check", "write", "rename"}
                 /\ req[s].conn = c /\ req[s].entry = e}

\* Connector c is going to post e (again) without any further failure: its
\* checkpoint is before e, and no request it waits for may yet be accepted.
Owes(c, e) ==
  /\ e > memory[c]
  /\ ~(cpc[c] = "save" /\ entry[c] = e)
  /\ ~(entry[c] = e /\ \E s \in waits[c] :
         req[s].step \in {"check", "write", "rename", "count", "202"})

Due(c, e) == IF Owes(c, e) THEN 1 ELSE 0

Budget(c, e) ==
  accepted[c][e] + Cardinality(Underway(c, e)) + Due(c, e) <= 1 + intakeFaults

OneAnswer == \A c \in Conns : \A r, s \in waits[c] : r = s

\* The items in staging/ that came through handler l, its requests past the
\* check, and those it renamed and did not count yet.
From(l)      == {x \in staged : Via[x[1]] = l}
Writing(l)   == {s \in Slots : req[s].step \in {"write", "rename"} /\ Via[req[s].conn] = l}
Uncounted(l) == {s \in Slots : req[s].step = "count" /\ Via[req[s].conn] = l}

Counted(l) == Cardinality(From(l)) <= depth[l] + Cardinality(Uncounted(l))

Quota == Threshold - 1 + Cardinality(Slots)

LetIn(l) == Cardinality(From(l)) + Cardinality(Writing(l)) <= Quota

LEMMA SlotsFinite ==
  ASSUME NEW X \in SUBSET Slots
  PROVE  IsFiniteSet(X) /\ Cardinality(X) \in Nat /\ Cardinality(X) <= Cardinality(Slots)
BY IntakeFinite, FS_Subset, FS_CardinalityType

\* Two sets of slots that differ in s at most.
LEMMA Shift ==
  ASSUME NEW X \in SUBSET Slots, NEW Y \in SUBSET Slots, NEW s, X \ {s} = Y \ {s}
  PROVE  /\ Cardinality(X) \in Nat /\ Cardinality(Y) \in Nat
         /\ (s \in X <=> s \in Y) => Cardinality(Y) = Cardinality(X)
         /\ s \in Y /\ s \notin X => Cardinality(Y) = Cardinality(X) + 1
         /\ s \in X /\ s \notin Y => Cardinality(Y) + 1 = Cardinality(X)
<1>1. /\ IsFiniteSet(X) /\ IsFiniteSet(Y)
      /\ Cardinality(X) \in Nat /\ Cardinality(Y) \in Nat
  BY SlotsFinite
<1>2. (s \in X <=> s \in Y) => X = Y
  OBVIOUS
<1>3. ASSUME s \in Y, s \notin X PROVE Cardinality(Y) = Cardinality(X) + 1
  <2>1. Y = X \cup {s}
    BY <1>3
  <2> QED BY <1>1, <1>3, <2>1, FS_AddElement
<1>4. ASSUME s \in X, s \notin Y PROVE Cardinality(Y) + 1 = Cardinality(X)
  <2>1. X = Y \cup {s}
    BY <1>4
  <2> QED BY <1>1, <1>4, <2>1, FS_AddElement
<1> QED BY <1>1, <1>2, <1>3, <1>4

LEMMA Expiring ==
  ASSUME ServerType, IntakeFault, intakeFaults \in 0..MaxIntakeFaults
  PROVE  intakeFaults' = intakeFaults + 1
BY DEF IntakeFault

\* A step that makes no item of the entry and sends no request about it: it
\* is a failure, or the connector owes no more than before.
LEMMA BudgetKept ==
  ASSUME IntakeTypeOK, NEW c \in Conns, NEW e \in 1..Entries, Budget(c, e),
         Underway(c, e)' \subseteq Underway(c, e), accepted'[c][e] = accepted[c][e],
         \/ intakeFaults' = intakeFaults + 1
         \/ intakeFaults' = intakeFaults /\ (Owes(c, e)' => Owes(c, e))
  PROVE  Budget(c, e)'
<1>1. Underway(c, e) \in SUBSET Slots
  BY DEF Underway
<1>2. /\ IsFiniteSet(Underway(c, e)) /\ Cardinality(Underway(c, e)) \in Nat
  BY <1>1, SlotsFinite
<1>3. /\ Cardinality(Underway(c, e)') \in Nat
      /\ Cardinality(Underway(c, e)') <= Cardinality(Underway(c, e))
  BY <1>2, FS_Subset, FS_CardinalityType
<1>4. accepted[c][e] \in Nat /\ intakeFaults \in Nat
  BY IntakeAssumption DEF IntakeTypeOK, ServerType
<1>5. /\ Due(c, e) \in {0, 1} /\ Due(c, e)' \in {0, 1}
      /\ (Owes(c, e)' => Owes(c, e)) => Due(c, e)' <= Due(c, e)
  BY DEF Due
<1> HIDE DEF Due
<1> QED BY <1>2, <1>3, <1>4, <1>5 DEF Budget

\* The steps of a connector and the failures leave the requests alone or end
\* them.
LEMMA BudgetClient ==
  ASSUME Inv, Inv', OneAnswer, NEW c \in Conns, NEW e \in 1..Entries, Budget(c, e),
         NEW d \in Conns,
         \/ Poll(d) \/ Timeout(d) \/ NoAnswer(d) \/ Save(d) \/ ConnectorCrash(d)
         \/ Post(d) /\ UNCHANGED req
  PROVE  Budget(c, e)'
<1>0. IntakeTypeOK /\ ClientType /\ ServerType /\ intakeFaults \in 0..MaxIntakeFaults
  BY DEF Inv, IntakeTypeOK
<1>1. req' = req /\ accepted' = accepted
  <2>1. CASE Post(d) /\ UNCHANGED req
    BY <2>1 DEF Post
  <2> QED BY <2>1 DEF Poll, Timeout, NoAnswer, Save, ConnectorCrash, server
<1>2. Underway(c, e)' \subseteq Underway(c, e)
  BY <1>1 DEF Underway
<1>3. CASE IntakeFault
  BY <1>0, <1>1, <1>2, <1>3, Expiring, BudgetKept
<1>4. CASE Poll(d)
  <2>1. memory' = memory /\ waits' = waits /\ intakeFaults' = intakeFaults
    BY <1>4 DEF Poll
  <2>2. cpc'[d] = "post" /\ \A f \in Conns \ {d} : cpc'[f] = cpc[f] /\ entry'[f] = entry[f]
    BY <1>0, <1>4 DEF Poll, Commit, ClientType
  <2>3. waits[d] = {}
    BY <1>0, <1>4 DEF Poll, Inv, Awaited
  <2>4. Owes(c, e)' => Owes(c, e)
    BY <1>1, <1>4, <2>1, <2>2, <2>3 DEF Owes, Poll
  <2> QED BY <1>0, <1>1, <1>2, <2>1, <2>4, BudgetKept
<1>5. CASE NoAnswer(d)
  <2>1. /\ memory' = memory /\ waits' = waits /\ intakeFaults' = intakeFaults
        /\ entry' = entry /\ waits[d] = {} /\ cpc[d] = "wait"
    BY <1>5 DEF NoAnswer, Retry, EndPoll
  <2>2. \A f \in Conns \ {d} : cpc'[f] = cpc[f]
    BY <1>0, <1>5 DEF NoAnswer, Retry, EndPoll, ClientType
  <2>3. Owes(c, e)' => Owes(c, e)
    BY <1>1, <2>1, <2>2 DEF Owes
  <2> QED BY <1>0, <1>1, <1>2, <2>1, <2>3, BudgetKept
<1>6. CASE Save(d) /\ ~IntakeFault
  <2>1. /\ waits' = waits /\ intakeFaults' = intakeFaults /\ cpc[d] = "save"
        /\ memory' = [memory EXCEPT ![d] = entry[d]] /\ NextEntry(d)
    BY <1>6 DEF Save
  <2>2. /\ memory'[d] = entry[d]
        /\ \A f \in Conns \ {d} : /\ cpc'[f] = cpc[f] /\ entry'[f] = entry[f]
                                  /\ memory'[f] = memory[f]
    BY <1>0, <2>1 DEF NextEntry, Commit, EndPoll, ClientType
  <2>3. waits[d] = {} /\ entry[d] = memory[d] + 1
    BY <1>0, <2>1 DEF Inv, Awaited, Sending
  <2>4. Owes(c, e)' => Owes(c, e)
    <3>1. CASE c = d
      <4>1. memory[d] \in Nat /\ e \in Nat
        BY <1>0, IntakeAssumption DEF ClientType
      <4> QED BY <2>1, <2>2, <2>3, <3>1, <4>1 DEF Owes
    <3>2. CASE c # d
      BY <1>1, <2>1, <2>2, <3>2 DEF Owes
    <3> QED BY <3>1, <3>2
  <2> QED BY <1>0, <1>1, <1>2, <2>1, <2>4, BudgetKept
<1>7. CASE ~IntakeFault /\ ~Poll(d) /\ ~NoAnswer(d) /\ ~Save(d)
  <2>1. Post(d) /\ UNCHANGED req
    BY <1>7 DEF Timeout, ConnectorCrash
  <2>2. PICK s \in Slots : /\ req[s] = Free
                           /\ req' = [req EXCEPT ![s] = [conn |-> d, entry |-> entry[d],
                                                         step |-> "check"]]
    BY <1>7, <2>1 DEF Post
  <2>3. req'[s].step = "check" /\ req[s].step = "free"
    BY <1>0, <2>2 DEF ServerType, Free
  <2> QED BY <1>1, <2>3
<1> QED BY <1>3, <1>4, <1>5, <1>6, <1>7 DEF Timeout, ConnectorCrash

\* The post takes what the connector owed.
LEMMA BudgetPost ==
  ASSUME Inv, Inv', NEW c \in Conns, NEW e \in 1..Entries, Budget(c, e),
         NEW d \in Conns, Post(d), req' # req
  PROVE  Budget(c, e)'
<1>0. IntakeTypeOK /\ ClientType /\ ServerType /\ intakeFaults \in 0..MaxIntakeFaults
  BY DEF Inv, IntakeTypeOK
<1>1. PICK s \in Slots :
        /\ req[s] = Free
        /\ req' = [req EXCEPT ![s] = [conn |-> d, entry |-> entry[d], step |-> "check"]]
        /\ waits' = [waits EXCEPT ![d] = {s}]
        /\ cpc' = [cpc EXCEPT ![d] = "wait"]
        /\ UNCHANGED <<entry, attempt, intakeFaults>>
  BY DEF Post
<1>2. /\ req'[s].step = "check" /\ req'[s].conn = d /\ req'[s].entry = entry[d]
      /\ \A r \in Slots \ {s} : req'[r] = req[r]
      /\ req[s].step = "free"
  BY <1>0, <1>1 DEF ServerType, Free
<1>3. /\ waits'[d] = {s} /\ cpc'[d] = "wait"
      /\ \A f \in Conns \ {d} : waits'[f] = waits[f] /\ cpc'[f] = cpc[f]
  BY <1>0, <1>1 DEF ClientType
<1>4. memory' = memory /\ accepted' = accepted /\ cpc[d] = "post"
  BY DEF Post
<1>5. /\ entry[d] = memory[d] + 1 /\ waits[d] = {}
      /\ \A f \in Conns : s \notin waits[f]
  BY <1>0, <1>1, <1>4 DEF Inv, Sending, Awaited
<1>6. Underway(c, e)' \ {s} = Underway(c, e) \ {s}
  BY <1>2 DEF Underway
<1>7. CASE c = d /\ e = entry[d]
  <2>1. s \in Underway(c, e)' /\ s \notin Underway(c, e)
    BY <1>2, <1>7 DEF Underway
  <2>2. Underway(c, e) \in SUBSET Slots /\ Underway(c, e)' \in SUBSET Slots
    BY DEF Underway
  <2>3. /\ Cardinality(Underway(c, e)') = Cardinality(Underway(c, e)) + 1
        /\ Cardinality(Underway(c, e)) \in Nat
    BY <1>6, <2>1, <2>2, Shift
  <2>4. memory[d] \in Nat
    BY <1>0, IntakeAssumption DEF ClientType
  <2>5. Owes(c, e) /\ ~Owes(c, e)'
    BY <1>1, <1>2, <1>3, <1>4, <1>5, <1>7, <2>4 DEF Owes
  <2>6. Due(c, e) = 1 /\ Due(c, e)' = 0
    BY <2>5 DEF Due
  <2>7. accepted[c][e] \in Nat /\ intakeFaults \in Nat
    BY <1>0, IntakeAssumption DEF ServerType
  <2> QED BY <1>1, <1>4, <2>3, <2>6, <2>7 DEF Budget
<1>8. CASE ~(c = d /\ e = entry[d])
  <2>1. s \notin Underway(c, e)'
    BY <1>2, <1>8 DEF Underway
  <2>2. Underway(c, e)' \subseteq Underway(c, e)
    BY <1>6, <2>1
  <2>3. Owes(c, e)' => Owes(c, e)
    <3>1. CASE c = d
      BY <1>1, <1>3, <1>4, <1>5, <1>8, <3>1 DEF Owes
    <3>2. CASE c # d
      <4>1. \A r \in waits[c] : req'[r] = req[r]
        BY <1>0, <1>2, <1>5 DEF ClientType
      <4> QED BY <1>1, <1>3, <1>4, <3>2, <4>1 DEF Owes
    <3> QED BY <3>1, <3>2
  <2> QED BY <1>0, <1>1, <1>4, <2>2, <2>3, BudgetKept
<1> QED BY <1>7, <1>8

LEMMA ToStepFact ==
  ASSUME ServerType, NEW s \in Slots, req[s].step # "free", NEW next \in IngestSteps,
         ToStep(s, next)
  PROVE  /\ req'[s].step = next /\ req'[s].conn = req[s].conn /\ req'[s].entry = req[s].entry
         /\ \A r \in Slots \ {s} : req'[r] = req[r]
<1>1. req[s] \in IngestRequest
  BY Busy
<1>2. req'[s] = [req[s] EXCEPT !.step = next]
  BY DEF ServerType, ToStep
<1>3. \A r \in Slots \ {s} : req'[r] = req[r]
  BY DEF ServerType, ToStep
<1> QED BY <1>1, <1>2, <1>3 DEF IngestRequest

\* A request moves on in its handler; the connectors do nothing.
LEMMA BudgetHandler ==
  ASSUME Inv, NEW c \in Conns, NEW e \in 1..Entries, Budget(c, e),
         NEW s \in Slots, req[s].step # "free", NEW next \in IngestSteps, ToStep(s, next),
         UNCHANGED <<client, memory>>,
         \A d \in Conns : \A f \in 1..Entries :
           IF next = "count" /\ d = req[s].conn /\ f = req[s].entry
           THEN accepted'[d][f] = accepted[d][f] + 1 ELSE accepted'[d][f] = accepted[d][f],
         \/ req[s].step = "check" /\ next \in {"400", "429", "write"} /\ intakeFaults' = intakeFaults
         \/ req[s].step = "write" /\ next = "rename" /\ intakeFaults' = intakeFaults
         \/ req[s].step = "rename" /\ next = "500" /\ intakeFaults' = intakeFaults + 1
         \/ req[s].step = "rename" /\ next = "count" /\ intakeFaults' = intakeFaults
         \/ req[s].step = "count" /\ next = "202" /\ intakeFaults' = intakeFaults
  PROVE  Budget(c, e)'
<1>0. IntakeTypeOK /\ ClientType /\ ServerType /\ intakeFaults \in Nat
  BY IntakeAssumption DEF Inv, IntakeTypeOK
<1>1. /\ req'[s].step = next /\ req'[s].conn = req[s].conn /\ req'[s].entry = req[s].entry
      /\ \A r \in Slots \ {s} : req'[r] = req[r]
  BY <1>0, ToStepFact
<1>2. Underway(c, e)' \ {s} = Underway(c, e) \ {s}
  BY <1>1 DEF Underway
<1>3. UNCHANGED <<cpc, entry, waits, memory>> /\ waits[c] \in SUBSET Slots
  BY <1>0 DEF client, ClientType
<1>4. accepted[c][e] \in Nat
  <2>1. accepted[c] \in [1..Entries -> Nat]
    BY <1>0 DEF ServerType
  <2> QED BY <2>1
<1>5. s \in waits[c] => req[s].conn = c /\ req[s].entry = entry[c]
  BY DEF Inv, Awaited
<1>6. CASE ~(req[s].conn = c /\ req[s].entry = e)
  <2>1. Underway(c, e)' \subseteq Underway(c, e)
    BY <1>1, <1>2, <1>6 DEF Underway
  <2>2. accepted'[c][e] = accepted[c][e]
    BY <1>4, <1>6
  <2>3. Owes(c, e)' => Owes(c, e)
    BY <1>1, <1>3, <1>5, <1>6 DEF Owes
  <2> QED BY <1>0, <2>1, <2>2, <2>3, BudgetKept
<1>7. CASE req[s].conn = c /\ req[s].entry = e /\ next \in {"write", "rename", "202", "500"}
  <2>1. Underway(c, e)' \subseteq Underway(c, e)
    BY <1>1, <1>2, <1>7 DEF Underway
  <2>2. accepted'[c][e] = accepted[c][e]
    BY <1>4, <1>7
  <2>3. next # "500" => (Owes(c, e)' => Owes(c, e))
    BY <1>1, <1>3, <1>5, <1>7 DEF Owes
  <2> QED BY <1>0, <1>7, <2>1, <2>2, <2>3, BudgetKept
<1>8. CASE req[s].conn = c /\ req[s].entry = e /\ next \in {"400", "429", "count"}
  <2>1. s \in Underway(c, e) /\ s \notin Underway(c, e)'
    BY <1>1, <1>8 DEF Underway
  <2>2. Underway(c, e) \in SUBSET Slots /\ Underway(c, e)' \in SUBSET Slots
    BY DEF Underway
  <2>3. /\ Cardinality(Underway(c, e)') + 1 = Cardinality(Underway(c, e))
        /\ Cardinality(Underway(c, e)') \in Nat /\ Cardinality(Underway(c, e)) \in Nat
    BY <1>2, <2>1, <2>2, Shift
  <2>4. Due(c, e) \in {0, 1} /\ Due(c, e)' \in {0, 1}
    BY DEF Due
  <2>5. CASE next = "count"
    <3>1. Owes(c, e)' => Owes(c, e)
      BY <1>1, <1>3, <1>5, <1>8, <2>5 DEF Owes
    <3>2. Due(c, e)' <= Due(c, e)
      BY <3>1 DEF Due
    <3>3. accepted'[c][e] = accepted[c][e] + 1
      BY <1>4, <1>8, <2>5
    <3> HIDE DEF Due
    <3> QED BY <1>0, <1>4, <2>3, <2>4, <2>5, <3>2, <3>3 DEF Budget
  <2>6. CASE next # "count"
    <3>1. accepted'[c][e] = accepted[c][e] /\ intakeFaults' = intakeFaults
      BY <1>4, <1>8, <2>6
    <3> HIDE DEF Due
    <3> QED BY <1>0, <1>4, <2>3, <2>4, <3>1 DEF Budget
  <2> QED BY <2>5, <2>6
<1> QED BY <1>6, <1>7, <1>8

\* The answer: 202 leads to the checkpoint, the others were owed already.
LEMMA BudgetReply ==
  ASSUME Inv, Inv', OneAnswer, NEW c \in Conns, NEW e \in 1..Entries, Budget(c, e),
         NEW s \in Slots, Reply(s)
  PROVE  Budget(c, e)'
<1>0. IntakeTypeOK /\ ClientType /\ ServerType
  BY DEF Inv, IntakeTypeOK
<1> DEFINE d == req[s].conn
<1>1. d \in Conns /\ req[s] # Free /\ req[s].step \in {"202", "400", "429", "500"}
  BY <1>0, Busy DEF Reply
<1>2. /\ req'[s].step = "free" /\ \A r \in Slots \ {s} : req'[r] = req[r]
      /\ accepted' = accepted /\ intakeFaults' = intakeFaults /\ memory' = memory
  BY <1>0 DEF Reply, ServerType, Free
<1>3. Underway(c, e)' \subseteq Underway(c, e)
  BY <1>1, <1>2 DEF Underway
<1>4. \A f \in Conns : s \in waits[f] => f = d
  BY <1>1 DEF Inv, Awaited
<1>5. Owes(c, e)' => Owes(c, e)
  <2>1. CASE s \in waits[d]
    <3>1. waits' = [waits EXCEPT ![d] = {}] /\ Receive(d, req[s].step)
      BY <2>1 DEF Reply
    <3>2. /\ entry' = entry /\ waits'[d] = {}
          /\ req[s].step = "202" => cpc'[d] = "save"
          /\ \A f \in Conns \ {d} : cpc'[f] = cpc[f] /\ waits'[f] = waits[f]
      BY <1>0, <1>1, <3>1 DEF Receive, Retry, EndPoll, ClientType
    <3>3. cpc[d] = "wait" /\ waits[d] = {s}
      BY <1>1, <2>1 DEF Inv, Awaited, OneAnswer
    <3>4. CASE c = d
      BY <1>1, <1>2, <3>2, <3>3, <3>4 DEF Owes
    <3>5. CASE c # d
      <4>1. \A r \in waits[c] : req'[r] = req[r]
        BY <1>0, <1>2, <1>4, <3>5 DEF ClientType
      <4> QED BY <1>2, <3>2, <3>5, <4>1 DEF Owes
    <3> QED BY <3>4, <3>5
  <2>2. CASE s \notin waits[d]
    <3>1. UNCHANGED <<cpc, entry, waits>>
      BY <2>2 DEF Reply
    <3>2. \A r \in waits[c] : req'[r] = req[r]
      BY <1>0, <1>2, <1>4, <2>2 DEF ClientType
    <3> QED BY <1>2, <3>1, <3>2 DEF Owes
  <2> QED BY <2>1, <2>2
<1> QED BY <1>0, <1>2, <1>3, <1>5, BudgetKept

LEMMA BudgetNext ==
  ASSUME Inv, Inv', OneAnswer, NEW c \in Conns, NEW e \in 1..Entries, Budget(c, e), IntakeNext
  PROVE  Budget(c, e)'
<1>0. IntakeTypeOK /\ ClientType /\ ServerType /\ intakeFaults \in 0..MaxIntakeFaults
  BY DEF Inv, IntakeTypeOK
<1>1. CASE \E d \in Conns : \/ Poll(d) \/ Timeout(d) \/ NoAnswer(d) \/ Save(d)
                            \/ ConnectorCrash(d)
  BY <1>1, BudgetClient
<1>2. CASE \E d \in Conns : Post(d)
  BY <1>2, BudgetClient, BudgetPost
<1>3. ASSUME NEW s \in Slots,
             CheckRequest(s) \/ WriteItem(s) \/ WriteFails(s) \/ CountUp(s)
      PROVE  Budget(c, e)'
  <2>1. accepted' = accepted /\ UNCHANGED <<client, memory>> /\ req[s].step # "free"
    BY <1>3 DEF CheckRequest, WriteItem, WriteFails, CountUp, At
  <2>3. CASE CheckRequest(s)
    <3>1. PICK next \in {"400", "429", "write"} : ToStep(s, next)
      BY <2>3 DEF CheckRequest
    <3> QED BY <2>1, <2>3, <3>1, BudgetHandler DEF CheckRequest, At, IngestSteps
  <2>4. CASE WriteItem(s)
    BY <2>1, <2>4, BudgetHandler DEF WriteItem, At, IngestSteps
  <2>5. CASE WriteFails(s)
    <3>1. intakeFaults' = intakeFaults + 1
      BY <1>0, <2>5, Expiring DEF WriteFails
    <3> QED BY <2>1, <2>5, <3>1, BudgetHandler DEF WriteFails, At, IngestSteps
  <2>6. CASE CountUp(s)
    BY <2>1, <2>6, BudgetHandler DEF CountUp, At, IngestSteps
  <2> QED BY <1>3, <2>3, <2>4, <2>5, <2>6
<1>4. ASSUME NEW s \in Slots, RenameItem(s)
      PROVE  Budget(c, e)'
  <2>1. /\ req[s].step = "rename" /\ req[s].conn \in Conns /\ req[s].entry \in 1..Entries
        /\ ToStep(s, "count") /\ UNCHANGED <<client, memory, intakeFaults>>
        /\ accepted' = [accepted EXCEPT ![req[s].conn][req[s].entry] = @ + 1]
    BY <1>0, <1>4, Busy DEF RenameItem, At
  <2>2. \A d \in Conns : \A f \in 1..Entries :
          IF d = req[s].conn /\ f = req[s].entry
          THEN accepted'[d][f] = accepted[d][f] + 1 ELSE accepted'[d][f] = accepted[d][f]
    <3> DEFINE row == [accepted[req[s].conn] EXCEPT ![req[s].entry] = @ + 1]
    <3>1. accepted \in [Conns -> [1..Entries -> Nat]]
      BY <1>0 DEF ServerType
    <3>2. accepted' = [accepted EXCEPT ![req[s].conn] = row]
      BY <2>1, <3>1
    <3>3. /\ row[req[s].entry] = accepted[req[s].conn][req[s].entry] + 1
          /\ \A f \in 1..Entries : f # req[s].entry => row[f] = accepted[req[s].conn][f]
      BY <2>1, <3>1
    <3> HIDE DEF row
    <3> QED BY <2>1, <3>1, <3>2, <3>3
  <2> QED BY <2>1, <2>2, BudgetHandler DEF IngestSteps
<1>5. CASE \E s \in Slots : Reply(s)
  BY <1>5, BudgetReply
<1>6. CASE \E x \in staged : Dispatch(x)
  <2>1. UNCHANGED <<req, accepted, intakeFaults, memory, cpc, entry, waits>>
    BY <1>6 DEF Dispatch, client
  <2> QED BY <1>0, <2>1, BudgetKept DEF Underway, Owes
<1>7. CASE ScannerCrash
  <2>1. Underway(c, e)' \subseteq Underway(c, e)
    BY <1>7 DEF ScannerCrash, Underway, Free
  <2>2. accepted' = accepted /\ intakeFaults' = intakeFaults + 1
    BY <1>0, <1>7, Expiring DEF ScannerCrash
  <2> QED BY <1>0, <2>1, <2>2, BudgetKept
<1> QED BY <1>1, <1>2, <1>3, <1>4, <1>5, <1>6, <1>7 DEF IntakeNext

LEMMA OneAnswerNext ==
  ASSUME Inv, OneAnswer, IntakeNext
  PROVE  OneAnswer'
<1>0. ClientType
  BY DEF Inv, IntakeTypeOK
<1>1. \/ waits' = waits
      \/ waits' = [c \in Conns |-> {}]
      \/ \E c \in Conns : waits' = [waits EXCEPT ![c] = {}]
      \/ \E c \in Conns, s \in Slots : waits' = [waits EXCEPT ![c] = {s}]
  <2>1. CASE \E c \in Conns : Post(c)
    BY <2>1 DEF Post
  <2>2. ASSUME NEW s \in Slots, Reply(s)
        PROVE  waits' = waits \/ \E c \in Conns : waits' = [waits EXCEPT ![c] = {}]
    <3>1. req[s].conn \in Conns
      BY <2>2, Busy DEF Reply, Inv, IntakeTypeOK
    <3> QED BY <2>2, <3>1 DEF Reply
  <2> QED BY <2>1, <2>2 DEF IntakeNext, Poll, Timeout, NoAnswer, Save, ConnectorCrash, CheckRequest,
             WriteItem, WriteFails, RenameItem, CountUp, Dispatch, ScannerCrash, client
<1> QED BY <1>0, <1>1 DEF OneAnswer, ClientType

LEMMA NoTmpNext ==
  ASSUME Inv, NoTmpLeft, IntakeNext
  PROVE  NoTmpLeft'
<1>0. ClientType /\ ServerType
  BY DEF Inv, IntakeTypeOK
<1>1. CASE UNCHANGED <<tmp, req>>
  BY <1>1 DEF NoTmpLeft, At
<1>2. CASE \E c \in Conns : Post(c)
  <2>1. tmp' = tmp /\ \A s \in Slots : req[s] # Free => req'[s] = req[s]
    BY <1>0, <1>2 DEF Post, ServerType
  <2> QED BY <1>0, <2>1 DEF NoTmpLeft, At, Free, ServerType
<1>3. ASSUME NEW s \in Slots,
             \/ CheckRequest(s) \/ WriteItem(s) \/ WriteFails(s) \/ RenameItem(s)
             \/ CountUp(s)
      PROVE  NoTmpLeft'
  <2>1. /\ req[s].step # "free"
        /\ \E next \in IngestSteps :
             /\ ToStep(s, next)
             /\ tmp' = (IF next = "rename" THEN tmp \cup {s} ELSE tmp \ {s})
    <3>1. At(s, "check") \/ At(s, "write") \/ At(s, "rename") \/ At(s, "count")
      BY <1>3 DEF CheckRequest, WriteItem, WriteFails, RenameItem, CountUp
    <3>2. ~At(s, "rename") => tmp = tmp \ {s}
      BY DEF NoTmpLeft
    <3> QED BY <1>3, <3>1, <3>2 DEF CheckRequest, WriteItem, WriteFails, RenameItem, CountUp, At, IngestSteps
  <2>2. PICK next \in IngestSteps :
             /\ ToStep(s, next)
             /\ tmp' = (IF next = "rename" THEN tmp \cup {s} ELSE tmp \ {s})
    BY <2>1
  <2>3. req'[s].step = next /\ \A r \in Slots \ {s} : req'[r] = req[r]
    BY <1>0, <2>1, <2>2, ToStepFact
  <2> QED BY <1>0, <2>2, <2>3 DEF NoTmpLeft, At, ServerType
<1>4. ASSUME NEW s \in Slots, Reply(s) PROVE NoTmpLeft'
  <2>1. tmp' = tmp /\ s \notin tmp /\ \A r \in Slots \ {s} : req'[r] = req[r]
    BY <1>0, <1>4 DEF Reply, NoTmpLeft, At, ServerType
  <2> QED BY <1>0, <2>1 DEF NoTmpLeft, At, ServerType
<1>5. CASE ScannerCrash
  BY <1>5 DEF ScannerCrash, NoTmpLeft
<1> QED BY <1>1, <1>2, <1>3, <1>4, <1>5
        DEF IntakeNext, Poll, Timeout, NoAnswer, Save, ConnectorCrash, Dispatch, server

\* The sets that Counted and LetIn compare are finite.
LEMMA StagedFinite ==
  ASSUME IntakeTypeOK, NEW l
  PROVE  /\ IsFiniteSet(From(l)) /\ Cardinality(From(l)) \in Nat
         /\ Cardinality(From(l)) <= Cardinality(staged) /\ Cardinality(staged) \in Nat
         /\ Writing(l) \in SUBSET Slots /\ Uncounted(l) \in SUBSET Slots
         /\ IsFiniteSet(Writing(l)) /\ IsFiniteSet(Uncounted(l))
         /\ Cardinality(Writing(l)) \in Nat /\ Cardinality(Uncounted(l)) \in Nat
<1>1. IsFiniteSet(staged) /\ From(l) \in SUBSET staged
  BY DEF IntakeTypeOK, ServerType, From
<1>2. Writing(l) \in SUBSET Slots /\ Uncounted(l) \in SUBSET Slots
  BY DEF Writing, Uncounted
<1>3. IsFiniteSet(From(l)) /\ Cardinality(From(l)) <= Cardinality(staged)
  BY <1>1, FS_Subset
<1> QED BY <1>1, <1>2, <1>3, FS_CardinalityType, SlotsFinite

\* A step that lets nothing new in.
LEMMA StagedKept ==
  ASSUME IntakeTypeOK, NEW l, Counted(l), LetIn(l), l \in Listeners,
         From(l)' \subseteq From(l), Writing(l)' \subseteq Writing(l),
         Uncounted(l)' = Uncounted(l), depth' = depth
  PROVE  Counted(l)' /\ LetIn(l)'
<1>1. /\ Cardinality(From(l)') \in Nat /\ Cardinality(From(l)') <= Cardinality(From(l))
      /\ Cardinality(Writing(l)') \in Nat /\ Cardinality(Writing(l)') <= Cardinality(Writing(l))
  BY StagedFinite, FS_Subset, FS_CardinalityType
<1>2. depth[l] \in Nat /\ Threshold \in Nat /\ Cardinality(Slots) \in Nat
  BY IntakeAssumption, SlotsFinite DEF IntakeTypeOK, ServerType
<1> QED BY <1>1, <1>2, StagedFinite DEF Counted, LetIn, Quota

\* A handler that counts fewer than Threshold items lets one more request in.
LEMMA StagedCheck ==
  ASSUME Inv, NEW l \in Listeners, Counted(l), LetIn(l), NEW s \in Slots, CheckRequest(s)
  PROVE  Counted(l)' /\ LetIn(l)'
<1>0. IntakeTypeOK /\ ServerType
  BY DEF Inv, IntakeTypeOK
<1>1. At(s, "check") /\ staged' = staged /\ depth' = depth
  BY DEF CheckRequest
<1>2. PICK next \in {"429", "400", "write"} :
        /\ ToStep(s, next)
        /\ next = "write" => ~Full(Via[req[s].conn])
  BY DEF CheckRequest
<1>3. /\ req'[s].step = next /\ req'[s].conn = req[s].conn
      /\ \A r \in Slots \ {s} : req'[r] = req[r]
  BY <1>0, <1>1, <1>2, ToStepFact DEF At, IngestSteps
<1>4. From(l)' = From(l)
  BY <1>1 DEF From
<1>5. Uncounted(l)' = Uncounted(l)
  BY <1>1, <1>3 DEF Uncounted, At
<1>6. CASE next = "write" /\ Via[req[s].conn] = l
  <2>0. depth[l] \in Nat /\ Threshold \in Nat /\ Cardinality(Slots) \in Nat
    BY <1>0, IntakeAssumption, SlotsFinite DEF ServerType
  <2>1. depth[l] < Threshold
    BY <1>2, <1>6, <2>0 DEF Full
  <2>2. Writing(l)' \in SUBSET Slots /\ Writing(l)' \cap Uncounted(l) = {}
    BY <1>1, <1>3, <1>5, <1>6 DEF Writing, Uncounted, At
  <2>3. /\ IsFiniteSet(Writing(l)') /\ Cardinality(Writing(l)') \in Nat
        /\ IsFiniteSet(Uncounted(l)) /\ Cardinality(Uncounted(l)) \in Nat
        /\ Cardinality(From(l)) \in Nat
    BY <1>0, <2>2, SlotsFinite, StagedFinite
  <2>4. Writing(l)' \cup Uncounted(l) \in SUBSET Slots
    BY <1>0, <2>2, StagedFinite
  <2>5. Cardinality(Writing(l)') + Cardinality(Uncounted(l)) <= Cardinality(Slots)
    <3>1. Cardinality(Writing(l)' \cup Uncounted(l)) =
            Cardinality(Writing(l)') + Cardinality(Uncounted(l)) - 0
      BY <2>2, <2>3, FS_Union, FS_EmptySet
    <3> QED BY <2>3, <2>4, <3>1, SlotsFinite
  <2> QED BY <1>1, <1>4, <1>5, <2>0, <2>1, <2>3, <2>5 DEF Counted, LetIn, Quota
<1>7. CASE ~(next = "write" /\ Via[req[s].conn] = l)
  <2>1. Writing(l)' \subseteq Writing(l)
    BY <1>1, <1>3, <1>7 DEF Writing, At
  <2> QED BY <1>0, <1>1, <1>4, <1>5, <2>1, StagedKept
<1> QED BY <1>6, <1>7

\* A renamed item is no longer written and not yet counted.
LEMMA StagedRename ==
  ASSUME Inv, NEW l \in Listeners, Counted(l), LetIn(l), NEW s \in Slots, RenameItem(s)
  PROVE  Counted(l)' /\ LetIn(l)'
<1>0. IntakeTypeOK /\ ServerType
  BY DEF Inv, IntakeTypeOK
<1>1. At(s, "rename") /\ ToStep(s, "count") /\ depth' = depth
  BY DEF RenameItem
<1>2. /\ req'[s].step = "count" /\ req'[s].conn = req[s].conn
      /\ \A r \in Slots \ {s} : req'[r] = req[r]
  BY <1>0, <1>1, ToStepFact DEF At, IngestSteps
<1> DEFINE x == <<req[s].conn, req[s].entry, accepted[req[s].conn][req[s].entry]>>
<1>3. staged' = staged \cup {x} /\ x[1] = req[s].conn
  BY DEF RenameItem
<1> HIDE DEF x
<1>4. CASE Via[req[s].conn] = l
  <2>1. From(l)' = From(l) \cup {x}
    BY <1>3, <1>4 DEF From
  <2>2. /\ Cardinality(From(l)) \in Nat /\ Cardinality(From(l)') \in Nat
        /\ Cardinality(From(l)') <= Cardinality(From(l)) + 1
    <3>1. IsFiniteSet(From(l)) /\ Cardinality(From(l)) \in Nat
      BY <1>0, StagedFinite
    <3>2. Cardinality(From(l) \cup {x}) =
            IF x \in From(l) THEN Cardinality(From(l)) ELSE Cardinality(From(l)) + 1
      BY <3>1, FS_AddElement
    <3> QED BY <2>1, <3>1, <3>2
  <2>3. /\ Writing(l)' \in SUBSET Slots /\ Writing(l) \in SUBSET Slots
        /\ Uncounted(l)' \in SUBSET Slots /\ Uncounted(l) \in SUBSET Slots
    BY DEF Writing, Uncounted
  <2>4. /\ Writing(l)' \ {s} = Writing(l) \ {s} /\ s \in Writing(l) /\ s \notin Writing(l)'
        /\ Uncounted(l)' \ {s} = Uncounted(l) \ {s}
        /\ s \notin Uncounted(l) /\ s \in Uncounted(l)'
    BY <1>1, <1>2, <1>4 DEF Writing, Uncounted, At
  <2>5. /\ Cardinality(Writing(l)') + 1 = Cardinality(Writing(l))
        /\ Cardinality(Writing(l)') \in Nat /\ Cardinality(Writing(l)) \in Nat
    BY <2>3, <2>4, Shift
  <2>6. /\ Cardinality(Uncounted(l)') = Cardinality(Uncounted(l)) + 1
        /\ Cardinality(Uncounted(l)) \in Nat
    BY <2>3, <2>4, Shift
  <2>7. depth[l] \in Nat /\ Threshold \in Nat /\ Cardinality(Slots) \in Nat
    BY <1>0, IntakeAssumption, SlotsFinite DEF ServerType
  <2> QED BY <1>1, <2>2, <2>5, <2>6, <2>7 DEF Counted, LetIn, Quota
<1>5. CASE Via[req[s].conn] # l
  <2>1. /\ From(l)' = From(l) /\ Writing(l)' \subseteq Writing(l)
        /\ Uncounted(l)' = Uncounted(l)
    BY <1>2, <1>3, <1>5 DEF From, Writing, Uncounted
  <2> QED BY <1>0, <1>1, <2>1, StagedKept
<1> QED BY <1>4, <1>5

LEMMA StagedCount ==
  ASSUME Inv, NEW l \in Listeners, Counted(l), LetIn(l), NEW s \in Slots, CountUp(s)
  PROVE  Counted(l)' /\ LetIn(l)'
<1>0. IntakeTypeOK /\ ServerType
  BY DEF Inv, IntakeTypeOK
<1>1. /\ At(s, "count") /\ ToStep(s, "202") /\ staged' = staged
      /\ depth' = [depth EXCEPT ![Via[req[s].conn]] = @ + 1]
  BY DEF CountUp
<1>2. /\ req'[s].step = "202" /\ req'[s].conn = req[s].conn
      /\ \A r \in Slots \ {s} : req'[r] = req[r]
  BY <1>0, <1>1, ToStepFact DEF At, IngestSteps
<1>3. From(l)' = From(l) /\ Writing(l)' = Writing(l)
  BY <1>1, <1>2 DEF From, Writing, At
<1>4. depth[l] \in Nat /\ Cardinality(From(l)) \in Nat
  BY <1>0, StagedFinite DEF ServerType
<1>5. LetIn(l)'
  BY <1>3 DEF LetIn, Quota
<1>6. CASE Via[req[s].conn] = l
  <2>1. depth'[l] = depth[l] + 1
    BY <1>0, <1>1, <1>6 DEF ServerType
  <2>2. /\ Uncounted(l)' \in SUBSET Slots /\ Uncounted(l) \in SUBSET Slots
        /\ Uncounted(l)' \ {s} = Uncounted(l) \ {s}
        /\ s \in Uncounted(l) /\ s \notin Uncounted(l)'
    BY <1>1, <1>2, <1>6 DEF Uncounted, At
  <2>3. /\ Cardinality(Uncounted(l)') + 1 = Cardinality(Uncounted(l))
        /\ Cardinality(Uncounted(l)') \in Nat /\ Cardinality(Uncounted(l)) \in Nat
    BY <2>2, Shift
  <2> QED BY <1>3, <1>4, <1>5, <2>1, <2>3 DEF Counted
<1>7. CASE Via[req[s].conn] # l
  <2>1. depth'[l] = depth[l] /\ Uncounted(l)' = Uncounted(l)
    BY <1>0, <1>1, <1>2, <1>7 DEF ServerType, Uncounted
  <2> QED BY <1>3, <1>5, <2>1 DEF Counted
<1> QED BY <1>6, <1>7

LEMMA StagedNext ==
  ASSUME Inv, Inv', NEW l \in Listeners, Counted(l), LetIn(l), IntakeNext
  PROVE  Counted(l)' /\ LetIn(l)'
<1>0. IntakeTypeOK /\ ServerType /\ IntakeTypeOK'
  BY DEF Inv, IntakeTypeOK
<1>1. CASE UNCHANGED <<req, depth>> /\ staged' \subseteq staged
  BY <1>0, <1>1, StagedKept DEF From, Writing, Uncounted
<1>2. ASSUME NEW c \in Conns, Post(c) PROVE Counted(l)' /\ LetIn(l)'
  <2>1. staged' = staged /\ depth' = depth
    BY <1>2 DEF Post
  <2>2. \A s \in Slots : req'[s] = req[s] \/ (req[s].step = "free" /\ req'[s].step = "check")
    BY <1>0, <1>2 DEF Post, ServerType, Free
  <2>3. From(l)' = From(l) /\ Writing(l)' \subseteq Writing(l) /\ Uncounted(l)' = Uncounted(l)
    BY <2>1, <2>2 DEF From, Writing, Uncounted
  <2> QED BY <1>0, <2>1, <2>3, StagedKept
<1>3. ASSUME NEW s \in Slots, WriteItem(s) \/ WriteFails(s) PROVE Counted(l)' /\ LetIn(l)'
  <2>1. /\ staged' = staged /\ depth' = depth /\ req[s].step \in {"write", "rename"}
        /\ \E next \in {"rename", "500"} : ToStep(s, next)
    BY <1>3 DEF WriteItem, WriteFails, At
  <2>2. /\ req'[s].step \in {"rename", "500"} /\ req'[s].conn = req[s].conn
        /\ \A r \in Slots \ {s} : req'[r] = req[r]
    BY <1>0, <2>1, ToStepFact DEF IngestSteps
  <2>3. From(l)' = From(l) /\ Writing(l)' \subseteq Writing(l) /\ Uncounted(l)' = Uncounted(l)
    BY <2>1, <2>2 DEF From, Writing, Uncounted
  <2> QED BY <1>0, <2>1, <2>3, StagedKept
<1>4. ASSUME NEW s \in Slots, Reply(s) PROVE Counted(l)' /\ LetIn(l)'
  <2>1. /\ staged' = staged /\ depth' = depth /\ req[s].step \in {"202", "400", "429", "500"}
        /\ req'[s].step = "free" /\ \A r \in Slots \ {s} : req'[r] = req[r]
    BY <1>0, <1>4 DEF Reply, ServerType, Free
  <2>2. From(l)' = From(l) /\ Writing(l)' \subseteq Writing(l) /\ Uncounted(l)' = Uncounted(l)
    BY <2>1 DEF From, Writing, Uncounted
  <2> QED BY <1>0, <2>1, <2>2, StagedKept
<1>5. CASE ScannerCrash
  <2>1. /\ From(l)' = From(l) /\ Writing(l)' = {} /\ Uncounted(l)' = {}
        /\ depth'[l] = Cardinality(staged)
    BY <1>5 DEF ScannerCrash, From, Writing, Uncounted, Free
  <2>2. Cardinality(Writing(l)') = 0 /\ Cardinality(Uncounted(l)') = 0
    BY <2>1, FS_EmptySet
  <2>3. Threshold \in Nat /\ Cardinality(Slots) \in Nat
    BY IntakeAssumption, SlotsFinite
  <2> QED BY <1>0, <2>1, <2>2, <2>3, StagedFinite DEF Counted, LetIn, Quota
<1>6. CASE \E s \in Slots : CheckRequest(s) \/ RenameItem(s) \/ CountUp(s)
  BY <1>6, StagedCheck, StagedRename, StagedCount
<1>7. CASE \E c \in Conns : Poll(c) \/ Timeout(c) \/ NoAnswer(c) \/ Save(c) \/ ConnectorCrash(c)
  BY <1>1, <1>7 DEF Poll, Timeout, NoAnswer, Save, ConnectorCrash, server
<1>8. CASE \E x \in staged : Dispatch(x)
  BY <1>1, <1>8 DEF Dispatch
<1> QED BY <1>2, <1>3, <1>4, <1>5, <1>6, <1>7, <1>8 DEF IntakeNext

\* A set that maps to Listeners with at most k elements over each has at most
\* k times as many elements: number them over each listener.
LEMMA SumBound ==
  ASSUME IntakeTypeOK, NEW k \in Nat, \A l \in Listeners : Cardinality(From(l)) <= k
  PROVE  Cardinality(staged) <= Cardinality(Listeners) * k
<1> DEFINE num(l) == CHOOSE f : f \in Bijection(From(l), 1..Cardinality(From(l)))
           lst(x) == Via[x[1]]
           g == [x \in staged |-> <<lst(x), num(lst(x))[x]>>]
<1>1. ASSUME NEW l
      PROVE  num(l) \in Bijection(From(l), 1..Cardinality(From(l)))
  <2>1. IsFiniteSet(From(l)) /\ Cardinality(From(l)) \in Nat
    BY StagedFinite
  <2>2. /\ IsFiniteSet(1..Cardinality(From(l)))
        /\ Cardinality(1..Cardinality(From(l))) = Cardinality(From(l))
    BY <2>1, FS_Interval
  <2>3. \E f : f \in Bijection(From(l), 1..Cardinality(From(l)))
    BY <2>1, <2>2, FS_SameCardinalityBij DEF ExistsBijection
  <2> QED BY <2>3
<1>2. \A x \in staged : lst(x) \in Listeners /\ x \in From(lst(x))
  BY IntakeAssumption DEF IntakeTypeOK, ServerType, From
<1> HIDE DEF num, lst
<1>3. ASSUME NEW x \in staged
      PROVE  num(lst(x))[x] \in 1..k
  <2>1. num(lst(x)) \in [From(lst(x)) -> 1..Cardinality(From(lst(x)))]
    BY <1>1 DEF Bijection, Injection
  <2>2. num(lst(x))[x] \in 1..Cardinality(From(lst(x)))
    BY <1>2, <2>1
  <2> QED BY <1>2, <2>2, StagedFinite
<1>4. g \in [staged -> Listeners \X (1..k)]
  BY <1>2, <1>3
<1>5. ASSUME NEW x \in staged, NEW y \in staged, g[x] = g[y]
      PROVE  x = y
  <2>1. lst(x) = lst(y) /\ num(lst(x))[x] = num(lst(x))[y]
    BY <1>5
  <2>2. x \in From(lst(x)) /\ y \in From(lst(x))
    BY <1>2, <2>1
  <2>3. num(lst(x)) \in Injection(From(lst(x)), 1..Cardinality(From(lst(x))))
    BY <1>1 DEF Bijection
  <2> QED BY <2>1, <2>2, <2>3 DEF Injection, IsInjective
<1> HIDE DEF g
<1>6. g \in Injection(staged, Listeners \X (1..k))
  BY <1>4, <1>5 DEF Injection, IsInjective
<1>7. IsFiniteSet(1..k) /\ Cardinality(1..k) = k
  BY FS_Interval
<1>8. /\ IsFiniteSet(Listeners \X (1..k))
      /\ Cardinality(Listeners \X (1..k)) = Cardinality(Listeners) * k
  BY <1>7, IntakeFinite, FS_Product
<1> QED BY <1>6, <1>8, FS_Injection

\* Inv, the conjunction of NoGap with what it rests on, holds of every state.
THEOREM Invariance == IntakeSpec => []Inv
BY InitInv, NextInv, PTL DEF IntakeSpec

\* Every variable of Intake keeps its type.
THEOREM IntakeTyped == IntakeSpec => []IntakeTypeOK
<1>1. Inv => IntakeTypeOK
  BY DEF Inv
<1> QED
  BY <1>1, Invariance, PTL

\* A connector's checkpoint never passes an entry that did not become an item
\* in staging/, whatever requests and answers are lost, however often it
\* retries, and whenever the connector or the scanner dies.
THEOREM CheckpointSafe == IntakeSpec => []NoGap
<1>1. Inv => NoGap
  BY DEF Inv
<1> QED
  BY <1>1, Invariance, PTL

BoundInv ==
  /\ Inv /\ OneAnswer /\ NoTmpLeft
  /\ \A c \in Conns : \A e \in 1..Entries : Budget(c, e)
  /\ \A l \in Listeners : Counted(l) /\ LetIn(l)

LEMMA InitBound == IntakeInit => BoundInv
<1> SUFFICES ASSUME IntakeInit PROVE BoundInv
  OBVIOUS
<1>1. Inv /\ IntakeTypeOK
  BY InitInv DEF Inv
<1>2. OneAnswer /\ NoTmpLeft
  BY DEF IntakeInit, OneAnswer, NoTmpLeft
<1>3. ASSUME NEW c \in Conns, NEW e \in 1..Entries PROVE Budget(c, e)
  <2>1. Underway(c, e) = {} /\ accepted[c][e] = 0 /\ intakeFaults = 0
    BY DEF IntakeInit, Underway, Free
  <2>2. Due(c, e) \in {0, 1}
    BY DEF Due
  <2> QED BY <2>1, <2>2, FS_EmptySet DEF Budget
<1>4. ASSUME NEW l \in Listeners PROVE Counted(l) /\ LetIn(l)
  <2>1. From(l) = {} /\ Writing(l) = {} /\ Uncounted(l) = {} /\ depth[l] = 0
    BY DEF IntakeInit, From, Writing, Uncounted, Free
  <2>2. Cardinality(Slots) \in Nat /\ Threshold \in Nat \ {0}
    BY IntakeAssumption, SlotsFinite
  <2> QED BY <2>1, <2>2, FS_EmptySet DEF Counted, LetIn, Quota
<1> QED BY <1>1, <1>2, <1>3, <1>4 DEF BoundInv

LEMMA NextBound == BoundInv /\ [IntakeNext]_intakeVars => BoundInv'
<1> SUFFICES ASSUME BoundInv, [IntakeNext]_intakeVars PROVE BoundInv'
  OBVIOUS
<1>1. Inv'
  BY NextInv DEF BoundInv
<1>2. CASE IntakeNext
  BY <1>1, <1>2, OneAnswerNext, NoTmpNext, BudgetNext, StagedNext DEF BoundInv
<1>3. CASE UNCHANGED intakeVars
  <2>1. UNCHANGED <<cpc, entry, waits, memory, req, tmp, staged, accepted, depth, intakeFaults>>
    BY <1>3 DEF intakeVars, client, server
  <2>2. OneAnswer' /\ NoTmpLeft'
    BY <2>1 DEF BoundInv, OneAnswer, NoTmpLeft, At
  <2>3. \A c \in Conns : \A e \in 1..Entries : Budget(c, e)'
    BY <2>1 DEF BoundInv, Budget, Due, Owes, Underway
  <2>4. \A l \in Listeners : Counted(l)' /\ LetIn(l)'
    BY <2>1 DEF BoundInv, Counted, LetIn, Quota, From, Writing, Uncounted
  <2> QED BY <1>1, <2>2, <2>3, <2>4 DEF BoundInv
<1> QED BY <1>2, <1>3

\* What the endpoint keeps bounded, for any number of connectors, entries,
\* handlers and goroutines: an entry makes at most one item more than there
\* were failures, .ingest-tmp holds only what is being written, and staging/
\* stays below the thresholds over any number of restarts of the scanner.
THEOREM BoundsKept == IntakeSpec => []IntakeBounded
<1>1. BoundInv => IntakeBounded
  <2> SUFFICES ASSUME BoundInv PROVE IntakeBounded
    OBVIOUS
  <2>1. IntakeTypeOK
    BY DEF BoundInv, Inv
  <2>2. ASSUME NEW c \in Conns, NEW e \in 1..Entries PROVE Extra(c, e) <= intakeFaults
    <3>1. Underway(c, e) \in SUBSET Slots
      BY DEF Underway
    <3>2. Cardinality(Underway(c, e)) \in Nat /\ Due(c, e) \in {0, 1}
      BY <3>1, SlotsFinite DEF Due
    <3>3. accepted[c][e] \in Nat /\ intakeFaults \in Nat
      <4>1. accepted[c] \in [1..Entries -> Nat]
        BY <2>1 DEF IntakeTypeOK, ServerType
      <4> QED BY <2>1, <4>1, IntakeAssumption DEF IntakeTypeOK
    <3>4. Budget(c, e)
      BY DEF BoundInv
    <3> QED BY <3>2, <3>3, <3>4 DEF Budget, Extra
  <2>3. StagedBounded
    <3>1. Threshold \in Nat \ {0} /\ Cardinality(Slots) \in Nat
      BY IntakeAssumption, SlotsFinite
    <3>2. Quota \in Nat
      BY <3>1 DEF Quota
    <3>3. \A l \in Listeners : Cardinality(From(l)) <= Quota
      BY <2>1, <3>2, StagedFinite DEF BoundInv, LetIn
    <3>4. Cardinality(staged) <= Cardinality(Listeners) * Quota
      BY <2>1, <3>2, <3>3, SumBound
    <3> QED BY <3>4 DEF StagedBounded, Quota
  <2> QED BY <2>1, <2>2, <2>3 DEF BoundInv, IntakeBounded, DuplicatesNeedFaults
<1> QED BY <1>1, InitBound, NextBound, PTL DEF IntakeSpec
=============================================================================
