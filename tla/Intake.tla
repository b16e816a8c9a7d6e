------------------------------- MODULE Intake -------------------------------
(***************************************************************************)
(* How an entry of a source becomes an item in staging/: the poll of a     *)
(* connector, its checkpoint and its HTTP backend on one side, the ingest  *)
(* endpoint with its backpressure counters on the other.                   *)
(*                                                                         *)
(* A connector posts one entry after the other and saves its checkpoint    *)
(* after each.  Requests and answers may be lost, a client may give up on  *)
(* a request the server goes on handling, and either process may die.  A   *)
(* request is handled in one goroutine of the server, here a slot.  The    *)
(* plaintext and the mTLS listener have a handler, and a counter, each.    *)
(***************************************************************************)
EXTENDS Naturals, FiniteSets

CONSTANTS Conns,       \* connectors
          Entries,     \* number of entries in each connector's source
          Listeners,   \* ingest handlers
          Via,         \* Via[c]: the handler connector c posts to
          Bad,         \* entries whose metadata does not validate
          Slots,       \* goroutines of the ingest server
          Threshold,   \* ingest.backpressure_threshold
          RetryMax,    \* HTTPStagingBackend.retryMax
          PerSource,   \* FetchLimits.PerSource, the entries of one poll
          MaxIntakeFaults \* bound: failures and crashes in one behaviour

ASSUME IntakeAssumption ==
  /\ Entries \in Nat
  /\ Via \in [Conns -> Listeners]
  /\ Bad \subseteq 1..Entries
  /\ Threshold \in Nat \ {0} /\ RetryMax \in Nat
  /\ PerSource \in Nat \ {0} /\ MaxIntakeFaults \in Nat

\* There are two handlers, and at any time finitely many goroutines.
ASSUME IntakeFinite == IsFiniteSet(Listeners) /\ IsFiniteSet(Slots)

VARIABLES cpc,         \* cpc[c]: the step of connector c
          entry,       \* entry[c]: the entry it is sending
          attempt,     \* attempt[c]: posts of it that failed
          fetched,     \* fetched[c]: entries taken in this poll
          waits,       \* waits[c]: the slots that may still answer it
          memory,      \* memory[c]: the checkpoint in fileCheckpoint.data
          onDisk,      \* onDisk[c]: the checkpoint in state.json
          req,         \* req[s]: the request slot s handles
          tmp,         \* slots with a directory in .ingest-tmp
          staged,      \* items in staging/
          accepted,    \* accepted[c][e]: items made from entry e of c
          depth,       \* depth[l]: Handler.queueDepth
          intakeFaults \* failures so far

client == <<cpc, entry, attempt, fetched, waits>>
server == <<req, tmp, staged, accepted, depth>>
intakeVars == <<client, memory, onDisk, server, intakeFaults>>

Free  == [step |-> "free"]
IngestSteps == {"check", "write", "rename", "count", "202", "400", "429", "500"}

ClientType ==
  /\ cpc \in [Conns -> {"idle", "post", "wait", "save"}]
  /\ entry \in [Conns -> 0..Entries]
  /\ attempt \in [Conns -> 0..RetryMax]
  /\ fetched \in [Conns -> 0..PerSource]
  /\ waits \in [Conns -> SUBSET Slots]
  /\ memory \in [Conns -> 0..Entries] /\ onDisk \in [Conns -> 0..Entries]

IngestRequest == [conn : Conns, entry : 1..Entries, step : IngestSteps]

ServerType ==
  /\ req \in [Slots -> IngestRequest \cup {Free}]
  /\ tmp \subseteq Slots
  /\ staged \subseteq Conns \X (1..Entries) \X Nat /\ IsFiniteSet(staged)
  /\ accepted \in [Conns -> [1..Entries -> Nat]]
  /\ depth \in [Listeners -> Nat]

IntakeTypeOK == ClientType /\ ServerType /\ intakeFaults \in 0..MaxIntakeFaults

IntakeInit ==
  /\ cpc = [c \in Conns |-> "idle"]
  /\ entry = [c \in Conns |-> 0]
  /\ attempt = [c \in Conns |-> 0]
  /\ fetched = [c \in Conns |-> 0]
  /\ waits = [c \in Conns |-> {}]
  /\ memory = [c \in Conns |-> 0] /\ onDisk = [c \in Conns |-> 0]
  /\ req = [s \in Slots |-> Free]
  /\ tmp = {} /\ staged = {}
  /\ accepted = [c \in Conns |-> [e \in 1..Entries |-> 0]]
  /\ depth = [l \in Listeners |-> 0]
  /\ intakeFaults = 0

IntakeFault == intakeFaults < MaxIntakeFaults /\ intakeFaults' = intakeFaults + 1

-----------------------------------------------------------------------------
(* The connector: Poll, postWithRetry, the checkpoint.                      *)

\* Commit of entry e: its first post is due.
Commit(c, e) ==
  /\ cpc' = [cpc EXCEPT ![c] = "post"]
  /\ entry' = [entry EXCEPT ![c] = e]
  /\ attempt' = [attempt EXCEPT ![c] = 0]

\* The poll is over, with or without an error.
EndPoll(c) ==
  /\ cpc' = [cpc EXCEPT ![c] = "idle"]
  /\ UNCHANGED <<entry, attempt>>

\* A poll begins behind the checkpoint.
Poll(c) ==
  /\ cpc[c] = "idle" /\ memory[c] < Entries
  /\ Commit(c, memory[c] + 1)
  /\ fetched' = [fetched EXCEPT ![c] = 1]
  /\ UNCHANGED <<waits, memory, onDisk, server, intakeFaults>>

\* After a failed post: try again, or give the entry up for this poll.
Retry(c) ==
  \/ /\ attempt[c] < RetryMax
     /\ attempt' = [attempt EXCEPT ![c] = @ + 1]
     /\ cpc' = [cpc EXCEPT ![c] = "post"]
     /\ UNCHANGED entry
  \/ attempt[c] = RetryMax /\ EndPoll(c)

\* The request reaches a handler, or is lost on its way.
Post(c) ==
  /\ cpc[c] = "post"
  /\ \/ \E s \in Slots :
          /\ req[s] = Free
          /\ req' = [req EXCEPT ![s] = [conn |-> c, entry |-> entry[c],
                                        step |-> "check"]]
          /\ waits' = [waits EXCEPT ![c] = {s}]
          /\ cpc' = [cpc EXCEPT ![c] = "wait"]
          /\ UNCHANGED <<entry, attempt, intakeFaults>>
     \/ IntakeFault /\ Retry(c) /\ UNCHANGED <<waits, req>>
  /\ UNCHANGED <<fetched, memory, onDisk, tmp, staged, accepted, depth>>

\* The client's timeout, or an answer that does not arrive.
Timeout(c) ==
  /\ cpc[c] = "wait" /\ waits[c] # {}
  /\ IntakeFault
  /\ waits' = [waits EXCEPT ![c] = {}]
  /\ UNCHANGED <<cpc, entry, attempt, fetched, memory, onDisk, server>>

\* The connection is gone: an error of httpClient.Do.
NoAnswer(c) ==
  /\ cpc[c] = "wait" /\ waits[c] = {}
  /\ Retry(c)
  /\ UNCHANGED <<fetched, waits, memory, onDisk, server, intakeFaults>>

\* Mutant: an error of the server counts as accepted.
ReceiveLax(c, code) ==
  \/ /\ code \in {"202", "500"}
     /\ cpc' = [cpc EXCEPT ![c] = "save"]
     /\ UNCHANGED <<entry, attempt>>
  \/ code = "400" /\ EndPoll(c)
  \/ code = "429" /\ Retry(c)

\* 202 ends the commit, 400 is a permanent error, 429 and 500 are retried.
Receive(c, code) ==
  \/ /\ code = "202"
     /\ cpc' = [cpc EXCEPT ![c] = "save"]
     /\ UNCHANGED <<entry, attempt>>
  \/ code = "400" /\ EndPoll(c)
  \/ code \in {"429", "500"} /\ Retry(c)

\* The next entry of the poll, within the limit of the fetch counter.
NextEntry(c) ==
  \/ /\ entry[c] < Entries /\ fetched[c] < PerSource
     /\ Commit(c, entry[c] + 1)
     /\ fetched' = [fetched EXCEPT ![c] = @ + 1]
  \/ /\ entry[c] = Entries \/ fetched[c] = PerSource
     /\ EndPoll(c)
     /\ UNCHANGED fetched

\* fileCheckpoint.Save changes the map first and then replaces state.json; an
\* error of the second step ends the poll.
Save(c) ==
  /\ cpc[c] = "save"
  /\ memory' = [memory EXCEPT ![c] = entry[c]]
  /\ \/ /\ onDisk' = [onDisk EXCEPT ![c] = entry[c]]
        /\ NextEntry(c)
        /\ UNCHANGED intakeFaults
     \/ IntakeFault /\ EndPoll(c) /\ UNCHANGED <<onDisk, fetched>>
  /\ UNCHANGED <<waits, server>>

\* The connector dies and starts again with the checkpoint on disk.
ConnectorCrash(c) ==
  /\ IntakeFault
  /\ EndPoll(c)
  /\ waits' = [waits EXCEPT ![c] = {}]
  /\ memory' = [memory EXCEPT ![c] = onDisk[c]]
  /\ UNCHANGED <<fetched, onDisk, server>>

-----------------------------------------------------------------------------
(* The ingest endpoint: Handler.ServeHTTP.                                  *)

At(s, step)   == req[s].step = step
ToStep(s, step) == req' = [req EXCEPT ![s].step = step]

Full(l) == depth[l] >= Threshold

\* The backpressure check and the validation of the request.
CheckRequest(s) ==
  /\ At(s, "check")
  /\ \/ Full(Via[req[s].conn]) /\ ToStep(s, "429")
     \/ /\ ~Full(Via[req[s].conn])
        /\ \/ req[s].entry \in Bad /\ ToStep(s, "400")
           \/ req[s].entry \notin Bad /\ ToStep(s, "write")
  /\ UNCHANGED <<client, memory, onDisk, tmp, staged, accepted, depth,
                 intakeFaults>>

\* The item is written to a directory of its own in .ingest-tmp.
WriteItem(s) ==
  /\ At(s, "write")
  /\ tmp' = tmp \cup {s}
  /\ ToStep(s, "rename")
  /\ UNCHANGED <<client, memory, onDisk, staged, accepted, depth,
                 intakeFaults>>

\* A write or the rename fails: the directory is removed.
WriteFails(s) ==
  /\ At(s, "rename")
  /\ IntakeFault
  /\ tmp' = tmp \ {s}
  /\ ToStep(s, "500")
  /\ UNCHANGED <<client, memory, onDisk, staged, accepted, depth>>

\* The rename into staging/.
RenameItem(s) ==
  /\ At(s, "rename")
  /\ LET c == req[s].conn
         e == req[s].entry IN
       /\ accepted' = [accepted EXCEPT ![c][e] = @ + 1]
       /\ staged' = staged \cup {<<c, e, accepted[c][e]>>}
  /\ tmp' = tmp \ {s}
  /\ ToStep(s, "count")
  /\ UNCHANGED <<client, memory, onDisk, depth, intakeFaults>>

\* Mutant: an item is counted when it is written and when it is renamed.
CountTwice(s) ==
  /\ At(s, "count")
  /\ depth' = [depth EXCEPT ![Via[req[s].conn]] = @ + 2]
  /\ ToStep(s, "202")
  /\ UNCHANGED <<client, memory, onDisk, tmp, staged, accepted, intakeFaults>>

CountUp(s) ==
  /\ At(s, "count")
  /\ depth' = [depth EXCEPT ![Via[req[s].conn]] = @ + 1]
  /\ ToStep(s, "202")
  /\ UNCHANGED <<client, memory, onDisk, tmp, staged, accepted, intakeFaults>>

\* The answer; the client takes it if it still waits for this request.
Reply(s) ==
  /\ req[s].step \in {"202", "400", "429", "500"}
  /\ LET c == req[s].conn IN
       \/ /\ s \in waits[c]
          /\ waits' = [waits EXCEPT ![c] = {}]
          /\ Receive(c, req[s].step)
       \/ s \notin waits[c] /\ UNCHANGED <<cpc, entry, attempt, waits>>
  /\ req' = [req EXCEPT ![s] = Free]
  /\ UNCHANGED <<fetched, memory, onDisk, tmp, staged, accepted, depth,
                 intakeFaults>>

\* The watcher and the pipeline behind it take an item.  Nothing calls
\* DecrementQueue.
Dispatch(x) ==
  /\ x \in staged
  /\ staged' = staged \ {x}
  /\ UNCHANGED <<client, memory, onDisk, req, tmp, accepted, depth,
                 intakeFaults>>

\* Mutant: the counters start at zero.
ScannerCrashZero ==
  /\ IntakeFault
  /\ req' = [s \in Slots |-> Free] /\ tmp' = {}
  /\ waits' = [c \in Conns |-> {}]
  /\ depth' = [l \in Listeners |-> 0]
  /\ UNCHANGED <<cpc, entry, attempt, fetched, memory, onDisk, staged, accepted>>

\* The scanner dies and starts again: InitQueueDepth removes .ingest-tmp and
\* counts the items in staging/, for each handler.
ScannerCrash ==
  /\ IntakeFault
  /\ req' = [s \in Slots |-> Free] /\ tmp' = {}
  /\ waits' = [c \in Conns |-> {}]
  /\ depth' = [l \in Listeners |-> Cardinality(staged)]
  /\ UNCHANGED <<cpc, entry, attempt, fetched, memory, onDisk, staged, accepted>>

IntakeNext ==
  \/ \E c \in Conns : \/ Poll(c) \/ Post(c) \/ Timeout(c) \/ NoAnswer(c)
                      \/ Save(c) \/ ConnectorCrash(c)
  \/ \E s \in Slots : \/ CheckRequest(s) \/ WriteItem(s) \/ WriteFails(s)
                      \/ RenameItem(s) \/ CountUp(s) \/ Reply(s)
  \/ \E x \in staged : Dispatch(x)
  \/ ScannerCrash

\* The steps of a handler in which nothing fails.
Handling(s) ==
  CheckRequest(s) \/ WriteItem(s) \/ RenameItem(s) \/ CountUp(s) \/ Reply(s)

\* Connectors poll again and again, handlers and the pipeline go on.
IntakeFairness ==
  /\ \A c \in Conns : /\ WF_intakeVars(Poll(c)) /\ SF_intakeVars(Post(c))
                      /\ WF_intakeVars(NoAnswer(c)) /\ WF_intakeVars(Save(c))
  /\ \A s \in Slots : WF_intakeVars(Handling(s))
  /\ WF_intakeVars(\E x \in staged : Dispatch(x))

IntakeSpec     == IntakeInit /\ [][IntakeNext]_intakeVars
IntakeFairSpec == IntakeSpec /\ IntakeFairness

-----------------------------------------------------------------------------
(* Properties.                                                              *)

\* Every entry up to the checkpoint, in memory or on disk, has been made into
\* an item: no lost answer, retry or crash makes a connector skip one.
NoGap ==
  \A c \in Conns : \A e \in 1..Entries :
    e <= memory[c] \/ e <= onDisk[c] => accepted[c][e] > 0

\* What NoGap rests on.  A connector that is sending an entry sends the one
\* behind its checkpoint; the request it waits for is about that entry; and an
\* entry is saved, or answered with 202, only when it has become an item.
Sending ==
  \A c \in Conns : cpc[c] # "idle" =>
    entry[c] = memory[c] + 1 /\ entry[c] <= Entries

Awaited ==
  \A c \in Conns : \A s \in waits[c] :
    /\ cpc[c] = "wait"
    /\ req[s] # Free /\ req[s].conn = c /\ req[s].entry = entry[c]

Confirmed ==
  /\ \A s \in Slots : req[s].step \in {"count", "202"} =>
       accepted[req[s].conn][req[s].entry] > 0
  /\ \A c \in Conns : cpc[c] = "save" => accepted[c][entry[c]] > 0

Inv == IntakeTypeOK /\ Sending /\ Awaited /\ Confirmed /\ NoGap

\* Items made from an entry beyond the first: each needs a failure, since an
\* entry is sent again only when an answer or a checkpoint got lost.
Extra(c, e) == IF accepted[c][e] > 1 THEN accepted[c][e] - 1 ELSE 0

\* Duplicates come from failures only: with 429, 400 and 500 answers alone an
\* entry is never sent again after it was accepted.
DuplicatesNeedFaults ==
  \A c \in Conns : \A e \in 1..Entries : Extra(c, e) <= intakeFaults

\* A directory in .ingest-tmp belongs to a request that is being written.
NoTmpLeft == \A s \in tmp : At(s, "rename")

\* Each handler lets less into staging/ than the threshold and the number of
\* requests handled at a time together, over any number of restarts.
StagedBounded ==
  Cardinality(staged) <=
    Cardinality(Listeners) * (Threshold - 1 + Cardinality(Slots))

\* What the endpoint keeps bounded, through retries, crashes and requests
\* handled at once: duplicates by the failures there were, directories by the
\* requests being written, and staging/ by the thresholds.
IntakeBounded ==
  IntakeTypeOK /\ DuplicatesNeedFaults /\ NoTmpLeft /\ StagedBounded

\* With fewer entries than the threshold, every entry becomes an item, unless
\* one that the endpoint rejects comes before it.
AllAccepted ==
  <>(\A c \in Conns : \A e \in 1..Entries :
       (\A b \in Bad : e < b) => accepted[c][e] > 0)
=============================================================================
