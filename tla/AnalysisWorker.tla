--------------------------- MODULE AnalysisWorker --------------------------
(***************************************************************************)
(* vusion-ml: AnalysisConsumerThread, the asynchronous producer it shares  *)
(* with POST /analizar, and the atexit handlers that stop the process.     *)
(* Each element of Workers is one process with one consumer thread, all in *)
(* one consumer group.  wpc[w] is the call the thread is about to make;    *)
(* every call to Postgres or S3 is a step, because other processes read    *)
(* the same rows and objects between the calls.                            *)
(***************************************************************************)
EXTENDS GarmentStores

CONSTANTS
    Workers,        \* vusion-ml processes
    NoWorker,       \* owner of a partition between two assignments
    MaxDetections   \* boxes YOLO may find in one image

ASSUME WorkerAssumption == /\ NoWorker \notin Workers
                           /\ MaxDetections \in Nat

VARIABLES
    phase,   \* phase[w]: "up", one of the stages of an exit, or "down"
    wpc,     \* wpc[w]: the next call of the consumer thread
    at,      \* at[w]: <<partition, offset>> of the record in hand
    todo,    \* todo[w]: detections still to insert
    outbox,  \* outbox[w]: records produced and not yet written by the broker
    owner,   \* owner[p]: the consumer that is assigned partition p
    pos      \* pos[p]: the offset its owner has polled up to

workerVars == <<phase, wpc, at, todo, outbox, owner, pos>>
groupVars == <<owner, pos>>

Phases == {"up", "flushed", "dbClosed", "down"}

WorkerPoints == {"poll", "mark", "fetch", "upload", "save", "detect",
                 "except", "reset", "fail", "commit"}

Offset == Nat \ {0}

Nothing == << >>

Entry == [topic : {"analysis"}, body : Message] \cup [topic : {"dlq"}, body : Job]

WorkerTypeOK ==
    /\ phase \in [Workers -> Phases]
    /\ wpc \in [Workers -> WorkerPoints]
    /\ at \in [Workers -> (Partitions \X Offset) \cup {Nothing}]
    /\ todo \in [Workers -> Nat]
    /\ outbox \in [Workers -> Seq(Entry)]
    /\ owner \in [Partitions -> Workers \cup {NoWorker}]
    /\ pos \in [Partitions -> Nat]

WorkerInit ==
    /\ phase = [w \in Workers |-> "up"]
    /\ wpc = [w \in Workers |-> "poll"]
    /\ at = [w \in Workers |-> Nothing]
    /\ todo = [w \in Workers |-> 0]
    /\ outbox = [w \in Workers |-> << >>]
    /\ owner = [p \in Partitions |-> NoWorker]
    /\ pos = [p \in Partitions |-> 0]

Live(w) == phase[w] # "down"

(* The record the thread has in hand, and the garment it is about.         *)
Hand(w) == log[at[w][1]][at[w][2]]
Subject(w) == Hand(w).garment

(* A call made at point "here" returns to the next one or raises.          *)
Call(w, here, next) ==
    /\ Live(w)
    /\ wpc[w] = here
    /\ \E point \in IF "call" \in Faults THEN {next, "except"} ELSE {next} :
          wpc' = [wpc EXCEPT ![w] = point]

(* The same for a call that takes a connection from the database pool.     *)
DbCall(w, here, next) == phase[w] # "dbClosed" /\ Call(w, here, next)

(* The thread goes back to consumer.poll; its locals are gone.             *)
BackToPoll(w) ==
    /\ wpc' = [wpc EXCEPT ![w] = "poll"]
    /\ at' = [at EXCEPT ![w] = Nothing]

----------------------------------------------------------------------------
(* consumer.poll returns the next record of an assigned partition.         *)
CanPoll(w, p) == /\ Live(w)
                 /\ wpc[w] = "poll"
                 /\ owner[p] = w
                 /\ pos[p] < Len(log[p])

(* Mutant: enable.auto.commit left on, so polling commits.                 *)
PollJobAutoCommit(w, p) ==
    /\ CanPoll(w, p)
    /\ log[p][pos[p] + 1] # LegacyMessage
    /\ pos' = [pos EXCEPT ![p] = @ + 1]
    /\ committed' = [committed EXCEPT ![p] = pos[p] + 1]
    /\ at' = [at EXCEPT ![w] = <<p, pos[p] + 1>>]
    /\ wpc' = [wpc EXCEPT ![w] = "mark"]
    /\ UNCHANGED <<rowVars, bucketVars, log, dlq, phase, todo, outbox, owner, events>>

(* A record that parses becomes the one in hand.                           *)
PollJob(w, p) ==
    /\ CanPoll(w, p)
    /\ log[p][pos[p] + 1] # LegacyMessage
    /\ pos' = [pos EXCEPT ![p] = @ + 1]
    /\ at' = [at EXCEPT ![w] = <<p, pos[p] + 1>>]
    /\ wpc' = [wpc EXCEPT ![w] = "mark"]
    /\ UNCHANGED <<storeVars, phase, todo, outbox, owner, events>>

(* A record without garment_id raises KeyError before the inner try: it is *)
(* logged and skipped, and nothing is committed.                           *)
PollLegacy(w, p) ==
    /\ CanPoll(w, p)
    /\ log[p][pos[p] + 1] = LegacyMessage
    /\ pos' = [pos EXCEPT ![p] = @ + 1]
    /\ UNCHANGED <<storeVars, phase, wpc, at, todo, outbox, owner, events>>

(* Mutant: a garment that is completed already is skipped.                 *)
MarkUnlessCompleted(w) ==
    /\ phase[w] # "dbClosed"
    /\ Live(w)
    /\ wpc[w] = "mark"
    /\ \/ status[Subject(w)] = "completed" /\ wpc' = [wpc EXCEPT ![w] = "commit"]
       \/ status[Subject(w)] # "completed" /\ wpc' = [wpc EXCEPT ![w] = "fetch"]
    /\ status' = [status EXCEPT ![Subject(w)] = IF @ = "completed" THEN @ ELSE "processing"]
    /\ UNCHANGED <<imageUrl, detections, bucketVars, topicVars,
                   phase, at, todo, outbox, groupVars, events>>

(* update_status(garment_id, "processing").                                *)
MarkProcessing(w) ==
    /\ DbCall(w, "mark", "fetch")
    /\ UpdateStatus(Subject(w), "processing")
    /\ UNCHANGED <<imageUrl, detections, bucketVars, topicVars,
                   phase, at, todo, outbox, groupVars, events>>

(* Mutant: the staged object is consumed as it is read.                    *)
FetchAndDelete(w) ==
    /\ Call(w, "fetch", "upload")
    /\ raw[Subject(w)]
    /\ raw' = [raw EXCEPT ![Subject(w)] = FALSE]
    /\ UNCHANGED <<rowVars, processed, topicVars,
                   phase, at, todo, outbox, groupVars, events>>

(* get_object_bytes raises when the staged object is gone; run_pipeline is *)
(* part of this step, its own failures being the call that raises.         *)
FetchAndAnalyse(w) ==
    /\ Call(w, "fetch", "upload")
    /\ raw[Subject(w)]
    /\ UNCHANGED <<storeVars, phase, at, todo, outbox, groupVars, events>>

FetchMissing(w) ==
    /\ Live(w)
    /\ wpc[w] = "fetch"
    /\ ~ raw[Subject(w)]
    /\ wpc' = [wpc EXCEPT ![w] = "except"]
    /\ UNCHANGED <<storeVars, phase, at, todo, outbox, groupVars, events>>

(* Mutant: the upload is started and not awaited.                          *)
UploadNotAwaited(w) ==
    /\ Call(w, "upload", "save")
    /\ UNCHANGED <<storeVars, phase, at, todo, outbox, groupVars, events>>

(* upload_png of the processed image, always to the same key.              *)
UploadProcessed(w) ==
    /\ Call(w, "upload", "save")
    /\ processed' = [processed EXCEPT ![Subject(w)] = TRUE]
    /\ UNCHANGED <<rowVars, raw, topicVars,
                   phase, at, todo, outbox, groupVars, events>>

(* Mutant: the UPDATE leaves status alone.                                 *)
SaveWithoutStatus(w) ==
    /\ DbCall(w, "save", "detect")
    /\ imageUrl' = [imageUrl EXCEPT ![Subject(w)] = TRUE]
    /\ \E n \in 0 .. MaxDetections :
          todo' = [todo EXCEPT ![w] = IF wpc'[w] = "detect" THEN n ELSE 0]
    /\ UNCHANGED <<status, detections, bucketVars, topicVars,
                   phase, at, outbox, groupVars, events>>

(* save_classification_complete: one UPDATE sets image_url, every          *)
(* classification column and status.  The pipeline found 0..MaxDetections. *)
SaveClassificationComplete(w) ==
    /\ DbCall(w, "save", "detect")
    /\ UpdateStatus(Subject(w), "completed")
    /\ imageUrl' = [imageUrl EXCEPT ![Subject(w)] = TRUE]
    /\ \E n \in 0 .. MaxDetections :
          todo' = [todo EXCEPT ![w] = IF wpc'[w] = "detect" THEN n ELSE 0]
    /\ UNCHANGED <<detections, bucketVars, topicVars,
                   phase, at, outbox, groupVars, events>>

(* One iteration of the loop over result.detections.                       *)
InsertDetection(w) ==
    /\ todo[w] > 0
    /\ DbCall(w, "detect", "detect")
    /\ detections' = [detections EXCEPT ![Subject(w)] = @ + 1]
    /\ todo' = [todo EXCEPT ![w] = IF wpc'[w] = "detect" THEN @ - 1 ELSE 0]
    /\ UNCHANGED <<status, imageUrl, bucketVars, topicVars,
                   phase, at, outbox, groupVars, events>>

(* delete_object of the staging key; deleting a missing object succeeds.   *)
DeleteRaw(w) ==
    /\ todo[w] = 0
    /\ Call(w, "detect", "commit")
    /\ raw' = [raw EXCEPT ![Subject(w)] = FALSE]
    /\ UNCHANGED <<rowVars, processed, topicVars,
                   phase, at, todo, outbox, groupVars, events>>

(* A call raises without having taken effect; once the pool is closed      *)
(* every database call does.                                               *)
DatabasePoints == {"mark", "save"}
CallPoints == {"mark", "fetch", "upload", "save", "detect"}

CallFails(w) ==
    /\ Live(w)
    /\ wpc[w] \in CallPoints
    /\ \/ "call" \in Faults
       \/ /\ phase[w] = "dbClosed"
          /\ (wpc[w] \in DatabasePoints \/ (wpc[w] = "detect" /\ todo[w] > 0))
    /\ wpc' = [wpc EXCEPT ![w] = "except"]
    /\ todo' = [todo EXCEPT ![w] = 0]
    /\ UNCHANGED <<storeVars, phase, at, outbox, groupVars, events>>

----------------------------------------------------------------------------
(* Mutant: the dead letter is never handed to the producer.                *)
ProduceOnlyRetries(w, topic, m) ==
    IF topic = "analysis"
      THEN outbox' = [outbox EXCEPT ![w] = Append(@, [topic |-> topic, body |-> m])]
      ELSE UNCHANGED outbox

(* publish_json of the except branch only appends to the producer's buffer.*)
Produce(w, topic, m) ==
    outbox' = [outbox EXCEPT ![w] = Append(@, [topic |-> topic, body |-> m])]

(* Mutants: > for >= in the test of attempt, and the limit one too low.    *)
LastAttemptTooLate(w) == Hand(w).attempt > MaxAttempt

LastAttemptTooEarly(w) == Hand(w).attempt >= MaxAttempt - 1

(* The test "attempt >= 2".                                                *)
LastAttempt(w) == Hand(w).attempt >= MaxAttempt

(* The same payload with attempt + 1 goes back to the analysis topic.      *)
RetryJob(w) ==
    /\ Live(w)
    /\ wpc[w] = "except"
    /\ ~ LastAttempt(w)
    /\ Produce(w, "analysis", [Hand(w) EXCEPT !.attempt = @ + 1])
    /\ wpc' = [wpc EXCEPT ![w] = "reset"]
    /\ UNCHANGED <<storeVars, phase, at, todo, groupVars, events>>

(* After the last attempt the payload goes to the dead-letter topic.       *)
DeadLetterJob(w) ==
    /\ Live(w)
    /\ wpc[w] = "except"
    /\ LastAttempt(w)
    /\ Produce(w, "dlq", Hand(w))
    /\ wpc' = [wpc EXCEPT ![w] = "fail"]
    /\ UNCHANGED <<storeVars, phase, at, todo, groupVars, events>>

(* produce raises (its queue is full): the exception leaves the handler,   *)
(* run() logs it, and the record is skipped without a commit.              *)
ProduceRaises(w) ==
    /\ "enqueue" \in Faults
    /\ Live(w)
    /\ wpc[w] = "except"
    /\ BackToPoll(w)
    /\ UNCHANGED <<storeVars, phase, todo, outbox, groupVars, events>>

(* update_status after the publish; an error here is swallowed.            *)
StatusAfterFailure(w, here, s) ==
    /\ Live(w)
    /\ phase[w] # "dbClosed"
    /\ wpc[w] = here
    /\ UpdateStatus(Subject(w), s)
    /\ wpc' = [wpc EXCEPT ![w] = "commit"]
    /\ UNCHANGED <<imageUrl, detections, bucketVars, topicVars,
                   phase, at, todo, outbox, groupVars, events>>

ResetStatus(w) == StatusAfterFailure(w, "reset", "queued")

FailStatus(w) == StatusAfterFailure(w, "fail", "failed")

StatusFails(w) ==
    /\ Live(w)
    /\ wpc[w] \in {"reset", "fail"}
    /\ "call" \in Faults \/ phase[w] = "dbClosed"
    /\ wpc' = [wpc EXCEPT ![w] = "commit"]
    /\ UNCHANGED <<storeVars, phase, at, todo, outbox, groupVars, events>>

(* consumer.commit(msg) is asynchronous: it takes effect only while the    *)
(* consumer still owns the partition, and a lost commit raises nothing.    *)
Commit(w) ==
    LET p == at[w][1] IN
    /\ Live(w)
    /\ wpc[w] = "commit"
    /\ \/ owner[p] = w /\ committed' = [committed EXCEPT ![p] = at[w][2]]
       \/ (owner[p] # w \/ "commit" \in Faults) /\ UNCHANGED committed
    /\ BackToPoll(w)
    /\ UNCHANGED <<rowVars, bucketVars, log, dlq,
                   phase, todo, outbox, groupVars, events>>

----------------------------------------------------------------------------
(* The producer's background thread: records to different partitions leave *)
(* in any order.                                                           *)
Without(s, k) == [i \in 1 .. Len(s) - 1 |-> IF i < k THEN s[i] ELSE s[i + 1]]

Unqueue(w, k) == outbox' = [outbox EXCEPT ![w] = Without(@, k)]

DeliverAnalysis(w, k) ==
    /\ Live(w)
    /\ outbox[w][k].topic = "analysis"
    /\ \E p \in Partitions : WriteRecord(p, outbox[w][k].body)
    /\ Unqueue(w, k)
    /\ UNCHANGED <<rowVars, bucketVars, committed, dlq,
                   phase, wpc, at, todo, groupVars>>

DeliverDeadLetter(w, k) ==
    /\ Live(w)
    /\ outbox[w][k].topic = "dlq"
    /\ dlq' = dlq \cup {outbox[w][k].body}
    /\ Unqueue(w, k)
    /\ UNCHANGED <<rowVars, bucketVars, log, committed,
                   phase, wpc, at, todo, groupVars, events>>

(* Delivery times out: without a delivery callback nobody notices.         *)
DropRecord(w, k) ==
    /\ "drop" \in Faults
    /\ Live(w)
    /\ Unqueue(w, k)
    /\ UNCHANGED <<storeVars, phase, wpc, at, todo, groupVars, events>>

(* POST /analizar publishes a demo result to the analysis topic.           *)
Analizar(w) ==
    /\ Event("legacy")
    /\ phase[w] = "up"
    /\ Produce(w, "analysis", LegacyMessage)
    /\ UNCHANGED <<storeVars, phase, wpc, at, todo, groupVars>>

----------------------------------------------------------------------------
(* Mutant: auto.offset.reset = latest, so without a committed offset an    *)
(* assignment starts at the end.                                           *)
AssignLatest(p, w) ==
    /\ owner[p] = NoWorker
    /\ Live(w)
    /\ owner' = [owner EXCEPT ![p] = w]
    /\ pos' = [pos EXCEPT ![p] = IF committed[p] = 0 THEN Len(log[p]) ELSE committed[p]]
    /\ UNCHANGED <<storeVars, phase, wpc, at, todo, outbox, events>>

(* The consumer group gives p to a live consumer, which starts at the      *)
(* committed offset, or at 0 (auto.offset.reset = earliest).               *)
Assign(p, w) ==
    /\ owner[p] = NoWorker
    /\ Live(w)
    /\ owner' = [owner EXCEPT ![p] = w]
    /\ pos' = [pos EXCEPT ![p] = committed[p]]
    /\ UNCHANGED <<storeVars, phase, wpc, at, todo, outbox, events>>

Revoke(p) ==
    /\ Event("rebalance")
    /\ owner[p] # NoWorker
    /\ owner' = [owner EXCEPT ![p] = NoWorker]
    /\ UNCHANGED <<storeVars, phase, wpc, at, todo, outbox, pos>>

(* The process is gone, and with it the thread, its record in hand and the *)
(* producer's buffer; the group takes its partitions back.                 *)
ProcessGone(w) ==
    /\ phase' = [phase EXCEPT ![w] = "down"]
    /\ BackToPoll(w)
    /\ todo' = [todo EXCEPT ![w] = 0]
    /\ outbox' = [outbox EXCEPT ![w] = << >>]
    /\ owner' = [p \in Partitions |-> IF owner[p] = w THEN NoWorker ELSE owner[p]]
    /\ UNCHANGED <<storeVars, pos>>

WorkerCrash(w) ==
    /\ Event("crash")
    /\ Live(w)
    /\ ProcessGone(w)

(* A graceful exit runs the atexit handlers last registered first:         *)
(* kafka.close flushes, db.close closes the pool, consumer.stop leaves the *)
(* group.  The daemon thread keeps running meanwhile.  flush(5) waits for  *)
(* the buffer to empty, or gives up when the broker is slow.               *)
FlushAtExit(w) ==
    /\ Event("shutdown")
    /\ phase[w] = "up"
    /\ outbox[w] = << >> \/ "drop" \in Faults
    /\ phase' = [phase EXCEPT ![w] = "flushed"]
    /\ UNCHANGED <<storeVars, wpc, at, todo, outbox, groupVars>>

CloseDatabase(w) ==
    /\ phase[w] = "flushed"
    /\ phase' = [phase EXCEPT ![w] = "dbClosed"]
    /\ UNCHANGED <<storeVars, wpc, at, todo, outbox, groupVars, events>>

StopConsumer(w) ==
    /\ phase[w] = "dbClosed"
    /\ ProcessGone(w)
    /\ UNCHANGED events

Restart(w) ==
    /\ phase[w] = "down"
    /\ phase' = [phase EXCEPT ![w] = "up"]
    /\ UNCHANGED <<storeVars, wpc, at, todo, outbox, groupVars, events>>

----------------------------------------------------------------------------
(* What the consumer thread does once it runs.                             *)
HandleRecord(w) ==
    \/ MarkProcessing(w) \/ FetchAndAnalyse(w) \/ FetchMissing(w)
    \/ UploadProcessed(w) \/ SaveClassificationComplete(w)
    \/ InsertDetection(w) \/ DeleteRaw(w) \/ CallFails(w)
    \/ RetryJob(w) \/ DeadLetterJob(w) \/ ProduceRaises(w)
    \/ ResetStatus(w) \/ FailStatus(w) \/ StatusFails(w) \/ Commit(w)

ThreadStep(w) ==
    HandleRecord(w) \/ \E p \in Partitions : PollJob(w, p) \/ PollLegacy(w, p)

Deliver(w) == \E k \in 1 .. Len(outbox[w]) :
                 DeliverAnalysis(w, k) \/ DeliverDeadLetter(w, k)

Exit(w) == CloseDatabase(w) \/ StopConsumer(w)

============================================================================
