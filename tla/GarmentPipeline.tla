-------------------------- MODULE GarmentPipeline --------------------------
(***************************************************************************)
(* The garment pipeline: uploads on the Go API and vusion-ml workers over  *)
(* the stores they share.                                                  *)
(***************************************************************************)
EXTENDS ClotheService, AnalysisWorker

vars == <<storeVars, events, uploadVars, workerVars>>

Init == StoresInit /\ UploadInit /\ WorkerInit

(* The steps of one upload, of one worker, and of the broker.              *)
UploadNext(g) ==
    \/ Register(g) /\ UNCHANGED workerVars
    \/ CreateClothe(g) /\ UNCHANGED workerVars
    \/ CreateClotheFails(g) /\ UNCHANGED workerVars
    \/ StageRaw(g) /\ UNCHANGED workerVars
    \/ StageRawFails(g) /\ UNCHANGED workerVars
    \/ MarkFailed(g) /\ UNCHANGED workerVars
    \/ MarkFailedFails(g) /\ UNCHANGED workerVars
    \/ PublishAnalysisRequest(g) /\ UNCHANGED workerVars
    \/ PublishAnalysisRequestFails(g) /\ UNCHANGED workerVars
    \/ UploadCrash(g) /\ UNCHANGED workerVars

WorkerNext(w) ==
    \/ MarkProcessing(w) /\ UNCHANGED uploadVars
    \/ FetchAndAnalyse(w) /\ UNCHANGED uploadVars
    \/ FetchMissing(w) /\ UNCHANGED uploadVars
    \/ UploadProcessed(w) /\ UNCHANGED uploadVars
    \/ SaveClassificationComplete(w) /\ UNCHANGED uploadVars
    \/ InsertDetection(w) /\ UNCHANGED uploadVars
    \/ DeleteRaw(w) /\ UNCHANGED uploadVars
    \/ CallFails(w) /\ UNCHANGED uploadVars
    \/ RetryJob(w) /\ UNCHANGED uploadVars
    \/ DeadLetterJob(w) /\ UNCHANGED uploadVars
    \/ ProduceRaises(w) /\ UNCHANGED uploadVars
    \/ ResetStatus(w) /\ UNCHANGED uploadVars
    \/ FailStatus(w) /\ UNCHANGED uploadVars
    \/ StatusFails(w) /\ UNCHANGED uploadVars
    \/ Commit(w) /\ UNCHANGED uploadVars
    \/ Analizar(w) /\ UNCHANGED uploadVars
    \/ WorkerCrash(w) /\ UNCHANGED uploadVars
    \/ FlushAtExit(w) /\ UNCHANGED uploadVars
    \/ CloseDatabase(w) /\ UNCHANGED uploadVars
    \/ StopConsumer(w) /\ UNCHANGED uploadVars
    \/ Restart(w) /\ UNCHANGED uploadVars
    \/ \E k \in 1 .. Len(outbox[w]) :
          \/ DeliverAnalysis(w, k) /\ UNCHANGED uploadVars
          \/ DeliverDeadLetter(w, k) /\ UNCHANGED uploadVars
          \/ DropRecord(w, k) /\ UNCHANGED uploadVars

GroupNext(p) ==
    \/ \E w \in Workers :
          \/ PollJob(w, p) /\ UNCHANGED uploadVars
          \/ PollLegacy(w, p) /\ UNCHANGED uploadVars
          \/ Assign(p, w) /\ UNCHANGED uploadVars
    \/ Revoke(p) /\ UNCHANGED uploadVars

Next == \/ \E g \in Garments : UploadNext(g)
        \/ \E w \in Workers : WorkerNext(w)
        \/ \E p \in Partitions : GroupNext(p)

Spec == Init /\ [][Next]_vars

(* Requests that began run to their end; the consumer thread, the          *)
(* producer's and the group's background threads, the atexit handlers and  *)
(* the container's restart policy all keep running.  No fault is fair.     *)
Fairness ==
    /\ \A g \in Garments : WF_vars(UploadStep(g) /\ UNCHANGED workerVars)
    /\ \A w \in Workers :
          /\ WF_vars(ThreadStep(w) /\ UNCHANGED uploadVars)
          /\ WF_vars(Deliver(w) /\ UNCHANGED uploadVars)
          /\ WF_vars(Exit(w) /\ UNCHANGED uploadVars)
          /\ WF_vars(Restart(w) /\ UNCHANGED uploadVars)
    /\ \A p \in Partitions :
          WF_vars((\E w \in Workers : Assign(p, w)) /\ UNCHANGED uploadVars)

FairSpec == Spec /\ Fairness

TypeOK == StoresTypeOK /\ UploadTypeOK /\ WorkerTypeOK

----------------------------------------------------------------------------
(* Record m is in the log or in some producer's buffer.                    *)
Buffered(topic, m) ==
    \E w \in Workers : \E k \in 1 .. Len(outbox[w]) :
        outbox[w][k] = [topic |-> topic, body |-> m]

Recorded(m) == Logged(m) \/ Buffered("analysis", m)

DeadLettered(m) == m \in dlq \/ Buffered("dlq", m)

Submitted(g) == Recorded([garment |-> g, attempt |-> 0])

(* What "successful processing" of a record leaves behind: the garment is  *)
(* classified, or the next attempt or the dead letter is on its way.       *)
Settled(m) ==
    \/ m = LegacyMessage
    \/ imageUrl[m.garment]
    \/ m.attempt < MaxAttempt /\ Recorded([m EXCEPT !.attempt = @ + 1])
    \/ m.attempt = MaxAttempt /\ DeadLettered(m)

Busy(w) == wpc[w] # "poll"

(* Someone still has to act on garment g: an uncommitted or buffered       *)
(* record, or a thread with one in hand.                                   *)
Pending(g) ==
    \/ \E p \in Partitions : \E i \in committed[p] + 1 .. Len(log[p]) :
          log[p][i] # LegacyMessage /\ log[p][i].garment = g
    \/ \E a \in 0 .. MaxAttempt : Buffered("analysis", [garment |-> g, attempt |-> a])
    \/ \E w \in Workers : Busy(w) /\ Subject(w) = g

----------------------------------------------------------------------------
(* A job on its way always finds its image: the staged bytes are still     *)
(* there, or the garment already has its processed image ("The worker      *)
(* deletes the staging object after a successful DB commit").              *)
JobImageAvailable ==
    \A g \in Garments, a \in 0 .. MaxAttempt :
        Recorded([garment |-> g, attempt |-> a]) =>
            raw[g] \/ (imageUrl[g] /\ processed[g])

(* Whoever was told 201 has a row and an image, staged or processed, even  *)
(* when the publish was lost or a worker has deleted the staged bytes:     *)
(* what was accepted can still be analysed.                                *)
AcceptedIsKept ==
    \A g \in Garments :
        upc[g] = "created" /\ NeedsAnalysis(g) =>
            status[g] # "absent" /\ (raw[g] \/ (imageUrl[g] /\ processed[g]))

(* No row says completed, and none carries an image_url, before the        *)
(* processed image is in the bucket.                                       *)
CompletedHasImage ==
    \A g \in Garments :
        /\ status[g] = "completed" => imageUrl[g]
        /\ imageUrl[g] => processed[g]

(* The offset of a record is committed only when the record is settled:    *)
(* the at-least-once promise of the consumer's manual commit.              *)
CommittedIsSettled ==
    \A p \in Partitions : \A i \in 1 .. committed[p] : Settled(log[p][i])

(* Attempts come one after the other: a retry exists only after the        *)
(* attempt before it was logged, a dead letter only after the last one.    *)
RetriesAreChained ==
    \A g \in Garments, a \in 0 .. MaxAttempt :
        LET m == [garment |-> g, attempt |-> a] IN
        /\ a > 0 /\ Recorded(m) => Logged([m EXCEPT !.attempt = a - 1])
        /\ DeadLettered(m) => a = MaxAttempt /\ Logged(m)

(* A submitted garment is failed only with its dead letter recorded ("after*)
(* 3 failures publishes to KAFKA_TOPIC_ANALYSIS_DLQ"), unless the upload   *)
(* itself asked for that status.                                           *)
FailedIsDeadLettered ==
    \A g \in Garments :
        status[g] = "failed" /\ Submitted(g) /\ upload[g].status # "failed" =>
            DeadLettered([garment |-> g, attempt |-> MaxAttempt])

(* A submitted garment whose row still says queued or processing has       *)
(* someone who will finish it, or its dead letter.                         *)
UnfinishedIsPending ==
    \A g \in Garments :
        status[g] \in {"queued", "processing"} /\ Submitted(g) =>
            Pending(g) \/ DeadLettered([garment |-> g, attempt |-> MaxAttempt])

(* No upload that was answered 201 is forgotten: as long as nothing is     *)
(* lost on the way, its garment has its image, its dead letter, or someone *)
(* who still has to act on it, whatever is retried, redelivered or         *)
(* committed in between.                                                   *)
AcceptedIsPending ==
    \A g \in Garments :
        upc[g] = "created" /\ NeedsAnalysis(g) =>
            \/ imageUrl[g]
            \/ DeadLettered([garment |-> g, attempt |-> MaxAttempt])
            \/ Pending(g)

(* A completed row stays completed: the life cycle ends there.             *)
CompletedIsFinal ==
    [][\A g \in Garments : status[g] = "completed" => status'[g] = "completed"]_vars

(* Every upload with bytes that was answered 201 is in the end classified  *)
(* or dead-lettered.                                                       *)
UploadIsResolved ==
    \A g \in Garments :
        (upc[g] = "created" /\ NeedsAnalysis(g)) ~>
            (imageUrl[g] \/ [garment |-> g, attempt |-> MaxAttempt] \in dlq)

----------------------------------------------------------------------------
(* The pipeline implements AnalysisContract: a job is submitted by its     *)
(* first record, analysed by the UPDATE that sets image_url, and           *)
(* dead-lettered by its record in the dead-letter topic.                   *)
Contract == INSTANCE AnalysisContract WITH
    submitted <- {g \in Garments : Logged([garment |-> g, attempt |-> 0])},
    analysed <- {g \in Garments : imageUrl[g]},
    deadLettered <- {g \in Garments : [garment |-> g, attempt |-> MaxAttempt] \in dlq}

(* Every job that reaches the topic is analysed or dead-lettered, and      *)
(* nothing is analysed or dead-lettered that was never submitted.          *)
ImplementsContract == Contract!Spec

(* The second half alone, which no fault can break.                        *)
ImplementsSafeContract == Contract!SafeSpec

============================================================================
