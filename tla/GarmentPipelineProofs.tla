----------------------- MODULE GarmentPipelineProofs -----------------------
(***************************************************************************)
(* Proofs about GarmentPipeline for any garments, partitions, workers,     *)
(* attempts and events.                                                    *)
(***************************************************************************)
EXTENDS GarmentPipeline, SequenceTheorems, TLAPS

----------------------------------------------------------------------------
(* Type correctness.  A thread that handles a record has in hand a job     *)
(* that the log really holds.                                              *)
HandOK ==
    \A w \in Workers : Busy(w) =>
        /\ at[w] \in Partitions \X Offset
        /\ at[w][2] \in 1 .. Len(log[at[w][1]])
        /\ Hand(w) \in Job

TypeInv == TypeOK /\ HandOK

LEMMA InitTypeInv == Init => TypeInv
BY StoresAssumption, ServiceAssumption, WorkerAssumption
   DEF Init, StoresInit, UploadInit, WorkerInit, TypeInv, TypeOK, StoresTypeOK,
       UploadTypeOK, WorkerTypeOK, HandOK, Busy, Statuses, UploadPoints, Upload,
       Phases, WorkerPoints, Nothing

(* What the log keeps when a record is written: every old record stays at  *)
(* its offset, and every new one is the record written.                    *)
LogGrows ==
    \A q \in Partitions :
        /\ Len(log[q]) <= Len(log'[q])
        /\ \A i \in 1 .. Len(log[q]) : log'[q][i] = log[q][i]

LEMMA WriteRecordGrows ==
    ASSUME log \in [Partitions -> Seq(Message)], events \in Nat,
           NEW p \in Partitions, NEW m \in Message, WriteRecord(p, m)
    PROVE  /\ log' \in [Partitions -> Seq(Message)]
           /\ events' \in Nat
           /\ LogGrows
           /\ \A q \in Partitions : \A i \in 1 .. Len(log'[q]) :
                 i \in 1 .. Len(log[q]) \/ log'[q][i] = m
           /\ \E i \in 1 .. Len(log'[p]) : log'[p][i] = m
<1>1. CASE log' = [log EXCEPT ![p] = Append(@, m)] /\ UNCHANGED events
  <2>1. /\ log' \in [Partitions -> Seq(Message)]
        /\ events' \in Nat
    BY <1>1
  <2>2. Len(log'[p]) = Len(log[p]) + 1 /\ log'[p][Len(log[p]) + 1] = m
    BY <1>1
  <2> QED
    BY <1>1, <2>1, <2>2 DEF LogGrows
<1>2. CASE /\ Event("duplicate")
           /\ log' = [log EXCEPT ![p] = Append(Append(@, m), m)]
  <2>1. /\ log' \in [Partitions -> Seq(Message)]
        /\ events' \in Nat
    BY <1>2 DEF Event
  <2>2. /\ Len(log'[p]) = Len(log[p]) + 2
        /\ log'[p][Len(log[p]) + 1] = m
        /\ log'[p][Len(log[p]) + 2] = m
        /\ \A i \in 1 .. Len(log[p]) : log'[p][i] = log[p][i]
    BY <1>2
  <2>3. \A q \in Partitions \ {p} : log'[q] = log[q]
    BY <1>2
  <2>4. \A q \in Partitions : Len(log[q]) \in Nat
    OBVIOUS
  <2>5. LogGrows
    BY <2>2, <2>3, <2>4 DEF LogGrows
  <2>6. ASSUME NEW q \in Partitions, NEW i \in 1 .. Len(log'[q])
        PROVE  i \in 1 .. Len(log[q]) \/ log'[q][i] = m
    BY <2>2, <2>3, <2>4
  <2>7. Len(log[p]) + 1 \in 1 .. Len(log'[p])
    BY <2>2, <2>4
  <2> QED
    BY <2>1, <2>2, <2>5, <2>6, <2>7
<1> QED
  BY <1>1, <1>2 DEF WriteRecord

(* A thread keeps its record in hand when the log only grows.              *)
LEMMA HandKept ==
    ASSUME TypeInv, LogGrows, NEW w \in Workers, Busy(w), at'[w] = at[w]
    PROVE  /\ at'[w][2] \in 1 .. Len(log'[at'[w][1]])
           /\ Hand(w)' = Hand(w)
<1>1. at[w] \in Partitions \X Offset /\ at[w][2] \in 1 .. Len(log[at[w][1]])
  BY DEF TypeInv, HandOK
<1>2. at[w][1] \in Partitions
  BY <1>1
<1>3. log'[at[w][1]][at[w][2]] = log[at[w][1]][at[w][2]]
  BY <1>1, <1>2 DEF LogGrows
<1>4. Len(log[at[w][1]]) <= Len(log'[at[w][1]])
  BY <1>2 DEF LogGrows
<1>5. Len(log[at[w][1]]) \in Nat
  BY <1>2 DEF TypeInv, TypeOK, StoresTypeOK
<1>6. Len(log'[at[w][1]]) \in Int
  BY <1>2, <1>4 DEF LogGrows
<1> QED
  BY <1>1, <1>3, <1>4, <1>5 DEF Hand

(* Uploads other than those that publish leave the log and the threads     *)
(* alone.                                                                  *)
LEMMA UploadTypeStep ==
    ASSUME TypeInv, NEW g \in Garments, UploadNext(g)
    PROVE  TypeInv'
<1> USE StoresAssumption, ServiceAssumption, WorkerAssumption
    DEF TypeInv, TypeOK
<1>1. CASE PublishAnalysisRequest(g) /\ UNCHANGED workerVars
  <2>1. PICK p \in Partitions : WriteRecord(p, [garment |-> g, attempt |-> 0])
    BY <1>1 DEF PublishAnalysisRequest
  <2>2. [garment |-> g, attempt |-> 0] \in Message
    BY DEF Message, Job
  <2>3. log' \in [Partitions -> Seq(Message)] /\ events' \in Nat /\ LogGrows
    BY <2>1, <2>2, WriteRecordGrows DEF StoresTypeOK
  <2>4. TypeOK'
    BY <1>1, <2>3 DEF PublishAnalysisRequest, Goto, StoresTypeOK, UploadTypeOK,
       WorkerTypeOK, UploadPoints, rowVars, bucketVars, workerVars
  <2>5. HandOK'
    <3> SUFFICES ASSUME NEW w \in Workers, Busy(w)'
        PROVE  /\ at'[w] \in Partitions \X Offset
               /\ at'[w][2] \in 1 .. Len(log'[at'[w][1]])
               /\ Hand(w)' \in Job
      BY DEF HandOK
    <3>1. Busy(w) /\ at'[w] = at[w]
      BY <1>1 DEF workerVars, Busy
    <3> QED
      BY <3>1, <2>3, HandKept DEF HandOK
  <2> QED
    BY <2>4, <2>5
<1>2. CASE ~ PublishAnalysisRequest(g)
  <2>1. UNCHANGED workerVars /\ UNCHANGED <<log, committed, dlq, events>>
    BY <1>2 DEF UploadNext, Register, CreateClothe, CreateClotheFails, StageRaw,
       StageRawFails, MarkFailed, MarkFailedFails, PublishAnalysisRequestFails,
       UploadCrash, storeVars, topicVars
  <2>2. StoresTypeOK' /\ UploadTypeOK'
    <3> USE DEF StoresTypeOK, UploadTypeOK, Goto, UploadPoints, Statuses, Upload,
            storeVars, rowVars, bucketVars, topicVars
    <3>1. CASE Register(g)
      BY <3>1 DEF Register
    <3>2. CASE CreateClothe(g)
      BY <3>2 DEF CreateClothe
    <3>3. CASE StageRaw(g)
      BY <3>3 DEF StageRaw
    <3>4. CASE MarkFailed(g)
      BY <3>4 DEF MarkFailed, UpdateStatus
    <3>5. CASE \/ CreateClotheFails(g) \/ StageRawFails(g) \/ MarkFailedFails(g)
               \/ PublishAnalysisRequestFails(g) \/ UploadCrash(g)
      BY <3>5 DEF CreateClotheFails, StageRawFails, MarkFailedFails,
         PublishAnalysisRequestFails, UploadCrash
    <3> QED
      BY <1>2, <3>1, <3>2, <3>3, <3>4, <3>5 DEF UploadNext
  <2>3. WorkerTypeOK' /\ HandOK'
    BY <2>1 DEF WorkerTypeOK, HandOK, Busy, Hand, workerVars
  <2> QED
    BY <2>2, <2>3
<1> QED
  BY <1>1, <1>2 DEF UploadNext

(* HandOK survives a step in which the log only grows and no thread takes  *)
(* another record.                                                         *)
LEMMA HandOKKept ==
    ASSUME TypeInv, LogGrows,
           \A w \in Workers : Busy(w)' => Busy(w) /\ at'[w] = at[w]
    PROVE  HandOK'
<1> SUFFICES ASSUME NEW w \in Workers, Busy(w)'
    PROVE  /\ at'[w] \in Partitions \X Offset
           /\ at'[w][2] \in 1 .. Len(log'[at'[w][1]])
           /\ Hand(w)' \in Job
  BY DEF HandOK
<1>1. Busy(w) /\ at'[w] = at[w]
  OBVIOUS
<1> QED
  BY <1>1, HandKept DEF TypeInv, HandOK

LEMMA LogKept ==
    ASSUME TypeInv, UNCHANGED log
    PROVE  LogGrows
BY DEF TypeInv, TypeOK, StoresTypeOK, LogGrows

(* Taking one entry out of a buffer leaves entries of the same buffer.     *)
LEMMA WithoutEntries ==
    ASSUME NEW S, NEW s \in Seq(S), NEW k \in 1 .. Len(s)
    PROVE  /\ Without(s, k) \in Seq(S)
           /\ Len(Without(s, k)) = Len(s) - 1
           /\ \A i \in 1 .. Len(s) - 1 : \E j \in 1 .. Len(s) : Without(s, k)[i] = s[j]
           /\ \A j \in 1 .. Len(s) : j # k =>
                 \E i \in 1 .. Len(s) - 1 : Without(s, k)[i] = s[j]
<1> DEFINE t == Without(s, k)
<1>1. Len(s) \in Nat /\ Len(s) - 1 \in Nat /\ DOMAIN s = 1 .. Len(s)
  OBVIOUS
<1>2. \A i \in 1 .. Len(s) - 1 : t[i] = (IF i < k THEN s[i] ELSE s[i + 1])
  BY DEF Without
<1>3. \A i \in 1 .. Len(s) - 1 : t[i] \in S
  BY <1>1, <1>2
<1>4. t \in [1 .. Len(s) - 1 -> S]
  BY <1>1, <1>3 DEF Without
<1>5. t \in Seq(S)
  BY <1>1, <1>4
<1>6. DOMAIN t = 1 .. Len(s) - 1
  BY DEF Without
<1>7. Len(t) = Len(s) - 1
  <2>1. Len(t) \in Nat /\ DOMAIN t = 1 .. Len(t)
    BY <1>5, LenProperties
  <2>2. 1 .. Len(t) = 1 .. Len(s) - 1
    BY <2>1, <1>6
  <2> HIDE DEF t
  <2>3. \A m, n \in Nat : 1 .. m = 1 .. n => m = n
    <3> SUFFICES ASSUME NEW m \in Nat, NEW n \in Nat, 1 .. m = 1 .. n, m < n
        PROVE  FALSE
      OBVIOUS
    <3>1. n \in 1 .. n /\ n \notin 1 .. m
      OBVIOUS
    <3> QED
      BY <3>1
  <2> QED
    BY <2>1, <2>2, <2>3, <1>1
<1>8. ASSUME NEW i \in 1 .. Len(s) - 1
      PROVE  \E j \in 1 .. Len(s) : t[i] = s[j]
  <2>1. i \in 1 .. Len(s) /\ i + 1 \in 1 .. Len(s)
    BY <1>1
  <2> QED
    BY <1>2, <2>1
<1>9. ASSUME NEW j \in 1 .. Len(s), j # k
      PROVE  \E i \in 1 .. Len(s) - 1 : t[i] = s[j]
  <2>1. CASE j < k
    <3>1. j \in 1 .. Len(s) - 1
      BY <2>1, <1>1
    <3> QED
      BY <2>1, <3>1, <1>2
  <2>2. CASE j > k
    <3>1. j - 1 \in 1 .. Len(s) - 1 /\ ~ (j - 1 < k) /\ (j - 1) + 1 = j
      BY <2>2, <1>1
    <3> QED
      BY <3>1, <1>2
  <2> QED
    BY <1>9, <2>1, <2>2
<1> QED
  BY <1>5, <1>7, <1>8, <1>9

(* The steps of a thread and of its process that leave the log alone.      *)
LEMMA WorkerLogStep ==
    ASSUME TypeInv, NEW w \in Workers, WorkerNext(w),
           ~ \E k \in 1 .. Len(outbox[w]) : DeliverAnalysis(w, k)
    PROVE  UNCHANGED <<log, uploadVars>>
BY DEF WorkerNext, MarkProcessing, FetchAndAnalyse, FetchMissing, UploadProcessed,
   SaveClassificationComplete, InsertDetection, DeleteRaw, CallFails, RetryJob,
   DeadLetterJob, ProduceRaises, ResetStatus, FailStatus, StatusAfterFailure,
   StatusFails, Commit, Analizar, WorkerCrash, FlushAtExit, CloseDatabase,
   StopConsumer, ProcessGone, Restart, DeliverDeadLetter, DropRecord, storeVars,
   topicVars

(* What a step of worker w changes in the variables of the stores.         *)
LEMMA WorkerStoresType ==
    ASSUME TypeInv, NEW w \in Workers, WorkerNext(w)
    PROVE  StoresTypeOK'
<1> USE StoresAssumption, WorkerAssumption DEF StoresTypeOK, storeVars, rowVars,
        bucketVars, topicVars, Statuses, Call, DbCall, UpdateStatus, Event
<1>1. StoresTypeOK /\ WorkerTypeOK
  BY DEF TypeInv, TypeOK
<1>2. Busy(w) => /\ at[w] \in Partitions \X Offset
                 /\ Hand(w) \in Job
                 /\ Subject(w) \in Garments
  BY DEF TypeInv, HandOK, Subject, Job
<1>3. CASE MarkProcessing(w)
  BY <1>1, <1>3 DEF MarkProcessing
<1>4. CASE UploadProcessed(w)
  BY <1>1, <1>4 DEF UploadProcessed
<1>5. CASE SaveClassificationComplete(w)
  BY <1>1, <1>5 DEF SaveClassificationComplete
<1>6. CASE InsertDetection(w)
  <2>1. Subject(w) \in Garments
    BY <1>2, <1>6 DEF InsertDetection, Busy
  <2> QED
    BY <1>1, <1>6, <2>1 DEF InsertDetection
<1>7. CASE DeleteRaw(w)
  BY <1>1, <1>7 DEF DeleteRaw
<1>8. CASE ResetStatus(w) \/ FailStatus(w)
  BY <1>1, <1>8 DEF ResetStatus, FailStatus, StatusAfterFailure
<1>9. CASE Commit(w)
  <2>1. at[w] \in Partitions \X Offset
    BY <1>2, <1>9 DEF Commit, Busy
  <2>2. at[w][2] \in Nat
    BY <2>1 DEF Offset
  <2> QED
    BY <1>1, <1>9, <2>2 DEF Commit
<1>10. ASSUME NEW k \in 1 .. Len(outbox[w]), DeliverAnalysis(w, k)
       PROVE  StoresTypeOK'
  <2>1. outbox[w] \in Seq(Entry)
    BY <1>1 DEF WorkerTypeOK
  <2>2. outbox[w][k].body \in Message
    <3>1. outbox[w][k] \in Entry
      BY <2>1
    <3> QED
      BY <3>1 DEF Entry, Message
  <2>3. log' \in [Partitions -> Seq(Message)] /\ events' \in Nat
    <3>1. PICK p \in Partitions : WriteRecord(p, outbox[w][k].body)
      BY <1>10 DEF DeliverAnalysis
    <3> QED
      BY <1>1, <2>2, <3>1, WriteRecordGrows
  <2> QED
    BY <1>1, <1>10, <2>3 DEF DeliverAnalysis
<1>11. ASSUME NEW k \in 1 .. Len(outbox[w]), DeliverDeadLetter(w, k)
       PROVE  StoresTypeOK'
  <2>1. outbox[w][k] \in Entry /\ outbox[w][k].topic = "dlq"
    BY <1>1, <1>11 DEF WorkerTypeOK, DeliverDeadLetter
  <2>2. outbox[w][k].body \in Job
    BY <2>1 DEF Entry
  <2> QED
    BY <1>1, <1>11, <2>2 DEF DeliverDeadLetter
<1>12. CASE \/ FetchAndAnalyse(w) \/ FetchMissing(w) \/ CallFails(w) \/ RetryJob(w)
            \/ DeadLetterJob(w) \/ ProduceRaises(w) \/ StatusFails(w) \/ Analizar(w)
            \/ WorkerCrash(w) \/ FlushAtExit(w) \/ CloseDatabase(w) \/ StopConsumer(w)
            \/ Restart(w) \/ \E k \in 1 .. Len(outbox[w]) : DropRecord(w, k)
  <2>1. UNCHANGED storeVars /\ events' \in Nat
    BY <1>1, <1>12 DEF FetchAndAnalyse, FetchMissing, CallFails, RetryJob,
       DeadLetterJob, ProduceRaises, StatusFails, Analizar, WorkerCrash,
       FlushAtExit, CloseDatabase, StopConsumer, ProcessGone, Restart, DropRecord
  <2> QED
    BY <1>1, <2>1
<1> QED
  BY <1>3, <1>4, <1>5, <1>6, <1>7, <1>8, <1>9, <1>10, <1>11, <1>12 DEF WorkerNext

(* What a step of worker w changes in the variables of the workers.        *)
LEMMA WorkerWorkerType ==
    ASSUME TypeInv, NEW w \in Workers, WorkerNext(w)
    PROVE  WorkerTypeOK'
<1> USE StoresAssumption, WorkerAssumption
    DEF WorkerTypeOK, WorkerPoints, Phases, groupVars, BackToPoll, Nothing
<1>1. WorkerTypeOK
  BY DEF TypeInv, TypeOK
<1>2. CASE \/ MarkProcessing(w) \/ FetchAndAnalyse(w) \/ FetchMissing(w)
           \/ UploadProcessed(w) \/ DeleteRaw(w) \/ CallFails(w)
           \/ ResetStatus(w) \/ FailStatus(w) \/ StatusFails(w)
  <2>1. CASE CallFails(w)
    BY <1>1, <2>1 DEF CallFails
  <2>2. CASE ResetStatus(w) \/ FailStatus(w) \/ StatusFails(w)
    BY <1>1, <2>2 DEF ResetStatus, FailStatus, StatusAfterFailure, StatusFails
  <2>3. CASE MarkProcessing(w)
    BY <1>1, <2>3 DEF MarkProcessing, Call, DbCall
  <2>5. CASE FetchAndAnalyse(w)
    BY <1>1, <2>5 DEF FetchAndAnalyse, Call
  <2>6. CASE FetchMissing(w)
    BY <1>1, <2>6 DEF FetchMissing, Call
  <2>4. CASE UploadProcessed(w) \/ DeleteRaw(w)
    BY <1>1, <2>4 DEF UploadProcessed, DeleteRaw, Call
  <2> QED
    BY <1>2, <2>1, <2>2, <2>3, <2>4, <2>5, <2>6
<1>11. CASE ProduceRaises(w) \/ Commit(w)
  BY <1>1, <1>11 DEF ProduceRaises, Commit
<1>3. CASE SaveClassificationComplete(w)
  BY <1>1, <1>3 DEF SaveClassificationComplete, Call, DbCall
<1>4. CASE InsertDetection(w)
  BY <1>1, <1>4 DEF InsertDetection, Call, DbCall
<1>5. CASE RetryJob(w)
  <2>1. Hand(w) \in Job /\ ~ LastAttempt(w)
    BY <1>5 DEF RetryJob, TypeInv, HandOK, Busy
  <2>2. [Hand(w) EXCEPT !.attempt = @ + 1] \in Job
    BY <2>1 DEF Job, LastAttempt
  <2>3. [topic |-> "analysis", body |-> [Hand(w) EXCEPT !.attempt = @ + 1]] \in Entry
    BY <2>2 DEF Entry, Message
  <2> QED
    BY <1>1, <1>5, <2>3 DEF RetryJob, Produce
<1>6. CASE DeadLetterJob(w)
  <2>1. Hand(w) \in Job
    BY <1>6 DEF DeadLetterJob, TypeInv, HandOK, Busy
  <2>2. [topic |-> "dlq", body |-> Hand(w)] \in Entry
    BY <2>1 DEF Entry
  <2> QED
    BY <1>1, <1>6, <2>2 DEF DeadLetterJob, Produce
<1>7. CASE Analizar(w)
  <2>1. [topic |-> "analysis", body |-> LegacyMessage] \in Entry
    BY DEF Entry, Message
  <2> QED
    BY <1>1, <1>7, <2>1 DEF Analizar, Produce
<1>8. CASE WorkerCrash(w) \/ StopConsumer(w)
  <2>1. ProcessGone(w)
    BY <1>8 DEF WorkerCrash, StopConsumer
  <2> QED
    BY <1>1, <2>1 DEF ProcessGone
<1>9. CASE FlushAtExit(w) \/ CloseDatabase(w) \/ Restart(w)
  BY <1>1, <1>9 DEF FlushAtExit, CloseDatabase, Restart
<1>10. ASSUME NEW k \in 1 .. Len(outbox[w]),
              DeliverAnalysis(w, k) \/ DeliverDeadLetter(w, k) \/ DropRecord(w, k)
       PROVE  WorkerTypeOK'
  <2>1. Without(outbox[w], k) \in Seq(Entry)
    BY <1>1, WithoutEntries
  <2>2. outbox' = [outbox EXCEPT ![w] = Without(outbox[w], k)]
    BY <1>10 DEF DeliverAnalysis, DeliverDeadLetter, DropRecord, Unqueue
  <2>3. outbox' \in [Workers -> Seq(Entry)]
    BY <1>1, <2>1, <2>2
  <2>4. UNCHANGED <<phase, wpc, at, todo, owner, pos>>
    BY <1>10 DEF DeliverAnalysis, DeliverDeadLetter, DropRecord
  <2> QED
    BY <1>1, <2>3, <2>4
<1> QED
  BY <1>2, <1>3, <1>4, <1>5, <1>6, <1>7, <1>8, <1>9, <1>10, <1>11 DEF WorkerNext

(* No step of a worker other than polling takes a record in hand.          *)
LEMMA WorkerHands ==
    ASSUME TypeInv, NEW w \in Workers, WorkerNext(w), NEW v \in Workers, Busy(v)'
    PROVE  Busy(v) /\ at'[v] = at[v]
<1> USE DEF Busy, BackToPoll, groupVars
<1>1. WorkerTypeOK
  BY DEF TypeInv, TypeOK
<1>2. CASE \/ MarkProcessing(w) \/ FetchAndAnalyse(w) \/ FetchMissing(w)
           \/ UploadProcessed(w) \/ SaveClassificationComplete(w)
           \/ InsertDetection(w) \/ DeleteRaw(w)
  BY <1>1, <1>2 DEF MarkProcessing, FetchAndAnalyse, FetchMissing, UploadProcessed,
     SaveClassificationComplete, InsertDetection, DeleteRaw, Call, DbCall, WorkerTypeOK
<1>3. CASE \/ CallFails(w) \/ RetryJob(w) \/ DeadLetterJob(w) \/ ResetStatus(w)
           \/ FailStatus(w) \/ StatusFails(w)
  BY <1>1, <1>3 DEF CallFails, CallPoints, RetryJob, DeadLetterJob, ResetStatus,
     FailStatus, StatusAfterFailure, StatusFails, WorkerTypeOK
<1>4. CASE ProduceRaises(w) \/ Commit(w) \/ WorkerCrash(w) \/ StopConsumer(w)
  BY <1>1, <1>4 DEF ProduceRaises, Commit, WorkerCrash, StopConsumer, ProcessGone,
     WorkerTypeOK
<1>5. CASE UNCHANGED <<wpc, at>>
  BY <1>5
<1>6. CASE \/ Analizar(w) \/ FlushAtExit(w) \/ CloseDatabase(w) \/ Restart(w)
           \/ \E k \in 1 .. Len(outbox[w]) :
                 DeliverAnalysis(w, k) \/ DeliverDeadLetter(w, k) \/ DropRecord(w, k)
  BY <1>5, <1>6 DEF Analizar, FlushAtExit, CloseDatabase, Restart, DeliverAnalysis,
     DeliverDeadLetter, DropRecord
<1> QED
  BY <1>2, <1>3, <1>4, <1>6 DEF WorkerNext

(* The log of a worker's step only grows.                                  *)
LEMMA WorkerLogGrows ==
    ASSUME TypeInv, NEW w \in Workers, WorkerNext(w)
    PROVE  LogGrows
<1>1. ASSUME NEW k \in 1 .. Len(outbox[w]), DeliverAnalysis(w, k)
      PROVE  LogGrows
  <2>1. outbox[w][k] \in Entry
    BY DEF TypeInv, TypeOK, WorkerTypeOK
  <2>2. outbox[w][k].body \in Message
    BY <2>1 DEF Entry, Message
  <2>3. PICK p \in Partitions : WriteRecord(p, outbox[w][k].body)
    BY <1>1 DEF DeliverAnalysis
  <2> QED
    BY <2>2, <2>3, WriteRecordGrows DEF TypeInv, TypeOK, StoresTypeOK
<1> QED
  BY <1>1, WorkerLogStep, LogKept

LEMMA UploadLogGrows ==
    ASSUME TypeInv, NEW g \in Garments, UploadNext(g)
    PROVE  LogGrows
<1>1. CASE PublishAnalysisRequest(g)
  <2>1. PICK p \in Partitions : WriteRecord(p, [garment |-> g, attempt |-> 0])
    BY <1>1 DEF PublishAnalysisRequest
  <2>2. [garment |-> g, attempt |-> 0] \in Message
    BY StoresAssumption DEF Message, Job
  <2> QED
    BY <2>1, <2>2, WriteRecordGrows DEF TypeInv, TypeOK, StoresTypeOK
<1>2. CASE ~ PublishAnalysisRequest(g)
  <2>1. UNCHANGED log
    BY <1>2 DEF UploadNext, Register, CreateClothe, CreateClotheFails, StageRaw,
       StageRawFails, MarkFailed, MarkFailedFails, PublishAnalysisRequestFails,
       UploadCrash, storeVars, topicVars
  <2> QED
    BY <2>1, LogKept
<1> QED
  BY <1>1, <1>2

(* No step of the system rewrites or shortens the log.                     *)
LEMMA NextLogGrows ==
    ASSUME TypeInv, Next
    PROVE  LogGrows
<1>1. ASSUME NEW p \in Partitions, GroupNext(p)
      PROVE  LogGrows
  BY <1>1, LogKept DEF GroupNext, PollJob, PollLegacy, Assign, Revoke, storeVars
<1> QED
  BY <1>1, UploadLogGrows, WorkerLogGrows DEF Next

LEMMA WorkerTypeStep ==
    ASSUME TypeInv, NEW w \in Workers, WorkerNext(w)
    PROVE  TypeInv'
<1>1. UNCHANGED uploadVars
  BY DEF WorkerNext
<1>2. UploadTypeOK'
  BY <1>1 DEF TypeInv, TypeOK, UploadTypeOK, uploadVars
<1>3. HandOK'
  BY WorkerHands, WorkerLogGrows, HandOKKept
<1> QED
  BY <1>2, <1>3, WorkerStoresType, WorkerWorkerType DEF TypeInv, TypeOK

(* Polling hands the thread the record it found at its offset.             *)
LEMMA GroupTypeStep ==
    ASSUME TypeInv, NEW p \in Partitions, GroupNext(p)
    PROVE  TypeInv'
<1>1. StoresTypeOK /\ WorkerTypeOK /\ UploadTypeOK /\ HandOK
  BY DEF TypeInv, TypeOK
<1>2. UNCHANGED <<storeVars, uploadVars>> /\ events' \in Nat
  BY <1>1, StoresAssumption DEF GroupNext, PollJob, PollLegacy, Assign, Revoke,
     Event, StoresTypeOK, uploadVars
<1>3. StoresTypeOK' /\ UploadTypeOK' /\ LogGrows
  BY <1>1, <1>2, LogKept DEF StoresTypeOK, storeVars, UploadTypeOK, uploadVars
<1>4. ASSUME NEW w \in Workers, PollJob(w, p)
      PROVE  WorkerTypeOK' /\ HandOK'
  <2> DEFINE i == pos[p] + 1
  <2>1. i \in 1 .. Len(log[p]) /\ i \in Offset /\ log[p][i] \in Job
    BY <1>1, <1>4 DEF PollJob, CanPoll, StoresTypeOK, WorkerTypeOK, Offset, Message
  <2>2. /\ at' = [at EXCEPT ![w] = <<p, i>>]
        /\ wpc' = [wpc EXCEPT ![w] = "mark"]
        /\ pos' = [pos EXCEPT ![p] = i]
        /\ UNCHANGED <<phase, todo, outbox, owner, log>>
    BY <1>4 DEF PollJob, storeVars
  <2> HIDE DEF i
  <2>3. WorkerTypeOK'
    BY <1>1, <2>1, <2>2 DEF WorkerTypeOK, WorkerPoints, Offset
  <2>4. HandOK'
    <3> SUFFICES ASSUME NEW v \in Workers, Busy(v)'
        PROVE  /\ at'[v] \in Partitions \X Offset
               /\ at'[v][2] \in 1 .. Len(log'[at'[v][1]])
               /\ Hand(v)' \in Job
      BY DEF HandOK
    <3>1. CASE v = w
      <4>1. at'[v] = <<p, i>>
        BY <1>1, <2>2, <3>1 DEF WorkerTypeOK
      <4> QED
        BY <2>1, <2>2, <4>1 DEF Hand
    <3>2. CASE v # w
      BY <1>1, <2>2, <3>2 DEF HandOK, Hand, Busy, WorkerTypeOK
    <3> QED
      BY <3>1, <3>2
  <2> QED
    BY <2>3, <2>4
<1>5. ASSUME NEW w \in Workers, PollLegacy(w, p) \/ Assign(p, w)
      PROVE  WorkerTypeOK' /\ HandOK'
  <2>1. CASE PollLegacy(w, p)
    <3>1. pos[p] + 1 \in Nat
      BY <1>1 DEF WorkerTypeOK
    <3> QED
      BY <1>1, <1>3, <2>1, <3>1, HandOKKept DEF PollLegacy, WorkerTypeOK, Busy
  <2>2. CASE Assign(p, w)
    <3>1. WorkerTypeOK'
      BY <1>1, <2>2 DEF Assign, WorkerTypeOK, StoresTypeOK
    <3> QED
      BY <1>1, <1>3, <2>2, <3>1, HandOKKept DEF Assign, Busy
  <2> QED
    BY <1>5, <2>1, <2>2
<1>6. CASE Revoke(p)
  <2>1. WorkerTypeOK' /\ UNCHANGED <<wpc, at>>
    BY <1>1, <1>6 DEF Revoke, WorkerTypeOK
  <2>2. HandOK'
    BY <1>3, <2>1, HandOKKept DEF Busy
  <2> QED
    BY <1>3, <2>1, <2>2 DEF TypeInv, TypeOK
<1> QED
  BY <1>3, <1>4, <1>5, <1>6 DEF GroupNext, TypeInv, TypeOK

LEMMA TypeStep == TypeInv /\ [Next]_vars => TypeInv'
<1> SUFFICES ASSUME TypeInv, [Next]_vars
    PROVE  TypeInv'
  OBVIOUS
<1>1. CASE UNCHANGED vars
  BY <1>1 DEF TypeInv, TypeOK, HandOK, Busy, Hand, StoresTypeOK, UploadTypeOK,
     WorkerTypeOK, vars, storeVars, uploadVars, workerVars
<1>2. CASE Next
  BY <1>2, UploadTypeStep, WorkerTypeStep, GroupTypeStep DEF Next
<1> QED
  BY <1>1, <1>2

(* The variables of the pipeline keep their types, and an attempt number   *)
(* stays within 0 .. MaxAttempt: the worker's test of "attempt" is right   *)
(* for every limit.                                                        *)
THEOREM TypeCorrect == Spec => []TypeOK
<1>1. TypeInv => TypeOK
  BY DEF TypeInv
<1> QED
  BY <1>1, InitTypeInv, TypeStep, PTL DEF Spec

LEMMA TypeInvariant == Spec => []TypeInv
BY InitTypeInv, TypeStep, PTL DEF Spec

----------------------------------------------------------------------------
(* Where a record can come from.  A logged record stays logged; a job that *)
(* is recorded was recorded before, or was just published by the request   *)
(* that uploads its garment, or is the retry of the job in some hand.      *)
LEMMA LoggedStays ==
    ASSUME TypeInv, LogGrows, NEW m, Logged(m)
    PROVE  Logged(m)'
<1>1. PICK p \in Partitions : \E i \in 1 .. Len(log[p]) : log[p][i] = m
  BY DEF Logged
<1>2. PICK i \in 1 .. Len(log[p]) : log[p][i] = m
  BY <1>1
<1>3. Len(log[p]) \in Nat /\ Len(log[p]) <= Len(log'[p]) /\ log'[p][i] = m
  BY <1>2 DEF LogGrows, TypeInv, TypeOK, StoresTypeOK
<1>4. i \in 1 .. Len(log'[p])
  BY <1>3
<1> QED
  BY <1>3, <1>4 DEF Logged

LEMMA WriteRecordLogs ==
    ASSUME TypeInv, NEW p \in Partitions, NEW n \in Message, WriteRecord(p, n), NEW m
    PROVE  /\ Logged(m)' => Logged(m) \/ m = n
           /\ Logged(n)'
<1>1. log \in [Partitions -> Seq(Message)] /\ events \in Nat
  BY DEF TypeInv, TypeOK, StoresTypeOK
<1>2. /\ LogGrows
      /\ \A q \in Partitions : \A i \in 1 .. Len(log'[q]) :
            i \in 1 .. Len(log[q]) \/ log'[q][i] = n
      /\ \E i \in 1 .. Len(log'[p]) : log'[p][i] = n
  BY <1>1, WriteRecordGrows
<1>3. ASSUME Logged(m)', m # n
      PROVE  Logged(m)
  <2>1. PICK q \in Partitions : \E i \in 1 .. Len(log'[q]) : log'[q][i] = m
    BY <1>3 DEF Logged
  <2>2. PICK i \in 1 .. Len(log'[q]) : log'[q][i] = m
    BY <2>1
  <2>3. i \in 1 .. Len(log[q]) /\ log[q][i] = m
    BY <1>2, <1>3, <2>2 DEF LogGrows
  <2> QED
    BY <2>3 DEF Logged
<1>4. Logged(n)'
  BY <1>2 DEF Logged
<1> QED
  BY <1>3, <1>4

LEMMA RecordedByUpload ==
    ASSUME TypeInv, NEW g \in Garments, UploadNext(g), NEW m, Logged(m)'
    PROVE  Logged(m) \/ (upc[g] = "publish" /\ m = [garment |-> g, attempt |-> 0])
<1>1. CASE PublishAnalysisRequest(g)
  <2>1. PICK p \in Partitions : WriteRecord(p, [garment |-> g, attempt |-> 0])
    BY <1>1 DEF PublishAnalysisRequest
  <2>2. [garment |-> g, attempt |-> 0] \in Message
    BY StoresAssumption DEF Message, Job
  <2> QED
    BY <1>1, <2>1, <2>2, WriteRecordLogs DEF PublishAnalysisRequest
<1>2. CASE ~ PublishAnalysisRequest(g)
  <2>1. UNCHANGED log
    BY <1>2 DEF UploadNext, Register, CreateClothe, CreateClotheFails, StageRaw,
       StageRawFails, MarkFailed, MarkFailedFails, PublishAnalysisRequestFails,
       UploadCrash, storeVars, topicVars
  <2> QED
    BY <2>1 DEF Logged
<1> QED
  BY <1>1, <1>2

(* A record is logged by a worker's step only out of its buffer.           *)
LEMMA LoggedByWorker ==
    ASSUME TypeInv, NEW w \in Workers, WorkerNext(w), NEW m, Logged(m)'
    PROVE  Logged(m) \/ Buffered("analysis", m)
<1>1. ASSUME NEW k \in 1 .. Len(outbox[w]), DeliverAnalysis(w, k)
      PROVE  Logged(m) \/ Buffered("analysis", m)
  <2>1. outbox[w][k] \in Entry /\ outbox[w][k].topic = "analysis"
    BY <1>1 DEF TypeInv, TypeOK, WorkerTypeOK, DeliverAnalysis
  <2>2. /\ outbox[w][k].body \in Message
        /\ outbox[w][k] = [topic |-> "analysis", body |-> outbox[w][k].body]
    BY <2>1 DEF Entry, Message
  <2>3. PICK p \in Partitions : WriteRecord(p, outbox[w][k].body)
    BY <1>1 DEF DeliverAnalysis
  <2>4. Logged(m) \/ m = outbox[w][k].body
    BY <2>2, <2>3, WriteRecordLogs
  <2> QED
    BY <2>2, <2>4 DEF Buffered
<1>2. CASE UNCHANGED log
  BY <1>2 DEF Logged
<1> QED
  BY <1>1, <1>2, WorkerLogStep

(* The only jobs a worker buffers are the retry and the dead letter of the *)
(* job in its hand.                                                        *)
LEMMA BufferedByWorker ==
    ASSUME TypeInv, NEW w \in Workers, WorkerNext(w), NEW topic, NEW m \in Job,
           Buffered(topic, m)'
    PROVE  \/ Buffered(topic, m)
           \/ RetryJob(w) /\ topic = "analysis" /\ m = [Hand(w) EXCEPT !.attempt = @ + 1]
           \/ DeadLetterJob(w) /\ topic = "dlq" /\ m = Hand(w)
<1>1. outbox \in [Workers -> Seq(Entry)]
  BY DEF TypeInv, TypeOK, WorkerTypeOK
<1>2. PICK v \in Workers : \E k \in 1 .. Len(outbox'[v]) :
                             outbox'[v][k] = [topic |-> topic, body |-> m]
  BY DEF Buffered
<1>3. PICK k \in 1 .. Len(outbox'[v]) : outbox'[v][k] = [topic |-> topic, body |-> m]
  BY <1>2
<1>4. ASSUME NEW x \in Workers, NEW e, outbox' = [outbox EXCEPT ![x] = Append(@, e)]
      PROVE  Buffered(topic, m) \/ e = [topic |-> topic, body |-> m]
  <2>1. Len(outbox'[x]) = Len(outbox[x]) + 1 /\ Len(outbox[x]) \in Nat
    BY <1>1, <1>4
  <2>2. CASE v = x /\ k = Len(outbox[x]) + 1
    BY <1>1, <1>3, <1>4, <2>2
  <2>3. CASE v # x
    BY <1>1, <1>3, <1>4, <2>3 DEF Buffered
  <2>4. CASE v = x /\ k # Len(outbox[x]) + 1
    <3>1. k \in 1 .. Len(outbox[x])
      BY <2>1, <2>4
    <3> QED
      BY <1>1, <1>3, <1>4, <2>4, <3>1 DEF Buffered
  <2> QED
    BY <2>2, <2>3, <2>4
<1>5. CASE RetryJob(w)
  <2>1. DEFINE e == [topic |-> "analysis", body |-> [Hand(w) EXCEPT !.attempt = @ + 1]]
  <2>2. Buffered(topic, m) \/ e = [topic |-> topic, body |-> m]
    BY <1>4, <1>5 DEF RetryJob, Produce
  <2>3. e.topic = "analysis" /\ e.body = [Hand(w) EXCEPT !.attempt = @ + 1]
    OBVIOUS
  <2> QED
    BY <1>5, <2>2, <2>3
<1>6. CASE DeadLetterJob(w)
  <2>1. DEFINE e == [topic |-> "dlq", body |-> Hand(w)]
  <2>2. Buffered(topic, m) \/ e = [topic |-> topic, body |-> m]
    BY <1>4, <1>6 DEF DeadLetterJob, Produce
  <2>3. e.topic = "dlq" /\ e.body = Hand(w)
    OBVIOUS
  <2> QED
    BY <1>6, <2>2, <2>3
<1>7. CASE Analizar(w)
  <2>1. DEFINE e == [topic |-> "analysis", body |-> LegacyMessage]
  <2>2. Buffered(topic, m) \/ e = [topic |-> topic, body |-> m]
    BY <1>4, <1>7 DEF Analizar, Produce
  <2>3. e.body = LegacyMessage
    OBVIOUS
  <2> QED
    BY <2>2, <2>3, StoresAssumption
<1>8. CASE WorkerCrash(w) \/ StopConsumer(w)
  <2>1. outbox' = [outbox EXCEPT ![w] = << >>]
    BY <1>8 DEF WorkerCrash, StopConsumer, ProcessGone
  <2> QED
    BY <1>1, <1>3, <2>1 DEF Buffered
<1>9. ASSUME NEW j \in 1 .. Len(outbox[w]),
             DeliverAnalysis(w, j) \/ DeliverDeadLetter(w, j) \/ DropRecord(w, j)
      PROVE  Buffered(topic, m)
  <2>1. outbox' = [outbox EXCEPT ![w] = Without(outbox[w], j)]
    BY <1>9 DEF DeliverAnalysis, DeliverDeadLetter, DropRecord, Unqueue
  <2>2. CASE v = w
    <3>1. outbox'[w] = Without(outbox[w], j)
      BY <1>1, <2>1
    <3>2. /\ Len(outbox'[w]) = Len(outbox[w]) - 1
          /\ \A i \in 1 .. Len(outbox[w]) - 1 :
                \E l \in 1 .. Len(outbox[w]) : outbox'[w][i] = outbox[w][l]
      BY <1>1, <3>1, WithoutEntries
    <3> QED
      BY <1>3, <2>2, <3>2 DEF Buffered
  <2>3. CASE v # w
    BY <1>1, <1>3, <2>1, <2>3 DEF Buffered
  <2> QED
    BY <2>2, <2>3
<1>10. CASE UNCHANGED outbox
  BY <1>10 DEF Buffered
<1>11. UNCHANGED outbox \/ RetryJob(w) \/ DeadLetterJob(w) \/ Analizar(w)
       \/ WorkerCrash(w) \/ StopConsumer(w)
       \/ \E j \in 1 .. Len(outbox[w]) :
             DeliverAnalysis(w, j) \/ DeliverDeadLetter(w, j) \/ DropRecord(w, j)
  BY DEF WorkerNext, MarkProcessing, FetchAndAnalyse, FetchMissing, UploadProcessed,
     SaveClassificationComplete, InsertDetection, DeleteRaw, CallFails, ProduceRaises,
     ResetStatus, FailStatus, StatusAfterFailure, StatusFails, Commit, FlushAtExit,
     CloseDatabase, Restart
<1> QED
  BY <1>5, <1>6, <1>7, <1>8, <1>9, <1>10, <1>11

(* The job in a busy thread's hand is in the log.                          *)
LEMMA HandLogged ==
    ASSUME TypeInv, NEW w \in Workers, Busy(w)
    PROVE  Logged(Hand(w)) /\ Hand(w) \in Job /\ Subject(w) \in Garments
<1>1. at[w] \in Partitions \X Offset /\ at[w][2] \in 1 .. Len(log[at[w][1]]) /\ Hand(w) \in Job
  BY DEF TypeInv, HandOK
<1>2. at[w][1] \in Partitions
  BY <1>1
<1> QED
  BY <1>1, <1>2 DEF Logged, Hand, Subject, Job

----------------------------------------------------------------------------
(* The image of a job.  A garment is available while its staged bytes or   *)
(* its result are there; that is never taken back, because the staged      *)
(* bytes are deleted by a thread that has already set image_url.           *)
Available(g) == raw[g] \/ imageUrl[g]

ImageInv ==
    /\ \A g \in Garments : imageUrl[g] => processed[g]
    /\ \A g \in Garments : upc[g] = "publish" => Available(g)
    /\ \A m \in Job : Recorded(m) => Available(m.garment)
    /\ \A w \in Workers : wpc[w] = "save" => processed[Subject(w)]
    /\ \A w \in Workers : wpc[w] = "detect" => imageUrl[Subject(w)]

LEMMA InitImageInv == Init => ImageInv
BY DEF Init, StoresInit, UploadInit, WorkerInit, ImageInv, Recorded, Logged, Buffered

(* What the steps of an upload and of a worker do to the three flags.      *)
FlagsKept ==
    \A g \in Garments : /\ Available(g) => Available(g)'
                        /\ processed[g] => processed'[g]
                        /\ imageUrl[g] => imageUrl'[g]

LEMMA UploadFlags ==
    ASSUME TypeInv, NEW g \in Garments, UploadNext(g)
    PROVE  /\ FlagsKept
           /\ UNCHANGED <<imageUrl, processed>>
           /\ \A h \in Garments : upc'[h] = "publish" => upc[h] = "publish" \/ raw'[h]
<1> USE DEF TypeInv, TypeOK, StoresTypeOK, UploadTypeOK, Goto, storeVars, rowVars,
        bucketVars
<1>1. CASE StageRaw(g)
  BY <1>1 DEF StageRaw, FlagsKept, Available
<1>2. CASE ~ StageRaw(g)
  <2>1. UNCHANGED <<raw, imageUrl, processed>>
    BY <1>2 DEF UploadNext, Register, CreateClothe, CreateClotheFails,
       StageRawFails, MarkFailed, MarkFailedFails, PublishAnalysisRequest,
       PublishAnalysisRequestFails, UploadCrash
  <2>2. \E point \in UploadPoints \ {"publish"} : upc' = [upc EXCEPT ![g] = point]
    BY <1>2 DEF UploadNext, Register, CreateClothe, CreateClotheFails,
       StageRawFails, MarkFailed, MarkFailedFails, PublishAnalysisRequest,
       PublishAnalysisRequestFails, UploadCrash, UploadPoints
  <2> QED
    BY <2>1, <2>2 DEF FlagsKept, Available
<1> QED
  BY <1>1, <1>2

LEMMA WorkerFlags ==
    ASSUME TypeInv, ImageInv, NEW w \in Workers, WorkerNext(w)
    PROVE  /\ FlagsKept
           /\ \A g \in Garments : imageUrl'[g] => processed'[g]
<1>1. StoresTypeOK /\ WorkerTypeOK /\ (Busy(w) => Subject(w) \in Garments)
  BY HandLogged DEF TypeInv, TypeOK
<1> USE DEF StoresTypeOK, FlagsKept, Available, storeVars, rowVars, bucketVars
<1>2. CASE UploadProcessed(w)
  BY <1>1, <1>2 DEF UploadProcessed, ImageInv
<1>3. CASE SaveClassificationComplete(w)
  <2>1. wpc[w] = "save" /\ Subject(w) \in Garments
    BY <1>1, <1>3 DEF SaveClassificationComplete, DbCall, Call, Busy
  <2> QED
    BY <1>1, <1>3, <2>1 DEF SaveClassificationComplete, ImageInv
<1>4. CASE DeleteRaw(w)
  <2>1. imageUrl[Subject(w)] /\ Subject(w) \in Garments
    BY <1>1, <1>4 DEF DeleteRaw, Call, Busy, ImageInv
  <2> QED
    BY <1>1, <1>4, <2>1 DEF DeleteRaw, ImageInv
<1>5. CASE UNCHANGED <<raw, processed, imageUrl>>
  BY <1>5 DEF ImageInv
<1>6. \/ UploadProcessed(w) \/ SaveClassificationComplete(w) \/ DeleteRaw(w)
      \/ UNCHANGED <<raw, processed, imageUrl>>
  BY DEF WorkerNext, MarkProcessing, FetchAndAnalyse, FetchMissing, InsertDetection,
     CallFails, RetryJob, DeadLetterJob, ProduceRaises, ResetStatus, FailStatus,
     StatusAfterFailure, StatusFails, Commit, Analizar, WorkerCrash, FlushAtExit,
     CloseDatabase, StopConsumer, ProcessGone, Restart, DeliverAnalysis,
     DeliverDeadLetter, DropRecord
<1> QED
  BY <1>2, <1>3, <1>4, <1>5, <1>6

(* A worker reaches "save" past the upload and "detect" past the UPDATE.   *)
LEMMA WorkerPassed ==
    ASSUME TypeInv, ImageInv, NEW w \in Workers, WorkerNext(w), NEW v \in Workers
    PROVE  /\ wpc'[v] = "save" => processed'[Subject(v)']
           /\ wpc'[v] = "detect" => imageUrl'[Subject(v)']
<1> SUFFICES ASSUME wpc'[v] \in {"save", "detect"}
    PROVE  /\ wpc'[v] = "save" => processed'[Subject(v)']
           /\ wpc'[v] = "detect" => imageUrl'[Subject(v)']
  OBVIOUS
<1>1. Busy(v) /\ at'[v] = at[v]
  BY WorkerHands DEF Busy
<1>2. Subject(v)' = Subject(v) /\ Subject(v) \in Garments
  BY <1>1, WorkerLogGrows, HandKept, HandLogged DEF Subject
<1>3. CASE wpc'[v] = wpc[v]
  BY <1>2, <1>3, WorkerFlags DEF ImageInv, FlagsKept
<1>4. CASE wpc'[v] # wpc[v]
  <2>1. WorkerTypeOK /\ StoresTypeOK
    BY DEF TypeInv, TypeOK
  <2>2. UploadProcessed(w) \/ SaveClassificationComplete(w)
    BY <1>4, <2>1 DEF WorkerNext, MarkProcessing, FetchAndAnalyse, FetchMissing,
       InsertDetection, DeleteRaw, CallFails, RetryJob, DeadLetterJob, ProduceRaises,
       ResetStatus, FailStatus, StatusAfterFailure, StatusFails, Commit, Analizar,
       WorkerCrash, FlushAtExit, CloseDatabase, StopConsumer, ProcessGone, Restart,
       DeliverAnalysis, DeliverDeadLetter, DropRecord, Call, DbCall, BackToPoll,
       WorkerTypeOK
  <2>3. v = w
    BY <1>4, <2>1, <2>2 DEF UploadProcessed, SaveClassificationComplete, Call, DbCall,
       WorkerTypeOK
  <2>4. CASE UploadProcessed(w)
    BY <1>2, <1>4, <2>1, <2>3, <2>4 DEF UploadProcessed, Call, WorkerTypeOK, StoresTypeOK
  <2>5. CASE SaveClassificationComplete(w)
    BY <1>2, <1>4, <2>1, <2>3, <2>5
       DEF SaveClassificationComplete, Call, DbCall, WorkerTypeOK, StoresTypeOK
  <2> QED
    BY <2>2, <2>4, <2>5
<1> QED
  BY <1>3, <1>4

LEMMA UploadImageStep ==
    ASSUME TypeInv, ImageInv, NEW g \in Garments, UploadNext(g)
    PROVE  ImageInv'
<1>1. FlagsKept /\ UNCHANGED <<imageUrl, processed>>
  BY UploadFlags
<1>2. \A h \in Garments : upc'[h] = "publish" => upc[h] = "publish" \/ raw'[h]
  BY UploadFlags
<1>3. UNCHANGED workerVars
  BY DEF UploadNext
<1>4. ASSUME NEW m \in Job, Recorded(m)'
      PROVE  Available(m.garment)'
  <2>1. CASE Logged(m)'
    <3>1. \/ Logged(m)
          \/ upc[g] = "publish" /\ m = [garment |-> g, attempt |-> 0]
      BY <2>1, RecordedByUpload
    <3>2. Available(m.garment) /\ m.garment \in Garments
      BY <3>1 DEF ImageInv, Recorded, Job
    <3> QED
      BY <1>1, <3>2 DEF FlagsKept
  <2>2. CASE Buffered("analysis", m)'
    <3>1. Buffered("analysis", m)
      BY <1>3, <2>2 DEF Buffered, workerVars
    <3>2. Available(m.garment) /\ m.garment \in Garments
      BY <3>1 DEF ImageInv, Recorded, Job
    <3> QED
      BY <1>1, <3>2 DEF FlagsKept
  <2> QED
    BY <1>4, <2>1, <2>2 DEF Recorded
<1>5. ASSUME NEW h \in Garments, upc'[h] = "publish"
      PROVE  Available(h)'
  BY <1>1, <1>2, <1>5 DEF ImageInv, FlagsKept, Available
<1>6. LogGrows
  BY UploadLogGrows
<1>7. ASSUME NEW v \in Workers, wpc'[v] \in {"save", "detect"}
      PROVE  Subject(v)' = Subject(v)
  BY <1>3, <1>6, <1>7, HandKept DEF Busy, Subject, workerVars
<1> QED
  BY <1>1, <1>3, <1>4, <1>5, <1>7 DEF ImageInv, workerVars

LEMMA WorkerImageStep ==
    ASSUME TypeInv, ImageInv, NEW w \in Workers, WorkerNext(w)
    PROVE  ImageInv'
<1>1. FlagsKept /\ \A g \in Garments : imageUrl'[g] => processed'[g]
  BY WorkerFlags
<1>2. UNCHANGED uploadVars
  BY DEF WorkerNext
<1>3. ASSUME NEW m \in Job, Recorded(m)'
      PROVE  Available(m.garment)'
  <2>1. \/ Recorded(m)
        \/ RetryJob(w) /\ m = [Hand(w) EXCEPT !.attempt = @ + 1]
    BY <1>3, LoggedByWorker, BufferedByWorker DEF Recorded
  <2>2. CASE Recorded(m)
    BY <1>1, <2>2 DEF ImageInv, FlagsKept, Job
  <2>3. CASE RetryJob(w) /\ m = [Hand(w) EXCEPT !.attempt = @ + 1]
    <3>1. Logged(Hand(w)) /\ Hand(w) \in Job
      BY <2>3, HandLogged DEF RetryJob, Busy
    <3>2. m.garment = Hand(w).garment
      BY <2>3, <3>1 DEF Job
    <3> QED
      BY <1>1, <3>1, <3>2 DEF ImageInv, FlagsKept, Recorded, Job
  <2> QED
    BY <2>1, <2>2, <2>3
<1>4. ASSUME NEW h \in Garments, upc'[h] = "publish"
      PROVE  Available(h)'
  BY <1>1, <1>2, <1>4 DEF ImageInv, FlagsKept, uploadVars
<1> QED
  BY <1>1, <1>3, <1>4, WorkerPassed DEF ImageInv

LEMMA GroupImageStep ==
    ASSUME TypeInv, ImageInv, NEW p \in Partitions, GroupNext(p)
    PROVE  ImageInv'
<1>1. UNCHANGED <<storeVars, uploadVars, outbox>>
  BY DEF GroupNext, PollJob, PollLegacy, Assign, Revoke
<1>2. ASSUME NEW m \in Job
      PROVE  Recorded(m)' = Recorded(m) /\ Available(m.garment)' = Available(m.garment)
  BY <1>1 DEF Recorded, Logged, Buffered, Available, storeVars
<1>3. ASSUME NEW v \in Workers, wpc'[v] \in {"save", "detect"}
      PROVE  wpc'[v] = wpc[v] /\ at'[v] = at[v]
  BY <1>3 DEF GroupNext, PollJob, PollLegacy, Assign, Revoke, TypeInv, TypeOK,
     WorkerTypeOK
<1>4. ASSUME NEW v \in Workers, wpc'[v] \in {"save", "detect"}
      PROVE  Subject(v)' = Subject(v) /\ wpc'[v] = wpc[v]
  BY <1>1, <1>3, <1>4 DEF Subject, Hand, storeVars
<1>5. \A g \in Garments : Available(g)' = Available(g)
  BY <1>1 DEF Available, storeVars
<1> QED
  BY <1>1, <1>2, <1>4, <1>5 DEF ImageInv, storeVars, uploadVars

LEMMA ImageStep == TypeInv /\ ImageInv /\ [Next]_vars => ImageInv'
<1> SUFFICES ASSUME TypeInv, ImageInv, [Next]_vars
    PROVE  ImageInv'
  OBVIOUS
<1>1. CASE UNCHANGED vars
  BY <1>1 DEF ImageInv, Available, Recorded, Logged, Buffered, Subject, Hand, vars,
     storeVars, uploadVars, workerVars
<1> QED
  BY <1>1, UploadImageStep, WorkerImageStep, GroupImageStep DEF Next

LEMMA ImageInvariant == Spec => []ImageInv
BY InitTypeInv, TypeStep, InitImageInv, ImageStep, PTL DEF Spec

(* Whatever fails, and for any number of garments and workers, a job on    *)
(* its way finds its image: the delete of the staged bytes comes after the *)
(* UPDATE on every path.                                                   *)
THEOREM ImageAvailable == Spec => []JobImageAvailable
<1>1. TypeInv /\ ImageInv => JobImageAvailable
  <2> SUFFICES ASSUME ImageInv, NEW g \in Garments, NEW a \in 0 .. MaxAttempt,
                      Recorded([garment |-> g, attempt |-> a])
      PROVE  raw[g] \/ (imageUrl[g] /\ processed[g])
    BY DEF JobImageAvailable
  <2>1. [garment |-> g, attempt |-> a] \in Job
    BY DEF Job
  <2>2. Available(g)
    BY <2>1 DEF ImageInv
  <2> QED
    BY <2>2 DEF ImageInv, Available
<1> QED
  BY <1>1, TypeInvariant, ImageInvariant, PTL

----------------------------------------------------------------------------
(* A row becomes "completed" in the UPDATE that sets its image_url, unless *)
(* the upload was inserted with that status.                               *)
CompletedInv ==
    \A g \in Garments : /\ upload[g].status # "completed"
                        /\ status[g] = "completed" => imageUrl[g]

LEMMA CompletedStep ==
    ASSUME "completed" \notin AcceptedStatuses, TypeInv, CompletedInv, [Next]_vars
    PROVE  CompletedInv'
<1> USE DEF CompletedInv, TypeInv, TypeOK, StoresTypeOK, UploadTypeOK, storeVars,
        rowVars, uploadVars, UpdateStatus
<1>1. CASE UNCHANGED vars
  BY <1>1 DEF vars
<1>2. ASSUME NEW g \in Garments, UploadNext(g)
      PROVE  CompletedInv'
  <2>1. CASE Register(g)
    <3>1. PICK s \in AcceptedStatuses, b \in BOOLEAN :
             upload' = [upload EXCEPT ![g] = [status |-> s, bytes |-> b]]
      BY <2>1 DEF Register
    <3> QED
      BY <2>1, <3>1 DEF Register
  <2>2. CASE CreateClothe(g)
    BY <2>2 DEF CreateClothe
  <2>3. CASE MarkFailed(g)
    BY <2>3 DEF MarkFailed
  <2>4. CASE UNCHANGED <<upload, status, imageUrl>>
    BY <2>4
  <2> QED
    BY <1>2, <2>1, <2>2, <2>3, <2>4 DEF UploadNext, CreateClotheFails, StageRaw,
       StageRawFails, MarkFailedFails, PublishAnalysisRequest,
       PublishAnalysisRequestFails, UploadCrash
<1>3. ASSUME NEW w \in Workers, WorkerNext(w)
      PROVE  CompletedInv'
  <2>1. UNCHANGED upload
    BY <1>3 DEF WorkerNext
  <2>2. CASE MarkProcessing(w)
    BY <2>1, <2>2 DEF MarkProcessing
  <2>3. CASE SaveClassificationComplete(w)
    BY <2>1, <2>3 DEF SaveClassificationComplete
  <2>4. CASE ResetStatus(w) \/ FailStatus(w)
    BY <2>1, <2>4 DEF ResetStatus, FailStatus, StatusAfterFailure
  <2>5. CASE UNCHANGED <<status, imageUrl>>
    BY <2>1, <2>5
  <2> QED
    BY <1>3, <2>2, <2>3, <2>4, <2>5 DEF WorkerNext, FetchAndAnalyse, FetchMissing,
       UploadProcessed, InsertDetection, DeleteRaw, CallFails, RetryJob, DeadLetterJob,
       ProduceRaises, StatusFails, Commit, Analizar, WorkerCrash, FlushAtExit,
       CloseDatabase, StopConsumer, ProcessGone, Restart, DeliverAnalysis,
       DeliverDeadLetter, DropRecord
<1>4. ASSUME NEW p \in Partitions, GroupNext(p)
      PROVE  CompletedInv'
  BY <1>4 DEF GroupNext, PollJob, PollLegacy, Assign, Revoke
<1> QED
  BY <1>1, <1>2, <1>3, <1>4 DEF Next

(* The image is in the bucket before the row says completed or carries an  *)
(* image_url, whatever fails, for every upload that does not itself ask to *)
(* be inserted as completed.                                               *)
THEOREM ImageBeforeCompleted ==
    ASSUME "completed" \notin AcceptedStatuses
    PROVE  Spec => []CompletedHasImage
<1>1. Init => CompletedInv
  <2> SUFFICES ASSUME Init, NEW g \in Garments
      PROVE  upload[g].status # "completed" /\ status[g] # "completed"
    BY DEF CompletedInv
  <2>1. upload[g] = [status |-> "queued", bytes |-> FALSE] /\ status[g] = "absent"
    BY DEF Init, StoresInit, UploadInit
  <2> QED
    BY <2>1
<1>2. TypeInv /\ CompletedInv /\ [Next]_vars => CompletedInv'
  BY CompletedStep
<1>3. ImageInv /\ CompletedInv => CompletedHasImage
  BY DEF ImageInv, CompletedInv, CompletedHasImage
<1> QED
  BY <1>1, <1>2, <1>3, TypeInvariant, ImageInvariant, PTL DEF Spec

----------------------------------------------------------------------------
(* Rows are never deleted, and a request goes from "create" to 201 without *)
(* an image only when it needs none.                                       *)
KeptInv ==
    \A g \in Garments :
        /\ upc[g] \in {"stage", "markFailed", "publish"} => status[g] # "absent"
        /\ upc[g] = "created" /\ NeedsAnalysis(g) => status[g] # "absent" /\ Available(g)

LEMMA RowsKept ==
    ASSUME TypeInv, [Next]_vars
    PROVE  \A g \in Garments : status[g] # "absent" => status'[g] # "absent"
<1> USE DEF TypeInv, TypeOK, StoresTypeOK, UploadTypeOK, Upload, Statuses, UpdateStatus,
        storeVars, rowVars
<1>1. CASE UNCHANGED vars
  BY <1>1 DEF vars
<1>2. ASSUME NEW g \in Garments, UploadNext(g)
      PROVE  UNCHANGED status \/ CreateClothe(g) \/ MarkFailed(g)
  BY <1>2 DEF UploadNext, Register, CreateClotheFails, StageRaw, StageRawFails,
     MarkFailedFails, PublishAnalysisRequest, PublishAnalysisRequestFails, UploadCrash
<1>3. ASSUME NEW g \in Garments, CreateClothe(g) \/ MarkFailed(g), NEW h \in Garments
      PROVE  status[h] # "absent" => status'[h] # "absent"
  BY <1>3 DEF CreateClothe, MarkFailed
<1>4. ASSUME NEW w \in Workers, WorkerNext(w), NEW h \in Garments
      PROVE  status[h] # "absent" => status'[h] # "absent"
  <2>1. CASE MarkProcessing(w)
    BY <2>1 DEF MarkProcessing
  <2>2. CASE SaveClassificationComplete(w)
    BY <2>2 DEF SaveClassificationComplete
  <2>3. CASE ResetStatus(w) \/ FailStatus(w)
    BY <2>3 DEF ResetStatus, FailStatus, StatusAfterFailure
  <2>4. CASE UNCHANGED status
    BY <2>4
  <2> QED
    BY <1>4, <2>1, <2>2, <2>3, <2>4 DEF WorkerNext, FetchAndAnalyse, FetchMissing,
       UploadProcessed, InsertDetection, DeleteRaw, CallFails, RetryJob, DeadLetterJob,
       ProduceRaises, StatusFails, Commit, Analizar, WorkerCrash, FlushAtExit,
       CloseDatabase, StopConsumer, ProcessGone, Restart, DeliverAnalysis,
       DeliverDeadLetter, DropRecord
<1>5. ASSUME NEW p \in Partitions, GroupNext(p)
      PROVE  UNCHANGED status
  BY <1>5 DEF GroupNext, PollJob, PollLegacy, Assign, Revoke
<1> QED
  BY <1>1, <1>2, <1>3, <1>4, <1>5 DEF Next

LEMMA ImagesKept ==
    ASSUME TypeInv, ImageInv, [Next]_vars
    PROVE  FlagsKept
<1>1. CASE UNCHANGED vars
  BY <1>1 DEF FlagsKept, Available, vars, storeVars, rowVars, bucketVars
<1>2. ASSUME NEW p \in Partitions, GroupNext(p)
      PROVE  FlagsKept
  BY <1>2 DEF GroupNext, PollJob, PollLegacy, Assign, Revoke, FlagsKept, Available,
     storeVars, rowVars, bucketVars
<1> QED
  BY <1>1, <1>2, UploadFlags, WorkerFlags DEF Next

LEMMA KeptStep ==
    ASSUME TypeInv, ImageInv, KeptInv, [Next]_vars
    PROVE  KeptInv'
<1>1. FlagsKept /\ \A g \in Garments : status[g] # "absent" => status'[g] # "absent"
  BY RowsKept, ImagesKept
<1>2. CASE UNCHANGED uploadVars
  BY <1>1, <1>2 DEF KeptInv, FlagsKept, NeedsAnalysis, uploadVars
<1>3. ASSUME NEW g \in Garments, UploadNext(g)
      PROVE  KeptInv'
  <2> USE DEF TypeInv, TypeOK, StoresTypeOK, UploadTypeOK, Goto
  <2>1. \A h \in Garments \ {g} : upc'[h] = upc[h] /\ upload'[h] = upload[h]
    BY <1>3 DEF UploadNext, Register, CreateClothe, CreateClotheFails, StageRaw,
       StageRawFails, MarkFailed, MarkFailedFails, PublishAnalysisRequest,
       PublishAnalysisRequestFails, UploadCrash
  <2>2. upc'[g] \in {"stage", "markFailed", "publish"} => status'[g] # "absent"
    <3>1. CASE CreateClothe(g)
      BY <3>1 DEF CreateClothe, Upload, Statuses
    <3>2. CASE ~ CreateClothe(g)
      <4>1. upc'[g] \in {"stage", "markFailed", "publish"}
              => upc[g] \in {"stage", "markFailed", "publish"}
        BY <1>3, <3>2 DEF UploadNext, Register, CreateClotheFails, StageRaw,
           StageRawFails, MarkFailed, MarkFailedFails, PublishAnalysisRequest,
           PublishAnalysisRequestFails, UploadCrash
      <4> QED
        BY <4>1, <1>1 DEF KeptInv
    <3> QED
      BY <3>1, <3>2
  <2>3. ASSUME upc'[g] = "created", NeedsAnalysis(g)'
        PROVE  status'[g] # "absent" /\ Available(g)'
    <3>1. upc[g] = "publish"
      BY <1>3, <2>3 DEF UploadNext, Register, CreateClothe, CreateClotheFails, StageRaw,
         StageRawFails, MarkFailed, MarkFailedFails, PublishAnalysisRequest,
         PublishAnalysisRequestFails, UploadCrash, NeedsAnalysis
    <3> QED
      BY <3>1, <1>1 DEF KeptInv, ImageInv, FlagsKept
  <2>4. ASSUME NEW h \in Garments \ {g}
        PROVE  NeedsAnalysis(h)' => NeedsAnalysis(h)
    BY <2>1, <2>4 DEF NeedsAnalysis
  <2> QED
    BY <1>1, <2>1, <2>2, <2>3, <2>4 DEF KeptInv, FlagsKept
<1>4. UNCHANGED uploadVars \/ \E g \in Garments : UploadNext(g)
  BY DEF Next, WorkerNext, GroupNext, vars
<1> QED
  BY <1>2, <1>3, <1>4

(* What was answered 201 and is to be analysed has its row and its image,  *)
(* staged or processed, whatever fails afterwards and in whichever order   *)
(* workers publish, retry and delete.                                      *)
THEOREM AcceptedKept == Spec => []AcceptedIsKept
<1>1. Init => KeptInv
  BY DEF Init, UploadInit, KeptInv
<1>2. TypeInv /\ ImageInv /\ KeptInv /\ [Next]_vars => KeptInv'
  BY KeptStep
<1>3. ImageInv /\ KeptInv => AcceptedIsKept
  BY DEF ImageInv, KeptInv, AcceptedIsKept, Available
<1> QED
  BY <1>1, <1>2, <1>3, TypeInvariant, ImageInvariant, PTL DEF Spec

============================================================================
