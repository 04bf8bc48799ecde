--------------------------- MODULE ContractProofs ---------------------------
(***************************************************************************)
(* What no failure can break, for any number of garments, partitions and   *)
(* processes: attempts are chained from the record the Go service wrote to *)
(* the dead letter, and the pipeline implements the safety half of its     *)
(* contract.                                                               *)
(***************************************************************************)
EXTENDS GarmentPipelineProofs

(* Attempts are chained, and the first one of every chain is logged.       *)
ChainInv ==
    /\ \A j \in Job : j.attempt > 0 /\ Recorded(j) => Logged([j EXCEPT !.attempt = @ - 1])
    /\ \A j \in Job : DeadLettered(j) => j.attempt = MaxAttempt /\ Logged(j)
    /\ \A j \in Job : Recorded(j) => Logged([garment |-> j.garment, attempt |-> 0])

LEMMA InitChainInv == Init => ChainInv
BY DEF Init, StoresInit, WorkerInit, ChainInv, Recorded, DeadLettered, Logged, Buffered

(* Where the jobs and the dead letters of the next state come from.        *)
LEMMA RecordedByStep ==
    ASSUME TypeInv, Next, NEW j \in Job, Recorded(j)'
    PROVE  \/ Recorded(j)
           \/ j.attempt = 0 /\ Logged(j)'
           \/ \E w \in Workers : Busy(w) /\ j = [Hand(w) EXCEPT !.attempt = @ + 1]
<1>1. ASSUME NEW g \in Garments, UploadNext(g)
      PROVE  Recorded(j) \/ (j.attempt = 0 /\ Logged(j)')
  <2>1. UNCHANGED outbox
    BY <1>1 DEF UploadNext, workerVars
  <2>2. CASE Logged(j)'
    BY <1>1, <2>2, RecordedByUpload DEF Recorded
  <2>3. CASE Buffered("analysis", j)'
    BY <2>1, <2>3 DEF Buffered, Recorded
  <2> QED
    BY <2>2, <2>3 DEF Recorded
<1>2. ASSUME NEW w \in Workers, WorkerNext(w)
      PROVE  Recorded(j) \/ (Busy(w) /\ j = [Hand(w) EXCEPT !.attempt = @ + 1])
  <2>1. CASE Logged(j)'
    BY <1>2, <2>1, LoggedByWorker DEF Recorded
  <2>2. CASE Buffered("analysis", j)'
    <3>1. \/ Buffered("analysis", j)
          \/ RetryJob(w) /\ j = [Hand(w) EXCEPT !.attempt = @ + 1]
      BY <1>2, <2>2, BufferedByWorker
    <3>2. RetryJob(w) => Busy(w)
      BY DEF RetryJob, Busy
    <3> QED
      BY <3>1, <3>2 DEF Recorded
  <2> QED
    BY <2>1, <2>2 DEF Recorded
<1>3. ASSUME NEW p \in Partitions, GroupNext(p)
      PROVE  Recorded(j)
  <2>1. UNCHANGED <<log, outbox>>
    BY <1>3 DEF GroupNext, PollJob, PollLegacy, Assign, Revoke, storeVars
  <2> QED
    BY <2>1 DEF Recorded, Logged, Buffered
<1> QED
  BY <1>1, <1>2, <1>3 DEF Next

LEMMA DeadLetterByWorker ==
    ASSUME TypeInv, NEW w \in Workers, WorkerNext(w), NEW j \in dlq'
    PROVE  j \in dlq \/ Buffered("dlq", j)
<1>1. ASSUME NEW k \in 1 .. Len(outbox[w]), DeliverDeadLetter(w, k)
      PROVE  j \in dlq \/ Buffered("dlq", j)
  <2>1. outbox[w][k] \in Entry /\ outbox[w][k].topic = "dlq"
    BY <1>1 DEF TypeInv, TypeOK, WorkerTypeOK, DeliverDeadLetter
  <2>2. outbox[w][k] = [topic |-> "dlq", body |-> outbox[w][k].body]
    BY <2>1 DEF Entry
  <2>3. j \in dlq \/ j = outbox[w][k].body
    BY <1>1 DEF DeliverDeadLetter
  <2> QED
    BY <2>2, <2>3 DEF Buffered
<1>2. CASE UNCHANGED dlq
  BY <1>2
<1> QED
  BY <1>1, <1>2 DEF WorkerNext, MarkProcessing, FetchAndAnalyse, FetchMissing,
     UploadProcessed, SaveClassificationComplete, InsertDetection, DeleteRaw, CallFails,
     RetryJob, DeadLetterJob, ProduceRaises, ResetStatus, FailStatus,
     StatusAfterFailure, StatusFails, Commit, Analizar, WorkerCrash, FlushAtExit,
     CloseDatabase, StopConsumer, ProcessGone, Restart, DeliverAnalysis, DropRecord,
     storeVars, topicVars

LEMMA DeadLetteredByStep ==
    ASSUME TypeInv, Next, NEW j \in Job, DeadLettered(j)'
    PROVE  \/ DeadLettered(j)
           \/ \E w \in Workers : Busy(w) /\ j = Hand(w) /\ LastAttempt(w)
<1>1. ASSUME NEW w \in Workers, WorkerNext(w)
      PROVE  DeadLettered(j) \/ (Busy(w) /\ j = Hand(w) /\ LastAttempt(w))
  <2>1. CASE j \in dlq'
    BY <1>1, <2>1, DeadLetterByWorker DEF DeadLettered
  <2>2. CASE Buffered("dlq", j)'
    BY <1>1, <2>2, BufferedByWorker DEF DeadLettered, DeadLetterJob, Busy
  <2> QED
    BY <2>1, <2>2 DEF DeadLettered
<1>2. CASE UNCHANGED <<dlq, outbox>>
  BY <1>2 DEF DeadLettered, Buffered
<1>3. ASSUME NEW g \in Garments, UploadNext(g)
      PROVE  UNCHANGED <<dlq, outbox>>
  BY <1>3 DEF UploadNext, Register, CreateClothe, CreateClotheFails, StageRaw,
     StageRawFails, MarkFailed, MarkFailedFails, PublishAnalysisRequest,
     PublishAnalysisRequestFails, UploadCrash, storeVars, topicVars, workerVars
<1>4. ASSUME NEW p \in Partitions, GroupNext(p)
      PROVE  UNCHANGED <<dlq, outbox>>
  BY <1>4 DEF GroupNext, PollJob, PollLegacy, Assign, Revoke, storeVars
<1> QED
  BY <1>1, <1>2, <1>3, <1>4 DEF Next

LEMMA ChainStep ==
    ASSUME TypeInv, ChainInv, [Next]_vars
    PROVE  ChainInv'
<1>1. CASE UNCHANGED vars
  BY <1>1 DEF ChainInv, Recorded, DeadLettered, Logged, Buffered, vars, storeVars,
     workerVars
<1>2. ASSUME Next, NEW m, Logged(m)
      PROVE  Logged(m)'
  BY <1>2, NextLogGrows, LoggedStays
<1>3. ASSUME Next, NEW w \in Workers, Busy(w), NEW m \in Job, m = Hand(w)
      PROVE  Logged(m)' /\ Logged([garment |-> m.garment, attempt |-> 0])'
  <2>1. Logged(m)
    BY <1>3, HandLogged
  <2>2. Logged([garment |-> m.garment, attempt |-> 0])
    BY <2>1 DEF ChainInv, Recorded
  <2> QED
    BY <1>2, <1>3, <2>1, <2>2
<1>4. ASSUME Next, NEW j \in Job, Recorded(j)'
      PROVE  /\ j.attempt > 0 => Logged([j EXCEPT !.attempt = @ - 1])'
             /\ Logged([garment |-> j.garment, attempt |-> 0])'
  <2>1. CASE Recorded(j)
    BY <1>2, <1>4, <2>1 DEF ChainInv
  <2>2. CASE j.attempt = 0 /\ Logged(j)'
    <3>1. j = [garment |-> j.garment, attempt |-> 0]
      BY <2>2 DEF Job
    <3> QED
      BY <2>2, <3>1
  <2>3. ASSUME NEW w \in Workers, Busy(w), j = [Hand(w) EXCEPT !.attempt = @ + 1]
        PROVE  /\ Logged([j EXCEPT !.attempt = @ - 1])'
               /\ Logged([garment |-> j.garment, attempt |-> 0])'
    <3>1. PICK m \in Job : m = Hand(w)
      BY <2>3, HandLogged
    <3>2. [j EXCEPT !.attempt = @ - 1] = m /\ j.garment = m.garment
      <4>1. j = [m EXCEPT !.attempt = m.attempt + 1]
        BY <2>3, <3>1
      <4>2. m.attempt \in Int /\ (m.attempt + 1) - 1 = m.attempt
        BY StoresAssumption DEF Job
      <4>3. j.attempt = m.attempt + 1 /\ j.garment = m.garment
        BY <4>1 DEF Job
      <4>4. [j EXCEPT !.attempt = @ - 1] = [m EXCEPT !.attempt = m.attempt]
        BY <4>1, <4>2, <4>3 DEF Job
      <4> QED
        BY <4>3, <4>4 DEF Job
    <3> QED
      BY <1>3, <1>4, <2>3, <3>1, <3>2
  <2> QED
    BY <1>4, <2>1, <2>2, <2>3, RecordedByStep
<1>5. ASSUME Next, NEW j \in Job, DeadLettered(j)'
      PROVE  j.attempt = MaxAttempt /\ Logged(j)'
  <2>1. CASE DeadLettered(j)
    BY <1>2, <1>5, <2>1 DEF ChainInv
  <2>2. ASSUME NEW w \in Workers, Busy(w), j = Hand(w), LastAttempt(w)
        PROVE  j.attempt = MaxAttempt /\ Logged(j)'
    <3>1. Logged(j)'
      BY <1>3, <1>5, <2>2
    <3>2. j.attempt \in 0 .. MaxAttempt /\ j.attempt >= MaxAttempt
      BY <2>2 DEF LastAttempt, Job
    <3> QED
      BY <3>1, <3>2, StoresAssumption
  <2> QED
    BY <1>5, <2>1, <2>2, DeadLetteredByStep
<1> QED
  BY <1>1, <1>4, <1>5 DEF ChainInv

LEMMA ChainInvariant == Spec => []ChainInv
BY InitChainInv, InitTypeInv, TypeStep, ChainStep, PTL DEF Spec

(* Whatever fails, an attempt is in the log only after the one before it,  *)
(* and a dead letter only after the last: no failure skips an attempt or   *)
(* makes one up.                                                           *)
THEOREM AttemptsChained == Spec => []RetriesAreChained
<1>1. ChainInv => RetriesAreChained
  <2> SUFFICES ASSUME ChainInv, NEW g \in Garments, NEW a \in 0 .. MaxAttempt,
                      NEW m \in Job, m = [garment |-> g, attempt |-> a]
      PROVE  /\ a > 0 /\ Recorded(m) => Logged([m EXCEPT !.attempt = a - 1])
             /\ DeadLettered(m) => a = MaxAttempt /\ Logged(m)
    BY DEF RetriesAreChained, Job
  <2>1. m.attempt = a
    OBVIOUS
  <2> QED
    BY <2>1 DEF ChainInv
<1> QED
  BY <1>1, ChainInvariant, PTL

----------------------------------------------------------------------------
(* Refinement of the contract.                                             *)
First(g) == [garment |-> g, attempt |-> 0]
Last(g) == [garment |-> g, attempt |-> MaxAttempt]

LEMMA InitContract == Init => Contract!Init
BY DEF Init, StoresInit, Contract!Init, Logged

(* A step adds at most one outcome to the contract's three sets.           *)
LEMMA StepContract ==
    ASSUME TypeInv, ChainInv, [Next]_vars
    PROVE  [Contract!Next]_Contract!vars
<1> USE StoresAssumption
<1>1. CASE UNCHANGED vars
  BY <1>1 DEF Contract!vars, Logged, vars, storeVars
<1>2. ASSUME UNCHANGED <<imageUrl, dlq>>, NEW p \in Partitions, NEW n \in Message,
             WriteRecord(p, n)
      PROVE  [Contract!Next]_Contract!vars
  <2>1. ASSUME NEW g \in Garments
        PROVE  /\ Logged(First(g))' => Logged(First(g)) \/ First(g) = n
               /\ Logged(First(g)) => Logged(First(g))'
               /\ Logged(n)'
    BY <1>2, WriteRecordLogs, WriteRecordGrows, LoggedStays
       DEF TypeInv, TypeOK, StoresTypeOK, First
  <2>2. CASE \E g \in Garments : n = First(g)
    <3>1. PICK g \in Garments : n = First(g)
      BY <2>2
    <3>2. \A h \in Garments : First(h) = n => h = g
      BY <3>1 DEF First
    <3>3. {h \in Garments : Logged(First(h))'} = {h \in Garments : Logged(First(h))} \cup {g}
      BY <2>1, <3>1, <3>2 DEF First
    <3> QED
      BY <1>2, <3>3 DEF Contract!Next, Contract!Submit, First, Logged
  <2>3. CASE ~ \E g \in Garments : n = First(g)
    <3>1. {h \in Garments : Logged(First(h))'} = {h \in Garments : Logged(First(h))}
      BY <2>1, <2>3
    <3> QED
      BY <1>2, <3>1 DEF Contract!vars, First, Logged
  <2> QED
    BY <2>2, <2>3
<1>3. CASE UNCHANGED <<log, imageUrl, dlq>>
  BY <1>3 DEF Contract!vars, Logged
<1>4. ASSUME NEW g \in Garments, UploadNext(g)
      PROVE  [Contract!Next]_Contract!vars
  <2>1. CASE PublishAnalysisRequest(g)
    <3>1. First(g) \in Message
      BY DEF First, Message, Job
    <3> QED
      BY <1>2, <2>1, <3>1 DEF PublishAnalysisRequest, First, rowVars
  <2>2. CASE ~ PublishAnalysisRequest(g)
    BY <1>3, <1>4, <2>2 DEF UploadNext, Register, CreateClothe, CreateClotheFails,
       StageRaw, StageRawFails, MarkFailed, MarkFailedFails,
       PublishAnalysisRequestFails, UploadCrash, storeVars, topicVars, rowVars
  <2> QED
    BY <2>1, <2>2
<1>5. ASSUME NEW p \in Partitions, GroupNext(p)
      PROVE  [Contract!Next]_Contract!vars
  BY <1>3, <1>5 DEF GroupNext, PollJob, PollLegacy, Assign, Revoke, storeVars
<1>6. ASSUME NEW w \in Workers, WorkerNext(w)
      PROVE  [Contract!Next]_Contract!vars
  <2>1. ASSUME NEW k \in 1 .. Len(outbox[w]), DeliverAnalysis(w, k)
        PROVE  [Contract!Next]_Contract!vars
    <3>1. outbox[w][k] \in Entry
      BY DEF TypeInv, TypeOK, WorkerTypeOK
    <3>2. outbox[w][k].body \in Message
      BY <3>1 DEF Entry, Message
    <3>3. PICK p \in Partitions : WriteRecord(p, outbox[w][k].body)
      BY <2>1 DEF DeliverAnalysis
    <3>4. UNCHANGED <<imageUrl, dlq>>
      BY <2>1 DEF DeliverAnalysis, rowVars
    <3> QED
      BY <1>2, <3>2, <3>3, <3>4
  <2>2. CASE SaveClassificationComplete(w)
    <3>1. Busy(w)
      BY <2>2 DEF SaveClassificationComplete, DbCall, Call, Busy
    <3>2. Subject(w) \in Garments /\ Logged([garment |-> Subject(w), attempt |-> 0])
      BY <3>1, HandLogged DEF ChainInv, Recorded, Subject
    <3>3. /\ UNCHANGED <<log, dlq>>
          /\ imageUrl' = [imageUrl EXCEPT ![Subject(w)] = TRUE]
      BY <2>2 DEF SaveClassificationComplete, topicVars
    <3>4. {g \in Garments : imageUrl'[g]} = {g \in Garments : imageUrl[g]} \cup {Subject(w)}
      BY <3>2, <3>3 DEF TypeInv, TypeOK, StoresTypeOK
    <3>5. PICK g \in Garments : g = Subject(w)
      BY <3>2
    <3>6. Contract!Analyse(g)
      BY <3>2, <3>3, <3>4, <3>5 DEF Contract!Analyse, Logged
    <3> QED
      BY <3>6 DEF Contract!Next
  <2>3. ASSUME NEW k \in 1 .. Len(outbox[w]), DeliverDeadLetter(w, k)
        PROVE  [Contract!Next]_Contract!vars
    <3>1. outbox[w][k] \in Entry /\ outbox[w][k].topic = "dlq"
      BY <2>3 DEF TypeInv, TypeOK, WorkerTypeOK, DeliverDeadLetter
    <3>2. PICK m \in Job : outbox[w][k] = [topic |-> "dlq", body |-> m]
      BY <3>1 DEF Entry
    <3>3. DeadLettered(m)
      BY <3>2 DEF DeadLettered, Buffered
    <3>4. m.attempt = MaxAttempt /\ Logged([garment |-> m.garment, attempt |-> 0])
      BY <3>3 DEF ChainInv, Recorded
    <3>5. m = Last(m.garment) /\ m.garment \in Garments
      BY <3>4 DEF Last, Job
    <3>6. UNCHANGED <<log, imageUrl>> /\ dlq' = dlq \cup {m}
      BY <2>3, <3>2 DEF DeliverDeadLetter, rowVars
    <3>7. \A g \in Garments : Last(g) = m => g = m.garment
      BY DEF Last
    <3>8. {g \in Garments : Last(g) \in dlq'}
            = {g \in Garments : Last(g) \in dlq} \cup {m.garment}
      BY <3>5, <3>6, <3>7
    <3>9. Contract!DeadLetter(m.garment)
      BY <3>4, <3>5, <3>6, <3>8 DEF Contract!DeadLetter, Last, Logged
    <3>10. Contract!Next
      BY <3>5, <3>9 DEF Contract!Next
    <3> QED
      BY <3>10
  <2>4. CASE UNCHANGED <<log, imageUrl, dlq>>
    BY <1>3, <2>4
  <2> QED
    BY <1>6, <2>1, <2>2, <2>3, <2>4 DEF WorkerNext, MarkProcessing, FetchAndAnalyse,
       FetchMissing, UploadProcessed, InsertDetection, DeleteRaw, CallFails, RetryJob,
       DeadLetterJob, ProduceRaises, ResetStatus, FailStatus, StatusAfterFailure,
       StatusFails, Commit, Analizar, WorkerCrash, FlushAtExit, CloseDatabase,
       StopConsumer, ProcessGone, Restart, DropRecord, storeVars, topicVars, rowVars
<1> QED
  BY <1>1, <1>4, <1>5, <1>6 DEF Next

(* Whatever fails, nothing is analysed or dead-lettered that was not       *)
(* submitted, and no outcome is taken back.                                *)
THEOREM PipelineIsSafe == Spec => ImplementsSafeContract
<1>1. TypeInv /\ ChainInv /\ [Next]_vars => [Contract!Next]_Contract!vars
  BY StepContract
<1> QED
  BY <1>1, InitContract, TypeInvariant, ChainInvariant, PTL
     DEF Spec, ImplementsSafeContract, Contract!SafeSpec

=============================================================================
