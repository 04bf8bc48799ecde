---------------------------- MODULE CommitProofs ----------------------------
(***************************************************************************)
(* The at-least-once promise of the consumer, for any number of partitions,*)
(* processes and garments: an offset is committed only when every record   *)
(* up to it is settled.  It holds while no process dies and the producer   *)
(* accepts and delivers what it is given, whatever calls raise; and while  *)
(* no call raises, whatever crashes and whatever the producer loses.  In   *)
(* both, rebalances, duplicated records and lost commits are allowed.  What*)
(* breaks it is a retry that was produced and never written.               *)
(***************************************************************************)
EXTENDS GarmentPipelineProofs, FiniteSetTheorems

Reliable == Faults \cap {"crash", "shutdown", "enqueue", "drop"} = {}

(* An exit in good order closes the pool under a running thread, whose     *)
(* database calls then raise too.                                          *)
CallsSucceed == Faults \cap {"call", "shutdown"} = {}

Trusted == Reliable \/ CallsSucceed

(* A record is done with when nothing can unsettle it: with a producer     *)
(* that may lose what settled it, only the image is proof.                 *)
Done(m) == Settled(m) /\ (Reliable \/ m = LegacyMessage \/ imageUrl[m.garment])

(* The thread has done with the record in hand what "processing" means.    *)
(* Without raising calls it reaches the except branch only because the     *)
(* staged bytes are gone, that is, for a garment that has its image.       *)
DonePoints == {"detect", "reset", "fail", "commit"}

DoneAt(w) == wpc[w] \in DonePoints \/ (~ Reliable /\ wpc[w] = "except")

DoneUpTo(p, n) == n <= Len(log[p]) /\ \A i \in 1 .. n : Done(log[p][i])

PolledDone(p) ==
    owner[p] # NoWorker =>
        /\ pos[p] <= Len(log[p])
        /\ \A i \in 1 .. pos[p] :
              Done(log[p][i]) \/ (Busy(owner[p]) /\ at[owner[p]] = <<p, i>>)

BelowDone(w) ==
    Busy(w) => \A i \in 1 .. at[w][2] - 1 : Done(log[at[w][1]][i])

UpOrGone(w) == phase[w] = "up" \/ (~ Reliable /\ phase[w] = "down" /\ wpc[w] = "poll")

(* What the commit rests on.  A committed prefix is done; what an owner    *)
(* polled is done except the record in its hand; a thread that lost its    *)
(* partition and got it back may commit an old record, so everything below *)
(* a record in hand is done too.                                           *)
CommitInv ==
    /\ \A w \in Workers : UpOrGone(w)
    /\ \A p \in Partitions : DoneUpTo(p, committed[p])
    /\ \A p \in Partitions : PolledDone(p)
    /\ \A w \in Workers : BelowDone(w)
    /\ \A w \in Workers : DoneAt(w) => Done(Hand(w))

LEMMA InitCommitInv == Init => CommitInv
BY DEF Init, StoresInit, UploadInit, WorkerInit, CommitInv, DoneUpTo, PolledDone,
   BelowDone, UpOrGone, Busy, DoneAt, DonePoints

----------------------------------------------------------------------------
(* What is settled stays settled.                                          *)
LEMMA UploadKeepsRecords ==
    ASSUME TypeInv, NEW g \in Garments, UploadNext(g)
    PROVE  LogGrows /\ UNCHANGED <<imageUrl, committed, dlq, workerVars>>
<1>1. UNCHANGED <<imageUrl, committed, dlq, workerVars>>
  BY DEF UploadNext, Register, CreateClothe, CreateClotheFails, StageRaw,
     StageRawFails, MarkFailed, MarkFailedFails, PublishAnalysisRequest,
     PublishAnalysisRequestFails, UploadCrash, storeVars, topicVars, rowVars
<1> QED
  BY <1>1, UploadLogGrows

(* This step of worker w writes record m to the analysis topic.            *)
WrittenBy(w, m) ==
    \E k \in 1 .. Len(outbox[w]) : DeliverAnalysis(w, k) /\ outbox[w][k].body = m

LEMMA WrittenIsLogged ==
    ASSUME TypeInv, NEW w \in Workers, NEW m, WrittenBy(w, m)
    PROVE  Logged(m)'
<1>1. PICK k \in 1 .. Len(outbox[w]) : DeliverAnalysis(w, k) /\ outbox[w][k].body = m
  BY DEF WrittenBy
<1>2. outbox[w][k] \in Entry
  BY DEF TypeInv, TypeOK, WorkerTypeOK
<1>3. m \in Message
  BY <1>1, <1>2 DEF Entry, Message
<1>4. PICK p \in Partitions : WriteRecord(p, m)
  BY <1>1 DEF DeliverAnalysis
<1> QED
  BY <1>3, <1>4, WriteRecordLogs

(* A producer that loses nothing keeps an entry until it is written.       *)
LEMMA BufferedStays ==
    ASSUME Reliable, TypeInv, CommitInv, NEW w \in Workers, WorkerNext(w),
           NEW topic, NEW m, Buffered(topic, m)
    PROVE  \/ Buffered(topic, m)'
           \/ topic = "analysis" /\ WrittenBy(w, m)
           \/ topic = "dlq" /\ m \in dlq'
<1>1. outbox \in [Workers -> Seq(Entry)]
  BY DEF TypeInv, TypeOK, WorkerTypeOK
<1>2. PICK v \in Workers : \E k \in 1 .. Len(outbox[v]) :
                             outbox[v][k] = [topic |-> topic, body |-> m]
  BY DEF Buffered
<1>3. PICK k \in 1 .. Len(outbox[v]) : outbox[v][k] = [topic |-> topic, body |-> m]
  BY <1>2
<1>4. ASSUME NEW e, outbox' = [outbox EXCEPT ![w] = Append(@, e)]
      PROVE  Buffered(topic, m)'
  <2>1. CASE v = w
    <3>1. outbox'[v] = Append(outbox[v], e)
      BY <1>1, <1>4, <2>1
    <3>2. k \in 1 .. Len(outbox'[v]) /\ outbox'[v][k] = outbox[v][k]
      BY <1>1, <3>1
    <3> QED
      BY <1>3, <3>2 DEF Buffered
  <2>2. CASE v # w
    BY <1>1, <1>3, <1>4, <2>2 DEF Buffered
  <2> QED
    BY <2>1, <2>2
<1>5. CASE RetryJob(w) \/ DeadLetterJob(w) \/ Analizar(w)
  BY <1>4, <1>5 DEF RetryJob, DeadLetterJob, Analizar, Produce
<1>6. ASSUME NEW j \in 1 .. Len(outbox[w]),
             DeliverAnalysis(w, j) \/ DeliverDeadLetter(w, j)
      PROVE  \/ Buffered(topic, m)'
             \/ topic = "analysis" /\ WrittenBy(w, m)
             \/ topic = "dlq" /\ m \in dlq'
  <2>1. outbox' = [outbox EXCEPT ![w] = Without(outbox[w], j)]
    BY <1>6 DEF DeliverAnalysis, DeliverDeadLetter, Unqueue
  <2>2. CASE v # w
    BY <1>1, <1>3, <2>1, <2>2 DEF Buffered
  <2>3. CASE v = w /\ k # j
    <3>1. outbox'[w] = Without(outbox[w], j)
      BY <1>1, <2>1
    <3>2. k \in 1 .. Len(outbox[w]) /\ outbox[w] \in Seq(Entry)
      BY <1>1, <2>3
    <3>3. /\ Len(Without(outbox[w], j)) = Len(outbox[w]) - 1
          /\ \A l \in 1 .. Len(outbox[w]) : l # j =>
                \E i \in 1 .. Len(outbox[w]) - 1 : Without(outbox[w], j)[i] = outbox[w][l]
      BY <3>2, WithoutEntries
    <3>4. /\ Len(outbox'[w]) = Len(outbox[w]) - 1
          /\ \E i \in 1 .. Len(outbox[w]) - 1 : outbox'[w][i] = outbox[w][k]
      BY <2>3, <3>1, <3>2, <3>3
    <3> QED
      BY <1>3, <2>3, <3>4 DEF Buffered
  <2>4. CASE v = w /\ k = j
    <3>1. outbox[w][j].topic = topic /\ outbox[w][j].body = m
      BY <1>3, <2>4
    <3>2. CASE DeliverDeadLetter(w, j)
      BY <3>1, <3>2 DEF DeliverDeadLetter
    <3>3. CASE DeliverAnalysis(w, j)
      BY <3>1, <3>3 DEF DeliverAnalysis, WrittenBy
    <3> QED
      BY <1>6, <3>2, <3>3
  <2> QED
    BY <2>2, <2>3, <2>4
<1>7. CASE UNCHANGED outbox
  BY <1>7 DEF Buffered
<1>8. \/ RetryJob(w) \/ DeadLetterJob(w) \/ Analizar(w) \/ UNCHANGED outbox
      \/ \E j \in 1 .. Len(outbox[w]) : DeliverAnalysis(w, j) \/ DeliverDeadLetter(w, j)
  BY DEF WorkerNext, MarkProcessing, FetchAndAnalyse, FetchMissing, UploadProcessed,
     SaveClassificationComplete, InsertDetection, DeleteRaw, CallFails, ProduceRaises,
     ResetStatus, FailStatus, StatusAfterFailure, StatusFails, Commit, FlushAtExit,
     CloseDatabase, StopConsumer, WorkerCrash, Restart, DropRecord, Event, Reliable,
     CommitInv, UpOrGone
<1> QED
  BY <1>5, <1>6, <1>7, <1>8

LEMMA ImageUrlStays ==
    ASSUME TypeInv, NEW w \in Workers, WorkerNext(w), NEW g \in Garments, imageUrl[g]
    PROVE  imageUrl'[g]
<1>1. CASE SaveClassificationComplete(w)
  BY <1>1 DEF SaveClassificationComplete, TypeInv, TypeOK, StoresTypeOK
<1>2. CASE ~ SaveClassificationComplete(w)
  BY <1>2 DEF WorkerNext, MarkProcessing, FetchAndAnalyse, FetchMissing,
     UploadProcessed, InsertDetection, DeleteRaw, CallFails, RetryJob, DeadLetterJob,
     ProduceRaises, ResetStatus, FailStatus, StatusAfterFailure, StatusFails, Commit,
     Analizar, WorkerCrash, FlushAtExit, CloseDatabase, StopConsumer, ProcessGone,
     Restart, DeliverAnalysis, DeliverDeadLetter, DropRecord, storeVars, rowVars
<1> QED
  BY <1>1, <1>2

LEMMA WorkerKeepsOutcomes ==
    ASSUME Reliable, TypeInv, CommitInv, NEW w \in Workers, WorkerNext(w), NEW m
    PROVE  /\ Recorded(m) => Recorded(m)'
           /\ DeadLettered(m) => DeadLettered(m)'
<1>1. dlq \subseteq dlq'
  <2>1. CASE \E k \in 1 .. Len(outbox[w]) : DeliverDeadLetter(w, k)
    BY <2>1 DEF DeliverDeadLetter
  <2>2. CASE UNCHANGED dlq
    BY <2>2
  <2> QED
    BY <2>1, <2>2 DEF WorkerNext, MarkProcessing, FetchAndAnalyse, FetchMissing,
       UploadProcessed, SaveClassificationComplete, InsertDetection, DeleteRaw,
       CallFails, RetryJob, DeadLetterJob, ProduceRaises, ResetStatus, FailStatus,
       StatusAfterFailure, StatusFails, Commit, Analizar, WorkerCrash, FlushAtExit,
       CloseDatabase, StopConsumer, ProcessGone, Restart, DeliverAnalysis, DropRecord,
       storeVars, topicVars
<1>2. Logged(m) => Logged(m)'
  BY WorkerLogGrows, LoggedStays
<1>3. Buffered("analysis", m) => Recorded(m)'
  BY BufferedStays, WrittenIsLogged DEF Recorded
<1>4. Buffered("dlq", m) => DeadLettered(m)'
  BY BufferedStays DEF DeadLettered
<1> QED
  BY <1>1, <1>2, <1>3, <1>4 DEF Recorded, DeadLettered

LEMMA SettledByOutcomes ==
    ASSUME NEW m \in Message, Settled(m),
           \A g \in Garments : imageUrl[g] => imageUrl'[g],
           \A n : Recorded(n) => Recorded(n)',
           \A n : DeadLettered(n) => DeadLettered(n)'
    PROVE  Settled(m)'
BY DEF Settled, Message, Job

LEMMA DoneStays ==
    ASSUME Trusted, TypeInv, CommitInv, Next, NEW m \in Message, Done(m)
    PROVE  Done(m)'
<1>1. m # LegacyMessage => m.garment \in Garments
  BY DEF Message, Job
<1>2. ASSUME NEW g \in Garments, UploadNext(g)
      PROVE  Done(m)'
  <2>1. LogGrows /\ UNCHANGED <<imageUrl, dlq, outbox>>
    BY <1>2, UploadKeepsRecords DEF workerVars
  <2>2. ASSUME NEW n
        PROVE  /\ Recorded(n) => Recorded(n)'
               /\ DeadLettered(n) => DeadLettered(n)'
    BY <2>1, LoggedStays DEF Recorded, DeadLettered, Buffered
  <2>3. Settled(m)'
    BY <2>1, <2>2, SettledByOutcomes DEF Done
  <2> QED
    BY <2>1, <2>3 DEF Done
<1>3. ASSUME NEW w \in Workers, WorkerNext(w)
      PROVE  Done(m)'
  <2>1. m # LegacyMessage /\ imageUrl[m.garment] => imageUrl'[m.garment]
    BY <1>1, <1>3, ImageUrlStays
  <2>2. CASE Reliable
    <3>1. Settled(m)'
      BY <1>3, <2>2, ImageUrlStays, WorkerKeepsOutcomes, SettledByOutcomes DEF Done
    <3> QED
      BY <2>2, <3>1 DEF Done
  <2>3. CASE ~ Reliable
    BY <2>1, <2>3 DEF Done, Settled
  <2> QED
    BY <2>2, <2>3
<1>4. ASSUME NEW p \in Partitions, GroupNext(p)
      PROVE  Done(m)'
  <2>1. UNCHANGED <<storeVars, outbox>>
    BY <1>4 DEF GroupNext, PollJob, PollLegacy, Assign, Revoke
  <2> QED
    BY <2>1 DEF Done, Settled, Recorded, DeadLettered, Logged, Buffered, storeVars
<1> QED
  BY <1>2, <1>3, <1>4 DEF Next

LEMMA DoneRecordStays ==
    ASSUME Trusted, TypeInv, CommitInv, Next, NEW p \in Partitions,
           NEW i \in 1 .. Len(log[p]), Done(log[p][i])
    PROVE  i \in 1 .. Len(log'[p]) /\ Done(log[p][i])' /\ log'[p][i] = log[p][i]
<1>1. log[p] \in Seq(Message)
  BY DEF TypeInv, TypeOK, StoresTypeOK
<1>2. log'[p][i] = log[p][i] /\ Len(log[p]) <= Len(log'[p])
  BY NextLogGrows DEF LogGrows
<1>3. log[p][i] \in Message /\ Len(log[p]) \in Nat
  BY <1>1
<1>4. log' \in [Partitions -> Seq(Message)]
  BY TypeStep DEF TypeInv, TypeOK, StoresTypeOK
<1>5. Len(log'[p]) \in Nat
  BY <1>4
<1>6. ASSUME NEW m \in Message, Done(m)
      PROVE  Done(m)'
  BY <1>6, DoneStays
<1> QED
  BY <1>2, <1>3, <1>5, <1>6 DEF Done, Settled

LEMMA PrefixStays ==
    ASSUME Trusted, TypeInv, CommitInv, Next, NEW p \in Partitions, NEW n \in Nat,
           DoneUpTo(p, n)
    PROVE  n <= Len(log'[p]) /\ \A i \in 1 .. n : Done(log[p][i])'
<1>1. Len(log[p]) \in Nat /\ n <= Len(log[p])
  BY DEF TypeInv, TypeOK, StoresTypeOK, DoneUpTo
<1>2. Len(log[p]) <= Len(log'[p]) /\ Len(log'[p]) \in Nat
  <2>1. log' \in [Partitions -> Seq(Message)]
    BY TypeStep DEF TypeInv, TypeOK, StoresTypeOK
  <2> QED
    BY <2>1, NextLogGrows DEF LogGrows
<1>3. ASSUME NEW i \in 1 .. n
      PROVE  Done(log[p][i])'
  <2>1. i \in 1 .. Len(log[p]) /\ Done(log[p][i])
    BY <1>1 DEF DoneUpTo
  <2> QED
    BY <2>1, DoneRecordStays
<1> QED
  BY <1>1, <1>2, <1>3

----------------------------------------------------------------------------
(* The five conjuncts, one after the other.  No process is on its way out, *)
(* and one that is gone has no thread.                                     *)
LEMMA PhaseStep ==
    ASSUME Trusted, TypeInv, CommitInv, Next, NEW v \in Workers
    PROVE  UpOrGone(v)'
<1>1. UpOrGone(v) /\ WorkerTypeOK
  BY DEF CommitInv, TypeInv, TypeOK
<1>2. ASSUME NEW w \in Workers, WorkerNext(w)
      PROVE  UpOrGone(v)'
  <2>1. UpOrGone(w)
    BY DEF CommitInv
  <2>2. CASE WorkerCrash(w) \/ Restart(w)
    BY <1>1, <2>1, <2>2 DEF WorkerCrash, Event, Restart, ProcessGone, BackToPoll, Reliable,
       UpOrGone, WorkerTypeOK, groupVars
  <2>3. CASE ~ (WorkerCrash(w) \/ Restart(w))
    <3>1. UNCHANGED phase
      BY <1>2, <2>1, <2>3 DEF Trusted, Reliable, CallsSucceed, UpOrGone, WorkerNext,
         MarkProcessing, FetchAndAnalyse, FetchMissing, UploadProcessed,
         SaveClassificationComplete, InsertDetection, DeleteRaw, CallFails, RetryJob,
         DeadLetterJob, ProduceRaises, ResetStatus, FailStatus, StatusAfterFailure,
         StatusFails, Commit, Analizar, FlushAtExit, CloseDatabase, StopConsumer,
         DeliverAnalysis, DeliverDeadLetter, DropRecord, Event
    <3>2. phase[v] # "up" => wpc'[v] = "poll"
      <4>1. CASE Busy(v)'
        BY <1>1, <1>2, <4>1, WorkerHands DEF UpOrGone, Busy
      <4> QED
        BY <4>1 DEF Busy
    <3> QED
      BY <1>1, <3>1, <3>2 DEF UpOrGone
  <2> QED
    BY <2>2, <2>3
<1>3. ASSUME NEW g \in Garments, UploadNext(g)
      PROVE  UpOrGone(v)'
  BY <1>1, <1>3, UploadKeepsRecords DEF workerVars, UpOrGone
<1>4. ASSUME NEW p \in Partitions, GroupNext(p)
      PROVE  UpOrGone(v)'
  BY <1>1, <1>4 DEF GroupNext, PollJob, PollLegacy, Assign, Revoke, CanPoll, Live, UpOrGone,
     WorkerTypeOK
<1> QED
  BY <1>2, <1>3, <1>4 DEF Next

(* What a worker's step leaves of the group and of the other threads.  A   *)
(* thread lets its record go by a commit, or, when the producer is not to  *)
(* be trusted, by a produce that raises or by its own death.               *)
Abandons(w) == ~ Reliable /\ (ProduceRaises(w) \/ WorkerCrash(w))

LEMMA WorkerGroupKept ==
    ASSUME Trusted, TypeInv, CommitInv, NEW w \in Workers, WorkerNext(w)
    PROVE  /\ UNCHANGED pos
           /\ Abandons(w) \/ UNCHANGED owner
           /\ Commit(w) \/ UNCHANGED committed
           /\ \/ Commit(w)
              \/ Abandons(w)
              \/ UNCHANGED at /\ \A v \in Workers : Busy(v)' = Busy(v)
<1>1. UpOrGone(w) /\ WorkerTypeOK
  BY DEF CommitInv, TypeInv, TypeOK
<1> USE DEF groupVars, storeVars, topicVars, Busy
<1>2. CASE Commit(w)
  BY <1>2 DEF Commit
<1>3. CASE \/ MarkProcessing(w) \/ FetchAndAnalyse(w) \/ FetchMissing(w)
           \/ UploadProcessed(w) \/ SaveClassificationComplete(w)
           \/ InsertDetection(w) \/ DeleteRaw(w)
  BY <1>1, <1>3 DEF MarkProcessing, FetchAndAnalyse, FetchMissing, UploadProcessed,
     SaveClassificationComplete, InsertDetection, DeleteRaw, Call, DbCall, WorkerTypeOK
<1>4. CASE \/ CallFails(w) \/ RetryJob(w) \/ DeadLetterJob(w) \/ ResetStatus(w)
           \/ FailStatus(w) \/ StatusFails(w)
  BY <1>1, <1>4 DEF CallFails, CallPoints, RetryJob, DeadLetterJob, ResetStatus,
     FailStatus, StatusAfterFailure, StatusFails, WorkerTypeOK
<1>5. CASE \/ Analizar(w) \/ Restart(w)
           \/ \E k \in 1 .. Len(outbox[w]) :
                 DeliverAnalysis(w, k) \/ DeliverDeadLetter(w, k) \/ DropRecord(w, k)
  BY <1>5 DEF Analizar, Restart, DeliverAnalysis, DeliverDeadLetter, DropRecord
<1>6. CASE ProduceRaises(w) \/ WorkerCrash(w)
  <2>1. ~ Reliable
    BY <1>6 DEF ProduceRaises, WorkerCrash, Event, Reliable
  <2> QED
    BY <1>6, <2>1 DEF ProduceRaises, WorkerCrash, ProcessGone, Abandons
<1>7. ~ (FlushAtExit(w) \/ CloseDatabase(w) \/ StopConsumer(w))
  BY <1>1 DEF FlushAtExit, CloseDatabase, StopConsumer, Event, UpOrGone, Trusted, Reliable,
     CallsSucceed
<1> QED
  BY <1>2, <1>3, <1>4, <1>5, <1>6, <1>7 DEF WorkerNext

(* The record in a busy hand is done with once the thread is past it.      *)
LEMMA HandDone ==
    ASSUME TypeInv, CommitInv, NEW w \in Workers, DoneAt(w)
    PROVE  /\ Busy(w)
           /\ at[w] \in Partitions \X Offset
           /\ at[w][2] \in 1 .. Len(log[at[w][1]])
           /\ Done(log[at[w][1]][at[w][2]])
BY DEF CommitInv, TypeInv, HandOK, Busy, DoneAt, DonePoints, Hand

LEMMA CommittedStep ==
    ASSUME Trusted, TypeInv, CommitInv, Next, NEW p \in Partitions
    PROVE  DoneUpTo(p, committed[p])'
<1>1. committed[p] \in Nat /\ DoneUpTo(p, committed[p])
  BY DEF TypeInv, TypeOK, StoresTypeOK, CommitInv
<1>2. CASE UNCHANGED committed
  <2>1. /\ committed'[p] <= Len(log'[p])
        /\ \A i \in 1 .. committed[p] : Done(log[p][i])'
    BY <1>1, <1>2, PrefixStays
  <2> QED
    BY <1>2, <2>1 DEF DoneUpTo
<1>3. ASSUME NEW w \in Workers, WorkerNext(w), Commit(w), ~ UNCHANGED committed
      PROVE  DoneUpTo(p, committed[p])'
  <2> DEFINE q == at[w][1]
             off == at[w][2]
  <2>1. wpc[w] = "commit" /\ committed' = [committed EXCEPT ![q] = off]
    BY <1>3 DEF Commit
  <2>2. /\ q \in Partitions /\ off \in Nat /\ off \in 1 .. Len(log[q])
        /\ Done(log[q][off])
    BY <2>1, HandDone DEF DoneAt, DonePoints, Offset
  <2>3. \A i \in 1 .. off - 1 : Done(log[q][i])
    BY <2>1 DEF CommitInv, BelowDone, Busy
  <2>4. \A i \in 1 .. off : i = off \/ i \in 1 .. off - 1
    BY <2>2
  <2>5. DoneUpTo(q, off)
    BY <2>2, <2>3, <2>4 DEF DoneUpTo
  <2> HIDE DEF q, off
  <2>6. CASE p = q
    <3>1. committed'[p] = off
      BY <2>1, <2>6 DEF TypeInv, TypeOK, StoresTypeOK
    <3>2. /\ off <= Len(log'[p])
          /\ \A i \in 1 .. off : Done(log[p][i])'
      BY <2>2, <2>5, <2>6, PrefixStays
    <3> QED
      BY <3>1, <3>2 DEF DoneUpTo
  <2>7. CASE p # q
    <3>1. committed'[p] = committed[p]
      BY <2>1, <2>7 DEF TypeInv, TypeOK, StoresTypeOK
    <3>2. /\ committed[p] <= Len(log'[p])
          /\ \A i \in 1 .. committed[p] : Done(log[p][i])'
      BY <1>1, PrefixStays
    <3> QED
      BY <3>1, <3>2 DEF DoneUpTo
  <2> QED
    BY <2>6, <2>7
<1>4. UNCHANGED committed \/ \E w \in Workers : WorkerNext(w) /\ Commit(w)
  <2>1. ASSUME NEW x \in Partitions, GroupNext(x)
        PROVE  UNCHANGED committed
    BY <2>1 DEF GroupNext, PollJob, PollLegacy, Assign, Revoke, storeVars
  <2> QED
    BY <2>1, UploadKeepsRecords, WorkerGroupKept DEF Next
<1> QED
  BY <1>2, <1>3, <1>4

(* A step that leaves the assignment and every thread's hand alone.        *)
LEMMA PolledStays ==
    ASSUME Trusted, TypeInv, CommitInv, Next, NEW p \in Partitions,
           owner'[p] = owner[p], pos'[p] = pos[p],
           \A w \in Workers : owner[p] = w =>
              (at'[w] = at[w] /\ Busy(w)' = Busy(w)) \/ DoneAt(w)
    PROVE  PolledDone(p)'
<1> SUFFICES ASSUME owner[p] # NoWorker
    PROVE  /\ pos[p] <= Len(log'[p])
           /\ \A i \in 1 .. pos[p] :
                 \/ Done(log[p][i])'
                 \/ Busy(owner[p])' /\ at'[owner[p]] = <<p, i>>
  BY DEF PolledDone
<1>1. /\ log[p] \in Seq(Message) /\ log' \in [Partitions -> Seq(Message)]
      /\ pos[p] \in Nat /\ owner[p] \in Workers
  BY TypeStep DEF TypeInv, TypeOK, StoresTypeOK, WorkerTypeOK
<1>2. pos[p] <= Len(log[p]) /\ Len(log[p]) <= Len(log'[p])
  BY NextLogGrows DEF CommitInv, PolledDone, LogGrows
<1>3. Len(log[p]) \in Nat /\ Len(log'[p]) \in Nat
  BY <1>1
<1>4. ASSUME NEW i \in 1 .. pos[p]
      PROVE  Done(log[p][i])' \/ (Busy(owner[p])' /\ at'[owner[p]] = <<p, i>>)
  <2>1. i \in 1 .. Len(log[p])
    BY <1>1, <1>2, <1>3
  <2>2. CASE Done(log[p][i])
    BY <2>1, <2>2, DoneRecordStays
  <2>3. CASE Busy(owner[p]) /\ at[owner[p]] = <<p, i>>
    <3>1. CASE DoneAt(owner[p])
      <4>1. Done(log[p][i])
        BY <1>1, <2>3, <3>1, HandDone
      <4> QED
        BY <2>1, <4>1, DoneRecordStays
    <3>2. CASE ~ DoneAt(owner[p])
      BY <1>1, <2>3, <3>2
    <3> QED
      BY <3>1, <3>2
  <2> QED
    BY <2>2, <2>3 DEF CommitInv, PolledDone
<1> QED
  BY <1>1, <1>2, <1>3, <1>4

(* Polling takes the next record of the owner's partition in hand, and the *)
(* owner had nothing in hand; an assignment starts at the committed offset.*)
LEMMA PolledStep ==
    ASSUME Trusted, TypeInv, CommitInv, Next, NEW p \in Partitions
    PROVE  PolledDone(p)'
<1>1. WorkerTypeOK /\ StoresTypeOK /\ WorkerTypeOK'
  BY TypeStep DEF TypeInv, TypeOK
<1>2. ASSUME NEW g \in Garments, UploadNext(g)
      PROVE  PolledDone(p)'
  BY <1>2, UploadKeepsRecords, PolledStays DEF workerVars, Busy
<1>3. ASSUME NEW w \in Workers, WorkerNext(w)
      PROVE  PolledDone(p)'
  <2>1. UNCHANGED pos
    BY <1>3, WorkerGroupKept
  <2>2. CASE Commit(w) \/ Abandons(w)
    <3>1. ~ WorkerCrash(w) => DoneAt(w)
      BY <2>2 DEF Commit, Abandons, ProduceRaises, DoneAt, DonePoints
    <3>2. \A v \in Workers \ {w} : at'[v] = at[v] /\ Busy(v)' = Busy(v)
      BY <1>1, <2>2 DEF Commit, Abandons, ProduceRaises, WorkerCrash, ProcessGone,
         BackToPoll, Busy, WorkerTypeOK
    <3>3. CASE owner'[p] = owner[p]
      <4>1. owner[p] = w => ~ WorkerCrash(w)
        BY <1>1, <3>3, WorkerAssumption DEF WorkerCrash, ProcessGone, WorkerTypeOK
      <4> QED
        BY <2>1, <3>1, <3>2, <3>3, <4>1, PolledStays
    <3>4. CASE owner'[p] # owner[p]
      BY <1>1, <2>2, <3>4 DEF Commit, Abandons, ProduceRaises, WorkerCrash, ProcessGone,
         groupVars, WorkerTypeOK, PolledDone
    <3> QED
      BY <3>3, <3>4
  <2>3. CASE ~ (Commit(w) \/ Abandons(w))
    BY <1>3, <2>1, <2>3, WorkerGroupKept, PolledStays
  <2> QED
    BY <2>2, <2>3
<1>4. ASSUME NEW q \in Partitions, GroupNext(q)
      PROVE  PolledDone(p)'
  <2>1. UNCHANGED log
    BY <1>4 DEF GroupNext, PollJob, PollLegacy, Assign, Revoke, storeVars
  <2>2. ASSUME NEW w \in Workers, PollJob(w, q)
        PROVE  PolledDone(p)'
    <3>1. /\ owner[q] = w /\ wpc[w] = "poll" /\ pos[q] < Len(log[q])
          /\ owner' = owner /\ pos' = [pos EXCEPT ![q] = @ + 1]
          /\ at' = [at EXCEPT ![w] = <<q, pos[q] + 1>>]
          /\ wpc' = [wpc EXCEPT ![w] = "mark"]
      BY <2>2 DEF PollJob, CanPoll
    <3>2. \A v \in Workers \ {w} : at'[v] = at[v] /\ Busy(v)' = Busy(v)
      BY <1>1, <3>1 DEF Busy, WorkerTypeOK
    <3>3. CASE owner[p] # w
      <4>1. p # q
        BY <3>1, <3>3
      <4> QED
        BY <1>1, <3>1, <3>2, <3>3, <4>1, PolledStays DEF WorkerTypeOK
    <3>4. CASE owner[p] = w
      <4>1. /\ pos[p] \in Nat /\ pos[p] <= Len(log[p]) /\ Len(log[p]) \in Nat
            /\ \A i \in 1 .. pos[p] : Done(log[p][i])
        <5>1. w # NoWorker /\ ~ Busy(w)
          BY <3>1, WorkerAssumption DEF Busy
        <5>2. PolledDone(p)
          BY DEF CommitInv
        <5>3. pos[p] \in Nat /\ Len(log[p]) \in Nat
          BY <1>1 DEF WorkerTypeOK, StoresTypeOK
        <5> QED
          BY <3>4, <5>1, <5>2, <5>3 DEF PolledDone
      <4>2. DoneUpTo(p, pos[p])
        BY <4>1 DEF DoneUpTo
      <4>3. \A i \in 1 .. pos[p] : Done(log[p][i])'
        BY <4>1, <4>2, PrefixStays
      <4>4. CASE p = q
        <5>1. pos'[p] = pos[p] + 1 /\ pos'[p] <= Len(log'[p])
          BY <1>1, <2>1, <3>1, <4>1, <4>4 DEF WorkerTypeOK
        <5>2. \A i \in 1 .. pos[p] + 1 : i \in 1 .. pos[p] \/ i = pos[p] + 1
          BY <4>1
        <5>3. Busy(w)' /\ at'[w] = <<p, pos[p] + 1>> /\ owner'[p] = w
          BY <1>1, <3>1, <3>4, <4>4 DEF Busy, WorkerTypeOK
        <5> QED
          BY <4>3, <5>1, <5>2, <5>3 DEF PolledDone
      <4>5. CASE p # q
        <5>1. pos'[p] = pos[p] /\ pos'[p] <= Len(log'[p])
          BY <1>1, <2>1, <3>1, <4>1, <4>5 DEF WorkerTypeOK
        <5> QED
          BY <4>3, <5>1 DEF PolledDone
      <4> QED
        BY <4>4, <4>5
    <3> QED
      BY <3>3, <3>4
  <2>3. ASSUME NEW w \in Workers, PollLegacy(w, q)
        PROVE  PolledDone(p)'
    <3>1. /\ owner[q] = w /\ pos[q] < Len(log[q]) /\ log[q][pos[q] + 1] = LegacyMessage
          /\ wpc[w] = "poll"
          /\ pos' = [pos EXCEPT ![q] = @ + 1]
          /\ UNCHANGED <<owner, at, wpc>>
      BY <2>3 DEF PollLegacy, CanPoll
    <3>2. CASE p # q
      BY <1>1, <3>1, <3>2, PolledStays DEF Busy, WorkerTypeOK
    <3>3. CASE p = q
      <4>1. /\ pos[p] \in Nat /\ Len(log[p]) \in Nat
            /\ \A i \in 1 .. pos[p] : Done(log[p][i])
        <5>1. w # NoWorker
          BY WorkerAssumption
        <5> QED
          BY <1>1, <3>1, <3>3, <5>1
             DEF CommitInv, PolledDone, Busy, WorkerTypeOK, StoresTypeOK
      <4>2. DoneUpTo(p, pos[p])
        BY <3>1, <3>3, <4>1 DEF DoneUpTo
      <4>3. \A i \in 1 .. pos[p] : Done(log[p][i])'
        BY <4>1, <4>2, PrefixStays
      <4>4. ASSUME NEW i \in Nat, i = pos[p] + 1
            PROVE  Done(log[p][i])'
        BY <2>1, <3>1, <3>3, <4>4 DEF Done, Settled
      <4>5. pos'[p] = pos[p] + 1 /\ pos'[p] <= Len(log'[p])
        BY <1>1, <2>1, <3>1, <3>3, <4>1 DEF WorkerTypeOK
      <4>6. \A i \in 1 .. pos[p] + 1 : i \in 1 .. pos[p] \/ (i \in Nat /\ i = pos[p] + 1)
        BY <4>1
      <4> QED
        BY <4>3, <4>4, <4>5, <4>6 DEF PolledDone
    <3> QED
      BY <3>2, <3>3
  <2>4. ASSUME NEW w \in Workers, Assign(q, w)
        PROVE  PolledDone(p)'
    <3>1. CASE p # q
      BY <1>1, <2>4, <3>1, PolledStays DEF Assign, Busy, WorkerTypeOK
    <3>2. CASE p = q
      <4>1. pos'[p] = committed[p] /\ committed[p] \in Nat
        BY <1>1, <2>4, <3>2 DEF Assign, WorkerTypeOK, StoresTypeOK
      <4>2. /\ committed[p] <= Len(log'[p])
            /\ \A i \in 1 .. committed[p] : Done(log[p][i])'
        BY <4>1, PrefixStays DEF CommitInv
      <4> QED
        BY <4>1, <4>2 DEF PolledDone
    <3> QED
      BY <3>1, <3>2
  <2>5. CASE Revoke(q)
    <3>1. CASE p # q
      BY <1>1, <2>5, <3>1, PolledStays DEF Revoke, Busy, WorkerTypeOK
    <3>2. CASE p = q
      BY <1>1, <2>5, <3>2 DEF Revoke, PolledDone, WorkerTypeOK
    <3> QED
      BY <3>1, <3>2
  <2> QED
    BY <1>4, <2>2, <2>3, <2>4, <2>5 DEF GroupNext
<1> QED
  BY <1>2, <1>3, <1>4 DEF Next

(* Everything below a polled record is settled when it is taken in hand,   *)
(* because its thread had nothing in hand then.                            *)
LEMMA BelowStep ==
    ASSUME Trusted, TypeInv, CommitInv, Next, NEW w \in Workers
    PROVE  BelowDone(w)'
<1>1. WorkerTypeOK /\ StoresTypeOK
  BY DEF TypeInv, TypeOK
<1>2. ASSUME Busy(w), at'[w] = at[w]
      PROVE  BelowDone(w)'
  <2>1. at[w] \in Partitions \X Offset /\ at[w][2] \in 1 .. Len(log[at[w][1]])
    BY <1>2 DEF TypeInv, HandOK
  <2>2. PICK p \in Partitions, n \in Nat : at[w] = <<p, n>>
    BY <2>1 DEF Offset
  <2>3. n \in 1 .. Len(log[p]) /\ \A i \in 1 .. n - 1 : Done(log[p][i])
    BY <1>2, <2>1, <2>2 DEF CommitInv, BelowDone
  <2>4. Len(log[p]) \in Nat
    BY <1>1 DEF StoresTypeOK
  <2>5. DoneUpTo(p, n - 1) /\ n - 1 \in Nat
    BY <2>3, <2>4 DEF DoneUpTo
  <2>6. \A i \in 1 .. n - 1 : Done(log[p][i])'
    BY <2>5, PrefixStays
  <2>7. at'[w] = <<p, n>>
    BY <1>2, <2>2
  <2> QED
    BY <2>6, <2>7 DEF BelowDone
<1>3. ASSUME NEW p \in Partitions, PollJob(w, p)
      PROVE  BelowDone(w)'
  <2>1. pos[p] \in Nat /\ at'[w] = <<p, pos[p] + 1>>
    BY <1>1, <1>3 DEF PollJob, CanPoll, Busy, WorkerTypeOK
  <2>2. owner[p] = w /\ ~ Busy(w) /\ w # NoWorker
    BY <1>3, WorkerAssumption DEF PollJob, CanPoll, Busy
  <2>3. PolledDone(p)
    BY DEF CommitInv
  <2>4. PICK n \in Nat : n = pos[p]
    BY <1>1 DEF WorkerTypeOK
  <2>5. DoneUpTo(p, n)
    BY <2>2, <2>3, <2>4 DEF PolledDone, DoneUpTo
  <2>6. \A i \in 1 .. n : Done(log[p][i])'
    BY <2>5, PrefixStays
  <2>7. at'[w] = <<p, n + 1>> /\ (n + 1) - 1 = n
    BY <2>1, <2>4
  <2> QED
    BY <2>6, <2>7 DEF BelowDone
<1>4. CASE ~ Busy(w)'
  BY <1>4 DEF BelowDone
<1>5. ASSUME Busy(w)'
      PROVE  \/ Busy(w) /\ at'[w] = at[w]
             \/ \E p \in Partitions : PollJob(w, p)
  <2>1. ASSUME NEW g \in Garments, UploadNext(g)
        PROVE  Busy(w) /\ at'[w] = at[w]
    BY <1>5, <2>1, UploadKeepsRecords DEF workerVars, Busy
  <2>2. ASSUME NEW v \in Workers, WorkerNext(v)
        PROVE  Busy(w) /\ at'[w] = at[w]
    BY <1>5, <2>2, WorkerHands
  <2>3. ASSUME NEW p \in Partitions, GroupNext(p), ~ PollJob(w, p)
        PROVE  Busy(w) /\ at'[w] = at[w]
    <3>1. CASE \E v \in Workers : PollJob(v, p)
      BY <1>1, <1>5, <2>3, <3>1 DEF PollJob, Busy, WorkerTypeOK
    <3>2. CASE ~ \E v \in Workers : PollJob(v, p)
      BY <1>5, <2>3, <3>2 DEF GroupNext, PollLegacy, Assign, Revoke, Busy
    <3> QED
      BY <3>1, <3>2
  <2> QED
    BY <2>1, <2>2, <2>3 DEF Next
<1> QED
  BY <1>2, <1>3, <1>4, <1>5

(* A thread goes past its record only by the UPDATE, the retry or the dead *)
(* letter, each of which settles it; when no call raises, it comes to the  *)
(* except branch only for staged bytes that are gone.                      *)
LEMMA PassedByWorker ==
    ASSUME Trusted, TypeInv, CommitInv, NEW w \in Workers, WorkerNext(w),
           NEW v \in Workers, DoneAt(v)', ~ DoneAt(v)
    PROVE  /\ v = w
           /\ \/ SaveClassificationComplete(w)
              \/ Reliable /\ (RetryJob(w) \/ DeadLetterJob(w))
              \/ FetchMissing(w)
<1>1. WorkerTypeOK /\ UpOrGone(w)
  BY DEF TypeInv, TypeOK, CommitInv
<1> USE DEF DoneAt, DonePoints, WorkerTypeOK
<1>2. wpc'[v] # wpc[v]
  BY DEF Reliable
<1>3. \/ SaveClassificationComplete(w) \/ RetryJob(w) \/ DeadLetterJob(w)
      \/ FetchMissing(w)
  <2>1. CASE CallFails(w)
    <3>1. Reliable
      BY <1>1, <2>1 DEF CallFails, Trusted, CallsSucceed, UpOrGone
    <3> QED
      BY <1>1, <2>1, <3>1 DEF CallFails, Reliable
  <2>2. CASE FetchAndAnalyse(w) \/ UploadProcessed(w) \/ MarkProcessing(w)
    BY <1>1, <2>2 DEF FetchAndAnalyse, UploadProcessed, MarkProcessing, Call, DbCall,
       Trusted, CallsSucceed, Reliable
  <2>3. CASE InsertDetection(w) \/ DeleteRaw(w)
    BY <1>1, <2>3 DEF InsertDetection, DeleteRaw, Call, DbCall
  <2>4. CASE ResetStatus(w) \/ FailStatus(w) \/ StatusFails(w)
    BY <1>1, <2>4 DEF ResetStatus, FailStatus, StatusAfterFailure, StatusFails
  <2>5. CASE ProduceRaises(w) \/ Commit(w) \/ WorkerCrash(w) \/ StopConsumer(w)
    BY <1>1, <2>5 DEF ProduceRaises, Commit, WorkerCrash, StopConsumer, ProcessGone,
       BackToPoll
  <2>6. CASE UNCHANGED wpc
    BY <1>2, <2>6
  <2> QED
    BY <2>1, <2>2, <2>3, <2>4, <2>5, <2>6 DEF WorkerNext, Analizar, FlushAtExit,
       CloseDatabase, Restart, DeliverAnalysis, DeliverDeadLetter, DropRecord
<1>4. v = w
  BY <1>1, <1>2, <1>3 DEF SaveClassificationComplete, RetryJob, DeadLetterJob, FetchMissing,
     Call, DbCall
<1>5. RetryJob(w) \/ DeadLetterJob(w) => Reliable
  BY <1>4 DEF RetryJob, DeadLetterJob
<1> QED
  BY <1>3, <1>4, <1>5

LEMMA BufferedAfterAppend ==
    ASSUME TypeInv, NEW w \in Workers, NEW topic, NEW m,
           outbox' = [outbox EXCEPT ![w] = Append(@, [topic |-> topic, body |-> m])]
    PROVE  Buffered(topic, m)'
<1>1. outbox \in [Workers -> Seq(Entry)]
  BY DEF TypeInv, TypeOK, WorkerTypeOK
<1>2. outbox'[w] = Append(outbox[w], [topic |-> topic, body |-> m])
  BY <1>1
<1>3. outbox[w] \in Seq(Entry) /\ Len(outbox[w]) + 1 \in 1 .. Len(outbox'[w])
  BY <1>1, <1>2
<1>4. outbox'[w][Len(outbox[w]) + 1] = [topic |-> topic, body |-> m]
  BY <1>2, <1>3
<1> QED
  BY <1>3, <1>4 DEF Buffered

LEMMA DoneStep ==
    ASSUME Trusted, TypeInv, ImageInv, CommitInv, Next, NEW v \in Workers, DoneAt(v)'
    PROVE  Done(Hand(v))'
<1>1. WorkerTypeOK /\ StoresTypeOK
  BY DEF TypeInv, TypeOK
<1>2. Busy(v) /\ at'[v] = at[v]
  <2>1. ASSUME NEW g \in Garments, UploadNext(g)
        PROVE  Busy(v) /\ at'[v] = at[v]
    BY <2>1, UploadKeepsRecords DEF workerVars, Busy, DoneAt, DonePoints
  <2>2. ASSUME NEW w \in Workers, WorkerNext(w)
        PROVE  Busy(v) /\ at'[v] = at[v]
    BY <2>2, WorkerHands DEF Busy, DoneAt, DonePoints
  <2>3. ASSUME NEW p \in Partitions, GroupNext(p)
        PROVE  Busy(v) /\ at'[v] = at[v]
    BY <1>1, <2>3 DEF GroupNext, PollJob, PollLegacy, Assign, Revoke, Busy, DoneAt,
       DonePoints, WorkerTypeOK
  <2> QED
    BY <2>1, <2>2, <2>3 DEF Next
<1>3. Hand(v)' = Hand(v) /\ Hand(v) \in Job /\ Subject(v) \in Garments /\ Logged(Hand(v))
  BY <1>2, NextLogGrows, HandKept, HandLogged
<1>4. PICK m \in Job : m = Hand(v)
  BY <1>3
<1>5. m \in Message /\ m # LegacyMessage /\ m.garment \in Garments
      /\ m.attempt \in 0 .. MaxAttempt
  BY StoresAssumption DEF Message, Job
<1> SUFFICES Done(m)'
  BY <1>3, <1>4 DEF Done, Settled
<1>6. CASE DoneAt(v)
  <2>1. Done(m)
    BY <1>4, <1>6 DEF CommitInv
  <2> QED
    BY <1>5, <2>1, DoneStays
<1>7. CASE ~ DoneAt(v)
  <2>1. PICK w \in Workers : WorkerNext(w)
    <3>1. ASSUME NEW g \in Garments, UploadNext(g)
          PROVE  FALSE
      BY <1>7, <3>1, UploadKeepsRecords DEF workerVars, DoneAt
    <3>2. ASSUME NEW p \in Partitions, GroupNext(p)
          PROVE  FALSE
      BY <1>1, <1>7, <3>2 DEF GroupNext, PollJob, PollLegacy, Assign, Revoke, DoneAt,
         DonePoints, WorkerTypeOK
    <3> QED
      BY <3>1, <3>2 DEF Next
  <2>2. /\ v = w
        /\ \/ SaveClassificationComplete(w)
           \/ Reliable /\ (RetryJob(w) \/ DeadLetterJob(w))
           \/ FetchMissing(w)
    BY <1>7, <2>1, PassedByWorker
  <2>3. CASE SaveClassificationComplete(v)
    <3>1. imageUrl'[m.garment]
      BY <1>1, <1>4, <1>5, <2>3 DEF SaveClassificationComplete, StoresTypeOK, Subject
    <3> QED
      BY <3>1 DEF Done, Settled
  <2>4. CASE FetchMissing(v)
    <3>1. imageUrl[m.garment] /\ UNCHANGED imageUrl
      <4>1. Available(m.garment)
        BY <1>3, <1>4 DEF ImageInv, Recorded
      <4> QED
        BY <1>4, <2>4, <4>1 DEF FetchMissing, Subject, Available, storeVars, rowVars
    <3> QED
      BY <3>1 DEF Done, Settled
  <2>5. CASE Reliable /\ RetryJob(v)
    <3>1. m.attempt < MaxAttempt
      BY <1>4, <1>5, <2>5, StoresAssumption DEF RetryJob, LastAttempt
    <3>2. Buffered("analysis", [m EXCEPT !.attempt = @ + 1])'
      <4>1. outbox' = [outbox EXCEPT ![v] = Append(@,
              [topic |-> "analysis", body |-> [m EXCEPT !.attempt = @ + 1]])]
        BY <1>4, <2>5 DEF RetryJob, Produce
      <4> QED
        BY <4>1, BufferedAfterAppend
    <3> QED
      BY <1>5, <2>5, <3>1, <3>2 DEF Done, Settled, Recorded
  <2>6. CASE Reliable /\ DeadLetterJob(v)
    <3>1. m.attempt = MaxAttempt
      BY <1>4, <1>5, <2>6, StoresAssumption DEF DeadLetterJob, LastAttempt
    <3>2. Buffered("dlq", m)'
      <4>1. outbox' = [outbox EXCEPT ![v] = Append(@, [topic |-> "dlq", body |-> m])]
        BY <1>4, <2>6 DEF DeadLetterJob, Produce
      <4> QED
        BY <4>1, BufferedAfterAppend
    <3> QED
      BY <1>5, <2>6, <3>1, <3>2 DEF Done, Settled, DeadLettered
  <2> QED
    BY <2>2, <2>3, <2>4, <2>5, <2>6
<1> QED
  BY <1>6, <1>7

(* None of it is about the status column, the staged bytes or the uploads. *)
LEMMA CommitKept ==
    ASSUME CommitInv,
           UNCHANGED <<log, committed, owner, pos, at, wpc, phase, outbox, imageUrl, dlq>>
    PROVE  CommitInv'
<1>1. ASSUME NEW m
      PROVE  Done(m)' = Done(m)
  BY DEF Done, Settled, Recorded, DeadLettered, Logged, Buffered
<1>2. ASSUME NEW p \in Partitions, NEW i
      PROVE  Done(log[p][i])' = Done(log[p][i])
  BY <1>1 DEF Done, Settled, Recorded, DeadLettered, Logged, Buffered
<1>3. ASSUME NEW w \in Workers
      PROVE  /\ Done(Hand(w))' = Done(Hand(w))
             /\ DoneAt(w)' = DoneAt(w)
             /\ UpOrGone(w)' = UpOrGone(w)
             /\ BelowDone(w)' = BelowDone(w)
  <2>1. Hand(w)' = Hand(w) /\ Busy(w)' = Busy(w) /\ DoneAt(w)' = DoneAt(w)
        /\ UpOrGone(w)' = UpOrGone(w)
    BY DEF Hand, Busy, DoneAt, UpOrGone
  <2>2. Done(Hand(w))' = Done(Hand(w))
    BY <2>1 DEF Done, Settled, Recorded, DeadLettered, Logged, Buffered
  <2>3. ASSUME NEW i
        PROVE  Done(log[at[w][1]][i])' = Done(log[at[w][1]][i])
    BY DEF Done, Settled, Recorded, DeadLettered, Logged, Buffered
  <2> QED
    BY <2>1, <2>2, <2>3 DEF BelowDone
<1>4. ASSUME NEW p \in Partitions
      PROVE  /\ DoneUpTo(p, committed[p])' = DoneUpTo(p, committed[p])
             /\ PolledDone(p)' = PolledDone(p)
  BY <1>2 DEF DoneUpTo, PolledDone, Busy
<1> QED
  BY <1>3, <1>4 DEF CommitInv

LEMMA CommitStep ==
    ASSUME Trusted, TypeInv, ImageInv, CommitInv, [Next]_vars
    PROVE  CommitInv'
<1>1. CASE Next
  BY <1>1, PhaseStep, CommittedStep, PolledStep, BelowStep, DoneStep DEF CommitInv
<1>2. CASE UNCHANGED vars
  BY <1>2, CommitKept DEF vars, storeVars, workerVars
<1> QED
  BY <1>1, <1>2

LEMMA CommitInvariant ==
    ASSUME Trusted
    PROVE  Spec => []CommitInv
<1>1. TypeInv /\ ImageInv /\ CommitInv /\ [Next]_vars => CommitInv'
  BY CommitStep
<1> QED
  BY <1>1, InitCommitInv, TypeInvariant, ImageInvariant, PTL DEF Spec

LEMMA CommittedIsDone == CommitInv => CommittedIsSettled
BY DEF CommitInv, DoneUpTo, Done, CommittedIsSettled

(* The offset of a record is committed only when the record is settled,    *)
(* with any number of consumers: calls that raise, rebalances, duplicated  *)
(* records, lost commits and foreign records on the topic do not break the *)
(* at-least-once promise.                                                  *)
THEOREM CommitsSettled ==
    ASSUME Reliable
    PROVE  Spec => []CommittedIsSettled
BY CommitInvariant, CommittedIsDone, PTL DEF Trusted

(* Nor do crashes at any point, a full producer queue or records that are  *)
(* never delivered, as long as no call raises: the redelivered record is   *)
(* the only one that comes to the except branch, and its garment has its   *)
(* image already.                                                          *)
THEOREM CrashesSettled ==
    ASSUME CallsSucceed
    PROVE  Spec => []CommittedIsSettled
BY CommitInvariant, CommittedIsDone, PTL DEF Trusted

----------------------------------------------------------------------------
(* Accepted uploads.  Without a lost publish the first record of what was  *)
(* accepted is in the log, where it stays; the rest follows from the       *)
(* commits: the last attempt that was logged is either still to be read or *)
(* done, and then it has no successor to wait for.                         *)
PublishedInv ==
    \A g \in Garments :
        upc[g] = "created" /\ NeedsAnalysis(g) => Logged([garment |-> g, attempt |-> 0])

LEMMA PublishedStep ==
    ASSUME "drop" \notin Faults, TypeInv, PublishedInv, [Next]_vars
    PROVE  PublishedInv'
<1> SUFFICES ASSUME NEW g \in Garments, upc'[g] = "created", NeedsAnalysis(g)'
    PROVE  Logged([garment |-> g, attempt |-> 0])'
  BY DEF PublishedInv
<1>1. CASE upc[g] = "created" /\ NeedsAnalysis(g)
  <2>1. Logged([garment |-> g, attempt |-> 0])
    BY <1>1 DEF PublishedInv
  <2>2. CASE Next
    BY <2>1, <2>2, NextLogGrows, LoggedStays
  <2>3. CASE UNCHANGED vars
    BY <2>1, <2>3 DEF vars, storeVars, Logged
  <2> QED
    BY <2>2, <2>3
<1>2. CASE ~ (upc[g] = "created" /\ NeedsAnalysis(g))
  <2>1. PICK h \in Garments : UploadNext(h)
    <3>1. CASE UNCHANGED uploadVars
      BY <1>2, <3>1 DEF uploadVars, NeedsAnalysis
    <3> QED
      BY <3>1 DEF Next, WorkerNext, GroupNext, vars
  <2>2. PublishAnalysisRequest(g)
    BY <1>2, <2>1 DEF UploadNext, Register, CreateClothe, CreateClotheFails, StageRaw,
       StageRawFails, MarkFailed, MarkFailedFails, PublishAnalysisRequest,
       PublishAnalysisRequestFails, UploadCrash, Goto, NeedsAnalysis, TypeInv, TypeOK,
       UploadTypeOK
  <2>3. PICK p \in Partitions : WriteRecord(p, [garment |-> g, attempt |-> 0])
    BY <2>2 DEF PublishAnalysisRequest
  <2>4. [garment |-> g, attempt |-> 0] \in Message
    BY StoresAssumption DEF Message, Job
  <2> QED
    BY <2>3, <2>4, WriteRecordLogs
<1> QED
  BY <1>1, <1>2

(* A logged attempt that nobody acts on any more ended well or was followed*)
(* by the next one.                                                        *)
LEMMA LoggedIsFollowed ==
    ASSUME TypeInv, CommitInv, NEW g \in Garments, ~ Pending(g),
           NEW a \in 0 .. MaxAttempt, Logged([garment |-> g, attempt |-> a])
    PROVE  \/ imageUrl[g]
           \/ DeadLettered([garment |-> g, attempt |-> MaxAttempt])
           \/ a < MaxAttempt /\ Logged([garment |-> g, attempt |-> a + 1])
<1> PICK m \in Job : m = [garment |-> g, attempt |-> a]
  BY DEF Job
<1>1. m # LegacyMessage /\ m.garment = g /\ m.attempt = a
  BY StoresAssumption
<1>2. PICK p \in Partitions : \E i \in 1 .. Len(log[p]) : log[p][i] = m
  BY DEF Logged
<1>3. PICK i \in 1 .. Len(log[p]) : log[p][i] = m
  BY <1>2
<1>4. committed[p] \in Nat /\ Len(log[p]) \in Nat
  BY DEF TypeInv, TypeOK, StoresTypeOK
<1>5. ~ (i \in committed[p] + 1 .. Len(log[p]))
  BY <1>1, <1>3 DEF Pending
<1>6. i \in 1 .. committed[p]
  BY <1>4, <1>5
<1>7. Settled(m)
  BY <1>3, <1>6 DEF CommitInv, DoneUpTo, Done
<1>8. CASE a < MaxAttempt /\ Recorded([m EXCEPT !.attempt = @ + 1])
  <2>1. [m EXCEPT !.attempt = @ + 1] = [garment |-> g, attempt |-> a + 1]
    OBVIOUS
  <2>2. a + 1 \in 0 .. MaxAttempt
    BY <1>8, StoresAssumption
  <2>3. ~ Buffered("analysis", [garment |-> g, attempt |-> a + 1])
    BY <2>2 DEF Pending
  <2> QED
    BY <1>8, <2>1, <2>3 DEF Recorded
<1> QED
  BY <1>1, <1>7, <1>8 DEF Settled

(* Attempts from 0 on come to an end: a set of them that held the          *)
(* successor of each of its elements would be mapped one-to-one into itself*)
(* without 0.                                                              *)
LEMMA LastAttemptExists ==
    ASSUME NEW A \in SUBSET (0 .. MaxAttempt), 0 \in A
    PROVE  \E a \in A : a + 1 \notin A
<1> SUFFICES ASSUME \A a \in A : a + 1 \in A
    PROVE  FALSE
  OBVIOUS
<1> DEFINE f == [a \in A |-> a + 1]
           T == A \ {0}
<1>1. IsFiniteSet(A) /\ Cardinality(A) \in Nat
  <2>1. 0 \in Int /\ MaxAttempt \in Int
    BY StoresAssumption
  <2>2. IsFiniteSet(0 .. MaxAttempt)
    BY <2>1, FS_Interval
  <2>3. IsFiniteSet(A)
    BY <2>2, FS_Subset
  <2> QED
    BY <2>3, FS_CardinalityType
<1>2. IsFiniteSet(T) /\ Cardinality(T) = Cardinality(A) - 1
  BY <1>1, FS_RemoveElement
<1>3. f \in [A -> T]
  OBVIOUS
<1>4. \E x, y \in A : x # y /\ f[x] = f[y]
  <2>1. Cardinality(T) < Cardinality(A)
    BY <1>1, <1>2
  <2> HIDE DEF f, T
  <2> QED
    BY <1>1, <1>2, <1>3, <2>1, FS_PigeonHole
<1> QED
  BY <1>4

LEMMA PublishedIsPending ==
    ASSUME TypeInv, CommitInv, PublishedInv
    PROVE  AcceptedIsPending
<1> SUFFICES ASSUME NEW g \in Garments, upc[g] = "created", NeedsAnalysis(g), ~ Pending(g)
    PROVE  imageUrl[g] \/ DeadLettered([garment |-> g, attempt |-> MaxAttempt])
  BY DEF AcceptedIsPending
<1> DEFINE A == {a \in 0 .. MaxAttempt : Logged([garment |-> g, attempt |-> a])}
<1>1. 0 \in A
  BY StoresAssumption DEF PublishedInv
<1>2. A \in SUBSET (0 .. MaxAttempt)
  OBVIOUS
<1>3. PICK a \in A : a + 1 \notin A
  <2> HIDE DEF A
  <2> QED
    BY <1>1, <1>2, LastAttemptExists
<1>4. CASE a < MaxAttempt /\ Logged([garment |-> g, attempt |-> a + 1])
  BY <1>3, <1>4, StoresAssumption
<1> QED
  BY <1>4, LoggedIsFollowed

(* Nothing that was accepted is forgotten, with any number of consumers:   *)
(* whether calls raise under processes that live, or processes crash       *)
(* between calls that succeed, an upload that was answered 201 has its     *)
(* image, its dead letter, or someone who still has to act on it.          *)
THEOREM AcceptedPending ==
    ASSUME Trusted, "drop" \notin Faults
    PROVE  Spec => []AcceptedIsPending
<1>1. Init => PublishedInv
  BY DEF Init, UploadInit, PublishedInv
<1>2. TypeInv /\ PublishedInv /\ [Next]_vars => PublishedInv'
  BY PublishedStep
<1>3. TypeInv /\ CommitInv /\ PublishedInv => AcceptedIsPending
  BY PublishedIsPending
<1> QED
  BY <1>1, <1>2, <1>3, CommitInvariant, TypeInvariant, PTL DEF Spec

----------------------------------------------------------------------------
(* Failed rows.  The thread that is about to write "failed" has produced   *)
(* the dead letter; and a request that failed its row itself never         *)
(* published a job, so that row is not a submitted one.                    *)
FinalJob(g) == [garment |-> g, attempt |-> MaxAttempt]

FailInv ==
    /\ \A w \in Workers :
          wpc[w] = "fail" => Hand(w).attempt = MaxAttempt /\ DeadLettered(Hand(w))
    /\ \A g \in Garments :
          /\ upc[g] = "idle" => status[g] = "absent"
          /\ Submitted(g) => upc[g] = "created"
          /\ status[g] = "failed" => \/ upload[g].status = "failed"
                                     \/ upc[g] = "error"
                                     \/ DeadLettered(FinalJob(g))

LEMMA InitFailInv == Init => FailInv
BY DEF Init, StoresInit, UploadInit, WorkerInit, FailInv, Recorded, Submitted, Logged,
   Buffered

LEMMA FailUploadStep ==
    ASSUME TypeInv, FailInv, NEW g \in Garments, UploadNext(g)
    PROVE  FailInv'
<1>1. LogGrows /\ UNCHANGED <<dlq, workerVars>>
  BY UploadKeepsRecords
<1>2. \A m : DeadLettered(m)' = DeadLettered(m)
  BY <1>1 DEF DeadLettered, Buffered, workerVars
<1>3. ASSUME NEW w \in Workers, wpc'[w] = "fail"
      PROVE  (Hand(w).attempt = MaxAttempt /\ DeadLettered(Hand(w)))'
  <2>1. Hand(w)' = Hand(w) /\ wpc[w] = "fail"
    BY <1>1, <1>3, HandKept DEF Busy, workerVars
  <2> QED
    BY <1>2, <2>1 DEF FailInv, DeadLettered
<1>4. ASSUME NEW h \in Garments
      PROVE  /\ upc'[h] = "idle" => status'[h] = "absent"
             /\ Submitted(h)' => upc'[h] = "created"
             /\ status'[h] = "failed" => \/ upload'[h].status = "failed"
                                         \/ upc'[h] = "error"
                                         \/ DeadLettered(FinalJob(h))'
  <2> USE DEF TypeInv, TypeOK, StoresTypeOK, UploadTypeOK, Goto, UpdateStatus
  <2>1. Submitted(h)' => Submitted(h) \/ (h = g /\ PublishAnalysisRequest(g))
    <3>1. CASE PublishAnalysisRequest(g)
      <4>1. Logged([garment |-> h, attempt |-> 0])' =>
              Logged([garment |-> h, attempt |-> 0]) \/ h = g
        BY RecordedByUpload
      <4> QED
        BY <1>1, <3>1, <4>1 DEF Submitted, Recorded, Buffered, workerVars
    <3>2. CASE ~ PublishAnalysisRequest(g)
      <4>1. UNCHANGED <<log, outbox>>
        BY <1>1, <3>2 DEF UploadNext, Register, CreateClothe, CreateClotheFails,
           StageRaw, StageRawFails, MarkFailed, MarkFailedFails,
           PublishAnalysisRequestFails, UploadCrash, storeVars, topicVars, workerVars
      <4> QED
        BY <4>1 DEF Submitted, Recorded, Logged, Buffered
    <3> QED
      BY <3>1, <3>2
  <2>2. upc[h] = "created" => upc'[h] = "created"
    BY DEF UploadNext, Register, CreateClothe, CreateClotheFails, StageRaw,
       StageRawFails, MarkFailed, MarkFailedFails, PublishAnalysisRequest,
       PublishAnalysisRequestFails, UploadCrash, InFlight
  <2>3. Submitted(h)' => upc'[h] = "created"
    BY <2>1, <2>2 DEF FailInv, PublishAnalysisRequest
  <2>4. upc[h] = "error" => upc'[h] = "error"
    BY DEF UploadNext, Register, CreateClothe, CreateClotheFails, StageRaw,
       StageRawFails, MarkFailed, MarkFailedFails, PublishAnalysisRequest,
       PublishAnalysisRequestFails, UploadCrash, InFlight
  <2>5. CASE Register(g)
    BY <1>2, <2>3, <2>4, <2>5 DEF Register, FailInv, storeVars, FinalJob, DeadLettered
  <2>6. CASE CreateClothe(g)
    BY <1>2, <2>3, <2>4, <2>6 DEF CreateClothe, FailInv, FinalJob, DeadLettered
  <2>7. CASE MarkFailed(g)
    BY <1>2, <2>3, <2>4, <2>7 DEF MarkFailed, FailInv, FinalJob, DeadLettered
  <2>8. CASE UNCHANGED <<status, upload>> /\ ~ Register(g)
    <3>1. upc'[h] = "idle" => upc[h] = "idle"
      BY <2>8 DEF UploadNext, CreateClothe, CreateClotheFails, StageRaw,
         StageRawFails, MarkFailed, MarkFailedFails, PublishAnalysisRequest,
         PublishAnalysisRequestFails, UploadCrash, InFlight
    <3> QED
      BY <1>2, <2>3, <2>4, <2>8, <3>1 DEF FailInv, FinalJob, DeadLettered
  <2> QED
    BY <2>5, <2>6, <2>7, <2>8 DEF UploadNext, CreateClotheFails, StageRaw,
       StageRawFails, MarkFailedFails, PublishAnalysisRequest,
       PublishAnalysisRequestFails, UploadCrash, storeVars, rowVars, Register,
       CreateClothe, MarkFailed
<1> QED
  BY <1>3, <1>4 DEF FailInv

(* A thread comes to write "failed" from the dead letter alone, and no     *)
(* other step of a worker makes a row fail.                                *)
LEMMA FailingWorker ==
    ASSUME TypeInv, NEW w \in Workers, WorkerNext(w)
    PROVE  /\ \A v \in Workers : wpc'[v] = "fail" =>
                 wpc[v] = "fail" \/ (v = w /\ DeadLetterJob(w))
           /\ \A g \in Garments : status'[g] = "failed" =>
                 status[g] = "failed" \/ (g = Subject(w) /\ wpc[w] = "fail")
<1> USE DEF TypeInv, TypeOK, StoresTypeOK, WorkerTypeOK
<1>1. \A v \in Workers : wpc'[v] = "fail" => wpc[v] = "fail" \/ (v = w /\ DeadLetterJob(w))
  BY DEF WorkerNext, MarkProcessing, FetchAndAnalyse, FetchMissing, UploadProcessed,
     SaveClassificationComplete, InsertDetection, DeleteRaw, CallFails, RetryJob,
     DeadLetterJob, ProduceRaises, ResetStatus, FailStatus, StatusAfterFailure,
     StatusFails, Commit, Analizar, WorkerCrash, FlushAtExit, CloseDatabase,
     StopConsumer, ProcessGone, Restart, DeliverAnalysis, DeliverDeadLetter, DropRecord,
     Call, DbCall, BackToPoll
<1>2. CASE MarkProcessing(w) \/ SaveClassificationComplete(w) \/ ResetStatus(w)
  BY <1>1, <1>2 DEF MarkProcessing, SaveClassificationComplete, ResetStatus,
     StatusAfterFailure, UpdateStatus
<1>3. CASE FailStatus(w)
  BY <1>1, <1>3 DEF FailStatus, StatusAfterFailure, UpdateStatus
<1>4. CASE UNCHANGED status
  BY <1>1, <1>4
<1> QED
  BY <1>2, <1>3, <1>4 DEF WorkerNext, FetchAndAnalyse, FetchMissing, UploadProcessed,
     InsertDetection, DeleteRaw, CallFails, RetryJob, DeadLetterJob, ProduceRaises,
     StatusFails, Commit, Analizar, WorkerCrash, FlushAtExit, CloseDatabase,
     StopConsumer, ProcessGone, Restart, DeliverAnalysis, DeliverDeadLetter, DropRecord,
     storeVars, rowVars

LEMMA SubmittedByWorker ==
    ASSUME TypeInv, NEW w \in Workers, WorkerNext(w), NEW g \in Garments, Submitted(g)'
    PROVE  Submitted(g)
<1> DEFINE m == [garment |-> g, attempt |-> 0]
<1>1. m \in Job
  BY StoresAssumption DEF Job
<1>2. CASE Logged(m)'
  BY <1>2, LoggedByWorker DEF Submitted, Recorded
<1>3. CASE Buffered("analysis", m)'
  <2>1. Buffered("analysis", m) \/ (RetryJob(w) /\ m = [Hand(w) EXCEPT !.attempt = @ + 1])
    BY <1>1, <1>3, BufferedByWorker
  <2>2. ASSUME RetryJob(w), m = [Hand(w) EXCEPT !.attempt = @ + 1]
        PROVE  FALSE
    <3>1. PICK j \in Job : j = Hand(w)
      BY <2>2, HandLogged DEF RetryJob, Busy
    <3>2. m.attempt = j.attempt + 1 /\ j.attempt \in 0 .. MaxAttempt
      BY <2>2, <3>1 DEF Job
    <3> QED
      BY <3>2, StoresAssumption
  <2> QED
    BY <2>1, <2>2 DEF Submitted, Recorded
<1> QED
  BY <1>2, <1>3 DEF Submitted, Recorded

LEMMA FailWorkerStep ==
    ASSUME Reliable, TypeInv, CommitInv, FailInv, NEW w \in Workers, WorkerNext(w)
    PROVE  FailInv'
<1>1. UNCHANGED <<upc, upload>>
  BY DEF WorkerNext, uploadVars
<1>2. ASSUME NEW v \in Workers, wpc'[v] = "fail"
      PROVE  (Hand(v).attempt = MaxAttempt /\ DeadLettered(Hand(v)))'
  <2>1. Busy(v) /\ at'[v] = at[v]
    BY <1>2, WorkerHands DEF Busy
  <2>2. Hand(v)' = Hand(v) /\ Hand(v) \in Job
    BY <2>1, WorkerLogGrows, HandKept, HandLogged
  <2>3. PICK m \in Job : m = Hand(v)
    BY <2>2
  <2>4. CASE wpc[v] = "fail"
    <3>1. m.attempt = MaxAttempt /\ DeadLettered(m)
      BY <2>3, <2>4 DEF FailInv
    <3>2. DeadLettered(m)'
      BY <3>1, WorkerKeepsOutcomes
    <3> QED
      BY <2>2, <2>3, <3>1, <3>2 DEF DeadLettered
  <2>5. CASE v = w /\ DeadLetterJob(w)
    <3>1. m.attempt = MaxAttempt
      BY <2>3, <2>5, StoresAssumption DEF DeadLetterJob, LastAttempt, Job
    <3>2. outbox' = [outbox EXCEPT ![w] = Append(@, [topic |-> "dlq", body |-> m])]
      BY <2>3, <2>5 DEF DeadLetterJob, Produce
    <3>3. Buffered("dlq", m)'
      BY <3>2, BufferedAfterAppend
    <3> QED
      BY <2>2, <2>3, <3>1, <3>3 DEF DeadLettered
  <2> QED
    BY <1>2, <2>4, <2>5, FailingWorker
<1>3. ASSUME NEW g \in Garments
      PROVE  /\ upc'[g] = "idle" => status'[g] = "absent"
             /\ Submitted(g)' => upc'[g] = "created"
             /\ status'[g] = "failed" => \/ upload'[g].status = "failed"
                                         \/ upc'[g] = "error"
                                         \/ DeadLettered(FinalJob(g))'
  <2>1. status[g] = "absent" => status'[g] = "absent"
    BY DEF WorkerNext, MarkProcessing, FetchAndAnalyse, FetchMissing, UploadProcessed,
       SaveClassificationComplete, InsertDetection, DeleteRaw, CallFails, RetryJob,
       DeadLetterJob, ProduceRaises, ResetStatus, FailStatus, StatusAfterFailure,
       StatusFails, Commit, Analizar, WorkerCrash, FlushAtExit, CloseDatabase,
       StopConsumer, ProcessGone, Restart, DeliverAnalysis, DeliverDeadLetter,
       DropRecord, storeVars, rowVars, UpdateStatus, TypeInv, TypeOK, StoresTypeOK
  <2>2. ASSUME g = Subject(w), wpc[w] = "fail"
        PROVE  DeadLettered(FinalJob(g))
    <3>1. PICK m \in Job : m = Hand(w)
      BY <2>2, HandLogged DEF Busy
    <3>2. m.attempt = MaxAttempt /\ DeadLettered(m) /\ m.garment = g
      BY <2>2, <3>1 DEF FailInv, Subject
    <3>3. m = FinalJob(g)
      BY <3>2 DEF FinalJob, Job
    <3> QED
      BY <3>2, <3>3
  <2>3. DeadLettered(FinalJob(g)) => DeadLettered(FinalJob(g))'
    BY WorkerKeepsOutcomes DEF FinalJob
  <2>4. status'[g] = "failed" => status[g] = "failed" \/ (g = Subject(w) /\ wpc[w] = "fail")
    BY FailingWorker
  <2> QED
    BY <1>1, <2>1, <2>2, <2>3, <2>4, SubmittedByWorker DEF FailInv
<1> QED
  BY <1>2, <1>3 DEF FailInv

LEMMA FailStep ==
    ASSUME Reliable, TypeInv, CommitInv, FailInv, [Next]_vars
    PROVE  FailInv'
<1>1. ASSUME UNCHANGED <<storeVars, upc, upload, outbox>>,
             \A w \in Workers : wpc'[w] = "fail" => wpc[w] = "fail" /\ at'[w] = at[w]
      PROVE  FailInv'
  <2>1. \A m : DeadLettered(m)' = DeadLettered(m)
    BY <1>1 DEF DeadLettered, Buffered, storeVars
  <2>2. \A g \in Garments : Submitted(g)' = Submitted(g)
    BY <1>1 DEF Submitted, Recorded, Logged, Buffered, storeVars
  <2>3. \A w \in Workers : wpc'[w] = "fail" => Hand(w)' = Hand(w)
    BY <1>1 DEF Hand, storeVars
  <2> QED
    BY <1>1, <2>1, <2>2, <2>3 DEF FailInv, FinalJob, DeadLettered, Buffered, storeVars
<1>2. ASSUME NEW p \in Partitions, GroupNext(p)
      PROVE  FailInv'
  <2>1. UNCHANGED <<storeVars, upc, upload, outbox>>
    BY <1>2 DEF GroupNext, PollJob, PollLegacy, Assign, Revoke, uploadVars
  <2>2. \A w \in Workers : wpc'[w] = "fail" => wpc[w] = "fail" /\ at'[w] = at[w]
    BY <1>2 DEF GroupNext, PollJob, PollLegacy, Assign, Revoke, TypeInv, TypeOK,
       WorkerTypeOK
  <2> QED
    BY <1>1, <2>1, <2>2
<1>3. CASE UNCHANGED vars
  BY <1>1, <1>3 DEF vars, uploadVars, workerVars
<1> QED
  BY <1>2, <1>3, FailUploadStep, FailWorkerStep DEF Next

(* With any number of consumers, a submitted garment is failed only with   *)
(* its dead letter recorded, as long as processes are not stopped and the  *)
(* producer delivers.                                                      *)
THEOREM FailuresDeadLettered ==
    ASSUME Reliable
    PROVE  Spec => []FailedIsDeadLettered
<1>1. FailInv => FailedIsDeadLettered
  BY DEF FailInv, FailedIsDeadLettered, FinalJob
<1>2. TypeInv /\ CommitInv /\ FailInv /\ [Next]_vars => FailInv'
  BY FailStep
<1>3. Spec => []CommitInv
  BY CommitInvariant DEF Trusted
<1> QED
  BY <1>1, <1>2, <1>3, InitFailInv, TypeInvariant, PTL DEF Spec

----------------------------------------------------------------------------
(* Unfinished rows.  One thread at a time sets back a row it has in hand,  *)
(* so a row says queued or processing only while a record about it is      *)
(* still ahead of the consumer, or the consumer works on it.               *)
Unfinished(g) == status[g] \in {"queued", "processing"}

About(m, g) == m # LegacyMessage /\ m.garment = g

(* The consumer has not come to this record, nor past it.                  *)
Fresh(p, i) ==
    /\ i \in committed[p] + 1 .. Len(log[p])
    /\ owner[p] # NoWorker => pos[p] < i
    /\ \A w \in Workers : Busy(w) /\ at[w][1] = p => at[w][2] < i

FreshRecord(g) ==
    \E p \in Partitions : \E i \in 1 .. Len(log[p]) : Fresh(p, i) /\ About(log[p][i], g)

BufferedJob(g) ==
    \E a \in 0 .. MaxAttempt : Buffered("analysis", [garment |-> g, attempt |-> a])

Ahead(g) == DeadLettered(FinalJob(g)) \/ BufferedJob(g) \/ FreshRecord(g)

(* The thread has still to decide what becomes of its record.              *)
Working(w) == wpc[w] \in {"mark", "fetch", "upload", "save", "except"}

InHand(g) == \E w \in Workers : Working(w) /\ Subject(w) = g

PendInv ==
    /\ \A m \in Job : Recorded(m) => upc[m.garment] = "created"
    /\ \A w \in Workers : /\ wpc[w] = "detect" => ~ Unfinished(Subject(w))
                          /\ wpc[w] = "reset" => Ahead(Subject(w))
    /\ \A g \in Garments : Unfinished(g) /\ Submitted(g) => Ahead(g) \/ InHand(g)

LEMMA InitPendInv == Init => PendInv
BY DEF Init, StoresInit, UploadInit, WorkerInit, PendInv, Unfinished, Recorded, Logged,
   Buffered

(* A record that is written lands beyond everything committed, polled or   *)
(* in hand.                                                                *)
LEMMA WrittenIsFresh ==
    ASSUME TypeInv, CommitInv, NEW p \in Partitions, NEW m \in Message,
           WriteRecord(p, m), UNCHANGED <<committed, owner, pos, at, wpc>>,
           NEW g, About(m, g)
    PROVE  FreshRecord(g)'
<1>1. /\ log \in [Partitions -> Seq(Message)] /\ committed[p] \in Nat
      /\ pos[p] \in Nat
  BY DEF TypeInv, TypeOK, StoresTypeOK, WorkerTypeOK
<1> PICK n \in Nat : n = Len(log[p]) + 1
  BY <1>1
<1>2. n <= Len(log'[p]) /\ log'[p][n] = m /\ Len(log'[p]) \in Nat /\ Len(log[p]) \in Nat
  <2>1. log[p] \in Seq(Message) /\ Len(log[p]) \in Nat
    BY <1>1
  <2>2. log'[p] = Append(log[p], m) \/ log'[p] = Append(Append(log[p], m), m)
    BY <1>1 DEF WriteRecord
  <2> QED
    BY <2>1, <2>2
<1>3. committed[p] < n
  BY <1>1, <1>2 DEF CommitInv, DoneUpTo
<1>4. owner[p] # NoWorker => pos[p] < n
  BY <1>1, <1>2 DEF CommitInv, PolledDone
<1>5. ASSUME NEW w \in Workers, Busy(w), at[w][1] = p
      PROVE  at[w][2] < n
  <2>1. at[w][2] \in 1 .. Len(log[p])
    BY <1>5 DEF TypeInv, HandOK
  <2> QED
    BY <1>2, <2>1
<1>6. n \in 1 .. Len(log'[p]) /\ n \in committed'[p] + 1 .. Len(log'[p])
  BY <1>1, <1>2, <1>3
<1>7. Fresh(p, n)'
  BY <1>4, <1>5, <1>6 DEF Fresh, Busy
<1> QED
  BY <1>2, <1>6, <1>7 DEF FreshRecord, About

(* The log and the group may move on under a fresh record as long as no    *)
(* consumer comes to it.                                                   *)
LEMMA FreshStays ==
    ASSUME TypeInv, LogGrows, NEW p \in Partitions, NEW i \in 1 .. Len(log[p]), NEW g,
           Fresh(p, i), About(log[p][i], g), log' \in [Partitions -> Seq(Message)],
           committed'[p] \in Nat, committed'[p] < i,
           owner'[p] # NoWorker => pos'[p] < i,
           \A w \in Workers : Busy(w)' /\ at'[w][1] = p => at'[w][2] < i
    PROVE  FreshRecord(g)'
<1>1. Len(log[p]) <= Len(log'[p]) /\ log'[p][i] = log[p][i]
  BY DEF LogGrows
<1>2. Len(log[p]) \in Nat /\ Len(log'[p]) \in Nat
  BY DEF TypeInv, TypeOK, StoresTypeOK
<1>3. i \in 1 .. Len(log'[p]) /\ i \in committed'[p] + 1 .. Len(log'[p])
  BY <1>1, <1>2
<1>4. Fresh(p, i)'
  BY <1>3 DEF Fresh
<1> QED
  BY <1>1, <1>3, <1>4 DEF FreshRecord, About

LEMMA FreshBounds ==
    ASSUME TypeInv, NEW p \in Partitions, NEW i \in 1 .. Len(log[p]), Fresh(p, i)
    PROVE  /\ committed[p] \in Nat /\ pos[p] \in Nat /\ i \in Nat /\ committed[p] < i
           /\ owner[p] # NoWorker => pos[p] < i
           /\ \A w \in Workers : Busy(w) /\ at[w][1] = p => at[w][2] < i
BY DEF Fresh, TypeInv, TypeOK, StoresTypeOK, WorkerTypeOK

(* A garment with a record ahead keeps one, or a thread takes it in hand.  *)
LEMMA UploadAhead ==
    ASSUME TypeInv, CommitInv, NEW h \in Garments, UploadNext(h),
           NEW g \in Garments, Ahead(g)
    PROVE  Ahead(g)'
<1>1. LogGrows /\ UNCHANGED <<dlq, committed, workerVars>>
  BY UploadKeepsRecords
<1>2. (DeadLettered(FinalJob(g)) \/ BufferedJob(g)) => Ahead(g)'
  BY <1>1 DEF DeadLettered, BufferedJob, Buffered, Ahead, FinalJob, workerVars
<1>3. ASSUME NEW p \in Partitions, NEW i \in 1 .. Len(log[p]), Fresh(p, i),
             About(log[p][i], g)
      PROVE  FreshRecord(g)'
  <2>1. log' \in [Partitions -> Seq(Message)]
    BY UploadTypeStep DEF TypeInv, TypeOK, StoresTypeOK
  <2> QED
    BY <1>1, <1>3, <2>1, FreshBounds, FreshStays DEF workerVars, Busy
<1> QED
  BY <1>2, <1>3 DEF Ahead, FreshRecord

LEMMA WorkerAhead ==
    ASSUME Reliable, TypeInv, CommitInv, NEW w \in Workers, WorkerNext(w),
           NEW g \in Garments, Ahead(g)
    PROVE  Ahead(g)'
<1>1. CASE DeadLettered(FinalJob(g))
  BY <1>1, WorkerKeepsOutcomes DEF Ahead, FinalJob
<1>2. CASE BufferedJob(g)
  <2>1. PICK a \in 0 .. MaxAttempt : Buffered("analysis", [garment |-> g, attempt |-> a])
    BY <1>2 DEF BufferedJob
  <2> DEFINE m == [garment |-> g, attempt |-> a]
  <2>2. m \in Message /\ About(m, g)
    BY StoresAssumption DEF Message, Job, About
  <2>3. CASE Buffered("analysis", m)'
    BY <2>3 DEF Ahead, BufferedJob
  <2>4. CASE WrittenBy(w, m)
    <3>1. PICK k \in 1 .. Len(outbox[w]) :
              DeliverAnalysis(w, k) /\ outbox[w][k].body = m
      BY <2>4 DEF WrittenBy
    <3>2. PICK p \in Partitions : WriteRecord(p, m)
      BY <3>1 DEF DeliverAnalysis
    <3>3. UNCHANGED <<committed, owner, pos, at, wpc>>
      BY <3>1 DEF DeliverAnalysis, groupVars
    <3>4. FreshRecord(g)'
      BY <2>2, <3>2, <3>3, WrittenIsFresh
    <3> QED
      BY <3>4 DEF Ahead
  <2> QED
    BY <2>1, <2>3, <2>4, BufferedStays
<1>3. ASSUME NEW p \in Partitions, NEW i \in 1 .. Len(log[p]), Fresh(p, i),
             About(log[p][i], g)
      PROVE  FreshRecord(g)'
  <2>1. LogGrows /\ log' \in [Partitions -> Seq(Message)] /\ committed'[p] \in Nat
    BY WorkerLogGrows, WorkerTypeStep DEF TypeInv, TypeOK, StoresTypeOK
  <2>2. UNCHANGED <<owner, pos>>
    BY WorkerGroupKept DEF Trusted, Abandons
  <2>3. /\ committed[p] \in Nat /\ pos[p] \in Nat /\ i \in Nat /\ committed[p] < i
        /\ owner[p] # NoWorker => pos[p] < i
        /\ \A v \in Workers : Busy(v) /\ at[v][1] = p => at[v][2] < i
    BY <1>3, FreshBounds
  <2>4. owner'[p] # NoWorker => pos'[p] < i
    BY <2>2, <2>3
  <2>5. \A v \in Workers : Busy(v)' /\ at'[v][1] = p => at'[v][2] < i
    <3>1. \A v \in Workers : Busy(v)' => Busy(v) /\ at'[v] = at[v]
      BY WorkerHands
    <3> QED
      BY <2>3, <3>1
  <2>6. committed'[p] < i => FreshRecord(g)'
    BY <1>3, <2>1, <2>4, <2>5, FreshStays
  <2>7. CASE Commit(w)
    <3>1. /\ Busy(w) /\ wpc' = [wpc EXCEPT ![w] = "poll"]
          /\ at' = [at EXCEPT ![w] = Nothing]
          /\ UNCHANGED committed \/ committed' = [committed EXCEPT ![at[w][1]] = at[w][2]]
      BY <2>7 DEF Commit, BackToPoll, Busy
    <3>2. committed'[p] < i
      <4>1. committed[p] < i /\ (at[w][1] = p => at[w][2] < i)
        BY <2>3, <3>1
      <4>2. committed'[p] = committed[p] \/ (at[w][1] = p /\ committed'[p] = at[w][2])
        BY <3>1 DEF TypeInv, TypeOK, StoresTypeOK
      <4> QED
        BY <4>1, <4>2
    <3> QED
      BY <2>6, <3>2
  <2>8. CASE ~ Commit(w)
    <3>1. committed' = committed
      BY <2>8, WorkerGroupKept DEF Trusted, Abandons
    <3> QED
      BY <2>3, <2>6, <3>1
  <2> QED
    BY <2>7, <2>8
<1> QED
  BY <1>1, <1>2, <1>3 DEF Ahead, FreshRecord

LEMMA GroupAhead ==
    ASSUME TypeInv, CommitInv, NEW q \in Partitions, GroupNext(q),
           NEW g \in Garments, Ahead(g)
    PROVE  Ahead(g)' \/ InHand(g)'
<1>1. UNCHANGED <<log, committed, dlq, outbox>>
  BY DEF GroupNext, PollJob, PollLegacy, Assign, Revoke, storeVars
<1>2. (DeadLettered(FinalJob(g)) \/ BufferedJob(g)) => Ahead(g)'
  BY <1>1 DEF DeadLettered, BufferedJob, Buffered, Ahead, FinalJob
<1>3. ASSUME NEW p \in Partitions, NEW i \in 1 .. Len(log[p]), Fresh(p, i),
             About(log[p][i], g)
      PROVE  FreshRecord(g)' \/ InHand(g)'
  <2> USE DEF TypeInv, TypeOK, StoresTypeOK, WorkerTypeOK
  <2>1. LogGrows /\ log' \in [Partitions -> Seq(Message)]
    BY <1>1, LogKept
  <2>2. /\ committed[p] \in Nat /\ pos[p] \in Nat /\ i \in Nat /\ committed[p] < i
        /\ owner[p] # NoWorker => pos[p] < i
        /\ \A w \in Workers : Busy(w) /\ at[w][1] = p => at[w][2] < i
    BY <1>3, FreshBounds
  <2>3. ASSUME owner'[p] # NoWorker => pos'[p] < i,
               \A w \in Workers : Busy(w)' /\ at'[w][1] = p => at'[w][2] < i
        PROVE  FreshRecord(g)'
    BY <1>1, <1>3, <2>1, <2>2, <2>3, FreshStays
  <2>4. ASSUME NEW w \in Workers, PollJob(w, q)
        PROVE  FreshRecord(g)' \/ InHand(g)'
    <3>1. /\ owner[q] = w /\ owner' = owner /\ pos' = [pos EXCEPT ![q] = @ + 1]
          /\ at' = [at EXCEPT ![w] = <<q, pos[q] + 1>>]
          /\ wpc' = [wpc EXCEPT ![w] = "mark"]
      BY <2>4 DEF PollJob, CanPoll
    <3>2. CASE p = q /\ pos[q] + 1 = i
      <4>1. at'[w] = <<p, i>> /\ wpc'[w] = "mark"
        BY <3>1, <3>2
      <4>2. Hand(w)' = log[p][i]
        BY <1>1, <4>1 DEF Hand
      <4> QED
        BY <1>3, <4>1, <4>2 DEF InHand, Working, Subject, About
    <3>3. CASE ~ (p = q /\ pos[q] + 1 = i)
      <4>1. owner'[p] # NoWorker => pos'[p] < i
        BY <2>2, <3>1, <3>3
      <4>2. w # NoWorker
        BY WorkerAssumption
      <4>3. ASSUME NEW v \in Workers, Busy(v)', at'[v][1] = p
            PROVE  at'[v][2] < i
        <5>1. CASE v = w
          BY <2>2, <3>1, <3>3, <4>2, <4>3, <5>1
        <5>2. CASE v # w
          BY <2>2, <3>1, <4>3, <5>2 DEF Busy
        <5> QED
          BY <5>1, <5>2
      <4> QED
        BY <2>3, <4>1, <4>3
    <3> QED
      BY <3>2, <3>3
  <2>5. ASSUME NEW w \in Workers, PollLegacy(w, q)
        PROVE  FreshRecord(g)'
    <3>1. /\ owner[q] = w /\ log[q][pos[q] + 1] = LegacyMessage
          /\ pos' = [pos EXCEPT ![q] = @ + 1] /\ UNCHANGED <<owner, wpc, at>>
      BY <2>5 DEF PollLegacy, CanPoll
    <3>2. p = q => pos[p] + 1 # i
      BY <1>3, <3>1 DEF About
    <3>3. owner'[p] # NoWorker => pos'[p] < i
      BY <2>2, <3>1, <3>2
    <3> QED
      BY <2>2, <2>3, <3>1, <3>3 DEF Busy
  <2>6. ASSUME NEW w \in Workers, Assign(q, w)
        PROVE  FreshRecord(g)'
    BY <2>2, <2>3, <2>6 DEF Assign, Busy
  <2>7. CASE Revoke(q)
    BY <2>2, <2>3, <2>7 DEF Revoke, Busy
  <2> QED
    BY <2>4, <2>5, <2>6, <2>7 DEF GroupNext
<1> QED
  BY <1>2, <1>3 DEF Ahead, FreshRecord

LEMMA AheadStays ==
    ASSUME Reliable, TypeInv, CommitInv, Next, NEW g \in Garments, Ahead(g)
    PROVE  Ahead(g)' \/ InHand(g)'
BY UploadAhead, WorkerAhead, GroupAhead DEF Next

(* Where a row becomes unfinished: at its INSERT, before any job of it is  *)
(* published, when a thread starts on it, and when one sets it back.       *)
LEMMA BecomesUnfinished ==
    ASSUME TypeInv, Next, NEW g \in Garments, upc[g] = "created",
           ~ Unfinished(g), Unfinished(g)'
    PROVE  \E w \in Workers : /\ Subject(w) = g
                              /\ MarkProcessing(w) \/ ResetStatus(w)
<1> USE DEF TypeInv, TypeOK, StoresTypeOK, UploadTypeOK, WorkerTypeOK
<1>1. ASSUME NEW h \in Garments, UploadNext(h)
      PROVE  FALSE
  <2>1. status'[g] = status[g]
    BY <1>1 DEF UploadNext, Register, CreateClothe, CreateClotheFails, StageRaw,
       StageRawFails, MarkFailed, MarkFailedFails, PublishAnalysisRequest,
       PublishAnalysisRequestFails, UploadCrash, storeVars, rowVars, UpdateStatus
  <2> QED
    BY <2>1 DEF Unfinished
<1>2. ASSUME NEW w \in Workers, WorkerNext(w)
      PROVE  Subject(w) = g /\ (MarkProcessing(w) \/ ResetStatus(w))
  <2>1. status'[g] # status[g]
    BY DEF Unfinished
  <2>2. MarkProcessing(w) \/ ResetStatus(w)
    <3>1. CASE SaveClassificationComplete(w) \/ FailStatus(w)
      BY <2>1, <3>1 DEF SaveClassificationComplete, FailStatus, StatusAfterFailure,
         UpdateStatus, Unfinished
    <3> QED
      BY <1>2, <2>1, <3>1 DEF WorkerNext, FetchAndAnalyse, FetchMissing,
         UploadProcessed, InsertDetection, DeleteRaw, CallFails, RetryJob,
         DeadLetterJob, ProduceRaises, StatusFails, Commit, Analizar, WorkerCrash,
         FlushAtExit, CloseDatabase, StopConsumer, ProcessGone, Restart,
         DeliverAnalysis, DeliverDeadLetter, DropRecord, storeVars, rowVars
  <2>3. Subject(w) = g
    BY <2>1, <2>2 DEF MarkProcessing, ResetStatus, StatusAfterFailure, UpdateStatus
  <2> QED
    BY <2>2, <2>3
<1>3. ASSUME NEW p \in Partitions, GroupNext(p)
      PROVE  FALSE
  <2>1. UNCHANGED status
    BY <1>3 DEF GroupNext, PollJob, PollLegacy, Assign, Revoke, storeVars
  <2> QED
    BY <2>1 DEF Unfinished
<1> QED
  BY <1>1, <1>2, <1>3 DEF Next

(* A job exists only for a request that got as far as publishing it.       *)
LEMMA JobStep ==
    ASSUME TypeInv, PendInv, Next, NEW m \in Job, Recorded(m)'
    PROVE  upc'[m.garment] = "created"
<1> USE DEF TypeInv, TypeOK, StoresTypeOK, UploadTypeOK, WorkerTypeOK
<1>1. m.garment \in Garments
  BY DEF Job
<1>2. ASSUME NEW h \in Garments, UploadNext(h)
      PROVE  upc'[m.garment] = "created"
  <2>1. UNCHANGED outbox
    BY <1>2, UploadKeepsRecords DEF workerVars
  <2>2. CASE Recorded(m)
    <3>1. upc[m.garment] = "created"
      BY <2>2 DEF PendInv
    <3> QED
      BY <1>1, <1>2, <3>1 DEF UploadNext, Register, CreateClothe, CreateClotheFails,
         StageRaw, StageRawFails, MarkFailed, MarkFailedFails, PublishAnalysisRequest,
         PublishAnalysisRequestFails, UploadCrash, InFlight, Goto
  <2>3. CASE ~ Recorded(m)
    <3>1. Logged(m)' /\ ~ Logged(m)
      BY <2>1, <2>3 DEF Recorded, Buffered
    <3>2. PublishAnalysisRequest(h)
      <4>1. CASE UNCHANGED log
        BY <3>1, <4>1 DEF Logged
      <4> QED
        BY <1>2, <4>1 DEF UploadNext, Register, CreateClothe, CreateClotheFails,
           StageRaw, StageRawFails, MarkFailed, MarkFailedFails,
           PublishAnalysisRequestFails, UploadCrash, storeVars, topicVars
    <3>3. m = [garment |-> h, attempt |-> 0]
      BY <1>2, <3>1, RecordedByUpload
    <3> QED
      BY <3>2, <3>3 DEF PublishAnalysisRequest, Goto
  <2> QED
    BY <2>2, <2>3
<1>3. ASSUME NEW w \in Workers, WorkerNext(w)
      PROVE  upc'[m.garment] = "created"
  <2>1. UNCHANGED upc
    BY <1>3 DEF WorkerNext, uploadVars
  <2>2. \/ Recorded(m)
        \/ RetryJob(w) /\ m = [Hand(w) EXCEPT !.attempt = @ + 1]
    BY <1>3, LoggedByWorker, BufferedByWorker DEF Recorded
  <2>3. ASSUME RetryJob(w), m = [Hand(w) EXCEPT !.attempt = @ + 1]
        PROVE  upc[m.garment] = "created"
    <3>1. PICK j \in Job : j = Hand(w) /\ Logged(j)
      BY <2>3, HandLogged DEF RetryJob, Busy
    <3>2. m.garment = j.garment
      BY <2>3, <3>1 DEF Job
    <3> QED
      BY <3>1, <3>2 DEF PendInv, Recorded
  <2> QED
    BY <2>1, <2>2, <2>3 DEF PendInv
<1>4. ASSUME NEW p \in Partitions, GroupNext(p)
      PROVE  upc'[m.garment] = "created"
  <2>1. UNCHANGED <<log, outbox, upc>>
    BY <1>4 DEF GroupNext, PollJob, PollLegacy, Assign, Revoke, storeVars, uploadVars
  <2> QED
    BY <2>1 DEF PendInv, Recorded, Logged, Buffered
<1> QED
  BY <1>2, <1>3, <1>4 DEF Next

(* A busy thread keeps its record until it is back at poll.                *)
LEMMA SubjectStays ==
    ASSUME TypeInv, Next, NEW w \in Workers, Busy(w), Busy(w)'
    PROVE  Subject(w)' = Subject(w)
<1>1. at'[w] = at[w]
  <2>1. ASSUME NEW p \in Partitions, GroupNext(p)
        PROVE  at'[w] = at[w]
    BY <2>1 DEF GroupNext, PollJob, PollLegacy, Assign, Revoke, CanPoll, Busy, TypeInv,
       TypeOK, WorkerTypeOK
  <2> QED
    BY <2>1, UploadKeepsRecords, WorkerHands DEF Next, workerVars
<1> QED
  BY <1>1, NextLogGrows, HandKept DEF Subject

(* How a thread gets from one kind of point to another.                    *)
LEMMA ThreadMoves ==
    ASSUME Reliable, TypeInv, CommitInv, Next, NEW w \in Workers
    PROVE  /\ Working(w) => \/ Working(w)'
                            \/ SaveClassificationComplete(w) \/ RetryJob(w)
                            \/ DeadLetterJob(w)
           /\ wpc'[w] = "detect" => wpc[w] = "detect" \/ SaveClassificationComplete(w)
           /\ wpc'[w] = "reset" => wpc[w] = "reset" \/ RetryJob(w)
<1> USE DEF TypeInv, TypeOK, WorkerTypeOK
<1>1. ASSUME NEW v \in Workers, WorkerNext(v), v # w
      PROVE  wpc'[w] = wpc[w]
  BY <1>1 DEF WorkerNext, MarkProcessing, FetchAndAnalyse, FetchMissing, UploadProcessed,
     SaveClassificationComplete, InsertDetection, DeleteRaw, CallFails, RetryJob,
     DeadLetterJob, ProduceRaises, ResetStatus, FailStatus, StatusAfterFailure,
     StatusFails, Commit, Analizar, WorkerCrash, FlushAtExit, CloseDatabase,
     StopConsumer, ProcessGone, Restart, DeliverAnalysis, DeliverDeadLetter, DropRecord,
     Call, DbCall, BackToPoll
<1>2. ASSUME WorkerNext(w)
      PROVE  /\ Working(w) => \/ Working(w)'
                              \/ SaveClassificationComplete(w) \/ RetryJob(w)
                              \/ DeadLetterJob(w)
             /\ wpc'[w] = "detect" => wpc[w] = "detect" \/ SaveClassificationComplete(w)
             /\ wpc'[w] = "reset" => wpc[w] = "reset" \/ RetryJob(w)
  <2>1. CASE \/ MarkProcessing(w) \/ FetchAndAnalyse(w) \/ FetchMissing(w)
             \/ UploadProcessed(w) \/ InsertDetection(w) \/ DeleteRaw(w)
    BY <2>1 DEF MarkProcessing, FetchAndAnalyse, FetchMissing, UploadProcessed,
       InsertDetection, DeleteRaw, Call, DbCall, Working
  <2>2. CASE \/ CallFails(w) \/ ResetStatus(w) \/ FailStatus(w) \/ StatusFails(w)
             \/ Commit(w)
    BY <2>2 DEF CallFails, ResetStatus, FailStatus, StatusAfterFailure, StatusFails,
       Commit, BackToPoll, Working
  <2>3. CASE SaveClassificationComplete(w) \/ RetryJob(w) \/ DeadLetterJob(w)
    BY <2>3 DEF SaveClassificationComplete, RetryJob, DeadLetterJob, Call, DbCall
  <2>4. CASE UNCHANGED wpc
    BY <2>4 DEF Working
  <2> QED
    BY <1>2, <2>1, <2>2, <2>3, <2>4 DEF Reliable, CommitInv, UpOrGone, WorkerNext, ProduceRaises,
       Analizar, WorkerCrash, FlushAtExit, CloseDatabase, StopConsumer, Restart,
       DeliverAnalysis, DeliverDeadLetter, DropRecord, Event
<1>3. ASSUME NEW g \in Garments, UploadNext(g)
      PROVE  wpc'[w] = wpc[w]
  BY <1>3, UploadKeepsRecords DEF workerVars
<1>4. ASSUME NEW p \in Partitions, GroupNext(p)
      PROVE  /\ wpc[w] # "poll" => wpc'[w] = wpc[w]
             /\ wpc'[w] \in {"detect", "reset"} => wpc'[w] = wpc[w]
  BY <1>4 DEF GroupNext, PollJob, PollLegacy, Assign, Revoke, CanPoll
<1> QED
  BY <1>1, <1>2, <1>3, <1>4 DEF Next, Working

OneConsumer == \A v, w \in Workers : v = w

(* The except branch leaves the retry or the dead letter in the buffer.    *)
LEMMA ExceptLeavesAhead ==
    ASSUME TypeInv, NEW w \in Workers, NEW g \in Garments, Subject(w) = g,
           RetryJob(w) \/ DeadLetterJob(w)
    PROVE  Ahead(g)'
<1>1. PICK m \in Job : m = Hand(w)
  BY HandLogged DEF RetryJob, DeadLetterJob, Busy
<1>2. m.garment = g /\ m.attempt \in 0 .. MaxAttempt /\ m = [garment |-> g, attempt |-> m.attempt]
  BY <1>1 DEF Subject, Job
<1>3. CASE RetryJob(w)
  <2>1. PICK n \in 0 .. MaxAttempt : n = m.attempt + 1
    BY <1>1, <1>2, <1>3, StoresAssumption DEF RetryJob, LastAttempt
  <2>2. PICK j \in Job : j = [garment |-> g, attempt |-> n]
    BY DEF Job
  <2>3. [m EXCEPT !.attempt = @ + 1] = j
    BY <1>2, <2>1, <2>2
  <2>4. outbox' = [outbox EXCEPT ![w] = Append(@, [topic |-> "analysis", body |-> j])]
    BY <1>1, <1>3, <2>3 DEF RetryJob, Produce
  <2>5. Buffered("analysis", j)'
    BY <2>4, BufferedAfterAppend
  <2>6. BufferedJob(g)'
    BY <2>2, <2>5 DEF BufferedJob, Buffered
  <2> QED
    BY <2>6 DEF Ahead
<1>4. CASE DeadLetterJob(w)
  <2>1. m.attempt = MaxAttempt
    BY <1>1, <1>2, <1>4, StoresAssumption DEF DeadLetterJob, LastAttempt
  <2>2. outbox' = [outbox EXCEPT ![w] = Append(@, [topic |-> "dlq", body |-> FinalJob(g)])]
    BY <1>1, <1>2, <1>4, <2>1 DEF DeadLetterJob, Produce, FinalJob
  <2>3. Buffered("dlq", FinalJob(g))'
    BY <2>2, BufferedAfterAppend
  <2> QED
    BY <2>3 DEF Ahead, DeadLettered
<1> QED
  BY <1>3, <1>4

LEMMA PublishLeavesAhead ==
    ASSUME TypeInv, CommitInv, NEW g \in Garments, PublishAnalysisRequest(g),
           UNCHANGED workerVars
    PROVE  Ahead(g)'
<1>1. PICK p \in Partitions : WriteRecord(p, [garment |-> g, attempt |-> 0])
  BY DEF PublishAnalysisRequest
<1>2. [garment |-> g, attempt |-> 0] \in Message /\ About([garment |-> g, attempt |-> 0], g)
  BY StoresAssumption DEF Message, Job, About
<1>3. UNCHANGED <<committed, owner, pos, at, wpc>>
  BY DEF PublishAnalysisRequest, workerVars
<1>4. FreshRecord(g)'
  BY <1>1, <1>2, <1>3, WrittenIsFresh
<1> QED
  BY <1>4 DEF Ahead

(* A thread past the UPDATE is alone with its row: the only other way to   *)
(* make it unfinished again would be another consumer of the same garment. *)
LEMMA DetectStep ==
    ASSUME OneConsumer, Reliable, TypeInv, CommitInv, PendInv, Next,
           NEW w \in Workers, wpc'[w] = "detect"
    PROVE  ~ Unfinished(Subject(w))'
<1>1. Busy(w) /\ Subject(w)' = Subject(w) /\ Subject(w) \in Garments
  <2>1. wpc[w] = "detect" \/ SaveClassificationComplete(w)
    BY ThreadMoves
  <2>2. Busy(w) /\ Busy(w)'
    BY <2>1 DEF SaveClassificationComplete, DbCall, Call, Busy
  <2> QED
    BY <2>2, SubjectStays, HandLogged
<1>2. CASE SaveClassificationComplete(w)
  <2>1. ~ (status'[Subject(w)] \in {"queued", "processing"})
    BY <1>1, <1>2 DEF SaveClassificationComplete, UpdateStatus, TypeInv, TypeOK, StoresTypeOK
  <2> QED
    BY <1>1, <2>1 DEF Unfinished
<1>3. CASE wpc[w] = "detect"
  <2>1. PICK g \in Garments : g = Subject(w)
    BY <1>1
  <2>2. PICK m \in Job : m = Hand(w) /\ Logged(m)
    BY <1>1, HandLogged
  <2>3. m.garment = g
    BY <2>1, <2>2 DEF Subject
  <2>4. upc[g] = "created" /\ ~ Unfinished(g)
    BY <1>3, <2>1, <2>2, <2>3 DEF PendInv, Recorded
  <2>5. ASSUME Unfinished(g)'
        PROVE  FALSE
    <3>1. PICK v \in Workers : MarkProcessing(v) \/ ResetStatus(v)
      BY <2>4, <2>5, BecomesUnfinished
    <3>2. v = w
      BY DEF OneConsumer
    <3> QED
      BY <1>3, <3>1, <3>2 DEF MarkProcessing, DbCall, Call, ResetStatus, StatusAfterFailure
  <2> QED
    BY <1>1, <2>1, <2>5 DEF Unfinished
<1> QED
  BY <1>2, <1>3, ThreadMoves

LEMMA ResetStep ==
    ASSUME OneConsumer, Reliable, TypeInv, CommitInv, PendInv, Next,
           NEW w \in Workers, wpc'[w] = "reset"
    PROVE  \E g \in Garments : Subject(w)' = g /\ Ahead(g)'
<1>1. wpc[w] = "reset" \/ RetryJob(w)
  BY ThreadMoves
<1>2. Busy(w) /\ Busy(w)'
  BY <1>1 DEF RetryJob, Busy
<1>3. PICK g \in Garments : g = Subject(w) /\ Subject(w)' = g
  BY <1>2, SubjectStays, HandLogged
<1>4. CASE RetryJob(w)
  BY <1>3, <1>4, ExceptLeavesAhead
<1>5. CASE wpc[w] = "reset"
  <2>1. Ahead(g)
    BY <1>3, <1>5 DEF PendInv
  <2>2. ~ InHand(g)'
    BY DEF OneConsumer, InHand, Working
  <2> QED
    BY <1>3, <2>1, <2>2, AheadStays
<1> QED
  BY <1>1, <1>4, <1>5

LEMMA UnfinishedStep ==
    ASSUME OneConsumer, Reliable, TypeInv, CommitInv, FailInv, PendInv, Next,
           NEW g \in Garments, Unfinished(g)', Submitted(g)'
    PROVE  Ahead(g)' \/ InHand(g)'
<1>1. CASE ~ Submitted(g)
  <2>1. ASSUME NEW w \in Workers, WorkerNext(w)
        PROVE  FALSE
    BY <1>1, <2>1, SubmittedByWorker
  <2>2. ASSUME NEW p \in Partitions, GroupNext(p)
        PROVE  FALSE
    <3>1. UNCHANGED <<log, outbox>>
      BY <2>2 DEF GroupNext, PollJob, PollLegacy, Assign, Revoke, storeVars
    <3> QED
      BY <1>1, <3>1 DEF Submitted, Recorded, Logged, Buffered
  <2>3. PICK h \in Garments : UploadNext(h)
    BY <2>1, <2>2 DEF Next
  <2>4. UNCHANGED workerVars
    BY <2>3, UploadKeepsRecords
  <2>5. Logged([garment |-> g, attempt |-> 0])' /\ ~ Logged([garment |-> g, attempt |-> 0])
    BY <1>1, <2>4 DEF Submitted, Recorded, Buffered, workerVars
  <2>6. PublishAnalysisRequest(h)
    <3>1. CASE UNCHANGED log
      BY <2>5, <3>1 DEF Logged
    <3> QED
      BY <2>3, <3>1 DEF UploadNext, Register, CreateClothe, CreateClotheFails,
         StageRaw, StageRawFails, MarkFailed, MarkFailedFails,
         PublishAnalysisRequestFails, UploadCrash, storeVars, topicVars
  <2>7. h = g
    BY <2>3, <2>5, RecordedByUpload
  <2> QED
    BY <2>4, <2>6, <2>7, PublishLeavesAhead
<1>2. CASE Submitted(g) /\ Unfinished(g) /\ Ahead(g)
  BY <1>2, AheadStays
<1>3. ASSUME Unfinished(g), NEW w \in Workers, Working(w), Subject(w) = g
      PROVE  Ahead(g)' \/ InHand(g)'
  <2>1. CASE SaveClassificationComplete(w)
    BY <1>3, <2>1 DEF SaveClassificationComplete, UpdateStatus, Unfinished, TypeInv,
       TypeOK, StoresTypeOK
  <2>2. CASE RetryJob(w) \/ DeadLetterJob(w)
    BY <1>3, <2>2, ExceptLeavesAhead
  <2>3. CASE Working(w)'
    <3>1. Busy(w) /\ Busy(w)'
      BY <1>3, <2>3 DEF Working, Busy
    <3>2. Subject(w)' = g
      BY <1>3, <3>1, SubjectStays
    <3> QED
      BY <2>3, <3>2 DEF InHand
  <2> QED
    BY <1>3, <2>1, <2>2, <2>3, ThreadMoves
<1>4. CASE Submitted(g) /\ ~ Unfinished(g)
  <2>1. upc[g] = "created"
    BY <1>4 DEF FailInv
  <2>2. PICK w \in Workers : Subject(w) = g /\ (MarkProcessing(w) \/ ResetStatus(w))
    BY <1>4, <2>1, BecomesUnfinished
  <2>3. CASE MarkProcessing(w)
    <3>1. Working(w)' /\ Busy(w) /\ Busy(w)'
      BY <2>3 DEF MarkProcessing, DbCall, Call, Working, Busy, TypeInv, TypeOK, WorkerTypeOK
    <3>2. Subject(w)' = g
      BY <2>2, <3>1, SubjectStays
    <3> QED
      BY <3>1, <3>2 DEF InHand
  <2>4. CASE ResetStatus(w)
    <3>1. Ahead(g)
      BY <2>2, <2>4 DEF ResetStatus, StatusAfterFailure, PendInv
    <3> QED
      BY <3>1, AheadStays
  <2> QED
    BY <2>2, <2>3, <2>4
<1> QED
  BY <1>1, <1>2, <1>3, <1>4 DEF PendInv, InHand

LEMMA PendStep ==
    ASSUME OneConsumer, Reliable, TypeInv, CommitInv, FailInv, PendInv, [Next]_vars
    PROVE  PendInv'
<1>1. CASE Next
  <2>1. ASSUME NEW w \in Workers, wpc'[w] = "reset"
        PROVE  Ahead(Subject(w))'
    <3>1. PICK g \in Garments : Subject(w)' = g /\ Ahead(g)'
      BY <1>1, <2>1, ResetStep
    <3> QED
      BY <3>1 DEF Ahead, FinalJob, DeadLettered, BufferedJob, Buffered, FreshRecord, About
  <2> QED
    BY <1>1, <2>1, JobStep, DetectStep, UnfinishedStep DEF PendInv
<1>2. CASE UNCHANGED vars
  <2> USE DEF vars, storeVars, uploadVars, workerVars
  <2>1. \A m : Recorded(m)' = Recorded(m)
    BY <1>2 DEF Recorded, Logged, Buffered
  <2>2. ASSUME NEW w \in Workers
        PROVE  /\ Unfinished(Subject(w))' = Unfinished(Subject(w))
               /\ Ahead(Subject(w))' = Ahead(Subject(w))
    BY <1>2 DEF Subject, Hand, Unfinished, Ahead, FinalJob, DeadLettered, BufferedJob,
       Buffered, FreshRecord, Fresh, About, Busy
  <2>3. ASSUME NEW g \in Garments
        PROVE  /\ Unfinished(g)' = Unfinished(g) /\ Submitted(g)' = Submitted(g)
               /\ Ahead(g)' = Ahead(g) /\ InHand(g)' = InHand(g)
    BY <1>2 DEF Unfinished, Submitted, Recorded, Logged, Ahead, FinalJob, DeadLettered,
       BufferedJob, Buffered, FreshRecord, Fresh, About, Busy, InHand, Working, Subject,
       Hand
  <2> QED
    BY <1>2, <2>1, <2>2, <2>3 DEF PendInv
<1> QED
  BY <1>1, <1>2

(* With one consumer that is not stopped and a producer that delivers, a   *)
(* row that says queued or processing has a record still to be handled, a  *)
(* thread that handles one, or its dead letter, whatever calls raise and   *)
(* however often the group is rebalanced.                                  *)
THEOREM UnfinishedPending ==
    ASSUME Reliable, OneConsumer
    PROVE  Spec => []UnfinishedIsPending
<1>1. TypeInv /\ PendInv => UnfinishedIsPending
  <2> SUFFICES ASSUME TypeInv, PendInv, NEW g \in Garments, Unfinished(g), Submitted(g)
      PROVE  Pending(g) \/ DeadLettered(FinalJob(g))
    BY DEF UnfinishedIsPending, Unfinished, FinalJob
  <2>1. CASE BufferedJob(g) \/ InHand(g)
    BY <2>1 DEF BufferedJob, InHand, Working, Busy, Pending
  <2>2. CASE FreshRecord(g)
    BY <2>2 DEF FreshRecord, Fresh, About, Pending
  <2> QED
    BY <2>1, <2>2 DEF PendInv, Ahead
<1>2. TypeInv /\ CommitInv /\ FailInv /\ PendInv /\ [Next]_vars => PendInv'
  BY PendStep
<1>3. Spec => []CommitInv
  BY CommitInvariant DEF Trusted
<1>4. TypeInv /\ CommitInv /\ FailInv /\ [Next]_vars => FailInv'
  BY FailStep
<1> QED
  BY <1>1, <1>2, <1>3, <1>4, InitFailInv, InitPendInv, TypeInvariant, PTL
     DEF Spec

=============================================================================
