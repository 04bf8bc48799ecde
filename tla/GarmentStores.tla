--------------------------- MODULE GarmentStores ---------------------------
(***************************************************************************)
(* The stores that the Go API and the vusion-ml worker share: the clothes  *)
(* and clothe_detections tables, the raw/ and garments/ prefixes of the    *)
(* bucket, and the analysis and dead-letter topics.  Neither program keeps *)
(* state of its own about a garment, so everything the two know about each *)
(* other is here.  ClotheService and AnalysisWorker extend this module.    *)
(***************************************************************************)
EXTENDS Integers, Sequences

CONSTANTS
    Garments,       \* garments users may upload
    Partitions,     \* partitions of the analysis topic
    MaxAttempt,     \* last value of "attempt" the worker retries; 2 in the code
    LegacyMessage,  \* what POST /analizar writes to the same topic
    Faults,         \* which of the failures below may happen
    MaxEvents       \* bound on how many crashes, exits, rebalances, duplicates
                    \* and calls of /analizar there are in all

(***************************************************************************)
(* The failures the code is exposed to.  "call": a database or S3 call     *)
(* raises, with or without having taken effect.  "crash": a process dies.  *)
(* "shutdown": vusion-ml exits through its atexit handlers.  "rebalance":  *)
(* a partition is taken from its consumer.  "enqueue": Producer.produce    *)
(* raises.  "drop": a record handed to a producer never reaches the        *)
(* broker.  "duplicate": a producer's internal retry writes it twice.      *)
(* "commit": an asynchronous offset commit is lost.  "legacy": /analizar   *)
(* is called.                                                              *)
(***************************************************************************)
FaultKinds == {"call", "crash", "shutdown", "rebalance", "enqueue", "drop",
               "duplicate", "commit", "legacy"}

Statuses == {"queued", "processing", "completed", "failed"}

Job == [garment : Garments, attempt : 0 .. MaxAttempt]

Message == Job \cup {LegacyMessage}

ASSUME StoresAssumption == /\ MaxAttempt \in Nat
                           /\ LegacyMessage \notin Job
                           /\ Faults \subseteq FaultKinds
                           /\ MaxEvents \in Nat

VARIABLES
    status,      \* clothes.status of each garment, "absent" before the INSERT
    imageUrl,    \* clothes.image_url of the garment is set
    raw,         \* raw/<user>/<garment>/original.* exists in the bucket
    processed,   \* garments/<user>/<garment>/processed.png exists
    detections,  \* number of clothe_detections rows of the garment
    log,         \* the records of each partition of the analysis topic
    committed,   \* the consumer group's committed offset, per partition
    dlq,         \* the jobs recorded in the dead-letter topic
    events       \* environment events so far

storeVars == <<status, imageUrl, raw, processed, detections, log, committed, dlq>>

rowVars == <<status, imageUrl, detections>>
bucketVars == <<raw, processed>>
topicVars == <<log, committed, dlq>>

StoresTypeOK ==
    /\ status \in [Garments -> Statuses \cup {"absent"}]
    /\ imageUrl \in [Garments -> BOOLEAN]
    /\ raw \in [Garments -> BOOLEAN]
    /\ processed \in [Garments -> BOOLEAN]
    /\ detections \in [Garments -> Nat]
    /\ log \in [Partitions -> Seq(Message)]
    /\ committed \in [Partitions -> Nat]
    /\ dlq \subseteq Job
    /\ events \in Nat

StoresInit ==
    /\ status = [g \in Garments |-> "absent"]
    /\ imageUrl = [g \in Garments |-> FALSE]
    /\ raw = [g \in Garments |-> FALSE]
    /\ processed = [g \in Garments |-> FALSE]
    /\ detections = [g \in Garments |-> 0]
    /\ log = [p \in Partitions |-> << >>]
    /\ committed = [p \in Partitions |-> 0]
    /\ dlq = {}
    /\ events = 0

----------------------------------------------------------------------------
(* UPDATE clothes SET status = s WHERE id = g: changes nothing when there  *)
(* is no such row.                                                         *)
UpdateStatus(g, s) ==
    status' = [status EXCEPT ![g] = IF @ = "absent" THEN @ ELSE s]

(* An environment event of a kind that may happen, while the bound allows. *)
Event(kind) == /\ kind \in Faults
               /\ events < MaxEvents
               /\ events' = events + 1

(* The broker appends record m to partition p, twice when the producer     *)
(* retries a write whose acknowledgement was lost.                         *)
WriteRecord(p, m) ==
    \/ /\ log' = [log EXCEPT ![p] = Append(@, m)]
       /\ UNCHANGED events
    \/ /\ Event("duplicate")
       /\ log' = [log EXCEPT ![p] = Append(Append(@, m), m)]

(* Record m is in the log, at some offset of some partition.               *)
Logged(m) == \E p \in Partitions : \E i \in 1 .. Len(log[p]) : log[p][i] = m

============================================================================
