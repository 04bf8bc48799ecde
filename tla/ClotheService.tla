--------------------------- MODULE ClotheService ---------------------------
(***************************************************************************)
(* POST /clothes on the Go API: the handler and ClotheService              *)
(* .RegisterClothe.  Each garment is one request, and upc[g] is the point  *)
(* it has reached.  Every call to Postgres, S3 or Kafka is a step of its   *)
(* own, so requests and workers interleave between the calls; the audit    *)
(* record written after the INSERT goes to another topic and its failure   *)
(* is only logged, so it is not a step here.                               *)
(***************************************************************************)
EXTENDS GarmentStores

CONSTANTS
    AcceptedStatuses,  \* values of the form field "status" that are sent; "" is the default
    AnalysisEnabled    \* an analysis topic and a bucket are configured

ASSUME ServiceAssumption == /\ AcceptedStatuses \subseteq Statuses
                            /\ AnalysisEnabled \in BOOLEAN

VARIABLES
    upc,     \* upc[g]: where the request that uploads g is
    upload   \* upload[g]: what it asked for

uploadVars == <<upc, upload>>

UploadPoints == {"idle", "create", "stage", "markFailed", "publish",
                 "created", "error", "crashed"}

InFlight == {"create", "stage", "markFailed", "publish"}

Upload == [status : Statuses, bytes : BOOLEAN]

UploadTypeOK == /\ upc \in [Garments -> UploadPoints]
                /\ upload \in [Garments -> Upload]

UploadInit == /\ upc = [g \in Garments |-> "idle"]
              /\ upload = [g \in Garments |-> [status |-> "queued", bytes |-> FALSE]]

Goto(g, point) == upc' = [upc EXCEPT ![g] = point]

----------------------------------------------------------------------------
(* HTTPHandler.Register: the multipart form passed every validation.  The  *)
(* status field may be any garment status, and the image may be an empty   *)
(* file whose name ends in .jpg, .png or .webp.                            *)
Register(g) ==
    /\ upc[g] = "idle"
    /\ \E s \in AcceptedStatuses, b \in BOOLEAN :
          upload' = [upload EXCEPT ![g] = [status |-> s, bytes |-> b]]
    /\ Goto(g, "create")
    /\ UNCHANGED <<storeVars, events>>

(* RegisterClothe's gate: analysisTopic # "", storage # nil, len(raw) > 0. *)
NeedsAnalysis(g) == AnalysisEnabled /\ upload[g].bytes

(* CreateClothe inserts the row with an empty image_url; a reply lost      *)
(* after the INSERT committed is an error to the request.                  *)
CreateClothe(g) ==
    /\ upc[g] = "create"
    /\ status' = [status EXCEPT ![g] = upload[g].status]
    /\ \/ Goto(g, IF NeedsAnalysis(g) THEN "stage" ELSE "created")
       \/ "call" \in Faults /\ Goto(g, "error")
    /\ UNCHANGED <<upload, imageUrl, detections, bucketVars, topicVars, events>>

CreateClotheFails(g) ==
    /\ "call" \in Faults
    /\ upc[g] = "create"
    /\ Goto(g, "error")
    /\ UNCHANGED <<upload, storeVars, events>>

(* StageRaw puts the uploaded bytes under raw/.                            *)
StageRaw(g) ==
    /\ upc[g] = "stage"
    /\ raw' = [raw EXCEPT ![g] = TRUE]
    /\ \/ Goto(g, "publish")
       \/ "call" \in Faults /\ Goto(g, "markFailed")
    /\ UNCHANGED <<upload, rowVars, processed, topicVars, events>>

(* Mutant: a staging error is only logged, like an error of the publish.   *)
StageRawLogged(g) ==
    /\ "call" \in Faults
    /\ upc[g] = "stage"
    /\ Goto(g, "publish")
    /\ UNCHANGED <<upload, storeVars, events>>

StageRawFails(g) ==
    /\ "call" \in Faults
    /\ upc[g] = "stage"
    /\ Goto(g, "markFailed")
    /\ UNCHANGED <<upload, storeVars, events>>

(* After a staging error the row is marked failed and the request returns  *)
(* an error, whether or not the UPDATE worked.                             *)
MarkFailed(g) ==
    /\ upc[g] = "markFailed"
    /\ UpdateStatus(g, "failed")
    /\ Goto(g, "error")
    /\ UNCHANGED <<upload, imageUrl, detections, bucketVars, topicVars, events>>

MarkFailedFails(g) ==
    /\ "call" \in Faults
    /\ upc[g] = "markFailed"
    /\ Goto(g, "error")
    /\ UNCHANGED <<upload, storeVars, events>>

(* Mutant: attempts counted from one.                                      *)
PublishFromOne(g) ==
    /\ upc[g] = "publish"
    /\ \E p \in Partitions : WriteRecord(p, [garment |-> g, attempt |-> 1])
    /\ Goto(g, "created")
    /\ UNCHANGED <<upload, rowVars, bucketVars, committed, dlq>>

(* publishAnalysisRequest: the record goes to a partition of the balancer's*)
(* choice; an error is only logged, so the client gets 201 all the same.   *)
PublishAnalysisRequest(g) ==
    /\ upc[g] = "publish"
    /\ \E p \in Partitions : WriteRecord(p, [garment |-> g, attempt |-> 0])
    /\ Goto(g, "created")
    /\ UNCHANGED <<upload, rowVars, bucketVars, committed, dlq>>

PublishAnalysisRequestFails(g) ==
    /\ "drop" \in Faults
    /\ upc[g] = "publish"
    /\ Goto(g, "created")
    /\ UNCHANGED <<upload, storeVars, events>>

(* The Go process dies in the middle of the request.                       *)
UploadCrash(g) ==
    /\ "crash" \in Faults
    /\ upc[g] \in InFlight
    /\ Goto(g, "crashed")
    /\ UNCHANGED <<upload, storeVars, events>>

----------------------------------------------------------------------------
(* What the request goroutine does once it runs.                           *)
UploadStep(g) ==
    \/ CreateClothe(g) \/ CreateClotheFails(g)
    \/ StageRaw(g) \/ StageRawFails(g)
    \/ MarkFailed(g) \/ MarkFailedFails(g)
    \/ PublishAnalysisRequest(g) \/ PublishAnalysisRequestFails(g)

============================================================================
