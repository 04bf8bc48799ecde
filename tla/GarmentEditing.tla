--------------------------- MODULE GarmentEditing ---------------------------
(***************************************************************************)
(* PATCH /clothes/:id/status and /clothes/:id/classification on top of the *)
(* pipeline.  A handler reads the garment to check its owner and then, in  *)
(* a second statement, updates the row whatever its status has become, so  *)
(* the owner may write any status under a running upload or worker.  Of    *)
(* the row the pipeline's columns are modelled; the labels are not.        *)
(***************************************************************************)
EXTENDS GarmentPipeline

CONSTANTS
    Users,     \* JWT subjects
    NoUser,    \* owner of a row that is not there
    Uploader,  \* Uploader[g]: the subject of the request that uploads g
    Editors    \* PATCH requests served at the same time

ASSUME EditingAssumption == /\ NoUser \notin Users
                            /\ Uploader \in [Garments -> Users]

VARIABLES
    userId,    \* clothes.user_id of each garment
    edit       \* edit[e]: garment and JWT subject of a PATCH that has passed
               \* its check and is about to update, or NoEdit

editVars == <<userId, edit>>

Edit == [garment : Garments, subject : Users]

NoEdit == << >>

EditTypeOK == /\ userId \in [Garments -> Users \cup {NoUser}]
              /\ edit \in [Editors -> Edit \cup {NoEdit}]

EditInit == /\ userId = [g \in Garments |-> NoUser]
            /\ edit = [e \in Editors |-> NoEdit]

----------------------------------------------------------------------------
(* The INSERT of upload g makes its subject the owner.                     *)
OwnerOfInsert(g) ==
    userId' = [userId EXCEPT ![g] = IF status'[g] = "absent" THEN NoUser ELSE Uploader[g]]

(* Mutant: the garment is loaded and its owner is not compared.            *)
LoadGarment(e) ==
    /\ edit[e] = NoEdit
    /\ \E g \in Garments, u \in Users :
          /\ status[g] # "absent"
          /\ edit' = [edit EXCEPT ![e] = [garment |-> g, subject |-> u]]
    /\ UNCHANGED <<vars, userId>>

(* The SELECT finds a row, and u in its user_id.                           *)
GetClotheByID(g, u) == status[g] # "absent" /\ userId[g] = u

(* Any subject names any garment.  Without the row, with another owner     *)
(* (404, 403), or when the SELECT fails, the request has changed nothing.  *)
RequireGarmentOwner(e) ==
    /\ edit[e] = NoEdit
    /\ \E g \in Garments, u \in Users :
          /\ GetClotheByID(g, u)
          /\ edit' = [edit EXCEPT ![e] = [garment |-> g, subject |-> u]]
    /\ UNCHANGED <<vars, userId>>

Reply(e) == edit' = [edit EXCEPT ![e] = NoEdit]

(* Whichever columns the two UPDATEs set, this is all they do to the       *)
(* columns of the pipeline: no condition on the present status.            *)
SetStatus(e, s) ==
    /\ edit[e] # NoEdit
    /\ UpdateStatus(edit[e].garment, s)
    /\ Reply(e)
    /\ UNCHANGED <<detections, bucketVars, topicVars, events, uploadVars, workerVars>>

(* UpdateStatus: the body must name one of the four statuses.              *)
PatchStatus(e) ==
    /\ \E s \in Statuses : SetStatus(e, s)
    /\ UNCHANGED <<imageUrl, userId>>

(* Mutants: the UPDATE of SaveClassification writes every field of the     *)
(* domain.Garment the handler built, which has no image and no user.       *)
PatchWithImage(e) ==
    /\ \E s \in Statuses : SetStatus(e, s)
    /\ imageUrl' = [imageUrl EXCEPT ![edit[e].garment] = FALSE]
    /\ UNCHANGED userId

PatchWithUser(e) ==
    /\ \E s \in Statuses : SetStatus(e, s)
    /\ userId' = [userId EXCEPT ![edit[e].garment] = NoUser]
    /\ UNCHANGED imageUrl

(* Mutant: an absent status is written as it is.                           *)
PatchWithoutDefault(e) ==
    /\ \E s \in Statuses \cup {""} : SetStatus(e, s)
    /\ UNCHANGED <<imageUrl, userId>>

(* SaveClassification: the labels, and the status of the body or, when it  *)
(* has none, "completed"; image_url and user_id are not among its columns. *)
PatchClassification(e) ==
    /\ \E s \in Statuses \cup {"completed"} : SetStatus(e, s)
    /\ UNCHANGED <<imageUrl, userId>>

(* The body is invalid, the UPDATE fails without effect, or the API dies.  *)
AbandonEdit(e) ==
    /\ edit[e] # NoEdit
    /\ Reply(e)
    /\ UNCHANGED <<vars, userId>>

----------------------------------------------------------------------------
EditNext(e) ==
    \/ RequireGarmentOwner(e) \/ PatchStatus(e)
    \/ PatchClassification(e) \/ AbandonEdit(e)

PipelineNext ==
    \/ \E g \in Garments : UploadNext(g) /\ OwnerOfInsert(g) /\ UNCHANGED edit
    \/ \E w \in Workers : WorkerNext(w) /\ UNCHANGED editVars
    \/ \E p \in Partitions : GroupNext(p) /\ UNCHANGED editVars

EditedVars == <<vars, editVars>>

EditedInit == Init /\ EditInit

EditedNext == PipelineNext \/ \E e \in Editors : EditNext(e)

EditedSpec == EditedInit /\ [][EditedNext]_EditedVars

(* Users need not edit anything; the rest is as fair as in GarmentPipeline.*)
EditedFairSpec == EditedSpec /\ Fairness

EditedTypeOK == TypeOK /\ EditTypeOK

----------------------------------------------------------------------------
(* A row belongs to its uploader for as long as it is there, and an owner  *)
(* that was checked before the UPDATE is still the owner when it runs:     *)
(* nobody changes a row through a check that has become stale.             *)
EditorIsOwner ==
    /\ \A g \in Garments : status[g] # "absent" => userId[g] = Uploader[g]
    /\ \A e \in Editors :
          edit[e] # NoEdit => /\ status[edit[e].garment] # "absent"
                              /\ userId[edit[e].garment] = edit[e].subject

(* JobImageAvailable and UploadIsResolved of GarmentPipeline are checked   *)
(* under edits too: no status a user writes makes a worker skip a job, and *)
(* no edit takes an analysed garment back.                                 *)
============================================================================
