---------------------------- MODULE EditingProofs ---------------------------
(***************************************************************************)
(* What PATCH requests leave true of the pipeline, for any number of       *)
(* users, editors, garments and workers.  Of the pipeline's variables an   *)
(* edit changes the status column alone, and the invariants behind the     *)
(* theorems about the pipeline do not read it.                             *)
(***************************************************************************)
EXTENDS GarmentEditing, CommitProofs, ContractProofs

(* All an edit does to the pipeline.                                       *)
StatusEdited ==
    /\ \E g \in Garments, s \in Statuses : UpdateStatus(g, s)
    /\ UNCHANGED <<imageUrl, detections, bucketVars, topicVars, events,
                   uploadVars, workerVars>>

LEMMA EditsOfPipeline ==
    ASSUME EditTypeOK, [EditedNext]_EditedVars
    PROVE  [Next]_vars \/ StatusEdited
<1>1. CASE UNCHANGED EditedVars
  BY <1>1 DEF EditedVars
<1>2. CASE PipelineNext
  BY <1>2 DEF PipelineNext, Next
<1>3. ASSUME NEW e \in Editors, EditNext(e)
      PROVE  [Next]_vars \/ StatusEdited
  <2>1. CASE RequireGarmentOwner(e) \/ AbandonEdit(e)
    BY <2>1 DEF RequireGarmentOwner, GetClotheByID, AbandonEdit
  <2>2. ASSUME NEW s \in Statuses, SetStatus(e, s), UNCHANGED imageUrl
        PROVE  StatusEdited
    <3>1. edit[e].garment \in Garments
      BY <2>2 DEF SetStatus, EditTypeOK, Edit
    <3> QED
      BY <2>2, <3>1 DEF SetStatus, StatusEdited
  <2>3. CASE PatchStatus(e)
    BY <2>2, <2>3 DEF PatchStatus
  <2>4. CASE PatchClassification(e)
    BY <2>2, <2>4 DEF PatchClassification, Statuses
  <2> QED
    BY <1>3, <2>1, <2>3, <2>4 DEF EditNext
<1> QED
  BY <1>1, <1>2, <1>3 DEF EditedNext

----------------------------------------------------------------------------
(* Type correctness.                                                       *)
LEMMA StatusEditedTypes ==
    ASSUME TypeInv, StatusEdited
    PROVE  TypeInv'
BY DEF StatusEdited, UpdateStatus, TypeInv, TypeOK, HandOK, Busy, Hand, StoresTypeOK,
   UploadTypeOK, WorkerTypeOK, bucketVars, topicVars, uploadVars, workerVars

LEMMA EditTypeStep ==
    ASSUME EditTypeOK, [EditedNext]_EditedVars
    PROVE  EditTypeOK'
<1> USE EditingAssumption DEF EditTypeOK
<1>1. CASE UNCHANGED EditedVars
  BY <1>1 DEF EditedVars, editVars
<1>2. CASE PipelineNext
  BY <1>2 DEF PipelineNext, OwnerOfInsert, editVars
<1>3. ASSUME NEW e \in Editors, EditNext(e)
      PROVE  EditTypeOK'
  <2>1. CASE RequireGarmentOwner(e)
    BY <2>1 DEF RequireGarmentOwner, GetClotheByID, Edit
  <2>2. CASE ~ RequireGarmentOwner(e)
    <3>1. Reply(e) /\ UNCHANGED userId
      BY <1>3, <2>2 DEF EditNext, PatchStatus, PatchClassification, SetStatus, AbandonEdit
    <3> QED
      BY <3>1 DEF Reply
  <2> QED
    BY <2>1, <2>2
<1> QED
  BY <1>1, <1>2, <1>3 DEF EditedNext

EditedInv == TypeInv /\ EditTypeOK /\ ImageInv

LEMMA EditedInvariant == EditedSpec => []EditedInv
<1>1. EditedInit => EditedInv
  BY InitTypeInv, InitImageInv DEF EditedInit, EditInit, EditTypeOK, EditedInv
<1>2. EditedInv /\ [EditedNext]_EditedVars => EditedInv'
  <2> SUFFICES ASSUME EditedInv, [EditedNext]_EditedVars
      PROVE  EditedInv'
    OBVIOUS
  <2>1. EditTypeOK'
    BY EditTypeStep DEF EditedInv
  <2>2. CASE [Next]_vars
    BY <2>1, <2>2, TypeStep, ImageStep DEF EditedInv
  <2>3. CASE StatusEdited
    <3>1. ImageInv'
      BY <2>3 DEF EditedInv, StatusEdited, ImageInv, Available, Recorded, Logged,
         Buffered, Subject, Hand, bucketVars, topicVars, uploadVars, workerVars
    <3> QED
      BY <2>1, <2>3, <3>1, StatusEditedTypes DEF EditedInv
  <2> QED
    BY <2>2, <2>3, EditsOfPipeline DEF EditedInv
<1> QED
  BY <1>1, <1>2, PTL DEF EditedSpec

(* Rows, requests and edits keep their types: in particular an edit never  *)
(* leaves a status the life cycle does not know.                           *)
THEOREM EditedTypeCorrect == EditedSpec => []EditedTypeOK
<1>1. EditedInv => EditedTypeOK
  BY DEF EditedInv, EditedTypeOK, TypeInv
<1> QED
  BY <1>1, EditedInvariant, PTL

(* Whatever status users write, and whatever fails, a job on its way finds *)
(* its image.                                                              *)
THEOREM EditedImageAvailable == EditedSpec => []JobImageAvailable
<1>1. EditedInv => JobImageAvailable
  <2> SUFFICES ASSUME ImageInv, NEW g \in Garments, NEW a \in 0 .. MaxAttempt,
                      Recorded([garment |-> g, attempt |-> a])
      PROVE  raw[g] \/ (imageUrl[g] /\ processed[g])
    BY DEF JobImageAvailable, EditedInv
  <2>1. [garment |-> g, attempt |-> a] \in Job
    BY DEF Job
  <2>2. Available(g)
    BY <2>1 DEF ImageInv
  <2> QED
    BY <2>2 DEF ImageInv, Available
<1> QED
  BY <1>1, EditedInvariant, PTL

(* What was answered 201 and is to be analysed keeps its row and its image,*)
(* whatever status and labels users write meanwhile: an edit never makes a *)
(* row disappear, nor an image.                                            *)
THEOREM EditedAcceptedKept == EditedSpec => []AcceptedIsKept
<1>1. EditedInit => KeptInv
  BY DEF EditedInit, Init, UploadInit, KeptInv
<1>2. EditedInv /\ KeptInv /\ [EditedNext]_EditedVars => KeptInv'
  <2> SUFFICES ASSUME EditedInv, KeptInv, [EditedNext]_EditedVars
      PROVE  KeptInv'
    OBVIOUS
  <2>1. CASE [Next]_vars
    BY <2>1, KeptStep DEF EditedInv
  <2>2. CASE StatusEdited
    <3>1. \A g \in Garments : status[g] # "absent" => status'[g] # "absent"
      BY <2>2 DEF StatusEdited, UpdateStatus, Statuses, EditedInv, TypeInv, TypeOK,
         StoresTypeOK
    <3> QED
      BY <2>2, <3>1 DEF StatusEdited, KeptInv, NeedsAnalysis, Available, bucketVars,
         uploadVars
  <2> QED
    BY <2>1, <2>2, EditsOfPipeline DEF EditedInv
<1>3. EditedInv /\ KeptInv => AcceptedIsKept
  BY DEF EditedInv, ImageInv, KeptInv, AcceptedIsKept, Available
<1> QED
  BY <1>1, <1>2, <1>3, EditedInvariant, PTL DEF EditedSpec

(* The invariant behind the commits does not read the status either.       *)
LEMMA EditedCommitInvariant ==
    ASSUME Trusted
    PROVE  EditedSpec => []CommitInv
<1>1. EditedInit => CommitInv
  BY InitCommitInv DEF EditedInit
<1>2. EditedInv /\ CommitInv /\ [EditedNext]_EditedVars => CommitInv'
  <2> SUFFICES ASSUME EditedInv, CommitInv, [EditedNext]_EditedVars
      PROVE  CommitInv'
    OBVIOUS
  <2>1. CASE [Next]_vars
    BY <2>1, CommitStep DEF EditedInv
  <2>2. CASE StatusEdited
    BY <2>2, CommitKept DEF StatusEdited, topicVars, workerVars
  <2> QED
    BY <2>1, <2>2, EditsOfPipeline DEF EditedInv
<1> QED
  BY <1>1, <1>2, EditedInvariant, PTL DEF EditedSpec

(* The offset of a record is committed only when the record is settled,    *)
(* though users write statuses under the consumer, as long as processes    *)
(* are not stopped and the producer delivers, or no call raises.           *)
THEOREM EditedCommitsSettled ==
    ASSUME Trusted
    PROVE  EditedSpec => []CommittedIsSettled
BY EditedCommitInvariant, CommittedIsDone, PTL

(* No edit makes the pipeline forget an upload that was answered 201: who  *)
(* still has to act on it is decided by records and threads, never by the  *)
(* status a user may write.                                                *)
THEOREM EditedAcceptedPending ==
    ASSUME Trusted, "drop" \notin Faults
    PROVE  EditedSpec => []AcceptedIsPending
<1>1. EditedInit => PublishedInv
  BY DEF EditedInit, Init, UploadInit, PublishedInv
<1>2. EditedInv /\ PublishedInv /\ [EditedNext]_EditedVars => PublishedInv'
  <2> SUFFICES ASSUME EditedInv, PublishedInv, [EditedNext]_EditedVars
      PROVE  PublishedInv'
    OBVIOUS
  <2>1. CASE [Next]_vars
    BY <2>1, PublishedStep DEF EditedInv
  <2>2. CASE StatusEdited
    BY <2>2 DEF StatusEdited, PublishedInv, NeedsAnalysis, Logged, topicVars, uploadVars
  <2> QED
    BY <2>1, <2>2, EditsOfPipeline DEF EditedInv
<1>3. EditedInv /\ CommitInv /\ PublishedInv => AcceptedIsPending
  BY PublishedIsPending DEF EditedInv
<1> QED
  BY <1>1, <1>2, <1>3, EditedCommitInvariant, EditedInvariant, PTL DEF EditedSpec

(* Edits included, nothing is analysed or dead-lettered that was not       *)
(* submitted, and no outcome is taken back: an edit does not clear the     *)
(* image_url of an analysed garment.                                       *)
THEOREM EditedPipelineIsSafe == EditedSpec => ImplementsSafeContract
<1>1. EditedInit => Contract!Init /\ ChainInv
  BY InitContract, InitChainInv DEF EditedInit
<1>2. StatusEdited => UNCHANGED Contract!vars
  BY DEF StatusEdited, topicVars, Contract!vars, Logged
<1>3. EditedInv /\ ChainInv /\ [EditedNext]_EditedVars
         => ChainInv' /\ [Contract!Next]_Contract!vars
  <2> SUFFICES ASSUME EditedInv, ChainInv, [EditedNext]_EditedVars
      PROVE  ChainInv' /\ [Contract!Next]_Contract!vars
    OBVIOUS
  <2>1. CASE [Next]_vars
    BY <2>1, ChainStep, StepContract DEF EditedInv
  <2>2. CASE StatusEdited
    BY <2>2, <1>2 DEF StatusEdited, topicVars, workerVars, uploadVars, ChainInv,
       Recorded, DeadLettered, Logged, Buffered
  <2> QED
    BY <2>1, <2>2, EditsOfPipeline DEF EditedInv
<1> QED
  BY <1>1, <1>3, EditedInvariant, PTL
     DEF EditedSpec, ImplementsSafeContract, Contract!SafeSpec

----------------------------------------------------------------------------
(* Ownership.  No step makes a row disappear, and only the INSERT of an    *)
(* upload makes one appear.                                                *)
Present(g) == status[g] # "absent"

LEMMA WorkerKeepsRows ==
    ASSUME TypeInv, NEW w \in Workers, WorkerNext(w), NEW g \in Garments
    PROVE  Present(g)' = Present(g)
<1> USE DEF TypeInv, TypeOK, StoresTypeOK, Present, UpdateStatus
<1>1. CASE MarkProcessing(w)
  BY <1>1 DEF MarkProcessing
<1>2. CASE SaveClassificationComplete(w)
  BY <1>2 DEF SaveClassificationComplete
<1>3. CASE ResetStatus(w) \/ FailStatus(w)
  BY <1>3 DEF ResetStatus, FailStatus, StatusAfterFailure
<1>4. CASE UNCHANGED status
  BY <1>4
<1> QED
  BY <1>1, <1>2, <1>3, <1>4 DEF WorkerNext, FetchAndAnalyse, FetchMissing,
     UploadProcessed, InsertDetection, DeleteRaw, CallFails, RetryJob, DeadLetterJob,
     ProduceRaises, StatusFails, Commit, Analizar, WorkerCrash, FlushAtExit,
     CloseDatabase, StopConsumer, ProcessGone, Restart, DeliverAnalysis,
     DeliverDeadLetter, DropRecord, storeVars, rowVars

LEMMA UploadKeepsRows ==
    ASSUME TypeInv, NEW g \in Garments, UploadNext(g), NEW h \in Garments
    PROVE  /\ Present(h) => Present(h)'
           /\ h # g => Present(h)' = Present(h)
<1> USE DEF TypeInv, TypeOK, StoresTypeOK, UploadTypeOK, Upload, Statuses, Present
<1>1. CASE CreateClothe(g)
  <2>1. upload[g].status # "absent"
    OBVIOUS
  <2> QED
    BY <1>1, <2>1 DEF CreateClothe
<1>2. CASE MarkFailed(g)
  BY <1>2 DEF MarkFailed, UpdateStatus
<1>3. CASE UNCHANGED status
  BY <1>3
<1> QED
  BY <1>1, <1>2, <1>3 DEF UploadNext, Register, CreateClotheFails, StageRaw,
     StageRawFails, MarkFailedFails, PublishAnalysisRequest,
     PublishAnalysisRequestFails, UploadCrash, storeVars, rowVars

OwnerInv ==
    /\ \A g \in Garments : userId[g] = IF Present(g) THEN Uploader[g] ELSE NoUser
    /\ \A e \in Editors :
          edit[e] # NoEdit => /\ Present(edit[e].garment)
                              /\ userId[edit[e].garment] = edit[e].subject

LEMMA OwnerStep ==
    ASSUME EditedInv, OwnerInv, [EditedNext]_EditedVars
    PROVE  OwnerInv'
<1> USE EditingAssumption DEF EditedInv, EditTypeOK, Edit, NoEdit
<1>1. CASE UNCHANGED EditedVars
  BY <1>1 DEF EditedVars, editVars, vars, storeVars, OwnerInv, Present
<1>2. ASSUME NEW g \in Garments, UploadNext(g), OwnerOfInsert(g), UNCHANGED edit
      PROVE  OwnerInv'
  <2>1. ASSUME NEW h \in Garments
        PROVE  userId'[h] = IF Present(h)' THEN Uploader[h] ELSE NoUser
    BY <1>2, UploadKeepsRows DEF OwnerInv, OwnerOfInsert, Present
  <2>2. ASSUME NEW e \in Editors, edit'[e] # NoEdit
        PROVE  /\ Present(edit[e].garment)'
               /\ userId'[edit[e].garment] = edit[e].subject
    <3>1. edit[e].garment \in Garments /\ Present(edit[e].garment)
      BY <1>2, <2>2 DEF OwnerInv
    <3>2. Present(edit[e].garment)'
      BY <1>2, <3>1, UploadKeepsRows
    <3> QED
      BY <1>2, <2>1, <2>2, <3>1, <3>2 DEF OwnerInv
  <2> QED
    BY <1>2, <2>1, <2>2 DEF OwnerInv, Present
<1>3. ASSUME UNCHANGED userId, \A g \in Garments : Present(g)' = Present(g),
             \A e \in Editors : edit'[e] \in {edit[e], NoEdit}
      PROVE  OwnerInv'
  BY <1>3 DEF OwnerInv, Present
<1>4. ASSUME NEW w \in Workers, WorkerNext(w), UNCHANGED editVars
      PROVE  OwnerInv'
  BY <1>3, <1>4, WorkerKeepsRows DEF editVars
<1>5. ASSUME NEW p \in Partitions, GroupNext(p), UNCHANGED editVars
      PROVE  OwnerInv'
  <2>1. UNCHANGED status
    BY <1>5 DEF GroupNext, PollJob, PollLegacy, Assign, Revoke, storeVars
  <2> QED
    BY <1>3, <1>5, <2>1 DEF editVars, Present
<1>6. ASSUME NEW e \in Editors, RequireGarmentOwner(e)
      PROVE  OwnerInv'
  BY <1>6 DEF RequireGarmentOwner, GetClotheByID, OwnerInv, Present, vars, storeVars
<1>7. ASSUME NEW e \in Editors, PatchStatus(e) \/ PatchClassification(e) \/ AbandonEdit(e)
      PROVE  OwnerInv'
  <2>1. UNCHANGED userId /\ Reply(e)
    BY <1>7 DEF PatchStatus, PatchClassification, AbandonEdit, SetStatus
  <2>2. \A g \in Garments : Present(g)' = Present(g)
    BY <1>7 DEF PatchStatus, PatchClassification, AbandonEdit, SetStatus, Present,
       UpdateStatus, Statuses, vars, storeVars, TypeInv, TypeOK, StoresTypeOK
  <2> QED
    BY <1>3, <2>1, <2>2 DEF Reply
<1> QED
  BY <1>1, <1>2, <1>4, <1>5, <1>6, <1>7 DEF EditedNext, PipelineNext, EditNext

(* However uploads, edits and workers interleave, a row stays with the     *)
(* user who uploaded it, and no update runs for anyone else.               *)
THEOREM EditsAreOwners == EditedSpec => []EditorIsOwner
<1>1. EditedInit => OwnerInv
  BY DEF EditedInit, EditInit, Init, StoresInit, OwnerInv, Present
<1>2. OwnerInv => EditorIsOwner
  BY DEF OwnerInv, EditorIsOwner, Present
<1> QED
  BY <1>1, <1>2, OwnerStep, EditedInvariant, PTL DEF EditedSpec

=============================================================================
