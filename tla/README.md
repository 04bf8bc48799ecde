# WeiCloth: TLA+ models and proofs

A formal model of the WeiCloth backend: the Go API (`src/GoClient`), the Python
analysis worker (`src/GoClient/services/vusion-ml`) and the stores they share.
The modules are translated from the code; external software (Kafka, librdkafka,
Keycloak, Postgres, the Go runtime) is modelled from how the code uses it.

## 1. The system

| Component | State | Operations |
|---|---|---|
| Garment upload: `clothe_handler.go` `Register`, `clothe_service.go` `RegisterClothe` | none of its own; a row of `clothes`, an object under `raw/`, a record in the analysis topic | INSERT, stage bytes, mark failed, publish job |
| Analysis worker: `kafka_consumer.py`, `kafka_gateway.py`, `app_factory.py` | consumer position, the record in hand, the producer's buffer | poll, UPDATE processing, read raw, run the models, upload PNG, UPDATE completed, insert detections, delete raw, retry, dead letter, commit; exit handlers |
| Stores: `db/init.sql`, `clothe_repo.go`, `db_gateway.py`, `uploader.go`, `s3_gateway.py` | `clothes`, `clothe_detections`, bucket, topics, committed offsets | the statements and calls above |
| User registration: `user_service.go`, `keycloak_adapter.go`, `user_repo.go` | Keycloak accounts, table `users` | create account, INSERT, roll back, announce |
| Event publisher: `producer.go` | map topic -> writer | look up, create, assign, write |
| Garment PATCH and read handlers: `clothe_handler.go`, `clothe_repo.go` | none of their own | check the owner, then UPDATE status or classification; SELECT |
| Recommendation engine, style preferences | table `user_style_preferences` | score and rank outfits; UPSERT |
| Login and Bearer middleware: `user_service.go`, `auth/middleware.go` | tokens in clients' hands | token request, userinfo check before every request |
| HTTP side of vusion-ml: `keycloak_client.py`, `routes.py`, `app_factory.py` | issuer, key client (with its cache of keys) and lock of the verifier; gunicorn's threads | lazy discovery with retries, token check, `/readyz`, `/healthz`, strict start-up |
| ML pipeline: `ml_pipeline.py` | loaded models | detect, segment, classify, compress |
| Wiring: `main.go`, `config.py`, `middleware.py` | none | start-up, health checks |

How they interact. `POST /clothes` inserts a row, puts the raw image in the
bucket and writes a job to the analysis topic, in that order and without a
transaction. A consumer thread of vusion-ml takes the job, works on the same row
and the same bucket, and commits the offset by hand. A failed attempt is
republished to the same topic with `attempt + 1`; after the third failure the job
goes to the dead-letter topic. `POST /analizar` writes records of another shape
to the topic the consumer reads. Registration spans Keycloak, Postgres and Kafka
with a compensating delete. All HTTP requests are goroutines that share one
`Producer`.

What is hard: three stores without a transaction; an asynchronous producer
without delivery callback behind a synchronous commit; redelivery after crash,
rebalance or lost commit; several consumers; exit handlers that stop the
producer before the thread that uses it; lost replies behind a rollback; an
unlocked map; owners who edit a row that a worker is writing; tokens issued for
accounts that are rolled back; a lock held through minutes of retries. `PROJECT.json` lists each
hazard at its line, with the properties that watch it.

What makes each part correct: no accepted upload is forgotten and none
is committed unfinished (worker); the row never promises an image that is not
there (stores); a failed registration leaves nothing and a reported success
leaves both halves (registration); no garment without a whole owner (sessions);
one writer per topic (publisher); one discovery, never half done, and a health
check that is always answered (verifier).

## 2. The modules

| Module | What it is |
|---|---|
| `GarmentStores` | the shared stores: rows, bucket, topics, committed offsets; the fault kinds |
| `ClotheService` | one upload request per garment, one action per external call |
| `AnalysisWorker` | one consumer thread per process, its producer, its group and its exit |
| `GarmentPipeline` | the two composed over the stores; properties, fairness, refinement |
| `GarmentEditing` | the pipeline with PATCH requests of owners on the same rows |
| `AnalysisContract` | the abstract promise: submitted, then analysed or dead-lettered |
| `UserRegistration` | overlapping registrations |
| `UserSessions` | logins, token checks and a garment INSERT on top of the registrations |
| `AccountRegistry` | the abstract promise: registration as one atomic step |
| `ProducerPool` | the unlocked map of writers under concurrent requests |
| `TokenVerifier` | threads of vusion-ml, its lazily loaded verifier, health checks and start-up |
| `OutfitScores` | the scoring rules of the recommendation engine, in exact whole numbers |
| `Recommendations` | the request that ranks outfits, with rows and preferences that change around it |
| `MC*` | instances: symmetry of requests, a catalogue of garments |
| `*Proofs` | theorems and their proofs |

### GarmentStores, ClotheService, AnalysisWorker, GarmentPipeline

`status`, `imageUrl` and `detections` stand for the columns and rows the two
programs write; `raw` and `processed` for the two objects of a garment; `log`,
`committed` and `dlq` for the topics. Names, classification columns, error
texts and timestamps are left out: no control flow of the pipeline reads them.
`upc[g]` and `wpc[w]` are program counters: each names the external call that
the request, or the thread, makes next. Everything between two calls is local,
so one action per call keeps all the interleavings that other processes can
see. A call that raises may have taken effect first (`Call` picks either
outcome after the effect; `CallFails` is the raise without effect).

The worker's consumer is three things: `owner[p]`, whose partition it is;
`pos[p]`, how far its owner polled; and `committed[p]`. An assignment starts at
the committed offset, as the group does with `auto.offset.reset = earliest`. A
commit by a consumer that lost the partition has no effect. `outbox[w]` is the
librdkafka buffer: `Produce` only appends to it, and `Deliver*` or `DropRecord`
take from it in any order, because the buffer sends per partition.

The partition of a record is any partition: the Go writer balances by bytes, and
Python retries hash the user id, so a retry may be anywhere. Every fault kind is
an element of the constant `Faults`, so a configuration says exactly which
failures it allows. `"call"` is always available when chosen; the others
(crash, shutdown, rebalance, duplicate, foreign record) are counted by `events`
up to `MaxEvents`.

`DELETE` of a row does not exist in the code; the bucket lifecycle rule that the
worker's README recommends (expire `raw/` after a day or two) is configuration
outside the code and not modelled. The audit record and the request id carry no
state.

### UserRegistration

`accounts` and `users` name what a request created; `pc[r]` is its next call or
its outcome. `failed` and `orphaned` are the two errors the client can tell
apart. The access token that precedes each Keycloak call is part of the call: it
fails without effect.

### GarmentEditing

A PATCH is two statements: `requireGarmentOwner` SELECTs the row and compares
its owner (`RequireGarmentOwner`), then, after validation of the body, one UPDATE
runs whatever the status has become. `edit[e]` holds what a handler keeps in
between. `SaveClassification` writes the labels and a status, by default
`completed`, and touches neither `image_url` nor `user_id`: on the pipeline's
columns both PATCHes do the same, and `PatchStatus` and `PatchClassification` differ in
their inputs. Labels, `processing_error` and the audit event are left out.

### UserSessions

A session is a client: `token[s]` is the account its token was issued for, and
`Authenticate` is the call to userinfo that `BearerMiddleware` makes before every
request. Between that answer and the INSERT of a garment, the registration of
the same account may roll back. The foreign key `clothes.user_id` is the guard of
`InsertGarment`. `BearerMiddleware` answers 401 as well when Keycloak cannot be
reached, which changes nothing here.

### TokenVerifier

`_bootstrap` is the steps `EnterBootstrap` (the lock and the check under it),
`DiscoverSucceeds` and `DiscoverFails` (one pass of the loop); the lock is taken
by every caller, also when the client is there. `OnThread` are the
requests that hold one of the gunicorn threads, `backlog` those that wait for
one. An attempt that fails may have set `issuer` already. `reachable` says that
Keycloak answers with the realm imported, and changes at any moment.

A token check goes on to `get_signing_key_from_jwt` (`keycloak_client.py:74`), also
when the client was made by a strict start. `PyJWKClient` is a library, modelled from
its use here and marked external: `keys` says that its cache holds a set of keys.
`LookUpKey` answers from the cache; `FetchKeys` fetches the set when there is none or
its life span is over (`KeysExpire`); `RefreshKeys` fetches it once more when the key
of the token is not in it. A fetch fails while Keycloak is away, and is not retried.
No lock is held, so several threads may fetch at once. A check therefore waits for at
most two fetches, and nothing says that requests do not wait for Keycloak.

The signature and the claims of a token and the other dependencies of `/readyz` are
the choice of an answer in `Respond`; in the strict start-up they are the choice
between `StartServing` and `StartFails`. `waited` and `fetched` are history variables:
how many attempts, and how many fetches, passed while a probe had no thread.

### ProducerPool

The map assignment takes two steps, between which the runtime's flag is set, so
another access of the map either passes or kills the process (`fatal`).
An access that the runtime does not detect is taken as atomic. Go does not promise
that: an undetected race may also lose an entry, so `WritersAreBounded` speaks of the
runtime as modelled. `PublishBatch` and `Publish` share the lookup. `Close` is not an action: `main`
defers it behind `r.Run`, which does not return.

### OutfitScores, Recommendations

`OutfitScores` has one operator per scoring function, and the tables of the Go
files as records. Go computes in `float64`; here a compatibility is in hundredths
and a score counts units that every average divides, so the arithmetic is exact
and two outfits tie when their real scores are equal. `sort.Slice` is not stable
by contract: `Ranked` is the set of all orders it may produce, and `Recommend`
takes any of them. Labels are the normalised ones; the texts of the reasoning
(`describeColorHarmony`, `outfitName`, `buildDescription`) are left out.

`Recommendations` keeps the arrival of a request (`Ask`) and the two queries of
`GetRecommendations` apart: `listed` is the wardrobe as the first one saw it, and the
preferences are those of the moment of the second. `completed` holds rows, a garment with
its labels, one for a garment. At any moment a garment is completed, relabelled by
`SaveClassification` or a second worker (`Reclassify`), or taken back to processing by a
redelivered job, and an UPSERT may replace the preferences. `moments` is a history
variable: the wardrobes there have been since the request arrived. A user without a row
and a user with empty lists are one case, because the engine treats them alike.

## 3. The runs

`CHECK_DEADLOCK FALSE` is in the configurations of the protocols because the
system really stops: when every upload is answered and every record is
committed, nothing is left to do until a new request arrives, and requests are
finite in number. What must not stop is the subject of the liveness runs.

| Run | Bounds | What it shows |
|---|---|---|
| `pipeline_group` | 1 garment, 2 partitions, 2 workers, attempts 0..1, 1 event | `CommittedIsSettled`, `FailedIsDeadLettered` and `AcceptedIsPending` (no upload that was answered 201 is forgotten) in a group with rebalances and late commits |
| `pipeline_any_fault` | 1 worker, all nine fault kinds, 1 event, uploads that ask for queued, processing or failed | what no fault breaks: types, `JobImageAvailable`, `AcceptedIsKept` (a 201 has its row and image though the publish was lost), the order of attempts, the safety half of the contract |
| `pipeline_live` | 1 worker, attempts 0..2, calls that raise, rebalance, duplicate, lost commit, foreign record, 1 event | `UnfinishedIsPending`, `UploadIsResolved`, `ImplementsContract` |
| `pipeline_live_crashes` | `GarmentEditing`: 2 garments of 2 users, 1 partition, 1 crash of a worker, rebalance or lost commit, crashes of requests, 1 PATCH at a time | `UploadIsResolved` and `CommittedIsSettled` across restarts and edits; `JobImageAvailable` under edits; `EditorIsOwner` |
| `registration` | `UserSessions`: 3 requests, 2 addresses, 1 session, calls that fail, crashes | rollback, completeness, `ImplementsRegistry`; `OwnersAreComplete` |
| `producer_pool` | 4 requests, 2 at once, 2 topics | the leak is bounded by the requests in flight |
| `token_verifier` | 3 requests, 2 threads, 2 attempts, strict and lazy start-up, Keycloak up and down, keys that expire | `ClientIsKept`, `ClientHasIssuer`, `StrictWaitIsShort` (after a strict start only fetches of keys are waited for), `ProbeWaitIsBounded`, `ProbeIsAnswered`, `HealsAfterOutage` |
| `recommendations` | 5 garments, two of them with two sets of labels, 3 queries, 2 preferences, 3 wardrobes during a request | the answer is that of an exhaustive search of one wardrobe the user had during the request, `BestAreShown`; `PlacesMatterOnlyForSeasons` |

Why the bounds are enough. The smallest instance in which each hazard occurs
is: one job and a redelivery (one garment, one event); two consumers that hold
records of one garment (retry and original in two partitions); a record behind a
crashed one (two garments, one partition). Attempts go to 2 as in the code
wherever the limit matters, and to 1 where only "a retry exists" matters.
Three requests over two addresses give two that compete and one that does not.
One session can log in to each of them in turn. One editor is enough for an UPDATE
between any two steps of the pipeline. With two threads and three requests, a
probe waits behind one thread that retries and one that waits for the lock, or two
that fetch keys; two attempts are a first that fails and a last. Three wardrobes are
one before the list is read, one that is read and one after it, and five garments make
more outfits than the default limit.
The theorems of section 5 hold for all sizes.

### Violations

Each run named `find_*` checks one sentence of the repository's own documents or
comments, and TLC finds a behaviour of the code that breaks it:

| Run | Sentence | Behaviour |
|---|---|---|
| `find_shutdown` | "offset is committed only after successful processing" (`kafka_consumer.py:52`) | exit flushes the producer first; the thread fails a job, buffers the retry, commits |
| `find_redelivery` | life cycle ends in completed (`clothe_repository.go:13`, `Process.md:325`) | crash between UPDATE and commit; the redelivered job sets the completed row to processing (the raw image it needs is deleted) |
| `find_registration` | "RegistrationFailed --> Unregistered" (`Process.md:364`) | the reply, not the call, is lost |
| `find_producer` | "each topic gets its own batching and connection pipeline" (`producer.go:48`) | two first publishes, two writers |

The passing runs of the same properties show how far the promise does hold:
`CommittedIsSettled` without lost records and early exits, or without calls that raise,
`FailedIsUnregistered` without lost replies.

### Limits of the promises

Further faults are in the model, each switched on by an element of `Faults` or by
the size of a constant, and the properties below do not hold with them. The
configurations of section 3 leave them out, and this is what they leave out:

- `"enqueue"`, the producer's queue is full when a retry is due
  (`kafka_consumer.py:73`): `run` logs the exception and polls on, and the commit of
  the next record passes over the one that was skipped. `CommittedIsSettled` and
  `AcceptedIsPending` fail, given a call that raises.
- `"drop"`, a buffered record times out (`kafka_gateway.py:44`, no delivery
  callback): the row says failed and no dead letter exists. `FailedIsDeadLettered`
  fails, and so do `AcceptedIsPending` and `UploadIsResolved` for a lost job.
- `"crash"` together with `"call"`: a retry still in the producer's buffer dies with
  the process after the offset of its predecessor was committed
  (`kafka_consumer.py:72`). `CommittedIsSettled`, `AcceptedIsPending` and
  `UploadIsResolved` fail. Each of the two kinds alone does no such harm: theorems
  `CommitsSettled` and `CrashesSettled`.
- two workers, for `UnfinishedIsPending`: the retry is published before the row is
  reset to queued (`kafka_consumer.py:147-154`), so a second consumer may complete
  the garment first and the reset then overwrites completed for good. The compose
  file runs one worker.
- `AcceptedStatuses` with `"completed"`: the form of `POST /clothes`
  (`clothe_handler.go:58`) takes any of the four statuses, although the port
  expects queued or processing (`clothe_repository.go:10`).
- `"lostReply"` in registration: `HalfMadeIsReported` and `FailedIsUnregistered`
  fail; `CreatedIsComplete` does not (theorem `CreatedCompletes`).

- edits, for the properties that read the status column: an owner may write
  `completed` into a row without image, or `queued` into one that nobody will take
  up, so `CompletedHasImage`, `UnfinishedIsPending` and `FailedIsDeadLettered` are
  stated without PATCH requests. A late or redelivered worker overwrites labels
  the owner saved, and an edit leaves an old status reason standing; no document
  says otherwise, and the labels are not in the model.
- an account that could not be rolled back can log in, and so can one that is about
  to be: `OwnersAreComplete` says only that it never owns anything. It fails with
  `"lostReply"`, where a rollback deletes the account of a row that exists.
- in a lazy start-up (`MIDDLEWARE_STRICT_STARTUP=false`) and an outage, the bound of
  `ProbeWaitIsBounded` is 40 attempts of up to 13 seconds for each request in front
  (`config.py:106-108`), while the container's health check waits 5 seconds
  (`docker-compose.yml:263`). The property says that the wait ends, not that it is short.
  After a strict start the fetches of keys remain (`StrictWaitIsShort`): two for each
  request in front, each up to the timeout of the library.
- a request that waits for the lock of the verifier may be passed over for ever by
  others: `threading.Lock` promises no order, and no property says that a token
  request is answered while others keep coming.

## 4. Fairness

`FairSpec` of the pipeline assumes weak fairness of: a request's steps once it
has begun (a goroutine runs to its end); the consumer thread (its loop polls
without end); delivery by the producer's background thread; the exit handlers,
once the exit has begun; the restart of a stopped process; the assignment of a
free partition by the group. The container is restarted by its orchestrator, and
that is an assumption about the deployment rather than the code. No fault is
fair, and no PATCH is: owners need not edit. The compose file has no `restart:`
policy, so after a crash of vusion-ml it is a person or another orchestrator that
restarts it. Since faults are bounded by `MaxEvents`, a worker that crashes for
ever is excluded; a call that fails for ever is not, and leads to the dead
letter. Registration assumes that a request that began runs to its end unless
its process dies. In `TokenVerifier` each thread goes on with what it has in hand,
a queued request gets a free thread when it is its turn, the main thread finishes its
start-up, and a container that went down is started again; nobody is promised
the lock, and Keycloak may stay away for ever except where `HealsAfterOutage`
assumes that it returns.

`UploadIsResolved` is checked without `drop`: a job whose publish fails is only
logged by design, and the row then stays queued.

## 5. The proofs

| Theorem | Module | Holds under |
|---|---|---|
| `TypeCorrect` | `GarmentPipelineProofs` | all faults |
| `ImageAvailable` | `GarmentPipelineProofs` | all faults |
| `ImageBeforeCompleted` | `GarmentPipelineProofs` | all faults, no upload asks for `completed` |
| `AcceptedKept` | `GarmentPipelineProofs` | all faults |
| `CommitsSettled` | `CommitProofs` | no crash, shutdown, full queue or lost record |
| `CrashesSettled` | `CommitProofs` | no call that raises, no shutdown; crashes, a full queue and lost records are allowed |
| `AcceptedPending` | `CommitProofs` | the conditions of `CommitsSettled` or those of `CrashesSettled`, and no lost record |
| `FailuresDeadLettered` | `CommitProofs` | no crash, shutdown, full queue or lost record |
| `UnfinishedPending` | `CommitProofs` | one consumer, no crash, shutdown, full queue or lost record |
| `AttemptsChained` | `ContractProofs` | all faults |
| `PipelineIsSafe` | `ContractProofs` | all faults |
| `CreatedCompletes` | `UserRegistrationProofs` | all faults |
| `FailureLeavesNothing` | `UserRegistrationProofs` | no lost reply |
| `HalvesReported` | `UserRegistrationProofs` | no lost reply |
| `RegistrationIsAtomic` | `UserRegistrationProofs` | no lost reply |
| `OwnersComplete` | `UserRegistrationProofs` | no lost reply, any number of sessions |
| `EditedTypeCorrect`, `EditedImageAvailable`, `EditedAcceptedKept`, `EditedPipelineIsSafe`, `EditsAreOwners` | `EditingProofs` | all faults, any number of editors |
| `EditedCommitsSettled` | `EditingProofs` | the conditions of `CommitsSettled` or those of `CrashesSettled` |
| `EditedAcceptedPending` | `EditingProofs` | the conditions of `AcceptedPending` |
| `WritersBounded` | `ProducerPoolProofs` | any set of requests |
| `TypeCorrect`, `ClientNeedsIssuer`, `StrictWaitsShort`, `DiscoveredOnce`, `ProbeWaitsBounded` | `TokenVerifierProofs` | any number of requests, threads and attempts |
| `BestShown`, `PlacesMatter` | `RecommendationsProofs` | any finite wardrobe, any preferences and limits |

All are for any set of garments, partitions, processes, requests and addresses,
any attempt limit and any number of events. The assumptions on the constants
are the named `ASSUME`s of the modules, which TLC evaluates in every run.

The argument. None of the invariants is inductive alone.

- `TypeInv` adds to the types that a busy thread has in hand a job that the log
  holds at the offset it remembers (`HandOK`); it needs that logs only grow
  (`LogGrows`). The bound on `attempt` is the interesting part: it needs the test
  in the `except` branch.
- `ImageInv` strengthens `JobImageAvailable` to the threads: what a thread knows
  of the image at each of its calls. The raw object may be deleted only at the
  end of a record whose row already names the processed image.
- `CompletedInv` adds that no thread or upload is about to write `completed`
  without the image.
- `CommitInv` says, per partition, that the committed prefix is done, that
  everything the owner polled is done but the record in its hand, and that
  everything below any record in any hand is done. The last clause is needed
  because a thread that lost a partition and got it back may still commit an old
  record. "Done" is what nothing can undo: settled, where buffers survive (`Reliable`);
  the image in its row, where they may not. In the second environment no call raises
  (`CallsSucceed`), so a thread comes to the `except` branch only when the staged
  bytes are gone, and by `ImageInv` its garment has its image then. The step of a
  commit is one proof for both.
- `AcceptedPending` adds `PublishedInv`: the first record of an accepted upload is in the
  log for good. The last attempt that was logged is uncommitted, or done by `CommitInv`,
  and then it leaves an image, a dead letter, or a next attempt that is still in a buffer.
  That a last one exists is shown by counting (`LastAttemptExists`), not by induction.
- `PendInv` is behind `UnfinishedPending`: an unfinished row has a record that no
  consumer has come to (`FreshRecord`), one in a buffer, its dead letter, or a thread
  that has still to decide (`InHand`). Its thread clauses say that a row is completed while the
  detections are inserted and that the retry is ahead before the row is reset, which a
  second consumer could disturb.
- `KeptInv` carries the row and the image through the points of a request up to its
  201; that no step of any worker takes an image away is `FlagsKept`.
- `FailInv` adds the thread that is about to write failed: it holds the job's last
  attempt, and handed the dead letter to the producer one step before. A failed row of
  any other origin belongs to an upload that asked for it or that ended in an error. It
  needs `CommitInv`'s premise that buffers survive.
- For the edited pipeline every step is a step of the pipeline or a bare change of the status
  column (`EditsOfPipeline`); the invariants above that do not read that column
  carry over, and that is the proof.
- `WritersBounded` counts requests: at most `MaxInFlight` are in flight, so as long as a
  topic has no writer in the map, all who made one for it are among them (the ones that
  missed in the lookup and have not finished their assignment); once the map has a writer, only those
  that missed before can still make one (`PoolInv`).
- In `TokenVerifierProofs`, the invariant is the properties together with `LockHeld`
  (only the holder of the lock is in the loop, and the client is unset meanwhile) and
  `Booting` (no request holds a thread before the start-up is over).
- `WaitInv` bounds the wait by what is still in front: the attempts a request has
  waited through, plus a full round for each request that may still discover, less what the
  holder of the lock has tried already, never exceed a round for every other request
  (`InFront`, with `LoopPoints`). A request leaves that set when it has the client or its
  error, and never enters it again. `FetchInv` is the same count for the two fetches of a
  token check (`KeyPoints`, `RefreshPoints`). Both rest on `Queueing`: a request that waits
  has its place in the backlog, and only requests before it, or on a thread, are in front.
- `StrictWait` is behind `StrictWaitsShort`: after a strict start the client is there, no
  request enters the loop, and the wait is what `FetchInv` leaves.
- `PlacesMatter` rests on a closed form of each of the six scores of three garments;
  five of them are symmetric because their tables are (`PartsSymmetric`), and
  two swaps make every order.
- `RankedIsBest` is about every order that `sort.Slice` may leave and every cut of it:
  an order of a finite set is a bijection, so what is cut off comes later in the order and
  scores no more. Scores stay abstract in it. `WardrobeInv` says that the list read is one
  of the wardrobes that the request lived through.
- `ChainInv` gives every job of a chain its predecessor and its first record in
  the log. The refinement maps `submitted` to the garments whose first record is
  logged.
- `Halves` says which halves of a user exist at each point of its request, the
  clauses conditioned on the faults that would break them.

Only model-checked: the liveness properties (`UploadIsResolved`,
`ImplementsContract`, `AddressIsDecided`, `ProbeIsAnswered`, `HealsAfterOutage`),
since temporal proofs under fairness are out of the prover's reach. Every invariant and
action property of a passing run is a theorem. The properties of the `find_*` runs
are false without the conditions of section 3.

## 6. Not modelled

- The read handlers and `UpdateUser`: the first change no state, the second is
  routed nowhere.
- Audit records and the `user.logged_in` event: their failure is only logged and nothing
  reads them. The audit record of a saved classification has an empty user id.
- The labels of a garment in the pipeline: no control flow reads them there.
- The numerics of images and models (`ml_pipeline.py`): `run_pipeline` is one
  step that finds some detections or raises.
- Which boxes Postgres refuses (NUMERIC(10,4) with `CHECK bbox_w > 0`): the INSERT
  of a detection may raise on every attempt, which is what the pipeline sees of it.
- Configuration and wiring; the switches that change behaviour are the constants
  `AnalysisEnabled` and `BootstrapAttempts` and the variable `strict`.
- HTTP validation below the level of accepted or rejected.

## 7. Plan

Done: the stores, the upload, the worker, their composition and contract,
registration, the publisher, the recommendation engine with the style
preferences, the PATCH handlers on the pipeline, logins and token checks on the
registrations, the Python verifier with its threads, and the theorems of section 5.

Next, proving:
1. what a completed row needs to stay completed: without redelivery, and with uploads that
   ask for queued, `CompletedIsFinal` should hold for any number of consumers;
2. the serial publisher: with one request in flight, one writer per topic and no fatal
   map access, so that the race is the only cause of the finding;
3. the range of the scores of an outfit.
