# Job Autofill Copilot: TLA+ models, checks and proofs

The program is a FastAPI backend (`src/backend/api`) that stores resumes and answer templates, indexes them in a
vector database, and generates answers for job application forms. PostgreSQL, Qdrant, Redis, S3 and a Celery queue
each hold a part of its state, and no transaction spans two of them. This directory holds TLA+ specifications of its
components, the TLC configurations that check them, and proofs checked by TLAPS.

Run in this directory:

    tlc -workers 2 -config ResumeParse.cfg MCResumePipeline     # one run; PROJECT.json lists them all
    tlapm ResumePipelineProofs.tla                              # one proof module

## 1. Inventory

| Component | Source (under `src/backend/api`) | State | Operations | Module |
|---|---|---|---|---|
| Resume pipeline | `routers/resume.py`, `workers/tasks.py`, `rag/ingestion.py` | `resumes`, `parsed_resume_data`, S3 object, `resume_chunks` points, task queue | upload, parse task, delete; list, get and set-primary | `ResumePipeline`, `ResumeLifecycle` |
| Templates | `routers/templates.py`, `rag/ingestion.py` | `templates`, template points, row locks | create, update, set-default, delete, list | `TemplateStore` |
| Shared clients | `db/redis_client.py`, `db/qdrant_client.py`, `main.py` | module globals, collections | init, close, get | `SharedClients` |
| User accounts | `routers/users.py` | `users`, every point of the user | webhook, `/me`, delete account | `Accounts` |
| Authentication | `core/auth.py` | the key set in Redis | verify a token | `Accounts` |
| Chunking | `rag/chunker.py` | none (pure) | `chunk_text` and one chunker per document kind | `Chunker` |
| Embedding cache | `rag/embeddings.py` | Redis keys with expiry | `embed_text`, `embed_batch` | `Ingestion` |
| Ingestion | `rag/ingestion.py` | points, `qdrant_point_ids` | ingest a resume, a template, an answer, a job description | `Ingestion` |
| Applications | `routers/applications.py` | `applications`, `application_answers` | create, update status, bulk save, ingest answer; list | `Applications` |
| Retrieval and search | `rag/retrieval.py`, `db/qdrant_client.py` | none of its own | `retrieve_context`, `QdrantHelper.search` | `Retrieval` |
| Answer generation | `agents/answer_generation.py`, `routers/agents.py` | none | `generate`, `generate_batch` | `AnswerGeneration` |
| Form understanding | `agents/form_understanding.py` | none | `understand` | `FormUnderstanding` |
| Resume extraction | `agents/resume_extractor.py` | none | `extract` | `ResumeExtraction` |
| Application memory | `agents/application_memory.py` | answer points | search, record | `Agents`, `Ingestion` |
| Agent endpoints | `routers/agents.py` | none | the four above, as requests | `Agents` |
| Health, middleware, logging, configuration, migrations | `routers/health.py`, `middleware/`, `core/`, `alembic/` | none | - | not modelled |

How they interact. Routers share one PostgreSQL session per request (`db/session.py`) and the process-wide Redis and
Qdrant clients. The resume router hands the parse task to Celery, or to FastAPI background tasks in development, and
sees it again only through the rows the task writes. The ingestion functions are the only writers of points; template
and answer routers call them within the request, the resume worker after the request. Answer generation reads what
they wrote, through retrieval.

What is hard, and what correctness means there:

- **Resume pipeline** (three stores written in turn; workers crash, retry and overlap; deletes arrive at any time):
  a complete resume is indexed exactly as its stored parse; a resume in processing is never forgotten while retries
  are left; a delete is final; a visible resume has its file; tasks end.
- **Templates** (requests interleave at each await, hold row locks, deadlock, and fail between stores): one default
  and no loss of it; points are those of the stored text; requests end.
- **Shared clients** (jobs initialise and close the globals that others use): nobody is handed a closed client; while
  the API serves, every collection exists, and none loses its indexes but by a failure while they are made.
- **Accounts** (repeated and late webhooks; purge and flag in separate steps, racing ingestion; keys that rotate under
  a cache): one account per person, deletion is final, a purge leaves nothing but what is explained, withdrawn keys are refused.
- **Ingestion** (batches mix cached and new vectors, keys expire, stores fail by half): every chunk has its own vector,
  and every word of a document is in a chunk of its own part.
- **Applications** (overlapping saves write single columns): no duplicate answers, no mixed provenance, a submitted
  application has its time.
- **Agents** (concurrent searches and model calls, a model that may reply anything): the user's own chunks within the
  budget and nothing better passed over, answers that belong to their questions, invented figures flagged, forms complete, extracted facts checked.

`PROJECT.json` lists every such hazard with its line and the properties that cover it.

## 2. Plan

Done: the models of every component above. Each has one run that asks its questions together, except the resume
pipeline, which needs three environments (Celery with crashes, redelivery, development).

Proved for every value of the constants: every invariant and action property the passing runs check. The lemmas about
sequences, their ranges and their sums that several of these proofs need are in `SequenceLemmas`. A sum is a fold, which
the library leaves as a recursive function: `FoldIsSum` relates it to its partial sums by induction over a set of numbers
(`CountUp`), the one kind of induction within reach.

What would come next: the primary flag of resumes (`set_primary_resume`), which has row locks but no index, and which
nothing in `src/` reads.

## 3. Resume pipeline

### Module and code

`ResumePipeline` follows one user's resumes. Every query of the code is scoped to one user, and distinct users share
no row, key or point. A request's new id is `uuid4`, so an upload request and the resume it would create share one
identifier.

| Variables | Code |
|---|---|
| `upload`, `content` | the step of each `upload_resume` request, the file (and `content_hash`) |
| `storage` | the S3 object under `storage_key` |
| `status` | `resumes.parse_status`, `"absent"` without a row |
| `saved`, `pointIds` | `parsed_resume_data.parsed_json` and `.qdrant_point_ids` |
| `vectors` | Qdrant points whose payload names the resume |
| `queue` | copies of each task message in the broker |
| `wpc`, `msg`, `json`, `seen` | the step, message and locals of each worker's `parse_resume_async` |
| `del` | the step of each resume's `delete_resume` request |
| `outcome`, `crashes`, `losses` | history and bounds |

One action is one stretch of code between two awaits that touch shared state: `CheckDuplicate`, `PutFile`,
`InsertRow`, `Dispatch` for upload; `Fetch`, `MarkProcessing`, `Download`, `Extract`, `SelectParsed`, `SaveParsed`,
`ClearVectors`, `UpsertVectors`, `RecordPoints`, `MarkComplete`, `Ack` for the task; `StartDelete`, `DeleteFile`,
`DeleteVectors`, `DeleteRow` for delete. `AbortUpload` and `AbortDelete` stand for any failing call and for the end of
the API process; `Raise` for any exception in the task. Retried tasks are published with one more retry by
`autoretry_for`. `Crash`, `Redeliver` and `Restart` are a lost worker, a redelivery behind a worker that still runs, and
the end of the development server.

Details of the code that the guards keep:

- An UPDATE of a row that is gone matches nothing and is no error (`SetStatus`, `RecordPoints`). Saving the parse is
  an ORM change: an INSERT needs the resume (foreign key) and no other parse (unique `resume_id`), an UPDATE must match
  the row loaded by `SelectParsed`, and an unchanged value sends no statement (`CanSave`). Where `CanSave` fails the
  commit raises, which is `Raise`.
- Qdrant's upsert replaces points of the same id and keeps others. Ids are derived from resume, section and position
  (`chunker.py:66`), so a shorter parse leaves points of a longer one unless they are cleared first. Two parses, one
  with two chunks and one with the first of them only, make this visible.
- `Extract` lets the language model answer anything: two executions of one task may get different parses. An answer
  that is not JSON becomes an empty result, not an error.
- A failing S3 delete is logged and ignored.

Assumptions made about the environment: publishing a retry succeeds and is atomic with the acknowledgement of the
message it replaces, unless `MaxLosses > 0` (a message published twice is a redelivery behind its worker); one delete
request at a time per resume; the broker keeps its messages. A file is refused for type or size before anything is
stored, so such requests are left out. Reads (`list`, `get`) change nothing and are left out.

`ResumeLifecycle` is what the owner of a resume may rely on: *absent, pending, processing, complete*, with the parse,
its points and the recorded ids published in one step and withdrawn before any change, then *deleting, deleted*.
`ResumePipeline` maps `shown` to `status` overridden by `del`, and `published` to what the three stores hold while the
resume is shown as complete. `LifecycleSpec` says the pipeline implements it. A resume whose delete failed half way stays *deleting* there, although `list` and `get`
still show its parse status.

### Runs

`full` and `short` are two parses unless said otherwise. `MaxCrashes` and `MaxLosses` bound faults. `MaxRetries` is 3 in the
code and in `ResumeParse`. Deadlock is not checked: requests are served once and the system stops.

| Run | Bounds | Shows |
|---|---|---|
| `ResumeParse` | 1 resume, 2 workers, 3 retries, 2 crashes, fair | `TypeOK`, `RowHasFile`, `CompleteIsIndexed`, `ProcessingIsCarried`, refinement of `ResumeLifecycle`, the inductive `IndexInv`, and `TasksEnd` |
| `ResumeOverlap` | 1 resume, 2 workers, 1 retry, 1 redelivery | what survives overlapping executions: the inductive `RowInv`, `DeletedStaysDeleted` |
| `ResumeDevelopment` | 3 uploads of one file, 1 background task at a time, 1 restart, one parse, at most two requests in progress (`TwoRequests`) | no Celery, duplicate rows: `RowHasFile`, `DeletedStaysDeleted` and refinement for every resume |

Why these bounds suffice: resumes interact only through the duplicate check and through wrongly scoped deletes, and the check
has three outcomes (no row, one, several), so three uploads reach them all. Development has no retries, so a resume is
parsed once and one parse is enough there. Two workers give every overlap of two executions, and one crash in each of
two executions reaches every pair of half-done states; three attempts after the first repeat the same races with other left-overs.
The theorems below have no bounds.

Fairness (`FairSpec`): a request that has passed its first step goes on (`WF` of `Upload` once it is not idle), and every worker
keeps serving its queue (`WF` of `Work`): uvicorn and Celery schedule what is runnable. Nothing forces deletes, crashes or
redeliveries, nor does anything force an external call to succeed: `AbortUpload` and `Raise` satisfy the fairness as well.

### Disagreement found

`ResumeOrphans` / `DeletedLeavesNoVectors` (1 resume, 1 worker, no retry): a worker that has passed its clear upserts after the delete has removed
points and row. Its later UPDATEs match nothing, the task succeeds, the points stay searchable.

Known behaviours that no run excludes, for nothing in the repository promises the contrary:

- Two uploads of one file both pass the check, and a third is then answered with an error.
- Nothing ever writes `"failed"`: a resume whose retries are used up stays in processing.
- A dispatch that fails after the commit leaves the resume pending.
- A delete that fails between the file and the row leaves a listed resume without its file; `RowHasFile` is about resumes nobody has tried to delete.
- Two overlapping executions interleave save and upsert, and a complete resume has the parse of one and the points of the other.

### Proofs (`ResumePipelineProofs`)

For every value of the constants: `TypeCorrect`, `RowsCorrect`, `RowsHaveFiles`, `DeletesAreFinal`.

`RowInv` is the strengthening: how far the upload and delete requests are determines whether there is a row and a file,
a message or execution exists only after the dispatch, and a parse only with its resume. `RowHasFile` and
`DeletedStaysDeleted` alone are not inductive: the step `InsertRow` needs the file stored before, and the late
`SaveParsed` of a worker needs that a deleted resume has no parse to match.

With `MaxLosses = 0` (the broker delivers a message again only after its worker is lost): `IndexCorrect`,
`CompleteResumesAreIndexed`, `ProcessingResumesAreCarried` (also `Celery`) and `PipelineImplementsLifecycle`. The
argument is `IndexInv`: at most one message or execution stands for a resume (`OneCarrier`), so nobody but a delete
disturbs it, so each step of `parse_resume_async` finds what the steps before it achieved (`Progress`). The assumption is needed: with overlapping
executions a complete resume may have the points of another parse than the stored one.

Model-checked only: `TasksEnd`, which is liveness.

## 4. Templates

### Module and code

`TemplateStore` follows one user's templates. `row`, `isDefault`, `pointIds` are the committed columns; `vectors` the
template's points; `lock` the open transaction that has updated a row; `pc`, `tmpl`, `text`, `loaded`, `default`, `targets` the
locals of each request; `latest` is history: the last request about the template's text, if no other one overlapped it. `Init` is any set of templates that is stored, embedded, and has at most one default.

| Code | Actions |
|---|---|
| `create_template` | `StartCreate`, `Snapshot`, `Reach`, `Reached`, `InsertTemplate`, `RefreshText`, then ingestion, `Answer` |
| `update_template` | `StartUpdate`, `CommitText`, `RefreshText`, then ingestion, `Answer` |
| `ingest_template` | `ClearVectors` (update only), `UpsertVectors`, `RecordPoints` |
| `set_default_template` | `StartSetDefault`, `Snapshot`, `Reach`, `Reached`, `SetDefault` |
| `delete_template` | `StartDelete`, `PurgeVectors`, `RemoveRow` |
| a failing call, the end of the process | `Abort`: the session rolls back, locks are released |

PostgreSQL runs in READ COMMITTED. An `UPDATE templates SET is_default = FALSE` chooses its rows when it starts
(`Snapshot`), locks them one at a time, waiting for other writers, and evaluates its condition again on what they left
(`Reach`, `StillMatches`). The partial unique index of the migration refuses a second committed default (`Conflict`); the
ORM class declares that index without its condition (`db/models.py:457`); the schema that is deployed is the migration's.
A cycle of waits ends by aborting one request (`Deadlock`). A call that failed has no effect later. The index check itself is made at the commit, although
PostgreSQL makes it at the statement and waits for the other transaction there: a request that would wait conflicts or
goes on here once the other has ended, and a cycle of such waits ends in a failure that `Abort` also allows.

### Run

`TemplateDefaults`: 3 templates, two of them stored, 2 concurrent requests, two texts, fair. `AtMostOneDefault`, `DefaultIsKept`; `LatestIsIndexed`: a
last request that succeeds and ran alone leaves the chunks of the stored text, whatever failed or overlapped before; `RequestsEnd`: no wait for a
row lock is for ever.

Two requests and two stored templates give the deadlock, a third template the creation of a default beside them; for more
requests there are the theorems. `LatestIsIndexed` needs a third request after two that overlap: `Init` has every combination of stored text and points such
requests leave, and `SameStart` keeps those in which the existing templates do not differ. The longer text has a chunk the
shorter one has not. Fairness: `WF` of `Serve`, as an accepted request is scheduled and the database ends deadlocks.

Known: two updates of one template that overlap both succeed and may leave points of the older text, until a later update runs alone.

### Proofs (`TemplateStoreProofs`)

For every value of the constants: `TypeCorrect`, `OneDefault` (`AtMostOneDefault`), `DefaultStays` (`DefaultIsKept`),
`IndexIsCurrent` (`LatestIsIndexed`). The type invariant carries what the steps need: a request being served has a template, and one that will embed has a text. The lemma
`DefaultStep` reduces every step to three cases: the flags stay; a deleted row loses its flag; or a default is committed
that `Conflict` allows.

`LatestIsIndexed` speaks of requests that have succeeded; its strengthening `LatestEdits` says of the last request about a
template, as long as it is alone, what each of its steps has made true (`EditedBy`): once it knows its text that is the row's, after
the clear no point is left, after the upsert there are exactly the text's. A request that creates a template clears nothing, so `Untouched` adds
that a template no request has been about has no points. `RequestsEnd` is liveness and model-checked only.

## 5. Shared clients (`SharedClients`)

`global` is each process's `_qdrant_client`; a client is a number, `open` those not closed. `held` is the client an actor took
from `get_qdrant` or is initialising; `coll` is how far each collection is. `development` is `APP_ENV`, chosen in `Init`.

| Code | Actions |
|---|---|
| `lifespan` | `StartApi`, the initialisation, `StopApi` |
| `parse_resume_async`, `ingest_jd_task` around their work | `StartJob`, the initialisation, `GetClient`, `Use`, `CloseClient` |
| `init_redis_pool` | `InitRedis` (its ping; a closed pool connects again when it is used) |
| `init_qdrant_client`, `_ensure_collections` | `Connect`, `Verify`, then per collection `CheckCollection`, `CreateCollection`, `IndexCollection` |
| `get_qdrant` as a dependency, a handler's calls, the readiness probe | `StartRequest`, `Use` |
| a store that does not answer (also at the close of the Redis pool, before the client is closed), a process that dies | `Fault`, `Crash` |

`except (UnexpectedResponse, Exception)` takes any failure for a missing collection, and Qdrant refuses to create one that exists, so
a process that loses this race fails to start, or its job to begin. The code then leaves the collection to whoever created it:
`LiveIsReady` says that it ends up with its indexes unless its creator failed while it made them. The history variable `interrupted` records
those collections and no others, so that a failure elsewhere, or a client closed under its user's hands, excuses nothing. Nothing makes the indexes of an
interrupted collection later, although `_ensure_collections` is to "create all four Qdrant collections with full schema if they don't exist"
and be "safe to call repeatedly" (`db/qdrant_client.py:173-174`): a finding of `PROJECT.json`.

Run `SharedClients`: 2 requests, 2 jobs, 2 workers, 2 collections, 4 clients, two faults, both environments. Two jobs overlap in one process
or run in two; one fault interrupts each step once, and a second one comes anywhere else. Run `ClosedClient` (development, one job, one request) is the disagreement
`DirectlyUsable`: the job's `finally` closes the client the API's requests get from then on, although `parse_resume_async` is
"usable from either the Celery task below or directly (e.g. FastAPI BackgroundTasks)" (`workers/tasks.py:92-93`).

### Proofs (`SharedClientsProofs`)

For any numbers of requests, jobs, workers, collections, clients and faults: `TypeCorrect`, `NobodyIsRefused` (`UsableInProduction`),
`Readiness` (`LiveIsReady`). The first argument is ownership. With Celery the actors that may replace or close a process's client are the API
for its own process and the one job of a worker (`OneJobPerWorker`), so whoever is past connecting finds the global open and holds
it (`ClientsAreOpen`, `ClientsAreHeld`). That a new client disturbs nobody else's needs `ClientsAreOwned`: clients are numbered as they
are made, and no two processes share one. The second is that a collection without indexes is being
indexed by somebody whose client is open, or its creator failed just then (`Explained`); in development that somebody is the API itself,
because jobs run only while it is live, when every collection exists (`JobsFindCollections`).

## 6. Accounts and authentication (`Accounts`)

`users` are the rows, `vectors` the points with the request that stored them, `jwks` Clerk's current key set and `cached` the copy
in Redis. A request goes `Request`, `FetchKeys`, `StoreKeys` (on a miss), `Decode`, `Resolve`, then `FlagUser` and one `PurgeCollection` per
collection, or `Upsert`, which stands for the requests and tasks that ingest. A webhook goes `Deliver`, `SelectUser`, `WriteUser`. `Rotate`, `Expire`
and `Fail` are the world. `WriteUser` writes the address only when it differs from the one loaded, as SQLAlchemy does; the unique indexes
(`Conflict`) count deleted rows.

Run `Accounts`: three requests or deliveries, two subjects, two addresses, one existing account, two collections, one rotation (`MaxKeys = 2`),
at most three rows (`MaxUsers`). Three are enough for two deliveries to overlap and a third request to see the result, or for a slow
fetch, a fast one and a token in between. A token may be signed by any key Clerk has or had, so a withdrawn one may come in at any time. It shows `OneAccount`, `DeletedStaysDeleted`, `LeftoversAreExplained` (after a deletion that went
through, only points of requests authenticated before the flag are left) and `WithdrawnKeyIsRefused`.

`LeftoversAreExplained` is what the purge achieves, and less than the code promises: "purge all vector data immediately" (`routers/users.py:184`), "hard-delete
all Qdrant vectors owned by a user across all collections" (`rag/ingestion.py:403`). Run `PurgeLeftovers` (one user, two requests, two collections) is that
disagreement, `PurgeIsComplete`: the purge does not wait for requests authenticated before the flag, one of them upserts behind it, and nobody removes what it stored.

### Proofs (`AccountsProofs`)

For every value of the constants, with any number of requests, rows and rotations: `TypeCorrect`, `OneAccountEach` (`OneAccount`),
`DeletionIsFinal` (`DeletedStaysDeleted`), `DeletionPurges` (`LeftoversAreExplained`), `WithdrawalIsEffective` (`WithdrawnKeyIsRefused`).
`Table` says that ids are given in order and that the unique indexes hold, `Carried` what each request knows at its step. `LeftoversAreExplained` is
about finished deletions; `PurgedSoFar` says it of the collections a deletion has done so far, and `UpsertsAreKnown` that
a request about to store for a flagged user was authenticated before. `KeysAreRecent` bounds the age of every copy of the key set, in the cache or in the
hands of a slow request, by the moment from which `WithdrawnKeyIsRefused` counts. `DeletedStaysDeleted` is an action property: the
only step that writes flags is `FlagUser`, and a webhook's `WriteUser` inserts a new row or changes an address (`WriteFlagsNobody`).

Known and not excluded: an address held by a deleted row makes the webhook of a new account conflict for ever; a purge that fails half way cannot be
repeated by its user, who is refused once flagged; a token of a new key is refused until the cached copy runs out.

## 7. Chunking, embedding and ingestion (`Chunker`, `Ingestion`)

`Chunker` is pure: `Parts` splits a document of each kind into parts with the scope that goes into their ids, `Windows` are the windows of `chunk_text`
(positions from 1), `ChunkDocument` both together. The loop itself is `Loop` in `MCIngestion`, a recursive function, and the assumption
`WindowsAreTheLoop` has TLC compare the two for every text up to 12 tokens; what a loop computes for every input is induction over data, which
the provers cannot do. A text is a sequence of tokens, one of which is white space; a heading counts
as one token.

`Ingestion` runs calls of the ingestion functions and of `embed_text` concurrently over one cache and one set of points. A vector is
represented by the text it was made from, so a mix-up shows. `StartIngest` (chunking), `ClearPoints`, `Lookup` (one MGET), `EmbedBatch` (the API may answer in any
order; it refuses an empty text), `StoreVectors` (not a transaction: any prefix may be stored), `UpsertPoints`, `RecordIds`. Answers are not cleared.

Run `Ingestion`: two calls, one document of each kind with two or three contents, windows of 3 tokens that overlap by 1, batches of 3, keys that expire.
The contents have parts longer than a window, repeated texts, empty entries, blank answers, windows of white space alone, and an edit that makes a part shorter.
`MCExpiring` (the texts whose vectors may expire) has texts shared by two documents and one of the question. `VectorsMatchTexts`
is about every chunk and every key; `LatestIsSearchable` says that after a call that succeeded and ran alone every word is in a point of its own part.

### Proofs (`IngestionProofs`)

For every document, window size, overlap, batch size and number of calls: `TypeCorrect`, `VectorsAreTheirTexts` (`VectorsMatchTexts`),
`LatestIsFound` (`LatestIsSearchable`). The constants are assumed to be what the callers pass: contents of the shape of their kind (`IsDocument`),
windows that are larger than their overlap.

- The first part is about `Chunker`: the windows cover a text (`WindowsCover`), the parts of a document differ in name or scope (`PartsDistinct`), so the chunks of a
  document have distinct ids and every position of every part is in a chunk of that part (`ChunksOfDocument`).
- `Collected` is the argument for the vectors: what `embed_batch` has collected so far are the vectors of the texts at their positions, and those of the first
  misses in the order of the misses, however the API orders its answer.
- `Alone` is the argument for the points: of the last call about a document, as long as it runs alone, what each step has made true. It is stated for each
  call and not for `latest`, so that its steps speak of a call that does not change.

Known: the points of an edited answer's longer text stay; a window of white space alone makes the whole document fail.

## 8. Applications (`Applications`)

One application. `app` and `answers` are the rows, `memory` the past answers as embedded, `loaded` and `loadedApp` what a request's session holds.
A commit writes a column only when it differs from the loaded value (`Written`), so `CommitSave` of one request and `SetStatus` of another mix
their columns. `Conflict` is the foreign key to `form_fields` and the unique key of an answer. `StartIngest`, `UpsertAnswer` remember an answer; its point
depends on the source, so points of an earlier source stay. Nothing in `src/` inserts `form_fields`: which exist is a constant.

Run `Applications`: four requests, two fields and one unknown field, bodies that generate, edit, name a field twice, or leave an answer empty,
four of the statuses. Two overlapping requests mix columns, a third depends on the result, and a fourth remembers it. `LatestIsStored` and
`RememberedAsSent` are about requests that did not overlap: overlapping saves do mix text and provenance, which is what the guard `overlap` records.

### Proofs (`ApplicationsProofs`)

For any requests, bodies, fields, statuses and existing answers (`ApplicationAssumption`): `TypeCorrect`, `AnswersAreUnique` (`OneAnswerPerField`), `SubmissionIsDated`
(`SubmittedHasTime`), `LastWriteIsStored` (`LatestIsStored`), `MemoryIsAsSent` (`RememberedAsSent`). `Table` and `Held` relate the rows to what each request's session holds:
what a save has loaded is a row of a field it names, and still there. While no two saves overlap there is one of them at most, what it has
loaded is what is stored, and so the columns it does not send stay those of one item (`OneSave`). `LatestIsAlone` says the same of the last
write after overlaps; it is needed because `LatestIsStored` must hold again once a write runs alone, whatever mix came before.

Known: the counters are those of the last save. The columns are described as the "number of fields auto-filled" and of "AI-generated answers in this session"
(`db/models.py:607`, `613`), which a save that sends a part of the fields does not keep up with.

## 9. Agents (`Retrieval`, `AnswerGeneration`, `FormUnderstanding`, `ResumeExtraction`, `Agents`)

The first four are pure and follow the functions of the files of those names, with scores and confidence as integers. `Agents` runs them as requests: one at a
time, since the agents hold no state, over an `index` that other requests change between the searches (`Reindex`).

| Endpoint | Actions |
|---|---|
| `/answers/generate`, `/answers/generate-batch` | `StartAnswers`, `SearchCollection`, `Retrieve`, `Answer(n)` in any order, `ReturnAnswers` |
| `/memory/search` | `StartMemory`, `SearchCollection`, `Remember` |
| `/form/understand` | `StartForm`, `Classify` |
| `extract`, for the parse task | `StartExtraction`, `Parse` |
| a failing store or model | `Fail` |

The model may give any reply of a small language: not JSON, a refusal, JSON of an unexpected shape, fields that are null, items twice or in another order, figures
that are in the context, in part of it, or nowhere. `None` is no filter or no result. `searched` is history: the points each search had to choose from, against which
`ContextSound` and `BestIsKept` compare what it found.

Run `Agents`: six points of two users, one or more in each collection, scores below and above the threshold and tied, a budget of 10 tokens of which a resume may fill 3 and a template 1, so that
each outcome of the budget occurs; single questions and a batch of two with a blank one; a page of four elements; a resume in three shapes.

The properties state what the code does, exactly where it does less than its texts say; those places are findings of `PROJECT.json`:

- `BestIsKept` counts the answers of an excluded application among those a search must not pass over: `QdrantHelper.search` drops the `must_not` that
  `exclude_application_id` ("exclude answers from this application", `routers/agents.py:312`) becomes.
- `FiguresAreChecked` has years flagged by their century: the group of the pattern reduces a year to `19` or `20`, so an invented year passes although "year references not
  found in any chunk" are to be flagged (`agents/answer_generation.py:284`).
- `ExtractedIsGrounded` has a name kept for one of its parts, a LinkedIn link for the word alone, and all but three fields unchecked, although "any field that doesn't
  appear verbatim is flagged and cleared" (`agents/resume_extractor.py:212`). Full confidence says only that none of the three was cleared and no core field is missing.

### Proofs (`AgentsProofs`)

For any finite set of points, any scores, requests, replies and budgets: `TypeCorrect`, `ContextIsSound` (`ContextSound`), `BestAreKept` (`BestIsKept`),
`BatchesAreAligned` (`AnswersAreAligned`), `FiguresAreFlagged` (`FiguresAreChecked`), `FormsAreComplete` (`FormComplete`), `ExtractedAreGrounded`
(`ExtractedIsGrounded`). `PointsAssumption`, `InputsAssumption` and `RepliesAssumption` say what the code itself gives: a score is a cosine, a
figure is as its pattern finds it, and requests have passed their schema. A reply of the model may have any of the shapes above, with any content.

- The first part is about the pure modules. `RankingExists` shows that `Ranked`, a choice, has something to choose: a chunk with the lowest score, appended to a
  ranking of the others. `BudgetIsKept` follows the loop of `_apply_token_budget` over a ranking; `ContextFits` adds up the four shares. `FigureIsFound` and `FoundFigureOccurs`
  are the two directions of the search for digits that is anchored at the end or the start of a number. `FirstAreBest` says what a cut-off ranking leaves out, `UnderstoodIs` and `ExtractedIsChecked` speak of any reply.
- The invariant says that what each search found is sound for the request in progress, whatever `Reindex` did since (`FoundIsSound`), that the context is what those
  searches make (`ContextIsFound`), that the reply kept at a position is one to the question at that position (`RepliesAreAligned`), and that a result comes from these
  (`ResultIsDerived`). The results alone would not be inductive: they depend on replies that arrived many steps earlier.

Known: 47% is found in 147% and $40 in $400; the budget stops at the best chunk that does not fit, and shorter ones behind it are left out even if they would fit
(`BestIsKept` says which chunk did not); a later pattern of a key that matches the label is not looked at.

## 10. What is not modelled

- `set_primary_resume`, `PATCH /users/me`, `clear_user_memory` and `RedisCache` (no caller, or columns nothing else reads), and reads that change nothing.
- Health, middleware, logging, configuration and migrations have no state of their own.
- Text extraction, prompts, HTML parsing, encryption, hashing, signatures and logging: their results appear as choices of the environment where they matter.
- Library internals (connection pools, event loops shared between tasks) are outside the repository.
- Real time: rate limits, timeouts and back-off appear as failures that may happen at any step.
- Liveness (`TasksEnd`, `RequestsEnd`) is model-checked only: TLAPS proves no fairness arguments here. It is stated where the code schedules something that must end: the parse task and the requests that wait for row locks. The other components wait for
  external calls only, which may fail at any step.

PROJECT.json also names, for every property, a mutation of one definition that breaks it: the definitions whose comments begin
with "Mutant of" are these mutations, and no specification uses them.
