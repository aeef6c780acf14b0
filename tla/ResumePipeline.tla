--------------------------- MODULE ResumePipeline ---------------------------
(***************************************************************************)
(* The life of a resume: POST /resumes/upload stores the encrypted file in *)
(* S3, inserts the row and dispatches the parse task; a worker downloads,  *)
(* extracts, saves and ingests it; DELETE /resumes/{id} takes it away      *)
(* again.  Three stores (S3, PostgreSQL, Qdrant) and a Celery queue change *)
(* one await at a time, and nothing locks a resume against the others.     *)
(*                                                                         *)
(* A resume id is fresh per upload request, so an upload request and the   *)
(* resume it would create share one identifier.  All queries are scoped to *)
(* one user, so the module follows one user's resumes.  A file is a member *)
(* of Contents (equal files have equal SHA-256 digests), an extraction     *)
(* result a member of Parses; ChunkPoints gives the deterministic Qdrant   *)
(* point ids of the chunks an extraction result is cut into.               *)
(***************************************************************************)
EXTENDS Integers

CONSTANTS
    Resumes,      \* resume ids, one per upload request
    Workers,      \* processes that can each run one parse task at a time
    Contents,     \* file contents
    Parses,       \* structured results the extractor may return
    Points,       \* Qdrant point ids within one resume
    ChunkPoints,  \* the point ids of each extraction result's chunks
    None,         \* no file, no row, NULL column
    Celery,       \* TRUE: Celery (production); FALSE: BackgroundTasks (development)
    MaxRetries,   \* the task's max_retries (3 in the code)
    MaxCrashes,   \* bound on processes lost
    MaxLosses     \* bound on redeliveries behind a worker that still runs

ASSUME ConstantsAssumption ==
    /\ ChunkPoints \in [Parses -> SUBSET Points]
    /\ None \notin Parses /\ None \notin Contents
    /\ Celery \in BOOLEAN
    /\ MaxRetries \in Nat /\ MaxCrashes \in Nat /\ MaxLosses \in Nat
    /\ ~Celery => MaxRetries = 0 /\ MaxLosses = 0

VARIABLES
    upload,    \* where each upload request stands
    content,   \* the file of each request; the row's content_hash while it exists
    storage,   \* S3: the file stored under each resume's key
    status,    \* resumes.parse_status, or "absent" when there is no row
    saved,     \* parsed_resume_data.parsed_json, None when there is no row
    pointIds,  \* parsed_resume_data.qdrant_point_ids, {} for NULL
    vectors,   \* Qdrant: the points whose payload names the resume
    queue,     \* how many copies of each task message wait in the broker
    outcome,   \* how the last execution of the resume's task ended
    del,       \* where the delete request of each resume stands
    wpc,       \* the step each worker is about to take
    msg,       \* the message each worker holds, None when idle
    json,      \* the extraction result each worker holds, if any
    seen,      \* the parsed_json each worker read before saving
    crashes,   \* how many processes were lost
    losses     \* how many messages were redelivered behind a worker

apiVars    == <<upload, content>>
dbVars     == <<status, saved, pointIds>>
workerVars == <<wpc, msg, json, seen>>
faultVars  == <<crashes, losses>>
vars == <<upload, content, storage, status, saved, pointIds, vectors, queue,
          outcome, del, wpc, msg, json, seen, crashes, losses>>

Message == [resume : Resumes, retries : 0..MaxRetries]
Vector  == [id : Points, text : Parses]

\* The steps of an upload that has passed its checks, and of a delete.
Storing  == {"put", "insert", "dispatch"}
Deleting == {"s3", "vectors", "row"}
UploadStates == Storing \cup {"idle", "done", "duplicate", "error"}
DeleteStates == Deleting \cup {"idle", "failed", "done"}
\* The steps of parse_resume_async, in order; "ack" is the worker's return.
Steps == {"fetch", "mark", "download", "extract", "select", "save", "clear",
          "upsert", "record", "complete", "ack"}

Init ==
    /\ upload = [r \in Resumes |-> "idle"]
    /\ content \in [Resumes -> Contents]
    /\ storage = [r \in Resumes |-> None]
    /\ status = [r \in Resumes |-> "absent"]
    /\ saved = [r \in Resumes |-> None]
    /\ pointIds = [r \in Resumes |-> {}]
    /\ vectors = [r \in Resumes |-> {}]
    /\ queue = [m \in Message |-> 0]
    /\ outcome = [r \in Resumes |-> "none"]
    /\ del = [r \in Resumes |-> "idle"]
    /\ wpc = [w \in Workers |-> "idle"]
    /\ msg = [w \in Workers |-> None]
    /\ json = [w \in Workers |-> None]
    /\ seen = [w \in Workers |-> None]
    /\ crashes = 0
    /\ losses = 0

-----------------------------------------------------------------------------
(* POST /resumes/upload.  Files of a wrong type or size are refused before  *)
(* any of this and change nothing.                                          *)

\* The user's rows that hold the file of request r.
Duplicates(r) ==
    {s \in Resumes : status[s] # "absent" /\ content[s] = content[r]}

\* scalar_one_or_none(): no row, the row, or MultipleResultsFound.
CheckDuplicate(r) ==
    /\ upload[r] = "idle"
    /\ \/ /\ Duplicates(r) = {}
          /\ upload' = [upload EXCEPT ![r] = "put"]
       \/ /\ \E s \in Resumes : Duplicates(r) = {s}
          /\ upload' = [upload EXCEPT ![r] = "duplicate"]
       \/ /\ \E s, t \in Duplicates(r) : s # t
          /\ upload' = [upload EXCEPT ![r] = "error"]
    /\ UNCHANGED <<content, storage, dbVars, vectors, queue, outcome, del,
                   workerVars, faultVars>>

\* Mutant of PutFile: a failing S3 put is logged and ignored.
PutFileOrNot(r) ==
    /\ upload[r] = "put"
    /\ \E f \in {content[r], None} : storage' = [storage EXCEPT ![r] = f]
    /\ upload' = [upload EXCEPT ![r] = "insert"]
    /\ UNCHANGED <<content, dbVars, vectors, queue, outcome, del, workerVars,
                   faultVars>>

PutFile(r) ==
    /\ upload[r] = "put"
    /\ storage' = [storage EXCEPT ![r] = content[r]]
    /\ upload' = [upload EXCEPT ![r] = "insert"]
    /\ UNCHANGED <<content, dbVars, vectors, queue, outcome, del, workerVars,
                   faultVars>>

InsertRow(r) ==
    /\ upload[r] = "insert"
    /\ status' = [status EXCEPT ![r] = "pending"]
    /\ upload' = [upload EXCEPT ![r] = "dispatch"]
    /\ UNCHANGED <<content, storage, saved, pointIds, vectors, queue, outcome,
                   del, workerVars, faultVars>>

\* parse_resume_task.delay(), or background_tasks.add_task() in development.
Dispatch(r) ==
    /\ upload[r] = "dispatch"
    /\ queue' = [queue EXCEPT ![[resume |-> r, retries |-> 0]] = @ + 1]
    /\ upload' = [upload EXCEPT ![r] = "done"]
    /\ UNCHANGED <<content, storage, dbVars, vectors, outcome, del, workerVars,
                   faultVars>>

\* S3, the database or the broker is unreachable, or the API process dies:
\* the client gets an error and what was done so far stays done.
AbortUpload(r) ==
    /\ upload[r] \in Storing
    /\ upload' = [upload EXCEPT ![r] = "error"]
    /\ UNCHANGED <<content, storage, dbVars, vectors, queue, outcome, del,
                   workerVars, faultVars>>

Upload(r) ==
    \/ CheckDuplicate(r) \/ PutFile(r) \/ InsertRow(r) \/ Dispatch(r)
    \/ AbortUpload(r)

-----------------------------------------------------------------------------
(* The parse task.  Each action ends where parse_resume_async commits or    *)
(* awaits an answer.                                                        *)

Resume(w) == msg[w].resume

\* The execution is over, however it ended.
Idle(w) ==
    /\ wpc' = [wpc EXCEPT ![w] = "idle"]
    /\ msg' = [msg EXCEPT ![w] = None]
    /\ json' = [json EXCEPT ![w] = None]
    /\ seen' = [seen EXCEPT ![w] = None]

Goto(w, from, to) ==
    /\ wpc[w] = from
    /\ wpc' = [wpc EXCEPT ![w] = to]

Take(w, m) ==
    /\ queue[m] > 0
    /\ queue' = [queue EXCEPT ![m] = @ - 1]
    /\ Goto(w, "idle", "fetch")
    /\ msg' = [msg EXCEPT ![w] = m]
    /\ UNCHANGED <<apiVars, storage, dbVars, vectors, outcome, del, json, seen,
                   faultVars>>

\* A resume that is gone ends the task with a normal return.
Fetch(w) ==
    /\ Goto(w, "fetch", IF status[Resume(w)] = "absent" THEN "ack" ELSE "mark")
    /\ UNCHANGED <<apiVars, storage, dbVars, vectors, queue, outcome, del, msg,
                   json, seen, faultVars>>

\* Mutant of SetStatus: the row is merged, and inserted when it is missing.
MergeStatus(r, s) == status' = [status EXCEPT ![r] = s]

\* An UPDATE of the resume's row; it matches nothing once the row is gone.
SetStatus(r, s) ==
    status' = [status EXCEPT ![r] = IF @ = "absent" THEN @ ELSE s]

\* Mutant of MarkProcessing: a task that starts again does not say so.
StartSilently(w) ==
    /\ Goto(w, "mark", "download")
    /\ UNCHANGED <<apiVars, storage, dbVars, vectors, queue, outcome, del, msg,
                   json, seen, faultVars>>

MarkProcessing(w) ==
    /\ Goto(w, "mark", "download")
    /\ SetStatus(Resume(w), "processing")
    /\ UNCHANGED <<apiVars, storage, saved, pointIds, vectors, queue, outcome,
                   del, msg, json, seen, faultVars>>

Download(w) ==
    /\ Goto(w, "download", "extract")
    /\ storage[Resume(w)] # None
    /\ UNCHANGED <<apiVars, storage, dbVars, vectors, queue, outcome, del, msg,
                   json, seen, faultVars>>

\* Mutant of Extract: an answer that is not JSON yields no result.
ExtractOrNothing(w) ==
    /\ Goto(w, "extract", "select")
    /\ \E p \in Parses \cup {None} : json' = [json EXCEPT ![w] = p]
    /\ UNCHANGED <<apiVars, storage, dbVars, vectors, queue, outcome, del, msg,
                   seen, faultVars>>

\* The language model's answer is the environment's choice.  An answer that is
\* not JSON becomes an empty result, not an error.
Extract(w) ==
    /\ Goto(w, "extract", "select")
    /\ \E p \in Parses : json' = [json EXCEPT ![w] = p]
    /\ UNCHANGED <<apiVars, storage, dbVars, vectors, queue, outcome, del, msg,
                   seen, faultVars>>

SelectParsed(w) ==
    /\ Goto(w, "select", "save")
    /\ seen' = [seen EXCEPT ![w] = saved[Resume(w)]]
    /\ UNCHANGED <<apiVars, storage, dbVars, vectors, queue, outcome, del, msg,
                   json, faultVars>>

\* Mutant of CanSave: parsed_resume_data without its foreign key.
CanSaveWithoutForeignKey(w) ==
    \/ seen[w] = None /\ saved[Resume(w)] = None
    \/ seen[w] # None /\ seen[w] # json[w] /\ saved[Resume(w)] # None
    \/ seen[w] = json[w]

\* What the commit needs: an INSERT needs the resume's row (foreign key) and no
\* parsed row (unique resume_id); an UPDATE must match the row it loaded; an
\* unchanged column sends no statement.
CanSave(w) ==
    LET r == Resume(w) IN
    \/ seen[w] = None /\ status[r] # "absent" /\ saved[r] = None
    \/ seen[w] # None /\ seen[w] # json[w] /\ saved[r] # None
    \/ seen[w] = json[w]

\* Mutant of SaveParsed: the row of an earlier attempt is kept.
SaveFirstOnly(w) ==
    LET r == Resume(w) IN
    /\ Goto(w, "save", "clear")
    /\ CanSave(w)
    /\ saved' = IF seen[w] # None THEN saved ELSE [saved EXCEPT ![r] = json[w]]
    /\ UNCHANGED <<apiVars, storage, status, pointIds, vectors, queue, outcome,
                   del, msg, json, seen, faultVars>>

SaveParsed(w) ==
    LET r == Resume(w) IN
    /\ Goto(w, "save", "clear")
    /\ CanSave(w)
    /\ saved' = IF seen[w] = json[w] THEN saved ELSE [saved EXCEPT ![r] = json[w]]
    /\ UNCHANGED <<apiVars, storage, status, pointIds, vectors, queue, outcome,
                   del, msg, json, seen, faultVars>>

\* Mutants of ClearVectors: replace_existing = False; a filter on the user only.
KeepVectors(w) ==
    /\ Goto(w, "clear", "upsert")
    /\ UNCHANGED <<apiVars, storage, dbVars, vectors, queue, outcome, del, msg,
                   json, seen, faultVars>>
ClearUser(w) ==
    /\ Goto(w, "clear", "upsert")
    /\ vectors' = [r \in Resumes |-> {}]
    /\ UNCHANGED <<apiVars, storage, dbVars, queue, outcome, del, msg, json,
                   seen, faultVars>>

\* ingest_resume, step 1: delete_by_source_id.
ClearVectors(w) ==
    /\ Goto(w, "clear", "upsert")
    /\ vectors' = [vectors EXCEPT ![Resume(w)] = {}]
    /\ UNCHANGED <<apiVars, storage, dbVars, queue, outcome, del, msg, json,
                   seen, faultVars>>

\* The points an extraction result stands for in Qdrant.
Chunks(p) == {[id |-> i, text |-> p] : i \in ChunkPoints[p]}

\* Mutant of UpsertVectors: a failing Qdrant call is logged and ignored.
UpsertOrNot(w) ==
    LET r == Resume(w) IN
    /\ Goto(w, "upsert", "record")
    /\ \E vs \in {vectors[r], Chunks(json[w])} :
           vectors' = [vectors EXCEPT ![r] = vs]
    /\ UNCHANGED <<apiVars, storage, dbVars, queue, outcome, del, msg, json,
                   seen, faultVars>>

\* Qdrant's upsert replaces the points of the same id and keeps the others.
UpsertVectors(w) ==
    LET p == json[w] IN
    /\ Goto(w, "upsert", "record")
    /\ vectors' = [vectors EXCEPT ![Resume(w)] =
                      {v \in @ : v.id \notin ChunkPoints[p]} \cup Chunks(p)]
    /\ UNCHANGED <<apiVars, storage, dbVars, queue, outcome, del, msg, json,
                   seen, faultVars>>

RecordPoints(w) ==
    LET r == Resume(w) IN
    /\ Goto(w, "record", "complete")
    /\ pointIds' = [pointIds EXCEPT ![r] =
                       IF saved[r] = None THEN @ ELSE ChunkPoints[json[w]]]
    /\ UNCHANGED <<apiVars, storage, status, saved, vectors, queue, outcome, del,
                   msg, json, seen, faultVars>>

MarkComplete(w) ==
    /\ Goto(w, "complete", "ack")
    /\ SetStatus(Resume(w), "complete")
    /\ UNCHANGED <<apiVars, storage, saved, pointIds, vectors, queue, outcome,
                   del, msg, json, seen, faultVars>>

\* task_acks_late: the message leaves the broker only after the return.
Ack(w) ==
    /\ wpc[w] = "ack"
    /\ Idle(w)
    /\ outcome' = [outcome EXCEPT ![Resume(w)] = "success"]
    /\ UNCHANGED <<apiVars, storage, dbVars, vectors, queue, del, faultVars>>

\* Mutant of Raise: the retry counter does not advance.
RaiseForever(w) ==
    /\ wpc[w] \in Steps \ {"ack"}
    /\ Idle(w)
    /\ queue' = [queue EXCEPT ![msg[w]] = @ + 1]
    /\ UNCHANGED <<apiVars, storage, dbVars, vectors, outcome, del, faultVars>>

\* Any step may raise: S3, the model, Qdrant, Redis or the database is down, or
\* a commit breaks a constraint.  autoretry_for publishes the next attempt until
\* max_retries is used up; nothing then touches parse_status.
Raise(w) ==
    LET r == Resume(w)
        n == msg[w].retries
    IN
    /\ wpc[w] \in Steps \ {"ack"}
    /\ Idle(w)
    /\ \/ /\ n < MaxRetries
          /\ queue' = [queue EXCEPT ![[resume |-> r, retries |-> n + 1]] = @ + 1]
          /\ UNCHANGED outcome
       \/ /\ n = MaxRetries
          /\ outcome' = [outcome EXCEPT ![r] = "failure"]
          /\ UNCHANGED queue
    /\ UNCHANGED <<apiVars, storage, dbVars, vectors, del, faultVars>>

\* Mutant of Crash: the message was acknowledged when the worker took it.
CrashAfterEarlyAck(w) ==
    /\ Celery
    /\ wpc[w] # "idle"
    /\ crashes < MaxCrashes
    /\ crashes' = crashes + 1
    /\ Idle(w)
    /\ UNCHANGED <<apiVars, storage, dbVars, vectors, queue, outcome, del, losses>>

\* A Celery worker process is lost: the broker redelivers the message it held
\* (task_acks_late, task_reject_on_worker_lost).
Crash(w) ==
    /\ Celery
    /\ wpc[w] # "idle"
    /\ crashes < MaxCrashes
    /\ crashes' = crashes + 1
    /\ queue' = [queue EXCEPT ![msg[w]] = @ + 1]
    /\ Idle(w)
    /\ UNCHANGED <<apiVars, storage, dbVars, vectors, outcome, del, losses>>

\* In development the tasks live in the API process: a restart ends them, the
\* ones not yet started and every request in progress.
Restart ==
    /\ ~Celery
    /\ crashes < MaxCrashes
    /\ crashes' = crashes + 1
    /\ upload' = [r \in Resumes |->
                     IF upload[r] \in Storing THEN "error" ELSE upload[r]]
    /\ del' = [r \in Resumes |->
                  IF del[r] \in Deleting THEN "failed" ELSE del[r]]
    /\ queue' = [m \in Message |-> 0]
    /\ wpc' = [w \in Workers |-> "idle"]
    /\ msg' = [w \in Workers |-> None]
    /\ json' = [w \in Workers |-> None]
    /\ seen' = [w \in Workers |-> None]
    /\ UNCHANGED <<content, storage, dbVars, vectors, outcome, losses>>

\* The broker connection is lost, or the visibility timeout passes: the unacked
\* message is delivered again while the worker goes on executing it.
Redeliver(w) ==
    /\ wpc[w] # "idle"
    /\ losses < MaxLosses
    /\ losses' = losses + 1
    /\ queue' = [queue EXCEPT ![msg[w]] = @ + 1]
    /\ UNCHANGED <<apiVars, storage, dbVars, vectors, outcome, del, workerVars,
                   crashes>>

Work(w) ==
    \/ \E m \in Message : Take(w, m)
    \/ Fetch(w) \/ MarkProcessing(w) \/ Download(w) \/ Extract(w)
    \/ SelectParsed(w) \/ SaveParsed(w) \/ ClearVectors(w) \/ UpsertVectors(w)
    \/ RecordPoints(w) \/ MarkComplete(w) \/ Ack(w) \/ Raise(w)

-----------------------------------------------------------------------------
(* DELETE /resumes/{resume_id}.  One request at a time per resume; a client *)
(* may repeat one that failed.  An unknown id is a 404 and changes nothing. *)

StartDelete(r) ==
    /\ del[r] \in {"idle", "failed"}
    /\ status[r] # "absent"
    /\ del' = [del EXCEPT ![r] = "s3"]
    /\ UNCHANGED <<apiVars, storage, dbVars, vectors, queue, outcome, workerVars,
                   faultVars>>

\* Mutant of DeleteFile: the key is made of the content hash.
DeleteFileByContent(r) ==
    /\ del[r] = "s3"
    /\ storage' = [s \in Resumes |->
                      IF content[s] = content[r] THEN None ELSE storage[s]]
    /\ del' = [del EXCEPT ![r] = "vectors"]
    /\ UNCHANGED <<apiVars, dbVars, vectors, queue, outcome, workerVars, faultVars>>

\* A failing S3 delete is logged and otherwise ignored.
DeleteFile(r) ==
    /\ del[r] = "s3"
    /\ \/ storage' = [storage EXCEPT ![r] = None]
       \/ storage' = storage
    /\ del' = [del EXCEPT ![r] = "vectors"]
    /\ UNCHANGED <<apiVars, dbVars, vectors, queue, outcome, workerVars, faultVars>>

DeleteVectors(r) ==
    /\ del[r] = "vectors"
    /\ vectors' = [vectors EXCEPT ![r] = {}]
    /\ del' = [del EXCEPT ![r] = "row"]
    /\ UNCHANGED <<apiVars, storage, dbVars, queue, outcome, workerVars, faultVars>>

\* Mutant of DeleteRow: no cascade to parsed_resume_data.
DeleteRowOnly(r) ==
    /\ del[r] = "row"
    /\ status' = [status EXCEPT ![r] = "absent"]
    /\ del' = [del EXCEPT ![r] = "done"]
    /\ UNCHANGED <<apiVars, storage, saved, pointIds, vectors, queue, outcome,
                   workerVars, faultVars>>

\* The parsed row goes with the resume (ON DELETE CASCADE).
DeleteRow(r) ==
    /\ del[r] = "row"
    /\ status' = [status EXCEPT ![r] = "absent"]
    /\ saved' = [saved EXCEPT ![r] = None]
    /\ pointIds' = [pointIds EXCEPT ![r] = {}]
    /\ del' = [del EXCEPT ![r] = "done"]
    /\ UNCHANGED <<apiVars, storage, vectors, queue, outcome, workerVars, faultVars>>

\* Qdrant or the database is unreachable, or the API process dies.
AbortDelete(r) ==
    /\ del[r] \in Deleting
    /\ del' = [del EXCEPT ![r] = "failed"]
    /\ UNCHANGED <<apiVars, storage, dbVars, vectors, queue, outcome, workerVars,
                   faultVars>>

Delete(r) ==
    \/ StartDelete(r) \/ DeleteFile(r) \/ DeleteVectors(r) \/ DeleteRow(r)
    \/ AbortDelete(r)

-----------------------------------------------------------------------------
Next ==
    \/ \E r \in Resumes : Upload(r) \/ Delete(r)
    \/ \E w \in Workers : Work(w) \/ Crash(w) \/ Redeliver(w)
    \/ Restart

Spec == Init /\ [][Next]_vars

\* Requests that were accepted run on, and every worker keeps serving its queue.
\* Nothing forces a client to delete, a process to die or a connection to drop.
Fairness ==
    /\ \A r \in Resumes : WF_vars(Upload(r) /\ upload[r] # "idle")
    /\ \A w \in Workers : WF_vars(Work(w))

FairSpec == Spec /\ Fairness

-----------------------------------------------------------------------------
TypeOK ==
    /\ upload \in [Resumes -> UploadStates]
    /\ content \in [Resumes -> Contents]
    /\ storage \in [Resumes -> Contents \cup {None}]
    /\ status \in [Resumes -> {"absent", "pending", "processing", "complete"}]
    /\ saved \in [Resumes -> Parses \cup {None}]
    /\ pointIds \in [Resumes -> SUBSET Points]
    /\ vectors \in [Resumes -> SUBSET Vector]
    /\ queue \in [Message -> Nat]
    /\ outcome \in [Resumes -> {"none", "success", "failure"}]
    /\ del \in [Resumes -> DeleteStates]
    /\ wpc \in [Workers -> Steps \cup {"idle"}]
    /\ msg \in [Workers -> Message \cup {None}]
    /\ json \in [Workers -> Parses \cup {None}]
    /\ seen \in [Workers -> Parses \cup {None}]
    /\ \A w \in Workers : wpc[w] # "idle" => msg[w] \in Message
    /\ \A w \in Workers :
           wpc[w] \notin {"idle", "fetch", "mark", "download", "extract", "ack"}
               => json[w] \in Parses
    /\ crashes \in 0..MaxCrashes
    /\ losses \in 0..MaxLosses

Busy(w, r) == wpc[w] # "idle" /\ Resume(w) = r

Queued(m, r) == m.resume = r /\ queue[m] > 0

\* Some message or some running execution still stands for the resume.
Carried(r) ==
    \/ \E m \in Message : Queued(m, r)
    \/ \E w \in Workers : Busy(w, r)

\* Qdrant holds exactly the chunks of the parse in PostgreSQL, and PostgreSQL
\* lists exactly those points.
Indexed(r) ==
    /\ saved[r] # None
    /\ vectors[r] = Chunks(saved[r])
    /\ pointIds[r] = ChunkPoints[saved[r]]

\* A listed resume that nobody has tried to delete has its own file in S3: the
\* upload stores before it inserts, and no failure between the two shows a row
\* whose file a worker cannot fetch.
RowHasFile ==
    \A r \in Resumes :
        status[r] # "absent" /\ del[r] = "idle" => storage[r] = content[r]

\* Once a delete has answered 204 no late commit of a worker brings the resume
\* or its parsed data back: updates match nothing and the foreign key stops the
\* insert.
DeletedStaysDeleted ==
    \A r \in Resumes :
        del[r] = "done" => status[r] = "absent" /\ saved[r] = None

\* A resume shown as complete is searchable as parsed, through retries and
\* crashes between any two of the worker's three stores' writes.
CompleteIsIndexed ==
    \A r \in Resumes :
        status[r] = "complete" /\ del[r] = "idle" => Indexed(r)

\* Celery never drops a parse half way: a resume in processing is still carried
\* by a message or a worker, unless its task ended with its retries used up.
ProcessingIsCarried ==
    \A r \in Resumes :
        status[r] = "processing" => Carried(r) \/ outcome[r] = "failure"

\* Every dispatched task ends: retries and redeliveries do not go on for ever.
TasksEnd == \A r \in Resumes : Carried(r) ~> ~Carried(r)

-----------------------------------------------------------------------------
(* The pipeline implements ResumeLifecycle while at most one worker executes *)
(* a resume's task.                                                          *)

shownStatus ==
    [r \in Resumes |->
        IF del[r] = "done" THEN "deleted"
        ELSE IF del[r] # "idle" THEN "deleting"
        ELSE status[r]]

publishedIndex ==
    [r \in Resumes |->
        IF shownStatus[r] = "complete"
        THEN [parsed |-> saved[r], vectors |-> vectors[r], points |-> pointIds[r]]
        ELSE None]

PointIds(p) == ChunkPoints[p]

Lifecycle == INSTANCE ResumeLifecycle
                 WITH shown <- shownStatus, published <- publishedIndex

\* Every behaviour of upload, worker and delete looks to the owner like one of
\* the abstract life cycle: three stores written one after the other publish a
\* parse at once, and a retry never changes what is published without
\* withdrawing it first.
LifecycleSpec == Lifecycle!Spec

-----------------------------------------------------------------------------
(* Inductive strengthenings of the properties above.                         *)

\* How far each request is tells what PostgreSQL and S3 hold, whatever the
\* workers do meanwhile: only InsertRow creates a row, only DeleteRow removes
\* one, and a parsed row needs the resume's row.
RowFacts(r) ==
    /\ upload[r] \in {"idle", "put", "insert", "duplicate"} =>
          status[r] = "absent" /\ del[r] = "idle"
    /\ upload[r] \in {"dispatch", "done"} /\ del[r] = "idle" =>
          status[r] # "absent"
    /\ upload[r] = "insert" => storage[r] = content[r]
    /\ status[r] # "absent" /\ del[r] = "idle" => storage[r] = content[r]
    /\ status[r] = "absent" => saved[r] = None
    /\ del[r] = "done" => status[r] = "absent"
    /\ Carried(r) => upload[r] = "done"

RowInv == \A r \in Resumes : RowFacts(r)

\* Without a redelivery behind a running worker, at most one message or one
\* execution stands for a resume at any time.
CarriedOnce(r) ==
    /\ \A m \in Message : m.resume = r => queue[m] \in {0, 1}
    /\ \A m, n \in Message : Queued(m, r) /\ Queued(n, r) => m = n
    /\ \A v, w \in Workers : Busy(v, r) /\ Busy(w, r) => v = w
    /\ \A m \in Message, w \in Workers : ~(Queued(m, r) /\ Busy(w, r))

OneCarrier == \A r \in Resumes : CarriedOnce(r)

\* What an execution that nothing disturbs has already made true of its resume.
Parsing == {"download", "extract", "select", "save", "clear", "upsert",
            "record", "complete"}

Achieved(w, r) ==
    /\ wpc[w] \in Parsing => status[r] = "processing"
    /\ wpc[w] = "save" => seen[w] = saved[r]
    /\ wpc[w] \in {"clear", "upsert", "record", "complete"} => saved[r] = json[w]
    /\ wpc[w] = "upsert" => vectors[r] = {}
    /\ wpc[w] \in {"record", "complete"} => vectors[r] = Chunks(json[w])
    /\ wpc[w] = "complete" => pointIds[r] = ChunkPoints[json[w]]

ProgressOf(w, r) ==
    Busy(w, r) => /\ del[r] = "idle" => Achieved(w, r)
                  /\ wpc[w] = "ack" => status[r] \in {"absent", "complete"}

Progress == \A w \in Workers, r \in Resumes : ProgressOf(w, r)

IndexInv == OneCarrier /\ Progress /\ CompleteIsIndexed
=============================================================================
