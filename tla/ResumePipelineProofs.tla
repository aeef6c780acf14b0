------------------------ MODULE ResumePipelineProofs ------------------------
(* Proofs about ResumePipeline.  Every action of the pipeline touches one    *)
(* resume or one worker; each invariance proof has one step per action.      *)
EXTENDS ResumePipeline, TLAPS

USE DEF apiVars, dbVars, workerVars, faultVars

\* Every value the three stores, the broker, the requests and the workers hold
\* is one the program can store there, and a worker past its extraction holds a
\* result.
THEOREM TypeCorrect == Spec => []TypeOK
<1>1. Init => TypeOK
  BY ConstantsAssumption DEF Init, TypeOK, Message, UploadStates, DeleteStates
<1>2. TypeOK /\ [Next]_vars => TypeOK'
  <2> SUFFICES ASSUME TypeOK, [Next]_vars PROVE TypeOK'
    OBVIOUS
  <2> USE ConstantsAssumption DEF TypeOK
  <2>1. ASSUME NEW r \in Resumes, Upload(r) PROVE TypeOK'
    <3>1. CASE CheckDuplicate(r)
      BY <3>1 DEF CheckDuplicate, UploadStates, Storing
    <3>2. CASE PutFile(r)
      BY <3>2 DEF PutFile, UploadStates, Storing
    <3>3. CASE InsertRow(r)
      BY <3>3 DEF InsertRow, UploadStates, Storing
    <3>4. CASE Dispatch(r)
      <4>1. [resume |-> r, retries |-> 0] \in Message
        BY DEF Message
      <4> QED
        BY <3>4, <4>1 DEF Dispatch, UploadStates, Storing
    <3>5. CASE AbortUpload(r)
      BY <3>5 DEF AbortUpload, UploadStates, Storing
    <3> QED
      BY <2>1, <3>1, <3>2, <3>3, <3>4, <3>5 DEF Upload
  <2>2. ASSUME NEW r \in Resumes, Delete(r) PROVE TypeOK'
    <3>1. CASE StartDelete(r)
      BY <3>1 DEF StartDelete, DeleteStates, Deleting
    <3>2. CASE DeleteFile(r)
      BY <3>2 DEF DeleteFile, DeleteStates, Deleting
    <3>3. CASE DeleteVectors(r)
      BY <3>3 DEF DeleteVectors, DeleteStates, Deleting
    <3>4. CASE DeleteRow(r)
      BY <3>4 DEF DeleteRow, DeleteStates, Deleting
    <3>5. CASE AbortDelete(r)
      BY <3>5 DEF AbortDelete, DeleteStates, Deleting
    <3> QED
      BY <2>2, <3>1, <3>2, <3>3, <3>4, <3>5 DEF Delete
  <2>3. ASSUME NEW w \in Workers, Work(w) PROVE TypeOK'
    <3>a. ASSUME wpc[w] # "idle" PROVE Resume(w) \in Resumes
      BY <3>a DEF Resume, Message
    <3>1. CASE \E m \in Message : Take(w, m)
      BY <3>1 DEF Take, Goto, Steps
    <3>2. CASE Fetch(w)
      BY <3>2 DEF Fetch, Goto, Steps
    <3>3. CASE MarkProcessing(w)
      BY <3>3, <3>a DEF MarkProcessing, SetStatus, Goto, Steps
    <3>4. CASE Download(w)
      BY <3>4 DEF Download, Goto, Steps
    <3>5. CASE Extract(w)
      BY <3>5 DEF Extract, Goto, Steps
    <3>6. CASE SelectParsed(w)
      BY <3>6, <3>a DEF SelectParsed, Goto, Steps
    <3>7. CASE SaveParsed(w)
      BY <3>7, <3>a DEF SaveParsed, Goto, Steps
    <3>8. CASE ClearVectors(w)
      BY <3>8, <3>a DEF ClearVectors, Goto, Steps
    <3>9. CASE UpsertVectors(w)
      BY <3>9, <3>a DEF UpsertVectors, Goto, Steps, Chunks, Vector
    <3>10. CASE RecordPoints(w)
      BY <3>10, <3>a DEF RecordPoints, Goto, Steps
    <3>11. CASE MarkComplete(w)
      BY <3>11, <3>a DEF MarkComplete, SetStatus, Goto, Steps
    <3>12. CASE Ack(w)
      BY <3>12, <3>a DEF Ack, Idle, Steps
    <3>13. CASE Raise(w)
      <4>1. msg[w] \in Message /\ Resume(w) \in Resumes
        BY <3>13, <3>a DEF Raise, Steps
      <4>2. msg[w].retries < MaxRetries =>
              [resume |-> Resume(w), retries |-> msg[w].retries + 1] \in Message
        BY <4>1 DEF Message
      <4> QED
        BY <3>13, <4>1, <4>2 DEF Raise, Idle, Steps
    <3> QED
      BY <2>3, <3>1, <3>2, <3>3, <3>4, <3>5, <3>6, <3>7, <3>8, <3>9, <3>10,
         <3>11, <3>12, <3>13 DEF Work
  <2>4. ASSUME NEW w \in Workers, Crash(w) PROVE TypeOK'
    BY <2>4 DEF Crash, Idle
  <2>5. ASSUME NEW w \in Workers, Redeliver(w) PROVE TypeOK'
    BY <2>5 DEF Redeliver
  <2>6. CASE Restart
    BY <2>6 DEF Restart, UploadStates, DeleteStates
  <2>7. CASE UNCHANGED vars
    BY <2>7 DEF vars
  <2> QED
    BY <2>1, <2>2, <2>3, <2>4, <2>5, <2>6, <2>7 DEF Next
<1> QED
  BY <1>1, <1>2, PTL DEF Spec

-----------------------------------------------------------------------------
\* Only the dispatch of its upload gives a resume its first message: whatever
\* stands for a resume after a step stood for it before.
LEMMA CarrierOrigin ==
    ASSUME TypeOK, [Next]_vars, NEW r \in Resumes, Carried(r)'
    PROVE  Carried(r) \/ Dispatch(r)
<1> USE DEF TypeOK, Carried, Queued, Busy, Resume
<1>1. ASSUME NEW q \in Resumes, Upload(q) PROVE Carried(r) \/ Dispatch(r)
  <2>1. CASE Dispatch(q)
    <3>1. CASE q = r
      BY <2>1, <3>1
    <3>2. CASE q # r
      BY <2>1, <3>2 DEF Dispatch, Message
    <3> QED
      BY <3>1, <3>2
  <2>2. CASE ~Dispatch(q)
    BY <1>1, <2>2 DEF Upload, CheckDuplicate, PutFile, InsertRow, AbortUpload
  <2> QED
    BY <2>1, <2>2
<1>2. ASSUME NEW q \in Resumes, Delete(q) PROVE Carried(r)
  BY <1>2 DEF Delete, StartDelete, DeleteFile, DeleteVectors, DeleteRow,
     AbortDelete
<1>3. ASSUME NEW w \in Workers, Work(w) PROVE Carried(r)
  <2>1. CASE \E m \in Message : Take(w, m)
    BY <2>1 DEF Take, Goto
  <2>2. CASE Raise(w)
    BY <2>2 DEF Raise, Idle, Steps
  <2>3. CASE Ack(w)
    BY <2>3 DEF Ack, Idle
  <2>4. CASE ~(\E m \in Message : Take(w, m)) /\ ~Raise(w) /\ ~Ack(w)
    BY <1>3, <2>4 DEF Work, Fetch, MarkProcessing, Download, Extract,
       SelectParsed, SaveParsed, ClearVectors, UpsertVectors, RecordPoints,
       MarkComplete, Goto
  <2> QED
    BY <2>1, <2>2, <2>3, <2>4
<1>4. ASSUME NEW w \in Workers, Crash(w) PROVE Carried(r)
  BY <1>4 DEF Crash, Idle
<1>5. ASSUME NEW w \in Workers, Redeliver(w) PROVE Carried(r)
  BY <1>5 DEF Redeliver
<1>6. CASE Restart
  BY <1>6 DEF Restart
<1>7. CASE UNCHANGED vars
  BY <1>7 DEF vars
<1> QED
  BY <1>1, <1>2, <1>3, <1>4, <1>5, <1>6, <1>7 DEF Next

\* Nothing is carried at the start.
LEMMA InitiallyQuiet ==
    ASSUME Init, NEW r \in Resumes
    PROVE  /\ \A m \in Message : queue[m] = 0 /\ ~Queued(m, r)
           /\ \A w \in Workers : ~Busy(w, r)
           /\ ~Carried(r)
<1>1. \A m \in Message : queue[m] = 0 /\ ~Queued(m, r)
  BY DEF Init, Queued
<1>2. \A w \in Workers : ~Busy(w, r)
  BY DEF Init, Busy
<1> QED
  BY <1>1, <1>2 DEF Carried

\* Each step of an upload, a delete or a worker preserves what the requests'
\* progress says about the row and the file.
LEMMA RowInvInductive == TypeOK /\ RowInv /\ [Next]_vars => RowInv'
<1> SUFFICES ASSUME TypeOK, RowInv, [Next]_vars, NEW r \in Resumes
             PROVE  RowFacts(r)'
  BY DEF RowInv
<1> USE ConstantsAssumption DEF TypeOK, RowInv, RowFacts
<1>a. Carried(r)' => Carried(r) \/ Dispatch(r)
  BY CarrierOrigin
<1>1. ASSUME NEW q \in Resumes, Upload(q) PROVE RowFacts(r)'
  <2>1. CASE CheckDuplicate(q)
    BY <2>1, <1>a DEF CheckDuplicate, Dispatch
  <2>2. CASE PutFile(q)
    BY <2>2, <1>a DEF PutFile, Dispatch
  <2>3. CASE InsertRow(q)
    BY <2>3, <1>a DEF InsertRow, Dispatch
  <2>4. CASE Dispatch(q)
    BY <2>4, <1>a DEF Dispatch
  <2>5. CASE AbortUpload(q)
    BY <2>5, <1>a DEF AbortUpload, Dispatch, Storing
  <2> QED
    BY <1>1, <2>1, <2>2, <2>3, <2>4, <2>5 DEF Upload
<1>2. ASSUME NEW q \in Resumes, Delete(q) PROVE RowFacts(r)'
  <2>1. CASE StartDelete(q)
    BY <2>1, <1>a DEF StartDelete, Dispatch
  <2>2. CASE DeleteFile(q)
    BY <2>2, <1>a DEF DeleteFile, Dispatch
  <2>3. CASE DeleteVectors(q)
    BY <2>3, <1>a DEF DeleteVectors, Dispatch
  <2>4. CASE DeleteRow(q)
    BY <2>4, <1>a DEF DeleteRow, Dispatch
  <2>5. CASE AbortDelete(q)
    BY <2>5, <1>a DEF AbortDelete, Deleting, Dispatch
  <2> QED
    BY <1>2, <2>1, <2>2, <2>3, <2>4, <2>5 DEF Delete
<1>3. ASSUME NEW w \in Workers, Work(w) PROVE RowFacts(r)'
  <2>1. wpc[w] # "idle" => Resume(w) \in Resumes
    BY DEF Resume, Message
  <2>2. CASE MarkProcessing(w)
    BY <2>1, <2>2, <1>a DEF MarkProcessing, SetStatus, Goto, Dispatch
  <2>3. CASE MarkComplete(w)
    BY <2>1, <2>3, <1>a DEF MarkComplete, SetStatus, Goto, Dispatch
  <2>4. CASE SaveParsed(w)
    <3>1. saved'[r] # None => status[r] # "absent"
      BY <2>1, <2>4 DEF SaveParsed, CanSave, Goto
    <3> QED
      BY <2>4, <3>1, <1>a DEF SaveParsed, Dispatch
  <2>5. CASE ~MarkProcessing(w) /\ ~MarkComplete(w) /\ ~SaveParsed(w)
    BY <1>3, <2>5, <1>a DEF Work, Take, Fetch, Download, Extract, SelectParsed,
       ClearVectors, UpsertVectors, RecordPoints, Ack, Raise, Dispatch
  <2> QED
    BY <2>2, <2>3, <2>4, <2>5
<1>4. ASSUME NEW w \in Workers, Crash(w) \/ Redeliver(w) PROVE RowFacts(r)'
  BY <1>4, <1>a DEF Crash, Redeliver, Dispatch
<1>5. CASE Restart
  BY <1>5 DEF Restart, Carried, Queued, Busy, Storing, Deleting
<1>6. CASE UNCHANGED vars
  BY <1>6, <1>a DEF vars, Dispatch
<1> QED
  BY <1>1, <1>2, <1>3, <1>4, <1>5, <1>6 DEF Next

\* How far the requests are determines what PostgreSQL and S3 hold, whatever the
\* workers do meanwhile.
THEOREM RowsCorrect == Spec => []RowInv
<1>1. Init => RowInv
  <2>1. ASSUME Init, NEW r \in Resumes PROVE ~Carried(r)
    BY <2>1, InitiallyQuiet
  <2>2. ASSUME Init, NEW r \in Resumes
        PROVE  /\ status[r] = "absent" /\ del[r] = "idle" /\ saved[r] = None
               /\ upload[r] = "idle"
    BY <2>2 DEF Init
  <2> QED
    BY <2>1, <2>2 DEF RowInv, RowFacts
<1>2. TypeOK /\ RowInv /\ [Next]_vars => RowInv'
  BY RowInvInductive
<1> QED
  BY <1>1, <1>2, TypeCorrect, PTL DEF Spec

\* A listed resume that nobody tries to delete has its own file.
THEOREM RowsHaveFiles == Spec => []RowHasFile
<1>1. RowInv => RowHasFile
  BY DEF RowInv, RowFacts, RowHasFile
<1> QED
  BY <1>1, RowsCorrect, PTL

\* After a delete has answered, no worker brings the resume back.
THEOREM DeletesAreFinal == Spec => []DeletedStaysDeleted
<1>1. RowInv => DeletedStaysDeleted
  BY DEF RowInv, RowFacts, DeletedStaysDeleted
<1> QED
  BY <1>1, RowsCorrect, PTL

-----------------------------------------------------------------------------
\* While a worker runs a task, no message and no other worker stands for its
\* resume.
LEMMA AloneWhenBusy ==
    ASSUME TypeOK, OneCarrier, NEW w \in Workers, wpc[w] # "idle"
    PROVE  /\ msg[w] \in Message /\ Resume(w) \in Resumes
           /\ \A m \in Message : m.resume = Resume(w) => queue[m] = 0
           /\ \A v \in Workers : Busy(v, Resume(w)) => v = w
<1>1. msg[w] \in Message /\ Resume(w) \in Resumes
  BY DEF TypeOK, Resume, Message
<1>2. CarriedOnce(Resume(w)) /\ Busy(w, Resume(w))
  BY <1>1 DEF OneCarrier, Busy
<1>3. ASSUME NEW m \in Message, m.resume = Resume(w) PROVE queue[m] = 0
  <2>1. ~(Queued(m, Resume(w)) /\ Busy(w, Resume(w)))
    BY <1>2 DEF CarriedOnce
  <2> QED
    BY <1>2, <1>3, <2>1 DEF Queued, TypeOK
<1>4. ASSUME NEW v \in Workers, Busy(v, Resume(w)) PROVE v = w
  BY <1>2, <1>4 DEF CarriedOnce
<1> QED
  BY <1>1, <1>3, <1>4

\* A waiting message is its resume's only one, and no worker runs its task.
LEMMA AloneWhenQueued ==
    ASSUME TypeOK, OneCarrier, NEW m \in Message, queue[m] > 0
    PROVE  /\ queue[m] = 1 /\ m.resume \in Resumes
           /\ \A n \in Message : n.resume = m.resume /\ n # m => queue[n] = 0
           /\ \A v \in Workers : ~Busy(v, m.resume)
<1>1. m.resume \in Resumes
  BY DEF Message
<1>2. CarriedOnce(m.resume) /\ Queued(m, m.resume)
  BY <1>1 DEF OneCarrier, Queued
<1>3. queue[m] = 1
  BY <1>2 DEF CarriedOnce, Queued
<1>4. ASSUME NEW n \in Message, n.resume = m.resume, n # m PROVE queue[n] = 0
  <2>1. ~Queued(n, m.resume)
    BY <1>2, <1>4 DEF CarriedOnce
  <2> QED
    BY <1>4, <2>1 DEF Queued, TypeOK
<1>5. ASSUME NEW v \in Workers PROVE ~Busy(v, m.resume)
  BY <1>2 DEF CarriedOnce
<1> QED
  BY <1>1, <1>3, <1>4, <1>5

\* A new message keeps every resume carried once when no other message waits
\* for its resume and no worker runs for it afterwards.
LEMMA FirstMessage ==
    ASSUME TypeOK, NEW m \in Message, NEW r \in Resumes, CarriedOnce(r),
           queue' = [queue EXCEPT ![m] = @ + 1],
           \A n \in Message : n.resume = m.resume => queue[n] = 0,
           \A v \in Workers : Busy(v, r)' => Busy(v, r) /\ r # m.resume
    PROVE  CarriedOnce(r)'
<1>1. \A n \in Message : queue'[n] = IF n = m THEN queue[n] + 1 ELSE queue[n]
  BY DEF TypeOK
<1>2. ASSUME NEW n \in Message, n.resume = r PROVE queue'[n] \in {0, 1}
  BY <1>1, <1>2 DEF CarriedOnce
<1>3. ASSUME NEW n \in Message, NEW k \in Message, Queued(n, r)', Queued(k, r)'
      PROVE  n = k
  BY <1>1, <1>3 DEF CarriedOnce, Queued
<1>4. ASSUME NEW v \in Workers, NEW w \in Workers, Busy(v, r)', Busy(w, r)'
      PROVE  v = w
  BY <1>4 DEF CarriedOnce
<1>5. ASSUME NEW n \in Message, NEW v \in Workers, Queued(n, r)', Busy(v, r)'
      PROVE  FALSE
  <2>1. Busy(v, r) /\ r # m.resume
    BY <1>5
  <2>2. Queued(n, r)
    BY <1>1, <1>5, <2>1 DEF Queued
  <2> QED
    BY <2>1, <2>2 DEF CarriedOnce
<1> QED
  BY <1>2, <1>3, <1>4, <1>5 DEF CarriedOnce

\* A message passes from the queue to one worker and back, and a retry replaces
\* the attempt before it: no step duplicates it, unless the broker redelivers a
\* message whose worker still runs.
LEMMA OneCarrierInductive ==
    ASSUME MaxLosses = 0, TypeOK, RowInv, OneCarrier, [Next]_vars
    PROVE  OneCarrier'
<1> SUFFICES ASSUME NEW r \in Resumes PROVE CarriedOnce(r)'
  BY DEF OneCarrier
<1>0. CarriedOnce(r)
  BY DEF OneCarrier
<1>a. ASSUME UNCHANGED queue, \A v \in Workers : Busy(v, r)' => Busy(v, r)
      PROVE  CarriedOnce(r)'
  BY <1>0, <1>a DEF CarriedOnce, Queued
<1>1. ASSUME NEW q \in Resumes, Upload(q) PROVE CarriedOnce(r)'
  <2>1. CASE Dispatch(q)
    <3> DEFINE first == [resume |-> q, retries |-> 0]
    <3>1. first \in Message /\ first.resume = q
      BY ConstantsAssumption DEF Message
    <3>2. ~Carried(q)
      BY <2>1 DEF Dispatch, RowInv, RowFacts
    <3>3. \A n \in Message : n.resume = q => queue[n] = 0
      BY <3>2 DEF Carried, Queued, TypeOK
    <3>4. \A v \in Workers : Busy(v, r)' => Busy(v, r) /\ r # q
      BY <2>1, <3>2 DEF Dispatch, Busy, Resume, Carried
    <3>5. queue' = [queue EXCEPT ![first] = @ + 1]
      BY <2>1 DEF Dispatch
    <3> HIDE DEF first
    <3> QED
      BY <1>0, <3>1, <3>3, <3>4, <3>5, FirstMessage
  <2>2. CASE ~Dispatch(q)
    BY <1>1, <1>a, <2>2 DEF Upload, CheckDuplicate, PutFile, InsertRow,
       AbortUpload, Busy, Resume
  <2> QED
    BY <2>1, <2>2
<1>2. ASSUME NEW q \in Resumes, Delete(q) PROVE CarriedOnce(r)'
  BY <1>2, <1>a DEF Delete, StartDelete, DeleteFile, DeleteVectors, DeleteRow,
     AbortDelete, Busy, Resume
<1>3. ASSUME NEW w \in Workers, Work(w) PROVE CarriedOnce(r)'
  <2>1. ASSUME NEW m \in Message, Take(w, m) PROVE CarriedOnce(r)'
    <3>1. /\ queue[m] = 1
          /\ \A n \in Message : n.resume = m.resume /\ n # m => queue[n] = 0
          /\ \A v \in Workers : ~Busy(v, m.resume)
      BY <2>1, AloneWhenQueued DEF Take
    <3>2. \A n \in Message : queue'[n] = IF n = m THEN 0 ELSE queue[n]
      BY <2>1, <3>1 DEF Take, TypeOK
    <3>3. \A v \in Workers :
             Busy(v, r)' => IF r = m.resume THEN v = w ELSE Busy(v, r)
      BY <2>1, <3>1 DEF Take, Goto, Busy, Resume, TypeOK
    <3>4. r = m.resume => \A n \in Message : ~Queued(n, r)'
      BY <3>1, <3>2 DEF Queued
    <3>5. \A n \in Message : Queued(n, r)' => Queued(n, r)
      BY <3>2 DEF Queued
    <3>6. \A n \in Message : n.resume = r => queue'[n] \in {0, 1}
      BY <1>0, <3>2 DEF CarriedOnce
    <3> QED
      BY <1>0, <3>3, <3>4, <3>5, <3>6 DEF CarriedOnce
  <2>2. CASE Raise(w)
    <3>1. wpc[w] # "idle"
      BY <2>2 DEF Raise, Steps
    <3>2. /\ msg[w] \in Message /\ Resume(w) \in Resumes
          /\ \A n \in Message : n.resume = Resume(w) => queue[n] = 0
          /\ \A v \in Workers : Busy(v, Resume(w)) => v = w
      BY <3>1, AloneWhenBusy
    <3>3. \A v \in Workers : Busy(v, r)' => Busy(v, r) /\ v # w
      BY <2>2 DEF Raise, Idle, Busy, Resume, TypeOK
    <3>4. CASE msg[w].retries < MaxRetries
      <4> DEFINE next == [resume |-> Resume(w), retries |-> msg[w].retries + 1]
      <4>1. next \in Message /\ next.resume = Resume(w)
        BY <3>2, <3>4, ConstantsAssumption DEF Message
      <4>2. queue' = [queue EXCEPT ![next] = @ + 1]
        BY <2>2, <3>2, <3>4, ConstantsAssumption DEF Raise, Message
      <4>3. \A v \in Workers : Busy(v, r)' => Busy(v, r) /\ r # next.resume
        BY <3>2, <3>3, <4>1
      <4> HIDE DEF next
      <4> QED
        BY <1>0, <3>2, <4>1, <4>2, <4>3, FirstMessage
    <3>5. CASE msg[w].retries = MaxRetries
      BY <1>a, <2>2, <3>3, <3>5, ConstantsAssumption DEF Raise
    <3> QED
      BY <2>2, <3>4, <3>5 DEF Raise
  <2>3. CASE Ack(w)
    BY <1>a, <2>3 DEF Ack, Idle, Busy, Resume, TypeOK
  <2>4. CASE ~(\E m \in Message : Take(w, m)) /\ ~Raise(w) /\ ~Ack(w)
    BY <1>3, <1>a, <2>4 DEF Work, Fetch, MarkProcessing, Download, Extract,
       SelectParsed, SaveParsed, ClearVectors, UpsertVectors, RecordPoints,
       MarkComplete, Goto, Busy, Resume, TypeOK
  <2> QED
    BY <2>1, <2>2, <2>3, <2>4
<1>4. ASSUME NEW w \in Workers, Crash(w) PROVE CarriedOnce(r)'
  <2>1. /\ msg[w] \in Message /\ Resume(w) \in Resumes
        /\ \A n \in Message : n.resume = Resume(w) => queue[n] = 0
        /\ \A v \in Workers : Busy(v, Resume(w)) => v = w
    BY <1>4, AloneWhenBusy DEF Crash
  <2>2. \A v \in Workers : Busy(v, r)' => Busy(v, r) /\ v # w
    BY <1>4 DEF Crash, Idle, Busy, Resume, TypeOK
  <2>3. queue' = [queue EXCEPT ![msg[w]] = @ + 1] /\ msg[w].resume = Resume(w)
    BY <1>4 DEF Crash, Resume
  <2>4. \A v \in Workers : Busy(v, r)' => Busy(v, r) /\ r # msg[w].resume
    BY <2>1, <2>2, <2>3
  <2> QED
    BY <1>0, <2>1, <2>3, <2>4, FirstMessage
<1>5. ASSUME NEW w \in Workers, Redeliver(w) PROVE CarriedOnce(r)'
  BY <1>5 DEF Redeliver, TypeOK
<1>6. CASE Restart
  BY <1>6 DEF Restart, CarriedOnce, Queued, Busy
<1>7. CASE UNCHANGED vars
  BY <1>7, <1>a DEF vars, Busy, Resume
<1> QED
  BY <1>1, <1>2, <1>3, <1>4, <1>5, <1>6, <1>7 DEF Next

-----------------------------------------------------------------------------
\* A step that leaves a worker and its resume alone keeps what the worker has
\* achieved.
LEMMA Undisturbed ==
    ASSUME NEW w \in Workers, NEW r \in Resumes, ProgressOf(w, r),
           wpc'[w] = wpc[w], msg'[w] = msg[w], json'[w] = json[w],
           seen'[w] = seen[w], status'[r] = status[r], saved'[r] = saved[r],
           pointIds'[r] = pointIds[r], vectors'[r] = vectors[r],
           del'[r] = del[r]
    PROVE  ProgressOf(w, r)'
  BY DEF ProgressOf, Achieved, Busy, Resume, Chunks

\* The one execution of a resume's task goes through its steps undisturbed:
\* uploads and deletes step aside or end its claims, other workers have other
\* resumes.
LEMMA ProgressInductive ==
    ASSUME TypeOK, RowInv, OneCarrier, Progress, [Next]_vars,
           MaxLosses = 0
    PROVE  Progress'
<1> SUFFICES ASSUME NEW v \in Workers, NEW r \in Resumes
             PROVE  ProgressOf(v, r)'
  BY DEF Progress
<1>0. ProgressOf(v, r)
  BY DEF Progress
<1> USE DEF TypeOK
<1>1. ASSUME NEW q \in Resumes, Upload(q) PROVE ProgressOf(v, r)'
  <2>1. CASE InsertRow(q)
    <3>1. ~Busy(v, q)
      BY <2>1 DEF InsertRow, RowInv, RowFacts, Carried
    <3>2. CASE r = q
      BY <2>1, <3>1, <3>2 DEF InsertRow, ProgressOf, Busy, Resume
    <3>3. CASE r # q
      BY <1>0, <2>1, <3>3, Undisturbed DEF InsertRow
    <3> QED
      BY <3>2, <3>3
  <2>2. CASE ~InsertRow(q)
    BY <1>0, <1>1, <2>2, Undisturbed DEF Upload, CheckDuplicate, PutFile,
       Dispatch, AbortUpload
  <2> QED
    BY <2>1, <2>2
<1>2. ASSUME NEW q \in Resumes, Delete(q) PROVE ProgressOf(v, r)'
  <2>1. CASE r # q
    BY <1>0, <1>2, <2>1, Undisturbed DEF Delete, StartDelete, DeleteFile,
       DeleteVectors, DeleteRow, AbortDelete
  <2>2. CASE r = q
    <3>1. del'[r] # "idle" /\ status'[r] \in {status[r], "absent"}
      BY <1>2, <2>2 DEF Delete, StartDelete, DeleteFile, DeleteVectors,
         DeleteRow, AbortDelete
    <3>2. wpc' = wpc /\ msg' = msg
      BY <1>2 DEF Delete, StartDelete, DeleteFile, DeleteVectors, DeleteRow,
         AbortDelete
    <3> QED
      BY <1>0, <3>1, <3>2 DEF ProgressOf, Busy, Resume
  <2> QED
    BY <2>1, <2>2
<1>3. ASSUME NEW w \in Workers, Work(w) PROVE ProgressOf(v, r)'
  <2>1. ASSUME NEW m \in Message, Take(w, m) PROVE ProgressOf(v, r)'
    <3>1. CASE v = w
      BY <2>1, <3>1 DEF Take, Goto, ProgressOf, Achieved, Parsing
    <3>2. CASE v # w
      BY <1>0, <2>1, <3>2, Undisturbed DEF Take, Goto
    <3> QED
      BY <3>1, <3>2
  <2>2. CASE Ack(w) \/ Raise(w)
    <3>1. CASE v = w
      BY <2>2, <3>1 DEF Ack, Raise, Idle, ProgressOf, Busy
    <3>2. CASE v # w
      BY <1>0, <2>2, <3>2, Undisturbed DEF Ack, Raise, Idle
    <3> QED
      BY <3>1, <3>2
  <2>3. ASSUME ~(\E m \in Message : Take(w, m)), ~Ack(w), ~Raise(w)
        PROVE  ProgressOf(v, r)'
    <3>1. \/ Fetch(w) \/ MarkProcessing(w) \/ Download(w) \/ Extract(w)
          \/ SelectParsed(w) \/ SaveParsed(w) \/ ClearVectors(w)
          \/ UpsertVectors(w) \/ RecordPoints(w) \/ MarkComplete(w)
      BY <1>3, <2>3 DEF Work
    <3> USE DEF Goto
    <3>2. wpc[w] # "idle" /\ msg' = msg /\ del' = del
      BY <3>1 DEF Fetch, MarkProcessing, Download, Extract, SelectParsed,
         SaveParsed, ClearVectors, UpsertVectors, RecordPoints, MarkComplete
    <3>3. /\ Resume(w) \in Resumes
          /\ \A u \in Workers : Busy(u, Resume(w)) => u = w
      BY <3>2, AloneWhenBusy
    <3>4. CASE v # w
      <4>1. CASE r = Resume(w)
        <5>1. ~Busy(v, r)
          BY <3>3, <3>4, <4>1
        <5>2. wpc'[v] = wpc[v]
          BY <3>1, <3>4 DEF Fetch, MarkProcessing, Download, Extract,
             SelectParsed, SaveParsed, ClearVectors, UpsertVectors,
             RecordPoints, MarkComplete
        <5> QED
          BY <3>2, <5>1, <5>2 DEF ProgressOf, Busy, Resume
      <4>2. CASE r # Resume(w)
        BY <1>0, <3>1, <3>4, <4>2, Undisturbed DEF Fetch, MarkProcessing,
           SetStatus, Download, Extract, SelectParsed, SaveParsed,
           ClearVectors, UpsertVectors, RecordPoints, MarkComplete
      <4> QED
        BY <4>1, <4>2
    <3>5. ASSUME v = w, r = Resume(w) PROVE ProgressOf(w, r)'
      <4> USE <3>2, <3>5, <1>0 DEF ProgressOf, Busy, Achieved, Parsing, Resume
      <4>0. upload[r] = "done" /\ (del[r] = "idle" => status[r] # "absent")
        BY <3>3 DEF RowInv, RowFacts, Carried
      <4>1. CASE Fetch(w)
        BY <4>0, <4>1 DEF Fetch
      <4>2. CASE MarkProcessing(w)
        BY <4>0, <4>2 DEF MarkProcessing, SetStatus
      <4>3. CASE Download(w)
        BY <4>3 DEF Download
      <4>4. CASE Extract(w)
        BY <4>4 DEF Extract
      <4>5. CASE SelectParsed(w)
        BY <4>5 DEF SelectParsed
      <4>6. CASE SaveParsed(w)
        BY <4>6 DEF SaveParsed
      <4>7. CASE ClearVectors(w)
        BY <4>7 DEF ClearVectors
      <4>8. CASE UpsertVectors(w)
        BY <4>8 DEF UpsertVectors, Chunks
      <4>9. CASE RecordPoints(w)
        <5>1. json[w] \in Parses
          BY <4>9 DEF RecordPoints
        <5> QED
          BY <4>9, <5>1, ConstantsAssumption DEF RecordPoints, Chunks
      <4>10. CASE MarkComplete(w)
        BY <4>0, <4>10 DEF MarkComplete, SetStatus
      <4> QED
        BY <3>1, <4>1, <4>2, <4>3, <4>4, <4>5, <4>6, <4>7, <4>8, <4>9, <4>10
    <3>6. CASE v = w /\ r # Resume(w)
      BY <3>2, <3>6 DEF ProgressOf, Busy, Resume
    <3> QED
      BY <3>4, <3>5, <3>6
  <2> QED
    BY <2>1, <2>2, <2>3
<1>4. ASSUME NEW w \in Workers, Crash(w) PROVE ProgressOf(v, r)'
  <2>1. CASE v = w
    BY <1>4, <2>1 DEF Crash, Idle, ProgressOf, Busy
  <2>2. CASE v # w
    BY <1>0, <1>4, <2>2, Undisturbed DEF Crash, Idle
  <2> QED
    BY <2>1, <2>2
<1>5. ASSUME NEW w \in Workers, Redeliver(w) PROVE ProgressOf(v, r)'
  BY <1>5 DEF Redeliver
<1>6. CASE Restart
  BY <1>6 DEF Restart, ProgressOf, Busy
<1>7. CASE UNCHANGED vars
  BY <1>0, <1>7, Undisturbed DEF vars
<1> QED
  BY <1>1, <1>2, <1>3, <1>4, <1>5, <1>6, <1>7 DEF Next

\* A resume becomes complete only when its execution has written all three
\* stores, and nobody rewrites them while it stays complete.
LEMMA IndexedInductive ==
    ASSUME TypeOK, RowInv, IndexInv, [Next]_vars
    PROVE  CompleteIsIndexed'
<1> SUFFICES ASSUME NEW r \in Resumes, status'[r] = "complete", del'[r] = "idle"
             PROVE  Indexed(r)'
  BY DEF CompleteIsIndexed
<1> USE DEF TypeOK
<1>a. ASSUME status'[r] = status[r], del'[r] = del[r], saved'[r] = saved[r],
             vectors'[r] = vectors[r], pointIds'[r] = pointIds[r]
      PROVE  Indexed(r)'
  BY <1>a DEF IndexInv, CompleteIsIndexed, Indexed, Chunks
<1>1. ASSUME NEW q \in Resumes, Upload(q) PROVE Indexed(r)'
  BY <1>1, <1>a DEF Upload, CheckDuplicate, PutFile, InsertRow, Dispatch,
     AbortUpload
<1>2. ASSUME NEW q \in Resumes, Delete(q) PROVE Indexed(r)'
  BY <1>2, <1>a DEF Delete, StartDelete, DeleteFile, DeleteVectors, DeleteRow,
     AbortDelete
<1>3. ASSUME NEW w \in Workers, Work(w) PROVE Indexed(r)'
  <2>1. CASE r # Resume(w)
    BY <1>3, <1>a, <2>1 DEF Work, Take, Fetch, MarkProcessing, SetStatus,
       Download, Extract, SelectParsed, SaveParsed, ClearVectors, UpsertVectors,
       RecordPoints, MarkComplete, Ack, Raise
  <2>2. CASE r = Resume(w) /\ wpc[w] # "idle"
    <3>1. del' = del => (del[r] = "idle" => Achieved(w, r))
      BY <2>2 DEF IndexInv, Progress, ProgressOf, Busy
    <3>2. CASE MarkProcessing(w)
      BY <2>2, <3>2 DEF MarkProcessing, SetStatus
    <3>3. CASE \/ SaveParsed(w) \/ ClearVectors(w) \/ UpsertVectors(w)
               \/ RecordPoints(w)
      BY <2>2, <3>1, <3>3 DEF SaveParsed, ClearVectors, UpsertVectors,
         RecordPoints, Goto, Achieved, Parsing
    <3>4. CASE MarkComplete(w)
      <4>1. json[w] \in Parses
        BY <3>4 DEF MarkComplete, Goto
      <4> QED
        BY <2>2, <3>1, <3>4, <4>1, ConstantsAssumption DEF MarkComplete, Goto,
           Achieved, Indexed, Chunks
    <3>5. CASE \/ \E m \in Message : Take(w, m)
               \/ Fetch(w) \/ Download(w) \/ Extract(w) \/ SelectParsed(w)
               \/ Ack(w) \/ Raise(w)
      BY <1>a, <3>5 DEF Take, Fetch, Download, Extract, SelectParsed, Ack, Raise
    <3> QED
      BY <1>3, <3>2, <3>3, <3>4, <3>5 DEF Work
  <2>3. CASE wpc[w] = "idle"
    <3>1. \E m \in Message : Take(w, m)
      BY <1>3, <2>3 DEF Work, Fetch, MarkProcessing, Download, Extract,
         SelectParsed, SaveParsed, ClearVectors, UpsertVectors, RecordPoints,
         MarkComplete, Ack, Raise, Goto, Steps
    <3> QED
      BY <1>a, <3>1 DEF Take
  <2> QED
    BY <2>1, <2>2, <2>3
<1>4. ASSUME NEW w \in Workers, Crash(w) \/ Redeliver(w) PROVE Indexed(r)'
  BY <1>4, <1>a DEF Crash, Redeliver
<1>5. CASE Restart
  BY <1>5, <1>a DEF Restart, Deleting
<1>6. CASE UNCHANGED vars
  BY <1>6, <1>a DEF vars
<1> QED
  BY <1>1, <1>2, <1>3, <1>4, <1>5, <1>6 DEF Next

\* While no message is redelivered behind a running worker, every resume has at
\* most one execution, which goes through its steps undisturbed.
THEOREM IndexCorrect ==
    ASSUME MaxLosses = 0
    PROVE  Spec => []IndexInv
<1>1. Init => IndexInv
  <2>1. Init => OneCarrier
    BY InitiallyQuiet DEF OneCarrier, CarriedOnce
  <2>2. Init => Progress
    BY DEF Init, Progress, ProgressOf, Busy
  <2>3. Init => CompleteIsIndexed
    BY DEF Init, CompleteIsIndexed
  <2> QED
    BY <2>1, <2>2, <2>3 DEF IndexInv
<1>2. TypeOK /\ RowInv /\ IndexInv /\ [Next]_vars => IndexInv'
  BY OneCarrierInductive, ProgressInductive, IndexedInductive DEF IndexInv
<1> QED
  BY <1>1, <1>2, TypeCorrect, RowsCorrect, PTL DEF Spec

\* A resume shown as complete is searchable as parsed, for every number of
\* workers, retries and crashes.
THEOREM CompleteResumesAreIndexed ==
    ASSUME MaxLosses = 0
    PROVE  Spec => []CompleteIsIndexed
<1>1. IndexInv => CompleteIsIndexed
  BY DEF IndexInv
<1> QED
  BY <1>1, IndexCorrect, PTL

-----------------------------------------------------------------------------
\* A worker that lets go of a resume in processing passes it on as a message or
\* has used its retries up.
LEMMA ProcessingIsCarriedInductive ==
    ASSUME Celery, TypeOK, IndexInv, ProcessingIsCarried, [Next]_vars
    PROVE  ProcessingIsCarried'
<1> SUFFICES ASSUME NEW r \in Resumes, status'[r] = "processing"
             PROVE  Carried(r)' \/ outcome'[r] = "failure"
  BY DEF ProcessingIsCarried
<1> USE DEF TypeOK
<1>a. ASSUME status'[r] = status[r], outcome'[r] = outcome[r],
             UNCHANGED <<wpc, msg>>, \A m \in Message : queue[m] > 0 => queue'[m] > 0
      PROVE  Carried(r)' \/ outcome'[r] = "failure"
  BY <1>a DEF ProcessingIsCarried, Carried, Queued, Busy, Resume
<1>1. ASSUME NEW q \in Resumes, Upload(q)
      PROVE  Carried(r)' \/ outcome'[r] = "failure"
  BY <1>1, <1>a DEF Upload, CheckDuplicate, PutFile, InsertRow, Dispatch,
     AbortUpload
<1>2. ASSUME NEW q \in Resumes, Delete(q)
      PROVE  Carried(r)' \/ outcome'[r] = "failure"
  BY <1>2, <1>a DEF Delete, StartDelete, DeleteFile, DeleteVectors, DeleteRow,
     AbortDelete
<1>3. ASSUME NEW w \in Workers, Work(w)
      PROVE  Carried(r)' \/ outcome'[r] = "failure"
  <2>0. Resume(w) \in Resumes \/ wpc[w] = "idle"
    BY DEF Resume, Message
  <2>1. ASSUME NEW m \in Message, Take(w, m)
        PROVE  Carried(r)' \/ outcome'[r] = "failure"
    <3>1. CASE m.resume = r
      BY <2>1, <3>1 DEF Take, Goto, Carried, Busy, Resume
    <3>2. CASE m.resume # r
      BY <2>1, <3>2 DEF Take, Goto, ProcessingIsCarried, Carried, Queued, Busy,
         Resume
    <3> QED
      BY <3>1, <3>2
  <2>2. ASSUME Ack(w) \/ Raise(w)
        PROVE  Carried(r)' \/ outcome'[r] = "failure"
    <3>1. wpc[w] # "idle" /\ msg[w] \in Message /\ status' = status
      BY <2>2 DEF Ack, Raise, Steps
    <3>2. CASE r # Resume(w)
      <4>1. outcome'[r] = outcome[r]
        BY <2>2, <3>2 DEF Ack, Raise
      <4>2. \A v \in Workers : Busy(v, r) => Busy(v, r)'
        BY <2>2, <3>2 DEF Ack, Raise, Idle, Busy, Resume
      <4>3. \A m \in Message : Queued(m, r) => Queued(m, r)'
        BY <2>2, <3>1 DEF Ack, Raise, Queued
      <4> QED
        BY <3>1, <4>1, <4>2, <4>3 DEF ProcessingIsCarried, Carried
    <3>3. CASE r = Resume(w) /\ Ack(w)
      BY <3>1, <3>3 DEF Ack, IndexInv, Progress, ProgressOf, Busy
    <3>4. CASE r = Resume(w) /\ Raise(w)
      <4>1. CASE msg[w].retries = MaxRetries
        BY <3>4, <4>1, ConstantsAssumption DEF Raise
      <4>2. CASE msg[w].retries < MaxRetries
        <5> DEFINE next == [resume |-> r, retries |-> msg[w].retries + 1]
        <5>1. next \in Message /\ next.resume = r
          BY <3>1, <4>2, ConstantsAssumption DEF Message
        <5>2. queue' = [queue EXCEPT ![next] = @ + 1]
          BY <3>4, <3>1, <4>2, ConstantsAssumption DEF Raise, Message
        <5> HIDE DEF next
        <5> QED
          BY <5>1, <5>2 DEF Carried, Queued
      <4> QED
        BY <3>4, <4>1, <4>2 DEF Raise
    <3> QED
      BY <2>2, <3>2, <3>3, <3>4
  <2>3. ASSUME ~(\E m \in Message : Take(w, m)), ~Ack(w), ~Raise(w)
        PROVE  Carried(r)' \/ outcome'[r] = "failure"
    <3>1. /\ UNCHANGED <<msg, queue, outcome>>
          /\ wpc' = [wpc EXCEPT ![w] = wpc'[w]] /\ wpc[w] # "idle"
          /\ wpc'[w] # "idle" /\ (r = Resume(w) \/ status'[r] = status[r])
      BY <1>3, <2>3 DEF Work, Fetch, MarkProcessing, SetStatus, Download,
         Extract, SelectParsed, SaveParsed, ClearVectors, UpsertVectors,
         RecordPoints, MarkComplete, Goto
    <3>2. CASE r = Resume(w)
      BY <3>1, <3>2 DEF Carried, Busy, Resume
    <3>3. CASE r # Resume(w)
      BY <3>1, <3>3 DEF ProcessingIsCarried, Carried, Queued, Busy, Resume
    <3> QED
      BY <3>2, <3>3
  <2> QED
    BY <2>1, <2>2, <2>3
<1>4. ASSUME NEW w \in Workers, Crash(w)
      PROVE  Carried(r)' \/ outcome'[r] = "failure"
  <2>1. msg[w] \in Message /\ status' = status /\ outcome' = outcome
    BY <1>4 DEF Crash
  <2>2. CASE r = Resume(w)
    BY <1>4, <2>1, <2>2 DEF Crash, Carried, Queued, Resume
  <2>3. CASE r # Resume(w)
    <3>1. \A v \in Workers : Busy(v, r) => Busy(v, r)'
      BY <1>4, <2>3 DEF Crash, Idle, Busy, Resume
    <3>2. \A m \in Message : Queued(m, r) => Queued(m, r)'
      BY <1>4, <2>1 DEF Crash, Queued
    <3> QED
      BY <2>1, <3>1, <3>2 DEF ProcessingIsCarried, Carried
  <2> QED
    BY <2>2, <2>3
<1>5. ASSUME NEW w \in Workers, Redeliver(w)
      PROVE  Carried(r)' \/ outcome'[r] = "failure"
  BY <1>5, <1>a DEF Redeliver
<1>6. CASE Restart
  BY <1>6 DEF Restart
<1>7. CASE UNCHANGED vars
  BY <1>7, <1>a DEF vars
<1> QED
  BY <1>1, <1>2, <1>3, <1>4, <1>5, <1>6, <1>7 DEF Next

\* With Celery, a resume in processing is never forgotten: a message or a worker
\* stands for it until its retries are used up.
THEOREM ProcessingResumesAreCarried ==
    ASSUME Celery, MaxLosses = 0
    PROVE  Spec => []ProcessingIsCarried
<1>1. Init => ProcessingIsCarried
  BY DEF Init, ProcessingIsCarried
<1>2. TypeOK /\ IndexInv /\ ProcessingIsCarried /\ [Next]_vars
        => ProcessingIsCarried'
  BY ProcessingIsCarriedInductive
<1> QED
  BY <1>1, <1>2, TypeCorrect, IndexCorrect, PTL DEF Spec

-----------------------------------------------------------------------------
(* Refinement: each step of the pipeline is a step of the life cycle or a    *)
(* stutter.                                                                  *)

\* What the owner sees of a resume, and what makes it stay the same.
View(r) == <<status[r], saved[r], pointIds[r], vectors[r], del[r]>>

\* A step after which no resume looks different is a stutter.
LEMMA SameView ==
    ASSUME \A r \in Resumes :
              shownStatus'[r] = shownStatus[r]
              /\ publishedIndex'[r] = publishedIndex[r]
    PROVE  UNCHANGED Lifecycle!lifecycleVars
<1>1. shownStatus' = shownStatus
  BY DEF shownStatus
<1>2. publishedIndex' = publishedIndex
  BY DEF publishedIndex
<1> QED
  BY <1>1, <1>2 DEF Lifecycle!lifecycleVars

\* A resume whose row, parse, points and delete request stay as they are looks
\* the same.
LEMMA ViewFixes ==
    ASSUME NEW r \in Resumes, View(r)' = View(r)
    PROVE  /\ shownStatus'[r] = shownStatus[r]
           /\ publishedIndex'[r] = publishedIndex[r]
  BY DEF View, shownStatus, publishedIndex

LEMMA LifecycleStep ==
    ASSUME TypeOK, RowInv, IndexInv, [Next]_vars
    PROVE  [Lifecycle!Next]_(Lifecycle!lifecycleVars)
<1> USE DEF TypeOK
<1>s. ASSUME \A r \in Resumes : View(r)' = View(r)
      PROVE  UNCHANGED Lifecycle!lifecycleVars
  BY <1>s, SameView, ViewFixes
<1>e. ASSUME NEW q \in Resumes, NEW s, NEW p,
             \A r \in Resumes : r # q => View(r)' = View(r),
             shownStatus'[q] = s, publishedIndex'[q] = p
      PROVE  /\ shownStatus' = [shownStatus EXCEPT ![q] = s]
             /\ publishedIndex' = [publishedIndex EXCEPT ![q] = p]
  <2>1. \A r \in Resumes : r # q => shownStatus'[r] = shownStatus[r]
                                    /\ publishedIndex'[r] = publishedIndex[r]
    BY <1>e, ViewFixes
  <2>2. shownStatus' = [shownStatus EXCEPT ![q] = s]
    BY <1>e, <2>1 DEF shownStatus
  <2>3. publishedIndex' = [publishedIndex EXCEPT ![q] = p]
    BY <1>e, <2>1 DEF publishedIndex
  <2> QED
    BY <2>2, <2>3
<1>q. ASSUME NEW q \in Resumes,
             \A r \in Resumes : r # q => View(r)' = View(r),
             shownStatus'[q] = shownStatus[q],
             publishedIndex'[q] = publishedIndex[q]
      PROVE  UNCHANGED Lifecycle!lifecycleVars
  BY <1>q, SameView, ViewFixes
<1> USE DEF Lifecycle!Show, Lifecycle!Withdraw
<1>1. ASSUME NEW q \in Resumes, Upload(q)
      PROVE  [Lifecycle!Next]_(Lifecycle!lifecycleVars)
  <2>1. CASE InsertRow(q)
    <3>1. status[q] = "absent" /\ del[q] = "idle"
      BY <2>1 DEF InsertRow, RowInv, RowFacts
    <3>2. \A r \in Resumes : r # q => View(r)' = View(r)
      BY <2>1 DEF InsertRow, View
    <3>3. /\ shownStatus[q] = "absent" /\ shownStatus'[q] = "pending"
          /\ publishedIndex[q] = None /\ publishedIndex'[q] = None
      BY <2>1, <3>1 DEF InsertRow, shownStatus, publishedIndex
    <3>4. /\ shownStatus' = [shownStatus EXCEPT ![q] = "pending"]
          /\ publishedIndex' = [publishedIndex EXCEPT ![q] = None]
      BY <3>2, <3>3, <1>e
    <3>5. publishedIndex' = publishedIndex
      BY <3>3, <3>4 DEF publishedIndex
    <3>6. Lifecycle!Insert(q)
      BY <3>3, <3>4, <3>5 DEF Lifecycle!Insert
    <3> QED
      BY <3>6 DEF Lifecycle!Next
  <2>2. CASE ~InsertRow(q)
    BY <1>1, <1>s, <2>2 DEF Upload, CheckDuplicate, PutFile, Dispatch,
       AbortUpload, View
  <2> QED
    BY <2>1, <2>2
<1>2. ASSUME NEW q \in Resumes, Delete(q)
      PROVE  [Lifecycle!Next]_(Lifecycle!lifecycleVars)
  <2>1. \A r \in Resumes : r # q => View(r)' = View(r)
    BY <1>2 DEF Delete, StartDelete, DeleteFile, DeleteVectors, DeleteRow,
       AbortDelete, View
  <2>2. CASE StartDelete(q) /\ del[q] = "idle"
    <3>1. /\ shownStatus[q] \in {"pending", "processing", "complete"}
          /\ shownStatus'[q] = "deleting" /\ publishedIndex'[q] = None
      BY <2>2 DEF StartDelete, shownStatus, publishedIndex
    <3>2. Lifecycle!Hide(q)
      BY <2>1, <3>1, <1>e DEF Lifecycle!Hide
    <3> QED
      BY <3>2 DEF Lifecycle!Next
  <2>3. CASE DeleteRow(q)
    <3>1. /\ shownStatus[q] = "deleting" /\ shownStatus'[q] = "deleted"
          /\ publishedIndex[q] = None /\ publishedIndex'[q] = None
      BY <2>3 DEF DeleteRow, shownStatus, publishedIndex
    <3>2. /\ shownStatus' = [shownStatus EXCEPT ![q] = "deleted"]
          /\ publishedIndex' = [publishedIndex EXCEPT ![q] = None]
      BY <2>1, <3>1, <1>e
    <3>3. publishedIndex' = publishedIndex
      BY <3>1, <3>2 DEF publishedIndex
    <3>4. Lifecycle!Remove(q)
      BY <3>1, <3>2, <3>3 DEF Lifecycle!Remove
    <3> QED
      BY <3>4 DEF Lifecycle!Next
  <2>4. CASE ~(StartDelete(q) /\ del[q] = "idle") /\ ~DeleteRow(q)
    <3>1. /\ del[q] \notin {"idle", "done"} /\ del'[q] \notin {"idle", "done"}
          /\ status' = status
      BY <1>2, <2>4 DEF Delete, StartDelete, DeleteFile, DeleteVectors,
         AbortDelete, Deleting
    <3>2. /\ shownStatus'[q] = shownStatus[q]
          /\ publishedIndex'[q] = publishedIndex[q]
      BY <3>1 DEF shownStatus, publishedIndex
    <3> QED
      BY <1>q, <2>1, <3>2
  <2> QED
    BY <2>2, <2>3, <2>4
<1>3. ASSUME NEW w \in Workers, Work(w)
      PROVE  [Lifecycle!Next]_(Lifecycle!lifecycleVars)
  <2>1. CASE \/ MarkProcessing(w) \/ SaveParsed(w) \/ ClearVectors(w)
             \/ UpsertVectors(w) \/ RecordPoints(w) \/ MarkComplete(w)
    <3> DEFINE q == Resume(w)
    <3>1. q \in Resumes /\ Busy(w, q) /\ del' = del
      BY <2>1 DEF MarkProcessing, SaveParsed, ClearVectors, UpsertVectors,
         RecordPoints, MarkComplete, Goto, Busy, Resume, Message
    <3>2. \A r \in Resumes : r # q => View(r)' = View(r)
      BY <2>1 DEF MarkProcessing, SetStatus, SaveParsed, ClearVectors,
         UpsertVectors, RecordPoints, MarkComplete, View
    <3>3. del[q] = "idle" => Achieved(w, q)
      BY <3>1 DEF IndexInv, Progress, ProgressOf
    <3>4. del[q] = "idle" => status[q] # "absent"
      BY <3>1 DEF RowInv, RowFacts, Carried
    <3> HIDE DEF q
    <3>5. CASE del[q] # "idle"
      <4>1. /\ shownStatus'[q] = shownStatus[q]
            /\ publishedIndex'[q] = publishedIndex[q]
        BY <3>1, <3>5 DEF shownStatus, publishedIndex
      <4> QED
        BY <1>q, <3>1, <3>2, <4>1
    <3>6. CASE del[q] = "idle" /\ MarkProcessing(w)
      <4>1. shownStatus[q] = status[q] /\ shownStatus'[q] = "processing"
            /\ publishedIndex'[q] = None
        BY <3>1, <3>4, <3>6 DEF MarkProcessing, SetStatus, shownStatus,
           publishedIndex, q
      <4>2. CASE status[q] = "processing"
        <5>1. publishedIndex[q] = None
          BY <3>1, <4>1, <4>2 DEF publishedIndex
        <5> QED
          BY <1>q, <3>1, <3>2, <4>1, <4>2, <5>1
      <4>3. CASE status[q] \in {"pending", "complete"}
        <5>1. Lifecycle!Start(q)
          BY <1>e, <3>1, <3>2, <4>1, <4>3 DEF Lifecycle!Start
        <5> QED
          BY <3>1, <5>1 DEF Lifecycle!Next
      <4> QED
        BY <3>1, <3>4, <3>6, <4>2, <4>3
    <3>7. CASE /\ del[q] = "idle"
               /\ \/ SaveParsed(w) \/ ClearVectors(w) \/ UpsertVectors(w)
                  \/ RecordPoints(w)
      <4>1. status[q] = "processing" /\ status' = status
        BY <3>3, <3>7 DEF SaveParsed, ClearVectors, UpsertVectors, RecordPoints,
           Goto, Achieved, Parsing
      <4>2. /\ shownStatus'[q] = shownStatus[q]
            /\ publishedIndex'[q] = publishedIndex[q]
        BY <3>1, <4>1 DEF shownStatus, publishedIndex
      <4> QED
        BY <1>q, <3>1, <3>2, <4>2
    <3>8. CASE del[q] = "idle" /\ MarkComplete(w)
      <4>1. json[w] \in Parses
        BY <3>8 DEF MarkComplete, Goto
      <4>2. shownStatus[q] = "processing" /\ shownStatus'[q] = "complete"
        BY <3>1, <3>3, <3>8 DEF MarkComplete, SetStatus, Goto, Achieved,
           Parsing, shownStatus, q
      <4>3. /\ saved'[q] = json[w] /\ vectors'[q] = Chunks(json[w])
            /\ pointIds'[q] = PointIds(json[w])
        BY <3>3, <3>8 DEF MarkComplete, Goto, Achieved, PointIds
      <4>4. publishedIndex'[q] = Lifecycle!Published(json[w])
        BY <3>1, <4>2, <4>3 DEF publishedIndex, Lifecycle!Published
      <4>5. Lifecycle!Publish(q)
        BY <1>e, <3>1, <3>2, <4>1, <4>2, <4>4 DEF Lifecycle!Publish
      <4> QED
        BY <3>1, <4>5 DEF Lifecycle!Next
    <3> QED
      BY <2>1, <3>5, <3>6, <3>7, <3>8
  <2>2. CASE \/ \E m \in Message : Take(w, m)
             \/ Fetch(w) \/ Download(w) \/ Extract(w) \/ SelectParsed(w)
             \/ Ack(w) \/ Raise(w)
    BY <1>s, <2>2 DEF Take, Fetch, Download, Extract, SelectParsed, Ack, Raise,
       View
  <2> QED
    BY <1>3, <2>1, <2>2 DEF Work
<1>4. ASSUME NEW w \in Workers, Crash(w) \/ Redeliver(w)
      PROVE  [Lifecycle!Next]_(Lifecycle!lifecycleVars)
  BY <1>4, <1>s DEF Crash, Redeliver, View
<1>5. CASE Restart
  <2>1. ASSUME NEW r \in Resumes
        PROVE  /\ shownStatus'[r] = shownStatus[r]
               /\ publishedIndex'[r] = publishedIndex[r]
    BY <1>5, <2>1 DEF Restart, Deleting, shownStatus, publishedIndex
  <2> QED
    BY <2>1, SameView
<1>6. CASE UNCHANGED vars
  BY <1>6, <1>s DEF vars, View
<1> QED
  BY <1>1, <1>2, <1>3, <1>4, <1>5, <1>6 DEF Next

\* Upload, worker and delete together implement the life cycle: a parse is
\* published at once, and changes only by being withdrawn first.
THEOREM PipelineImplementsLifecycle ==
    ASSUME MaxLosses = 0
    PROVE  Spec => LifecycleSpec
<1>1. Init => Lifecycle!Init
  BY DEF Init, Lifecycle!Init, shownStatus, publishedIndex
<1>2. TypeOK /\ RowInv /\ IndexInv /\ [Next]_vars
        => [Lifecycle!Next]_(Lifecycle!lifecycleVars)
  BY LifecycleStep
<1> QED
  BY <1>1, <1>2, TypeCorrect, RowsCorrect, IndexCorrect, PTL
  DEF Spec, LifecycleSpec, Lifecycle!Spec
=============================================================================
