------------------------ MODULE TemplateStoreProofs ------------------------
(* Proofs about TemplateStore.                                               *)
EXTENDS TemplateStore, TLAPS

USE DEF rows, locals

\* The default flags stay Boolean.
LEMMA DefaultTyped ==
    ASSUME isDefault \in [Templates -> BOOLEAN], NEW q, NEW t,
           MakeDefault(q, t)
    PROVE  isDefault' \in [Templates -> BOOLEAN]
<1>1. \A s \in Templates :
         (IF s = t THEN TRUE ELSE isDefault[s] /\ lock[s] # q) \in BOOLEAN
  BY Zenon
<1> QED
  BY <1>1, Zenon DEF MakeDefault

\* A request that is served has a template, one that will embed has a text.
THEOREM TypeCorrect == Spec => []TypeOK
<1> USE TemplateAssumption
<1>1. Init => TypeOK
  BY DEF Init, TypeOK, Vector, Chunks, Upserted, Active, Steps, CreateSteps,
     UpdateSteps, DefaultSteps, DeleteSteps
<1>2. TypeOK /\ [Next]_vars => TypeOK'
  <2> SUFFICES ASSUME TypeOK, [Next]_vars PROVE TypeOK'
    OBVIOUS
  <2> USE DEF TypeOK, Active, Steps, CreateSteps, UpdateSteps, DefaultSteps,
          DeleteSteps
  <2>1. ASSUME NEW q \in Requests, Start(q) PROVE TypeOK'
    <3>1. CASE StartCreate(q)
      BY <3>1 DEF StartCreate, Accept, Edits
    <3>2. CASE StartUpdate(q)
      BY <3>2 DEF StartUpdate, Accept, Edits
    <3>3. CASE StartSetDefault(q)
      BY <3>3 DEF StartSetDefault, Accept
    <3>4. CASE StartDelete(q)
      BY <3>4 DEF StartDelete, Accept, Edits
    <3> QED
      BY <2>1, <3>1, <3>2, <3>3, <3>4 DEF Start
  <2>2. ASSUME NEW q \in Requests, Serve(q) PROVE TypeOK'
    <3> USE DEF Goto, Release, Fail
    <3>1. CASE Snapshot(q)
      BY <3>1 DEF Snapshot
    <3>2. CASE Reach(q)
      BY <3>2 DEF Reach
    <3>3. CASE Reached(q)
      BY <3>3 DEF Reached
    <3>4. CASE Deadlock(q)
      BY <3>4 DEF Deadlock
    <3>5. CASE InsertTemplate(q)
      <4>1. /\ pc[q] = "insert" /\ tmpl[q] \in Templates /\ text[q] \in Texts
            /\ UNCHANGED <<vectors, tmpl, text, loaded, default, latest>>
        BY <3>5 DEF InsertTemplate
      <4>2. CASE Fail(q) /\ UNCHANGED rows
        BY <4>1, <4>2
      <4>3. CASE /\ Goto(q, "insert", "reload")
                 /\ row' = [row EXCEPT ![tmpl[q]] = text[q]]
                 /\ IF default[q] THEN MakeDefault(q, tmpl[q])
                                 ELSE UNCHANGED isDefault
                 /\ Release(q)
                 /\ UNCHANGED <<pointIds, targets>>
        <5>1. isDefault' \in [Templates -> BOOLEAN]
          BY <4>3, DefaultTyped
        <5> QED
          BY <4>1, <4>3, <5>1
      <4> QED
        BY <3>5, <4>2, <4>3 DEF InsertTemplate
    <3>6. CASE CommitText(q)
      BY <3>6 DEF CommitText
    <3>7. CASE RefreshText(q)
      BY <3>7 DEF RefreshText
    <3>8. CASE ClearVectors(q)
      BY <3>8 DEF ClearVectors
    <3>9. CASE UpsertVectors(q)
      BY <3>9 DEF UpsertVectors, Upserted, Chunks, Vector
    <3>10. CASE RecordPoints(q)
      BY <3>10 DEF RecordPoints
    <3>11. CASE Answer(q)
      BY <3>11 DEF Answer
    <3>12. CASE SetDefault(q)
      <4>1. /\ pc[q] = "setDefault"
            /\ UNCHANGED <<row, pointIds, vectors, tmpl, text, loaded, default,
                           latest>>
        BY <3>12 DEF SetDefault
      <4>2. CASE Fail(q) /\ UNCHANGED isDefault
        BY <4>1, <4>2
      <4>3. CASE /\ Goto(q, "setDefault", "done")
                 /\ MakeDefault(q, tmpl[q])
                 /\ Release(q)
                 /\ UNCHANGED targets
        <5>1. isDefault' \in [Templates -> BOOLEAN]
          BY <4>3, DefaultTyped
        <5> QED
          BY <4>1, <4>3, <5>1
      <4> QED
        BY <3>12, <4>2, <4>3 DEF SetDefault
    <3>13. CASE PurgeVectors(q)
      BY <3>13 DEF PurgeVectors
    <3>14. CASE RemoveRow(q)
      BY <3>14 DEF RemoveRow
    <3> QED
      BY <2>2, <3>1, <3>2, <3>3, <3>4, <3>5, <3>6, <3>7, <3>8, <3>9, <3>10,
         <3>11, <3>12, <3>13, <3>14 DEF Serve
  <2>3. ASSUME NEW q \in Requests, Abort(q) PROVE TypeOK'
    BY <2>3 DEF Abort, Fail, Release
  <2>4. CASE UNCHANGED vars
    BY <2>4 DEF vars
  <2> QED
    BY <2>1, <2>2, <2>3, <2>4 DEF Next
<1> QED
  BY <1>1, <1>2, PTL DEF Spec

\* What a step may do to the default flags: leave them, drop one with its row,
\* or commit a new default with everything the index allows beside it.
LEMMA DefaultStep ==
    ASSUME TypeOK, [Next]_vars
    PROVE  \/ UNCHANGED isDefault
           \/ \E t \in Templates :
                 /\ isDefault' = [isDefault EXCEPT ![t] = FALSE]
                 /\ row'[t] = None
           \/ \E q \in Requests, t \in Templates :
                 ~Conflict(q, t) /\ MakeDefault(q, t)
<1>1. ASSUME NEW q \in Requests, InsertTemplate(q)
      PROVE  \/ UNCHANGED isDefault
             \/ \E t \in Templates : ~Conflict(q, t) /\ MakeDefault(q, t)
  <2>1. tmpl[q] \in Templates
    BY <1>1 DEF InsertTemplate, TypeOK, Active, Steps, CreateSteps
  <2> QED
    BY <1>1, <2>1 DEF InsertTemplate, rows
<1>2. ASSUME NEW q \in Requests, SetDefault(q)
      PROVE  \/ UNCHANGED isDefault
             \/ \E t \in Templates : ~Conflict(q, t) /\ MakeDefault(q, t)
  <2>1. tmpl[q] \in Templates
    BY <1>2 DEF SetDefault, TypeOK, Active, Steps, DefaultSteps
  <2> QED
    BY <1>2, <2>1 DEF SetDefault
<1>3. ASSUME NEW q \in Requests, RemoveRow(q)
      PROVE  \E t \in Templates :
                /\ isDefault' = [isDefault EXCEPT ![t] = FALSE]
                /\ row'[t] = None
  <2>1. tmpl[q] \in Templates
    BY <1>3 DEF RemoveRow, Goto, TypeOK, Active, Steps, DeleteSteps
  <2> QED
    BY <1>3, <2>1 DEF RemoveRow, TypeOK
<1>4. ASSUME NEW q \in Requests, Start(q) \/ Abort(q)
      PROVE  UNCHANGED isDefault
  BY <1>4 DEF Start, StartCreate, StartUpdate, StartSetDefault, StartDelete,
     Abort
<1>5. ASSUME NEW q \in Requests, Serve(q), ~InsertTemplate(q), ~SetDefault(q),
             ~RemoveRow(q)
      PROVE  UNCHANGED isDefault
  BY <1>5 DEF Serve, Snapshot, Reach, Reached, Deadlock, CommitText,
     RefreshText, ClearVectors, UpsertVectors, RecordPoints, Answer,
     PurgeVectors
<1>6. CASE UNCHANGED vars
  BY <1>6 DEF vars
<1> QED
  BY <1>1, <1>2, <1>3, <1>4, <1>5, <1>6 DEF Next

\* A user never has two default templates, for any number of templates and
\* requests.
THEOREM OneDefault == Spec => []AtMostOneDefault
<1>1. Init => AtMostOneDefault
  <2> SUFFICES ASSUME Init PROVE AtMostOneDefault
    OBVIOUS
  <2>1. PICK d \in Existing \cup {None} :
            isDefault = [t \in Templates |-> t = d]
    BY Zenon DEF Init
  <2>2. \A t \in Templates : isDefault[t] => t = d
    BY <2>1, Zenon
  <2> QED
    BY <2>2, Zenon DEF AtMostOneDefault
<1>2. TypeOK /\ AtMostOneDefault /\ [Next]_vars => AtMostOneDefault'
  <2> SUFFICES ASSUME TypeOK, AtMostOneDefault, [Next]_vars
               PROVE  AtMostOneDefault'
    OBVIOUS
  <2>1. CASE UNCHANGED isDefault
    BY <2>1 DEF AtMostOneDefault
  <2>2. ASSUME NEW t \in Templates,
               isDefault' = [isDefault EXCEPT ![t] = FALSE]
        PROVE  AtMostOneDefault'
    BY <2>2 DEF AtMostOneDefault, TypeOK
  <2>3. ASSUME NEW q \in Requests, NEW t \in Templates, ~Conflict(q, t),
               MakeDefault(q, t)
        PROVE  AtMostOneDefault'
    <3>1. \A s \in Templates \ {t} : ~isDefault'[s]
      BY <2>3 DEF MakeDefault, Conflict
    <3> QED
      BY <3>1 DEF AtMostOneDefault
  <2> QED
    BY <2>1, <2>2, <2>3, DefaultStep
<1> QED
  BY <1>1, <1>2, TypeCorrect, PTL DEF Spec

\* No step takes a user's default away but the deletion of its template.
THEOREM DefaultStays == Spec => DefaultIsKept
<1> DEFINE Kept == \A s \in Templates : isDefault[s] /\ row'[s] # None =>
                       \E t \in Templates : isDefault'[t]
<1>1. TypeOK /\ [Next]_vars => [Kept]_vars
  <2> SUFFICES ASSUME TypeOK, [Next]_vars, NEW s \in Templates,
                      isDefault[s], row'[s] # None
               PROVE  \E t \in Templates : isDefault'[t]
    OBVIOUS
  <2>1. CASE UNCHANGED isDefault
    BY <2>1
  <2>2. ASSUME NEW t \in Templates, row'[t] = None,
               isDefault' = [isDefault EXCEPT ![t] = FALSE]
        PROVE  isDefault'[s]
    BY <2>2 DEF TypeOK
  <2>3. ASSUME NEW q \in Requests, NEW t \in Templates, MakeDefault(q, t)
        PROVE  isDefault'[t]
    BY <2>3 DEF MakeDefault
  <2> QED
    BY <2>1, <2>2, <2>3, DefaultStep
<1> QED
  BY <1>1, TypeCorrect, PTL DEF Spec, DefaultIsKept

-----------------------------------------------------------------------------
(* The index.                                                                *)

EditSteps == Steps \ DefaultSteps

\* Of a template that no request has been about, nothing is in Qdrant.
Untouched ==
    /\ \A q \in Requests : pc[q] = "idle" => tmpl[q] = None
    /\ \A t \in Templates :
           row[t] = None /\ (\A q \in Requests : tmpl[q] # t) => vectors[t] = {}

\* q, the last request about t's text, is the only one at work on it.  From the
\* moment it knows the text, that is the text of the row, and what it has done so far
\* is what Qdrant and the row hold.
EditedBy(q, t) ==
    /\ tmpl[q] = t /\ pc[q] \notin DefaultSteps \cup {"idle"}
    /\ \A p \in Requests : pc[p] \in EditSteps /\ tmpl[p] = t => p = q
    /\ pc[q] \in {"snapshot", "reach", "insert"} => row[t] = None
    /\ pc[q] \in {"snapshot", "reach", "insert", "reload", "upsert"} => vectors[t] = {}
    /\ pc[q] \in {"clear", "upsert", "record", "answer"} => row[t] = text[q]
    /\ pc[q] \in {"record", "answer"} => vectors[t] = Chunks(text[q])
    /\ pc[q] = "answer" => pointIds[t] = ChunkPoints[text[q]]
    /\ pc[q] = "done" /\ row[t] # None =>
           vectors[t] = Chunks(row[t]) /\ pointIds[t] = ChunkPoints[row[t]]

LatestEdits == \A t \in Templates : latest[t] # None => EditedBy(latest[t], t)

LEMMA IndexInit == Init => Untouched /\ LatestEdits
<1> SUFFICES ASSUME Init PROVE Untouched /\ LatestEdits
  OBVIOUS
<1>1. \A t \in Templates : row[t] = None => vectors[t] = {}
  BY DEF Init
<1> QED
  BY <1>1 DEF Init, Untouched, LatestEdits

LEMMA UntouchedStep ==
    ASSUME TypeOK, Untouched, [Next]_vars
    PROVE  Untouched'
<1> USE TemplateAssumption
        DEF Untouched, TypeOK, Goto, Fail, Accept, Active, Steps, CreateSteps, UpdateSteps,
            DefaultSteps, DeleteSteps
<1>1. ASSUME NEW q \in Requests, Start(q) PROVE Untouched'
  BY <1>1 DEF Start, StartCreate, StartUpdate, StartSetDefault, StartDelete
<1>2. ASSUME NEW q \in Requests, Serve(q) PROVE Untouched'
  <2>1. CASE Snapshot(q) \/ Reach(q) \/ Reached(q) \/ Deadlock(q)
    BY <2>1 DEF Snapshot, Reach, Reached, Deadlock
  <2>2. CASE InsertTemplate(q)
    BY <2>2 DEF InsertTemplate
  <2>3. CASE CommitText(q)
    BY <2>3 DEF CommitText
  <2>4. CASE RefreshText(q)
    BY <2>4 DEF RefreshText
  <2>5. CASE ClearVectors(q) \/ UpsertVectors(q) \/ PurgeVectors(q)
    <3>1. PICK s, new :
              /\ s \in {"upsert", "record", "remove"} /\ pc' = [pc EXCEPT ![q] = s]
              /\ vectors' = [vectors EXCEPT ![tmpl[q]] = new]
              /\ UNCHANGED <<row, tmpl>>
      BY <2>5 DEF ClearVectors, UpsertVectors, PurgeVectors
    <3> QED
      BY <3>1
  <2>6. CASE RecordPoints(q) \/ Answer(q) \/ SetDefault(q)
    BY <2>6 DEF RecordPoints, Answer, SetDefault
  <2>7. CASE RemoveRow(q)
    BY <2>7 DEF RemoveRow
  <2> QED
    BY <1>2, <2>1, <2>2, <2>3, <2>4, <2>5, <2>6, <2>7 DEF Serve
<1>3. ASSUME NEW q \in Requests, Abort(q) PROVE Untouched'
  BY <1>3 DEF Abort
<1>4. CASE UNCHANGED vars
  BY <1>4 DEF vars
<1> QED
  BY <1>1, <1>2, <1>3, <1>4 DEF Next

\* While the last request about t's text is at work, no step disturbs what it has
\* done so far, and its own steps add to it.
LEMMA EditedStep ==
    ASSUME TypeOK, NEW t \in Templates, NEW q \in Requests, EditedBy(q, t),
           NEW p \in Requests, Serve(p) \/ Abort(p)
    PROVE  EditedBy(q, t)'
<1> USE TemplateAssumption
        DEF EditedBy, TypeOK, Goto, Fail, Active, EditSteps, Steps, CreateSteps, UpdateSteps,
            DefaultSteps, DeleteSteps
<1>1. CASE Snapshot(p)
  BY <1>1 DEF Snapshot
<1>2. CASE Reach(p)
  BY <1>2 DEF Reach
<1>3. CASE Reached(p)
  BY <1>3 DEF Reached
<1>4. CASE Deadlock(p)
  BY <1>4 DEF Deadlock
<1>5. CASE InsertTemplate(p)
  BY <1>5 DEF InsertTemplate
<1>6. CASE CommitText(p)
  BY <1>6 DEF CommitText
<1>7. CASE RefreshText(p)
  BY <1>7 DEF RefreshText
<1>8. CASE ClearVectors(p)
  BY <1>8 DEF ClearVectors
<1>9. CASE UpsertVectors(p)
  BY <1>9 DEF UpsertVectors, Upserted
<1>10. CASE RecordPoints(p)
  BY <1>10 DEF RecordPoints
<1>11. CASE Answer(p)
  BY <1>11 DEF Answer
<1>12. CASE SetDefault(p)
  BY <1>12 DEF SetDefault
<1>13. CASE PurgeVectors(p)
  BY <1>13 DEF PurgeVectors
<1>14. CASE RemoveRow(p)
  BY <1>14 DEF RemoveRow
<1>15. CASE Abort(p)
  BY <1>15 DEF Abort
<1> QED
  BY <1>1, <1>2, <1>3, <1>4, <1>5, <1>6, <1>7, <1>8, <1>9, <1>10, <1>11, <1>12,
     <1>13, <1>14, <1>15 DEF Serve

\* A request that starts on the text of a template on which another one is at work
\* leaves no last one; otherwise it becomes the last one.
LEMMA StartedEdit ==
    ASSUME TypeOK, LatestEdits, NEW q \in Requests, NEW t \in Templates, NEW x,
           NEW s \in {"snapshot", "insert", "commit", "purge"},
           Accept(q, t, x, s), Edits(q, t), UNCHANGED <<row, vectors, pointIds>>,
           s \in {"snapshot", "insert"} => row[t] = None /\ vectors[t] = {}
    PROVE  LatestEdits'
<1> USE TemplateAssumption
        DEF EditedBy, TypeOK, Active, EditSteps, Steps, CreateSteps, UpdateSteps, DefaultSteps,
            DeleteSteps
<1>1. /\ pc[q] = "idle" /\ pc' = [pc EXCEPT ![q] = s]
      /\ tmpl' = [tmpl EXCEPT ![q] = t] /\ text' = [text EXCEPT ![q] = x]
  BY DEF Accept
<1>2. SUFFICES ASSUME NEW u \in Templates, NEW r \in Requests, latest'[u] = r
               PROVE  EditedBy(r, u)'
  <2>1. latest' \in [Templates -> Requests \cup {None}]
    BY DEF Edits
  <2> QED
    BY <2>1 DEF LatestEdits
<1>3. CASE u = t
  <2>1. r = q /\ \A p \in Requests : pc[p] \in EditSteps => tmpl[p] # t
    BY <1>2, <1>3 DEF Edits
  <2> QED
    BY <1>1, <1>3, <2>1
<1>4. CASE u # t
  <2>1. EditedBy(r, u)
    BY <1>2, <1>4 DEF Edits, LatestEdits
  <2>2. r # q
    BY <1>1, <2>1
  <2>3. pc'[r] = pc[r] /\ tmpl'[r] = tmpl[r] /\ text'[r] = text[r]
    BY <1>1, <2>2
  <2>4. \A p \in Requests : pc'[p] \in EditSteps /\ tmpl'[p] = u => p = r
    BY <1>1, <1>4, <2>1
  <2> QED
    BY <2>1, <2>3, <2>4
<1> QED
  BY <1>3, <1>4

LEMMA StartStep ==
    ASSUME TypeOK, Untouched, LatestEdits, NEW q \in Requests, Start(q)
    PROVE  LatestEdits'
<1>1. CASE StartCreate(q)
  <2>1. PICK t \in Templates, x \in Texts, s \in {"snapshot", "insert"} :
            /\ row[t] = None /\ \A p \in Requests : tmpl[p] # t
            /\ Accept(q, t, x, s) /\ Edits(q, t)
    BY <1>1 DEF StartCreate
  <2>2. vectors[t] = {}
    BY <2>1 DEF Untouched
  <2> QED
    BY <1>1, <2>1, <2>2, StartedEdit DEF StartCreate, rows
<1>2. CASE StartUpdate(q)
  BY <1>2, StartedEdit DEF StartUpdate, rows
<1>3. CASE StartSetDefault(q)
  BY <1>3 DEF StartSetDefault, EditedBy, LatestEdits, TypeOK, Accept, EditSteps, Steps,
     CreateSteps, UpdateSteps, DefaultSteps, DeleteSteps
<1>4. CASE StartDelete(q)
  BY <1>4, StartedEdit DEF StartDelete, rows
<1> QED
  BY <1>1, <1>2, <1>3, <1>4 DEF Start

LEMMA LatestEditsStep ==
    ASSUME TypeOK, Untouched, LatestEdits, [Next]_vars
    PROVE  LatestEdits'
<1>1. ASSUME NEW q \in Requests, Start(q) PROVE LatestEdits'
  BY <1>1, StartStep
<1>2. ASSUME NEW p \in Requests, Serve(p) \/ Abort(p) PROVE LatestEdits'
  <2>1. latest' = latest
    BY <1>2 DEF Serve, Snapshot, Reach, Reached, Deadlock, InsertTemplate, CommitText,
       RefreshText, ClearVectors, UpsertVectors, RecordPoints, Answer, SetDefault,
       PurgeVectors, RemoveRow, Abort
  <2>2. ASSUME NEW t \in Templates, latest[t] # None PROVE EditedBy(latest[t], t)'
    <3>1. latest[t] \in Requests /\ EditedBy(latest[t], t)
      BY <2>2 DEF TypeOK, LatestEdits
    <3> QED
      BY <1>2, <2>1, <3>1, EditedStep
  <2> QED
    BY <2>1, <2>2 DEF LatestEdits
<1>3. CASE UNCHANGED vars
  BY <1>3 DEF vars, LatestEdits, EditedBy
<1> QED
  BY <1>1, <1>2, <1>3 DEF Next

\* Whatever failed or overlapped before: after a POST or PATCH that succeeded and
\* that no other request about the text overlapped, Qdrant holds the chunks of the
\* stored text and no others.
THEOREM IndexIsCurrent == Spec => []LatestIsIndexed
<1>1. Init => Untouched /\ LatestEdits
  BY IndexInit
<1>2. TypeOK /\ Untouched /\ LatestEdits /\ [Next]_vars => Untouched' /\ LatestEdits'
  BY UntouchedStep, LatestEditsStep
<1>3. LatestEdits => LatestIsIndexed
  BY DEF LatestEdits, EditedBy, LatestIsIndexed
<1> QED
  BY <1>1, <1>2, <1>3, TypeCorrect, PTL DEF Spec
=============================================================================
