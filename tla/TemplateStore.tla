--------------------------- MODULE TemplateStore ---------------------------
(***************************************************************************)
(* The templates of one user: POST, PATCH, set-default and DELETE requests *)
(* run concurrently, each as a sequence of awaits on PostgreSQL and Qdrant. *)
(* Two things are at stake: at most one template is the default, which the *)
(* row locks and the partial unique index of the migration decide, and the *)
(* points in Qdrant are those of the stored answers, which nothing decides *)
(* but the order of the requests.                                          *)
(*                                                                         *)
(* A template id is fresh per POST.  What is embedded of a template, its   *)
(* name and answers, is one member of Texts; ChunkPoints gives the         *)
(* deterministic ids of its chunks.                                        *)
(***************************************************************************)
EXTENDS Integers

CONSTANTS
    Templates,    \* template ids
    Existing,     \* the templates stored before
    Requests,     \* API requests, each served once
    Texts,        \* names and answers a template may hold
    Points,       \* Qdrant point ids within one template
    ChunkPoints,  \* the point ids of each text's chunks
    None          \* no row, no lock, no request

ASSUME TemplateAssumption ==
    /\ Existing \subseteq Templates
    /\ ChunkPoints \in [Texts -> SUBSET Points]
    /\ None \notin Texts /\ None \notin Requests /\ None \notin Templates

VARIABLES
    row,        \* each template's text in PostgreSQL, None when there is no row
    isDefault,  \* templates.is_default, as committed
    pointIds,   \* templates.qdrant_point_ids, {} for NULL
    vectors,    \* Qdrant: the points whose payload names the template
    lock,       \* the request whose open transaction has updated the row
    pc,         \* the step each request is about to take
    tmpl,       \* the template each request is about
    text,       \* the text each request will store or embed
    loaded,     \* the text each PATCH read before changing it
    default,    \* is the request to make its template the default?
    targets,    \* the rows an UPDATE of is_default still has to reach
    latest      \* history: the last request about each template's text, None
                \* when it overlapped another one

rows   == <<row, isDefault, pointIds>>
locals == <<tmpl, text, loaded, default>>
vars   == <<row, isDefault, pointIds, vectors, lock, pc, tmpl, text, loaded,
            default, targets, latest>>

Vector == [id : Points, text : Texts]
Chunks(x) == {[id |-> i, text |-> x] : i \in ChunkPoints[x]}

\* The points after an upsert of x's chunks: points of other ids stay.
Upserted(old, x) == {v \in old : v.id \notin ChunkPoints[x]} \cup Chunks(x)

CreateSteps  == {"snapshot", "reach", "insert", "reload", "upsert", "record", "answer"}
UpdateSteps  == {"commit", "refresh", "clear", "upsert", "record", "answer"}
DefaultSteps == {"snapshotAll", "reachAll", "setDefault"}
DeleteSteps  == {"purge", "remove"}
Steps == CreateSteps \cup UpdateSteps \cup DefaultSteps \cup DeleteSteps

Active(q) == pc[q] \in Steps

\* Two earlier updates of each template, to x and to y, may have overlapped: either
\* may be the one stored, and the points of x that y does not replace remain.
Init ==
    /\ row \in [Templates -> Texts \cup {None}]
    /\ \A t \in Templates : row[t] # None <=> t \in Existing
    /\ \E x, y \in [Existing -> Texts] :
           /\ pointIds = [t \in Templates |->
                             IF t \in Existing THEN ChunkPoints[y[t]] ELSE {}]
           /\ vectors = [t \in Templates |->
                            IF t \in Existing THEN Upserted(Chunks(x[t]), y[t]) ELSE {}]
    /\ \E d \in Existing \cup {None} : isDefault = [t \in Templates |-> t = d]
    /\ lock = [t \in Templates |-> None]
    /\ pc = [q \in Requests |-> "idle"]
    /\ tmpl = [q \in Requests |-> None]
    /\ text = [q \in Requests |-> None]
    /\ loaded = [q \in Requests |-> None]
    /\ default = [q \in Requests |-> FALSE]
    /\ targets = [q \in Requests |-> {}]
    /\ latest = [t \in Templates |-> None]

-----------------------------------------------------------------------------
(* Common steps of the requests.                                            *)

Goto(q, from, to) ==
    /\ pc[q] = from
    /\ pc' = [pc EXCEPT ![q] = to]

\* No open transaction has updated the row; a writer waits until this holds.
Free(t) == lock[t] = None

\* The end of q's transaction, by commit or rollback.
Release(q) ==
    lock' = [t \in Templates |-> IF lock[t] = q THEN None ELSE lock[t]]

\* Mutant of Fail: a failing request does not roll its transaction back.
FailKeepingLocks(q) ==
    /\ pc' = [pc EXCEPT ![q] = "failed"]
    /\ targets' = [targets EXCEPT ![q] = {}]
    /\ UNCHANGED lock

Fail(q) ==
    /\ pc' = [pc EXCEPT ![q] = "failed"]
    /\ Release(q)
    /\ targets' = [targets EXCEPT ![q] = {}]

Accept(q, t, x, step) ==
    /\ pc[q] = "idle"
    /\ pc' = [pc EXCEPT ![q] = step]
    /\ tmpl' = [tmpl EXCEPT ![q] = t]
    /\ text' = [text EXCEPT ![q] = x]

\* History: q, about to start, is the only request at work on the text of t.
Edits(q, t) ==
    latest' = [latest EXCEPT ![t] =
                  IF \E p \in Requests :
                        Active(p) /\ pc[p] \notin DefaultSteps /\ tmpl[p] = t
                  THEN None ELSE q]

-----------------------------------------------------------------------------
(* UPDATE templates SET is_default = FALSE, the first statement of POST with *)
(* is_default and of set-default.  It fixes the rows it will reach when it   *)
(* starts, then locks them one after the other, each when its holder is done.*)

Snapshot(q) ==
    /\ \/ /\ Goto(q, "snapshot", "reach")
          /\ targets' = [targets EXCEPT ![q] = {t \in Templates : isDefault[t]}]
       \/ /\ Goto(q, "snapshotAll", "reachAll")
          /\ targets' = [targets EXCEPT ![q] = {t \in Templates : row[t] # None}]
    /\ UNCHANGED <<rows, vectors, lock, locals, latest>>

\* The condition is evaluated again on the row as its holder left it.
StillMatches(q, t) ==
    /\ row[t] # None
    /\ pc[q] = "reach" => isDefault[t]

Reach(q) ==
    /\ pc[q] \in {"reach", "reachAll"}
    /\ \E t \in targets[q] :
           /\ Free(t)
           /\ targets' = [targets EXCEPT ![q] = @ \ {t}]
           /\ lock' = IF StillMatches(q, t) THEN [lock EXCEPT ![t] = q] ELSE lock
    /\ UNCHANGED <<rows, vectors, pc, locals, latest>>

\* Mutant of Reached: the cleared defaults are committed at once.
ReachedAndCommitted(q) ==
    /\ targets[q] = {}
    /\ \/ Goto(q, "reach", "insert")
       \/ Goto(q, "reachAll", "setDefault")
    /\ isDefault' = [t \in Templates |-> isDefault[t] /\ lock[t] # q]
    /\ UNCHANGED <<row, pointIds, vectors, lock, locals, targets, latest>>

Reached(q) ==
    /\ targets[q] = {}
    /\ \/ Goto(q, "reach", "insert")
       \/ Goto(q, "reachAll", "setDefault")
    /\ UNCHANGED <<rows, vectors, lock, locals, targets, latest>>

\* Mutant of Conflict: the index is not there.
NoConflict(q, t) == FALSE

\* The partial unique index: another committed default that q does not clear.
Conflict(q, t) ==
    \E s \in Templates \ {t} : isDefault[s] /\ lock[s] # q

\* q's transaction commits with t as the default.
MakeDefault(q, t) ==
    isDefault' = [s \in Templates |->
                     IF s = t THEN TRUE ELSE isDefault[s] /\ lock[s] # q]

\* PostgreSQL ends one of two transactions that wait for each other.
Deadlock(q) ==
    /\ pc[q] \in {"reach", "reachAll"}
    /\ \E p \in Requests \ {q}, s, t \in Templates :
           /\ s \in targets[q] /\ lock[s] = p
           /\ t \in targets[p] /\ lock[t] = q
    /\ Fail(q)
    /\ UNCHANGED <<rows, vectors, locals, latest>>

-----------------------------------------------------------------------------
(* ingest_template, used by POST and PATCH, and the answer that follows.     *)

\* Mutant of ClearVectors: replace_existing = False.
KeepVectors(q) ==
    /\ Goto(q, "clear", "upsert")
    /\ UNCHANGED <<rows, vectors, lock, locals, targets, latest>>

\* delete_by_source_id, when replace_existing is set.
ClearVectors(q) ==
    /\ Goto(q, "clear", "upsert")
    /\ vectors' = [vectors EXCEPT ![tmpl[q]] = {}]
    /\ UNCHANGED <<rows, lock, locals, targets, latest>>

UpsertVectors(q) ==
    /\ Goto(q, "upsert", "record")
    /\ vectors' = [vectors EXCEPT ![tmpl[q]] = Upserted(@, text[q])]
    /\ UNCHANGED <<rows, lock, locals, targets, latest>>

\* The UPDATE matches nothing when the row is gone.
RecordPoints(q) ==
    LET t == tmpl[q] IN
    /\ Goto(q, "record", "answer")
    /\ Free(t)
    /\ pointIds' = [pointIds EXCEPT ![t] =
                       IF row[t] = None THEN @ ELSE ChunkPoints[text[q]]]
    /\ UNCHANGED <<row, isDefault, vectors, lock, locals, targets, latest>>

\* db.refresh() raises when the row is gone.
Answer(q) ==
    /\ Goto(q, "answer", IF row[tmpl[q]] = None THEN "failed" ELSE "done")
    /\ UNCHANGED <<rows, vectors, lock, locals, targets, latest>>

-----------------------------------------------------------------------------
(* POST /templates/                                                          *)

StartCreate(q) ==
    /\ \E t \in Templates, x \in Texts, d \in BOOLEAN :
           /\ row[t] = None
           /\ \A p \in Requests : tmpl[p] # t
           /\ Accept(q, t, x, IF d THEN "snapshot" ELSE "insert")
           /\ default' = [default EXCEPT ![q] = d]
           /\ Edits(q, t)
    /\ UNCHANGED <<rows, vectors, lock, loaded, targets>>

InsertTemplate(q) ==
    LET t == tmpl[q] IN
    /\ pc[q] = "insert"
    /\ \/ /\ default[q] /\ Conflict(q, t)
          /\ Fail(q)
          /\ UNCHANGED rows
       \/ /\ ~(default[q] /\ Conflict(q, t))
          /\ Goto(q, "insert", "reload")
          /\ row' = [row EXCEPT ![t] = text[q]]
          /\ IF default[q] THEN MakeDefault(q, t) ELSE UNCHANGED isDefault
          /\ Release(q)
          /\ UNCHANGED <<pointIds, targets>>
    /\ UNCHANGED <<vectors, locals, latest>>

-----------------------------------------------------------------------------
(* PATCH /templates/{template_id}.  A body that changes nothing embedded     *)
(* leaves the text as it was loaded.                                         *)

StartUpdate(q) ==
    /\ \E t \in Templates, x \in Texts :
           /\ row[t] # None
           /\ Accept(q, t, x, "commit")
           /\ loaded' = [loaded EXCEPT ![q] = row[t]]
           /\ Edits(q, t)
    /\ UNCHANGED <<rows, vectors, lock, default, targets>>

\* A column set to the value it was loaded with is not written.  The UPDATE must
\* match the row.
CommitText(q) ==
    LET t == tmpl[q] IN
    /\ pc[q] = "commit"
    /\ \/ /\ text[q] = loaded[q]
          /\ Goto(q, "commit", "refresh")
          /\ UNCHANGED <<row, lock, targets>>
       \/ /\ text[q] # loaded[q] /\ Free(t) /\ row[t] # None
          /\ Goto(q, "commit", "refresh")
          /\ row' = [row EXCEPT ![t] = text[q]]
          /\ UNCHANGED <<lock, targets>>
       \/ /\ text[q] # loaded[q] /\ row[t] = None
          /\ Fail(q)
          /\ UNCHANGED row
    /\ UNCHANGED <<isDefault, pointIds, vectors, locals, latest>>

\* Mutant of RefreshText: the refresh tolerates a deleted row.
RefreshAnyway(q) ==
    /\ Goto(q, "refresh", "clear") \/ Goto(q, "reload", "upsert")
    /\ text' = [text EXCEPT ![q] = row[tmpl[q]]]
    /\ UNCHANGED <<rows, vectors, lock, tmpl, loaded, default, targets, latest>>

\* What is embedded, by POST and PATCH, is the row as db.refresh() finds it.
RefreshText(q) ==
    LET t == tmpl[q] IN
    /\ \/ Goto(q, "refresh", IF row[t] = None THEN "failed" ELSE "clear")
       \/ Goto(q, "reload", IF row[t] = None THEN "failed" ELSE "upsert")
    /\ text' = [text EXCEPT ![q] = IF row[t] = None THEN @ ELSE row[t]]
    /\ UNCHANGED <<rows, vectors, lock, tmpl, loaded, default, targets, latest>>

-----------------------------------------------------------------------------
(* POST /templates/{template_id}/set-default                                 *)

StartSetDefault(q) ==
    /\ \E t \in Templates :
           /\ row[t] # None
           /\ Accept(q, t, None, "snapshotAll")
    /\ default' = [default EXCEPT ![q] = TRUE]
    /\ UNCHANGED <<rows, vectors, lock, loaded, targets, latest>>

\* The UPDATE of the template itself must match its row.
SetDefault(q) ==
    LET t == tmpl[q] IN
    /\ pc[q] = "setDefault"
    /\ \/ /\ row[t] = None \/ Conflict(q, t)
          /\ Fail(q)
          /\ UNCHANGED isDefault
       \/ /\ row[t] # None /\ ~Conflict(q, t)
          /\ Goto(q, "setDefault", "done")
          /\ MakeDefault(q, t)
          /\ Release(q)
          /\ UNCHANGED targets
    /\ UNCHANGED <<row, pointIds, vectors, locals, latest>>

-----------------------------------------------------------------------------
(* DELETE /templates/{template_id}                                           *)

StartDelete(q) ==
    /\ \E t \in Templates :
           /\ row[t] # None
           /\ Accept(q, t, None, "purge")
           /\ Edits(q, t)
    /\ UNCHANGED <<rows, vectors, lock, loaded, default, targets>>

PurgeVectors(q) ==
    /\ Goto(q, "purge", "remove")
    /\ vectors' = [vectors EXCEPT ![tmpl[q]] = {}]
    /\ UNCHANGED <<rows, lock, locals, targets, latest>>

RemoveRow(q) ==
    LET t == tmpl[q] IN
    /\ Goto(q, "remove", "done")
    /\ Free(t)
    /\ row' = [row EXCEPT ![t] = None]
    /\ isDefault' = [isDefault EXCEPT ![t] = FALSE]
    /\ pointIds' = [pointIds EXCEPT ![t] = {}]
    /\ UNCHANGED <<vectors, lock, locals, targets, latest>>

-----------------------------------------------------------------------------
\* Qdrant, Redis, the embedding service or the database fails, or the process
\* dies: the open transaction is rolled back, what is committed stays.
Abort(q) ==
    /\ Active(q)
    /\ Fail(q)
    /\ UNCHANGED <<rows, vectors, locals, latest>>

Start(q) ==
    StartCreate(q) \/ StartUpdate(q) \/ StartSetDefault(q) \/ StartDelete(q)

Serve(q) ==
    \/ Snapshot(q) \/ Reach(q) \/ Reached(q) \/ Deadlock(q)
    \/ InsertTemplate(q) \/ CommitText(q) \/ RefreshText(q)
    \/ ClearVectors(q) \/ UpsertVectors(q) \/ RecordPoints(q) \/ Answer(q)
    \/ SetDefault(q) \/ PurgeVectors(q) \/ RemoveRow(q)

Next == \E q \in Requests : Start(q) \/ Serve(q) \/ Abort(q)

Spec == Init /\ [][Next]_vars

\* A request that was accepted is served; the database ends deadlocks.
FairSpec == Spec /\ \A q \in Requests : WF_vars(Serve(q))

-----------------------------------------------------------------------------
TypeOK ==
    /\ row \in [Templates -> Texts \cup {None}]
    /\ isDefault \in [Templates -> BOOLEAN]
    /\ pointIds \in [Templates -> SUBSET Points]
    /\ vectors \in [Templates -> SUBSET Vector]
    /\ lock \in [Templates -> Requests \cup {None}]
    /\ pc \in [Requests -> Steps \cup {"idle", "done", "failed"}]
    /\ tmpl \in [Requests -> Templates \cup {None}]
    /\ text \in [Requests -> Texts \cup {None}]
    /\ loaded \in [Requests -> Texts \cup {None}]
    /\ default \in [Requests -> BOOLEAN]
    /\ targets \in [Requests -> SUBSET Templates]
    /\ latest \in [Templates -> Requests \cup {None}]
    /\ \A q \in Requests : Active(q) => tmpl[q] \in Templates
    /\ \A q \in Requests :
           pc[q] \in CreateSteps \cup UpdateSteps => text[q] \in Texts

\* A user has at most one default template, however creations and set-default
\* requests interleave: what the UPDATE does not reach, the index refuses.
AtMostOneDefault ==
    \A s, t \in Templates : isDefault[s] /\ isDefault[t] => s = t

\* A user who has a default keeps one until its template is deleted: no request
\* that fails between clearing the old default and setting the new one leaves
\* the extension without.
DefaultIsKept ==
    [][\A s \in Templates : isDefault[s] /\ row'[s] # None =>
           \E t \in Templates : isDefault'[t]]_vars

\* When the last request about a template's text was a POST or PATCH that
\* succeeded and that no other one overlapped, Qdrant holds the chunks of the
\* stored text and no others, whatever failed or overlapped before.
LatestIsIndexed ==
    \A t \in Templates :
        /\ row[t] # None
        /\ latest[t] # None /\ pc[latest[t]] = "done"
        => vectors[t] = Chunks(row[t]) /\ pointIds[t] = ChunkPoints[row[t]]

\* Row locks are always released: no request waits for ever on another.
RequestsEnd == \A q \in Requests : Active(q) ~> ~Active(q)
=============================================================================
