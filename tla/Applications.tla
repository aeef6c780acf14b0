---------------------------- MODULE Applications ----------------------------
(***************************************************************************)
(* One application session and its answers: bulk saves, status updates and  *)
(* the ingestion of answers into the RAG memory.  A request loads rows with *)
(* one SELECT after the other and writes at its commit, column by column:   *)
(* SQLAlchemy writes a column only when its value differs from the one      *)
(* loaded, so overlapping requests mix their columns.                      *)
(*                                                                         *)
(* Of an answer, `text' stands for answer_text and `source' for the         *)
(* provenance columns.  Nothing in the repository inserts form_fields: the   *)
(* ones the foreign key knows are a constant.                               *)
(***************************************************************************)
EXTENDS Integers, Sequences, FiniteSets

CONSTANTS
    Requests,    \* API requests, each made once
    FormFields,  \* the application's rows of form_fields
    Bodies,      \* bodies of bulk saves: sequences of [field, text, source]
    Statuses,    \* ApplicationStatus
    None         \* no row, no text

Items == UNION {{b[i] : i \in DOMAIN b} : b \in Bodies}

ASSUME ApplicationAssumption ==
    /\ Bodies \subseteq Seq(Items)
    /\ \A x \in Items : x = [field |-> x.field, text |-> x.text, source |-> x.source]
    /\ {"detected", "autofilled"} \subseteq Statuses
    /\ None \notin Requests \cup Statuses

VARIABLES
    app,        \* the row of applications, None before it is created
    answers,    \* the rows of application_answers
    memory,     \* Qdrant: past answers, as embedded
    pc,         \* the step each request is about to take
    body,       \* what each bulk save sends
    asked,      \* the status each update asks for
    loadedApp,  \* the application as each request loaded it
    loaded,     \* the row found for each item so far, None for none
    latest,     \* history: the last request, None when it overlapped
    overlap     \* history: have two saves overlapped?

rows   == <<app, answers, memory>>
locals == <<body, asked, loadedApp, loaded>>
ghosts == <<latest, overlap>>
vars   == <<rows, pc, locals, ghosts>>

SaveSteps == {"select", "commit"}
Active    == SaveSteps \cup {"setStatus", "upsert"}

\* The row as it is inserted.
Created == [status |-> "detected", submitted |-> FALSE, filled |-> 0, ai |-> 0]

Init ==
    /\ app \in {None, Created} /\ answers = {} /\ memory = {}
    /\ pc = [q \in Requests |-> "idle"]
    /\ body = [q \in Requests |-> <<>>]
    /\ asked = [q \in Requests |-> None]
    /\ loadedApp = [q \in Requests |-> None]
    /\ loaded = [q \in Requests |-> <<>>]
    /\ latest = None /\ overlap = FALSE

Goto(q, from, to) ==
    /\ pc[q] = from
    /\ pc' = [pc EXCEPT ![q] = to]

\* The session of q is closed.
Forget(q) ==
    /\ loadedApp' = [loadedApp EXCEPT ![q] = None]
    /\ loaded' = [loaded EXCEPT ![q] = <<>>]
    /\ UNCHANGED <<body, asked>>

\* History: q starts a write.
Writes(q) ==
    latest' = IF \E p \in Requests : pc[p] \in Active THEN None ELSE q

\* POST /applications/: one INSERT.
CreateApplication(q) ==
    /\ app = None
    /\ Goto(q, "idle", "done")
    /\ app' = Created
    /\ UNCHANGED <<answers, memory, locals, ghosts>>

-----------------------------------------------------------------------------
(* PATCH /applications/{application_id}/status                              *)

\* What a column holds after a commit that assigns new to the value it loaded.
Written(now, old, new) == IF new = old THEN now ELSE new

\* Mutant of StartStatus: the application is not looked for.
StartAnyStatus(q) ==
    /\ Goto(q, "idle", "setStatus")
    /\ asked' \in {[asked EXCEPT ![q] = s] : s \in Statuses}
    /\ loadedApp' = [loadedApp EXCEPT ![q] = app]
    /\ Writes(q)
    /\ UNCHANGED <<rows, body, loaded, overlap>>

StartStatus(q) ==
    /\ app # None
    /\ Goto(q, "idle", "setStatus")
    /\ asked' \in {[asked EXCEPT ![q] = s] : s \in Statuses}
    /\ loadedApp' = [loadedApp EXCEPT ![q] = app]
    /\ Writes(q)
    /\ UNCHANGED <<rows, body, loaded, overlap>>

\* Mutant of SetStatus: the time of submission follows the status.
SetStatusAndTime(q) ==
    /\ Goto(q, "setStatus", "done")
    /\ app' = [app EXCEPT !.status = Written(@, loadedApp[q].status, asked[q]),
                          !.submitted = Written(@, loadedApp[q].submitted,
                                                asked[q] = "submitted")]
    /\ Forget(q)
    /\ UNCHANGED <<answers, memory, ghosts>>

\* Any status may follow any other; the time of submission is never cleared.
SetStatus(q) ==
    /\ Goto(q, "setStatus", "done")
    /\ app' = [app EXCEPT !.status = Written(@, loadedApp[q].status, asked[q]),
                          !.submitted = @ \/ asked[q] = "submitted"]
    /\ Forget(q)
    /\ UNCHANGED <<answers, memory, ghosts>>

-----------------------------------------------------------------------------
(* POST /applications/{application_id}/answers                              *)

\* A body may be empty.
StartSave(q) ==
    /\ app # None
    /\ \E b \in Bodies :
           /\ Goto(q, "idle", IF b = <<>> THEN "commit" ELSE "select")
           /\ body' = [body EXCEPT ![q] = b]
    /\ loadedApp' = [loadedApp EXCEPT ![q] = app]
    /\ Writes(q)
    /\ overlap' = (overlap \/ \E p \in Requests : pc[p] \in SaveSteps)
    /\ UNCHANGED <<rows, asked, loaded>>

\* The answer of the next item's field.  A row the session already holds keeps
\* its object; a new row is not flushed before the commit.
SelectAnswer(q) ==
    LET n == Len(loaded[q]) + 1
        field == body[q][n].field
        held == {loaded[q][k] : k \in 1..(n - 1)} \ {None}
        found == {r \in answers : r.field = field}
        row == IF found = {} THEN None
               ELSE LET r == CHOOSE r \in found : TRUE IN
                    IF \E h \in held : h.id = r.id
                    THEN CHOOSE h \in held : h.id = r.id ELSE r
    IN
    /\ Goto(q, "select", IF n = Len(body[q]) THEN "commit" ELSE "select")
    /\ loaded' = [loaded EXCEPT ![q] = Append(@, row)]
    /\ UNCHANGED <<rows, body, asked, loadedApp, ghosts>>

New(q) == {i \in DOMAIN loaded[q] : loaded[q][i] = None}

\* Mutant of Conflict: without uq_answer_per_field.
NoFieldConflict(q) == \E i \in New(q) : body[q][i].field \notin FormFields

\* The foreign key to form_fields and the unique (application_id, form_field_id).
Conflict(q) ==
    \E i \in New(q) :
        \/ body[q][i].field \notin FormFields
        \/ \E r \in answers : r.field = body[q][i].field
        \/ \E k \in New(q) \ {i} : body[q][k].field = body[q][i].field

Inserted(q) ==
    {[id |-> <<q, i>>, field |-> body[q][i].field,
      text |-> body[q][i].text, source |-> body[q][i].source] : i \in New(q)}

\* Mutant of Updated: an existing answer keeps its provenance.
UpdatedText(q, r) ==
    LET mine == {i \in DOMAIN loaded[q] : loaded[q][i] # None /\ loaded[q][i].id = r.id} IN
    IF mine = {} THEN r
    ELSE LET last == CHOOSE i \in mine : \A k \in mine : k <= i IN
         [r EXCEPT !.text = Written(@, loaded[q][last].text, body[q][last].text)]

\* The row as the last item about it leaves it.
Updated(q, r) ==
    LET mine == {i \in DOMAIN loaded[q] : loaded[q][i] # None /\ loaded[q][i].id = r.id} IN
    IF mine = {} THEN r
    ELSE LET last == CHOOSE i \in mine : \A k \in mine : k <= i IN
         [r EXCEPT !.text   = Written(@, loaded[q][last].text, body[q][last].text),
                   !.source = Written(@, loaded[q][last].source, body[q][last].source)]

Generated(q) == Cardinality({i \in DOMAIN body[q] : body[q][i].source = "ai_generated"})

\* Mutant of Counted: the counters add up over the saves.
CountedUp(q) ==
    [app EXCEPT !.filled = @ + Len(body[q]), !.ai = @ + Generated(q),
                !.status = Written(@, loadedApp[q].status, "autofilled")]

\* The counters count the items of this save, whatever the earlier ones saved.
Counted(q) ==
    [app EXCEPT !.filled = Written(@, loadedApp[q].filled, Len(body[q])),
                !.ai     = Written(@, loadedApp[q].ai, Generated(q)),
                !.status = Written(@, loadedApp[q].status, "autofilled")]

\* One transaction; a conflict is answered 409 and undoes the whole save.
CommitSave(q) ==
    /\ pc[q] = "commit"
    /\ IF Conflict(q)
       THEN Goto(q, "commit", "failed") /\ UNCHANGED <<app, answers>>
       ELSE /\ Goto(q, "commit", "done")
            /\ app' = Counted(q)
            /\ answers' = {Updated(q, r) : r \in answers} \cup Inserted(q)
    /\ Forget(q)
    /\ UNCHANGED <<memory, ghosts>>

-----------------------------------------------------------------------------
(* POST /applications/{application_id}/answers/{answer_id}/ingest           *)

\* An empty answer is skipped.
StartIngest(q) ==
    \E r \in answers :
        /\ Goto(q, "idle", IF r.text = None THEN "done" ELSE "upsert")
        /\ loaded' = [loaded EXCEPT ![q] = <<r>>]
        /\ UNCHANGED <<rows, body, asked, loadedApp, ghosts>>

\* A point's id depends on the source, and on nothing else that changes: the
\* points of another source stay.
UpsertAnswer(q) ==
    LET r == loaded[q][1] IN
    /\ Goto(q, "upsert", "done")
    /\ memory' = {m \in memory : m.id # r.id \/ m.source # r.source} \cup {r}
    /\ Forget(q)
    /\ UNCHANGED <<app, answers, ghosts>>

Fail(q) ==
    /\ pc[q] \in Active
    /\ pc' = [pc EXCEPT ![q] = "failed"]
    /\ Forget(q)
    /\ UNCHANGED <<rows, ghosts>>

Next ==
    \E q \in Requests :
        \/ CreateApplication(q)
        \/ StartStatus(q) \/ SetStatus(q)
        \/ StartSave(q) \/ SelectAnswer(q) \/ CommitSave(q)
        \/ StartIngest(q) \/ UpsertAnswer(q)
        \/ Fail(q)

Spec == Init /\ [][Next]_vars

-----------------------------------------------------------------------------
Application == [status : Statuses, submitted : BOOLEAN, filled : Nat, ai : Nat]

Answer ==
    [id : Requests \X Nat, field : FormFields,
     text : {x.text : x \in Items}, source : {x.source : x \in Items}]

\* None is neither a row of applications nor one of application_answers.
ASSUME NoneAssumption == None \notin Application \cup Answer

TypeOK ==
    /\ app \in Application \cup {None}
    /\ answers \subseteq Answer /\ memory \subseteq Answer
    /\ pc \in [Requests -> Active \cup {"idle", "done", "failed"}]
    /\ body \in [Requests -> Bodies \cup {<<>>}]
    /\ asked \in [Requests -> Statuses \cup {None}]
    /\ loadedApp \in [Requests -> Application \cup {None}]
    /\ loaded \in [Requests -> Seq(Answer \cup {None})]
    /\ latest \in Requests \cup {None} /\ overlap \in BOOLEAN
    /\ \A q \in Requests :
           /\ pc[q] \in SaveSteps \cup {"setStatus"} => loadedApp[q] # None
           /\ pc[q] = "commit" => Len(loaded[q]) = Len(body[q])

\* Saves that overlap, or that name a field twice, never leave two answers to one
\* field, which every later save of it would fail on.
OneAnswerPerField ==
    \A r, s \in answers : r.field = s.field => r = s

\* After a save or an update that succeeded and ran alone the rows say what it
\* asked for: the status, the counters of this save, each field's last item.
LatestIsStored ==
    latest # None /\ pc[latest] = "done" =>
        IF asked[latest] # None THEN app.status = asked[latest]
        ELSE LET sent == body[latest] IN
             /\ app.status = "autofilled"
             /\ app.filled = Len(sent) /\ app.ai = Generated(latest)
             /\ \A i \in DOMAIN sent :
                    \/ \E k \in DOMAIN sent : k > i /\ sent[k].field = sent[i].field
                    \/ \E r \in answers : r.field = sent[i].field
                           /\ r.text = sent[i].text /\ r.source = sent[i].source

\* A submitted application has its time of submission, also when saves, which
\* take the status back, and updates overlap.
SubmittedHasTime ==
    app # None => (app.status = "submitted" => app.submitted)

\* What is remembered of a past answer, its text and where it came from, was
\* saved together by one item of one save, unless saves overlapped.
RememberedAsSent ==
    overlap \/ \A m \in memory : \E q \in Requests : \E i \in DOMAIN body[q] :
        body[q][i] = [field |-> m.field, text |-> m.text, source |-> m.source]
=============================================================================
