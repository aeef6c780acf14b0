------------------------- MODULE ApplicationsProofs -------------------------
(* Proofs about Applications.                                                *)
EXTENDS Applications, SequenceLemmas, FiniteSetTheorems

USE DEF rows, locals, ghosts

-----------------------------------------------------------------------------
(* The inductive invariants.                                                 *)

Writing == SaveSteps \cup {"setStatus"}

\* The answers: an id names one row, and the requests that inserted one are done.
Table ==
    /\ \A r, s \in answers : r.id = s.id => r = s
    /\ \A r \in answers : pc[r.id[1]] = "done"
    /\ OneAnswerPerField

\* What a request holds at each step.  The rows a save has loaded are those of the
\* fields it sends, by id; each is still there, though its columns may differ.
HeldBy(q) ==
    /\ pc[q] = "idle" => body[q] = <<>> /\ asked[q] = None /\ loaded[q] = <<>>
    /\ pc[q] = "setStatus" => asked[q] # None
    /\ pc[q] \in SaveSteps => asked[q] = None /\ body[q] \in Bodies
    /\ pc[q] = "select" => Len(loaded[q]) < Len(body[q])
    /\ pc[q] \in Writing => app # None
    /\ pc[q] = "upsert" => Len(loaded[q]) = 1 /\ loaded[q][1] # None
    /\ pc[q] \in SaveSteps => \A i \in DOMAIN loaded[q] : loaded[q][i] # None =>
           /\ loaded[q][i].field = body[q][i].field
           /\ \E r \in answers : r.id = loaded[q][i].id /\ r.field = body[q][i].field

Held == \A q \in Requests : HeldBy(q)

Base == TypeOK /\ Table /\ Held

\* The text and the provenance of a row were sent by one item.
Sent(r) ==
    \E q \in Requests : \E i \in DOMAIN body[q] :
        body[q][i] = [field |-> r.field, text |-> r.text, source |-> r.source]

\* As long as no two saves have overlapped there is one at most, what it has loaded
\* is what is stored, and every row, stored, loaded or remembered, is as it was sent.
OneSave ==
    ~overlap =>
        /\ \A p, q \in Requests : pc[p] \in SaveSteps /\ pc[q] \in SaveSteps => p = q
        /\ \A q \in Requests : pc[q] \in SaveSteps =>
               \A i \in DOMAIN loaded[q] : loaded[q][i] # None => loaded[q][i] \in answers
        /\ \A r \in answers \cup memory : Sent(r)
        /\ \A q \in Requests : pc[q] = "upsert" => Sent(loaded[q][1])

\* While the last request to write runs alone, what it has loaded is what is stored.
LatestIsAlone ==
    latest # None =>
        /\ app # None /\ pc[latest] \notin {"idle", "upsert"}
        /\ \A p \in Requests : pc[p] \in Writing => p = latest
        /\ pc[latest] \in Writing => loadedApp[latest] = app
        /\ pc[latest] \in SaveSteps =>
               \A i \in DOMAIN loaded[latest] :
                   loaded[latest][i] # None => loaded[latest][i] \in answers

LatestInv == LatestIsAlone /\ LatestIsStored

IInv == Base /\ SubmittedHasTime /\ OneSave /\ LatestInv

-----------------------------------------------------------------------------
(* Items and rows.                                                           *)

\* The bodies are sequences of items, and an item has its three columns.
LEMMA ItemOf ==
    ASSUME TypeOK, NEW q \in Requests, NEW i \in DOMAIN body[q]
    PROVE  /\ body[q] \in Seq(Items) /\ i \in 1..Len(body[q])
           /\ body[q][i].text \in {x.text : x \in Items}
           /\ body[q][i].source \in {x.source : x \in Items}
           /\ body[q][i] = [field |-> body[q][i].field, text |-> body[q][i].text,
                            source |-> body[q][i].source]
<1>1. body[q] \in Seq(Items)
  BY ApplicationAssumption DEF TypeOK
<1>2. body[q][i] \in Items /\ i \in 1..Len(body[q])
  BY <1>1
<1> QED
  BY <1>1, <1>2, ApplicationAssumption

\* The number of generated items is a number.
LEMMA GeneratedType ==
    ASSUME TypeOK, NEW q \in Requests
    PROVE  Generated(q) \in Nat /\ Len(body[q]) \in Nat
<1> DEFINE G == {i \in DOMAIN body[q] : body[q][i].source = "ai_generated"}
<1>0. <<>> \in Seq(Items) /\ body[q] \in Bodies \cup {<<>>}
  BY DEF TypeOK
<1>1. body[q] \in Seq(Items)
  BY <1>0, ApplicationAssumption
<1>2. Len(body[q]) \in Nat /\ G \subseteq 1..Len(body[q])
  BY <1>1
<1>3. IsFiniteSet(G)
  <2>1. IsFiniteSet(1..Len(body[q]))
    BY <1>2, FS_Interval
  <2> QED
    BY <1>2, <2>1, FS_Subset
<1> QED
  BY <1>1, <1>3, FS_CardinalityType DEF Generated

\* The items of a save that are about a row.
Mine(q, r) == {i \in DOMAIN loaded[q] : loaded[q][i] # None /\ loaded[q][i].id = r.id}

\* A commit leaves a row as it is, or writes what its last item changes.
LEMMA UpdatedRow ==
    ASSUME Base, NEW q \in Requests, pc[q] = "commit", NEW r \in answers
    PROVE  \/ Mine(q, r) = {} /\ Updated(q, r) = r
           \/ \E m \in Mine(q, r) :
                  /\ m \in DOMAIN body[q] /\ \A k \in Mine(q, r) : k <= m
                  /\ body[q][m].field = r.field
                  /\ Updated(q, r) =
                        [r EXCEPT !.text = Written(@, loaded[q][m].text, body[q][m].text),
                                  !.source = Written(@, loaded[q][m].source, body[q][m].source)]
<1> DEFINE last == CHOOSE i \in Mine(q, r) : \A k \in Mine(q, r) : k <= i
<1>1. CASE Mine(q, r) = {}
  BY <1>1 DEF Updated, Mine
<1>2. CASE Mine(q, r) # {}
  <2>1. Len(loaded[q]) \in Nat /\ Mine(q, r) \subseteq 1..Len(loaded[q])
    BY DEF Mine, Base, TypeOK
  <2>2. \E m \in Mine(q, r) : \A k \in Mine(q, r) : k <= m
    BY <1>2, <2>1, LastPosition
  <2> HIDE DEF last
  <2>3. last \in Mine(q, r) /\ \A k \in Mine(q, r) : k <= last
    BY <2>2 DEF last
  <2>4. last \in DOMAIN body[q]
    <3>1. Len(loaded[q]) = Len(body[q]) /\ body[q] \in Seq(Items)
      BY ApplicationAssumption DEF Base, TypeOK
    <3> QED
      BY <2>1, <2>3, <3>1
  <2>5. body[q][last].field = r.field
    <3>1. last \in DOMAIN loaded[q] /\ loaded[q][last] # None /\ loaded[q][last].id = r.id
      BY <2>3 DEF Mine
    <3>2. PICK s \in answers : s.id = r.id /\ s.field = body[q][last].field
      BY <3>1 DEF Base, Held, HeldBy, SaveSteps
    <3> QED
      BY <3>2 DEF Base, Table
  <2>6. Updated(q, r) =
            [r EXCEPT !.text = Written(@, loaded[q][last].text, body[q][last].text),
                      !.source = Written(@, loaded[q][last].source, body[q][last].source)]
    BY <1>2 DEF Updated, Mine, last
  <2> QED
    BY <2>3, <2>4, <2>5, <2>6
<1> QED
  BY <1>1, <1>2

\* It keeps the row's id and field, and the row is one of an answer.
LEMMA UpdatedKeeps ==
    ASSUME Base, NEW q \in Requests, pc[q] = "commit", NEW r \in answers
    PROVE  Updated(q, r) \in Answer /\ Updated(q, r).id = r.id /\ Updated(q, r).field = r.field
<1>1. r \in Answer
  BY DEF Base, TypeOK
<1>2. CASE Mine(q, r) = {} /\ Updated(q, r) = r
  BY <1>1, <1>2
<1>3. ASSUME NEW m \in Mine(q, r), m \in DOMAIN body[q],
             Updated(q, r) =
                [r EXCEPT !.text = Written(@, loaded[q][m].text, body[q][m].text),
                          !.source = Written(@, loaded[q][m].source, body[q][m].source)]
      PROVE  Updated(q, r) \in Answer /\ Updated(q, r).id = r.id /\ Updated(q, r).field = r.field
  <2>1. /\ body[q][m].text \in {x.text : x \in Items}
        /\ body[q][m].source \in {x.source : x \in Items}
    BY <1>3, ItemOf DEF Base
  <2> QED
    BY <1>1, <1>3, <2>1 DEF Written, Answer
<1> QED
  BY <1>2, <1>3, UpdatedRow

\* The rows a save without a conflict inserts are answers to fields that had none.
LEMMA InsertedRows ==
    ASSUME Base, NEW q \in Requests, pc[q] = "commit", ~Conflict(q), NEW r \in Inserted(q)
    PROVE  /\ r \in Answer /\ r.id[1] = q
           /\ \A s \in answers : s.field # r.field /\ s.id # r.id
           /\ \A s \in Inserted(q) : s.id = r.id \/ s.field = r.field => s = r
<1>1. PICK i \in New(q) :
          r = [id |-> <<q, i>>, field |-> body[q][i].field,
               text |-> body[q][i].text, source |-> body[q][i].source]
  BY DEF Inserted
<1>2. i \in DOMAIN body[q] /\ i \in Nat
  <2>1. /\ Len(loaded[q]) = Len(body[q]) /\ body[q] \in Seq(Items)
        /\ loaded[q] \in Seq(Answer \cup {None})
    BY ApplicationAssumption DEF Base, TypeOK
  <2> QED
    BY <2>1 DEF New
<1>3. r \in Answer
  BY <1>1, <1>2, ItemOf DEF Answer, Conflict, Base
<1>4. \A s \in answers : s.field # r.field /\ s.id # r.id
  BY <1>1 DEF Conflict, Base, Table
<1>5. \A s \in Inserted(q) : s.id = r.id \/ s.field = r.field => s = r
  BY <1>1 DEF Inserted, Conflict
<1> QED
  BY <1>1, <1>3, <1>4, <1>5

\* A save loads a row of the field it is at, if there is one; a row that it holds
\* already, as it holds it.
LEMMA SelectedRow ==
    ASSUME Base, NEW q \in Requests, SelectAnswer(q)
    PROVE  \E row \in Answer \cup {None} :
               /\ loaded' = [loaded EXCEPT ![q] = Append(@, row)]
               /\ row # None => /\ row.field = body[q][Len(loaded[q]) + 1].field
                                /\ \E r \in answers : r.id = row.id /\ r.field = row.field
               /\ row \in answers \cup {None} \/ \E k \in DOMAIN loaded[q] : row = loaded[q][k]
<1> DEFINE n == Len(loaded[q]) + 1
           held == {loaded[q][k] : k \in 1..(n - 1)} \ {None}
           found == {r \in answers : r.field = body[q][n].field}
<1>1. pc[q] = "select" /\ Len(loaded[q]) \in Nat /\ DOMAIN loaded[q] = 1..(n - 1)
  BY DEF SelectAnswer, Goto, Base, TypeOK
<1>2. CASE found = {}
  BY <1>2 DEF SelectAnswer
<1>3. CASE found # {}
  <2> DEFINE r == CHOOSE r \in found : TRUE
             row == IF \E h \in held : h.id = r.id
                    THEN CHOOSE h \in held : h.id = r.id ELSE r
  <2>0. r \in found
    BY <1>3
  <2>1. loaded' = [loaded EXCEPT ![q] = Append(@, row)]
    BY <1>3 DEF SelectAnswer
  <2> HIDE DEF r
  <2>2. r \in answers /\ r \in Answer /\ r.field = body[q][n].field
    BY <2>0 DEF Base, TypeOK
  <2>3. CASE \E h \in held : h.id = r.id
    <3>1. PICK h \in held :
              h.id = r.id /\ loaded' = [loaded EXCEPT ![q] = Append(@, h)]
      BY <2>1, <2>3
    <3>2. PICK k \in DOMAIN loaded[q] : h = loaded[q][k] /\ h # None
      BY <1>1
    <3>3. h \in Answer \cup {None} /\ h.field = body[q][k].field
      <4>1. h \in Answer \cup {None}
        BY <1>1, <3>2 DEF Base, TypeOK
      <4>2. h.field = body[q][k].field
        BY <1>1, <3>2 DEF Base, Held, HeldBy, SaveSteps
      <4> QED
        BY <4>1, <4>2
    <3>4. \E x \in answers : x.id = h.id /\ x.field = body[q][k].field
      BY <1>1, <3>2 DEF Base, Held, HeldBy, SaveSteps
    <3>5. h.field = r.field
      BY <2>2, <3>1, <3>3, <3>4 DEF Base, Table
    <3> QED
      BY <2>2, <3>1, <3>2, <3>3, <3>5
  <2>4. CASE ~\E h \in held : h.id = r.id
    BY <2>1, <2>2, <2>4
  <2> QED
    BY <2>3, <2>4
<1> QED
  BY <1>2, <1>3

-----------------------------------------------------------------------------
(* The invariants hold.                                                      *)

LEMMA BaseInit == Init => Base
<1> SUFFICES ASSUME Init PROVE Base
  OBVIOUS
<1>1. TypeOK
  <2>1. <<>> \in Seq(Answer \cup {None}) /\ Created \in Application
    BY ApplicationAssumption DEF Created, Application
  <2> QED
    BY <2>1 DEF Init, TypeOK, SaveSteps
<1>2. Table /\ Held
  BY DEF Init, Table, OneAnswerPerField, Held, HeldBy, SaveSteps, Writing
<1> QED
  BY <1>1, <1>2 DEF Base

LEMMA BaseStep == Base /\ [Next]_vars => Base'
<1> SUFFICES ASSUME Base, [Next]_vars PROVE Base'
  OBVIOUS
<1> USE ApplicationAssumption, NoneAssumption
        DEF Base, TypeOK, Active, Writing, SaveSteps, Goto
<1>1. ASSUME NEW q \in Requests, CreateApplication(q) PROVE Base'
  <2>1. Created \in Application
    BY DEF Created, Application
  <2>2. TypeOK'
    BY <1>1, <2>1 DEF CreateApplication
  <2>3. Table'
    BY <1>1 DEF CreateApplication, Table, OneAnswerPerField
  <2>4. Held'
    BY <1>1, <2>1 DEF CreateApplication, Held, HeldBy
  <2> QED
    BY <2>2, <2>3, <2>4
<1>2. ASSUME NEW q \in Requests, StartStatus(q) PROVE Base'
  <2>1. PICK s \in Statuses : asked' = [asked EXCEPT ![q] = s]
    BY <1>2 DEF StartStatus
  <2>2. TypeOK'
    BY <1>2, <2>1 DEF StartStatus, Writes
  <2>3. Table'
    BY <1>2 DEF StartStatus, Table, OneAnswerPerField
  <2>4. Held'
    BY <1>2, <2>1 DEF StartStatus, Held, HeldBy
  <2> QED
    BY <2>2, <2>3, <2>4
<1>3. ASSUME NEW q \in Requests, SetStatus(q) PROVE Base'
  <2>1. pc[q] = "setStatus" /\ app # None /\ asked[q] \in Statuses /\ loadedApp[q] # None
    BY <1>3 DEF SetStatus, Held, HeldBy
  <2>2. app' \in Application
    BY <1>3, <2>1 DEF SetStatus, Application, Written
  <2>3. TypeOK'
    BY <1>3, <2>2 DEF SetStatus, Forget
  <2>4. Table'
    BY <1>3 DEF SetStatus, Table, OneAnswerPerField
  <2>5. Held'
    BY <1>3, <2>2 DEF SetStatus, Forget, Held, HeldBy
  <2> QED
    BY <2>3, <2>4, <2>5
<1>4. ASSUME NEW q \in Requests, StartSave(q) PROVE Base'
  <2>1. PICK b \in Bodies : /\ pc[q] = "idle" /\ body' = [body EXCEPT ![q] = b]
                            /\ pc' = [pc EXCEPT ![q] = IF b = <<>> THEN "commit" ELSE "select"]
    BY <1>4 DEF StartSave
  <2>2. PICK s \in {"commit", "select"} :
            pc' = [pc EXCEPT ![q] = s] /\ (s = "commit" => b = <<>>) /\ (s = "select" => b # <<>>)
    BY <2>1
  <2>3. b \in Seq(Items) /\ (b # <<>> => Len(b) > 0) /\ loaded[q] = <<>>
    BY <2>1 DEF Held, HeldBy
  <2>4. TypeOK'
    BY <1>4, <2>1, <2>2, <2>3 DEF StartSave, Writes
  <2>5. Table'
    BY <1>4, <2>1, <2>2 DEF StartSave, Table, OneAnswerPerField
  <2>6. Held'
    BY <1>4, <2>1, <2>2, <2>3 DEF StartSave, Held, HeldBy
  <2> QED
    BY <2>4, <2>5, <2>6
<1>5. ASSUME NEW q \in Requests, SelectAnswer(q) PROVE Base'
  <2>1. PICK row \in Answer \cup {None} :
            /\ loaded' = [loaded EXCEPT ![q] = Append(@, row)]
            /\ row # None => /\ row.field = body[q][Len(loaded[q]) + 1].field
                             /\ \E r \in answers : r.id = row.id /\ r.field = row.field
    BY <1>5, SelectedRow
  <2>2. /\ pc[q] = "select" /\ UNCHANGED <<rows, body, asked, loadedApp, ghosts>>
        /\ Len(loaded[q]) \in Nat /\ Len(body[q]) \in Nat /\ Len(loaded[q]) < Len(body[q])
    BY <1>5 DEF SelectAnswer, Held, HeldBy
  <2>3. PICK s \in {"commit", "select"} :
            /\ pc' = [pc EXCEPT ![q] = s]
            /\ s = "commit" <=> Len(loaded[q]) + 1 = Len(body[q])
    BY <1>5 DEF SelectAnswer
  <2>4. /\ loaded'[q] = Append(loaded[q], row) /\ Len(loaded'[q]) = Len(loaded[q]) + 1
        /\ loaded' \in [Requests -> Seq(Answer \cup {None})]
        /\ \A i \in DOMAIN loaded'[q] : loaded'[q][i] =
               IF i = Len(loaded[q]) + 1 THEN row ELSE loaded[q][i]
        /\ DOMAIN loaded'[q] = DOMAIN loaded[q] \cup {Len(loaded[q]) + 1}
    BY <2>1
  <2>5. TypeOK'
    BY <2>2, <2>3, <2>4, <2>1
  <2>6. Table'
    BY <2>2, <2>3 DEF Table, OneAnswerPerField
  <2>7. Held'
    <3> SUFFICES ASSUME NEW p \in Requests PROVE HeldBy(p)'
      BY DEF Held, HeldBy
    <3>1. CASE p # q
      BY <2>1, <2>2, <2>3, <3>1 DEF Held, HeldBy
    <3>2. CASE p = q
      <4>2. \A i \in DOMAIN loaded'[q] : loaded'[q][i] # None =>
                /\ loaded'[q][i].field = body[q][i].field
                /\ \E r \in answers : r.id = loaded'[q][i].id /\ r.field = body[q][i].field
        <5>1. \A i \in DOMAIN loaded[q] : loaded[q][i] # None =>
                  /\ loaded[q][i].field = body[q][i].field
                  /\ \E r \in answers : r.id = loaded[q][i].id /\ r.field = body[q][i].field
          BY <2>2 DEF Held, HeldBy
        <5> SUFFICES ASSUME NEW i \in DOMAIN loaded'[q], loaded'[q][i] # None
                     PROVE  /\ loaded'[q][i].field = body[q][i].field
                            /\ \E r \in answers : r.id = loaded'[q][i].id /\ r.field = body[q][i].field
          OBVIOUS
        <5>2. CASE i = Len(loaded[q]) + 1
          <6>1. loaded'[q][i] = row
            BY <2>4, <5>2
          <6> QED
            BY <2>1, <5>2, <6>1
        <5>3. CASE i # Len(loaded[q]) + 1
          <6>1. loaded'[q][i] = loaded[q][i] /\ i \in DOMAIN loaded[q]
            BY <2>4, <5>3
          <6> QED
            BY <5>1, <6>1
        <5> QED
          BY <5>2, <5>3
      <4>3. asked[q] = None /\ body[q] \in Bodies /\ app # None
        BY <2>2 DEF Held, HeldBy
      <4>4. s = "select" => Len(loaded'[q]) < Len(body[q])
        BY <2>2, <2>3, <2>4
      <4> QED
        BY <2>2, <2>3, <3>2, <4>2, <4>3, <4>4 DEF HeldBy
    <3> QED
      BY <3>1, <3>2
  <2> QED
    BY <2>5, <2>6, <2>7
<1>6. ASSUME NEW q \in Requests, CommitSave(q) PROVE Base'
  <2>1. /\ pc[q] = "commit" /\ Forget(q) /\ UNCHANGED <<memory, ghosts>>
        /\ app # None /\ loadedApp[q] # None
    BY <1>6 DEF CommitSave, Held, HeldBy
  <2>2. CASE Conflict(q)
    <3>1. UNCHANGED <<app, answers>> /\ pc' = [pc EXCEPT ![q] = "failed"]
      BY <1>6, <2>2 DEF CommitSave
    <3>2. TypeOK'
      BY <2>1, <3>1 DEF Forget
    <3>3. Table'
      BY <2>1, <3>1 DEF Table, OneAnswerPerField
    <3>4. Held'
      BY <2>1, <3>1 DEF Forget, Held, HeldBy
    <3> QED
      BY <3>2, <3>3, <3>4
  <2>3. CASE ~Conflict(q)
    <3>1. /\ app' = Counted(q) /\ pc' = [pc EXCEPT ![q] = "done"]
          /\ answers' = {Updated(q, r) : r \in answers} \cup Inserted(q)
      BY <1>6, <2>3 DEF CommitSave
    <3>2. app' \in Application
      BY <2>1, <3>1, GeneratedType DEF Counted, Written, Application
    <3>3. \A r \in answers' :
              /\ r \in Answer
              /\ \/ \E o \in answers : r = Updated(q, o) /\ r.id = o.id /\ r.field = o.field
                 \/ r \in Inserted(q)
      <4>1. \A o \in answers : /\ Updated(q, o) \in Answer
                                /\ Updated(q, o).id = o.id /\ Updated(q, o).field = o.field
        BY <2>1, UpdatedKeeps
      <4>2. \A r \in Inserted(q) : r \in Answer
        BY <2>1, <2>3, InsertedRows
      <4> QED
        BY <3>1, <4>1, <4>2
    <3>4. \A o \in answers : \E r \in answers' : r.id = o.id /\ r.field = o.field
      BY <2>1, <3>1, UpdatedKeeps
    <3>5. TypeOK'
      BY <2>1, <3>1, <3>2, <3>3 DEF Forget
    <3>6. \A r, s \in answers' : r.id = s.id \/ r.field = s.field => r = s
      BY <2>1, <2>3, <3>3, InsertedRows DEF Table, OneAnswerPerField
    <3>7. \A r \in answers' : pc'[r.id[1]] = "done"
      <4>1. \A r \in Inserted(q) : r.id[1] = q
        BY <2>1, <2>3, InsertedRows
      <4>2. \A r \in answers : pc'[r.id[1]] = "done"
        BY <2>1, <3>1 DEF Table
      <4> QED
        <5> SUFFICES ASSUME NEW r \in answers' PROVE pc'[r.id[1]] = "done"
          OBVIOUS
        <5>1. CASE r \in Inserted(q)
          BY <2>1, <3>1, <4>1, <5>1
        <5>2. CASE \E o \in answers : r.id = o.id
          BY <4>2, <5>2
        <5> QED
          BY <3>3, <5>1, <5>2
    <3>8. Held'
      BY <2>1, <3>1, <3>2, <3>4 DEF Forget, Held, HeldBy
    <3> QED
      BY <3>5, <3>6, <3>7, <3>8 DEF Table, OneAnswerPerField
  <2> QED
    BY <2>2, <2>3
<1>7. ASSUME NEW q \in Requests, StartIngest(q) PROVE Base'
  <2>1. PICK r \in answers :
            /\ pc[q] = "idle" /\ loaded' = [loaded EXCEPT ![q] = <<r>>]
            /\ pc' = [pc EXCEPT ![q] = IF r.text = None THEN "done" ELSE "upsert"]
            /\ UNCHANGED <<rows, body, asked, loadedApp, ghosts>>
    BY <1>7 DEF StartIngest
  <2>2. PICK s \in {"done", "upsert"} : pc' = [pc EXCEPT ![q] = s]
    BY <2>1
  <2>3. r \in Answer /\ r # None /\ <<r>> \in Seq(Answer \cup {None})
    BY <2>1
  <2>4. TypeOK'
    BY <2>1, <2>2, <2>3
  <2>5. Table'
    BY <2>1, <2>2 DEF Table, OneAnswerPerField
  <2>6. Held'
    BY <2>1, <2>2, <2>3 DEF Held, HeldBy
  <2> QED
    BY <2>4, <2>5, <2>6
<1>8. ASSUME NEW q \in Requests, UpsertAnswer(q) PROVE Base'
  <2>1. loaded[q][1] \in Answer
    BY <1>8 DEF UpsertAnswer, Held, HeldBy
  <2>2. TypeOK'
    BY <1>8, <2>1 DEF UpsertAnswer, Forget
  <2>3. Table'
    BY <1>8 DEF UpsertAnswer, Table, OneAnswerPerField
  <2>4. Held'
    BY <1>8 DEF UpsertAnswer, Forget, Held, HeldBy
  <2> QED
    BY <2>2, <2>3, <2>4
<1>9. ASSUME NEW q \in Requests, Fail(q) PROVE Base'
  <2>1. TypeOK'
    BY <1>9 DEF Fail, Forget
  <2>2. Table'
    BY <1>9 DEF Fail, Table, OneAnswerPerField
  <2>3. Held'
    BY <1>9 DEF Fail, Forget, Held, HeldBy
  <2> QED
    BY <2>1, <2>2, <2>3
<1>10. CASE UNCHANGED vars
  BY <1>10 DEF vars, Table, OneAnswerPerField, Held, HeldBy
<1> QED
  BY <1>1, <1>2, <1>3, <1>4, <1>5, <1>6, <1>7, <1>8, <1>9, <1>10 DEF Next

\* Each column of a row written over `now' is the one of now or the one asked for.
LEMMA SubmittedStep ==
    ASSUME Base, SubmittedHasTime, [Next]_vars
    PROVE  SubmittedHasTime'
<1> USE DEF Base, TypeOK, SubmittedHasTime, Application, Written
<1>1. ASSUME NEW q \in Requests, CreateApplication(q) PROVE SubmittedHasTime'
  BY <1>1 DEF CreateApplication, Created
<1>2. ASSUME NEW q \in Requests, SetStatus(q) PROVE SubmittedHasTime'
  BY <1>2 DEF SetStatus, Goto, Held, HeldBy, Writing
<1>3. ASSUME NEW q \in Requests, CommitSave(q) PROVE SubmittedHasTime'
  <2>1. app # None
    BY <1>3 DEF CommitSave, Goto, Held, HeldBy, Writing, SaveSteps
  <2>2. app' = app \/ app' = Counted(q)
    BY <1>3 DEF CommitSave
  <2> QED
    BY <2>1, <2>2, NoneAssumption DEF Counted
<1>4. ASSUME NEW q \in Requests,
             \/ StartStatus(q) \/ StartSave(q) \/ SelectAnswer(q) \/ StartIngest(q)
             \/ UpsertAnswer(q) \/ Fail(q)
      PROVE  SubmittedHasTime'
  BY <1>4 DEF StartStatus, StartSave, SelectAnswer, StartIngest, UpsertAnswer, Fail
<1>5. CASE UNCHANGED vars
  BY <1>5 DEF vars
<1> QED
  BY <1>1, <1>2, <1>3, <1>4, <1>5 DEF Next

\* At its commit a save has loaded a row, or none, for each item.
LEMMA CommitBody ==
    ASSUME TypeOK, NEW q \in Requests, pc[q] = "commit"
    PROVE  /\ Len(loaded[q]) = Len(body[q]) /\ body[q] \in Seq(Items)
           /\ loaded[q] \in Seq(Answer \cup {None})
<1>1. <<>> \in Seq(Items) /\ body[q] \in Bodies \cup {<<>>}
  BY DEF TypeOK
<1> QED
  BY <1>1, ApplicationAssumption DEF TypeOK

\* What was sent is kept: a body is set once.
LEMMA SentStays ==
    ASSUME Base, [Next]_vars, NEW r, Sent(r)
    PROVE  Sent(r)'
<1>1. PICK q \in Requests : \E i \in DOMAIN body[q] :
          body[q][i] = [field |-> r.field, text |-> r.text, source |-> r.source]
  BY DEF Sent
<1>2. body'[q] = body[q]
  <2>1. CASE UNCHANGED body
    BY <2>1
  <2>2. ASSUME NEW p \in Requests, StartSave(p) PROVE body'[q] = body[q]
    <3>1. body[p] = <<>>
      BY <2>2 DEF StartSave, Goto, Base, Held, HeldBy
    <3>2. p # q
      BY <1>1, <3>1
    <3> QED
      BY <2>2, <3>2 DEF StartSave, Base, TypeOK
  <2> QED
    BY <2>1, <2>2 DEF Next, vars, CreateApplication, StartStatus, SetStatus, SelectAnswer,
       CommitSave, StartIngest, UpsertAnswer, Fail, Forget
<1> QED
  BY <1>1, <1>2 DEF Sent

\* A row of a save that ran alone is written as its last item says.
LEMMA UpdatedAlone ==
    ASSUME Base, NEW q \in Requests, pc[q] = "commit", NEW r \in answers,
           \A i \in DOMAIN loaded[q] : loaded[q][i] # None => loaded[q][i] \in answers,
           NEW m \in DOMAIN body[q], m \in Mine(q, r), \A k \in Mine(q, r) : k <= m
    PROVE  /\ Updated(q, r).field = body[q][m].field /\ Updated(q, r).text = body[q][m].text
           /\ Updated(q, r).source = body[q][m].source
<1> DEFINE Goal == /\ Updated(q, r).field = body[q][m].field
                   /\ Updated(q, r).text = body[q][m].text
                   /\ Updated(q, r).source = body[q][m].source
<1>1. ASSUME NEW k \in Mine(q, r), k \in DOMAIN body[q], \A l \in Mine(q, r) : l <= k,
             body[q][k].field = r.field,
             Updated(q, r) =
                [r EXCEPT !.text = Written(@, loaded[q][k].text, body[q][k].text),
                          !.source = Written(@, loaded[q][k].source, body[q][k].source)]
      PROVE  Goal
  <2>1. k = m
    <3>1. Mine(q, r) \subseteq Nat
      BY DEF Mine, Base, TypeOK
    <3> QED
      BY <1>1, <3>1
  <2>2. loaded[q][m] = r
    BY DEF Mine, Base, Table
  <2>3. r \in Answer
    BY DEF Base, TypeOK
  <2> QED
    BY <1>1, <2>1, <2>2, <2>3 DEF Written, Answer
<1> HIDE DEF Goal
<1>2. Goal
  BY <1>1, UpdatedRow
<1> QED
  BY <1>2 DEF Goal

\* If a save has loaded what is stored, so it does with the next row.
LEMMA LoadedAreStored ==
    ASSUME TypeOK, NEW q \in Requests, NEW row \in Answer \cup {None},
           loaded' = [loaded EXCEPT ![q] = Append(@, row)],
           row \in answers \cup {None} \/ \E k \in DOMAIN loaded[q] : row = loaded[q][k],
           \A i \in DOMAIN loaded[q] : loaded[q][i] # None => loaded[q][i] \in answers
    PROVE  \A i \in DOMAIN loaded'[q] : loaded'[q][i] # None => loaded'[q][i] \in answers
<1> DEFINE n == Len(loaded[q]) + 1
<1>1. /\ \A i \in DOMAIN loaded'[q] : loaded'[q][i] = IF i = n THEN row ELSE loaded[q][i]
      /\ DOMAIN loaded'[q] = DOMAIN loaded[q] \cup {n}
  BY DEF TypeOK
<1> HIDE DEF n
<1>2. row # None => row \in answers
  OBVIOUS
<1> SUFFICES ASSUME NEW i \in DOMAIN loaded'[q], loaded'[q][i] # None
             PROVE  loaded'[q][i] \in answers
  OBVIOUS
<1>3. CASE i = n
  BY <1>1, <1>2, <1>3
<1>4. CASE i # n
  BY <1>1, <1>4
<1> QED
  BY <1>3, <1>4

LEMMA OneSaveStep ==
    ASSUME Base, OneSave, [Next]_vars
    PROVE  OneSave'
<1> SUFFICES ASSUME ~overlap' PROVE OneSave'
  BY DEF OneSave
<1> USE DEF Base, TypeOK, SaveSteps, Goto
<1>0. ~overlap
  BY DEF Next, vars, CreateApplication, StartStatus, SetStatus, StartSave, SelectAnswer,
     CommitSave, StartIngest, UpsertAnswer, Fail
<1>s. \A r : Sent(r) => Sent(r)'
  BY SentStays
<1>a. /\ \A p, q \in Requests : pc[p] \in SaveSteps /\ pc[q] \in SaveSteps => p = q
      /\ \A q \in Requests : pc[q] \in SaveSteps =>
             \A i \in DOMAIN loaded[q] : loaded[q][i] # None => loaded[q][i] \in answers
      /\ \A r \in answers \cup memory : Sent(r)
      /\ \A q \in Requests : pc[q] = "upsert" => Sent(loaded[q][1])
  BY <1>0 DEF OneSave
<1>1. ASSUME NEW q \in Requests, CreateApplication(q) PROVE OneSave'
  BY <1>1, <1>a, <1>s DEF CreateApplication, OneSave
<1>2. ASSUME NEW q \in Requests, StartStatus(q) PROVE OneSave'
  BY <1>2, <1>a, <1>s DEF StartStatus, OneSave
<1>3. ASSUME NEW q \in Requests, SetStatus(q) PROVE OneSave'
  BY <1>3, <1>a, <1>s DEF SetStatus, Forget, OneSave
<1>4. ASSUME NEW q \in Requests, StartSave(q) PROVE OneSave'
  <2>1. /\ pc[q] = "idle" /\ UNCHANGED <<rows, loaded>>
        /\ \A p \in Requests : pc[p] \notin SaveSteps /\ loaded[q] = <<>>
    BY <1>4, <1>0 DEF StartSave, Held, HeldBy
  <2>2. PICK s \in {"commit", "select"} : pc' = [pc EXCEPT ![q] = s]
    BY <1>4 DEF StartSave
  <2> QED
    BY <2>1, <2>2, <1>a, <1>s DEF OneSave
<1>5. ASSUME NEW q \in Requests, SelectAnswer(q) PROVE OneSave'
  <2>1. PICK row \in Answer \cup {None} :
            /\ loaded' = [loaded EXCEPT ![q] = Append(@, row)]
            /\ row \in answers \cup {None} \/ \E k \in DOMAIN loaded[q] : row = loaded[q][k]
    BY <1>5, SelectedRow
  <2>2. /\ pc[q] = "select" /\ UNCHANGED <<rows, body>> /\ loaded[q] \in Seq(Answer \cup {None})
    BY <1>5 DEF SelectAnswer
  <2>3. PICK s \in {"commit", "select"} : pc' = [pc EXCEPT ![q] = s]
    BY <1>5 DEF SelectAnswer
  <2>4. \A i \in DOMAIN loaded[q] : loaded[q][i] # None => loaded[q][i] \in answers
    BY <2>2, <1>a
  <2>5. \A i \in DOMAIN loaded'[q] : loaded'[q][i] # None => loaded'[q][i] \in answers
    BY <2>1, <2>4, LoadedAreStored
  <2> QED
    BY <2>1, <2>2, <2>3, <2>5, <1>a, <1>s DEF OneSave
<1>6. ASSUME NEW q \in Requests, CommitSave(q) PROVE OneSave'
  <2>1. /\ pc[q] = "commit" /\ UNCHANGED <<body, memory>>
        /\ loaded' = [loaded EXCEPT ![q] = <<>>]
    BY <1>6 DEF CommitSave, Forget
  <2>2. PICK s \in {"failed", "done"} : pc' = [pc EXCEPT ![q] = s]
    BY <1>6 DEF CommitSave
  <2>3. \A r \in answers' : Sent(r)
    <3>1. CASE UNCHANGED answers
      BY <3>1, <1>a
    <3>2. CASE /\ ~Conflict(q)
               /\ answers' = {Updated(q, r) : r \in answers} \cup Inserted(q)
      <4>1. ASSUME NEW r \in answers PROVE Sent(Updated(q, r))
        <5>1. CASE Updated(q, r) = r
          BY <5>1, <1>a
        <5>2. ASSUME NEW m \in Mine(q, r), m \in DOMAIN body[q], \A k \in Mine(q, r) : k <= m
              PROVE  Sent(Updated(q, r))
          <6>1. /\ Updated(q, r).field = body[q][m].field /\ Updated(q, r).text = body[q][m].text
                /\ Updated(q, r).source = body[q][m].source
            BY <2>1, <5>2, <1>a, UpdatedAlone
          <6> QED
            BY <5>2, <6>1, ItemOf DEF Sent
        <5> QED
          BY <2>1, <5>1, <5>2, UpdatedRow
      <4>2. ASSUME NEW r \in Inserted(q) PROVE Sent(r)
        <5>1. PICK i \in New(q) :
                  r = [id |-> <<q, i>>, field |-> body[q][i].field,
                       text |-> body[q][i].text, source |-> body[q][i].source]
          BY DEF Inserted
        <5>2. i \in DOMAIN body[q]
          <6>1. /\ Len(loaded[q]) = Len(body[q]) /\ body[q] \in Seq(Items)
                /\ loaded[q] \in Seq(Answer \cup {None})
            BY <2>1, ApplicationAssumption
          <6> QED
            BY <6>1 DEF New
        <5> QED
          BY <5>1, <5>2, ItemOf DEF Sent
      <4> QED
        BY <3>2, <4>1, <4>2
    <3> QED
      BY <1>6, <3>1, <3>2 DEF CommitSave
  <2>4. \A p \in Requests : p # q => pc[p] \notin SaveSteps
    BY <2>1, <1>a
  <2> QED
    BY <2>1, <2>2, <2>3, <2>4, <1>a, <1>s DEF OneSave
<1>7. ASSUME NEW q \in Requests, StartIngest(q) PROVE OneSave'
  <2>1. PICK r \in answers : /\ loaded' = [loaded EXCEPT ![q] = <<r>>] /\ pc[q] = "idle"
                             /\ UNCHANGED <<rows, body>>
    BY <1>7 DEF StartIngest
  <2>2. PICK s \in {"done", "upsert"} : pc' = [pc EXCEPT ![q] = s]
    BY <1>7 DEF StartIngest
  <2> QED
    BY <2>1, <2>2, <1>a, <1>s DEF OneSave
<1>8. ASSUME NEW q \in Requests, UpsertAnswer(q) PROVE OneSave'
  <2>1. /\ pc[q] = "upsert" /\ pc' = [pc EXCEPT ![q] = "done"]
        /\ UNCHANGED <<answers, body>> /\ loaded' = [loaded EXCEPT ![q] = <<>>]
        /\ memory' \subseteq memory \cup {loaded[q][1]}
    BY <1>8 DEF UpsertAnswer, Forget
  <2> QED
    BY <2>1, <1>a, <1>s DEF OneSave
<1>9. ASSUME NEW q \in Requests, Fail(q) PROVE OneSave'
  BY <1>9, <1>a, <1>s DEF Fail, Forget, OneSave
<1>10. CASE UNCHANGED vars
  BY <1>10, <1>a, <1>s DEF vars, OneSave
<1> QED
  BY <1>1, <1>2, <1>3, <1>4, <1>5, <1>6, <1>7, <1>8, <1>9, <1>10 DEF Next

\* What holds of the last write once it is made.
Stored ==
    LET sent == body[latest] IN
    /\ app.status = "autofilled"
    /\ app.filled = Len(sent) /\ app.ai = Generated(latest)
    /\ \A i \in DOMAIN sent :
           \/ \E k \in DOMAIN sent : k > i /\ sent[k].field = sent[i].field
           \/ \E r \in answers : r.field = sent[i].field
                  /\ r.text = sent[i].text /\ r.source = sent[i].source

\* A save that runs alone stores what it sent.
LEMMA CommitStores ==
    ASSUME Base, LatestIsAlone, latest # None, CommitSave(latest), ~Conflict(latest)
    PROVE  Stored'
<1> USE DEF Base, TypeOK
<1> DEFINE q == latest
           sent == body[q]
<1>1. /\ q \in Requests /\ pc[q] = "commit" /\ app' = Counted(q) /\ UNCHANGED <<body, latest>>
      /\ answers' = {Updated(q, r) : r \in answers} \cup Inserted(q)
      /\ app # None
  BY DEF CommitSave, Goto, Forget, Held, HeldBy, Writing, SaveSteps
<1>2. /\ loadedApp[q] = app
      /\ \A i \in DOMAIN loaded[q] : loaded[q][i] # None => loaded[q][i] \in answers
  BY <1>1 DEF LatestIsAlone, Writing, SaveSteps
<1>3. app'.status = "autofilled" /\ app'.filled = Len(sent) /\ app'.ai = Generated(q)
  BY <1>1, <1>2 DEF Counted, Written, Application
<1>4. /\ Len(loaded[q]) = Len(sent) /\ sent \in Seq(Items) /\ DOMAIN loaded[q] = DOMAIN sent
      /\ DOMAIN sent \subseteq Nat
  <2>1. /\ Len(loaded[q]) = Len(sent) /\ sent \in Seq(Items)
        /\ loaded[q] \in Seq(Answer \cup {None})
    BY <1>1, ApplicationAssumption, CommitBody
  <2> QED
    BY <2>1
<1>5. ASSUME NEW i \in DOMAIN sent, ~\E k \in DOMAIN sent : k > i /\ sent[k].field = sent[i].field
      PROVE  \E r \in answers' : r.field = sent[i].field
                 /\ r.text = sent[i].text /\ r.source = sent[i].source
  <2>1. CASE loaded[q][i] = None
    <3>1. i \in New(q)
      BY <1>4, <2>1 DEF New
    <3> DEFINE r == [id |-> <<q, i>>, field |-> sent[i].field,
                     text |-> sent[i].text, source |-> sent[i].source]
    <3>2. r \in answers'
      BY <1>1, <3>1 DEF Inserted
    <3> QED
      BY <3>2
  <2>2. CASE loaded[q][i] # None
    <3> DEFINE r == loaded[q][i]
    <3>1. r \in answers /\ i \in DOMAIN loaded[q]
      BY <1>2, <1>4, <2>2
    <3>2. i \in Mine(q, r)
      BY <2>2, <3>1 DEF Mine
    <3>3. \A k \in Mine(q, r) : sent[k].field = sent[i].field
      <4> SUFFICES ASSUME NEW k \in Mine(q, r) PROVE sent[k].field = sent[i].field
        OBVIOUS
      <4>1. k \in DOMAIN loaded[q] /\ loaded[q][k] # None /\ loaded[q][k].id = r.id
        BY DEF Mine
      <4>2. loaded[q][k] = r
        BY <1>2, <3>1, <4>1 DEF Table
      <4>3. r.field = sent[k].field /\ r.field = sent[i].field
        BY <1>1, <2>2, <3>1, <4>1, <4>2 DEF Held, HeldBy, SaveSteps
      <4> QED
        BY <4>3
    <3>4. \A k \in Mine(q, r) : k \in DOMAIN sent /\ k \in Nat
      BY <1>4 DEF Mine
    <3>5. \A k \in Mine(q, r) : k <= i
      BY <1>4, <1>5, <3>3, <3>4
    <3>6. /\ Updated(q, r).field = sent[i].field /\ Updated(q, r).text = sent[i].text
          /\ Updated(q, r).source = sent[i].source
      BY <1>1, <1>2, <3>1, <3>2, <3>5, UpdatedAlone
    <3>7. Updated(q, r) \in answers'
      BY <1>1, <3>1
    <3> QED
      BY <3>6, <3>7
  <2> QED
    BY <2>1, <2>2
<1>6. Generated(q)' = Generated(q)
  BY <1>1 DEF Generated
<1> QED
  BY <1>1, <1>3, <1>5, <1>6 DEF Stored

\* What was stored last stays as long as nobody writes.
LEMMA StoredStays ==
    ASSUME LatestIsStored, UNCHANGED <<app, answers, body, asked, latest>>,
           latest # None /\ pc'[latest] = "done" => pc[latest] = "done"
    PROVE  LatestIsStored'
BY DEF LatestIsStored, Generated

LEMMA LatestInit == Init => LatestInv
BY DEF Init, LatestInv, LatestIsAlone, LatestIsStored

LEMMA LatestStep ==
    ASSUME Base, LatestInv, [Next]_vars
    PROVE  LatestInv'
<1> USE DEF Base, TypeOK, LatestInv, LatestIsAlone, Writing, SaveSteps, Goto
<1>1. ASSUME NEW q \in Requests, CreateApplication(q) PROVE LatestInv'
  <2>1. latest = None
    BY <1>1 DEF CreateApplication
  <2> QED
    BY <1>1, <2>1 DEF CreateApplication, LatestIsStored
<1>2. ASSUME NEW q \in Requests, StartStatus(q) PROVE LatestInv'
  <2>1. /\ pc[q] = "idle" /\ pc' = [pc EXCEPT ![q] = "setStatus"] /\ UNCHANGED <<rows, loaded>>
        /\ app # None
        /\ loadedApp' = [loadedApp EXCEPT ![q] = app]
        /\ latest' = IF \E p \in Requests : pc[p] \in Active THEN None ELSE q
    BY <1>2 DEF StartStatus, Writes
  <2> QED
    BY <2>1, ApplicationAssumption DEF LatestIsStored, Active
<1>3. ASSUME NEW q \in Requests, SetStatus(q) PROVE LatestInv'
  <2>1. /\ pc[q] = "setStatus" /\ pc' = [pc EXCEPT ![q] = "done"] /\ app # None
        /\ asked[q] # None /\ UNCHANGED <<answers, body, asked, latest>> /\ app' # None
        /\ loadedApp' = [loadedApp EXCEPT ![q] = None] /\ loaded' = [loaded EXCEPT ![q] = <<>>]
    <3>1. pc[q] = "setStatus" /\ app # None /\ asked[q] # None
      BY <1>3 DEF SetStatus, Held, HeldBy
    <3>2. app' \in Application
      BY <1>3, <3>1 DEF SetStatus, Application, Written
    <3> QED
      BY <1>3, <3>1, <3>2, NoneAssumption DEF SetStatus, Forget
  <2>2. CASE latest = None
    BY <2>1, <2>2 DEF LatestIsStored
  <2>3. CASE latest # None
    <3>1. latest = q /\ loadedApp[q] = app
      BY <2>1, <2>3
    <3>2. app'.status = asked[q]
      BY <1>3, <2>1, <3>1 DEF SetStatus, Written, Application
    <3>3. LatestIsStored'
      BY <2>1, <3>1, <3>2 DEF LatestIsStored
    <3> QED
      BY <2>1, <2>3, <3>1, <3>3
  <2> QED
    BY <2>2, <2>3
<1>4. ASSUME NEW q \in Requests, StartSave(q) PROVE LatestInv'
  <2>1. /\ pc[q] = "idle" /\ UNCHANGED <<rows, loaded>> /\ loaded[q] = <<>> /\ app # None
        /\ loadedApp' = [loadedApp EXCEPT ![q] = app]
        /\ latest' = IF \E p \in Requests : pc[p] \in Active THEN None ELSE q
    BY <1>4 DEF StartSave, Writes, Held, HeldBy
  <2>2. PICK s \in {"commit", "select"} : pc' = [pc EXCEPT ![q] = s]
    BY <1>4 DEF StartSave
  <2> QED
    BY <2>1, <2>2, ApplicationAssumption DEF LatestIsStored, Active
<1>5. ASSUME NEW q \in Requests, SelectAnswer(q) PROVE LatestInv'
  <2>1. PICK row \in Answer \cup {None} :
            /\ loaded' = [loaded EXCEPT ![q] = Append(@, row)]
            /\ row \in answers \cup {None} \/ \E k \in DOMAIN loaded[q] : row = loaded[q][k]
    BY <1>5, SelectedRow
  <2>2. /\ pc[q] = "select" /\ UNCHANGED <<rows, body, asked, loadedApp, latest>>
    BY <1>5 DEF SelectAnswer
  <2>3. PICK s \in {"commit", "select"} : pc' = [pc EXCEPT ![q] = s]
    BY <1>5 DEF SelectAnswer
  <2>4. LatestIsStored'
    BY <2>2, <2>3, StoredStays
  <2>5. CASE latest = None
    BY <2>2, <2>4, <2>5
  <2>6. CASE latest # None
    <3>1. latest = q
      BY <2>2, <2>6
    <3>2. \A i \in DOMAIN loaded[q] : loaded[q][i] # None => loaded[q][i] \in answers
      BY <2>2, <2>6, <3>1
    <3>3. \A i \in DOMAIN loaded'[q] : loaded'[q][i] # None => loaded'[q][i] \in answers
      BY <2>1, <3>2, LoadedAreStored
    <3> QED
      BY <2>2, <2>3, <2>4, <2>6, <3>1, <3>3
  <2> QED
    BY <2>5, <2>6
<1>6. ASSUME NEW q \in Requests, CommitSave(q) PROVE LatestInv'
  <2>1. /\ pc[q] = "commit" /\ UNCHANGED <<body, asked, latest>> /\ asked[q] = None
        /\ loadedApp' = [loadedApp EXCEPT ![q] = None] /\ loaded' = [loaded EXCEPT ![q] = <<>>]
        /\ app' # None
    <3>1. pc[q] = "commit" /\ app # None /\ asked[q] = None
      BY <1>6 DEF CommitSave, Held, HeldBy
    <3>2. app' \in Application
      <4>1. Counted(q) \in Application
        BY <3>1, ApplicationAssumption, GeneratedType DEF Counted, Application, Written
      <4> QED
        BY <1>6, <3>1, <4>1 DEF CommitSave
    <3> QED
      BY <1>6, <3>1, <3>2, NoneAssumption DEF CommitSave, Forget
  <2>2. PICK s \in {"failed", "done"} :
            pc' = [pc EXCEPT ![q] = s] /\ (s = "done" => ~Conflict(q))
    BY <1>6 DEF CommitSave
  <2>3. CASE latest = None
    BY <2>1, <2>3 DEF LatestIsStored
  <2>4. CASE latest # None
    <3>1. latest = q
      BY <2>1, <2>4
    <3>2. LatestIsStored'
      <4>1. CASE s = "failed"
        BY <2>1, <2>2, <3>1, <4>1 DEF LatestIsStored
      <4>2. CASE s = "done"
        <5>1. Stored'
          BY <1>6, <2>2, <2>4, <3>1, <4>2, CommitStores
        <5> QED
          BY <2>1, <3>1, <5>1 DEF LatestIsStored, Stored
      <4> QED
        BY <4>1, <4>2
    <3> QED
      BY <2>1, <2>2, <2>4, <3>1, <3>2
  <2> QED
    BY <2>3, <2>4
<1>7. ASSUME NEW q \in Requests, StartIngest(q) PROVE LatestInv'
  <2>1. PICK r \in answers : /\ loaded' = [loaded EXCEPT ![q] = <<r>>] /\ pc[q] = "idle"
                             /\ UNCHANGED <<rows, body, asked, loadedApp, latest>>
    BY <1>7 DEF StartIngest
  <2>2. PICK s \in {"done", "upsert"} : pc' = [pc EXCEPT ![q] = s]
    BY <1>7 DEF StartIngest
  <2>3. latest # None => latest # q
    BY <2>1
  <2>4. LatestIsStored'
    BY <2>1, <2>2, <2>3, StoredStays
  <2> QED
    BY <2>1, <2>2, <2>3, <2>4
<1>8. ASSUME NEW q \in Requests, UpsertAnswer(q) PROVE LatestInv'
  <2>1. /\ pc[q] = "upsert" /\ pc' = [pc EXCEPT ![q] = "done"] /\ asked' = asked
        /\ UNCHANGED <<app, answers, body, latest>>
        /\ loadedApp' = [loadedApp EXCEPT ![q] = None] /\ loaded' = [loaded EXCEPT ![q] = <<>>]
    BY <1>8 DEF UpsertAnswer, Forget
  <2>2. latest = None \/ latest # q
    BY <2>1
  <2>3. LatestIsStored'
    BY <2>1, <2>2, StoredStays
  <2> QED
    BY <2>1, <2>2, <2>3
<1>9. ASSUME NEW q \in Requests, Fail(q) PROVE LatestInv'
  <2>1. LatestIsStored'
    BY <1>9, StoredStays DEF Fail, Forget
  <2> QED
    BY <1>9, <2>1 DEF Fail, Forget
<1>10. CASE UNCHANGED vars
  <2>1. LatestIsStored'
    BY <1>10, StoredStays DEF vars
  <2> QED
    BY <1>10, <2>1 DEF vars
<1> QED
  BY <1>1, <1>2, <1>3, <1>4, <1>5, <1>6, <1>7, <1>8, <1>9, <1>10 DEF Next

LEMMA Invariance == Spec => []IInv
<1>1. Init => IInv
  BY BaseInit, LatestInit DEF Init, Created, SubmittedHasTime, OneSave, SaveSteps, IInv
<1>2. IInv /\ [Next]_vars => IInv'
  BY BaseStep, SubmittedStep, OneSaveStep, LatestStep DEF IInv
<1> QED
  BY <1>1, <1>2, PTL DEF Spec

-----------------------------------------------------------------------------
(* The theorems.                                                             *)

\* The rows are rows of their tables, and a save that commits has loaded a row, or
\* found none, for each item of its body.
THEOREM TypeCorrect == Spec => []TypeOK
<1>1. IInv => TypeOK
  BY DEF IInv, Base
<1> QED
  BY <1>1, Invariance, PTL

\* However many saves overlap, and whatever fields they name how often, no field
\* has two answers.
THEOREM AnswersAreUnique == Spec => []OneAnswerPerField
<1>1. IInv => OneAnswerPerField
  BY DEF IInv, Base, Table
<1> QED
  BY <1>1, Invariance, PTL

\* No overlap of saves and updates leaves a submitted application without the
\* time of its submission.
THEOREM SubmissionIsDated == Spec => []SubmittedHasTime
<1>1. IInv => SubmittedHasTime
  BY DEF IInv
<1> QED
  BY <1>1, Invariance, PTL

\* A write that ran alone is stored, for every body and any number of requests.
THEOREM LastWriteIsStored == Spec => []LatestIsStored
<1>1. IInv => LatestIsStored
  BY DEF IInv, LatestInv
<1> QED
  BY <1>1, Invariance, PTL

\* Unless saves overlapped, text and provenance in the memory belong together.
THEOREM MemoryIsAsSent == Spec => []RememberedAsSent
<1>1. IInv => RememberedAsSent
  BY DEF IInv, OneSave, Sent, RememberedAsSent
<1> QED
  BY <1>1, Invariance, PTL
=============================================================================
