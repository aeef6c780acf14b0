----------------------------- MODULE Ingestion -----------------------------
(***************************************************************************)
(* Embedding: the ingestion of a resume, a template, a past answer or a job *)
(* description, and the embedding of a question, run concurrently over one  *)
(* cache of vectors in Redis and one set of points in Qdrant.  A vector is  *)
(* represented by the text it was made from.                               *)
(***************************************************************************)
EXTENDS Chunker, Functions

CONSTANTS
    Calls,      \* calls of the ingestion functions and of embed_text
    Docs,       \* documents: rows of PostgreSQL
    Contents,   \* what each document may hold
    Questions,  \* the texts embed_text is called with
    BatchSize,  \* texts per request to the embeddings API
    Expiring,   \* bound: the texts whose vectors may expire
    None        \* no document, no call

ASSUME IngestionAssumption ==
    /\ BatchSize \in Nat \ {0}
    /\ \A d \in Docs : \A x \in Contents[d] : IsDocument(x)
    /\ None \notin Docs \cup Calls

VARIABLES
    pc,       \* the step each call is about to take
    doc,      \* the document of each call, None for a question
    content,  \* what each call was given of its document
    chunks,   \* the chunks each call embeds
    results,  \* embed_batch: the vectors so far, by the position of their text
    fresh,    \* embed_batch: the vectors of the misses so far, in their order
    cache,    \* Redis: the vectors by the text of their key
    points,   \* Qdrant: text and vector by point id
    recorded, \* qdrant_point_ids, or qdrant_point_id of an answer
    latest    \* history: the last call on each document, None when it overlapped

locals == <<doc, content, chunks>>
vars   == <<pc, doc, content, chunks, results, fresh, cache, points, recorded, latest>>

Steps == {"clear", "lookup", "embed", "store", "upsert", "record"}
Active(c) == pc[c] \in Steps

Texts(c)  == [i \in DOMAIN chunks[c] |-> Normalise(chunks[c][i].text)]

\* miss_indices: the positions without a vector, in order.
Misses(c) ==
    FlattenSeq([i \in DOMAIN chunks[c] |-> IF i \in DOMAIN results[c] THEN <<>> ELSE <<i>>])

Init ==
    /\ pc = [c \in Calls |-> "idle"]
    /\ doc = [c \in Calls |-> None] /\ content = [c \in Calls |-> None]
    /\ chunks = [c \in Calls |-> <<>>] /\ results = [c \in Calls |-> <<>>]
    /\ fresh = [c \in Calls |-> <<>>]
    /\ cache = <<>> /\ points = <<>>
    /\ recorded = [d \in Docs |-> <<>>]
    /\ latest = [d \in Docs |-> None]

Goto(c, step) == pc' = [pc EXCEPT ![c] = step]

-----------------------------------------------------------------------------
\* The document is chunked before the first await that matters: chunking depends
\* on the arguments alone.  An answer is not cleared first, and one without
\* chunks ends the call.
StartIngest(c, d, x) ==
    LET made == ChunkDocument(d, x) IN
    /\ pc[c] = "idle"
    /\ doc' = [doc EXCEPT ![c] = d]
    /\ content' = [content EXCEPT ![c] = x]
    /\ chunks' = [chunks EXCEPT ![c] = made]
    /\ Goto(c, IF x.kind # "answer" THEN "clear" ELSE IF made # <<>> THEN "lookup" ELSE "done")
    /\ latest' = [latest EXCEPT ![d] =
                     IF \E b \in Calls : Active(b) /\ doc[b] = d THEN None ELSE c]
    /\ UNCHANGED <<results, fresh, cache, points, recorded>>

\* embed_text raises ValueError for a blank text.
StartQuestion(c, text) ==
    /\ pc[c] = "idle"
    /\ chunks' = [chunks EXCEPT ![c] = <<[id |-> <<>>, text |-> text]>>]
    /\ Goto(c, IF Blank(text) THEN "failed" ELSE "lookup")
    /\ UNCHANGED <<doc, content, results, fresh, cache, points, recorded, latest>>

\* delete_by_source_id.  Without chunks nothing is embedded.
ClearPoints(c) ==
    /\ pc[c] = "clear"
    /\ points' = Restrict(points, {id \in DOMAIN points : id[1] # doc[c]})
    /\ Goto(c, IF chunks[c] = <<>> THEN "record" ELSE "lookup")
    /\ UNCHANGED <<locals, results, fresh, cache, recorded, latest>>

-----------------------------------------------------------------------------
(* embed_batch, and embed_text as the batch of one text.                     *)

\* One MGET for all the keys.
Lookup(c) ==
    LET hits == {i \in DOMAIN chunks[c] : Texts(c)[i] \in DOMAIN cache} IN
    /\ pc[c] = "lookup"
    /\ results' = [results EXCEPT ![c] = [i \in hits |-> cache[Texts(c)[i]]]]
    /\ fresh' = [fresh EXCEPT ![c] = <<>>]
    /\ Goto(c, IF hits # DOMAIN chunks[c] THEN "embed"
               ELSE IF doc[c] = None THEN "done" ELSE "upsert")
    /\ UNCHANGED <<locals, cache, points, recorded, latest>>

\* The misses of the next request to the API, a text that occurs twice as two.
Batch(c) ==
    LET n == Len(fresh[c])  misses == Misses(c) IN
    SubSeq(misses, n + 1, IF n + BatchSize < Len(misses) THEN n + BatchSize ELSE Len(misses))

\* Mutant of Vectors: the answer is taken in the order it comes in.
UnsortedVectors(data) == [k \in DOMAIN data |-> data[k].embedding]

\* sorted(response.data, key=lambda x: x.index)
Vectors(data) == [k \in DOMAIN data |->
    (CHOOSE item \in ToSet(data) : item.index = k).embedding]

\* One request; its answer may list the vectors in any order.  The API refuses
\* an empty text, which embed_batch does not look for.
EmbedBatch(c) ==
    LET batch == Batch(c) IN
    /\ pc[c] = "embed"
    /\ \A k \in DOMAIN batch : Texts(c)[batch[k]] # <<>>
    /\ \E order \in Bijection(DOMAIN batch, DOMAIN batch) :
           fresh' = [fresh EXCEPT ![c] = @ \o Vectors(
               [k \in DOMAIN batch |->
                   [index |-> order[k], embedding |-> Texts(c)[batch[order[k]]]]])]
    /\ Goto(c, IF Len(fresh'[c]) = Len(Misses(c)) THEN "store" ELSE "embed")
    /\ UNCHANGED <<locals, results, cache, points, recorded, latest>>

\* What a store holds after a write that replaces the entries it names.
Overwritten(old, new) ==
    [x \in DOMAIN old \cup DOMAIN new |-> IF x \in DOMAIN new THEN new[x] ELSE old[x]]

\* Mutant of Filled: the i-th new vector goes to the i-th slot.
FilledByPosition(c) == Overwritten(results[c], fresh[c])

\* The slots of the misses.
Filled(c) ==
    [i \in DOMAIN chunks[c] |->
        IF i \in DOMAIN results[c] THEN results[c][i]
        ELSE fresh[c][CHOOSE k \in DOMAIN fresh[c] : Misses(c)[k] = i]]

\* A pipeline that is no transaction: when it fails, the first keys are stored.
StoreVectors(c) ==
    LET misses == Misses(c)
        Stored(n) == [text \in {Texts(c)[misses[k]] : k \in 1..n} |->
            fresh[c][CHOOSE k \in 1..n : Texts(c)[misses[k]] = text]]
    IN
    /\ pc[c] = "store"
    /\ \/ /\ cache' = Overwritten(cache, Stored(Len(misses)))
          /\ results' = [results EXCEPT ![c] = Filled(c)]
          /\ Goto(c, IF doc[c] = None THEN "done" ELSE "upsert")
       \/ \E n \in 0..(Len(misses) - 1) :
              /\ cache' = Overwritten(cache, Stored(n))
              /\ Goto(c, "failed")
              /\ UNCHANGED results
    /\ UNCHANGED <<locals, fresh, points, recorded, latest>>

-----------------------------------------------------------------------------
(* The rest of _embed_and_upsert and of the ingestion functions.             *)

\* zip(chunks, vectors); the points of a repeated id are overwritten in order.
UpsertPoints(c) ==
    LET IdAt(i) == chunks[c][i].id
        last(id) == CHOOSE i \in DOMAIN chunks[c] :
                        IdAt(i) = id /\ \A k \in DOMAIN chunks[c] : IdAt(k) = id => k <= i
        upserted == [id \in {IdAt(i) : i \in DOMAIN chunks[c]} |->
                        [text |-> chunks[c][last(id)].text, vector |-> results[c][last(id)]]]
    IN
    /\ pc[c] = "upsert"
    /\ points' = Overwritten(points, upserted)
    /\ Goto(c, "record")
    /\ UNCHANGED <<locals, results, fresh, cache, recorded, latest>>

\* An answer's row has room for one id.
RecordIds(c) ==
    LET ids == [i \in DOMAIN chunks[c] |-> chunks[c][i].id] IN
    /\ pc[c] = "record"
    /\ recorded' = [recorded EXCEPT ![doc[c]] =
                       IF content[c].kind = "answer" THEN SubSeq(ids, 1, 1) ELSE ids]
    /\ Goto(c, "done")
    /\ UNCHANGED <<locals, results, fresh, cache, points, latest>>

\* Redis, the API, Qdrant or PostgreSQL fails.
Fail(c) ==
    /\ Active(c)
    /\ Goto(c, "failed")
    /\ UNCHANGED <<locals, results, fresh, cache, points, recorded, latest>>

\* The time to live of a vector ends.
Expire(text) ==
    /\ cache' = Restrict(cache, DOMAIN cache \ {text})
    /\ UNCHANGED <<pc, locals, results, fresh, points, recorded, latest>>

Work(c) ==
    \/ ClearPoints(c) \/ Lookup(c) \/ EmbedBatch(c) \/ StoreVectors(c)
    \/ UpsertPoints(c) \/ RecordIds(c) \/ Fail(c)

Next ==
    \/ \E c \in Calls :
           \/ \E d \in Docs : \E x \in Contents[d] : StartIngest(c, d, x)
           \/ \E text \in Questions : StartQuestion(c, text)
           \/ Work(c)
    \/ \E text \in DOMAIN cache \cap Expiring : Expire(text)

Spec == Init /\ [][Next]_vars

-----------------------------------------------------------------------------
TypeOK ==
    /\ pc \in [Calls -> Steps \cup {"idle", "done", "failed"}]
    /\ doc \in [Calls -> Docs \cup {None}]
    /\ DOMAIN recorded = Docs /\ latest \in [Docs -> Calls \cup {None}]
    /\ \A c \in Calls :
           /\ DOMAIN results[c] \subseteq DOMAIN chunks[c]
           /\ pc[c] \in {"clear", "upsert", "record"} =>
                  doc[c] \in Docs /\ content[c] \in Contents[doc[c]]
           /\ pc[c] = "upsert" => DOMAIN results[c] = DOMAIN chunks[c]

\* A cached vector is the vector of its key's text, and a point's vector that of
\* its own text, whatever was cached, expired, answered out of order or stored by
\* half in between: no chunk is found under another one's meaning.
VectorsMatchTexts ==
    /\ \A text \in DOMAIN cache : cache[text] = text
    /\ \A id \in DOMAIN points : points[id].vector = Normalise(points[id].text)

Indexed(d) == {id \in DOMAIN points : id[1] = d}

\* After a call that succeeded and ran alone, every word of every part of the
\* document is in a point of its own part, no other points of it are left (an
\* answer may keep some), and they are those the row records (of an answer, one).
LatestIsSearchable ==
    \A d \in Docs : latest[d] # None /\ pc[latest[d]] = "done" =>
        LET x == content[latest[d]]
            parts == {p \in ToSet(Parts(x)) : ~Blank(p.text)}
        IN
        /\ \A p \in parts : \A k \in DOMAIN p.text : p.text[k] # Space =>
               \E id \in Indexed(d) : id[2] = p.scope /\ \E n \in DOMAIN points[id].text :
                   points[id].text[n] = p.text[k]
        /\ x.kind # "answer" => Indexed(d) = ToSet(recorded[d])
        /\ x.kind = "answer" /\ parts # {} => ToSet(recorded[d]) \subseteq Indexed(d)
=============================================================================
