------------------------------ MODULE Retrieval ------------------------------
(***************************************************************************)
(* Searching the vector store and fitting what it finds into a prompt.  A   *)
(* point is a record of its id, collection, user, document, length in       *)
(* characters, and the figures and words of its text.  Scores are in        *)
(* hundredths and given by the embedding model, as a function of the id.    *)
(***************************************************************************)
EXTENDS Integers, SequencesExt

CONSTANTS
    MaxContext,  \* settings.MAX_CONTEXT_TOKENS
    RagTopK,     \* settings.RAG_TOP_K
    Threshold,   \* settings.RAG_SIMILARITY_THRESHOLD, in hundredths
    None         \* no filter, no reply

ASSUME RetrievalAssumption ==
    MaxContext \in Nat /\ RagTopK \in Nat /\ Threshold \in 0..100

Collections == {"resume", "past_answer", "job_description", "template"}

\* Hundredths of MaxContext each collection may fill.
Share == [resume |-> 30, past_answer |-> 30, job_description |-> 25, template |-> 15]
Budget(c) == (MaxContext * Share[c]) \div 100

\* The best first.
Ranked(chunks) ==
    CHOOSE seq \in SetToSeqs(chunks) :
        \A i, j \in DOMAIN seq : i < j => seq[i].score >= seq[j].score

FirstOf(n, seq) == SubSeq(seq, 1, Min({n, Len(seq)}))

-----------------------------------------------------------------------------
(* QdrantHelper.search                                                      *)

Chunk(point, score) == [point |-> point, score |-> score[point.id]]

\* Mutant of Matching: the caller's filter replaces the filter by user.
MatchingFilter(index, collection, user, document) ==
    {p \in index : p.collection = collection
                   /\ IF document = None THEN p.user = user ELSE p.document = document}

\* Only the `must' conditions of the caller's filter are added to the user's.
Matching(index, collection, user, document) ==
    {p \in index : p.collection = collection /\ p.user = user
                   /\ (document # None => p.document = document)}

Search(index, score, collection, user, document, topK, threshold) ==
    LET hits == {p \in Matching(index, collection, user, document) : score[p.id] >= threshold}
    IN FirstOf(topK, Ranked({Chunk(p, score) : p \in hits}))

-----------------------------------------------------------------------------
(* retrieve_context, once the searches are back                             *)

\* The highest-scoring copy of each point.
Deduplicate(chunks) ==
    {c \in chunks : \A d \in chunks : d.point.id = c.point.id => d.score <= c.score}

EstimateTokens(chunk) == Max({1, chunk.point.length \div 4})

Tokens(chunks) == FoldLeft(+, 0, [n \in DOMAIN chunks |-> EstimateTokens(chunks[n])])

\* Mutant of ApplyTokenBudget: a chunk that does not fit is passed over.
PassOverLong(chunks, maxTokens) ==
    FoldLeft(LAMBDA kept, c : IF Tokens(Append(kept, c)) > maxTokens THEN kept
                              ELSE Append(kept, c), <<>>, Ranked(chunks))

\* The best chunks, up to the first that does not fit.  Every chunk has at least
\* one token, so that is the longest run of them that fits.
ApplyTokenBudget(chunks, maxTokens) ==
    LET ranked == Ranked(chunks)
        fits == {n \in 0..Len(ranked) : Tokens(SubSeq(ranked, 1, n)) <= maxTokens}
    IN SubSeq(ranked, 1, Max(fits))

\* found: what each search returned; an empty context is one without chunks.
Context(found) ==
    [c \in Collections |-> ApplyTokenBudget(Deduplicate(ToSet(found[c])), Budget(c))]

EmptyContext == [c \in Collections |-> <<>>]
IsEmpty(context) == context = EmptyContext

\* all_chunks(), whose order matters to the audit trail only.
AllChunks(context) == UNION {ToSet(context[c]) : c \in Collections}
=============================================================================
