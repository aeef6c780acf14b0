-------------------------- MODULE MCResumePipeline --------------------------
(* Instances of ResumePipeline for TLC, and a statement of a docstring that   *)
(* the pipeline does not keep.                                               *)
EXTENDS ResumePipeline, FiniteSets, TLC

CONSTANTS full, short

\* Two extraction results: a short one whose only chunk has the id of the first
\* chunk of the full one.
MCParses == {full, short}
MCChunkPoints == (full :> {1, 2}) @@ (short :> {1})
ShortOnly == short :> {1}

\* A bound of the run with three resumes: the user has at most two requests in
\* progress, one of them a delete.
TwoRequests ==
    LET uploads == {r \in Resumes : upload[r] \in Storing}
        deletes == {r \in Resumes : del[r] \in Deleting}
    IN  /\ Cardinality(uploads) + Cardinality(deletes) <= 2
        /\ Cardinality(deletes) <= 1

ResumeSymmetry == Permutations(Resumes)

\* "Delete a resume's S3 file, Qdrant vectors, and PostgreSQL rows"
\* (routers/resume.py:304): once a delete has answered and nothing is at work on
\* the resume any more, no point of it is left in Qdrant.
DeletedLeavesNoVectors ==
    \A r \in Resumes : del[r] = "done" /\ ~Carried(r) => vectors[r] = {}
=============================================================================
