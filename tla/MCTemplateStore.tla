-------------------------- MODULE MCTemplateStore --------------------------
(* Instances of TemplateStore for TLC.                                       *)
EXTENDS TemplateStore, TLC

CONSTANTS long, short

MCTexts == {long, short}
MCChunkPoints == (long :> {1, 2}) @@ (short :> {1})

\* A bound: when nothing has run yet, the existing templates do not differ.
SameStart ==
    (\A q \in Requests : pc[q] = "idle") =>
        \A s, t \in Existing :
            row[s] = row[t] /\ vectors[s] = vectors[t] /\ pointIds[s] = pointIds[t]
=============================================================================
