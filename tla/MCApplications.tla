--------------------------- MODULE MCApplications ---------------------------
(* Instances of Applications for TLC.                                        *)
EXTENDS Applications, TLC

CONSTANTS f1, f2, unknown, yes, no

Item(f, t, s) == [field |-> f, text |-> t, source |-> s]

\* A generated answer, its later edit by the user, a field that is named twice,
\* an answer left empty, a field that is not in form_fields, and no answer at all.
MCBodies ==
    {<<>>,
     <<Item(f1, yes, "ai_generated"), Item(f2, yes, "template")>>,
     <<Item(f1, no, "user_override")>>,
     <<Item(f2, no, "template"), Item(f1, yes, "user_override"), Item(f2, None, "template")>>,
     <<Item(f1, no, "template"), Item(unknown, yes, "template")>>}

\* "skipped" is treated as "failed" is.
MCStatuses == {"detected", "autofilled", "submitted", "failed"}

RequestSymmetry == Permutations(Requests)
=============================================================================
