-------------------------- MODULE ResumeLifecycle --------------------------
(***************************************************************************)
(* What the owner of a resume may rely on: a resume is listed as pending,  *)
(* then as processing, and is published as complete in one step, the parse *)
(* in PostgreSQL, its chunks in Qdrant and the recorded point ids together. *)
(* What is published changes only by another parse of the same resume,     *)
(* which first withdraws it.  A delete request hides the resume, and one   *)
(* that has answered ends it for good.                                     *)
(***************************************************************************)
CONSTANTS Resumes, Parses, Chunks(_), PointIds(_), None

VARIABLES
    shown,     \* what each resume is listed as
    published  \* what search and autofill find of a complete resume

lifecycleVars == <<shown, published>>

Published(p) == [parsed |-> p, vectors |-> Chunks(p), points |-> PointIds(p)]

Init ==
    /\ shown = [r \in Resumes |-> "absent"]
    /\ published = [r \in Resumes |-> None]

Show(r, s) == shown' = [shown EXCEPT ![r] = s]
Withdraw(r) == published' = [published EXCEPT ![r] = None]

Insert(r) ==
    /\ shown[r] = "absent"
    /\ Show(r, "pending")
    /\ UNCHANGED published

Start(r) ==
    /\ shown[r] \in {"pending", "complete"}
    /\ Show(r, "processing")
    /\ Withdraw(r)

Publish(r) ==
    /\ shown[r] = "processing"
    /\ Show(r, "complete")
    /\ \E p \in Parses :
           published' = [published EXCEPT ![r] = Published(p)]

Hide(r) ==
    /\ shown[r] \in {"pending", "processing", "complete"}
    /\ Show(r, "deleting")
    /\ Withdraw(r)

Remove(r) ==
    /\ shown[r] = "deleting"
    /\ Show(r, "deleted")
    /\ UNCHANGED published

Next == \E r \in Resumes :
            Insert(r) \/ Start(r) \/ Publish(r) \/ Hide(r) \/ Remove(r)

Spec == Init /\ [][Next]_lifecycleVars
=============================================================================
