-------------------------- MODULE ResumeExtraction --------------------------
(***************************************************************************)
(* What the extractor makes of the language model's reply to the text of a  *)
(* resume.  A text is a sequence of words.  A reply is "garbage" (not       *)
(* JSON), "odd" (JSON that is no object: it raises) or "resume", a record   *)
(* of the fields the checks look at, where Missing is a null.  Confidence is *)
(* in hundredths.                                                           *)
(***************************************************************************)
EXTENDS Integers, SequencesExt

CONSTANTS
    MaxText,   \* MAX_CONTEXT_TOKENS * 3, in words
    Missing    \* null

NoResume ==
    [email |-> <<>>, name |-> <<>>, linkedin |-> Missing,
     skills |-> <<>>, experience |-> <<>>, confidence |-> 0]

\* The text of a file.  The targets of the links in a PDF follow its pages.
RawText(file) ==
    IF file.type # "pdf" THEN FlattenSeq(file.pages)
    ELSE FlattenSeq(file.pages)
             \o IF file.links = {} THEN <<>> ELSE <<"links">> \o SetToSeq(file.links)

Truncated(text) == IF Len(text) > MaxText THEN SubSeq(text, 1, MaxText) ELSE text

Absent(value) == value \in {Missing, <<>>}
Mentions(text, words) == ToSet(words) \cap ToSet(text) # {}

-----------------------------------------------------------------------------
(* _compute_confidence: what the text does not contain is cleared.          *)

InventedEmail(parsed, text)    == ~ Absent(parsed.email) /\ ~ Mentions(text, parsed.email)
InventedName(parsed, text)     == ~ Absent(parsed.name) /\ ~ Mentions(text, parsed.name)
InventedLinkedin(parsed, text) == ~ Absent(parsed.linkedin) /\ ~ Mentions(text, <<"linkedin">>)

\* Mutant of Cleared: an invented e-mail costs confidence and stays.
ClearedName(parsed, text) ==
    [email      |-> parsed.email,
     name       |-> IF InventedName(parsed, text) THEN <<>> ELSE parsed.name,
     linkedin   |-> IF InventedLinkedin(parsed, text) THEN Missing ELSE parsed.linkedin,
     skills     |-> parsed.skills,
     experience |-> parsed.experience]

Cleared(parsed, text) ==
    [email      |-> IF InventedEmail(parsed, text) THEN <<>> ELSE parsed.email,
     name       |-> IF InventedName(parsed, text) THEN <<>> ELSE parsed.name,
     linkedin   |-> IF InventedLinkedin(parsed, text) THEN Missing ELSE parsed.linkedin,
     skills     |-> parsed.skills,
     experience |-> parsed.experience]

Penalty(condition, points) == IF condition THEN points ELSE 0

ResumeConfidence(parsed, text) ==
    LET cleared == Cleared(parsed, text) IN
    100 - Penalty(InventedEmail(parsed, text), 20)
        - Penalty(InventedName(parsed, text), 10)
        - Penalty(InventedLinkedin(parsed, text), 5)
        - Penalty(Absent(cleared.name), 15)
        - Penalty(Absent(cleared.email), 10)
        - Penalty(Absent(cleared.skills), 5)
        - Penalty(Absent(cleared.experience), 10)

-----------------------------------------------------------------------------
(* extract.  The schema accepts a null in the optional fields only, and a   *)
(* reply it refuses is lost as a whole.                                     *)

Valid(parsed) ==
    Missing \notin {parsed.email, parsed.name, parsed.skills, parsed.experience}

ExtractRaises(reply) == reply.kind = "odd"

Extract(text, reply) ==
    LET seen    == Truncated(text)
        cleared == Cleared(reply.resume, seen)
    IN IF reply.kind = "garbage" \/ ~ Valid(cleared) THEN NoResume
       ELSE [email |-> cleared.email, name |-> cleared.name, linkedin |-> cleared.linkedin,
             skills |-> cleared.skills, experience |-> cleared.experience,
             confidence |-> ResumeConfidence(reply.resume, seen)]
=============================================================================
