------------------------------ MODULE Chunker ------------------------------
(***************************************************************************)
(* How a document becomes chunks.  A text is a sequence of tokens, one of   *)
(* which stands for white space.  A document is split into parts, each a    *)
(* text with a scope that tells it from the document's other parts, and     *)
(* each part into overlapping windows; a chunk's id is the document, the    *)
(* scope and the window's number.                                          *)
(***************************************************************************)
EXTENDS Integers, SequencesExt

CONSTANTS
    ChunkSize,    \* settings.CHUNK_SIZE, in tokens
    ChunkOverlap, \* settings.CHUNK_OVERLAP
    ShortText,    \* a template's text of at most this length is not embedded
    Tokens,       \* the words of documents, and their headings
    Space         \* the token of white space

Headings == {"summary", "skills", "experience", "education", "projects",
             "coding_profiles", "certifications", "contact", "question"}

ASSUME ChunkerAssumption ==
    /\ ChunkSize \in Nat \ {0} /\ ChunkOverlap \in Nat /\ ShortText \in Nat
    /\ Headings \subseteq Tokens

Text == Seq(Tokens)

\* " ".join(text.split()): the words of a text.
Normalise(text) == SelectSeq(text, LAMBDA token : token # Space)
Blank(text)     == Normalise(text) = <<>>

-----------------------------------------------------------------------------
(* chunk_text                                                               *)

\* Mutant of Advance: the overlap is added.
WideAdvance == ChunkSize + ChunkOverlap

Advance == IF ChunkSize > ChunkOverlap THEN ChunkSize - ChunkOverlap ELSE 1

Window(start, total) ==
    [first |-> start + 1,
     last  |-> IF start + ChunkSize < total THEN start + ChunkSize ELSE total]

\* A window starts at each multiple of Advance before the end: one that reaches
\* the end does not stop the loop.  Positions count from 1.
Windows(total) ==
    [n \in 1..((total + Advance - 1) \div Advance) |-> Window((n - 1) * Advance, total)]

ChunkId(doc, scope, index) == <<doc, scope, index>>

ChunkText(doc, part) ==
    IF Blank(part.text) THEN <<>>
    ELSE LET windows == Windows(Len(part.text)) IN
         [i \in DOMAIN windows |->
             [id   |-> ChunkId(doc, part.scope, i - 1),
              text |-> SubSeq(part.text, windows[i].first, windows[i].last)]]

-----------------------------------------------------------------------------
(* The parts of each kind of document.  A part starts with its heading.     *)

Part(heading, scope, text) == <<[scope |-> scope, text |-> <<heading>> \o text]>>

OptionalPart(section, text) ==
    IF text = <<>> THEN <<>> ELSE Part(section, <<section>>, text)

\* A part for each entry, even an empty one, told apart by its index.
Entries(section, entries) ==
    [i \in DOMAIN entries |-> Part(section, <<section, i - 1>>, entries[i])[1]]

ResumeParts(resume) ==
    FlattenSeq(<<OptionalPart("summary", resume.summary),
                 OptionalPart("skills", resume.skills),
                 Entries("experience", resume.experience),
                 Entries("education", resume.education),
                 Entries("projects", resume.projects),
                 OptionalPart("coding_profiles", resume.coding_profiles),
                 OptionalPart("certifications", resume.certifications),
                 OptionalPart("contact", resume.contact)>>)

\* The pairs of custom_qa that have both a question and an answer keep their
\* place in the list.
QaParts(pairs) ==
    FlattenSeq([i \in DOMAIN pairs |->
        IF pairs[i].question = <<>> \/ pairs[i].answer = <<>> THEN <<>>
        ELSE Part("question", <<"custom_qa", i - 1, pairs[i].question>>,
                  pairs[i].question \o pairs[i].answer)])

\* answers_json in its order; a value is a text or a list.  Short texts, and
\* lists under other keys, are not embedded.
TemplateParts(answers) ==
    FlattenSeq([i \in DOMAIN answers |->
        LET key == answers[i].key  value == answers[i].value IN
        CASE answers[i].type = "list" /\ key = "custom_qa" -> QaParts(value)
          [] answers[i].type = "text" /\ Len(value) > ShortText -> Part(key, <<key>>, value)
          [] OTHER -> <<>>])

\* Everything but the text itself is in the scope of a past answer.
AnswerParts(answer) ==
    IF Blank(answer.text) THEN <<>>
    ELSE Part(answer.label, <<answer.field, answer.source, answer.label>>, answer.text)

JobParts(job) == <<[scope |-> <<job.company, job.role>>, text |-> job.text]>>

Parts(content) ==
    CASE content.kind = "resume"   -> ResumeParts(content)
      [] content.kind = "template" -> TemplateParts(content.answers)
      [] content.kind = "answer"   -> AnswerParts(content)
      [] content.kind = "job"      -> JobParts(content)

\* What is given to the ingestion functions.  A dictionary has each key once.
IsDocument(content) ==
    /\ content.kind \in {"resume", "template", "answer", "job"}
    /\ content.kind = "resume" =>
           /\ {content.summary, content.skills, content.coding_profiles,
               content.certifications, content.contact} \subseteq Text
           /\ {content.experience, content.education, content.projects} \subseteq Seq(Text)
    /\ content.kind = "template" =>
           LET answers == content.answers IN
           /\ answers \in Seq(ToSet(answers))
           /\ \A i, j \in DOMAIN answers : answers[i].key = answers[j].key => i = j
           /\ \A i \in DOMAIN answers :
                  /\ answers[i].key \in Tokens
                  /\ answers[i].type = "text" => answers[i].value \in Text
                  /\ answers[i].type = "list" /\ answers[i].key = "custom_qa" =>
                         answers[i].value \in Seq([question : Text, answer : Text])
    /\ content.kind = "answer" => content.text \in Text /\ content.label \in Tokens
    /\ content.kind = "job" => content.text \in Text

ChunkDocument(doc, content) ==
    LET parts == Parts(content) IN
    FlattenSeq([i \in DOMAIN parts |-> ChunkText(doc, parts[i])])
=============================================================================
