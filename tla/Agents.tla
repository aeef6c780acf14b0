------------------------------- MODULE Agents -------------------------------
(***************************************************************************)
(* The endpoints of the agents: answers for one question or a batch, the    *)
(* search for past answers, the understanding of a form, and the extraction *)
(* of a resume that the parse task asks for.  One request at a time: the    *)
(* agents hold no state, so requests meet in the vector store only, which   *)
(* other requests change between the searches of this one.                  *)
(***************************************************************************)
EXTENDS AnswerGeneration, FormUnderstanding, ResumeExtraction

CONSTANTS
    Points,       \* the points the vector store may hold
    Similarities, \* the scores the embedding model may give, by id of a point
    Inputs,       \* the requests
    Replies,      \* the language model's replies: to a question,
    FormReplies,  \* to a list of fields
    Extractions   \* and to a resume

IsList(s) == s \in Seq(ToSet(s))

\* A score is a cosine; a figure is as its pattern finds it, a year of four digits.
ASSUME PointsAssumption ==
    /\ IsFiniteSet(Points)
    /\ \A p \in Points :
           /\ p.collection \in Collections /\ p.length \in Nat
           /\ \A f \in p.figures : IsList(f.digits)
           /\ \A s \in Similarities : s[p.id] \in (-100)..100

ASSUME InputsAssumption ==
    \A i \in Inputs :
        \/ i.kind = "answers" /\ i.batch \in BOOLEAN /\ IsList(i.questions)
        \/ i.kind = "memory" /\ i.topK \in Nat /\ i.threshold \in 0..100
        \/ i.kind = "form" /\ IsList(i.page.elements)
        \/ i.kind = "resume"

ASSUME RepliesAssumption ==
    /\ \A r \in Replies :
           \/ r.kind \in {"garbage", "refusal", "odd"}
           \/ /\ r.kind = "answer" /\ r.blank \in BOOLEAN /\ IsList(r.words)
              /\ \A f \in r.figures :
                     /\ f.kind \in {"percent", "dollar", "year"} /\ IsList(f.digits)
                     /\ f.kind = "year" => Len(f.digits) = 4
    /\ \A r \in FormReplies :
           r.kind \in {"garbage", "odd"} \/ (r.kind = "list" /\ IsList(r.items))
    /\ \A r \in Extractions : r.kind \in {"garbage", "odd", "resume"}

VARIABLES
    index,    \* the points in the vector store
    pc,       \* "idle", "search", "ask", "done" or "failed"
    input,    \* the request
    score,    \* the scores of the points for its question
    found,    \* what each search returned, None before it did
    context,  \* the context of the answers
    replies,  \* what came of each reply so far, None without one
    result,   \* what the request returns
    searched  \* history: the user's points in each collection when it was searched

vars == <<index, pc, input, score, found, context, replies, result, searched>>

NothingFound    == [c \in Collections |-> None]
NothingSearched == [c \in Collections |-> {}]

Init ==
    /\ index = Points /\ pc = "idle"
    /\ input = None /\ score = None /\ found = NothingFound
    /\ context = EmptyContext /\ replies = <<>> /\ result = None
    /\ searched = NothingSearched

\* The end of a request, and of what it held.
Return ==
    /\ pc \in {"done", "failed"}
    /\ pc' = "idle"
    /\ input' = None /\ score' = None /\ found' = NothingFound
    /\ context' = EmptyContext /\ replies' = <<>> /\ result' = None
    /\ searched' = NothingSearched
    /\ UNCHANGED index

Finish(value) == pc' = "done" /\ result' = value

-----------------------------------------------------------------------------
(* POST /answers/generate and /answers/generate-batch                       *)

\* Questions are records of a name and whether they are blank; a batch searches
\* for all of them joined.
Blank(i) ==
    IF i.kind = "answers" THEN \A q \in ToSet(i.questions) : q.blank ELSE i.question.blank

Refusals(i) ==
    [n \in DOMAIN i.questions |->
        [question |-> i.questions[n].name, asked |-> i.questions[n].name, answer |-> Refusal]]

\* A blank query has an empty context, which is refused without the model.
StartAnswers ==
    \E i \in {i \in Inputs : i.kind = "answers"}, s \in Similarities :
        /\ pc = "idle" /\ input' = i
        /\ IF Blank(i) THEN Finish(Refusals(i)) /\ UNCHANGED score
           ELSE pc' = "search" /\ score' = s /\ UNCHANGED result
        /\ UNCHANGED <<index, found, context, replies, searched>>

TopKOf(i) ==
    CASE i.kind = "memory" -> i.topK
      [] i.kind = "answers" /\ ~ i.batch -> RagTopK
      [] i.kind = "answers" /\ i.batch   -> Min({RagTopK * 2, 20})

\* The caller's filter.  memory/search has a `must_not', which counts for nothing.
DocumentOf(i, c) ==
    CASE i.kind = "memory" \/ c = "past_answer" -> None
      [] i.kind # "memory" /\ c = "resume" -> i.resume
      [] i.kind # "memory" /\ c = "job_description" -> i.job
      [] i.kind # "memory" /\ c = "template" -> i.template

ThresholdOf(i) == IF i.kind = "memory" THEN i.threshold ELSE Threshold

Searched(i) == IF i.kind = "memory" THEN {"past_answer"} ELSE Collections

\* The searches of a request run concurrently.
SearchCollection(c) ==
    /\ pc = "search" /\ c \in Searched(input) /\ found[c] = None
    /\ found' = [found EXCEPT ![c] =
           Search(index, score, c, input.user, DocumentOf(input, c), TopKOf(input),
                  ThresholdOf(input))]
    /\ searched' = [searched EXCEPT ![c] =
           {p \in index : p.collection = c /\ p.user = input.user}]
    /\ UNCHANGED <<index, pc, input, score, context, replies, result>>

\* Another request stores or removes a document.
Reindex(d) ==
    LET points == {p \in Points : p.document = d} IN
    /\ pc = "search"
    /\ index' = IF points \subseteq index THEN index \ points ELSE index \cup points
    /\ UNCHANGED <<pc, input, score, found, context, replies, result, searched>>

AllFound == \A c \in Searched(input) : found[c] # None

\* retrieve_context returns.
Retrieve ==
    /\ pc = "search" /\ input.kind = "answers" /\ AllFound
    /\ context' = Context(found)
    /\ IF IsEmpty(Context(found))
       THEN Finish(Refusals(input)) /\ UNCHANGED replies
       ELSE /\ pc' = "ask"
            /\ replies' = [n \in DOMAIN input.questions |-> None]
            /\ UNCHANGED result
    /\ UNCHANGED <<index, input, score, found, searched>>

Reply(n, r) == [asked |-> input.questions[n].name, answer |-> Generate(context, r)]

\* Mutant of Answer: the answers of a batch are kept in the order they come.
AnswerInTurn(n) ==
    \E r \in Replies :
        LET next == Cardinality({k \in DOMAIN replies : replies[k] # None}) + 1 IN
        /\ pc = "ask" /\ input.kind = "answers" /\ ~ Raises(r)
        /\ n \in DOMAIN replies
        /\ \A k \in DOMAIN replies : replies[k] # None => replies[k].asked # input.questions[n].name
        /\ replies' = [replies EXCEPT ![next] = Reply(n, r)]
        /\ UNCHANGED <<index, pc, input, score, found, context, result, searched>>

\* The model is asked all the questions of a batch at once.
Answer(n) ==
    \E r \in Replies :
        /\ pc = "ask" /\ input.kind = "answers" /\ ~ Raises(r)
        /\ n \in DOMAIN replies /\ replies[n] = None
        /\ replies' = [replies EXCEPT ![n] = Reply(n, r)]
        /\ UNCHANGED <<index, pc, input, score, found, context, result, searched>>

ReturnAnswers ==
    /\ pc = "ask" /\ input.kind = "answers"
    /\ \A n \in DOMAIN replies : replies[n] # None
    /\ Finish([n \in DOMAIN replies |->
           [question |-> input.questions[n].name,
            asked |-> replies[n].asked, answer |-> replies[n].answer]])
    /\ UNCHANGED <<index, input, score, found, context, replies, searched>>

-----------------------------------------------------------------------------
(* POST /memory/search                                                      *)

StartMemory ==
    \E i \in {i \in Inputs : i.kind = "memory"}, s \in Similarities :
        /\ pc = "idle" /\ input' = i
        /\ IF Blank(i) THEN Finish(<<>>) /\ UNCHANGED score
           ELSE pc' = "search" /\ score' = s /\ UNCHANGED result
        /\ UNCHANGED <<index, found, context, replies, searched>>

\* The answer is cut out of the first chunk of its text; another chunk is
\* returned as it is.
SimilarAnswer(chunk) ==
    [point |-> chunk.point.id, application |-> chunk.point.document,
     score |-> chunk.score, whole |-> chunk.point.first]

Remember ==
    /\ pc = "search" /\ input.kind = "memory" /\ AllFound
    /\ Finish([n \in DOMAIN found["past_answer"] |-> SimilarAnswer(found["past_answer"][n])])
    /\ UNCHANGED <<index, input, score, found, context, replies, searched>>

-----------------------------------------------------------------------------
(* POST /form/understand                                                    *)

StartForm ==
    \E i \in {i \in Inputs : i.kind = "form"} :
        /\ pc = "idle" /\ input' = i
        /\ IF Unresolved(i.page) = {} THEN Finish(Understand(i.page, Empty))
           ELSE pc' = "ask" /\ UNCHANGED result
        /\ UNCHANGED <<index, score, found, context, replies, searched>>

Classify ==
    \E r \in FormReplies :
        /\ pc = "ask" /\ input.kind = "form" /\ ~ FormRaises(input.page, r)
        /\ replies' = <<r>>
        /\ Finish(Understand(input.page, r))
        /\ UNCHANGED <<index, input, score, found, context, searched>>

-----------------------------------------------------------------------------
(* ResumeExtractorAgent.extract, for the parse task                         *)

StartExtraction ==
    \E i \in {i \in Inputs : i.kind = "resume"} :
        /\ pc = "idle" /\ input' = i
        /\ IF RawText(i.file) = <<>> THEN Finish(NoResume)
           ELSE pc' = "ask" /\ UNCHANGED result
        /\ UNCHANGED <<index, score, found, context, replies, searched>>

Parse ==
    \E r \in Extractions :
        /\ pc = "ask" /\ input.kind = "resume" /\ ~ ExtractRaises(r)
        /\ replies' = <<r>>
        /\ Finish(Extract(RawText(input.file), r))
        /\ UNCHANGED <<index, input, score, found, context, searched>>

-----------------------------------------------------------------------------
\* A search, or the model, fails, or its reply raises: one of a batch fails all.
Fail ==
    /\ pc \in {"search", "ask"}
    /\ pc' = "failed"
    /\ UNCHANGED <<index, input, score, found, context, replies, result, searched>>

Next ==
    \/ StartAnswers \/ StartMemory \/ StartForm \/ StartExtraction
    \/ \E c \in Collections : SearchCollection(c)
    \/ \E d \in {p.document : p \in Points} : Reindex(d)
    \/ Retrieve \/ ReturnAnswers \/ Remember \/ Classify \/ Parse
    \/ \E n \in 1..20 : Answer(n)
    \/ Fail \/ Return

Spec == Init /\ [][Next]_vars

-----------------------------------------------------------------------------
Done(kind)   == pc = "done" /\ input.kind = kind
Answers      == IF Done("answers") THEN {result[n].answer : n \in DOMAIN result} ELSE {}
Given        == {a \in Answers : ~ a.refused}

\* What a search of c had to choose from: the user's points that were stored when
\* it was made, of the document asked for, not under the threshold.
Eligible(c) ==
    {p \in searched[c] : /\ DocumentOf(input, c) \in {None, p.document}
                         /\ score[p.id] >= ThresholdOf(input)}

\* Every score a result carries is in the range its schema accepts.
TypeOK ==
    /\ index \subseteq Points /\ searched \in [Collections -> SUBSET Points]
    /\ pc \in {"idle", "search", "ask", "done", "failed"}
    /\ input \in Inputs \cup {None} /\ score \in Similarities \cup {None}
    /\ \A a \in Answers :
           a.confidence \in 0..1000 /\ a.source \in Sources /\ Len(a.trail) <= TrailLength
    /\ Done("form") => result.confidence \in 0..100
    /\ Done("resume") => result.confidence \in 0..100

\* Whatever is stored or removed while a request runs, what it uses was in the
\* store when its collection was searched, is the user's own, of the document
\* asked for if one was, and not under the threshold; the context fits in the
\* prompt, each collection in its share, all of it in MAX_CONTEXT_TOKENS.  A past
\* answer of an application the caller excludes is used all the same.
ContextSound ==
    /\ \A c \in Collections :
           found[c] # None => \A k \in ToSet(found[c]) :
               k.point \in Eligible(c) /\ k.point.collection = c /\ k.score = score[k.point.id]
    /\ pc \in {"ask", "done"} /\ context # EmptyContext =>
          /\ \A c \in Collections : /\ ToSet(context[c]) \subseteq ToSet(found[c])
                                    /\ Tokens(context[c]) <= Budget(c)
          /\ Tokens(context["resume"] \o context["past_answer"]
                    \o context["job_description"] \o context["template"]) <= MaxContext
    /\ Done("memory") => \A n \in DOMAIN result :
          \E p \in Eligible("past_answer") : p.id = result[n].point /\ result[n].score = score[p.id]

\* A search passes over an eligible point, excluded by the caller or not, only for
\* as many others as were asked for, none of which scores less.  Of what it found
\* the context has the best, and a best one of the rest does not fit in the
\* collection's share; shorter ones behind it are left out even if they would fit.
BestIsKept ==
    /\ \A c \in Collections : found[c] # None =>
           \A p \in Eligible(c) \ {k.point : k \in ToSet(found[c])} :
               /\ Len(found[c]) = TopKOf(input)
               /\ \A k \in ToSet(found[c]) : k.score >= score[p.id]
    /\ pc = "ask" /\ input.kind = "answers" => \A c \in Collections :
           LET kept == ToSet(context[c])  left == ToSet(found[c]) \ kept IN
           /\ \A k \in kept, l \in left : k.score >= l.score
           /\ left # {} => \E l \in left :
                  /\ \A m \in left : l.score >= m.score
                  /\ Tokens(context[c]) + EstimateTokens(l) > Budget(c)

\* Every question of a batch gets one answer, its own, in whatever order the
\* model replies, and an answer that is not refused names what it rests on.
AnswersAreAligned ==
    Done("answers") =>
        /\ Len(result) = Len(input.questions)
        /\ \A n \in DOMAIN result :
               /\ result[n].question = input.questions[n].name
               /\ result[n].asked = input.questions[n].name
               /\ result[n].answer.refused
                  \/ /\ result[n].answer.trail # <<>>
                     /\ ToSet(result[n].answer.trail) \subseteq AllChunks(context)

\* Does any text of the context hold these digits?
DigitsInContext(digits) == \E f \in Figures(context) : Occurs(digits, f.digits)

Century(year) == SubSeq(year.digits, 1, 2)

\* An answer with a percentage or an amount whose digits no part of the context
\* holds is flagged and loses confidence for it.  One whose percentages and amounts
\* are all in the context is flagged exactly if the century of one of its years is
\* nowhere: a year that no part of the context holds passes if its first two
\* digits occur anywhere.  A refusal claims nothing.
FiguresAreChecked ==
    /\ \A a \in Given :
           /\ (\E f \in a.figures : f.kind # "year" /\ ~ DigitsInContext(f.digits)) => a.flagged
           /\ (\A f \in a.figures : f.kind = "year" \/ f \in Figures(context)) =>
                  (a.flagged <=> \E f \in a.figures :
                                     f.kind = "year" /\ ~ DigitsInContext(Century(f)))
           /\ a.flagged => a.confidence <= 750
    /\ \A a \in Answers \ Given : a.figures = {} /\ a.confidence = 0 /\ ~ a.flagged

\* A form comes back with each field a user can fill in, once and in the order of
\* the page; a mapping is the patterns' own or one the model gave for that field.
FormComplete ==
    Done("form") =>
        LET shown == Shown(input.page) IN
        /\ Len(result.fields) = Len(shown)
        /\ \A n \in DOMAIN shown :
               LET field == result.fields[n] IN
               /\ field.raw.name = shown[n].name /\ field.raw.order = n - 1
               /\ \/ field.mapping = HeuristicMap(field.raw)
                  \/ HeuristicMap(field.raw) = Empty /\ field.mapping.key = FormUnknown
                  \/ /\ HeuristicMap(field.raw) = Empty
                     /\ \E item \in ToSet(replies[1].items) :
                            item.order = n - 1 /\ item.mapping = field.mapping
        /\ result.warned = (shown = <<>>)

\* Of an extracted resume an e-mail address is kept only if it is in the text the
\* model was shown, a name if one part of it is, and a LinkedIn link, whatever it
\* points to, if the word "linkedin" is.  What is kept of the three, and all else,
\* is what the model replied, unchecked.  Full confidence means that none of the
\* three was cleared and that there are a name, an address, skills and experience.
ExtractedIsGrounded ==
    Done("resume") /\ result # NoResume =>
        LET text  == Truncated(RawText(input.file))
            reply == replies[1].resume
        IN
        /\ result.email \in {<<>>, reply.email} /\ result.name \in {<<>>, reply.name}
        /\ result.linkedin \in {Missing, reply.linkedin}
        /\ result.skills = reply.skills /\ result.experience = reply.experience
        /\ ~ Absent(result.email) => Mentions(text, result.email)
        /\ ~ Absent(result.name) => Mentions(text, result.name)
        /\ ~ Absent(result.linkedin) => Mentions(text, <<"linkedin">>)
        /\ result.confidence = 100 =>
               /\ result.email = reply.email /\ result.name = reply.name
               /\ result.linkedin = reply.linkedin
               /\ \A value \in {result.email, result.name, result.skills, result.experience} :
                      ~ Absent(value)
=============================================================================
