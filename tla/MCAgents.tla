------------------------------ MODULE MCAgents ------------------------------
(***************************************************************************)
(* Two users, a point or two in each collection, single questions and       *)
(* batches of two, a page of four elements and a resume in three shapes.    *)
(***************************************************************************)
EXTENDS Agents

Figure(kind, digits) == [kind |-> kind, digits |-> digits]
P47  == Figure("percent", <<4, 7>>)
P147 == Figure("percent", <<1, 4, 7>>)
D40  == Figure("dollar", <<4, 0>>)
Y2019 == Figure("year", <<2, 0, 1, 9>>)
Y2031 == Figure("year", <<2, 0, 3, 1>>)

Point(id, collection, user, document, length, figures) ==
    [id |-> id, collection |-> collection, user |-> user, document |-> document,
     length |-> length, figures |-> figures, words |-> {document}, first |-> id # 3]

\* Of the budget of 10 tokens resumes may fill 3, a job description 2, a template 1.
MCPoints ==
    { Point(1, "resume", "ann", "r1", 16, {}),
      Point(2, "resume", "ann", "r2", 4, {P147, Y2019}),
      Point(3, "past_answer", "ann", "a1", 8, {}),
      Point(4, "job_description", "ann", "j1", 8, {}),
      Point(5, "template", "ann", "t1", 2, {P47}),
      Point(6, "resume", "bob", "r3", 4, {D40}) }
MCMaxContext == 10

\* Scores of the two resumes and of the other points: under the threshold of 30 or
\* over it, in either order, or tied.
Scores == { <<20, 20, 20>>, <<60, 90, 40>>, <<90, 60, 20>>, <<90, 90, 20>>, <<90, 20, 40>> }
MCSimilarities ==
    { [p \in 1..6 |-> IF p \in {1, 2} THEN s[p] ELSE s[3]] : s \in Scores }

Question(name) == [name |-> name, blank |-> name = "blank"]
Ask(names, resume) ==
    [kind |-> "answers", batch |-> Len(names) > 1, user |-> "ann",
     questions |-> [n \in DOMAIN names |-> Question(names[n])],
     resume |-> resume, job |-> None, template |-> None]
Recall(user, name, exclude) ==
    [kind |-> "memory", user |-> user, question |-> Question(name),
     topK |-> 1, threshold |-> 35, exclude |-> exclude]

\* A label, a name and no id; patterns of one word.
El(type, label, name, wrapping) ==
    [type |-> type, id |-> <<"id">>, labelFor |-> label, wrapping |-> wrapping,
     preceding |-> <<>>, name |-> name, placeholder |-> <<>>, aria |-> <<>>,
     required |-> FALSE, values |-> {name}]
Page(elements) == [kind |-> "form", page |-> [signals |-> {"lever"}, elements |-> elements]]
Pattern(word) == [word |-> word, anchored |-> FALSE]
MCFieldMap ==
    << [key |-> "email", ai |-> FALSE, patterns |-> <<Pattern("mail"), Pattern("address")>>],
       [key |-> "address", ai |-> FALSE, patterns |-> <<Pattern("address")>>],
       [key |-> "city", ai |-> FALSE, patterns |-> <<[word |-> "city", anchored |-> TRUE]>>],
       [key |-> "why_us", ai |-> TRUE, patterns |-> <<Pattern("why")>>] >>
MCSignals == << [signal |-> "greenhouse", platform |-> "greenhouse"],
                [signal |-> "lever", platform |-> "lever"] >>

File(type, pages, links) ==
    [kind |-> "resume", file |-> [type |-> type, pages |-> pages, links |-> links]]

MCInputs ==
    { Ask(<<"why">>, None), Ask(<<"why">>, "r3"), Ask(<<"why">>, "r2"),
      Ask(<<"why", "blank">>, None), Ask(<<"blank">>, None),
      Recall("ann", "why", None), Recall("ann", "why", "a1"), Recall("bob", "blank", None),
      Page(<<>>), Page(<<El("text", <<"mail">>, <<"x">>, <<>>)>>),
      Page(<<El("hidden", <<>>, <<"token">>, <<>>), El("text", <<"address">>, <<"mail">>, <<>>),
             El("text", <<>>, <<"q1">>, <<"your", "city">>), El("radio", <<>>, <<"q2">>, <<>>)>>),
      File("pdf", << <<"ann">>, <<"skills">> >>, {"linkedin"}),
      File("docx", << <<"ann">>, <<"mail@ann", "linkedin">> >>, {}), File("pdf", <<>>, {}) }

Text(source, figures, words) ==
    [kind |-> "answer", blank |-> figures = {} /\ words = <<>>,
     source |-> source, figures |-> figures, words |-> words]
MCReplies ==
    { [kind |-> "garbage"], [kind |-> "refusal"], [kind |-> "odd"],
      Text("resume", {P47, Y2031}, <<>>), Text("web", {D40, P147, Y2019}, <<"other", "r2">>),
      Text("resume", {}, <<"r1", "t1">>), Text("template", {}, <<>>) }

Item(order, key, confidence) ==
    [order |-> order, mapping |-> Mapping(key, FALSE, confidence)]
MCFormReplies ==
    { [kind |-> "garbage"], [kind |-> "odd"], [kind |-> "list", items |-> <<>>],
      [kind |-> "list", items |-> <<Item(2, "gender", 80), Item(1, "city", 90), Item(0, "phone", 99)>>],
      [kind |-> "list", items |-> <<Item(1, Empty, 50)>>],
      [kind |-> "list", items |-> <<Item(1, "city", 120)>>],
      [kind |-> "list", items |-> <<Item(1, "city", 60), Item(1, "state", 70), Item(Empty, "x", 1)>>] }

MCExtractions ==
    { [kind |-> "garbage"], [kind |-> "odd"] } \cup
    { [kind |-> "resume",
       resume |-> [email |-> email, name |-> name, linkedin |-> linkedin,
                   skills |-> skills, experience |-> <<"x">>]] :
      email \in {<<>>, <<"mail@ann">>, <<"made@up">>, Missing},
      name \in {<<"ann", "lee">>, <<"bob">>}, linkedin \in {Missing, <<"url">>},
      skills \in {<<>>, <<"tla">>} }
=============================================================================
