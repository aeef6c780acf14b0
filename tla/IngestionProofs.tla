-------------------------- MODULE IngestionProofs ---------------------------
(* Proofs about Chunker and Ingestion.                                       *)
EXTENDS Ingestion, SequenceLemmas, TLAPS

-----------------------------------------------------------------------------
(* Windows.                                                                  *)

LEMMA AdvanceType == Advance \in Nat \ {0} /\ Advance <= ChunkSize
BY ChunkerAssumption DEF Advance

\* Every position of a text is in a window.
LEMMA WindowsCover ==
    ASSUME NEW total \in Nat, NEW p \in 1..total
    PROVE  \E n \in DOMAIN Windows(total) :
               Windows(total)[n].first <= p /\ p <= Windows(total)[n].last
<1> DEFINE A == Advance
           q == (p - 1) \div A
           count == (total + A - 1) \div A
<1>1. A \in Nat \ {0} /\ A <= ChunkSize /\ ChunkSize \in Nat
  BY AdvanceType, ChunkerAssumption
<1> HIDE DEF A
<1>2. q \in Nat /\ q * A <= p - 1 /\ p - 1 < q * A + A
  BY <1>1
<1>3. count \in Nat /\ total - 1 < count * A
  BY <1>1
<1> HIDE DEF q, count
<1>4. q < count
  <2>1. q * A < count * A
    BY <1>1, <1>2, <1>3
  <2> QED
    BY <1>1, <1>2, <1>3, <2>1
<1>5. q + 1 \in DOMAIN Windows(total) /\ Windows(total)[q + 1] = Window(q * A, total)
  BY <1>1, <1>2, <1>3, <1>4 DEF Windows, A, count
<1>6. q * A \in Nat
  BY <1>1, <1>2
<1>7. Window(q * A, total).first <= p /\ p <= Window(q * A, total).last
  BY <1>1, <1>2, <1>6 DEF Window
<1> QED
  BY <1>5, <1>7

LEMMA WindowsType ==
    ASSUME NEW total \in Nat
    PROVE  \E count \in Nat :
               /\ DOMAIN Windows(total) = 1..count
               /\ \A n \in 1..count :
                      /\ Windows(total)[n].first \in 1..total
                      /\ Windows(total)[n].last \in 1..total
<1> DEFINE A == Advance
           count == (total + A - 1) \div A
<1>1. A \in Nat \ {0} /\ A <= ChunkSize /\ ChunkSize \in Nat
  BY AdvanceType, ChunkerAssumption
<1> HIDE DEF A
<1>2. count \in Nat /\ count * A < total + A
  BY <1>1
<1> HIDE DEF count
<1>3. \A n \in 1..count : (n - 1) * A \in Nat /\ (n - 1) * A < total
  <2>1. TAKE n \in 1..count
  <2>2. n * A <= count * A
    BY <1>1, <1>2
  <2>3. (n - 1) * A = n * A - A
    BY <1>1, <1>2
  <2> QED
    BY <1>1, <1>2, <2>2, <2>3
<1>4. DOMAIN Windows(total) = 1..count
  BY DEF Windows, count, A
<1>5. \A n \in 1..count : Windows(total)[n] = Window((n - 1) * A, total)
  BY DEF Windows, count, A
<1>6. \A n \in 1..count : /\ Window((n - 1) * A, total).first \in 1..total
                          /\ Window((n - 1) * A, total).last \in 1..total
  BY <1>1, <1>3 DEF Window
<1> QED
  BY <1>2, <1>4, <1>5, <1>6

-----------------------------------------------------------------------------
(* The chunks of a part.                                                     *)

ChunkOf(d, part, n) ==
    [id   |-> ChunkId(d, part.scope, n - 1),
     text |-> SubSeq(part.text, Windows(Len(part.text))[n].first,
                     Windows(Len(part.text))[n].last)]

LEMMA ChunkTextRange ==
    ASSUME NEW d, NEW part, part.text \in Text
    PROVE  /\ IsSequence(ChunkText(d, part))
           /\ \A k \in ToSet(ChunkText(d, part)) :
                  \E n \in DOMAIN Windows(Len(part.text)) : k = ChunkOf(d, part, n)
           /\ ~Blank(part.text) =>
                  \A n \in DOMAIN Windows(Len(part.text)) :
                      ChunkOf(d, part, n) \in ToSet(ChunkText(d, part))
<1> DEFINE W == Windows(Len(part.text))
           made == [n \in DOMAIN W |-> ChunkOf(d, part, n)]
<1>1. Len(part.text) \in Nat
  BY DEF Text
<1>2. PICK count \in Nat : DOMAIN W = 1..count
  BY <1>1, WindowsType
<1> HIDE DEF W
<1>3. ChunkText(d, part) = IF Blank(part.text) THEN <<>> ELSE made
  BY DEF ChunkText, ChunkOf, W
<1>4. ToSet(made) = {ChunkOf(d, part, n) : n \in DOMAIN W}
  BY DEF ToSet
<1>5. made \in Seq(ToSet(made))
  <2>1. \A n \in 1..count : made[n] \in ToSet(made)
    BY <1>2, <1>4
  <2>2. made \in [1..count -> ToSet(made)]
    BY <1>2, <2>1
  <2> HIDE DEF made
  <2> QED
    BY <2>2
<1>6. IsSequence(<<>>) /\ ToSet(<<>>) = {}
  BY DEF IsSequence, ToSet
<1> HIDE DEF made
<1>7. CASE Blank(part.text)
  BY <1>3, <1>6, <1>7
<1>8. CASE ~Blank(part.text)
  BY <1>3, <1>4, <1>5, <1>8 DEF IsSequence, W
<1> QED
  BY <1>7, <1>8

\* Every word of a part that is not blank is in a chunk of its scope.
LEMMA ChunksCover ==
    ASSUME NEW d, NEW part, part.text \in Text, ~Blank(part.text), NEW p \in DOMAIN part.text
    PROVE  \E k \in ToSet(ChunkText(d, part)) :
               /\ k.id[2] = part.scope
               /\ \E m \in DOMAIN k.text : k.text[m] = part.text[p]
<1> DEFINE W == Windows(Len(part.text))
<1>1. Len(part.text) \in Nat /\ p \in 1..Len(part.text)
  BY DEF Text
<1>2. PICK n \in DOMAIN W : W[n].first <= p /\ p <= W[n].last
  BY <1>1, WindowsCover
<1>3. W[n].first \in 1..Len(part.text) /\ W[n].last \in 1..Len(part.text)
  BY <1>1, <1>2, WindowsType
<1>4. ChunkOf(d, part, n) \in ToSet(ChunkText(d, part))
  BY <1>2, ChunkTextRange
<1>5. ChunkOf(d, part, n).id[2] = part.scope
  BY DEF ChunkOf, ChunkId
<1> DEFINE first == W[n].first
           last == W[n].last
<1>6. ChunkOf(d, part, n).text = SubSeq(part.text, first, last)
  BY DEF ChunkOf
<1> HIDE DEF W
<1>7. p - first + 1 \in DOMAIN SubSeq(part.text, first, last)
      /\ SubSeq(part.text, first, last)[p - first + 1] = part.text[p]
  <2>1. /\ part.text \in Seq(Tokens) /\ first \in 1..Len(part.text) /\ last \in 1..Len(part.text)
        /\ first <= p /\ p <= last
    BY <1>2, <1>3 DEF Text
  <2> HIDE DEF first, last
  <2>2. /\ DOMAIN SubSeq(part.text, first, last) = 1..(last - first + 1)
        /\ \A i \in 1..(last - first + 1) :
               SubSeq(part.text, first, last)[i] = part.text[first + i - 1]
    BY <2>1
  <2>3. p - first + 1 \in 1..(last - first + 1) /\ first + (p - first + 1) - 1 = p
    BY <1>1, <2>1
  <2> QED
    BY <2>2, <2>3
<1> QED
  BY <1>4, <1>5, <1>6, <1>7

-----------------------------------------------------------------------------
(* The parts of a document.                                                  *)

\* A group of parts that have a name in common and are told apart by their scopes.
Group(parts, name) ==
    /\ IsSequence(parts)
    /\ \A p \in ToSet(parts) : p.text \in Text /\ p.scope[1] = name
    /\ \A p, q \in ToSet(parts) : p.scope = q.scope => p = q

LEMMA OptionalPartGroup ==
    ASSUME NEW section \in Tokens, NEW text \in Text
    PROVE  Group(OptionalPart(section, text), section)
<1> DEFINE part == [scope |-> <<section>>, text |-> <<section>> \o text]
<1>1. OptionalPart(section, text) = IF text = <<>> THEN <<>> ELSE <<part>>
  BY DEF OptionalPart, Part
<1>2. part.text \in Text /\ part.scope[1] = section
  BY DEF Text
<1> HIDE DEF part
<1>3. IsSequence(<<part>>) /\ ToSet(<<part>>) = {part}
  BY DEF IsSequence, ToSet
<1>4. IsSequence(<<>>) /\ ToSet(<<>>) = {}
  BY DEF IsSequence, ToSet
<1> QED
  BY <1>1, <1>2, <1>3, <1>4 DEF Group

LEMMA EntriesGroup ==
    ASSUME NEW section \in Tokens, NEW entries \in Seq(Text)
    PROVE  Group(Entries(section, entries), section)
<1> DEFINE PartAt(i) == [scope |-> <<section, i - 1>>, text |-> <<section>> \o entries[i]]
           made == Entries(section, entries)
<1>1. made = [i \in 1..Len(entries) |-> PartAt(i)]
  BY DEF Entries, Part
<1>2. \A i \in 1..Len(entries) : PartAt(i).text \in Text
  BY DEF Text
<1>3. \A i \in 1..Len(entries) : PartAt(i).scope = <<section, i - 1>>
  OBVIOUS
<1> HIDE DEF PartAt
<1>4. ToSet(made) = {PartAt(i) : i \in 1..Len(entries)}
  BY <1>1 DEF ToSet
<1>5. IsSequence(made)
  <2>1. made \in [1..Len(entries) -> ToSet(made)]
    BY <1>1, <1>4
  <2> HIDE DEF made
  <2> QED
    BY <2>1 DEF IsSequence
<1>6. \A i, j \in 1..Len(entries) : PartAt(i).scope = PartAt(j).scope => i = j
  BY <1>3
<1> HIDE DEF made
<1>7. \A p \in ToSet(made) : p.text \in Text /\ p.scope[1] = section
  BY <1>2, <1>3, <1>4
<1>8. \A p, q \in ToSet(made) : p.scope = q.scope => p = q
  BY <1>4, <1>6
<1> QED
  BY <1>5, <1>7, <1>8 DEF Group, made

\* Groups with different names make one sequence of parts told apart by their scopes.
LEMMA GroupsTogether ==
    ASSUME NEW groups, IsSequence(groups), NEW names,
           \A i \in 1..Len(groups) : Group(groups[i], names[i]),
           \A i, j \in 1..Len(groups) : names[i] = names[j] => i = j
    PROVE  /\ IsSequence(FlattenSeq(groups))
           /\ \A p \in ToSet(FlattenSeq(groups)) :
                  p.text \in Text /\ \E i \in 1..Len(groups) : p \in ToSet(groups[i])
           /\ \A p, q \in ToSet(FlattenSeq(groups)) : p.scope = q.scope => p = q
<1>1. /\ IsSequence(FlattenSeq(groups))
      /\ \A p \in ToSet(FlattenSeq(groups)) : \E i \in 1..Len(groups) : p \in ToSet(groups[i])
  BY FlattenRange DEF Group
<1> QED
  BY <1>1 DEF Group

\* The parts of a document: texts, told apart by their scopes.
Distinct(parts) ==
    /\ IsSequence(parts)
    /\ \A p \in ToSet(parts) : p.text \in Text
    /\ \A p, q \in ToSet(parts) : p.scope = q.scope => p = q

LEMMA ResumePartsDistinct ==
    ASSUME NEW x, IsDocument(x), x.kind = "resume"
    PROVE  Distinct(ResumeParts(x))
<1> DEFINE groups == <<OptionalPart("summary", x.summary),
                       OptionalPart("skills", x.skills),
                       Entries("experience", x.experience),
                       Entries("education", x.education),
                       Entries("projects", x.projects),
                       OptionalPart("coding_profiles", x.coding_profiles),
                       OptionalPart("certifications", x.certifications),
                       OptionalPart("contact", x.contact)>>
           names == <<"summary", "skills", "experience", "education", "projects",
                      "coding_profiles", "certifications", "contact">>
<1>1. /\ {"summary", "skills", "experience", "education", "projects", "coding_profiles",
          "certifications", "contact"} \subseteq Tokens
      /\ {x.summary, x.skills, x.coding_profiles, x.certifications, x.contact} \subseteq Text
      /\ {x.experience, x.education, x.projects} \subseteq Seq(Text)
  BY ChunkerAssumption DEF IsDocument, Headings
<1>2. /\ Group(groups[1], names[1]) /\ Group(groups[2], names[2])
      /\ Group(groups[3], names[3]) /\ Group(groups[4], names[4])
      /\ Group(groups[5], names[5]) /\ Group(groups[6], names[6])
      /\ Group(groups[7], names[7]) /\ Group(groups[8], names[8])
  BY <1>1, OptionalPartGroup, EntriesGroup
<1>3. Len(groups) = 8 /\ IsSequence(groups)
  <2>1. groups \in Seq({groups[i] : i \in 1..8}) /\ DOMAIN groups = 1..8
    OBVIOUS
  <2> HIDE DEF groups
  <2> QED
    BY <2>1 DEF IsSequence, ToSet
<1>4. \A i, j \in 1..8 : names[i] = names[j] => i = j
  OBVIOUS
<1>5. ResumeParts(x) = FlattenSeq(groups)
  BY DEF ResumeParts
<1> HIDE DEF groups, names
<1>6. /\ \A i \in 1..Len(groups) : Group(groups[i], names[i])
      /\ \A i, j \in 1..Len(groups) : names[i] = names[j] => i = j
  BY <1>2, <1>3, <1>4
<1>7. Distinct(FlattenSeq(groups))
  BY <1>3, <1>6, GroupsTogether DEF Distinct
<1> QED
  BY <1>5, <1>7

LEMMA QaPartsGroup ==
    ASSUME NEW pairs \in Seq([question : Text, answer : Text])
    PROVE  Group(QaParts(pairs), "custom_qa")
<1>0. \A i \in 1..Len(pairs) : pairs[i] \in [question : Text, answer : Text]
  BY ElementAt
<1> DEFINE PartAt(i) == [scope |-> <<"custom_qa", i - 1, pairs[i].question>>,
                         text |-> <<"question">> \o (pairs[i].question \o pairs[i].answer)]
           Left(i) == pairs[i].question = <<>> \/ pairs[i].answer = <<>>
           groups == [i \in 1..Len(pairs) |-> IF Left(i) THEN <<>> ELSE <<PartAt(i)>>]
<1>1. QaParts(pairs) = FlattenSeq(groups)
  <2>1. DOMAIN pairs = 1..Len(pairs)
    OBVIOUS
  <2> QED
    BY <2>1 DEF QaParts, Part
<1>2. \A i \in 1..Len(pairs) : PartAt(i).text \in Text
  <2>1. TAKE i \in 1..Len(pairs)
  <2>2. pairs[i].question \in Text /\ pairs[i].answer \in Text
    <3>1. pairs[i] \in [question : Text, answer : Text]
      BY <1>0
    <3> QED
      BY <3>1
  <2>3. <<"question">> \in Text
    BY ChunkerAssumption DEF Text, Headings
  <2> QED
    BY <2>2, <2>3 DEF Text
<1>3. \A i \in 1..Len(pairs) : PartAt(i).scope[1] = "custom_qa" /\ PartAt(i).scope[2] = i - 1
  OBVIOUS
<1> HIDE DEF PartAt, Left
<1>4. \A i \in 1..Len(pairs) : IsSequence(groups[i]) /\ ToSet(groups[i]) \subseteq {PartAt(i)}
  <2>1. IsSequence(<<>>) /\ ToSet(<<>>) = {}
    BY DEF IsSequence, ToSet
  <2>2. \A p : IsSequence(<<p>>) /\ ToSet(<<p>>) = {p}
    BY DEF IsSequence, ToSet
  <2> QED
    BY <2>1, <2>2
<1>5. Len(groups) = Len(pairs) /\ IsSequence(groups)
  <2>1. groups \in Seq({groups[i] : i \in 1..Len(pairs)}) /\ DOMAIN groups = 1..Len(pairs)
    OBVIOUS
  <2> HIDE DEF groups
  <2> QED
    BY <2>1 DEF IsSequence, ToSet
<1> HIDE DEF groups
<1>6. IsSequence(FlattenSeq(groups))
      /\ \A p \in ToSet(FlattenSeq(groups)) : \E i \in 1..Len(pairs) : p = PartAt(i)
  <2>1. \A i \in 1..Len(groups) : IsSequence(groups[i])
    BY <1>4, <1>5
  <2>2. /\ IsSequence(FlattenSeq(groups))
        /\ ToSet(FlattenSeq(groups)) = UNION {ToSet(groups[i]) : i \in 1..Len(groups)}
    BY <1>5, <2>1, FlattenRange
  <2> QED
    BY <1>4, <1>5, <2>2
<1>7. \A p, q \in ToSet(FlattenSeq(groups)) : p.scope = q.scope => p = q
  BY <1>3, <1>6
<1> QED
  BY <1>1, <1>2, <1>3, <1>6, <1>7 DEF Group

LEMMA TemplatePartsDistinct ==
    ASSUME NEW x, IsDocument(x), x.kind = "template"
    PROVE  Distinct(TemplateParts(x.answers))
<1> DEFINE answers == x.answers
           PartsAt(i) ==
               LET key == answers[i].key  value == answers[i].value IN
               CASE answers[i].type = "list" /\ key = "custom_qa" -> QaParts(value)
                 [] answers[i].type = "text" /\ Len(value) > ShortText -> Part(key, <<key>>, value)
                 [] OTHER -> <<>>
           groups == [i \in 1..Len(answers) |-> PartsAt(i)]
           names == [i \in 1..Len(answers) |-> answers[i].key]
<1>1. /\ answers \in Seq(ToSet(answers)) /\ DOMAIN answers = 1..Len(answers)
      /\ Len(answers) \in Nat
      /\ \A i, j \in 1..Len(answers) : answers[i].key = answers[j].key => i = j
      /\ \A i \in 1..Len(answers) :
             /\ answers[i].key \in Tokens
             /\ answers[i].type = "text" => answers[i].value \in Text
             /\ answers[i].type = "list" /\ answers[i].key = "custom_qa" =>
                    answers[i].value \in Seq([question : Text, answer : Text])
  <2>1. /\ answers \in Seq(ToSet(answers))
        /\ \A i, j \in DOMAIN answers : answers[i].key = answers[j].key => i = j
        /\ \A i \in DOMAIN answers :
               /\ answers[i].key \in Tokens
               /\ answers[i].type = "text" => answers[i].value \in Text
               /\ answers[i].type = "list" /\ answers[i].key = "custom_qa" =>
                      answers[i].value \in Seq([question : Text, answer : Text])
    BY DEF IsDocument
  <2>2. DOMAIN answers = 1..Len(answers) /\ Len(answers) \in Nat
    BY <2>1, SequenceProperties DEF IsSequence
  <2> QED
    BY <2>1, <2>2
<1>2. TemplateParts(answers) = FlattenSeq(groups)
  BY <1>1 DEF TemplateParts
<1> HIDE DEF answers
<1>3. \A i \in 1..Len(answers) : Group(PartsAt(i), answers[i].key)
  <2>1. TAKE i \in 1..Len(answers)
  <2> DEFINE key == answers[i].key
             value == answers[i].value
  <2>2. CASE answers[i].type = "list" /\ key = "custom_qa"
    BY <1>1, <2>2, QaPartsGroup
  <2>3. CASE answers[i].type = "text" /\ Len(value) > ShortText
    <3> DEFINE part == [scope |-> <<key>>, text |-> <<key>> \o value]
    <3>1. PartsAt(i) = <<part>>
      BY <2>3 DEF Part
    <3>2. part.text \in Text /\ part.scope[1] = key
      BY <1>1, <2>3 DEF Text
    <3> HIDE DEF part
    <3>3. IsSequence(<<part>>) /\ ToSet(<<part>>) = {part}
      BY DEF IsSequence, ToSet
    <3> QED
      BY <3>1, <3>2, <3>3 DEF Group
  <2>4. CASE /\ ~(answers[i].type = "list" /\ key = "custom_qa")
             /\ ~(answers[i].type = "text" /\ Len(value) > ShortText)
    <3>1. PartsAt(i) = <<>>
      BY <2>4
    <3>2. IsSequence(<<>>) /\ ToSet(<<>>) = {}
      BY DEF IsSequence, ToSet
    <3> QED
      BY <3>1, <3>2 DEF Group
  <2> QED
    BY <2>2, <2>3, <2>4
<1> HIDE DEF PartsAt
<1>4. Len(groups) = Len(answers) /\ IsSequence(groups)
  <2>1. groups \in Seq({groups[i] : i \in 1..Len(answers)}) /\ DOMAIN groups = 1..Len(answers)
    BY <1>1
  <2> HIDE DEF groups
  <2> QED
    BY <2>1, <1>1 DEF IsSequence, ToSet
<1>5. \A i \in 1..Len(answers) : Group(groups[i], names[i])
  BY <1>3
<1>6. \A i, j \in 1..Len(answers) : names[i] = names[j] => i = j
  BY <1>1
<1> HIDE DEF groups, names
<1> QED
  BY <1>2, <1>4, <1>5, <1>6, GroupsTogether DEF Distinct, answers

LEMMA OnePartDistinct ==
    ASSUME NEW part, part.text \in Text
    PROVE  Distinct(<<part>>)
<1>1. IsSequence(<<part>>) /\ ToSet(<<part>>) = {part}
  BY DEF IsSequence, ToSet
<1> QED
  BY <1>1 DEF Distinct

LEMMA PartsDistinct ==
    ASSUME NEW x, IsDocument(x)
    PROVE  Distinct(Parts(x))
<1>1. CASE x.kind = "resume"
  BY <1>1, ResumePartsDistinct DEF Parts
<1>2. CASE x.kind = "template"
  BY <1>2, TemplatePartsDistinct DEF Parts
<1>3. CASE x.kind = "answer"
  <2> DEFINE part == [scope |-> <<x.field, x.source, x.label>>, text |-> <<x.label>> \o x.text]
  <2>1. Parts(x) = IF Blank(x.text) THEN <<>> ELSE <<part>>
    BY <1>3 DEF Parts, AnswerParts, Part
  <2>2. part.text \in Text
    BY <1>3 DEF IsDocument, Text
  <2> HIDE DEF part
  <2>3. IsSequence(<<>>) /\ ToSet(<<>>) = {}
    BY DEF IsSequence, ToSet
  <2> QED
    BY <2>1, <2>2, <2>3, OnePartDistinct DEF Distinct
<1>4. CASE x.kind = "job"
  <2> DEFINE part == [scope |-> <<x.company, x.role>>, text |-> x.text]
  <2>1. Parts(x) = <<part>>
    BY <1>4 DEF Parts, JobParts
  <2>2. part.text \in Text
    BY <1>4 DEF IsDocument
  <2> HIDE DEF part
  <2> QED
    BY <2>1, <2>2, OnePartDistinct
<1> QED
  BY <1>1, <1>2, <1>3, <1>4 DEF IsDocument

-----------------------------------------------------------------------------
(* The chunks of a document.                                                 *)

\* Chunks of one id have one text, and the words of a part that is not blank are in
\* chunks of its scope.
LEMMA ChunksOfDocument ==
    ASSUME NEW d, NEW x, IsDocument(x)
    PROVE  /\ IsSequence(ChunkDocument(d, x))
           /\ \A k \in ToSet(ChunkDocument(d, x)) : k.id[1] = d
           /\ \A j, k \in ToSet(ChunkDocument(d, x)) : j.id = k.id => j.text = k.text
           /\ \A p \in ToSet(Parts(x)) : ~Blank(p.text) =>
                  \A n \in DOMAIN p.text : \E k \in ToSet(ChunkDocument(d, x)) :
                      k.id[2] = p.scope /\ \E m \in DOMAIN k.text : k.text[m] = p.text[n]
<1> DEFINE parts == Parts(x)
           groups == [i \in 1..Len(parts) |-> ChunkText(d, parts[i])]
<1>1. /\ Distinct(parts) /\ Len(parts) \in Nat /\ DOMAIN parts = 1..Len(parts)
      /\ ToSet(parts) = {parts[i] : i \in 1..Len(parts)}
  BY PartsDistinct, SequenceProperties DEF Distinct
<1>2. ChunkDocument(d, x) = FlattenSeq(groups)
  BY <1>1 DEF ChunkDocument
<1> HIDE DEF parts
<1>3. \A i \in 1..Len(parts) : parts[i] \in ToSet(parts) /\ parts[i].text \in Text
  BY <1>1 DEF Distinct
<1>4. \A i \in 1..Len(parts) : IsSequence(ChunkText(d, parts[i]))
  BY <1>3, ChunkTextRange
<1>5. Len(groups) = Len(parts) /\ IsSequence(groups)
  <2>1. groups \in Seq({groups[i] : i \in 1..Len(parts)}) /\ DOMAIN groups = 1..Len(parts)
    BY <1>1
  <2> HIDE DEF groups
  <2> QED
    BY <2>1, <1>1 DEF IsSequence, ToSet
<1>6. \A i \in 1..Len(parts) : groups[i] = ChunkText(d, parts[i])
  OBVIOUS
<1> HIDE DEF groups
<1>7. /\ IsSequence(FlattenSeq(groups))
      /\ \A k : k \in ToSet(FlattenSeq(groups)) <=>
             \E i \in 1..Len(parts) : k \in ToSet(ChunkText(d, parts[i]))
  <2>1. /\ IsSequence(FlattenSeq(groups))
        /\ ToSet(FlattenSeq(groups)) = UNION {ToSet(groups[i]) : i \in 1..Len(groups)}
    BY <1>4, <1>5, <1>6, FlattenRange
  <2> QED
    BY <2>1, <1>5, <1>6
<1>8. \A k \in ToSet(FlattenSeq(groups)) : \E p \in ToSet(parts) :
          \E n \in DOMAIN Windows(Len(p.text)) : k = ChunkOf(d, p, n)
  BY <1>3, <1>7, ChunkTextRange
<1>9. \A p, q \in ToSet(parts) :
          \A m \in DOMAIN Windows(Len(p.text)), n \in DOMAIN Windows(Len(q.text)) :
              ChunkOf(d, p, m).id = ChunkOf(d, q, n).id => p = q /\ m = n
  <2>1. TAKE p, q \in ToSet(parts)
  <2>2. TAKE m \in DOMAIN Windows(Len(p.text)), n \in DOMAIN Windows(Len(q.text))
  <2>3. HAVE ChunkOf(d, p, m).id = ChunkOf(d, q, n).id
  <2>4. p.scope = q.scope /\ m - 1 = n - 1
    BY <2>3 DEF ChunkOf, ChunkId
  <2>5. p = q
    BY <2>4, <1>1 DEF Distinct
  <2>6. m \in Nat /\ n \in Nat
    <3>1. Len(p.text) \in Nat
      BY <1>1 DEF Distinct, Text
    <3>2. PICK count \in Nat : DOMAIN Windows(Len(p.text)) = 1..count
      BY <3>1, WindowsType
    <3> QED
      BY <2>5, <3>2
  <2> QED
    BY <2>4, <2>5, <2>6
<1>10. \A k \in ToSet(FlattenSeq(groups)) : k.id[1] = d
  BY <1>8 DEF ChunkOf, ChunkId
<1>11. \A j, k \in ToSet(FlattenSeq(groups)) : j.id = k.id => j.text = k.text
  BY <1>8, <1>9
<1>12. \A p \in ToSet(parts) : ~Blank(p.text) =>
           \A n \in DOMAIN p.text : \E k \in ToSet(FlattenSeq(groups)) :
               k.id[2] = p.scope /\ \E m \in DOMAIN k.text : k.text[m] = p.text[n]
  <2>1. SUFFICES ASSUME NEW i \in 1..Len(parts), ~Blank(parts[i].text),
                        NEW n \in DOMAIN parts[i].text
                 PROVE  \E k \in ToSet(FlattenSeq(groups)) :
                            /\ k.id[2] = parts[i].scope
                            /\ \E m \in DOMAIN k.text : k.text[m] = parts[i].text[n]
    BY <1>1
  <2>2. PICK k \in ToSet(ChunkText(d, parts[i])) :
            k.id[2] = parts[i].scope /\ \E m \in DOMAIN k.text : k.text[m] = parts[i].text[n]
    BY <1>3, <2>1, ChunksCover
  <2> QED
    BY <1>7, <2>2
<1> QED
  BY <1>2, <1>7, <1>10, <1>11, <1>12 DEF parts

-----------------------------------------------------------------------------
(* Types.                                                                    *)

\* What a call holds: the chunks of its document, when it has one.
Shapes ==
    /\ DOMAIN content = Calls /\ DOMAIN chunks = Calls
    /\ DOMAIN results = Calls /\ DOMAIN fresh = Calls
    /\ \A c \in Calls :
           /\ IsSequence(chunks[c])
           /\ pc[c] = "idle" => doc[c] = None /\ DOMAIN results[c] = {}
           /\ doc[c] # None => /\ pc[c] # "idle" /\ content[c] \in Contents[doc[c]]
                              /\ chunks[c] = ChunkDocument(doc[c], content[c])

Base == TypeOK /\ Shapes

\* Misses and Texts as operators of what they depend on.
Missing(all, found) == FlattenSeq([i \in all |-> IF i \in found THEN <<>> ELSE <<i>>])
TextsOf(made)       == [i \in DOMAIN made |-> Normalise(made[i].text)]

LEMMA MissesAndTexts ==
    ASSUME NEW c \in Calls
    PROVE  /\ Misses(c) = Missing(DOMAIN chunks[c], DOMAIN results[c])
           /\ Texts(c) = TextsOf(chunks[c])
BY DEF Misses, Texts, Missing, TextsOf

LEMMA MissesStay ==
    ASSUME NEW c \in Calls, chunks'[c] = chunks[c], results'[c] = results[c]
    PROVE  Misses(c)' = Misses(c) /\ Texts(c)' = Texts(c)
<1>1. /\ Misses(c)' = Missing(DOMAIN chunks'[c], DOMAIN results'[c])
      /\ Texts(c)' = TextsOf(chunks'[c])
  BY DEF Misses, Texts, Missing, TextsOf
<1> QED
  BY <1>1, MissesAndTexts

LEMMA MissingRange ==
    ASSUME NEW n \in Nat, NEW found
    PROVE  IsSequence(Missing(1..n, found)) /\ ToSet(Missing(1..n, found)) = (1..n) \ found
<1> DEFINE groups == [i \in 1..n |-> IF i \in found THEN <<>> ELSE <<i>>]
<1>1. \A i \in 1..n : /\ IsSequence(groups[i])
                      /\ ToSet(groups[i]) = IF i \in found THEN {} ELSE {i}
  <2>1. IsSequence(<<>>) /\ ToSet(<<>>) = {}
    BY DEF IsSequence, ToSet
  <2>2. \A p : IsSequence(<<p>>) /\ ToSet(<<p>>) = {p}
    BY DEF IsSequence, ToSet
  <2> QED
    BY <2>1, <2>2
<1>2. Len(groups) = n /\ IsSequence(groups)
  <2>1. groups \in Seq({groups[i] : i \in 1..n}) /\ DOMAIN groups = 1..n
    OBVIOUS
  <2> HIDE DEF groups
  <2> QED
    BY <2>1 DEF IsSequence, ToSet
<1>3. Missing(1..n, found) = FlattenSeq(groups)
  BY DEF Missing
<1> HIDE DEF groups
<1>4. /\ IsSequence(FlattenSeq(groups))
      /\ ToSet(FlattenSeq(groups)) = UNION {ToSet(groups[i]) : i \in 1..n}
  BY <1>1, <1>2, FlattenRange
<1>5. \A k : (\E i \in 1..n : k \in ToSet(groups[i])) <=> k \in (1..n) \ found
  BY <1>1
<1> QED
  BY <1>3, <1>4, <1>5

LEMMA MissesRange ==
    ASSUME Base, NEW c \in Calls
    PROVE  /\ IsSequence(Misses(c)) /\ Len(Misses(c)) \in Nat
           /\ DOMAIN Misses(c) = 1..Len(Misses(c))
           /\ \A k \in 1..Len(Misses(c)) : Misses(c)[k] \in DOMAIN chunks[c]
           /\ ToSet(Misses(c)) = DOMAIN chunks[c] \ DOMAIN results[c]
<1>1. DOMAIN chunks[c] = 1..Len(chunks[c]) /\ Len(chunks[c]) \in Nat
  BY SequenceProperties DEF Base, Shapes
<1>2. IsSequence(Misses(c)) /\ ToSet(Misses(c)) = DOMAIN chunks[c] \ DOMAIN results[c]
  BY <1>1, MissesAndTexts, MissingRange
<1>3. /\ Len(Misses(c)) \in Nat /\ DOMAIN Misses(c) = 1..Len(Misses(c))
      /\ \A k \in 1..Len(Misses(c)) : Misses(c)[k] \in ToSet(Misses(c))
  BY <1>2, SequenceProperties
<1> QED
  BY <1>2, <1>3

LEMMA BaseInit == Init => Base
<1> SUFFICES ASSUME Init PROVE Base
  OBVIOUS
<1>1. IsSequence(<<>>) /\ DOMAIN <<>> = {}
  BY DEF IsSequence, ToSet
<1>2. \A c \in Calls : pc[c] = "idle" /\ chunks[c] = <<>> /\ results[c] = <<>>
  BY DEF Init
<1>3. TypeOK
  BY <1>1, <1>2 DEF Init, TypeOK
<1>4. Shapes
  BY <1>1, <1>2 DEF Init, Shapes, Active, Steps
<1> QED
  BY <1>3, <1>4 DEF Base

LEMMA BaseStep == Base /\ [Next]_vars => Base'
<1> SUFFICES ASSUME Base, [Next]_vars PROVE Base'
  OBVIOUS
<1> USE IngestionAssumption DEF Base, TypeOK, Shapes, Active, Steps, Goto, locals
<1>1. ASSUME NEW c \in Calls, NEW d \in Docs, NEW x \in Contents[d], StartIngest(c, d, x)
      PROVE  Base'
  <2> DEFINE made == ChunkDocument(d, x)
  <2>1. IsSequence(made)
    BY ChunksOfDocument
  <2>2. PICK s \in {"clear", "lookup", "done"} : pc' = [pc EXCEPT ![c] = s]
    BY <1>1 DEF StartIngest
  <2>3. DOMAIN results[c] = {}
    BY <1>1 DEF StartIngest
  <2>4. /\ doc' = [doc EXCEPT ![c] = d] /\ content' = [content EXCEPT ![c] = x]
        /\ chunks' = [chunks EXCEPT ![c] = made] /\ results' = results /\ fresh' = fresh
        /\ recorded' = recorded
    BY <1>1 DEF StartIngest
  <2>5. latest' \in [Docs -> Calls \cup {None}]
    BY <1>1 DEF StartIngest
  <2> HIDE DEF made
  <2>6. TypeOK'
    BY <2>2, <2>3, <2>4, <2>5
  <2>7. Shapes'
    BY <2>1, <2>2, <2>3, <2>4 DEF made
  <2> QED
    BY <2>6, <2>7
<1>2. ASSUME NEW c \in Calls, NEW text \in Questions, StartQuestion(c, text) PROVE Base'
  <2> DEFINE asked == <<[id |-> <<>>, text |-> text]>>
  <2>1. IsSequence(asked)
    BY DEF IsSequence, ToSet
  <2>2. PICK s \in {"lookup", "failed"} : pc' = [pc EXCEPT ![c] = s]
    BY <1>2 DEF StartQuestion
  <2>3. doc[c] = None /\ DOMAIN results[c] = {}
    BY <1>2 DEF StartQuestion
  <2>4. /\ chunks' = [chunks EXCEPT ![c] = asked] /\ doc' = doc /\ content' = content
        /\ results' = results /\ fresh' = fresh /\ recorded' = recorded /\ latest' = latest
    BY <1>2 DEF StartQuestion
  <2> HIDE DEF asked
  <2>5. TypeOK'
    BY <2>2, <2>3, <2>4
  <2>6. Shapes'
    BY <2>1, <2>2, <2>3, <2>4
  <2> QED
    BY <2>5, <2>6
<1>3. ASSUME NEW c \in Calls, ClearPoints(c) PROVE Base'
  BY <1>3 DEF ClearPoints
<1>4. ASSUME NEW c \in Calls, Lookup(c) PROVE Base'
  BY <1>4 DEF Lookup
<1>5. ASSUME NEW c \in Calls, EmbedBatch(c) PROVE Base'
  BY <1>5 DEF EmbedBatch
<1>6. ASSUME NEW c \in Calls, StoreVectors(c) PROVE Base'
  <2>1. PICK s \in {"done", "upsert", "failed"} :
            /\ pc' = [pc EXCEPT ![c] = s]
            /\ s = "upsert" => doc[c] # None
            /\ \/ results' = [results EXCEPT ![c] = Filled(c)]
               \/ results' = results /\ s = "failed"
    BY <1>6 DEF StoreVectors
  <2>2. UNCHANGED <<doc, content, chunks, fresh, recorded, latest>> /\ pc[c] = "store"
    BY <1>6 DEF StoreVectors
  <2>3. DOMAIN Filled(c) = DOMAIN chunks[c]
    BY DEF Filled
  <2>4. \A b \in Calls : /\ b # c => results'[b] = results[b] /\ pc'[b] = pc[b]
                         /\ DOMAIN results'[b] \subseteq DOMAIN chunks[b]
    BY <2>1, <2>3
  <2>5. s = "upsert" => DOMAIN results'[c] = DOMAIN chunks[c]
    BY <2>1, <2>3
  <2>6. TypeOK'
    BY <2>1, <2>2, <2>4, <2>5
  <2>7. Shapes'
    BY <2>1, <2>2
  <2> QED
    BY <2>6, <2>7
<1>7. ASSUME NEW c \in Calls, UpsertPoints(c) PROVE Base'
  BY <1>7 DEF UpsertPoints
<1>8. ASSUME NEW c \in Calls, RecordIds(c) PROVE Base'
  BY <1>8 DEF RecordIds
<1>9. ASSUME NEW c \in Calls, Fail(c) PROVE Base'
  BY <1>9 DEF Fail
<1>10. ASSUME NEW text, Expire(text) PROVE Base'
  BY <1>10 DEF Expire
<1>11. CASE UNCHANGED vars
  BY <1>11 DEF vars
<1> QED
  BY <1>1, <1>2, <1>3, <1>4, <1>5, <1>6, <1>7, <1>8, <1>9, <1>10, <1>11 DEF Next, Work

-----------------------------------------------------------------------------
(* Vectors.                                                                  *)

\* What embed_batch has collected: the vectors of the texts at their positions, and
\* those of the first misses in their order, all of them before they are stored.
Collected ==
    \A c \in Calls :
        /\ pc[c] \in {"embed", "store", "upsert"} =>
               \A i \in DOMAIN results[c] : results[c][i] = Texts(c)[i]
        /\ pc[c] \in {"embed", "store"} =>
               /\ IsSequence(fresh[c]) /\ Len(fresh[c]) <= Len(Misses(c))
               /\ \A k \in 1..Len(fresh[c]) : fresh[c][k] = Texts(c)[Misses(c)[k]]
        /\ pc[c] = "store" => Len(fresh[c]) = Len(Misses(c))

LEMMA CollectedInit == Init => VectorsMatchTexts /\ Collected
<1>1. DOMAIN <<>> = {}
  OBVIOUS
<1> QED
  BY <1>1 DEF Init, VectorsMatchTexts, Collected

\* The vectors of an answer, in whatever order it lists them, are those of the texts.
LEMMA VectorsAreSorted ==
    ASSUME NEW D, NEW order \in Bijection(D, D), NEW wanted
    PROVE  Vectors([k \in D |-> [index |-> order[k], embedding |-> wanted[order[k]]]])
           = [k \in D |-> wanted[k]]
<1> DEFINE item(k) == [index |-> order[k], embedding |-> wanted[order[k]]]
           data == [k \in D |-> item(k)]
<1>1. ToSet(data) = {item(k) : k \in D} /\ DOMAIN data = D
  BY DEF ToSet
<1>2. \A k \in D : \E j \in D : order[j] = k
  BY DEF Bijection, Surjection
<1> HIDE DEF data
<1>3. ASSUME NEW k \in D
      PROVE  (CHOOSE i \in ToSet(data) : i.index = k).embedding = wanted[k]
  <2>1. PICK j \in D : order[j] = k
    BY <1>2
  <2>2. item(j) \in ToSet(data) /\ item(j).index = k
    BY <1>1, <2>1
  <2>3. \A i \in ToSet(data) : i.index = k => i.embedding = wanted[k]
    BY <1>1
  <2> HIDE DEF item
  <2> QED
    BY <2>2, <2>3
<1>4. Vectors(data) = [k \in D |-> wanted[k]]
  BY <1>1, <1>3 DEF Vectors
<1> QED
  BY <1>4 DEF data

\* The misses of the next request are the ones after those that have a vector.
LEMMA BatchOf ==
    ASSUME Base, Collected, NEW c \in Calls, pc[c] = "embed"
    PROVE  /\ IsSequence(Batch(c))
           /\ Len(fresh[c]) + Len(Batch(c)) <= Len(Misses(c))
           /\ \A k \in 1..Len(Batch(c)) : Batch(c)[k] = Misses(c)[Len(fresh[c]) + k]
<1> DEFINE n == Len(fresh[c])
           misses == Misses(c)
           m == IF n + BatchSize < Len(misses) THEN n + BatchSize ELSE Len(misses)
<1>1. n \in Nat /\ n <= Len(misses) /\ BatchSize \in Nat
  BY SequenceProperties, IngestionAssumption DEF Collected
<1>2. IsSequence(misses) /\ Len(misses) \in Nat
  BY MissesRange
<1>3. Batch(c) = SubSeq(misses, n + 1, m)
  BY DEF Batch
<1>4. m \in n..Len(misses)
  BY <1>1, <1>2
<1> HIDE DEF n, misses, m
<1>5. /\ SubSeq(misses, n + 1, m) \in Seq(ToSet(misses))
      /\ Len(SubSeq(misses, n + 1, m)) = m - n
      /\ \A k \in 1..(m - n) : SubSeq(misses, n + 1, m)[k] = misses[n + k]
  BY <1>1, <1>2, <1>4 DEF IsSequence
<1>6. IsSequence(SubSeq(misses, n + 1, m))
  BY <1>5, SequenceOf
<1>7. /\ n + Len(Batch(c)) <= Len(misses)
      /\ \A k \in 1..Len(Batch(c)) : Batch(c)[k] = misses[n + k]
  <2>1. m \in Nat /\ m <= Len(misses)
    BY <1>1, <1>2, <1>4
  <2>2. n + (m - n) = m
    BY <1>1, <2>1
  <2> QED
    BY <1>3, <1>5, <2>1, <2>2
<1> QED
  BY <1>3, <1>6, <1>7 DEF n, misses

LEMMA CollectedLookup ==
    ASSUME Base, VectorsMatchTexts, Collected, NEW c \in Calls, Lookup(c)
    PROVE  VectorsMatchTexts' /\ Collected'
<1> DEFINE hits == {i \in DOMAIN chunks[c] : Texts(c)[i] \in DOMAIN cache}
<1>1. /\ cache' = cache /\ points' = points /\ chunks' = chunks
      /\ results' = [results EXCEPT ![c] = [i \in hits |-> cache[Texts(c)[i]]]]
      /\ fresh' = [fresh EXCEPT ![c] = <<>>]
  BY DEF Lookup, locals
<1>2. PICK s \in {"embed", "done", "upsert"} : pc' = [pc EXCEPT ![c] = s]
  BY DEF Lookup, Goto
<1>3. VectorsMatchTexts'
  BY <1>1 DEF VectorsMatchTexts
<1>4. /\ DOMAIN chunks = Calls /\ DOMAIN results = Calls /\ DOMAIN fresh = Calls
      /\ DOMAIN pc = Calls
  BY DEF Base, TypeOK, Shapes
<1>5. Texts(c)' = Texts(c)
  BY <1>1, MissesAndTexts DEF Texts, TextsOf
<1>6. \A i \in DOMAIN results'[c] : results'[c][i] = Texts(c)[i]
  BY <1>1, <1>4 DEF VectorsMatchTexts
<1>7. fresh'[c] = <<>> /\ IsSequence(<<>>) /\ Len(<<>>) = 0
  BY <1>1, <1>4 DEF IsSequence, ToSet
<1>8. Len(Misses(c)') \in Nat
  <2>1. Misses(c)' = Missing(DOMAIN chunks'[c], DOMAIN results'[c])
    BY DEF Misses, Missing
  <2>2. IsSequence(chunks[c])
    BY DEF Base, Shapes
  <2>3. \E n \in Nat : DOMAIN chunks'[c] = 1..n
    BY <2>2, <1>1, SequenceProperties
  <2> QED
    BY <2>1, <2>3, MissingRange, SequenceProperties
<1>9. ASSUME NEW b \in Calls, b # c
      PROVE  /\ pc'[b] = pc[b] /\ fresh'[b] = fresh[b] /\ results'[b] = results[b]
             /\ Misses(b)' = Misses(b) /\ Texts(b)' = Texts(b)
  <2>1. pc'[b] = pc[b] /\ fresh'[b] = fresh[b] /\ results'[b] = results[b] /\ chunks'[b] = chunks[b]
    BY <1>1, <1>2, <1>4, <1>9
  <2> QED
    BY <2>1, MissesStay
<1> HIDE DEF hits
<1>10. Collected'
  <2>1. SUFFICES ASSUME NEW b \in Calls
                 PROVE  /\ pc'[b] \in {"embed", "store", "upsert"} =>
                               \A i \in DOMAIN results'[b] : results'[b][i] = Texts(b)'[i]
                        /\ pc'[b] \in {"embed", "store"} =>
                               /\ IsSequence(fresh'[b]) /\ Len(fresh'[b]) <= Len(Misses(b)')
                               /\ \A k \in 1..Len(fresh'[b]) :
                                      fresh'[b][k] = Texts(b)'[Misses(b)'[k]]
                        /\ pc'[b] = "store" => Len(fresh'[b]) = Len(Misses(b)')
    BY DEF Collected
  <2>2. CASE b = c
    BY <2>2, <1>2, <1>4, <1>5, <1>6, <1>7, <1>8
  <2>3. CASE b # c
    BY <2>3, <1>9 DEF Collected
  <2> QED
    BY <2>2, <2>3
<1> QED
  BY <1>3, <1>10

LEMMA CollectedEmbed ==
    ASSUME Base, VectorsMatchTexts, Collected, NEW c \in Calls, EmbedBatch(c)
    PROVE  VectorsMatchTexts' /\ Collected'
<1> DEFINE batch == Batch(c)
           wanted == [k \in DOMAIN batch |-> Texts(c)[batch[k]]]
           made == fresh[c] \o wanted
<1>1. /\ cache' = cache /\ points' = points /\ chunks' = chunks /\ results' = results
      /\ pc[c] = "embed"
  BY DEF EmbedBatch, locals
<1>2. PICK order \in Bijection(DOMAIN batch, DOMAIN batch) :
          fresh' = [fresh EXCEPT ![c] = @ \o Vectors(
              [k \in DOMAIN batch |->
                  [index |-> order[k], embedding |-> Texts(c)[batch[order[k]]]]])]
  BY DEF EmbedBatch
<1>3. DOMAIN chunks = Calls /\ DOMAIN results = Calls /\ DOMAIN fresh = Calls /\ DOMAIN pc = Calls
  BY DEF Base, TypeOK, Shapes
<1>4. \A b \in Calls : Misses(b)' = Misses(b) /\ Texts(b)' = Texts(b)
  BY <1>1, MissesStay
<1>5. /\ IsSequence(batch) /\ Len(fresh[c]) + Len(batch) <= Len(Misses(c))
      /\ \A k \in 1..Len(batch) : batch[k] = Misses(c)[Len(fresh[c]) + k]
  BY <1>1, BatchOf
<1>6. /\ IsSequence(fresh[c])
      /\ \A k \in 1..Len(fresh[c]) : fresh[c][k] = Texts(c)[Misses(c)[k]]
  BY <1>1 DEF Collected
<1> HIDE DEF batch
<1>7. Vectors([k \in DOMAIN batch |->
                  [index |-> order[k], embedding |-> Texts(c)[batch[order[k]]]]]) = wanted
  <2>1. \A k \in DOMAIN batch : wanted[order[k]] = Texts(c)[batch[order[k]]]
    BY DEF Bijection, Injection
  <2>2. [k \in DOMAIN batch |-> [index |-> order[k], embedding |-> wanted[order[k]]]]
        = [k \in DOMAIN batch |-> [index |-> order[k], embedding |-> Texts(c)[batch[order[k]]]]]
    BY <2>1
  <2>3. wanted = [k \in DOMAIN batch |-> wanted[k]]
    OBVIOUS
  <2> HIDE DEF wanted
  <2>4. Vectors([k \in DOMAIN batch |-> [index |-> order[k], embedding |-> wanted[order[k]]]])
        = [k \in DOMAIN batch |-> wanted[k]]
    BY VectorsAreSorted
  <2> QED
    BY <2>2, <2>3, <2>4, Zenon
<1>8. fresh' = [fresh EXCEPT ![c] = made]
  BY <1>2, <1>7
<1>9. IsSequence(wanted) /\ Len(wanted) = Len(batch)
  <2>1. Len(batch) \in Nat /\ DOMAIN batch = 1..Len(batch)
    BY <1>5, SequenceProperties
  <2>2. wanted \in Seq({wanted[k] : k \in 1..Len(batch)}) /\ DOMAIN wanted = 1..Len(batch)
    BY <2>1
  <2> HIDE DEF wanted
  <2> QED
    BY <2>1, <2>2 DEF IsSequence, ToSet
<1>10. /\ IsSequence(made) /\ Len(made) = Len(fresh[c]) + Len(batch)
       /\ \A k \in 1..Len(made) : made[k] = Texts(c)[Misses(c)[k]]
  <2>1. IsSequence(made)
    BY <1>6, <1>9, ConcatenationRange
  <2>2. /\ Len(made) = Len(fresh[c]) + Len(wanted)
        /\ \A k \in 1..Len(made) :
               made[k] = IF k <= Len(fresh[c]) THEN fresh[c][k] ELSE wanted[k - Len(fresh[c])]
    <3> DEFINE S == ToSet(fresh[c]) \cup ToSet(wanted)
    <3>1. fresh[c] \in Seq(S) /\ wanted \in Seq(S)
      BY <1>6, <1>9 DEF IsSequence
    <3> HIDE DEF S, wanted
    <3> QED
      BY <3>1
  <2>3. Len(fresh[c]) \in Nat /\ Len(batch) \in Nat /\ DOMAIN batch = 1..Len(batch)
    BY <1>5, <1>6, SequenceProperties
  <2>4. \A k \in 1..Len(batch) : wanted[k] = Texts(c)[Misses(c)[Len(fresh[c]) + k]]
    BY <1>5, <2>3
  <2> HIDE DEF made, wanted
  <2>5. ASSUME NEW k \in 1..Len(made) PROVE made[k] = Texts(c)[Misses(c)[k]]
    <3>1. CASE k <= Len(fresh[c])
      <4>1. k \in 1..Len(fresh[c])
        BY <2>2, <2>3, <3>1, <1>9
      <4> QED
        BY <4>1, <2>2, <3>1, <1>6
    <3>2. CASE ~(k <= Len(fresh[c]))
      <4>1. /\ k - Len(fresh[c]) \in 1..Len(batch)
            /\ Len(fresh[c]) + (k - Len(fresh[c])) = k
        BY <2>2, <2>3, <3>2, <1>9
      <4> QED
        BY <4>1, <2>2, <2>4, <3>2
    <3> QED
      BY <3>1, <3>2
  <2> QED
    BY <2>1, <2>2, <2>5, <1>9
<1>11. PICK s \in {"embed", "store"} :
           pc' = [pc EXCEPT ![c] = s] /\ (s = "store" => Len(made) = Len(Misses(c)))
  <2>1. pc' = [pc EXCEPT ![c] = IF Len(fresh'[c]) = Len(Misses(c)) THEN "store" ELSE "embed"]
    BY DEF EmbedBatch, Goto
  <2>2. fresh'[c] = made
    BY <1>3, <1>8
  <2> HIDE DEF made
  <2> QED
    BY <2>1, <2>2
<1>12. VectorsMatchTexts'
  BY <1>1 DEF VectorsMatchTexts
<1> HIDE DEF made
<1>13. Collected'
  <2>1. SUFFICES ASSUME NEW b \in Calls
                 PROVE  /\ pc'[b] \in {"embed", "store", "upsert"} =>
                               \A i \in DOMAIN results[b] : results[b][i] = Texts(b)[i]
                        /\ pc'[b] \in {"embed", "store"} =>
                               /\ IsSequence(fresh'[b]) /\ Len(fresh'[b]) <= Len(Misses(b))
                               /\ \A k \in 1..Len(fresh'[b]) :
                                      fresh'[b][k] = Texts(b)[Misses(b)[k]]
                        /\ pc'[b] = "store" => Len(fresh'[b]) = Len(Misses(b))
    BY <1>1, <1>4 DEF Collected
  <2>2. CASE b = c
    <3>1. fresh'[b] = made /\ pc'[b] = s /\ pc[b] = "embed"
      BY <2>2, <1>1, <1>3, <1>8, <1>11
    <3> QED
      BY <3>1, <2>2, <1>5, <1>10, <1>11 DEF Collected
  <2>3. CASE b # c
    <3>1. fresh'[b] = fresh[b] /\ pc'[b] = pc[b]
      BY <2>3, <1>3, <1>8, <1>11
    <3> QED
      BY <3>1 DEF Collected
  <2> QED
    BY <2>2, <2>3
<1> QED
  BY <1>12, <1>13

LEMMA CollectedStore ==
    ASSUME Base, VectorsMatchTexts, Collected, NEW c \in Calls, StoreVectors(c)
    PROVE  VectorsMatchTexts' /\ Collected'
<1> DEFINE misses == Misses(c)
           Stored(n) == [text \in {Texts(c)[misses[k]] : k \in 1..n} |->
               fresh[c][CHOOSE k \in 1..n : Texts(c)[misses[k]] = text]]
<1>1. /\ points' = points /\ chunks' = chunks /\ fresh' = fresh /\ pc[c] = "store"
  BY DEF StoreVectors, locals
<1>2. DOMAIN chunks = Calls /\ DOMAIN results = Calls /\ DOMAIN fresh = Calls /\ DOMAIN pc = Calls
  BY DEF Base, TypeOK, Shapes
<1>3. /\ IsSequence(misses) /\ Len(misses) \in Nat
      /\ ToSet(misses) = DOMAIN chunks[c] \ DOMAIN results[c]
      /\ ToSet(misses) = {misses[k] : k \in 1..Len(misses)}
  BY MissesRange, SequenceProperties
<1>4. /\ IsSequence(fresh[c]) /\ Len(fresh[c]) = Len(misses) /\ DOMAIN fresh[c] = 1..Len(misses)
      /\ \A k \in 1..Len(misses) : fresh[c][k] = Texts(c)[misses[k]]
  BY <1>1, SequenceProperties DEF Collected
<1>5. \A i \in DOMAIN results[c] : results[c][i] = Texts(c)[i]
  BY <1>1 DEF Collected
<1> HIDE DEF misses
<1>6. ASSUME NEW n \in 0..Len(misses), NEW text \in DOMAIN Stored(n)
      PROVE  Stored(n)[text] = text
  <2>1. \E k \in 1..n : Texts(c)[misses[k]] = text
    BY <1>6
  <2> DEFINE k == CHOOSE j \in 1..n : Texts(c)[misses[j]] = text
  <2>2. k \in 1..n /\ Texts(c)[misses[k]] = text
    BY <2>1
  <2>3. Stored(n)[text] = fresh[c][k]
    BY <1>6
  <2> HIDE DEF k
  <2>4. k \in 1..Len(misses)
    BY <2>2, <1>3
  <2> QED
    BY <2>2, <2>3, <2>4, <1>4
<1>7. \A n \in 0..Len(misses) :
          \A text \in DOMAIN Overwritten(cache, Stored(n)) :
              Overwritten(cache, Stored(n))[text] = text
  <2> HIDE DEF Stored
  <2> QED
    BY <1>6 DEF Overwritten, VectorsMatchTexts
<1>8. \A i \in DOMAIN Filled(c) : Filled(c)[i] = Texts(c)[i]
  <2>1. TAKE i \in DOMAIN Filled(c)
  <2>2. i \in DOMAIN chunks[c]
    BY DEF Filled
  <2>3. CASE i \in DOMAIN results[c]
    BY <2>2, <2>3, <1>5 DEF Filled
  <2>4. CASE i \notin DOMAIN results[c]
    <3> DEFINE k == CHOOSE j \in DOMAIN fresh[c] : misses[j] = i
    <3>1. \E j \in DOMAIN fresh[c] : misses[j] = i
      BY <2>2, <2>4, <1>3, <1>4
    <3>2. k \in DOMAIN fresh[c] /\ misses[k] = i
      BY <3>1
    <3>3. Filled(c)[i] = fresh[c][k]
      BY <2>2, <2>4 DEF Filled, misses
    <3> HIDE DEF k
    <3> QED
      BY <3>2, <3>3, <1>4
  <2> QED
    BY <2>3, <2>4
<1>9. PICK n \in 0..Len(misses) : cache' = Overwritten(cache, Stored(n))
  <2>1. 0..(Len(misses) - 1) \subseteq 0..Len(misses) /\ Len(misses) \in 0..Len(misses)
    BY <1>3
  <2>2. \/ cache' = Overwritten(cache, Stored(Len(misses)))
        \/ \E n \in 0..(Len(misses) - 1) : cache' = Overwritten(cache, Stored(n))
    BY DEF StoreVectors, misses
  <2> HIDE DEF Stored
  <2> QED
    BY <2>1, <2>2
<1>10. VectorsMatchTexts'
  <2> HIDE DEF Stored
  <2> QED
    BY <1>1, <1>7, <1>9 DEF VectorsMatchTexts
<1>11. PICK s \in {"done", "upsert", "failed"} :
           /\ pc' = [pc EXCEPT ![c] = s]
           /\ s = "upsert" => results' = [results EXCEPT ![c] = Filled(c)]
           /\ results' = results \/ results' = [results EXCEPT ![c] = Filled(c)]
  BY DEF StoreVectors, Goto
<1>12. \A b \in Calls : Texts(b)' = Texts(b)
  BY <1>1 DEF Texts
<1>13. Collected'
  <2>1. SUFFICES ASSUME NEW b \in Calls
                 PROVE  /\ pc'[b] \in {"embed", "store", "upsert"} =>
                               \A i \in DOMAIN results'[b] : results'[b][i] = Texts(b)[i]
                        /\ pc'[b] \in {"embed", "store"} =>
                               /\ IsSequence(fresh[b]) /\ Len(fresh[b]) <= Len(Misses(b)')
                               /\ \A k \in 1..Len(fresh[b]) :
                                      fresh[b][k] = Texts(b)[Misses(b)'[k]]
                        /\ pc'[b] = "store" => Len(fresh[b]) = Len(Misses(b)')
    BY <1>1, <1>12 DEF Collected
  <2>2. CASE b = c
    BY <2>2, <1>2, <1>8, <1>11
  <2>3. CASE b # c
    <3>1. results'[b] = results[b] /\ pc'[b] = pc[b] /\ chunks'[b] = chunks[b]
      BY <2>3, <1>1, <1>2, <1>11
    <3>2. Misses(b)' = Misses(b)
      BY <3>1, MissesStay
    <3> QED
      BY <3>1, <3>2 DEF Collected
  <2> QED
    BY <2>2, <2>3
<1> QED
  BY <1>10, <1>13

\* A step that touches no vector, and leaves the work of the other calls alone.
LEMMA CollectedElsewhere ==
    ASSUME Base, VectorsMatchTexts, Collected, NEW c \in Calls,
           results' = results, fresh' = fresh,
           pc'[c] \notin {"embed", "store", "upsert"},
           \A b \in Calls : b # c => pc'[b] = pc[b] /\ chunks'[b] = chunks[b]
    PROVE  Collected'
<1>1. SUFFICES ASSUME NEW b \in Calls
               PROVE  /\ pc'[b] \in {"embed", "store", "upsert"} =>
                             \A i \in DOMAIN results[b] : results[b][i] = Texts(b)'[i]
                      /\ pc'[b] \in {"embed", "store"} =>
                             /\ IsSequence(fresh[b]) /\ Len(fresh[b]) <= Len(Misses(b)')
                             /\ \A k \in 1..Len(fresh[b]) :
                                    fresh[b][k] = Texts(b)'[Misses(b)'[k]]
                      /\ pc'[b] = "store" => Len(fresh[b]) = Len(Misses(b)')
  BY DEF Collected
<1>2. CASE b = c
  BY <1>2
<1>3. CASE b # c
  <2>1. Misses(b)' = Misses(b) /\ Texts(b)' = Texts(b) /\ pc'[b] = pc[b]
    BY <1>3, MissesStay
  <2> QED
    BY <2>1 DEF Collected
<1> QED
  BY <1>2, <1>3

\* The ids of a call's chunks.
IdsOf(c) == {chunks[c][i].id : i \in DOMAIN chunks[c]}

\* The point that an upsert leaves under an id is that of the last chunk of this id.
LEMMA UpsertedPoints ==
    ASSUME Base, Collected, NEW c \in Calls, UpsertPoints(c)
    PROVE  /\ DOMAIN points' = DOMAIN points \cup IdsOf(c)
           /\ \A id \in DOMAIN points \ IdsOf(c) : points'[id] = points[id]
           /\ \A id \in IdsOf(c) : \E i \in DOMAIN chunks[c] :
                  /\ chunks[c][i].id = id
                  /\ points'[id] = [text |-> chunks[c][i].text,
                                    vector |-> Normalise(chunks[c][i].text)]
<1> DEFINE IdAt(i) == chunks[c][i].id
           Is(id, i) == IdAt(i) = id /\ \A k \in DOMAIN chunks[c] : IdAt(k) = id => k <= i
           last(id) == CHOOSE i \in DOMAIN chunks[c] : Is(id, i)
           upserted == [id \in IdsOf(c) |->
               [text |-> chunks[c][last(id)].text, vector |-> results[c][last(id)]]]
<1>1. points' = Overwritten(points, upserted) /\ pc[c] = "upsert"
  BY DEF UpsertPoints, IdsOf
<1>2. DOMAIN chunks[c] = 1..Len(chunks[c]) /\ Len(chunks[c]) \in Nat
  BY SequenceProperties DEF Base, Shapes
<1>3. \A i \in DOMAIN chunks[c] : results[c][i] = Normalise(chunks[c][i].text)
  BY <1>1 DEF Base, TypeOK, Collected, Texts
<1>4. ASSUME NEW id \in IdsOf(c)
      PROVE  last(id) \in DOMAIN chunks[c] /\ IdAt(last(id)) = id
  <2> DEFINE S == {i \in DOMAIN chunks[c] : IdAt(i) = id}
  <2>1. S \subseteq 1..Len(chunks[c]) /\ S # {}
    BY <1>2, <1>4 DEF IdsOf
  <2>2. \E i \in S : \A k \in S : k <= i
    <3> HIDE DEF S
    <3> QED
      BY <2>1, <1>2, LastPosition
  <2>3. \E i \in DOMAIN chunks[c] : Is(id, i)
    BY <2>2
  <2> QED
    BY <2>3
<1> HIDE DEF last
<1>5. ASSUME NEW id \in IdsOf(c)
      PROVE  upserted[id] = [text |-> chunks[c][last(id)].text,
                             vector |-> Normalise(chunks[c][last(id)].text)]
  BY <1>3, <1>4
<1>6. DOMAIN upserted = IdsOf(c)
  OBVIOUS
<1> HIDE DEF upserted
<1>7. /\ DOMAIN points' = DOMAIN points \cup IdsOf(c)
      /\ \A id \in DOMAIN points \ IdsOf(c) : points'[id] = points[id]
      /\ \A id \in IdsOf(c) : points'[id] = upserted[id]
  BY <1>1, <1>6 DEF Overwritten
<1>8. ASSUME NEW id \in IdsOf(c)
      PROVE  \E i \in DOMAIN chunks[c] :
                 /\ chunks[c][i].id = id
                 /\ points'[id] = [text |-> chunks[c][i].text,
                                   vector |-> Normalise(chunks[c][i].text)]
  <2>1. points'[id] = [text |-> chunks[c][last(id)].text,
                       vector |-> Normalise(chunks[c][last(id)].text)]
    BY <1>5, <1>7
  <2> QED
    BY <2>1, <1>4
<1> QED
  BY <1>7, <1>8

LEMMA CollectedStep ==
    Base /\ VectorsMatchTexts /\ Collected /\ [Next]_vars => VectorsMatchTexts' /\ Collected'
<1> SUFFICES ASSUME Base, VectorsMatchTexts, Collected, [Next]_vars
             PROVE  VectorsMatchTexts' /\ Collected'
  OBVIOUS
<1>0. DOMAIN chunks = Calls /\ DOMAIN pc = Calls
  BY DEF Base, TypeOK, Shapes
<1>1. ASSUME NEW c \in Calls, NEW d \in Docs, NEW x \in Contents[d], StartIngest(c, d, x)
      PROVE  VectorsMatchTexts' /\ Collected'
  <2>1. /\ results' = results /\ fresh' = fresh /\ cache' = cache /\ points' = points
        /\ pc'[c] \in {"clear", "lookup", "done"}
        /\ \A b \in Calls : b # c => pc'[b] = pc[b] /\ chunks'[b] = chunks[b]
    BY <1>0, <1>1 DEF StartIngest, Goto
  <2> QED
    BY <2>1, CollectedElsewhere DEF VectorsMatchTexts
<1>2. ASSUME NEW c \in Calls, NEW text \in Questions, StartQuestion(c, text)
      PROVE  VectorsMatchTexts' /\ Collected'
  <2>1. /\ results' = results /\ fresh' = fresh /\ cache' = cache /\ points' = points
        /\ pc'[c] \in {"lookup", "failed"}
        /\ \A b \in Calls : b # c => pc'[b] = pc[b] /\ chunks'[b] = chunks[b]
    BY <1>0, <1>2 DEF StartQuestion, Goto
  <2> QED
    BY <2>1, CollectedElsewhere DEF VectorsMatchTexts
<1>3. ASSUME NEW c \in Calls, ClearPoints(c) PROVE VectorsMatchTexts' /\ Collected'
  <2>1. /\ results' = results /\ fresh' = fresh /\ pc'[c] \in {"record", "lookup"}
        /\ \A b \in Calls : b # c => pc'[b] = pc[b] /\ chunks'[b] = chunks[b]
    BY <1>0, <1>3 DEF ClearPoints, Goto, locals
  <2>2. VectorsMatchTexts'
    BY <1>3 DEF ClearPoints, VectorsMatchTexts, Restrict
  <2> QED
    BY <2>1, <2>2, CollectedElsewhere
<1>4. ASSUME NEW c \in Calls, UpsertPoints(c) PROVE VectorsMatchTexts' /\ Collected'
  <2>1. /\ results' = results /\ fresh' = fresh /\ cache' = cache /\ pc'[c] = "record"
        /\ \A b \in Calls : b # c => pc'[b] = pc[b] /\ chunks'[b] = chunks[b]
    BY <1>0, <1>4 DEF UpsertPoints, Goto, locals
  <2>2. \A id \in DOMAIN points' : points'[id].vector = Normalise(points'[id].text)
    <3>1. TAKE id \in DOMAIN points'
    <3>2. CASE id \in IdsOf(c)
      <4>1. PICK i \in DOMAIN chunks[c] :
                points'[id] = [text |-> chunks[c][i].text,
                               vector |-> Normalise(chunks[c][i].text)]
        BY <1>4, <3>2, UpsertedPoints
      <4> QED
        BY <4>1
    <3>3. CASE id \notin IdsOf(c)
      BY <1>4, <3>1, <3>3, UpsertedPoints DEF VectorsMatchTexts
    <3> QED
      BY <3>2, <3>3
  <2>3. VectorsMatchTexts'
    BY <2>1, <2>2 DEF VectorsMatchTexts
  <2> QED
    BY <2>1, <2>3, CollectedElsewhere
<1>5. ASSUME NEW c \in Calls, RecordIds(c) \/ Fail(c) PROVE VectorsMatchTexts' /\ Collected'
  <2>1. /\ results' = results /\ fresh' = fresh /\ cache' = cache /\ points' = points
        /\ pc'[c] \in {"done", "failed"}
        /\ \A b \in Calls : b # c => pc'[b] = pc[b] /\ chunks'[b] = chunks[b]
    BY <1>0, <1>5 DEF RecordIds, Fail, Goto, locals
  <2> QED
    BY <2>1, CollectedElsewhere DEF VectorsMatchTexts
<1>6. ASSUME pc' = pc, chunks' = chunks, results' = results, fresh' = fresh
      PROVE  Collected'
  <2>1. \A c \in Calls : Misses(c)' = Misses(c) /\ Texts(c)' = Texts(c)
    BY <1>6, MissesStay
  <2> QED
    BY <1>6, <2>1 DEF Collected
<1>7. ASSUME NEW text, Expire(text) PROVE VectorsMatchTexts' /\ Collected'
  BY <1>6, <1>7 DEF Expire, locals, VectorsMatchTexts, Restrict
<1>8. CASE UNCHANGED vars
  BY <1>6, <1>8 DEF vars, VectorsMatchTexts
<1> QED
  BY <1>1, <1>2, <1>3, <1>4, <1>5, <1>7, <1>8, CollectedLookup, CollectedEmbed, CollectedStore
  DEF Next, Work

-----------------------------------------------------------------------------
(* Points.                                                                   *)

\* The call that runs, or ran, alone on d.  The old points of the document are gone
\* when it looks up its vectors; from its upsert on, its chunks are its points.
AloneOn(c, d) ==
    /\ c \in Calls /\ doc[c] = d
    /\ \A b \in Calls : Active(b) /\ doc[b] = d => b = c
    /\ pc[c] \in {"lookup", "embed", "store", "upsert"} /\ content[c].kind # "answer" =>
           \A id \in DOMAIN points : id[1] # d
    /\ pc[c] \in {"record", "done"} =>
           /\ \A i \in DOMAIN chunks[c] : /\ chunks[c][i].id \in DOMAIN points
                                          /\ points[chunks[c][i].id].text = chunks[c][i].text
           /\ content[c].kind # "answer" => \A id \in DOMAIN points : id[1] = d => id \in IdsOf(c)
    /\ pc[c] = "done" /\ (content[c].kind = "answer" => chunks[c] # <<>>) =>
           recorded[d] = LET ids == [i \in DOMAIN chunks[c] |-> chunks[c][i].id] IN
                         IF content[c].kind = "answer" THEN SubSeq(ids, 1, 1) ELSE ids

Alone == \A d \in Docs : \A c \in Calls : latest[d] = c => AloneOn(c, d)

LEMMA ContentIsDocument ==
    ASSUME Base, NEW c \in Calls, doc[c] # None
    PROVE  doc[c] \in Docs /\ IsDocument(content[c]) /\ chunks[c] = ChunkDocument(doc[c], content[c])
BY IngestionAssumption DEF Base, TypeOK, Shapes

\* The chunks of a call have the ids of its document, and one text for each id.
LEMMA ChunksAreOwn ==
    ASSUME Base, NEW c \in Calls, doc[c] # None
    PROVE  /\ IsSequence(chunks[c])
           /\ \A id \in IdsOf(c) : id[1] = doc[c]
           /\ \A i, j \in DOMAIN chunks[c] :
                  chunks[c][i].id = chunks[c][j].id => chunks[c][i].text = chunks[c][j].text
<1>1. /\ IsSequence(chunks[c])
      /\ \A k \in ToSet(chunks[c]) : k.id[1] = doc[c]
      /\ \A j, k \in ToSet(chunks[c]) : j.id = k.id => j.text = k.text
  BY ContentIsDocument, ChunksOfDocument
<1>2. \A i \in DOMAIN chunks[c] : chunks[c][i] \in ToSet(chunks[c])
  BY DEF ToSet
<1> QED
  BY <1>1, <1>2 DEF IdsOf

LEMMA AloneInit == Init => Alone
BY IngestionAssumption DEF Init, Alone

\* A step that changes nothing of the call, its document's points and its row.
LEMMA AloneStays ==
    ASSUME NEW a, NEW d, AloneOn(a, d),
           pc'[a] = pc[a], doc'[a] = doc[a], content'[a] = content[a], chunks'[a] = chunks[a],
           \A b \in Calls : Active(b)' /\ doc'[b] = d => b = a,
           \A id : id[1] = d => /\ id \in DOMAIN points' <=> id \in DOMAIN points
                                /\ id \in DOMAIN points => points'[id] = points[id],
           recorded'[d] = recorded[d],
           \A id \in IdsOf(a) : id[1] = d
    PROVE  AloneOn(a, d)'
<1>1. IdsOf(a)' = IdsOf(a)
  BY DEF IdsOf
<1>2. \A i \in DOMAIN chunks[a] : chunks[a][i].id \in IdsOf(a)
  BY DEF IdsOf
<1>3. a \in Calls /\ doc'[a] = d
  BY DEF AloneOn
<1>4. pc[a] \in {"lookup", "embed", "store", "upsert"} /\ content[a].kind # "answer" =>
          \A id \in DOMAIN points' : id[1] # d
  BY DEF AloneOn
<1>5. pc[a] \in {"record", "done"} =>
          /\ \A i \in DOMAIN chunks[a] : /\ chunks[a][i].id \in DOMAIN points'
                                         /\ points'[chunks[a][i].id].text = chunks[a][i].text
          /\ content[a].kind # "answer" =>
                 \A id \in DOMAIN points' : id[1] = d => id \in IdsOf(a)
  BY <1>2 DEF AloneOn
<1>6. pc[a] = "done" /\ (content[a].kind = "answer" => chunks[a] # <<>>) =>
          recorded'[d] = LET ids == [i \in DOMAIN chunks[a] |-> chunks[a][i].id] IN
                         IF content[a].kind = "answer" THEN SubSeq(ids, 1, 1) ELSE ids
  BY DEF AloneOn
<1> QED
  BY <1>1, <1>3, <1>4, <1>5, <1>6 DEF AloneOn

\* The call takes a step on its own that changes neither points nor rows.
LEMMA AloneGoesOn ==
    ASSUME Base, NEW c \in Calls, NEW d, AloneOn(c, d), Active(c),
           NEW s, pc' = [pc EXCEPT ![c] = s],
           \/ s = "failed"
           \/ pc[c] \in {"lookup", "embed", "store"} /\ s \in {"embed", "store", "upsert"},
           UNCHANGED <<doc, content, chunks, points, recorded>>
    PROVE  AloneOn(c, d)'
<1>1. pc \in [Calls -> Steps \cup {"idle", "done", "failed"}]
  BY DEF Base, TypeOK
<1>2. pc'[c] = s /\ \A b \in Calls : b # c => pc'[b] = pc[b]
  BY <1>1
<1>3. \A b \in Calls : Active(b)' /\ doc'[b] = d => b = c
  BY <1>2 DEF AloneOn, Active, Steps
<1> QED
  BY <1>2, <1>3 DEF AloneOn

LEMMA AloneClears ==
    ASSUME Base, NEW c \in Calls, NEW d \in Docs, AloneOn(c, d), ClearPoints(c)
    PROVE  AloneOn(c, d)'
<1>1. /\ pc \in [Calls -> Steps \cup {"idle", "done", "failed"}] /\ doc[c] = d
      /\ IsSequence(chunks[c])
  BY DEF Base, TypeOK, Shapes, AloneOn
<1>2. UNCHANGED <<doc, content, chunks, recorded>>
  BY DEF ClearPoints, locals
<1>3. \A id \in DOMAIN points' : id[1] # d
  BY <1>1 DEF ClearPoints, Restrict
<1>4. PICK s \in {"record", "lookup"} :
          pc' = [pc EXCEPT ![c] = s] /\ (s = "record" => chunks[c] = <<>>)
  BY DEF ClearPoints, Goto
<1>5. pc'[c] = s /\ pc[c] = "clear" /\ \A b \in Calls : b # c => pc'[b] = pc[b]
  BY <1>1, <1>4 DEF ClearPoints
<1>6. \A b \in Calls : Active(b)' /\ doc'[b] = d => b = c
  BY <1>2, <1>5 DEF AloneOn, Active, Steps
<1>7. s = "record" => DOMAIN chunks[c] = {}
  BY <1>4
<1> QED
  BY <1>1, <1>2, <1>3, <1>5, <1>6, <1>7 DEF AloneOn

LEMMA AloneUpserts ==
    ASSUME Base, Collected, NEW c \in Calls, NEW d \in Docs, AloneOn(c, d), UpsertPoints(c)
    PROVE  AloneOn(c, d)'
<1>1. /\ pc \in [Calls -> Steps \cup {"idle", "done", "failed"}] /\ doc[c] = d /\ doc[c] # None
  BY IngestionAssumption DEF Base, TypeOK, AloneOn
<1>2. UNCHANGED <<doc, content, chunks, recorded>> /\ pc[c] = "upsert"
  BY DEF UpsertPoints, locals
<1>3. pc'[c] = "record" /\ \A b \in Calls : b # c => pc'[b] = pc[b]
  BY <1>1 DEF UpsertPoints, Goto
<1>4. \A b \in Calls : Active(b)' /\ doc'[b] = d => b = c
  BY <1>2, <1>3 DEF AloneOn, Active, Steps
<1>5. IdsOf(c)' = IdsOf(c)
  BY <1>2 DEF IdsOf
<1>6. ASSUME NEW i \in DOMAIN chunks[c]
      PROVE  chunks[c][i].id \in DOMAIN points' /\ points'[chunks[c][i].id].text = chunks[c][i].text
  <2>1. chunks[c][i].id \in IdsOf(c)
    BY DEF IdsOf
  <2>2. PICK j \in DOMAIN chunks[c] :
            /\ chunks[c][j].id = chunks[c][i].id
            /\ points'[chunks[c][i].id] = [text |-> chunks[c][j].text,
                                           vector |-> Normalise(chunks[c][j].text)]
    BY <2>1, UpsertedPoints
  <2>3. chunks[c][j].text = chunks[c][i].text
    BY <2>2, <1>1, ChunksAreOwn
  <2>4. chunks[c][i].id \in DOMAIN points'
    BY <2>1, UpsertedPoints
  <2> QED
    BY <2>2, <2>3, <2>4
<1>7. content[c].kind # "answer" => \A id \in DOMAIN points' : id[1] = d => id \in IdsOf(c)
  BY <1>2, UpsertedPoints DEF AloneOn
<1> QED
  BY <1>1, <1>2, <1>3, <1>4, <1>5, <1>6, <1>7 DEF AloneOn

LEMMA AloneRecords ==
    ASSUME Base, NEW c \in Calls, NEW d \in Docs, AloneOn(c, d), RecordIds(c)
    PROVE  AloneOn(c, d)'
<1>1. /\ pc \in [Calls -> Steps \cup {"idle", "done", "failed"}] /\ doc[c] = d
      /\ DOMAIN recorded = Docs
  BY DEF Base, TypeOK, AloneOn
<1>2. UNCHANGED <<doc, content, chunks, points>> /\ pc[c] = "record"
  BY DEF RecordIds, locals
<1>3. pc'[c] = "done" /\ \A b \in Calls : b # c => pc'[b] = pc[b]
  BY <1>1 DEF RecordIds, Goto
<1>4. \A b \in Calls : Active(b)' /\ doc'[b] = d => b = c
  BY <1>2, <1>3 DEF AloneOn, Active, Steps
<1>5. IdsOf(c)' = IdsOf(c)
  BY <1>2 DEF IdsOf
<1>6. recorded'[d] = LET ids == [i \in DOMAIN chunks[c] |-> chunks[c][i].id] IN
                     IF content[c].kind = "answer" THEN SubSeq(ids, 1, 1) ELSE ids
  BY <1>1 DEF RecordIds
<1> QED
  BY <1>1, <1>2, <1>3, <1>4, <1>5, <1>6 DEF AloneOn

LEMMA AloneStep == Base /\ Collected /\ Alone /\ [Next]_vars => Alone'
<1> SUFFICES ASSUME Base, Collected, Alone, [Next]_vars,
                    NEW d \in Docs, NEW a \in Calls, latest'[d] = a
             PROVE  AloneOn(a, d)'
  BY DEF Alone
<1>0. /\ pc \in [Calls -> Steps \cup {"idle", "done", "failed"}] /\ doc \in [Calls -> Docs \cup {None}]
      /\ DOMAIN content = Calls /\ DOMAIN chunks = Calls /\ latest \in [Docs -> Calls \cup {None}]
      /\ None \notin Docs \cup Calls /\ DOMAIN recorded = Docs
  BY IngestionAssumption DEF Base, TypeOK, Shapes
<1>1. latest[d] = a => AloneOn(a, d) /\ doc[a] = d /\ pc[a] # "idle" /\ \A id \in IdsOf(a) : id[1] = d
  <2>1. latest[d] = a => AloneOn(a, d) /\ doc[a] = d
    <3>1. latest[d] = a => AloneOn(a, d)
      BY DEF Alone
    <3> QED
      BY <3>1 DEF AloneOn
  <2>2. latest[d] = a => pc[a] # "idle"
    BY <2>1, <1>0 DEF Base, Shapes
  <2>3. latest[d] = a => \A id \in IdsOf(a) : id[1] = d
    BY <2>1, <1>0, ChunksAreOwn
  <2> QED
    BY <2>1, <2>2, <2>3
<1>2. ASSUME NEW c \in Calls, NEW e \in Docs, NEW x \in Contents[e], StartIngest(c, e, x)
      PROVE  AloneOn(a, d)'
  <2>1. /\ pc[c] = "idle" /\ points' = points /\ recorded' = recorded
        /\ doc' = [doc EXCEPT ![c] = e] /\ content' = [content EXCEPT ![c] = x]
        /\ chunks' = [chunks EXCEPT ![c] = ChunkDocument(e, x)]
        /\ latest' = [latest EXCEPT ![e] =
                         IF \E b \in Calls : Active(b) /\ doc[b] = e THEN None ELSE c]
    BY <1>2 DEF StartIngest
  <2>2. PICK s \in {"clear", "lookup", "done"} :
            /\ pc' = [pc EXCEPT ![c] = s]
            /\ s # "clear" => x.kind = "answer"
            /\ s = "done" => ChunkDocument(e, x) = <<>>
    BY <1>2 DEF StartIngest, Goto
  <2>3. CASE d = e
    <3>1. a = c /\ \A b \in Calls : ~(Active(b) /\ doc[b] = d)
      BY <2>1, <2>3, <1>0
    <3>2. /\ pc'[c] = s /\ doc'[c] = d /\ content'[c] = x /\ chunks'[c] = ChunkDocument(e, x)
          /\ \A b \in Calls : b # c => pc'[b] = pc[b] /\ doc'[b] = doc[b]
      BY <2>1, <2>2, <2>3, <1>0
    <3>3. \A b \in Calls : Active(b)' /\ doc'[b] = d => b = c
      BY <3>1, <3>2 DEF Active
    <3>4. s = "done" => DOMAIN chunks'[c] = {} /\ chunks'[c] = <<>>
      BY <3>2, <2>2
    <3>5. AloneOn(c, d)'
      BY <2>2, <3>2, <3>3, <3>4 DEF AloneOn
    <3> QED
      BY <3>1, <3>5
  <2>4. CASE d # e
    <3>1. latest[d] = a
      BY <2>1, <2>4, <1>0
    <3>2. a # c
      BY <3>1, <1>1, <2>1
    <3>3. /\ pc'[a] = pc[a] /\ doc'[a] = doc[a] /\ content'[a] = content[a]
          /\ chunks'[a] = chunks[a]
      BY <3>1, <3>2, <1>0, <1>1, <2>1, <2>2
    <3>4. \A b \in Calls : Active(b)' /\ doc'[b] = d => b = a
      BY <3>1, <1>0, <1>1, <2>1, <2>2, <2>4 DEF AloneOn, Active
    <3>5. AloneOn(a, d)'
      BY <3>1, <3>3, <3>4, <1>1, <2>1, AloneStays
    <3> QED
      BY <3>1, <3>5
  <2> QED
    BY <2>3, <2>4
<1>3. ASSUME NEW c \in Calls, NEW text \in Questions, StartQuestion(c, text)
      PROVE  AloneOn(a, d)'
  <2>1. /\ pc[c] = "idle" /\ UNCHANGED <<doc, content, points, recorded, latest>>
        /\ \A b \in Calls : b # c => pc'[b] = pc[b] /\ chunks'[b] = chunks[b]
    BY <1>0, <1>3 DEF StartQuestion, Goto
  <2>2. a # c /\ latest[d] = a
    BY <1>1, <2>1
  <2>3. doc[c] = None
    BY <2>1 DEF Base, Shapes
  <2>4. \A b \in Calls : Active(b)' /\ doc'[b] = d => b = a
    BY <1>0, <1>1, <2>1, <2>2, <2>3 DEF AloneOn, Active
  <2>5. pc'[a] = pc[a] /\ chunks'[a] = chunks[a]
    BY <1>1, <2>1, <2>2
  <2>6. AloneOn(a, d)'
    BY <1>1, <2>1, <2>2, <2>4, <2>5, AloneStays
  <2> QED
    BY <2>1, <2>6
<1>4. ASSUME NEW c \in Calls, Work(c) PROVE AloneOn(a, d)'
  <2>1. UNCHANGED <<locals, latest>> /\ latest[d] = a
    BY <1>4 DEF Work, ClearPoints, Lookup, EmbedBatch, StoreVectors, UpsertPoints, RecordIds, Fail
  <2>2. Active(c) /\ \A b \in Calls : b # c => pc'[b] = pc[b]
    BY <1>0, <1>4 DEF Work, ClearPoints, Lookup, EmbedBatch, StoreVectors, UpsertPoints, RecordIds,
                      Fail, Active, Steps, Goto
  <2>3. CASE a = c
    <3>1. AloneOn(c, d)
      BY <1>1, <2>1, <2>3
    <3>2. doc[c] # None
      BY <1>0, <3>1 DEF AloneOn
    <3>3. CASE Lookup(c) \/ EmbedBatch(c) \/ StoreVectors(c) \/ Fail(c)
      <4>1. UNCHANGED <<points, recorded>>
        BY <3>3 DEF Lookup, EmbedBatch, StoreVectors, Fail
      <4>2. PICK s \in {"embed", "store", "upsert", "failed"} :
                /\ pc' = [pc EXCEPT ![c] = s]
                /\ s # "failed" => pc[c] \in {"lookup", "embed", "store"}
        BY <3>2, <3>3 DEF Lookup, EmbedBatch, StoreVectors, Fail, Goto
      <4> QED
        BY <2>1, <2>2, <2>3, <3>1, <4>1, <4>2, AloneGoesOn DEF locals
    <3>4. CASE ClearPoints(c)
      BY <2>1, <2>3, <3>1, <3>4, AloneClears
    <3>5. CASE UpsertPoints(c)
      BY <2>1, <2>3, <3>1, <3>5, AloneUpserts
    <3>6. CASE RecordIds(c)
      BY <2>1, <2>3, <3>1, <3>6, AloneRecords
    <3> QED
      BY <1>4, <3>3, <3>4, <3>5, <3>6 DEF Work
  <2>4. CASE a # c
    <3>1. doc[c] # d
      BY <1>1, <2>1, <2>2, <2>4 DEF AloneOn
    <3>2. \A b \in Calls : Active(b)' /\ doc'[b] = d => b = a
      BY <1>1, <2>1, <2>2, <3>1 DEF AloneOn, Active, locals
    <3>3. recorded'[d] = recorded[d]
      BY <1>0, <1>4, <3>1
      DEF Work, ClearPoints, Lookup, EmbedBatch, StoreVectors, UpsertPoints, RecordIds, Fail
    <3>4. \A id : id[1] = d => /\ id \in DOMAIN points' <=> id \in DOMAIN points
                               /\ id \in DOMAIN points => points'[id] = points[id]
      <4>1. CASE ClearPoints(c)
        BY <3>1, <4>1 DEF ClearPoints, Restrict
      <4>2. CASE UpsertPoints(c)
        <5>1. doc[c] # None
          BY <1>0, <4>2 DEF UpsertPoints, Base, TypeOK
        <5>2. \A id \in IdsOf(c) : id[1] # d
          BY <3>1, <5>1, ChunksAreOwn
        <5>3. /\ DOMAIN points' = DOMAIN points \cup IdsOf(c)
              /\ \A id \in DOMAIN points \ IdsOf(c) : points'[id] = points[id]
          BY <4>2, UpsertedPoints
        <5> QED
          BY <5>2, <5>3
      <4>3. CASE ~(ClearPoints(c) \/ UpsertPoints(c))
        BY <1>4, <4>3 DEF Work, Lookup, EmbedBatch, StoreVectors, RecordIds, Fail
      <4> QED
        BY <4>1, <4>2, <4>3
    <3>5. pc'[a] = pc[a]
      BY <1>1, <2>1, <2>2, <2>4
    <3>6. AloneOn(a, d)'
      BY <1>1, <2>1, <3>2, <3>3, <3>4, <3>5, AloneStays DEF locals
    <3> QED
      BY <2>1, <3>6
  <2> QED
    BY <2>3, <2>4
<1>5. ASSUME UNCHANGED <<pc, doc, content, chunks, points, recorded, latest>>
      PROVE  AloneOn(a, d)'
  <2>1. latest[d] = a
    BY <1>5
  <2>2. \A b \in Calls : Active(b)' /\ doc'[b] = d => b = a
    BY <1>1, <1>5, <2>1 DEF AloneOn, Active
  <2>3. AloneOn(a, d)'
    BY <1>1, <1>5, <2>1, <2>2, AloneStays
  <2> QED
    BY <1>5, <2>3
<1>6. ASSUME NEW text, Expire(text) PROVE AloneOn(a, d)'
  BY <1>5, <1>6 DEF Expire, locals
<1>7. CASE UNCHANGED vars
  BY <1>5, <1>7 DEF vars
<1> QED
  BY <1>2, <1>3, <1>4, <1>6, <1>7 DEF Next

-----------------------------------------------------------------------------
(* Theorems.                                                                 *)

LEMMA LatestSearchable == Base /\ Alone => LatestIsSearchable
<1> SUFFICES ASSUME Base, Alone, NEW d \in Docs, latest[d] # None, pc[latest[d]] = "done"
             PROVE  LET x == content[latest[d]]
                        parts == {p \in ToSet(Parts(x)) : ~Blank(p.text)}
                    IN
                    /\ \A p \in parts : \A k \in DOMAIN p.text : p.text[k] # Space =>
                           \E id \in Indexed(d) : id[2] = p.scope /\ \E n \in DOMAIN points[id].text :
                               points[id].text[n] = p.text[k]
                    /\ x.kind # "answer" => Indexed(d) = ToSet(recorded[d])
                    /\ x.kind = "answer" /\ parts # {} => ToSet(recorded[d]) \subseteq Indexed(d)
  BY DEF LatestIsSearchable
<1> DEFINE c == latest[d]
           x == content[c]
           parts == {p \in ToSet(Parts(x)) : ~Blank(p.text)}
           ids == [i \in DOMAIN chunks[c] |-> chunks[c][i].id]
<1>1. AloneOn(c, d) /\ pc[c] = "done"
  BY DEF Alone, Base, TypeOK
<1>2. c \in Calls /\ doc[c] = d /\ doc[c] # None
  BY <1>1, IngestionAssumption DEF AloneOn
<1>3. /\ \A i \in DOMAIN chunks[c] : /\ chunks[c][i].id \in DOMAIN points
                                     /\ points[chunks[c][i].id].text = chunks[c][i].text
      /\ x.kind # "answer" => \A id \in DOMAIN points : id[1] = d => id \in IdsOf(c)
      /\ (x.kind = "answer" => chunks[c] # <<>>) =>
             recorded[d] = IF x.kind = "answer" THEN SubSeq(ids, 1, 1) ELSE ids
  BY <1>1 DEF AloneOn
<1>4. IsDocument(x) /\ chunks[c] = ChunkDocument(d, x)
  BY <1>2, ContentIsDocument
<1>5. IsSequence(chunks[c]) /\ \A id \in IdsOf(c) : id[1] = d
  BY <1>2, ChunksAreOwn
<1>6. \A i \in DOMAIN chunks[c] : chunks[c][i].id \in Indexed(d)
  BY <1>3, <1>5 DEF Indexed, IdsOf
<1> HIDE DEF c, x
<1>7. \A p \in ToSet(Parts(x)) : ~Blank(p.text) =>
          \A n \in DOMAIN p.text : \E k \in ToSet(chunks[c]) :
              k.id[2] = p.scope /\ \E m \in DOMAIN k.text : k.text[m] = p.text[n]
  BY <1>4, ChunksOfDocument
<1>8. \A p \in parts : \A k \in DOMAIN p.text :
          \E id \in Indexed(d) : id[2] = p.scope /\ \E n \in DOMAIN points[id].text :
              points[id].text[n] = p.text[k]
  <2>1. TAKE p \in parts
  <2>2. TAKE k \in DOMAIN p.text
  <2>3. PICK h \in ToSet(chunks[c]) :
            h.id[2] = p.scope /\ \E m \in DOMAIN h.text : h.text[m] = p.text[k]
    BY <1>7
  <2>4. PICK i \in DOMAIN chunks[c] : h = chunks[c][i]
    BY DEF ToSet
  <2>5. h.id \in Indexed(d) /\ points[h.id].text = h.text
    BY <2>4, <1>3, <1>6
  <2> QED
    BY <2>3, <2>5
<1>9. x.kind # "answer" => Indexed(d) = ToSet(recorded[d])
  <2>1. SUFFICES ASSUME x.kind # "answer" PROVE Indexed(d) = ToSet(recorded[d])
    OBVIOUS
  <2>2. recorded[d] = ids
    BY <2>1, <1>3
  <2>3. ToSet(ids) = IdsOf(c)
    BY DEF ToSet, IdsOf
  <2>4. Indexed(d) = IdsOf(c)
    BY <2>1, <1>3, <1>6 DEF Indexed, IdsOf
  <2> QED
    BY <2>2, <2>3, <2>4
<1>10. x.kind = "answer" /\ parts # {} => ToSet(recorded[d]) \subseteq Indexed(d)
  <2>1. SUFFICES ASSUME x.kind = "answer", parts # {}
                 PROVE  ToSet(recorded[d]) \subseteq Indexed(d)
    OBVIOUS
  <2>2. PICK p \in ToSet(Parts(x)) : ~Blank(p.text)
    BY <2>1
  <2>3. 1 \in DOMAIN p.text
    <3>1. Parts(x) = <<>> \/ Parts(x) = Part(x.label, <<x.field, x.source, x.label>>, x.text)
      BY <2>1 DEF Parts, AnswerParts
    <3>2. ToSet(<<>>) = {} /\ \A q : ToSet(<<q>>) = {q}
      BY DEF ToSet
    <3>3. p.text = <<x.label>> \o x.text
      BY <3>1, <3>2, <2>2 DEF Part
    <3>4. x.text \in Seq(Tokens) /\ x.label \in Tokens
      BY <1>4, <2>1 DEF IsDocument, Text
    <3> QED
      BY <3>3, <3>4
  <2>4. ToSet(chunks[c]) # {}
    BY <2>2, <2>3, <1>7
  <2>5. Len(chunks[c]) \in Nat \ {0} /\ DOMAIN chunks[c] = 1..Len(chunks[c])
    <3>1. /\ Len(chunks[c]) \in Nat /\ DOMAIN chunks[c] = 1..Len(chunks[c])
          /\ ToSet(chunks[c]) = {chunks[c][i] : i \in 1..Len(chunks[c])}
      BY <1>5, SequenceProperties
    <3> QED
      BY <3>1, <2>4
  <2>6. recorded[d] = SubSeq(ids, 1, 1)
    BY <1>3, <2>1, <2>5
  <2>7. ids \in Seq(IdsOf(c)) /\ Len(ids) = Len(chunks[c])
    BY <2>5 DEF IdsOf
  <2>8. ToSet(SubSeq(ids, 1, 1)) \subseteq {ids[1]}
    <3> HIDE DEF ids
    <3> QED
      BY <2>5, <2>7 DEF ToSet
  <2>9. ids[1] \in Indexed(d)
    BY <2>5, <1>6
  <2> QED
    BY <2>6, <2>8, <2>9
<1> QED
  BY <1>8, <1>9, <1>10 DEF c, x

Inv == Base /\ VectorsMatchTexts /\ Collected /\ Alone

THEOREM Invariance == Spec => []Inv
<1>1. Init => Inv
  BY BaseInit, CollectedInit, AloneInit DEF Inv
<1>2. Inv /\ [Next]_vars => Inv'
  BY BaseStep, CollectedStep, AloneStep DEF Inv
<1> QED
  BY <1>1, <1>2, PTL DEF Spec

\* Type correctness: what each call holds at each step of ingest_resume, its siblings
\* and embed_text.
THEOREM TypeCorrect == Spec => []TypeOK
<1>1. Inv => TypeOK
  BY DEF Inv, Base
<1> QED
  BY <1>1, Invariance, PTL

\* Whatever the calls cache, lose to expiry, take out of order or store by half, a
\* cached vector is that of its key's text and a point's vector that of its text.
THEOREM VectorsAreTheirTexts == Spec => []VectorsMatchTexts
<1>1. Inv => VectorsMatchTexts
  BY DEF Inv
<1> QED
  BY <1>1, Invariance, PTL

\* After a call that succeeded and ran alone on its document, each word of each part is
\* in a point of its part, and the points of the document are those its row records: for
\* every chunk size, overlap, batch size and document.
THEOREM LatestIsFound == Spec => []LatestIsSearchable
<1>1. Inv => LatestIsSearchable
  BY LatestSearchable DEF Inv
<1> QED
  BY <1>1, Invariance, PTL
=============================================================================
