-------------------------- MODULE FormUnderstanding --------------------------
(***************************************************************************)
(* How the fields of a page are found and mapped to canonical keys: first   *)
(* by patterns, then by the language model for the fields no pattern        *)
(* matches.  An attribute is a sequence of words; a pattern stands for the  *)
(* words it matches, anywhere in a text or, when anchored, as all of it.    *)
(* A page is the signals found in its URL and head, and its input elements  *)
(* in order; confidence is in hundredths.                                   *)
(***************************************************************************)
EXTENDS Integers, SequencesExt

CONSTANTS
    CanonicalFieldMap,  \* the registry: a sequence of [key, ai, patterns]
    PlatformSignals,    \* a sequence of [signal, platform]
    Empty               \* no mapping, a missing value

FormUnknown == "unknown"
Skipped == {"hidden", "submit", "button", "reset", "image"}

-----------------------------------------------------------------------------
(* _extract_field_manifest                                                  *)

\* The explicit label, the wrapping one, or the text before the element.
LabelOf(el) ==
    LET explicit == IF el.id # <<>> THEN el.labelFor ELSE <<>>
        texts == SelectSeq(<<explicit, el.wrapping, el.preceding>>, LAMBDA t : t # <<>>)
    IN IF texts = <<>> THEN <<>> ELSE Head(texts)

\* A radio button or a check box offers the values of all those of its name.
OptionsOf(page, el) ==
    CASE el.type = "select" -> el.values
      [] el.type \in {"radio", "checkbox"} /\ el.name # <<>> ->
            UNION {e.values : e \in {e \in ToSet(page.elements) :
                e.name = el.name /\ e.type \notin {"select", "textarea"}}}
      [] OTHER -> {}

\* The elements a user can fill in.
Shown(page) ==
    FlattenSeq([i \in DOMAIN page.elements |->
        IF page.elements[i].type \in Skipped THEN <<>> ELSE <<page.elements[i]>>])

ExtractFieldManifest(page) ==
    LET shown == Shown(page) IN
    [i \in DOMAIN shown |->
        LET el == shown[i] IN
        [label |-> LabelOf(el), name |-> el.name, id |-> el.id,
         placeholder |-> el.placeholder, aria |-> el.aria, type |-> el.type,
         required |-> el.required, options |-> OptionsOf(page, el), order |-> i - 1]]

-----------------------------------------------------------------------------
(* _detect_platform: the first signal in the order of the list.             *)

DetectPlatform(page) ==
    LET seen == {i \in DOMAIN PlatformSignals : PlatformSignals[i].signal \in page.signals}
    IN IF seen = {} THEN FormUnknown ELSE PlatformSignals[Min(seen)].platform

-----------------------------------------------------------------------------
(* _heuristic_map                                                           *)

Finds(pattern, text) ==
    IF pattern.anchored THEN text = <<pattern.word>> ELSE pattern.word \in ToSet(text)

Haystack(raw) == raw.label \o raw.name \o raw.id \o raw.placeholder \o raw.aria

\* The score of the first of the key's patterns that matches at all, 0 without:
\* a later pattern that matches the label is not looked at.
KeyScore(entry, raw) ==
    LET hits == {i \in DOMAIN entry.patterns : Finds(entry.patterns[i], Haystack(raw))}
        pattern == entry.patterns[Min(hits)]
    IN IF hits = {} THEN 0
       ELSE IF Finds(pattern, raw.label) \/ Finds(pattern, raw.aria) THEN 92
       ELSE IF Finds(pattern, raw.name) THEN 85 ELSE 72

Mapping(key, ai, confidence) == [key |-> key, ai |-> ai, confidence |-> confidence]

\* The first key with the highest score.
HeuristicMap(raw) ==
    LET score == [i \in DOMAIN CanonicalFieldMap |-> KeyScore(CanonicalFieldMap[i], raw)]
        best  == Max({0} \cup {score[i] : i \in DOMAIN score})
        first == CanonicalFieldMap[Min({i \in DOMAIN score : score[i] = best})]
    IN IF best = 0 THEN Empty ELSE Mapping(first.key, first.ai, best)

HighConfidence == 72
Resolved(raw) == HeuristicMap(raw) # Empty /\ HeuristicMap(raw).confidence >= HighConfidence

Unresolved(page) == {raw \in ToSet(ExtractFieldManifest(page)) : ~ Resolved(raw)}

-----------------------------------------------------------------------------
(* _llm_classify_fields.  A reply is "garbage" (not JSON), "odd" (JSON of    *)
(* another shape: it raises) or "list", a sequence of items.                *)

ItemsFor(reply, order) ==
    IF reply.kind = "garbage" THEN {}
    ELSE {i \in DOMAIN reply.items : reply.items[i].order = order}

\* The last item about a field counts; a field without one is unknown.
Classified(reply, order) ==
    LET items == ItemsFor(reply, order) IN
    IF items = {} THEN Mapping(FormUnknown, FALSE, 30) ELSE reply.items[Max(items)].mapping

-----------------------------------------------------------------------------
(* understand                                                               *)

DetectedField(raw, mapping) == [raw |-> raw, mapping |-> mapping]

\* The schema of DetectedField refuses a null key and a confidence over 1:
\* one such item fails the page.
FormRaises(page, reply) ==
    \/ reply.kind = "odd"
    \/ \E raw \in Unresolved(page) :
           LET mapping == Classified(reply, raw.order) IN
           mapping.key = Empty \/ mapping.confidence \notin 0..100

\* Mutant of FieldsOf: the model's items are taken in the order it sent them.
FieldsInReplyOrder(page, reply) ==
    LET manifest == ExtractFieldManifest(page)
        before(raw) == Cardinality({r \in Unresolved(page) : r.order <= raw.order})
    IN [i \in DOMAIN manifest |->
           LET raw == manifest[i] IN
           DetectedField(raw,
               IF Resolved(raw) THEN HeuristicMap(raw)
               ELSE IF reply.kind = "list" /\ before(raw) <= Len(reply.items)
               THEN reply.items[before(raw)].mapping ELSE Mapping(FormUnknown, FALSE, 30))]

FieldsOf(page, reply) ==
    LET manifest == ExtractFieldManifest(page) IN
    [i \in DOMAIN manifest |->
        LET raw == manifest[i] IN
        DetectedField(raw, IF Resolved(raw) THEN HeuristicMap(raw)
                           ELSE Classified(reply, raw.order))]

\* The reply is Empty when every field was resolved without the model.
Understand(page, reply) ==
    LET fields == FieldsOf(page, reply)
        sum == FoldLeft(+, 0, [i \in DOMAIN fields |-> fields[i].mapping.confidence])
    IN [fields     |-> fields,
        platform   |-> DetectPlatform(page),
        aiRequired |-> Len(SelectSeq(fields, LAMBDA f : f.mapping.ai)),
        confidence |-> IF fields = <<>> THEN 0 ELSE sum \div Len(fields),
        warned     |-> fields = <<>>]
=============================================================================
