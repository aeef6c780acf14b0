-------------------------- MODULE AnswerGeneration --------------------------
(***************************************************************************)
(* What the answer agent makes of one reply of the language model.  A reply *)
(* is a record whose kind is "garbage" (not JSON), "refusal", "odd" (JSON   *)
(* the agent cannot read: it raises) or "answer": whether its text is blank, *)
(* its words of four letters or more, its figures, and the source it claims. *)
(* A figure is a percentage, an amount in dollars or a year, with its digits. *)
(* Confidence is in thousandths.                                            *)
(***************************************************************************)
EXTENDS Retrieval

Sources == {"template", "resume", "past_answer", "ai_generated"}

Refusal ==
    [refused |-> TRUE, figures |-> {}, confidence |-> 0, source |-> "ai_generated",
     trail |-> <<>>, flagged |-> FALSE]

-----------------------------------------------------------------------------
(* _compute_confidence                                                      *)

ScoreSum(chunks) ==
    LET ranked == Ranked(chunks) IN FoldLeft(+, 0, [n \in DOMAIN ranked |-> ranked[n].score])

\* Source diversity: 1, 2, 3 or 4 kinds of source.
Diversity == <<100, 200, 270, 300>>

Round(num, den) == (2 * num + den) \div (2 * den)

\* Coverage, diversity and grounding, over the common denominator n * w.
ComputeConfidence(context, reply) ==
    LET words    == reply.words
        chunks   == AllChunks(context)
        n        == Cardinality(chunks)
        kinds    == {c.point.collection : c \in chunks}
        known    == UNION {c.point.words : c \in chunks}
        matched  == Cardinality({i \in DOMAIN words : words[i] \in known})
        w        == Max({1, Len(words)})
        coverage == Min({400 * n, 3 * ScoreSum(chunks) + 10 * n * Min({n, 10})})
        grounded == CASE reply.blank -> 0
                      [] ~ reply.blank /\ words = <<>> -> 150 * n * w
                      [] OTHER -> 300 * n * matched
        total    == coverage * w + Diversity[Cardinality(kinds)] * n * w + grounded
    IN Min({1000, Round(total, n * w)})

-----------------------------------------------------------------------------
(* _detect_hallucination                                                    *)

Occurs(part, digits) ==
    \E i \in 0..(Len(digits) - Len(part)) : SubSeq(digits, i + 1, i + Len(part)) = part

\* The text of the context is searched for the figure as a string: 47% is found
\* in 147%, $40 in $400, and of a year the pattern's group keeps the century.
InText(figure, text) ==
    \E f \in text :
        CASE figure.kind = "percent" -> f.kind = "percent" /\ IsSuffix(figure.digits, f.digits)
          [] figure.kind = "dollar"  -> f.kind = "dollar" /\ IsPrefix(figure.digits, f.digits)
          [] figure.kind = "year"    -> Occurs(SubSeq(figure.digits, 1, 2), f.digits)

Figures(context) == UNION {c.point.figures : c \in AllChunks(context)}

\* Mutant of DetectHallucination: a single figure that is found clears the answer.
DetectAllInvented(figures, context) ==
    figures # {} /\ \A f \in figures : ~ InText(f, Figures(context))

DetectHallucination(figures, context) ==
    \E f \in figures : ~ InText(f, Figures(context))

-----------------------------------------------------------------------------
(* generate, for a context that is not empty                                *)

TrailLength == 8

\* Mutant of Answered: the penalty is not bounded below.
AnsweredUnbounded(context, reply) ==
    LET flagged == DetectHallucination(reply.figures, context)
        earned  == ComputeConfidence(context, reply)
    IN [refused    |-> FALSE,
        figures    |-> reply.figures,
        confidence |-> IF flagged THEN earned - 250 ELSE earned,
        source     |-> IF reply.source \in Sources THEN reply.source ELSE "ai_generated",
        trail      |-> FirstOf(TrailLength, Ranked(AllChunks(context))),
        flagged    |-> flagged]

Answered(context, reply) ==
    LET flagged == DetectHallucination(reply.figures, context)
        earned  == ComputeConfidence(context, reply)
    IN [refused    |-> FALSE,
        figures    |-> reply.figures,
        confidence |-> IF flagged THEN Max({0, earned - 250}) ELSE earned,
        source     |-> IF reply.source \in Sources THEN reply.source ELSE "ai_generated",
        trail      |-> FirstOf(TrailLength, Ranked(AllChunks(context))),
        flagged    |-> flagged]

Raises(reply) == reply.kind = "odd"

Generate(context, reply) ==
    IF reply.kind \in {"garbage", "refusal"} THEN Refusal ELSE Answered(context, reply)
=============================================================================
