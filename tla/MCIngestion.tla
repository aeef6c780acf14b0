---------------------------- MODULE MCIngestion ----------------------------
(* Instances of Ingestion for TLC: a document of each kind, windows of three  *)
(* tokens that overlap by one.                                               *)
EXTENDS Ingestion, TLC

\* The second parse has longer and fewer sections; its experience is longer
\* than one window, and one entry is empty.
MCContents ==
    [resume |->
        {[kind |-> "resume", summary |-> <<>>, skills |-> <<"tla">>,
          experience |-> <<<<"dev">>, <<"ops">>>>, education |-> <<>>, projects |-> <<>>,
          coding_profiles |-> <<>>, certifications |-> <<>>, contact |-> <<"mail">>],
         [kind |-> "resume", summary |-> <<"dev">>, skills |-> <<>>,
          experience |-> <<<<"dev", " ", "at", "site">>>>, education |-> <<<<>>>>,
          projects |-> <<<<"tla">>>>, coding_profiles |-> <<"site">>,
          certifications |-> <<"ops">>, contact |-> <<>>]},
     template |->
        {[kind |-> "template", answers |-> <<
            [key |-> "why_us", type |-> "text", value |-> <<"ops", " ", "dev">>],
            [key |-> "notice", type |-> "text", value |-> <<"now">>],
            [key |-> "custom_qa", type |-> "list", value |->
                <<[question |-> <<"how">>, answer |-> <<"ops">>],
                  [question |-> <<"who">>, answer |-> <<>>],
                  [question |-> <<"why">>, answer |-> <<"dev">>]>>]>>],
         [kind |-> "template", answers |-> <<>>]},
     answer |->
        {[kind |-> "answer", field |-> "why_us", source |-> "user", label |-> "why",
          text |-> <<"dev", "ops", "tla">>],
         [kind |-> "answer", field |-> "why_us", source |-> "ai", label |-> "why",
          text |-> <<"dev">>],
         [kind |-> "answer", field |-> "", source |-> "ai", label |-> "why", text |-> <<" ">>]},
     job |->
        {[kind |-> "job", company |-> "c", role |-> "r", text |-> <<"dev", " ", "ops", " ">>],
         [kind |-> "job", company |-> "c", role |-> "r", text |-> <<"dev", " ", " ", " ", " ">>]}]

MCTokens == Headings \cup {"why_us", "notice", "custom_qa", "why", "who", "how", "now",
                           "dev", "ops", "tla", "at", "site", "mail", " "}

\* The loop of chunk_text, window by window.
Loop(total) ==
    LET from[start \in Nat] ==
            IF start >= total THEN <<>>
            ELSE <<Window(start, total)>> \o from[start + Advance]
    IN from[0]

ASSUME WindowsAreTheLoop == \A total \in 0..12 : Windows(total) = Loop(total)

\* Words of the resume, of the answer and of the question.
MCExpiring == {<<"experience", "dev">>, <<"dev", "ops">>}

MCQuestions == {<<"dev", " ", "ops">>, <<" ">>}
=============================================================================
