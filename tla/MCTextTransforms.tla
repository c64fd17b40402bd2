-------------------------- MODULE MCTextTransforms --------------------------
(* A text of four bytes, up to three findings anywhere in it, and a request *)
(* of each kind; or a text of four words, which is scanned.                 *)
EXTENDS TextTransforms

F(type, start, end) ==
  [type |-> type, start |-> start, end |-> end, size |-> IF end > start THEN end - start ELSE 0]

MCFindings ==
  {F(t, r[1], r[2]) : t \in {"email"}, r \in {<<0, 1>>, <<0, 4>>, <<1, 3>>, <<2, 3>>, <<3, 4>>, <<-1, 2>>, <<3, 6>>}}
    \cup {F("phone", r[1], r[2]) : r \in {<<0, 2>>, <<2, 4>>, <<1, 2>>, <<3, 1>>}}

MCInputs == UNION {[1..n -> MCFindings] : n \in 1..3}

MCTrim == [t \in {"email", " email", "phone"} |-> IF t = " email" THEN "email" ELSE t]

\* Lengths below, at and above those of the findings.
MCLength == [mask |-> 0, tokenize |-> 3, anonymize |-> 2, redact |-> 1, replace |-> 2, hash |-> 4]

J(kind, mode, modes, steps) == [kind |-> kind, mode |-> mode, modes |-> modes, plan |-> steps]

MCJobs == {
  J("transform", "", <<>>, <<>>),
  J("transform", "mask", <<>>, <<>>),
  J("transform", "", [t \in {"email", " email"} |-> IF t = "email" THEN "tokenize" ELSE "redact"], <<>>),
  J("anonymize", "", <<>>, <<>>),
  J("redact", "", <<>>, << <<"email", "mask">>, <<"phone", "hash">>, <<"email", "redact">> >>)}

MCScannedJobs == {
  J("anonymize", "", <<>>, <<>>),
  J("redact", "", <<>>, << <<"person", "mask">>, <<"location", "hash">> >>)}

\* "Mail" is a word with a capital that a pattern matches.
MCWords == {"Anna", "Corp", "New", "Paris", "Mr.", "Mail", "in", "of", "!"}
MCTitles == {"Anna", "Corp", "New", "Paris", "Mr.", "Mail"}
MCKnownPlaces == {<<"Paris">>, <<"New", "Paris">>}
MCPatterns == <<"email">>
MCMatches == [type \in {"email"} |-> {"Mail"}]
MCTexts == [1..4 -> MCWords]
=============================================================================
