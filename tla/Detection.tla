------------------------------ MODULE Detection ------------------------------
(***************************************************************************)
(* scan.ScanText: what is detected in a text, by the patterns of           *)
(* detector.go and by the name recognition of ner.go, under the filter of  *)
(* filters.go.                                                             *)
(*                                                                         *)
(* A text is a sequence of words, each of which stands for a byte of the   *)
(* text.  A word is told from another by the lists it is in; which words a *)
(* pattern matches and its validator accepts is a constant.                *)
(***************************************************************************)
EXTENDS Integers, FiniteSets, SequencesExt

CONSTANTS
  EntityTypes,    \* their names
  Words,
  Blanks,         \* nothing is left of them when punctuation is trimmed
  Titles,         \* start with a capital letter
  Connectors, OrgSuffixes, FirstNames, PersonTriggers, PlaceTriggers,
  SentenceEnds,   \* end with a full stop, abbreviations among them
  KnownPlaces,    \* sequences of words
  Patterns,       \* the types that have a pattern, in the order of the scan
  Matches         \* type -> the words that its pattern matches

NameTypes == {"person", "organization", "location"}

ASSUME WordsAssumption ==
  /\ UNION {Blanks, Titles, Connectors, OrgSuffixes, FirstNames, PersonTriggers, PlaceTriggers, SentenceEnds} \subseteq Words
  /\ Matches \in [Range(Patterns) -> SUBSET Words]
\* No pattern reports a type that the name recognition reports.
ASSUME PatternsAssumption ==
  /\ NameTypes \subseteq EntityTypes /\ Patterns \in Seq(EntityTypes)
  /\ Range(Patterns) \cap NameTypes = {}

Finding(type, from, to) == [type |-> type, start |-> from - 1, end |-> to, size |-> to - from + 1]

\* Mutant: a filter for locations only does not start the name recognition.
WantedTwo(filter) ==
  IF filter = {} THEN NameTypes
  ELSE IF filter \cap {"person", "organization"} = {} THEN {} ELSE filter \cap NameTypes

\* No filter, or one of blanks only, asks for every type.
Wanted(filter) == IF filter = {} THEN NameTypes ELSE filter \cap NameTypes

-----------------------------------------------------------------------------
(* Names.  They are looked for in the tokens of a text. *)

\* tokenize: a token is a word and its place.
Tokens(text) ==
  FlattenSeq([i \in DOMAIN text |->
    IF text[i] \in Blanks THEN <<>> ELSE << [text |-> text[i], at |-> i] >>])

\* A name goes on with a capital, or with a connector in front of one.
GoesOn(tokens, k) ==
  /\ k <= Len(tokens)
  /\ \/ tokens[k].text \in Titles
     \/ tokens[k].text \in Connectors /\ k < Len(tokens) /\ tokens[k + 1].text \in Titles

\* The span that starts at k ends at the last token it goes on to.
SpanEnd(tokens, k) ==
  CHOOSE e \in k..Len(tokens) : ~GoesOn(tokens, e + 1) /\ \A j \in (k + 1)..e : GoesOn(tokens, j)

Follows(tokens, k, list) == k > 1 /\ tokens[k - 1].text \in list

IsOrganization(tokens, k) == tokens[SpanEnd(tokens, k)].text \in OrgSuffixes

IsPerson(tokens, k) ==
  \/ Follows(tokens, k, PersonTriggers)
  \/ SpanEnd(tokens, k) > k /\ tokens[k].text \in FirstNames

\* The dictionary is asked for the text of the span, blanks included.
IsLocation(text, tokens, k) ==
  \/ SubSeq(text, tokens[k].at, tokens[SpanEnd(tokens, k)].at) \in KnownPlaces
  \/ Follows(tokens, k, PlaceTriggers)

Heuristics == <<"organization", "person", "location">>

\* The heuristics of the types asked for that apply; only a word with a capital
\* starts a name.
Classes(text, tokens, k, wanted) ==
  {c \in DOMAIN Heuristics :
     /\ tokens[k].text \in Titles /\ Heuristics[c] \in wanted
     /\ CASE Heuristics[c] = "organization" -> IsOrganization(tokens, k)
          [] Heuristics[c] = "person"       -> IsPerson(tokens, k)
          [] Heuristics[c] = "location"     -> IsLocation(text, tokens, k)}

\* The first word of a sentence is not taken for a part of an organization's name.
NameStart(tokens, k, type) ==
  IF /\ type = "organization" /\ SpanEnd(tokens, k) > k
     /\ k = 1 \/ Follows(tokens, k, SentenceEnds)
     /\ tokens[k].text \notin FirstNames \cup OrgSuffixes
    THEN k + 1 ELSE k

\* The first heuristic that applies gives the type.
Name(text, tokens, k, wanted) ==
  LET type == Heuristics[Min(Classes(text, tokens, k, wanted))] IN
  Finding(type, tokens[NameStart(tokens, k, type)].at, tokens[SpanEnd(tokens, k)].at)

\* Mutant: the rest of a name is looked at again.
ScanNamesAgain(text, wanted) ==
  LET tokens == Tokens(text)
      from[k \in 1..(Len(tokens) + 1)] ==
        IF k > Len(tokens) THEN <<>>
        ELSE IF Classes(text, tokens, k, wanted) = {} THEN from[k + 1]
        ELSE <<Name(text, tokens, k, wanted)>> \o from[k + 1]
  IN from[1]

\* scanNERWithFilter, from the first token on: a span that has a class is
\* reported and passed over whole, one without is tried again from its second word.
ScanNames(text, wanted) ==
  LET tokens == Tokens(text)
      from[k \in 1..(Len(tokens) + 1)] ==
        IF k > Len(tokens) THEN <<>>
        ELSE IF Classes(text, tokens, k, wanted) = {} THEN from[k + 1]
        ELSE <<Name(text, tokens, k, wanted)>> \o from[SpanEnd(tokens, k) + 1]
  IN from[1]

-----------------------------------------------------------------------------
(* ScanText *)

\* The types asked for one after the other, the matches of each from left to right.
ScanPatterns(text, filter) ==
  LET matches(type) ==
        FlattenSeq([i \in DOMAIN text |->
          IF text[i] \in Matches[type] THEN <<Finding(type, i, i)>> ELSE <<>>])
  IN FlattenSeq([n \in DOMAIN Patterns |->
       IF filter = {} \/ Patterns[n] \in filter THEN matches(Patterns[n]) ELSE <<>>])

ScanText(text, filter) == ScanPatterns(text, filter) \o ScanNames(text, Wanted(filter))
=============================================================================
