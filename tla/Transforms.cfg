SPECIFICATION Spec
CONSTANTS
  N = 4
  Findings <- MCFindings
  Inputs <- MCInputs
  Jobs <- MCJobs
  Trim <- MCTrim
  Length <- MCLength
  Texts <- MCTexts
  ScannedJobs <- MCScannedJobs
  EntityTypes = {"email", "phone", "person", "organization", "location"}
  Words <- MCWords
  Blanks = {"!"}
  Titles <- MCTitles
  Connectors = {"of"}
  OrgSuffixes = {"Corp"}
  FirstNames = {"Anna"}
  PersonTriggers = {"Mr."}
  PlaceTriggers = {"in"}
  SentenceEnds = {"Mr.", "Corp"}
  KnownPlaces <- MCKnownPlaces
  Patterns <- MCPatterns
  Matches <- MCMatches
INVARIANTS InputKeepsOrder ReplacesExactly NamesAreApart FilterOnlyAdds
CHECK_DEADLOCK FALSE
