CONSTANTS
  NONE = NONE
  Leaves <- MCLeaves
  Published <- MCPublished
  ShortSha <- MCShortSha
  Rules <- MCRules
  Declarations <- MCDeclarations
  Gaps <- MCGaps
  Producers <- MCProducers
  Texts <- MCTexts
  MaxDay = 2
  MaxAge = 2
SPECIFICATION Spec
INVARIANTS JudgedAgainstThePin NoSilentLoss NothingForgivenPastItsDate EveryTextAnswered
PROPERTIES RedIsNotTakenBack StaleIsTold
