SPECIFICATION Spec
CONSTANTS
  Questionnaires <- MCQuestionnaires
  MaxPatch = 1
INVARIANT DecidedAsLaw
INVARIANT WarnedDropsAll
PROPERTY ExemptionKept
