SPECIFICATION Spec
CONSTANTS
  Questionnaires <- MCQuestionnaires
  MaxPatch = 1
PROPERTY ExemptionFinal
