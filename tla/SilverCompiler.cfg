\* A compilation ends with a refusal or with a spend that has run.
CONSTANTS
  Programs <- MCPrograms
  FirstSize = 100
  MaxRounds = 32
SPECIFICATION Spec
CHECK_DEADLOCK FALSE
INVARIANTS
  CompiledMeansSource
  PassesPreserveMeaning
  StateIsSpliceable
