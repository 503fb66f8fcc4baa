SPECIFICATION FairSpec
CONSTANTS
  Ids = {a, b, c}
  Stages <- MCStages
  Blueprints <- MCBlueprints
  Values <- MCValues
  Phase = "oobe"
  NoId = NoId
  NoAnswers = NoAnswers
  OldAnswers = OldAnswers
  Cap = 3
  Room = 3
  MaxWidgets = 2
  MaxSecrets = 2
  LogLines = 5
  MaxSays = 1
  SaveMayFail = FALSE
  StartMayFail = TRUE
CHECK_DEADLOCK FALSE
INVARIANTS RequirementsFirst DropsOnlyStuck AnsweredSoFar SecretsStayOut AppliesWhatWasConfirmed VerdictIsTrue
PROPERTIES EveryApplyEnds
