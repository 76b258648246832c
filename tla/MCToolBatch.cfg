CONSTANTS
  Tools <- MCTools
  Kind <- MCKind
  Keys = {"bash:git", "edit:f", "plan_update"}
  Batches <- MCBatches
  Settings <- MCSettings
  Queue = 1
  MaxLength = 3
  None = None
SPECIFICATION MCSpec
CHECK_DEADLOCK FALSE
INVARIANTS
  RunsWhenAllowed
  PromptIsFit
PROPERTIES
  BatchIsAnswered
