SPECIFICATION Spec
CONSTANTS
  Provider = {"deepseek", "openai", "anthropic"}
  MaxAttempts = 3
  MaxPieces = 7
INVARIANTS DraftIsAnswer CallsAreWhole
PROPERTIES NoSecondBill CallEnds
CHECK_DEADLOCK FALSE
