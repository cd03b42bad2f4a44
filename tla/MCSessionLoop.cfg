SPECIFICATION Spec
CONSTANTS
  max_model_rounds = 4
  max_tool_calls = 3
  max_result_bytes = 3
  final_synthesis_rounds = 2
  max_repeated_tool_batches = 2
  max_total_input_tokens = 26
  final_input_token_reserve = 9
  max_total_output_tokens = 6
  final_output_token_reserve = 2
  max_output_tokens = 2
  max_attempts = 2
  InputBudget = 16
  Sessions <- OneSession
  ToolCalling = {TRUE, FALSE}
  Limits = {14, 60}
  Stalls = {0, 4}
  MaxTries = 3
  MaxItems = 7
  None = None
INVARIANTS FusesHold ReserveKept PermissionHeld SlicesGoOn StallsEnd
CHECK_DEADLOCK FALSE
