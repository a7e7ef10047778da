SPECIFICATION Spec
CONSTANTS
  None = None
  Formats = {"openai", "anthropic"}
  Unnamed = {"openai"}
  Own = {"sensor", "lamp"}
  Forwarded = {"door"}
  Says <- MCSays
  Rounds = 2
  MaxAsks = 3
  MaxRequests = 3
  MaxFaults = 2
INVARIANTS
  ToolsTypeOK
  AsksAreLegal
  SettledOnce
  SentAsAnswered
CHECK_DEADLOCK FALSE
