SPECIFICATION Spec
CONSTANTS
  a = a
  a2 = a2
  b = b
  c = c
  d = d
  p = p
  x = x
  y = y
  chat = chat
  pair = pair
  m1 = m1
  m2 = m2
  m3 = m3
  e = e
  r1 = r1
  r2 = r2
  None = None
  BootRun = BootRun
  Fresh = Fresh
  User = User
  Specs = {m1, m2, m3, None}
  Default = None
  Broken = {m3}
  Flows <- MCFlows
  Binaries <- MCBinaries
  Wants <- MCWants
  MaxTriggerDepth = 2
  MaxPasses = 2
  MaxFaults = 1
INVARIANTS RequestTypeOK StreamedAsAnswered StartupChecksHold AnsweredByItself LineageBounded
PROPERTIES ImplementsTranscript 
CHECK_DEADLOCK FALSE
