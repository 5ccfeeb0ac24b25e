SPECIFICATION Spec
CONSTANTS
  s1 = s1
  s2 = s2
  MaxOfS1 = 2
  NoOne = NoOne
  PiSession = {s1, s2}
  PiWorker = {w1}
  PiRuns <- Runs
  PiDialogs = 1
  PiFaults = 2
  CodexThread = {s1, s2}
  CodexRuns <- Runs
  CodexAsks = 2
  CodexFaults = 1
  AcpSession = {s1}
  AcpRuns <- RunsOfS1
  AcpAsks = 2
  AcpFaults = 2
  OpenClawSession = {s1}
  OpenClawRuns <- RunsOfS1
  OpenClawClients = 2
  OpenClawFaults = 1
  ClaudeRun = {s1, s2}
  ClaudeSession = {w1, s1}
  ClaudeLines = 3
  ClaudeBuffer = 1
  ClaudeFaults = 1
INVARIANTS
  TypeOK
  OwnWords
  NothingLeaks
  QuestionsHaveKeepers
PROPERTIES
  AnswersStayInTheirThread
CHECK_DEADLOCK FALSE
