SPECIFICATION PartsSpec
CONSTANTS
  p1 = p1
  p2 = p2
  m1 = m1
  m2 = m2
  NoOne = NoOne
  Proc = {p1, p2, p3}
  MaxCrashes = 2
  Artifact = {m1, m2, m3}
  MaxArtifact = 2
  MaxTotal = 4
  MaxUpload = 1
  MaxSource = 3
  Message = {m1, m2}
  Gateway = {p1, p2}
  Home <- HomeOf
  MaxBytes = 2
  MaxParts = 2
  MaxDeltas = 3
  MaxPartials = 4
  MaxStops = 2
  Questions <- CodexQuestions
  Dialogs <- PiDialogs
  Offers <- HostRequests
  Presses <- CardEvents
  Typed <- HumanTexts
  MaxText = 100
  MaxPresses = 1
  MaxFaults = 2
INVARIANTS
  PartsTypeOK
  OneOwnerUnlessBlind
  MediaKept
  RepliesClose
  AnswersAreMeant
PROPERTIES
  NoFalseConflict
CHECK_DEADLOCK FALSE
