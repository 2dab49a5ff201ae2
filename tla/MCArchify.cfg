SPECIFICATION ArchifySpec
CONSTANTS
  Checks = {c1}
  Acks = {a1}
  EventOf <- MCEventOf
  Digests = {"d1", "d2"}
  Newer = {"d1", "d2"}
  None = None
  MaxGen = 3
  MaxLapsed = 1
  Attempts = 2
  Rounds = 1
  Capacity = 2
  SuccessDelays = {1}
  FirstFailureDelay = 1
  LaterFailureDelay = 2
  Horizon = 2
  NowOf <- MCNowOf
  c1 = c1
  Contents = {"a", "b", "bad", "missing"}
  Missing = "missing"
  ArtifactOf <- MCArtifactOf
  Foreign = "other"
  Nothing = "nothing"
  Jobs = {"d1", "d2", "cmp", "mig", "val"}
  KindOf <- MCKindOf
  InputsOf <- MCInputsOf
  TargetsOf <- MCTargetsOf
  Teams <- MCTeams
  Texts = {"a", "crude"}
  Rendered = {"a", "crude"}
  Sound = {"a"}
  Views <- MCViews
  Versions = 2
  SamplesOf <- MCSamplesOf
  FoldOf <- MCFold
  ExtensionOf <- MCExtension
  MaxLinks = 4
  LowerCase <- MCLowerCase
  IdentityOf <- MCIdentity
  FullRevisions = {"r"}
INVARIANTS OutputsSafe ShownIsTrue
PROPERTIES PicturesJudged DifferencesTold WorkflowsSound ProcessesEnd PreviewSettles
CHECK_DEADLOCK FALSE
