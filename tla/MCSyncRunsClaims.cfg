SPECIFICATION Spec
CONSTANTS
  Sources = {s1}
  EnabledSources = {s1}
  RunIds = {r1, r2}
  Keys = {k1}
  Hashes = {h1}
  Resources = {devices, uplinks}
  Sessions = {a1, w1, w2}
  Workers = {w1, w2}
  None = None
  Lease = 2
  MaxLag = 1
  MaxTime = 2
  MaxTotal = 2
SYMMETRY Symmetry
INVARIANTS CompletionAgrees
PROPERTIES RunsFollowLifecycle  ExpirySparesLiveRuns CursorTakenFromFinishedRun CursorNeverRegresses
