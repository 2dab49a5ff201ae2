SPECIFICATION Spec
CONSTANTS
  Sources = {s1, s2}
  EnabledSources = {s1}
  RunIds = {r1, r2}
  Keys = {k1, k2}
  Hashes = {h1, h2}
  Resources = {}
  Sessions = {a1, a2, w1}
  Workers = {w1}
  None = None
  Lease = 1
  MaxLag = 1
  MaxTime = 2
  MaxTotal = 0
SYMMETRY Symmetry
INVARIANTS TypeOK OneActivePerSource CreateVerdictStillHolds
PROPERTIES FinishedRunsAreFinal AcceptedCancelHolds
