SPECIFICATION FairSpec
CONSTANTS
  Sources = {s1, s2}
  EnabledSources = {s1}
  RunIds = {r1, r2}
  Keys = {k1}
  Hashes = {h1}
  Resources = {devices}
  Sessions = {a1, w1}
  Workers = {w1}
  None = None
  Lease = 1
  MaxLag = 0
  MaxTime = 2
  MaxTotal = 0
PROPERTIES QueuedRunIsTaken
