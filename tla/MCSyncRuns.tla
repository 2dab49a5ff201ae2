----------------------------- MODULE MCSyncRuns -----------------------------
(* Model values and symmetry for checking SyncRuns with TLC.               *)
EXTENDS SyncRuns, TLC

Symmetry == Permutations(RunIds) \cup Permutations(Workers)
              \cup Permutations(Sessions \ Workers)
              \cup Permutations(Keys) \cup Permutations(Hashes)
              \cup Permutations(EnabledSources)
=============================================================================
