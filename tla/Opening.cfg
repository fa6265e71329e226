CONSTANTS
  Dims = {0, 1, 2}
  Metrics = {cosine, euclidean}
  PqMetrics = {euclidean}
  Kinds = {"flat", "ivf", "ivf_pq"}
  Compressions = {"none", "zstd"}
  Compiled = {"none"}
  None = None
SPECIFICATION OpeningSpec
INVARIANTS OpenHandleSound FileOpens 
PROPERTY IdentityStable
