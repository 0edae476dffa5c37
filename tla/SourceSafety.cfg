CONSTANTS
    s1 = s1  s2 = s2  w1 = w1  c1 = c1  r1 = r1  None = None
    Session = {s1, s2}
    Indexable = {s1, s2}
    Workspace = {w1}
    Content = {c1}
    Revision = {r1}
    WorkspaceOf <- MCWorkspaceOf
    ContentOf <- MCContentOf
    RevisionOf <- MCRevisionOf
    KeyOf <- MCKeyOf
    FingerprintOf <- MCFingerprintOf
    Key <- MCKey
    Fingerprint <- MCFingerprint
    Batches <- MCBatches
    MaxInteger = 3
    MaxBatchDocuments = 2
    MaxEvents = 2
    MaxTroubles = 2
    MaxBuffered = 1
    MaxChunk = 2
SPECIFICATION Spec
INVARIANTS
    IndexIsPrefix
    LiveMeansCaughtUp
    WatermarkCommitted
PROPERTY MirrorsLogs
