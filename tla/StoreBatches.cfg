CONSTANTS
    s1 = s1  s2 = s2  w1 = w1  w2 = w2  c1 = c1  c2 = c2  r1 = r1  r2 = r2
    k1 = k1  k2 = k2  k3 = k3  f1 = f1  f2 = f2
    Session = {s1, s2}
    Workspace = {w1, w2}
    Content = {c1, c2}
    Revision = {r1, r2}
    Key = {k1, k2, k3}
    Fingerprint = {f1, f2}
    MaxInteger = 3
    MaxBatchDocuments = 3
    Batches <- MCBatches
SYMMETRY KeySymmetry
SPECIFICATION StoreSpec
INVARIANTS
    StoreTypeOK
    CursorCountsDocuments
    AcceptedBatchReplays
    GenerationsOrderWatermarks
PROPERTY AppendOnly
