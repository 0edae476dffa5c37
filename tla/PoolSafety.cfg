CONSTANTS
    c1 = c1  c2 = c2  c3 = c3  i1 = i1  i2 = i2  w1 = w1  w2 = w2  k1 = k1  k2 = k2  None = None
    Request = {c1, c3}
    RequestId = {i1, i2}
    Worker = {w1, w2}
    Connection = {w1, w2}
    Canceller = {k1}
    QueueCapacity = 1
    RegistryBound = 3
    Grace = 1
    Statements = 1
    MaxTime = 4
    IdOf <- MCIdOf
    Deadline <- MCDeadline
    Process <- MCProcess
SPECIFICATION Spec
INVARIANTS
    PoolTypeOK
    InterruptHitsItsRequest
    OneFinisher
    RegistryIsExact
PROPERTIES
    KeepsPromise
