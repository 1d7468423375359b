\* A source job, an evaluation without a cache context and one that two requests
\* share; two slots and a queue of one place.
CONSTANTS
    Sources = {s1}
    Evaluations = {d1, e1}
    Direct = {d1}
    Concurrency = 2
    MaxQueue = 1
    MaxOverloads = 1
    Requests = {1, 2}
    KeyOf <- SameKey
    MaxEntries = 1
    MaxEpoch = 1
    Nobody = Nobody
SPECIFICATION Spec
INVARIANTS PoolDiscipline EvaluationsHold
PROPERTIES InTime Drains
CHECK_DEADLOCK FALSE
