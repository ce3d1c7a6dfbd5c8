SPECIFICATION Spec
CONSTANTS
    Ids = {i1, i2}
    Incidents = {c1, c2}
    Alerts = {a1, a2}
    Workloads = {web}
    Workload = web
    WorkloadOf <- MCWorkloadOf
    Manual = Manual
    None = None
    DedupWindow = 1
    CorrelationWindow = 1
    IncidentLifetime = 2
    Faults = TRUE
    MaxCount = 2
    MaxRestarts = 1
SYMMETRY Symmetry
INVARIANTS
    RowsAreTracked
    IncidentsHold
PROPERTIES
    IngestFieldsKept
