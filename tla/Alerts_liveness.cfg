SPECIFICATION FairSpec
CONSTANTS
    Ids = {i1, i2}
    Incidents = {c1, c2}
    Alerts = {a1, a2}
    Workloads = {web}
    Workload = web
    WorkloadOf <- MCWorkloadOf
    Manual = Manual
    None = None
    DedupWindow = 1
    CorrelationWindow = 0
    IncidentLifetime = 0
    Faults = FALSE
    MaxCount = 1
    MaxRestarts = 1
PROPERTIES
    AlertsSettle
