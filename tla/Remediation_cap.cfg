SPECIFICATION Spec
CONSTANTS
    Proposals = {p1, p2}
    Executors = {e1, e2}
    Actions = {restart}
    Namespaces = {prod}
    Clusters = {east}
    NoCluster = NoCluster
    None = None
    ApprovalTTL = 1
    Window = 0
    MaxPerWindow = 1
    MaxTime = 1
    MaxRestarts = 1
    MaxLosses = 1
INVARIANTS
    CapNeverExceeded
