SPECIFICATION Spec
CONSTANTS
    Chats = {c1, c2}
    Talkers = {c1}
    Uploaders = {c2}
    Contexts = {"x"}
    Clusters = {"A", "B", "L"}
    Uploads <- BothUploads
    LocalConfig <- TheLocalConfig
    LocalContext = "x"
    Nowhere = nowhere
    NoFile = nofile
    NoTarget = notarget
    NoPath = nopath
    NoRequest = norequest
    Handlers = {h1, h2}
    MaxLogins = 3
    MaxLinks = 2
    Limit <- Limits
    Window <- Windows
    MaxBuckets = 1
    LinkTtl = 2
    MaxAccountNow = 2
    MaxPasswords = 2
    Previews = {"p1", "p2", "p3"}
    Openers = {o1, o2}
    BranchOf <- Branches
    PrCap = 1
    MaxPushes = 1
    NoPreview = nopreview
    NoPull = nopull
    Maps = {m1, m2}
    Scalars = {v1, v2}
    FieldNames = {"a", "b"}
    Root = root
    NoNode = nonode
    Emitters = {e1, e2}
    MaxEvents = 4
    MaxAuditNow = 2
    NoEmitter = noemitter
    NoHash = nohash
CHECK_DEADLOCK FALSE
INVARIANTS
    CommandsHitTheChoice
    AccountsHold
    ManifestsHold
    TrailHolds
PROPERTIES
    PruneKeepsReferenced
