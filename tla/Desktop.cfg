SPECIFICATION Spec
CONSTANTS
    Savers = {s1, s2}
    Grants = {g1, g2}
    WriteGrants = {g1}
    Urls = {nourl, u1}
    NoUrl = nourl
    Corrupt = corrupt
    NoGrant = nogrant
    NoChange = nochange
    Alerts = {a1, a2}
    MaxQueued = 1
    MaxRemembered = 1
    Requests = {r1, r2}
    NoRequest = norequest
    Workers = {w1, w2}
    Tokens = {t1, t2}
    Sessions = {ss1}
    Contents = {c1, c2}
    Absent = absent
    Link = link
    NoToken = notoken
    MaxInvalid = 1
    MaxHidden = 1
    KeysCap = 1
INVARIANTS
    SharedStateIsSound
PROPERTIES
    StepsAreTold
    ShellServes
