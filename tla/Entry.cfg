\* Accounts, set-ups with two tabs per user, and Quick Demo sessions for one slot.
CONSTANTS
    Users = {u1, u2}
    Readers = {t1}
    MaxSetups = 2
    MaxKeys = 2
    MaxPosts = 2
    MaxPlans = 2
    Emails = {e1, e2}
    Subjects = {s1, s2}
    Browsers = {b1, b2}
    MaxUsers = 3
    MaxGithub = 1
    _LOGIN_MAX_ATTEMPTS = 1
    MaxSessions = 3
    MaxSlots = 1
    Workers = {w1, w2}
    Steps = 2
    StaleWrites = FALSE
    MaxClaims = 3
    MaxLooks = 1
SYMMETRY Symmetry
SPECIFICATION Spec
INVARIANT SubdomainsDistinct
INVARIANT OrderWithinPlan
INVARIANT IdentityIsOwn
PROPERTY KeepsPromise
CHECK_DEADLOCK FALSE
