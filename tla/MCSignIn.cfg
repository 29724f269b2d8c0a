SPECIFICATION MCSpec
CONSTANTS
    Workers = {w1, w2}
    Tenants = {t1}
    Emails = {e1}
    Ips = {i1, i2}
    CaptchaEnabled = TRUE
    CaptchaThreshold = 1
    MAX_LOGIN_ATTEMPTS = 2
    MaxLogins = 4
    Users = {u1}
    MAX_REQUESTS_PER_HOUR = 2
    HOUR = 1
    MaxTokens = 4
    MaxChanges = 2
    MaxClock = 2
    g1 = g1
    h2 = h2
    h1 = h1
    anna = anna
    placeholder = placeholder
    k1 = k1
    Identities = {g1, h1, h2}
    Provider <- MCProvider
    Name <- MCName
    Mailed = {g1, h1}
    Nobody = Nobody
    MaxFlows = 2
    MaxLinks = 2
    MaxAccounts = 2
    Keys = {k1}
    Limit <- MCLimit
    WINDOW = 2
    MaxInstants = 4
    MaxAsked = 5
    Calls = {c1, c2}
    MaxRefresh = 4
    MaxFails = 1
    LockLife = 1
    Batch = 1
    MaxCodes = 2
    MaxTime = 2
    Ops = {"setup", "enable", "login", "regenerate", "disable", "recover"}
SYMMETRY Symmetry
CHECK_DEADLOCK FALSE
INVARIANTS
    ResetsConsistent
    OAuthConsistent
    RateConsistent
    BrowserConsistent
    NeverStranded
    GuessesBounded
    FactorConsistent
PROPERTIES
    FactorSteps
