SPECIFICATION MCSpec
CONSTANTS
    Workers = {w1, w2}
    Tenants = {t1}
    Addresses = {a1, a2}
    Anonymous = Anonymous
    MaxUsers = 2
    ra = ra
    rr = rr
    Scopes = {ra, rr}
    AdminOf <- MCAdminOf
    MaxKeys = 2
    Limit = 1
    Global = Global
    RoleCodes = {c1}
    Permissions = {p1}
    Members = {m1}
    MaxRoles = 2
    FirstAlgorithm = "bcrypt"
    MaxPasswords = 3
    MaxOpened = 2
SYMMETRY Symmetry
CHECK_DEADLOCK FALSE
INVARIANTS
    AccountsConsistent
    CredentialsConsistent
    KeysConsistent
    RolesConsistent
