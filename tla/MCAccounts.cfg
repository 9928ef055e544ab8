SPECIFICATION Spec
CONSTANTS
    Emails = {e}
    Codes = {c1, c2}
    Users = {u1, u2}
    Tenants = {t1, t2, t3}
    Links = {l1, l2}
    Sessions = {s1, s2}
    Browsers = {b1, b2}
    None = None
    LinkLimit = 1
    MaxRequests = 5
SYMMETRY Symmetry
INVARIANTS
    TypeOK
    OneUserPerEmail
    OneSessionPerLink
    LimitHolds
    AccountAddedToOne
    SessionsAllowed
