SPECIFICATION Spec
CONSTANTS
    Requests = {r1, r2}
    Users = {ann, bob}
    SessionIds = {s1, s2}
    Pats = {t1}
    SessionLifetime = 3
    TouchInterval = 2
    APITokenLifetime = 2
    Horizon = 3
    Nobody = Nobody
    NoCookie = NoCookie
    Keep = Keep
SYMMETRY Symmetry
INVARIANTS
    RevokedStaysRevoked
    UsedSessionsLast
PROPERTIES
    CredentialsLapse
    NothingLiveIsLost
