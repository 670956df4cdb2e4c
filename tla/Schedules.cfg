SPECIFICATION PartySpec
CONSTANTS
    Schedules = {s1, s2}
    Configs <- SkipAndCancel
    Messages = {m1, m2}
    Servers = {p1, p2}
    Admins = {a1, a2}
    None = None
    MaxTime = 1
    Window = 0
    FutureSkew = 1
    MaxVersions = 3
SYMMETRY PartySymmetry
INVARIANTS TypeOK OverlapOnlyByPolicy LinearHistory OneRunPerMessage
PROPERTIES RunsPinTheirVersion SerialDeletionIsTerminal
