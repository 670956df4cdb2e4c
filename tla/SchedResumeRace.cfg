SPECIFICATION Spec
CONSTANTS
    Schedules = {s1}
    Configs <- SkipOnly
    Messages = {m1}
    Servers = {p1}
    Admins = {a1, a2}
    None = None
    MaxTime = 0
    Window = 0
    FutureSkew = 0
    MaxVersions = 2
PROPERTIES ActivatedVersionIsForecast
