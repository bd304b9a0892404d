SPECIFICATION FairSpec
CONSTANTS
    Tracks = {t1}
    MaxMisses = 1
    MinHits = 2
    MinDuration = 1
    Cooldown = 2
    GcTtl = 2
    Events = {{o1}, {o2, o3}}
    AutoClear = {o1}
    ClearCooldown = 1
    MaxIncidents = 2
INVARIANTS
    TypeOK
    NewsUnacked
PROPERTIES
    AlertsSpaced
    ActiveStays
    ReturningContactSeen
    GoneKeysForgotten
