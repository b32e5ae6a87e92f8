CONSTANTS
    PageSize = 2
    MaxItems = 4
    origin = origin
    fork = fork
    Remotes = {origin, fork}
    Origin = origin
    t1 = t1
    t2 = t2
    v1 = v1
    Tags = {t1, t2, v1}
    KeptTags = {v1}
    GroupSize = 1
    c1 = c1
    c2 = c2
    Changes = {c1, c2}
    MaxRebases = 1
    Null = Null
SPECIFICATION MCSpec
INVARIANTS
    ExitZeroMeansDeleted
    PrunedTagsAccountedFor
    SyncedCommitsSurvive
PROPERTY
    PushDropsNothing
SYMMETRY SyncSymmetry
