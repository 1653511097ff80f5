CHECK_DEADLOCK FALSE
SPECIFICATION MCSpec
CONSTANTS
    c1 = c1
    c2 = c2
    s1 = s1
    s2 = s2
    s3 = s3
    m1 = m1
    m2 = m2
    S1 = S1
    S2 = S2
    w1 = w1
    w2 = w2
    Client = {c1, c2}
    Mural = {m1, m2}
    Screen = {s1, s2}
    SceneId = {S1, S2}
    Source = {}
    WallId = {w1, w2}
    LastCell = 0
    Ops = {}
    Stories <- RaceStories
    a = a
    NoMural = tray
    NoWall = own
    NoScene = nothing
    Dark = dark
    AdHoc = url
INVARIANTS BadgeHonestRaces ExclusiveMembership
PROPERTIES BadgeOnlyWhenDiverged FenceLifted
