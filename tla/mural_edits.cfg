CHECK_DEADLOCK FALSE
SPECIFICATION MCSpec
CONSTANTS
    c1 = c1
    c2 = c2
    s1 = s1
    s2 = s2
    s3 = s3
    m1 = m1
    m2 = m2
    S1 = S1
    S2 = S2
    w1 = w1
    w2 = w2
    Client = {c1}
    Mural = {m1}
    Screen = {s1, s2, s3}
    SceneId = {S1}
    Source = {a}
    WallId = {w1, w2}
    LastCell = 2
    Ops = {}
    Stories <- EditStories
    a = a
    NoMural = tray
    NoWall = own
    NoScene = nothing
    Dark = dark
    AdHoc = url
INVARIANTS LayoutIntact BadgeHonest ApplyLandsScene SpanMatchesEdits WallWhole
SYMMETRY Screens
