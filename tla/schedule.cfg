CHECK_DEADLOCK FALSE
SPECIFICATION MCSpec
CONSTANTS
    First = m1
    Client = {c1, ticker}
    Ticker = ticker
    Screen = {s1}
    Mural = {m1, m2}
    Source = {}
    SceneId = {S1, S2}
    WallId = {w1}
    c1 = c1
    ticker = ticker
    s1 = s1
    m1 = m1
    m2 = m2
    S1 = S1
    S2 = S2
    w1 = w1
    NoMural = tray
    NoWall = own
    NoScene = nothing
    Dark = dark
    AdHoc = url
    LastCell = 0
    Ops = {"place", "unplace", "snapshot", "apply", "unsave", "fail"}
    Inputs = {"boundary", "switch", "restart"}
PROPERTIES SpeaksOncePerVerdict VerdictLandsUnlessFailed
