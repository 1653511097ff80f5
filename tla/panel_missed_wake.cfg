SPECIFICATION SteadySpec
CONSTANTS
    Screen = {s1}
    Mural = {atrium}
    box = box
    Machine <- MCMachine
    home <- MCHome
    NoMural = unplaced
    Events = {"boundary", "drop"}
    MaxFrames = 1
INVARIANT NeverStrandedInHours
