SPECIFICATION StorySpec
CONSTANTS
    Screen = {s1, s2}
    Mural = {atrium, cafe}
    box = box
    First = atrium
    Lead = s1
    Machine <- MCMachine
    home <- MCHome
    NoMural = unplaced
    Events = {"boundary", "move", "manual", "drop", "reboot", "restart", "lose", "refuse"}
    MaxFrames = 2
INVARIANTS WallsNotStranded ConsoleHonest
PROPERTY HelloReconciles
