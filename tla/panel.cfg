SPECIFICATION Spec
CONSTANTS
    Screen = {s1}
    Mural = {atrium, cafe}
    box = box
    Machine <- MCMachine
    home <- MCHome
    NoMural = unplaced
    Events = {"boundary", "move", "manual", "drop", "halfopen", "hotplug", "reboot", "restart", "lose", "refuse"}
    MaxFrames = 1
INVARIANTS TypeOK AsleepOnlyOnline
PROPERTY OverrideHolds
