CHECK_DEADLOCK FALSE
SPECIFICATION Spec
CONSTANTS
    Handlers = {h1, h2}
    Pins = {pin1, pin2, pin3}
    None = None
    Layouts = {{"exe"}, {"cwd"}}
    MaxFaults = 0
    MaxCrashes = 0
INVARIANTS
    NeverLost
