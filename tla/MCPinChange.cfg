CHECK_DEADLOCK FALSE
SPECIFICATION Spec
CONSTANTS
    Handlers = {h1}
    Pins = {pin1, pin2, pin3}
    None = None
    Layouts = {{"exe"}, {"cwd"}}
    MaxFaults = 4
    MaxCrashes = 2
INVARIANTS
    TypeOK
    NeverLost
    AgreeWhenIdle
    AckedMeansStored
    NoPlainText
