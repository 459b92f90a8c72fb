SPECIFICATION PhoneSpec
CONSTANTS
    Pings = {ping}
    Fetches = {1}
    Toggle = toggle
    Logout = logout
    MaxTokens = 1
    MaxCommands = 0
    MaxTrouble = 3
PROPERTY FailsOver
CHECK_DEADLOCK FALSE
