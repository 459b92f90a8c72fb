SPECIFICATION PhoneSpec
CONSTANTS
    Pings = {ping}
    Fetches = {1, 2}
    Toggle = toggle
    Logout = logout
    MaxTokens = 1
    MaxCommands = 1
    MaxTrouble = 1
INVARIANTS
    PhoneTypeOK
PROPERTIES
    CardConverges
    IndicatorConverges
    LoggedOutStopsPolling
CHECK_DEADLOCK FALSE
