SPECIFICATION HostSpec
CONSTANTS
    Urls = {u1, u2}
    TokenUrl = token
    NoUrl = none
    MaxLines = 2
    MaxPairs = 2
    MaxStarts = 3
    Requests = {r1, r2}
    Levels = {0, 3000, 4995, 8000}
    MaxQueue = 2
    RenderDevices = {media, headset}
    CaptureDevices = {mic}
    Channels = {media, mic}
    Preferred = media
    Jobs = {j1, j2}
    MaxRequests = 2
    MaxTicks = 1
    MaxDeaths = 1
INVARIANTS
    TypeOK
    UrlOfThisTunnel
    ServesUnlessTorn
    SingleThread
    CursorsBack
    SettingShown
    RefsBalanced
    FreshStatus
    TasksOwned
PROPERTIES
    QuitEnds
    KeepAlivesEnd
    BrightPrevails
    OnlyNamedDevice
CHECK_DEADLOCK FALSE
