SPECIFICATION FairStartSpec
CONSTANTS
    root_w = 16
    root_h = 16
    gw = 9
    gh = 0
    gx = 0
    gy = 0
    gx_negative = TRUE
    gy_negative = FALSE
    show_sticky = TRUE
    allow_cover = FALSE
    show_popups = FALSE
    Windows = {w1}
    NoWindow = NoWindow
    NoClient = NoClient
    Clients <- RolledUp
    Layouts <- StartLayouts
    DesktopLimit = 10
    OwnSizes <- NoSizes
    Kinds <- StartKinds
    Points <- NoSizes
    Buttons = {}
    MaxChanges = 2
    MaxInputs = 0
    MaxRequests = 3
    WM_WAIT = 2
    MaxCells = 2
    GridOptions <- SmallGridOptions
CHECK_DEADLOCK FALSE
INVARIANTS
    StartTypeOK
    ConfiguredGridKept
PROPERTIES
    StartEnds
    WaitsItsTime
    ConfiguredGridGranted
    SettlesFromStart
