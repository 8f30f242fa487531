SPECIFICATION FairSpec
CONSTANTS
    root_w = 16
    root_h = 16
    gw = 9
    gh = 0
    gx = 0
    gy = 0
    gx_negative = TRUE
    gy_negative = FALSE
    show_sticky = TRUE
    allow_cover = FALSE
    show_popups = FALSE
    Windows = {}
    NoWindow = NoWindow
    NoClient = NoClient
    Clients <- NoClients
    Layouts <- OddLayouts
    DesktopLimit = 3
    OwnSizes <- NoSizes
    Kinds <- OnlyLayout
    Points <- NoSizes
    Buttons = {}
    MaxChanges = 3
    MaxInputs = 0
    MaxRequests = 4
CHECK_DEADLOCK FALSE
INVARIANTS
    Alive
PROPERTIES
    LayoutSettles
    ExchangeEnds
