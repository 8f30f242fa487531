SPECIFICATION Spec
CONSTANTS
    root_w = 16
    root_h = 16
    gw = 9
    gh = 0
    gx = 0
    gy = 0
    gx_negative = TRUE
    gy_negative = FALSE
    show_sticky = TRUE
    allow_cover = FALSE
    show_popups = FALSE
    Windows = {}
    NoWindow = NoWindow
    NoClient = NoClient
    Clients <- NoClients
    Layouts <- WideLayouts
    DesktopLimit = 40
    OwnSizes <- TinySizes
    Kinds <- TinyKinds
    Points <- CornerPoints
    Buttons = {1}
    MaxChanges = 3
    MaxInputs = 1
    MaxRequests = 3
CHECK_DEADLOCK FALSE
INVARIANTS
    GridFreshOrOwed
    DeadOnlyWithoutRoom
    StrutCoversPager
