SPECIFICATION Spec
CONSTANTS
    root_w = 16
    root_h = 16
    gw = 9
    gh = 0
    gx = 0
    gy = 0
    gx_negative = TRUE
    gy_negative = FALSE
    show_sticky = TRUE
    allow_cover = FALSE
    show_popups = FALSE
    Windows = {w1}
    NoWindow = NoWindow
    NoClient = NoClient
    Clients <- GestureClients
    Layouts <- TwoByOne
    DesktopLimit = 4
    OwnSizes <- NoSizes
    Kinds <- Nothing
    Points <- OutsidePoints
    Buttons = {1, 2}
    MaxChanges = 0
    MaxInputs = 1
    MaxRequests = 2
INVARIANTS
    DesktopInRange
