SPECIFICATION Spec
CONSTANTS
    root_w = 16
    root_h = 16
    gw = 9
    gh = 0
    gx = 0
    gy = 0
    gx_negative = TRUE
    gy_negative = FALSE
    show_sticky = TRUE
    allow_cover = FALSE
    show_popups = TRUE
    Windows = {w1, w2}
    NoWindow = NoWindow
    NoClient = NoClient
    Clients <- RolledUp
    Layouts <- TwoByOne
    DesktopLimit = 4
    OwnSizes <- NoSizes
    Kinds <- PointerKinds
    Points <- InsidePoints
    Buttons = {1, 2}
    MaxChanges = 2
    MaxInputs = 1
    MaxRequests = 2
SYMMETRY WindowSymmetry
VIEW LiveState
INVARIANTS
    TypeOK
    IndexInRange
    ScanRemembers
    GestureUnderHeldButton
    PopupTellsTruth
    PopupTitled
    NoPopupDuringGesture
PROPERTIES
    DragKeepsWindow
    GestureImplemented
