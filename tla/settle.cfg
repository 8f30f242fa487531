SPECIFICATION FairSpec
CONSTANTS
    root_w = 16
    root_h = 16
    gw = 9
    gh = 0
    gx = 0
    gy = 0
    gx_negative = TRUE
    gy_negative = FALSE
    show_sticky = TRUE
    allow_cover = FALSE
    show_popups = FALSE
    Windows = {w1, w2}
    NoWindow = NoWindow
    NoClient = NoClient
    Clients <- SettleClients
    Layouts <- TwoByOne
    DesktopLimit = 4
    OwnSizes <- NoSizes
    Kinds <- SettleKinds
    Points <- NoSizes
    Buttons = {}
    MaxChanges = 2
    MaxInputs = 0
    MaxRequests = 2
CHECK_DEADLOCK FALSE
INVARIANTS
    HighlightTrue
    PictureTrue
    PicksWhatIsSeen
PROPERTIES
    Settles
