SPECIFICATION Spec
CONSTANTS
    desktop = desktop
    windows = windows
    fullscreen = fullscreen
    w1 = w1
    w2 = w2
    menu = menu
    item = item
    popup = popup
    p1 = p1
    s1 = s1
    s2 = s2
    NULL = null
    Root = desktop
    Container = {desktop, windows, fullscreen, w1, w2, menu, popup}
    Surface = {s1, s2, p1}
    Leaf = {item}
    Menu = {menu}
    Window = {w1, w2}
    Windows = windows
    Fullscreen = fullscreen
    SurfaceOf <- OneSurfaceEach
    MenuOf <- OneMenu
    PopupOf <- OnePopup
    Places <- SomePlaces
    AtStart <- TwoWindows
CONSTRAINT Bounded
CHECK_DEADLOCK FALSE
INVARIANTS
    NoAssertionFails
    PointerFocusIsTopmost
    OpenMenuHasGrab
    KeyboardReachesActivated
