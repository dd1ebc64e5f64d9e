CONSTANTS
    k1 = k1  k2 = k2  s1 = s1  s2 = s2  NULL = NULL
    RootMenu = RootMenu  Generated = Generated
    WindowMenu = WindowMenu  Workspaces = Workspaces
    ActionItem = ActionItem  GeneratedItem = GeneratedItem  GeneratorItem = GeneratorItem
    ShadeItem = ShadeItem  UnshadeItem = UnshadeItem  MoveItem = MoveItem
    RootWindow = RootWindow  Window = Window
    Menu <- MCMenu  Item <- MCItem  SubmenuOf <- MCSubmenuOf
    WsItem <- MCWsItem  Workspace <- MCWorkspace  InitialWorkspaces <- MCInitialWorkspaces  MayStay <- MCMayStay
SPECIFICATION Spec
CONSTRAINT Bounded
CHECK_DEADLOCK FALSE
INVARIANTS
    SubmenuFollowsItem
    RootMenuIsMapped
    WindowMenuActsOnItsWindow
    WorkspaceItemsFollowDesktop
