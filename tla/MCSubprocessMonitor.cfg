CONSTANTS
    h1 = h1  h2 = h2  h3 = h3  l1 = l1  g1 = g1  g2 = g2  NULL = NULL
    Handle <- MCHandle  Launcher <- MCLauncher  Generator <- MCGenerator
SPECIFICATION Spec
INVARIANTS
    OwnersAndHandlesAgree
PROPERTY Supervises
