CONSTANTS
    r = r
    a = a
    b = b
    Procs = {r, a, b}
    Root = r
    RootParent = RootParent
    InitPid = InitPid
    Parent0 <- MCParent0
    MaxRounds = 2
SPECIFICATION Spec
INVARIANT ExportOrderMemoryFirst
