CONSTANTS
    path1 = path1
    path2 = path2
    Paths = {path1, path2}
    NoPath = NoPath
    DirFiles = {path1, path2}
    CmdOptions <- AllOptions
    MaxOptions = 5
SPECIFICATION CommandsSpec
\* The program ends.
CHECK_DEADLOCK FALSE
INVARIANTS
    CommandsTypeOK
    DirectoryFits
    UsesOpenedFiles
    NothingLeftOpen
PROPERTIES
    HeldUntilLastUse
