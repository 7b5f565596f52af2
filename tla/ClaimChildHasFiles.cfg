SPECIFICATION Spec
CONSTANTS
    Archives <- OneArchive
    Paths <- MCPaths
    ReadSizes = {3}
    BLOCK = 2
    MAX_FILE_NUM = 5
    Procs = {p1, p2}
    MaxPages = 2
    Ops = {"open", "read", "close", "getdents", "chdir", "fork", "exec"}
INVARIANT ClaimChildHasFiles
CHECK_DEADLOCK FALSE
