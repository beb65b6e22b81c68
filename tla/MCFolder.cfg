\* Other programs may hold or run one of the files; a run may die at any point but one.
SPECIFICATION Spec
CONSTANTS
    exe = exe
    dll = dll
    Files = {exe, dll}
    Exe = exe
    None = None
    Shared = {dll}
    DiesAside = FALSE
INVARIANTS
    TypeOK
    InstallOutlivesRestart
    RestartEndsRemoval
