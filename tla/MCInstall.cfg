\* Every failing call, crash and restart, up to the fault budget.
SPECIFICATION Spec
CONSTANTS
    v1 = v1
    v2 = v2
    c1 = c1
    c2 = c2
    c3 = c3
    c4 = c4
    c5 = c5
    None = None
    Versions <- MCVersions
    Certs <- MCCerts
    Fallible <- MCFailures
    MaxFaults = 3
    DiesUnrecorded = FALSE
SYMMETRY Symmetry
INVARIANTS
    TypeOK
    Undoable
    DriverTrusted
    TrustedKeyGone
    SuccessIsComplete
    KeptIsAsBefore
    UninstallLeavesNothing
PROPERTY NodeKept
