\* A run may stop between staging a package and writing its name down.
SPECIFICATION Spec
CONSTANTS
    v1 = v1
    v2 = v2
    c1 = c1
    c2 = c2
    c3 = c3
    c4 = c4
    c5 = c5
    None = None
    Versions <- MCVersions
    Certs <- MCCerts
    Fallible <- MCNothing
    MaxFaults = 1
    DiesUnrecorded = TRUE
INVARIANT UninstallLeavesNothing
