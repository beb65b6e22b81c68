\* Any bytes; the parser returns and the check stops there.
SPECIFICATION Spec
CONSTANTS
    ULONG_MAX = 1023
    Descriptors <- SomeDescriptors
INVARIANTS TypeOK UnnumberedMeansZero GunReportIsFiveBytes
PROPERTY TurnsAdvance
CHECK_DEADLOCK FALSE
