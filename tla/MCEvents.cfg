SPECIFICATION Spec
CONSTANTS
    t1 = t1 t2 = t2 r1 = r1 r2 = r2
    i1 = i1 i2 = i2 x1 = x1 n1 = n1 n2 = n2 p0 = p0 p1 = p1
    Writers = {}
    Pollers = {r1, r2}
    InputOps = {i1, i2}
    OtherOps = {x1}
    ReadyOps = {n1}
    Buttons <- OneButton
    Positions = {p0}
    Origin = p0
    OptionalConfig = {}
    IdSpace = 3
    NoPoller = NoPoller
    Faults = TRUE
INVARIANTS TypeOK OperationAccountedFor ShownOnce UniqueLiveIds
SYMMETRY EventSymmetry
