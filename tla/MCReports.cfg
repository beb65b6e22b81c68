SPECIFICATION Spec
CONSTANTS
    t1 = t1 t2 = t2 r1 = r1 r2 = r2
    i1 = i1 i2 = i2 x1 = x1 n1 = n1 n2 = n2 p0 = p0 p1 = p1
    Writers = {t1}
    Pollers = {r1}
    InputOps = {i1, i2}
    OtherOps = {}
    ReadyOps = {}
    Buttons <- TwoButtons
    Positions = {p0, p1}
    Origin = p0
    OptionalConfig = {"InstanceID"}
    IdSpace = 2
    NoPoller = NoPoller
    Faults = TRUE
INVARIANTS NoFireLeftHeld ParserAgrees
PROPERTIES CloseOnlyReleases CloseEnds RefinesVirtualGun
