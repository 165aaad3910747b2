SPECIFICATION Spec
CONSTANTS
    Procs = {p1, p2}
    c1 = c1
    c2 = c2
    c3 = c3
    Contents <- MCContents
    SizeOf <- MCSizeOf
    HeadOf <- MCHeadOf
    CountOf <- MCCountOf
    MaxVersions = 2
    MaxFaults = 1
    MaxStamp = 2
    QuietBuild = TRUE
SYMMETRY ProcSymmetry
INVARIANTS
    TypeOK
    ServesCurrent
    IndexSound
    HalfIndexHasAWriter
