CONSTANTS
    MaxJobs = 2
    Channels = {c1, c2}
    NoChannel = NoChannel
    Inputs = {i1, i2}
    MaxAttempts = 3
SPECIFICATION Spec
SYMMETRY Symmetry
INVARIANTS
    TypeOK
    OneActiveJobPerKey
    PoisonJobBounded
    NoOrphanJob
