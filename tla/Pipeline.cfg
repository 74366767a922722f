CONSTANTS
    c1 = c1
    h = h
    u = u
    v1 = v1
    w1 = w1
    w2 = w2
    x1 = x1
    slug = slug
    NoChannel = NoChannel
    Channels = {c1}
    MaxJobs = 2
    Inputs = {h, u}
    MaxAttempts = 2
    Videos = {v1}
    Workers = {w1, w2}
    Clis = {x1}
    Sluggish = {}
    Outcomes = {"captions", "error"}
    Resolves <- MCResolves
    Handle <- MCHandle
    Slug <- MCSlug
    Listings <- WholeListing
    Budget <- CrashFault
SPECIFICATION Spec
SYMMETRY Symmetry
INVARIANTS
    TypeOK
    OneBuilderPerChannel
    BuilderOwnsRow
    
    
PROPERTIES
    ImplementsQueue
