\* Two files, two paths, every result, and a record that may expire.
CONSTANTS
    f1 = f1
    f2 = f2
    p1 = p1
    p2 = p2
    job = job
    init = init
    Files = {f1, f2}
    Paths = {p1, p2}
    JobId = job
    Init_ = init
SPECIFICATION Spec
SYMMETRY Interchangeable
INVARIANTS
    TypeOK
    EventsMeetMetadata
    CompletionAddsUp
    TimeoutAccountsForAll
CHECK_DEADLOCK FALSE
