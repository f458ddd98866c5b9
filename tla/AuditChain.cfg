SPECIFICATION Spec
CONSTANTS
    Writer = {t1, t2, t3}
    Body = {create, edit}
    MaxRows = 4
    MaxTouched = 2
    t3 = t3
    t1 = t1
    t2 = t2
    create = create
    edit = edit
INVARIANTS
    TypeOK
    UntouchedVerifies
    EditShows
    DeleteShows
PROPERTIES
    LogImplemented
CHECK_DEADLOCK FALSE
