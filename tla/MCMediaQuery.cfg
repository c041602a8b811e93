SPECIFICATION Spec
CONSTANTS
    Threads = {t1, t2}
    Plans <- SomePlans
    Queries <- SomeQueries
    Binders = {"media", "contacts", "window"}
    Providers = {"media", "contacts"}
    Table <- SomeRows
    MaxDenyPaths = 2
    MaxSelection = 30
    Stride = 10
INVARIANTS DeniedRowsHidden OtherRowsKept
