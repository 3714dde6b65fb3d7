CONSTANTS
    app = app
    ops = ops
    sys = sys
    Namespaces = {app, ops, sys}
    System = {sys}
    NoNamespace = NoNamespace
    Cluster = Cluster
    Actions <- SomeActions
SPECIFICATION FairSpec
INVARIANTS
    TypeOK
    ReadsWithinBoundary
    SuccessIsComplete
    ErrorIsCause
PROPERTY
    CommandAnswered
CHECK_DEADLOCK FALSE
