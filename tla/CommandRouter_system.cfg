CONSTANTS
    app = app
    ops = ops
    sys = sys
    Namespaces = {app, sys}
    System = {sys}
    NoNamespace = NoNamespace
    Cluster = Cluster
    Actions <- SomeActions
SPECIFICATION Spec
INVARIANT
    SystemNamespacesBlocked
CHECK_DEADLOCK FALSE
