SPECIFICATION Spec
CONSTANTS
    Clients = {c1, c2, c3}
    NoClient = NoClient
    Backlog = 2
    MaxAcceptFailures = 1
INVARIANTS TypeOK ActivatedAfterSetUp
PROPERTIES WaiterGoesOn QueuedIsServed
