SPECIFICATION Spec
CONSTANTS
    Threads = {t1, t2}
    alice = alice
    bob = bob
    Users <- MCUsers
    Ids <- MCIds
    Owner <- MCOwner
    InitEnergy <- MCInitEnergy
    InitTotal <- MCInitTotal
    Word <- MCWord
    Free = Free
    NoRequest = NoRequest
INVARIANTS MarkedIsChanged
