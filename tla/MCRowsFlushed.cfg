SPECIFICATION ServerSpec
CONSTANTS
    Threads = {t1, t2}
    alice = alice
    bob = bob
    Total = 3
    MaxRequests = 3
    Word = 128
    ClientRequests <- MCClientRequests
    Users <- MCUsers
    Accounts <- MCUsers
    Ids <- MCIds
    Owner <- MCOwner
    InitEnergy <- MCInitEnergy
    InitTotal <- MCInitTotal
    Free = Free
    NoRequest = NoRequest
SYMMETRY Symmetry
INVARIANTS RowsFlushed
