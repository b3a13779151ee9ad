SPECIFICATION Spec
CONSTANTS
    Threads = {t1, t2, t3}
    alice = alice
    bob = bob
    Users <- MCUsers
    Ids <- MCIds
    Owner <- MCOwner
    InitEnergy <- MCInitEnergy
    InitTotal <- MCInitTotal
    Word <- MCWord
    Free = Free
    NoRequest = NoRequest
INVARIANTS TypeOK IInv RowIntegrity Conservation ChangedIsMarked
PROPERTIES LedgerSpec ReturnIsFinal MutexReleased
