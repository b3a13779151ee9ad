SPECIFICATION ServerSpec
CONSTANTS
    Threads = {t1, t2}
    alice = alice
    bob = bob
    Total = 2
    MaxRequests = 3
    Word = 128
    ClientRequests <- MCTwoRowRequests
    Users <- MCUsers
    Accounts <- MCAccounts
    Ids <- MCIds
    Owner <- MCOwner
    InitEnergy <- MCInitEnergy
    InitTotal <- MCAccountsTotal
    Free = Free
    NoRequest = NoRequest
SYMMETRY Symmetry
INVARIANTS CountersAgree DatabaseBehind

