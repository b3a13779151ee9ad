---------------------------- MODULE EnergyLedger ----------------------------
(***************************************************************************)
(* What handle_request promises, with no threads and no locks: collecting  *)
(* is one indivisible step that moves energy from a row to a user.         *)
(* CollectEnergy is shown to implement this specification.                 *)
(***************************************************************************)
EXTENDS EnergyRules

VARIABLES
    rowStatus,   \* status of each row
    rowEnergy,   \* energy left in each row
    balance      \* energy of each user

ledger == <<rowStatus, rowEnergy, balance>>

Init ==
    /\ rowStatus = [i \in Rows |-> EMPTY]
    /\ rowEnergy = InitEnergy
    /\ balance = InitTotal

Collect(u, i) ==
    LET taken == Gain(u, i, rowEnergy[i])
    IN  /\ CanCollect(u, i, rowStatus[i], rowEnergy[i])
        /\ balance' = [balance EXCEPT ![u] = Add32(@, taken)]
        /\ rowEnergy' = [rowEnergy EXCEPT ![i] = @ - taken]
        /\ rowStatus' = [rowStatus EXCEPT ![i] = StatusAfter(u, i)]

Next == \E u \in Users, i \in Rows : Collect(u, i)

Spec == Init /\ [][Next]_ledger

=============================================================================
