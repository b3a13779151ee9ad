------------------------------ MODULE MCServer ------------------------------
(***************************************************************************)
(* Instances of Server for TLC: as many rows as requests, the smallest     *)
(* number that has an ordinary request before the last two.                *)
(***************************************************************************)
EXTENDS Server, TLC

CONSTANTS alice, bob

MCUsers      == {alice, bob}
MCIds        == 1 .. Total
MCOwner      == [i \in MCIds |-> IF i = 2 THEN bob ELSE alice]
MCInitEnergy == [i \in MCIds |-> IF i = 3 THEN 3 ELSE 10]
MCInitTotal  == [u \in MCUsers |-> 1]

\* The owner and another user on row 1, another user on each of the other rows.
MCClientRequests == {[user |-> alice, id |-> 1], [user |-> bob, id |-> 1],
                     [user |-> alice, id |-> 2], [user |-> bob, id |-> 3]}

\* Every connection asks for row 1, for the liveness run.
MCCompetingRequests == {[user |-> alice, id |-> 1]}

\* For the runs with two expected requests; bob has no row in total_energy.
MCAccounts      == {alice}
MCAccountsTotal == [u \in MCUsers |-> IF u = alice THEN 1 ELSE 0]
MCTwoRowRequests == {[user |-> alice, id |-> 1], [user |-> bob, id |-> 1],
                     [user |-> alice, id |-> 2]}

Symmetry == Permutations(Threads)

=============================================================================
