---------------------------- MODULE EnergyRules ----------------------------
(***************************************************************************)
(* The data of the collect-energy service and the arithmetic of one        *)
(* collection: the two tables load_in_mem reads, the status codes of       *)
(* mem.hpp and the amounts handle_request moves.  Everything here is       *)
(* constant; the modules that keep state extend it.                        *)
(***************************************************************************)
EXTENDS Integers

CONSTANTS
    Users,       \* user ids that rows and requests name
    Ids,         \* ids a request can name: the slots of memToCollects
    Owner,       \* Owner[i]: column user_id of row i of to_collect_energy
    InitEnergy,  \* InitEnergy[i]: its column to_collect_energy when loaded
    InitTotal,   \* InitTotal[u]: what user u starts with
    Word         \* 2^32, the modulus of std::uint32_t

\* The slots that hold a row; the others are still nullptr.
Rows == DOMAIN Owner

ASSUME RowsAssumption ==
    /\ Rows \subseteq Ids
    /\ Owner \in [Rows -> Users]

ASSUME AmountAssumption ==
    /\ Word \in Nat \ {0}
    /\ InitEnergy \in [Rows -> 0 .. Word - 1]
    /\ InitTotal \in [Users -> 0 .. Word - 1]

EMPTY              == 0
COLLECTED_BY_OTHER == 1
ALL_COLLECTED      == 2
Statuses           == {EMPTY, COLLECTED_BY_OTHER, ALL_COLLECTED}

(***************************************************************************)
(* (int) floor((double) e * 0.3).  The double nearest 0.3 is below it by a *)
(* relative 3.7e-17, less than half a unit in the last place of any        *)
(* product, so a multiple of 10 still rounds to the exact 3k and floor is  *)
(* the integer quotient.                                                   *)
(***************************************************************************)
Share(e) == (3 * e) \div 10

\* What user u takes out of row i when the row holds e.
Gain(u, i, e) == IF u = Owner[i] THEN e ELSE Share(e)

\* The status u leaves behind.
StatusAfter(u, i) == IF u = Owner[i] THEN ALL_COLLECTED ELSE COLLECTED_BY_OTHER

\* Variants of CanCollect: the boundary off by one, and no status test for others.
CanCollectThree(u, i, s, e) ==
    /\ s # ALL_COLLECTED
    /\ u = Owner[i] \/ (s = EMPTY /\ e >= 2)
CanCollectTwice(u, i, s, e) ==
    /\ s # ALL_COLLECTED
    /\ u = Owner[i] \/ e > 3

\* User u may still collect from row i when its fields are s and e.
CanCollect(u, i, s, e) ==
    /\ s # ALL_COLLECTED
    /\ u = Owner[i] \/ (s = EMPTY /\ e > 3)

\* Variant: the sum is not reduced.
AddUnreduced(a, b) == a + b

\* a + b in std::uint32_t, for a and b already reduced.
Add32(a, b) == IF a + b < Word THEN a + b ELSE a + b - Word

=============================================================================
