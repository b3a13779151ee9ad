-------------------------- MODULE MCCollectEnergy --------------------------
(***************************************************************************)
(* Instances of CollectEnergy for TLC.  Row 1 is worth three shares; row 2 *)
(* sits on the boundary of the test "> 3" and slot 3 holds no row.  Word   *)
(* is small enough for bob's total to wrap.                                *)
(***************************************************************************)
EXTENDS CollectEnergy, TLC

CONSTANTS alice, bob

MCUsers      == {alice, bob}
MCIds        == 1 .. 3
MCOwner      == (1 :> alice) @@ (2 :> bob)
MCInitEnergy == (1 :> 10) @@ (2 :> 3)
MCInitTotal  == (alice :> 0) @@ (bob :> 14)
MCWord       == 16

=============================================================================
