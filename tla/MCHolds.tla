-------------------------------- MODULE MCHolds --------------------------------
(***************************************************************************)
(* Values of the constants of Holds for TLC.                               *)
(***************************************************************************)
EXTENDS Holds, TLC

CONSTANTS a, b

\* The native currency, which has dust, and a token without.
Minimums == 0 :> 2 @@ 1 :> 1
Supplies == 0 :> 5 @@ 1 :> 1

LockableOfA == {<<0, a>>, <<1, a>>}
=============================================================================
