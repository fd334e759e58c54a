--------------------------------- MODULE MCXcm ---------------------------------
(***************************************************************************)
(* Values of the constants of Xcm for TLC.                                 *)
(***************************************************************************)
EXTENDS Xcm, TLC

CONSTANTS root, treasury, chain

Described == [name |-> "described", decimals |-> 12]
OneMetadata == {Described}

\* The native currency and one that has no hardcoded location; KSM, at the
\* parent, is not in the registry.
TwoAssets ==
  [c \in {0, 7} |-> [owner |-> root, metadata |-> Described]]

\* The sibling's account has some of every asset.
OneSibling == {<<1, 3000>>}
Sovereign == [o \in OneSibling |-> chain]
SovereignFunds == 0 :> 1510 @@ 2 :> 1501 @@ 7 :> 1501

\* An account of asset 7 holds three, or does not exist.
SmallAccounts == 0 :> 0 @@ 2 :> 0 @@ 7 :> 3

There == Sibling(3000, "THERE")
KeyLocations == {Local("LT"), There}
AllLocations == {Parent} \cup KeyLocations

\* Enough of a few assets for any purchase, or next to nothing of all.
Bring(ls, amount) == [l \in AllLocations |-> IF l \in ls THEN amount ELSE 0]
FewArrivals ==
  {Bring({Parent, There}, 1501), Bring({Local("LT")}, 1501), Bring(KeyLocations, 2),
   Bring({There}, 2)}

RegistryCalls ==
  {"set_location", "force_set_location", "set_weight_rate_multiple"}
=============================================================================
