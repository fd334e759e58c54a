--------------------------------- MODULE MCNft ---------------------------------
(***************************************************************************)
(* Values of the constants of Nft for TLC.                                 *)
(***************************************************************************)
EXTENDS NftProperties, TLC

\* Two classes of one level: one that costs both currencies, with room for
\* two tokens, and one that is free of LIKE and has room for one.
TwoClasses ==
  {[level |-> "gold", like_threshold |-> 2, claim_cost |-> 3,
    maximum_quantity |-> 2],
   [level |-> "gold", like_threshold |-> 0, claim_cost |-> 0,
    maximum_quantity |-> 1]}

Symmetry == Permutations(Users)
=============================================================================
