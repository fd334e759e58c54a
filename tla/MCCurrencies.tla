------------------------------ MODULE MCCurrencies ------------------------------
(***************************************************************************)
(* Values of the constants of Currencies for TLC.                          *)
(***************************************************************************)
EXTENDS Currencies, TLC

CONSTANTS root, bob

Listen == [name |-> "listen", decimals |-> 12]
Plain == [name |-> "plain", decimals |-> 18]
Renamed == [name |-> "renamed", decimals |-> 18]

EndowedRoot == root :> 4 @@ bob :> 0

AllMetadata == {Listen, Plain, Renamed}

\* Every call but those on locations, which the Xcm module composes.
LedgerCalls ==
  {"create_asset", "set_existenial_deposit", "set_air_drop_numer", "burn",
   "transfer", "update_balance", "set_multisig", "air_drop",
   "tokens_transfer", "pallets", "set_metadata"}
=============================================================================
