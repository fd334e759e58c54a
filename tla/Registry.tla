-------------------------------- MODULE Registry --------------------------------
(***************************************************************************)
(* The assets the currencies pallet knows (pallets/currencies/src/lib.rs): *)
(* who owns them and what they are, where they are on other chains, and    *)
(* what weight costs in them. Two maps go from asset to location and back. *)
(*                                                                         *)
(* Currencies composes this with the ledger, Xcm with the conversion of    *)
(* locations and the fee traders. Permitted says which calls are made.     *)
(***************************************************************************)
EXTENDS Ledger

CONSTANTS
  None,         \* the Rust None
  Permitted,    \* the calls that are made
  Locations,    \* multi locations
  Metadata,     \* values of ListenAssetMetadata, [name, decimals]
  Multiples     \* values of a weight rate multiple

VARIABLES
  ListenAssetsInfo,       \* asset -> [owner, metadata], of the assets there are
  AssetLocations,         \* asset -> location
  LocationToCurrencyIds,  \* location -> asset
  WeightRateMultiple      \* asset -> multiple, 1000 when it was never set

locations == <<AssetLocations, LocationToCurrencyIds>>
registry == <<ListenAssetsInfo, locations, WeightRateMultiple>>

ASSUME RegistryAssumption ==
  /\ None \notin Accounts \cup Metadata
  /\ \A m \in Metadata : DOMAIN m = {"name", "decimals"} /\ m.decimals \in Nat
  /\ Multiples \subseteq Nat

DefaultMultiple == 1000

AssetInfo == [owner : Accounts, metadata : Metadata \cup {None}]

RegistryTyped ==
  /\ DOMAIN ListenAssetsInfo \subseteq CurrencyIds
  /\ \A c \in DOMAIN ListenAssetsInfo : ListenAssetsInfo[c] \in AssetInfo
  /\ DOMAIN AssetLocations \subseteq CurrencyIds
  /\ \A c \in DOMAIN AssetLocations : AssetLocations[c] \in Locations
  /\ DOMAIN LocationToCurrencyIds \subseteq Locations
  /\ \A l \in DOMAIN LocationToCurrencyIds :
       LocationToCurrencyIds[l] \in CurrencyIds
  /\ WeightRateMultiple \in [CurrencyIds -> Multiples \cup {DefaultMultiple}]

\* The registry of a chain that starts with these assets.
RegistryInit(assets) ==
  /\ ListenAssetsInfo = assets
  /\ AssetLocations = EmptyMap
  /\ LocationToCurrencyIds = EmptyMap
  /\ WeightRateMultiple = [c \in CurrencyIds |-> DefaultMultiple]

-----------------------------------------------------------------------------

Exists(c) == c \in DOMAIN ListenAssetsInfo

IsOwner(who, c) == Exists(c) /\ ListenAssetsInfo[c].owner = who

\* is_exists_metadata
IsExistsMetadata(c) == Exists(c) /\ ListenAssetsInfo[c].metadata # None

\* What set_metadata takes; create_asset takes any metadata.
IsValid(metadata) == metadata.decimals \in 1 .. 18

\* Mutant: the decimals may change.
MayReplaceAny(old, metadata) == old # metadata

\* Whether metadata may take the place of old, which is None before it is set.
MayReplace(old, metadata) ==
  old # None => (old # metadata /\ old.decimals = metadata.decimals)

\* set_metadata
SetMetadata(who, c, metadata) ==
  /\ "set_metadata" \in Permitted
  /\ IsValid(metadata)
  /\ IsOwner(who, c)
  /\ MayReplace(ListenAssetsInfo[c].metadata, metadata)
  /\ ListenAssetsInfo' = [ListenAssetsInfo EXCEPT ![c].metadata = metadata]
  /\ UNCHANGED <<locations, WeightRateMultiple>>

\* set_location, which any council member calls
SetLocation(c, location) ==
  /\ "set_location" \in Permitted
  /\ Exists(c)
  /\ c \notin DOMAIN AssetLocations
  /\ location \notin DOMAIN LocationToCurrencyIds
  /\ AssetLocations' = Put(AssetLocations, c, location)
  /\ LocationToCurrencyIds' = Put(LocationToCurrencyIds, location, c)
  /\ UNCHANGED <<ListenAssetsInfo, WeightRateMultiple>>

\* Mutant: the way back from the old location is left.
OldLocationKept(c) == LocationToCurrencyIds

\* LocationToCurrencyIds once the location c had is given up, whichever asset
\* it led to.
OldLocationTaken(c) ==
  IF c \in DOMAIN AssetLocations
  THEN Without(LocationToCurrencyIds, AssetLocations[c])
  ELSE LocationToCurrencyIds

\* force_set_location, of root or half the council: an asset that is at the
\* location keeps it in AssetLocations.
ForceSetLocation(c, location) ==
  /\ "force_set_location" \in Permitted
  /\ Exists(c)
  /\ AssetLocations' = Put(AssetLocations, c, location)
  /\ LocationToCurrencyIds' = Put(OldLocationTaken(c), location, c)
  /\ UNCHANGED <<ListenAssetsInfo, WeightRateMultiple>>

\* set_weight_rate_multiple
SetWeightRateMultiple(who, c, multiple) ==
  /\ "set_weight_rate_multiple" \in Permitted
  /\ IsOwner(who, c)
  /\ c \in DOMAIN AssetLocations
  /\ WeightRateMultiple' = [WeightRateMultiple EXCEPT ![c] = multiple]
  /\ UNCHANGED <<ListenAssetsInfo, locations>>

RegistryNext ==
  \E c \in CurrencyIds :
    \/ \E who \in Accounts, metadata \in Metadata : SetMetadata(who, c, metadata)
    \/ \E location \in Locations :
         SetLocation(c, location) \/ ForceSetLocation(c, location)
    \/ \E who \in Accounts, multiple \in Multiples :
         SetWeightRateMultiple(who, c, multiple)

-----------------------------------------------------------------------------
(* Properties of the registry.                                             *)

\* A location leads to an asset that is there: whatever is forced, incoming
\* money of a registered location is never booked as an asset that has been
\* moved elsewhere.
LocationsResolve ==
  \A l \in DOMAIN LocationToCurrencyIds :
    /\ LocationToCurrencyIds[l] \in DOMAIN AssetLocations
    /\ AssetLocations[LocationToCurrencyIds[l]] = l
=============================================================================
