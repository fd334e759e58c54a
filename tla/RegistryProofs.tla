----------------------------- MODULE RegistryProofs -----------------------------
(***************************************************************************)
(* What every call on the registry and every change of the ledger keeps,   *)
(* for any assets, locations and accounts. Currencies and Xcm compose the  *)
(* two; their theorems rest on these lemmas.                               *)
(*                                                                         *)
(* A change of the ledger nests others: the provider of a token account is *)
(* counted, and the air drop given, before the account is counted as a     *)
(* user. What is counted is therefore stated with the number of token      *)
(* accounts counted so far, which is behind by one in between.             *)
(***************************************************************************)
EXTENDS Registry, SumTheorems

\* The assets there are, each with an owner and metadata or none.
InfoTyped ==
  /\ ListenAssetsInfo = [c \in DOMAIN ListenAssetsInfo |-> ListenAssetsInfo[c]]
  /\ \A c \in DOMAIN ListenAssetsInfo : ListenAssetsInfo[c] \in AssetInfo

\* Asset c, which has metadata, keeps its owner and its decimals.
InfoKept(c) ==
  IsExistsMetadata(c) =>
    /\ IsExistsMetadata(c)'
    /\ ListenAssetsInfo'[c].owner = ListenAssetsInfo[c].owner
    /\ ListenAssetsInfo'[c].metadata.decimals = ListenAssetsInfo[c].metadata.decimals

\* An asset gets a location: the entry of the location it had is gone, so no
\* other entry leads to it.
LEMMA LocationPut ==
  ASSUME LocationsResolve, NEW c, NEW location, NEW back,
         DOMAIN back \subseteq DOMAIN LocationToCurrencyIds,
         \A l \in DOMAIN back : back[l] = LocationToCurrencyIds[l] /\ back[l] # c,
         AssetLocations' = Put(AssetLocations, c, location),
         LocationToCurrencyIds' = Put(back, location, c)
  PROVE  LocationsResolve'
<1>1. /\ DOMAIN AssetLocations' = DOMAIN AssetLocations \cup {c}
      /\ AssetLocations'[c] = location
      /\ \A d \in DOMAIN AssetLocations \ {c} :
           AssetLocations'[d] = AssetLocations[d]
  BY DEF Put
<1>2. /\ DOMAIN LocationToCurrencyIds' = DOMAIN back \cup {location}
      /\ LocationToCurrencyIds'[location] = c
      /\ \A l \in DOMAIN back \ {location} : LocationToCurrencyIds'[l] = back[l]
  BY DEF Put
<1>3. SUFFICES ASSUME NEW l \in DOMAIN LocationToCurrencyIds'
      PROVE  /\ LocationToCurrencyIds'[l] \in DOMAIN AssetLocations'
             /\ AssetLocations'[LocationToCurrencyIds'[l]] = l
  BY DEF LocationsResolve
<1>4. CASE l = location
  BY <1>1, <1>2, <1>4
<1>5. CASE l # location
  <2>1. l \in DOMAIN back /\ LocationToCurrencyIds'[l] = back[l]
    BY <1>2, <1>3, <1>5
  <2>2. /\ back[l] \in DOMAIN AssetLocations \ {c}
        /\ AssetLocations[back[l]] = l
    BY <2>1 DEF LocationsResolve
  <2> QED BY <1>1, <2>1, <2>2
<1> QED BY <1>4, <1>5

\* set_location: the asset had no location, so no entry led to it.
LEMMA SetLocationResolves ==
  ASSUME LocationsResolve, NEW c, NEW location, SetLocation(c, location)
  PROVE  LocationsResolve'
<1>1. \A l \in DOMAIN LocationToCurrencyIds : LocationToCurrencyIds[l] # c
  BY DEF SetLocation, LocationsResolve
<1> QED BY <1>1, LocationPut DEF SetLocation

\* force_set_location gives up the entry of the old location.
LEMMA ForceSetLocationResolves ==
  ASSUME LocationsResolve, NEW c, NEW location, ForceSetLocation(c, location)
  PROVE  LocationsResolve'
<1> DEFINE back == OldLocationTaken(c)
<1>1. /\ DOMAIN back \subseteq DOMAIN LocationToCurrencyIds
      /\ \A l \in DOMAIN back : back[l] = LocationToCurrencyIds[l] /\ back[l] # c
  <2>1. CASE c \in DOMAIN AssetLocations
    <3>1. back = Without(LocationToCurrencyIds, AssetLocations[c])
      BY <2>1 DEF OldLocationTaken
    <3>2. /\ DOMAIN back = DOMAIN LocationToCurrencyIds \ {AssetLocations[c]}
          /\ \A l \in DOMAIN back : back[l] = LocationToCurrencyIds[l]
      BY <3>1 DEF Without
    <3> HIDE DEF back
    <3> QED BY <3>2 DEF LocationsResolve
  <2>2. CASE c \notin DOMAIN AssetLocations
    BY <2>2 DEF OldLocationTaken, LocationsResolve
  <2> QED BY <2>1, <2>2
<1>2. /\ AssetLocations' = Put(AssetLocations, c, location)
      /\ LocationToCurrencyIds' = Put(back, location, c)
  BY DEF ForceSetLocation
<1> HIDE DEF back
<1> QED BY <1>1, <1>2, LocationPut

\* No call on the registry leaves a location that leads astray.
LEMMA RegistryResolves ==
  ASSUME LocationsResolve, RegistryNext
  PROVE  LocationsResolve'
<1>1. PICK c \in CurrencyIds :
        \/ \E who \in Accounts, metadata \in Metadata : SetMetadata(who, c, metadata)
        \/ \E location \in Locations :
             SetLocation(c, location) \/ ForceSetLocation(c, location)
        \/ \E who \in Accounts, multiple \in Multiples :
             SetWeightRateMultiple(who, c, multiple)
  BY DEF RegistryNext
<1>2. CASE \E who \in Accounts, metadata \in Metadata : SetMetadata(who, c, metadata)
  BY <1>2 DEF SetMetadata, locations, LocationsResolve
<1>3. CASE \E location \in Locations :
             SetLocation(c, location) \/ ForceSetLocation(c, location)
  BY <1>3, SetLocationResolves, ForceSetLocationResolves
<1>4. CASE \E who \in Accounts, multiple \in Multiples :
             SetWeightRateMultiple(who, c, multiple)
  BY <1>4 DEF SetWeightRateMultiple, locations, LocationsResolve
<1> QED BY <1>1, <1>2, <1>3, <1>4

\* set_metadata changes the metadata of its asset alone, and not its decimals.
LEMMA SetMetadataKeeps ==
  ASSUME InfoTyped, NEW who \in Accounts, NEW d, NEW metadata \in Metadata,
         SetMetadata(who, d, metadata)
  PROVE  InfoTyped' /\ \A c : InfoKept(c)
<1> DEFINE old == ListenAssetsInfo[d]
           new == [old EXCEPT !.metadata = metadata]
<1>1. /\ d \in DOMAIN ListenAssetsInfo /\ MayReplace(old.metadata, metadata)
      /\ ListenAssetsInfo' = [ListenAssetsInfo EXCEPT ![d] = new]
  BY DEF SetMetadata, IsOwner, Exists
<1>2. old \in AssetInfo
  BY <1>1 DEF InfoTyped
<1> HIDE DEF old
<1>3. new \in AssetInfo /\ new.owner = old.owner /\ new.metadata = metadata
  BY <1>2 DEF AssetInfo
<1>4. metadata # None
  BY RegistryAssumption
<1> HIDE DEF new
<1>5. InfoTyped'
  BY <1>1, <1>3 DEF InfoTyped, AssetInfo
<1>6. ASSUME NEW c, IsExistsMetadata(c)
      PROVE  /\ IsExistsMetadata(c)'
             /\ ListenAssetsInfo'[c].owner = ListenAssetsInfo[c].owner
             /\ ListenAssetsInfo'[c].metadata.decimals
                  = ListenAssetsInfo[c].metadata.decimals
  <2>1. CASE c = d
    <3>1. ListenAssetsInfo'[c] = new /\ ListenAssetsInfo[c] = old
      BY <1>1, <2>1 DEF old
    <3>2. old.metadata # None
      BY <1>6, <3>1 DEF IsExistsMetadata
    <3> QED BY <1>1, <1>3, <1>4, <2>1, <3>1, <3>2
            DEF MayReplace, IsExistsMetadata, Exists
  <2>2. CASE c # d
    BY <1>1, <1>6, <2>2 DEF IsExistsMetadata, Exists
  <2> QED BY <2>1, <2>2
<1> QED BY <1>5, <1>6 DEF InfoKept

\* No call on the registry changes who owns an asset or what it counts in.
LEMMA RegistryKeepsInfo ==
  ASSUME InfoTyped, RegistryNext
  PROVE  InfoTyped' /\ \A c : InfoKept(c)
<1>1. CASE \E c \in CurrencyIds, who \in Accounts, metadata \in Metadata :
             SetMetadata(who, c, metadata)
  BY <1>1, SetMetadataKeeps
<1>2. CASE UNCHANGED ListenAssetsInfo
  BY <1>2 DEF InfoTyped, InfoKept, IsExistsMetadata, Exists
<1> QED BY <1>1, <1>2
        DEF RegistryNext, SetLocation, ForceSetLocation, SetWeightRateMultiple

\* Types only change within their sets.
LEMMA RegistryKeepsType ==
  ASSUME RegistryTyped, RegistryNext
  PROVE  RegistryTyped'
<1>1. PICK c \in CurrencyIds :
        \/ \E who \in Accounts, metadata \in Metadata : SetMetadata(who, c, metadata)
        \/ \E location \in Locations :
             SetLocation(c, location) \/ ForceSetLocation(c, location)
        \/ \E who \in Accounts, multiple \in Multiples :
             SetWeightRateMultiple(who, c, multiple)
  BY DEF RegistryNext
<1>2. ASSUME NEW who \in Accounts, NEW metadata \in Metadata, SetMetadata(who, c, metadata)
      PROVE  RegistryTyped'
  <2> DEFINE old == ListenAssetsInfo[c]
             new == [old EXCEPT !.metadata = metadata]
  <2>1. /\ c \in DOMAIN ListenAssetsInfo
        /\ ListenAssetsInfo' = [ListenAssetsInfo EXCEPT ![c] = new]
    BY <1>2 DEF SetMetadata, IsOwner, Exists
  <2>2. old \in AssetInfo
    BY <2>1 DEF RegistryTyped
  <2> HIDE DEF old
  <2>3. new \in AssetInfo
    BY <2>2 DEF AssetInfo
  <2> HIDE DEF new
  <2>4. /\ DOMAIN ListenAssetsInfo' = DOMAIN ListenAssetsInfo
        /\ \A d \in DOMAIN ListenAssetsInfo' : ListenAssetsInfo'[d] \in AssetInfo
    BY <2>1, <2>3 DEF RegistryTyped
  <2>5. UNCHANGED <<AssetLocations, LocationToCurrencyIds, WeightRateMultiple>>
    BY <1>2 DEF SetMetadata, locations
  <2> QED BY <2>4, <2>5 DEF RegistryTyped
<1>3. ASSUME NEW location \in Locations, NEW back,
             DOMAIN back \subseteq DOMAIN LocationToCurrencyIds,
             \A l \in DOMAIN back : back[l] = LocationToCurrencyIds[l],
             AssetLocations' = Put(AssetLocations, c, location),
             LocationToCurrencyIds' = Put(back, location, c),
             UNCHANGED <<ListenAssetsInfo, WeightRateMultiple>>
      PROVE  RegistryTyped'
  <2>1. /\ DOMAIN AssetLocations' = DOMAIN AssetLocations \cup {c}
        /\ \A d \in DOMAIN AssetLocations' :
             AssetLocations'[d] = location \/ (d \in DOMAIN AssetLocations
                                               /\ AssetLocations'[d] = AssetLocations[d])
    BY <1>3 DEF Put
  <2>2. /\ DOMAIN LocationToCurrencyIds' = DOMAIN back \cup {location}
        /\ \A l \in DOMAIN LocationToCurrencyIds' :
             LocationToCurrencyIds'[l] = c \/ (l \in DOMAIN back
                                               /\ LocationToCurrencyIds'[l] = back[l])
    BY <1>3 DEF Put
  <2>3. /\ DOMAIN AssetLocations' \subseteq CurrencyIds
        /\ \A d \in DOMAIN AssetLocations' : AssetLocations'[d] \in Locations
    BY <2>1 DEF RegistryTyped
  <2>4. /\ DOMAIN LocationToCurrencyIds' \subseteq Locations
        /\ \A l \in DOMAIN LocationToCurrencyIds' : LocationToCurrencyIds'[l] \in CurrencyIds
    BY <1>3, <2>2 DEF RegistryTyped
  <2> QED BY <1>3, <2>3, <2>4 DEF RegistryTyped
<1>4. ASSUME NEW location \in Locations, SetLocation(c, location)
      PROVE  RegistryTyped'
  BY <1>3, <1>4 DEF SetLocation
<1>5. ASSUME NEW location \in Locations, ForceSetLocation(c, location)
      PROVE  RegistryTyped'
  <2> DEFINE back == OldLocationTaken(c)
  <2>1. /\ DOMAIN back \subseteq DOMAIN LocationToCurrencyIds
        /\ \A l \in DOMAIN back : back[l] = LocationToCurrencyIds[l]
    BY DEF OldLocationTaken, Without
  <2>2. /\ AssetLocations' = Put(AssetLocations, c, location)
        /\ LocationToCurrencyIds' = Put(back, location, c)
        /\ UNCHANGED <<ListenAssetsInfo, WeightRateMultiple>>
    BY <1>5 DEF ForceSetLocation
  <2> HIDE DEF back
  <2> QED BY <1>3, <2>1, <2>2
<1>6. ASSUME NEW who \in Accounts, NEW multiple \in Multiples,
             SetWeightRateMultiple(who, c, multiple)
      PROVE  RegistryTyped'
  BY <1>6 DEF SetWeightRateMultiple, locations, RegistryTyped
<1> QED BY <1>1, <1>2, <1>4, <1>5, <1>6

-----------------------------------------------------------------------------
(* The ledger.                                                             *)

\* The ledgers there are.
TokenMaps == UNION {[D -> Nat] : D \in SUBSET TokenKeys}

Ledgers ==
  [runtime : Runtimes, balances : [Accounts -> Nat], tokens : TokenMaps,
   providers : [Accounts -> Nat], users : [CurrencyIds -> Nat],
   existential : [CurrencyIds -> Nat], airdrops : [CurrencyIds -> Nat]]

AliveIn(l) == {a \in Accounts : l.providers[a] > 0}
HoldersIn(l, c) == {a \in Accounts : <<c, a>> \in DOMAIN l.tokens}
HeldBy(l, a) == {c \in CurrencyIds : <<c, a>> \in DOMAIN l.tokens}

\* Whatever an account holds has a provider of its own, and no native balance is
\* dust.
Backed(l) ==
  \A a \in Accounts :
    /\ l.providers[a] >=
         Cardinality(HeldBy(l, a)) + (IF l.balances[a] > 0 THEN 1 ELSE 0)
    /\ l.balances[a] = 0 \/ l.balances[a] >= NativeED

\* The users are counted, with n[c] token accounts of each currency c.
Counted(l, n) ==
  /\ \A c \in CurrencyIds \ {Native} : l.users[c] = n[c]
  /\ l.runtime = "listen" => l.users[Native] <= Cardinality(AliveIn(l))
  /\ l.runtime = "tisten" => l.users[Native] = Cardinality(AliveIn(l)) + n[Native]

TokenAccounts(l) == [c \in CurrencyIds |-> Cardinality(HoldersIn(l, c))]

Kept(l, n) == l \in Ledgers /\ Backed(l) /\ Counted(l, n)

\* A ledger between two calls.
Sound(l) == Kept(l, TokenAccounts(l))

LEMMA TokenMapType ==
  ASSUME NEW m
  PROVE  m \in TokenMaps <=>
           /\ m = [k \in DOMAIN m |-> m[k]] /\ DOMAIN m \subseteq TokenKeys
           /\ \A k \in DOMAIN m : m[k] \in Nat
<1>1. ASSUME m \in TokenMaps
      PROVE  /\ m = [k \in DOMAIN m |-> m[k]] /\ DOMAIN m \subseteq TokenKeys
             /\ \A k \in DOMAIN m : m[k] \in Nat
  <2>1. PICK D \in SUBSET TokenKeys : m \in [D -> Nat]
    BY <1>1 DEF TokenMaps
  <2> QED BY <2>1
<1>2. ASSUME m = [k \in DOMAIN m |-> m[k]], DOMAIN m \in SUBSET TokenKeys,
             \A k \in DOMAIN m : m[k] \in Nat
      PROVE  m \in TokenMaps
  <2>1. m \in [DOMAIN m -> Nat]
    BY <1>2
  <2> QED BY <1>2, <2>1 DEF TokenMaps
<1> QED BY <1>1, <1>2

LEMMA LedgersAre ==
  ASSUME NEW l \in Ledgers
  PROVE  IsLedger(l)
<1>1. l.tokens \in TokenMaps
  BY DEF Ledgers
<1>2. DOMAIN l.tokens \subseteq TokenKeys /\ \A k \in DOMAIN l.tokens : l.tokens[k] \in Nat
  BY <1>1, TokenMapType
<1> QED BY <1>2 DEF Ledgers, IsLedger

\* The accounts and currencies of a ledger are finitely many.
LEMMA LedgerFinite ==
  ASSUME NEW l
  PROVE  /\ IsFiniteSet(AliveIn(l)) /\ Cardinality(AliveIn(l)) \in Nat
         /\ \A c : IsFiniteSet(HoldersIn(l, c)) /\ Cardinality(HoldersIn(l, c)) \in Nat
         /\ \A a : IsFiniteSet(HeldBy(l, a)) /\ Cardinality(HeldBy(l, a)) \in Nat
<1>1. IsFiniteSet(Accounts) /\ IsFiniteSet(CurrencyIds)
  BY LedgerAssumption
<1>2. IsFiniteSet(AliveIn(l))
  BY <1>1, FS_Subset DEF AliveIn
<1>3. ASSUME NEW c
      PROVE  IsFiniteSet(HoldersIn(l, c))
  BY <1>1, FS_Subset DEF HoldersIn
<1>4. ASSUME NEW a
      PROVE  IsFiniteSet(HeldBy(l, a))
  BY <1>1, FS_Subset DEF HeldBy
<1> QED BY <1>2, <1>3, <1>4, FS_CardinalityType

\* A token account more.
LEMMA AccountMore ==
  ASSUME NEW l, NEW m, NEW c \in CurrencyIds, NEW a \in Accounts,
         <<c, a>> \notin DOMAIN l.tokens,
         DOMAIN m.tokens = DOMAIN l.tokens \cup {<<c, a>>}
  PROVE  /\ Cardinality(HoldersIn(m, c)) = Cardinality(HoldersIn(l, c)) + 1
         /\ Cardinality(HeldBy(m, a)) = Cardinality(HeldBy(l, a)) + 1
         /\ \A d \in CurrencyIds \ {c} : HoldersIn(m, d) = HoldersIn(l, d)
         /\ \A b \in Accounts \ {a} : HeldBy(m, b) = HeldBy(l, b)
<1>1. a \notin HoldersIn(l, c) /\ HoldersIn(m, c) = HoldersIn(l, c) \cup {a}
  BY DEF HoldersIn
<1>2. c \notin HeldBy(l, a) /\ HeldBy(m, a) = HeldBy(l, a) \cup {c}
  BY DEF HeldBy
<1>3. ASSUME NEW d \in CurrencyIds \ {c}
      PROVE  HoldersIn(m, d) = HoldersIn(l, d)
  BY DEF HoldersIn
<1>4. ASSUME NEW b \in Accounts \ {a}
      PROVE  HeldBy(m, b) = HeldBy(l, b)
  BY DEF HeldBy
<1>5. Cardinality(HoldersIn(m, c)) = Cardinality(HoldersIn(l, c)) + 1
  BY <1>1, LedgerFinite, FS_AddElement
<1>6. Cardinality(HeldBy(m, a)) = Cardinality(HeldBy(l, a)) + 1
  BY <1>2, LedgerFinite, FS_AddElement
<1> QED BY <1>3, <1>4, <1>5, <1>6

\* What a change of providers and users leaves.
SameMoney(l, m) ==
  /\ m.runtime = l.runtime /\ m.balances = l.balances /\ m.tokens = l.tokens
  /\ m.existential = l.existential /\ m.airdrops = l.airdrops

\* A provider more: the first one makes the account a user of the native currency.
LEMMA IncKeeps ==
  ASSUME NEW l \in Ledgers, NEW a \in Accounts, NEW n \in [CurrencyIds -> Nat], Counted(l, n)
  PROVE  /\ IncProviders(l, a) \in Ledgers /\ SameMoney(l, IncProviders(l, a))
         /\ IncProviders(l, a).providers = [l.providers EXCEPT ![a] = @ + 1]
         /\ Counted(IncProviders(l, a), n)
<1> DEFINE m == IncProviders(l, a)
           users == IF l.providers[a] = 0 THEN [l.users EXCEPT ![Native] = @ + 1]
                                          ELSE l.users
           providers == [l.providers EXCEPT ![a] = @ + 1]
<1>1. m = [l EXCEPT !.providers = providers, !.users = users]
  BY DEF IncProviders, OnNewAccount, CountUser, Ledgers
<1>2. /\ l.providers \in [Accounts -> Nat] /\ l.users \in [CurrencyIds -> Nat]
      /\ l.runtime \in Runtimes /\ Native \in CurrencyIds
  BY LedgerAssumption DEF Ledgers
<1>3. providers \in [Accounts -> Nat] /\ users \in [CurrencyIds -> Nat]
  BY <1>2
<1> HIDE DEF m, users, providers
<1>4. /\ m \in Ledgers /\ SameMoney(l, m) /\ m.providers = providers /\ m.users = users
  BY <1>1, <1>3 DEF Ledgers, SameMoney
<1>5. Counted(m, n)
  <2>1. CASE l.providers[a] = 0
    <3>1. a \notin AliveIn(l) /\ AliveIn(m) = AliveIn(l) \cup {a}
      BY <1>2, <1>4, <2>1 DEF AliveIn, providers
    <3>2. Cardinality(AliveIn(m)) = Cardinality(AliveIn(l)) + 1
      BY <3>1, LedgerFinite, FS_AddElement
    <3>3. /\ m.users[Native] = l.users[Native] + 1
          /\ \A c \in CurrencyIds \ {Native} : m.users[c] = l.users[c]
      BY <1>2, <1>4, <2>1 DEF users
    <3>4. Cardinality(AliveIn(l)) \in Nat /\ l.users[Native] \in Nat
      BY <1>2, LedgerFinite
    <3>5. m.runtime = l.runtime
      BY <1>4 DEF SameMoney
    <3>6. m.runtime = "listen" => m.users[Native] <= Cardinality(AliveIn(m))
      BY <3>2, <3>3, <3>4, <3>5 DEF Counted
    <3>7. m.runtime = "tisten" => m.users[Native] = Cardinality(AliveIn(m)) + n[Native]
      <4>1. SUFFICES ASSUME m.runtime = "tisten"
                     PROVE  m.users[Native] = Cardinality(AliveIn(m)) + n[Native]
        OBVIOUS
      <4>2. l.users[Native] = Cardinality(AliveIn(l)) + n[Native]
        BY <3>5, <4>1 DEF Counted
      <4>3. n[Native] \in Nat
        BY <1>2
      <4> QED BY <3>2, <3>3, <3>4, <4>2, <4>3
    <3> QED BY <3>3, <3>6, <3>7 DEF Counted
  <2>2. CASE l.providers[a] # 0
    <3>1. AliveIn(m) = AliveIn(l)
      BY <1>2, <1>4, <2>2 DEF AliveIn, providers
    <3>2. m.users = l.users /\ m.runtime = l.runtime
      BY <1>4, <2>2 DEF users, SameMoney
    <3> QED BY <3>1, <3>2 DEF Counted
  <2> QED BY <2>1, <2>2
<1> QED BY <1>4, <1>5 DEF m, providers

\* A provider less: without the last one the account is no user any more.
LEMMA DecKeeps ==
  ASSUME NEW l \in Ledgers, NEW a \in Accounts, NEW n \in [CurrencyIds -> Nat],
         Counted(l, n), l.providers[a] >= 1
  PROVE  /\ DecProviders(l, a) \in Ledgers /\ SameMoney(l, DecProviders(l, a))
         /\ DecProviders(l, a).providers = [l.providers EXCEPT ![a] = @ - 1]
         /\ Counted(DecProviders(l, a), n)
<1> DEFINE m == DecProviders(l, a)
           users == IF l.providers[a] = 1
                    THEN [l.users EXCEPT ![Native] = SaturatingSub(@, 1)] ELSE l.users
           providers == [l.providers EXCEPT ![a] = @ - 1]
<1>1. /\ l.providers \in [Accounts -> Nat] /\ l.users \in [CurrencyIds -> Nat]
      /\ l.runtime \in Runtimes /\ Native \in CurrencyIds
  BY LedgerAssumption DEF Ledgers
<1>2. SaturatingSub(l.providers[a], 1) = l.providers[a] - 1
  BY <1>1 DEF SaturatingSub
<1>3. m = [l EXCEPT !.providers = providers, !.users = users]
  BY <1>2 DEF DecProviders, OnKilledAccount, UncountUser, Ledgers
<1>4. providers \in [Accounts -> Nat] /\ users \in [CurrencyIds -> Nat]
  BY <1>1 DEF SaturatingSub
<1> HIDE DEF m, users, providers
<1>5. /\ m \in Ledgers /\ SameMoney(l, m) /\ m.providers = providers /\ m.users = users
  BY <1>3, <1>4 DEF Ledgers, SameMoney
<1>6. Counted(m, n)
  <2>1. CASE l.providers[a] = 1
    <3>1. a \in AliveIn(l) /\ AliveIn(m) = AliveIn(l) \ {a}
      BY <1>1, <1>5, <2>1 DEF AliveIn, providers
    <3>2. Cardinality(AliveIn(m)) = Cardinality(AliveIn(l)) - 1
      BY <3>1, LedgerFinite, FS_RemoveElement
    <3>3. /\ m.users[Native] = SaturatingSub(l.users[Native], 1)
          /\ \A c \in CurrencyIds \ {Native} : m.users[c] = l.users[c]
      BY <1>1, <1>5, <2>1 DEF users
    <3>4. /\ Cardinality(AliveIn(l)) \in Nat /\ l.users[Native] \in Nat
          /\ Cardinality(AliveIn(m)) \in Nat /\ n[Native] \in Nat
      BY <1>1, LedgerFinite
    <3>5. m.runtime = l.runtime
      BY <1>5 DEF SameMoney
    <3>6. m.runtime = "listen" => m.users[Native] <= Cardinality(AliveIn(m))
      BY <3>2, <3>3, <3>4, <3>5 DEF Counted, SaturatingSub
    <3>7. m.runtime = "tisten" => m.users[Native] = Cardinality(AliveIn(m)) + n[Native]
      <4>1. SUFFICES ASSUME m.runtime = "tisten"
                     PROVE  m.users[Native] = Cardinality(AliveIn(m)) + n[Native]
        OBVIOUS
      <4>2. l.users[Native] = Cardinality(AliveIn(l)) + n[Native]
        BY <3>5, <4>1 DEF Counted
      <4> QED BY <3>2, <3>3, <3>4, <4>2 DEF SaturatingSub
    <3> QED BY <3>3, <3>6, <3>7 DEF Counted
  <2>2. CASE l.providers[a] # 1
    <3>1. AliveIn(m) = AliveIn(l)
      BY <1>1, <1>5, <2>2 DEF AliveIn, providers
    <3>2. m.users = l.users /\ m.runtime = l.runtime
      BY <1>5, <2>2 DEF users, SameMoney
    <3> QED BY <3>1, <3>2 DEF Counted
  <2> QED BY <2>1, <2>2
<1> QED BY <1>5, <1>6 DEF m, providers

\* pallet_balances stores a native balance with its provider.
LEMMA SetNativeKeeps ==
  ASSUME NEW l, NEW n \in [CurrencyIds -> Nat], Kept(l, n),
         NEW a \in Accounts, NEW amount \in Nat
  PROVE  LET m == SetNative(l, a, amount)
         IN /\ Kept(m, n) /\ m.runtime = l.runtime /\ m.tokens = l.tokens
            /\ m.balances = [l.balances EXCEPT ![a] =
                               IF amount >= NativeED THEN amount ELSE 0]
<1> DEFINE m == SetNative(l, a, amount)
           balance == IF amount >= NativeED THEN amount ELSE 0
           balances == [l.balances EXCEPT ![a] = balance]
           stored == [l EXCEPT !.balances = balances]
           held == Cardinality(HeldBy(l, a))
<1>1. /\ l \in Ledgers /\ Backed(l) /\ Counted(l, n)
      /\ l.balances \in [Accounts -> Nat] /\ l.providers \in [Accounts -> Nat]
      /\ NativeED \in Nat \ {0}
  BY LedgerAssumption DEF Kept, Ledgers
<1>2. [l EXCEPT !.balances[a] = IF amount >= NativeED THEN amount ELSE 0] = stored
  BY <1>1 DEF Ledgers
<1>3. m = CASE l.balances[a] = 0 /\ amount >= NativeED -> IncProviders(stored, a)
            [] l.balances[a] > 0 /\ amount < NativeED -> DecProviders(stored, a)
            [] OTHER -> stored
  BY <1>2 DEF SetNative
<1>4. balance \in Nat /\ balances \in [Accounts -> Nat]
  BY <1>1
<1>5. /\ balances[a] = balance /\ \A b \in Accounts \ {a} : balances[b] = l.balances[b]
      /\ l.balances[a] \in Nat /\ l.providers[a] \in Nat
  BY <1>1
<1> HIDE DEF balances, m
<1>6. /\ stored \in Ledgers /\ stored.runtime = l.runtime /\ stored.tokens = l.tokens
      /\ stored.providers = l.providers /\ stored.users = l.users
      /\ stored.balances = balances
  BY <1>1, <1>4 DEF Ledgers
<1> HIDE DEF stored
<1>7. Counted(stored, n)
  BY <1>1, <1>6 DEF Counted, AliveIn
<1>8. /\ held \in Nat
      /\ l.providers[a] >= held + (IF l.balances[a] > 0 THEN 1 ELSE 0)
  BY <1>1, LedgerFinite DEF Backed
<1>9. \A b \in Accounts \ {a} :
        /\ l.providers[b] >= Cardinality(HeldBy(l, b)) + (IF l.balances[b] > 0 THEN 1 ELSE 0)
        /\ l.balances[b] = 0 \/ l.balances[b] >= NativeED
  BY <1>1 DEF Backed
<1>10. ASSUME NEW k, k \in Ledgers, k.balances = balances, k.tokens = l.tokens,
              \A b \in Accounts \ {a} : k.providers[b] = l.providers[b],
              k.providers[a] >= held + (IF balance > 0 THEN 1 ELSE 0)
       PROVE  Backed(k)
  <2>1. \A b \in Accounts : HeldBy(k, b) = HeldBy(l, b)
    BY <1>10 DEF HeldBy
  <2>2. balance = 0 \/ balance >= NativeED
    BY <1>1
  <2> HIDE DEF balance
  <2>3. ASSUME NEW b \in Accounts
        PROVE  /\ k.providers[b] >=
                    Cardinality(HeldBy(k, b)) + (IF k.balances[b] > 0 THEN 1 ELSE 0)
               /\ k.balances[b] = 0 \/ k.balances[b] >= NativeED
    <3>1. CASE b = a
      BY <1>5, <1>10, <2>1, <2>2, <3>1
    <3>2. CASE b # a
      BY <1>5, <1>9, <1>10, <2>1, <3>2
    <3> QED BY <3>1, <3>2
  <2> QED BY <2>3 DEF Backed
<1>11. CASE l.balances[a] = 0 /\ amount >= NativeED
  <2>1. m = IncProviders(stored, a)
    BY <1>3, <1>11
  <2>2. /\ m \in Ledgers /\ SameMoney(stored, m) /\ Counted(m, n)
        /\ m.providers = [l.providers EXCEPT ![a] = @ + 1]
    BY <1>6, <1>7, <2>1, IncKeeps
  <2>3. /\ \A b \in Accounts \ {a} : m.providers[b] = l.providers[b]
        /\ m.providers[a] >= held + 1
    BY <1>1, <1>8, <2>2, <1>11
  <2>4. balance > 0
    BY <1>1, <1>11
  <2> HIDE DEF balance, held
  <2>5. Backed(m)
    BY <1>6, <1>10, <2>2, <2>3, <2>4 DEF SameMoney
  <2> QED BY <1>6, <2>2, <2>5 DEF Kept, SameMoney, balances, balance, m
<1>12. CASE l.balances[a] > 0 /\ amount < NativeED
  <2>1. m = DecProviders(stored, a)
    BY <1>1, <1>3, <1>12
  <2>2. l.providers[a] >= held + 1
    BY <1>8, <1>12
  <2>3. /\ m \in Ledgers /\ SameMoney(stored, m) /\ Counted(m, n)
        /\ m.providers = [l.providers EXCEPT ![a] = @ - 1]
    <3>1. stored.providers[a] >= 1
      BY <1>5, <1>6, <1>8, <2>2
    <3> QED BY <1>6, <1>7, <2>1, <3>1, DecKeeps
  <2>4. /\ \A b \in Accounts \ {a} : m.providers[b] = l.providers[b]
        /\ m.providers[a] >= held
    BY <1>1, <1>5, <1>8, <2>2, <2>3
  <2>5. balance = 0
    BY <1>1, <1>12
  <2>6. m.providers[a] >= held + (IF balance > 0 THEN 1 ELSE 0)
    BY <1>8, <2>4, <2>5
  <2> HIDE DEF balance, held
  <2>7. Backed(m)
    BY <1>6, <1>10, <2>3, <2>4, <2>6 DEF SameMoney
  <2> QED BY <1>6, <2>3, <2>7 DEF Kept, SameMoney, balances, balance, m
<1>13. CASE /\ ~(l.balances[a] = 0 /\ amount >= NativeED)
            /\ ~(l.balances[a] > 0 /\ amount < NativeED)
  <2>1. m = stored
    BY <1>3, <1>13
  <2>2. balance > 0 => l.balances[a] > 0
    BY <1>1, <1>5, <1>13
  <2>3. l.providers[a] >= held + (IF balance > 0 THEN 1 ELSE 0)
    BY <1>5, <1>8, <2>2
  <2> HIDE DEF balance, held
  <2>4. Backed(m)
    BY <1>6, <1>10, <2>1, <2>3
  <2> QED BY <1>6, <1>7, <2>1, <2>4 DEF Kept, balances, balance, m
<1> QED BY <1>11, <1>12, <1>13

\* A deposit of native money takes nothing from anyone.
LEMMA NativeDepositKeeps ==
  ASSUME NEW l, NEW n \in [CurrencyIds -> Nat], Kept(l, n),
         NEW a \in Accounts, NEW amount \in Nat
  PROVE  LET m == NativeDeposit(l, a, amount)
         IN /\ Kept(m, n) /\ m.runtime = l.runtime /\ m.tokens = l.tokens
            /\ \A b \in Accounts : m.balances[b] >= l.balances[b]
<1> DEFINE total == l.balances[a] + amount
<1>1. l.balances \in [Accounts -> Nat] /\ l.balances[a] \in Nat /\ NativeED \in Nat
  BY LedgerAssumption DEF Kept, Ledgers
<1>2. CASE amount = 0 \/ (l.balances[a] = 0 /\ amount < NativeED)
  <2>1. NativeDeposit(l, a, amount) = l
    BY <1>2 DEF NativeDeposit
  <2> QED BY <1>1, <2>1
<1>3. CASE ~(amount = 0 \/ (l.balances[a] = 0 /\ amount < NativeED))
  <2>1. NativeDeposit(l, a, amount) = SetNative(l, a, total)
    BY <1>3 DEF NativeDeposit
  <2>2. total \in Nat /\ total >= NativeED /\ total >= l.balances[a]
    <3>1. l.balances[a] = 0 \/ l.balances[a] >= NativeED
      BY DEF Kept, Backed
    <3> QED BY <1>1, <1>3, <3>1
  <2> HIDE DEF total
  <2> DEFINE m == SetNative(l, a, total)
  <2>3. /\ Kept(m, n) /\ m.runtime = l.runtime /\ m.tokens = l.tokens
        /\ m.balances = [l.balances EXCEPT ![a] = IF total >= NativeED THEN total ELSE 0]
    BY <2>2, SetNativeKeeps
  <2> HIDE DEF m
  <2>4. \A b \in Accounts : m.balances[b] >= l.balances[b]
    BY <1>1, <2>2, <2>3
  <2> QED BY <2>1, <2>3, <2>4 DEF m
<1> QED BY <1>2, <1>3

\* A token account more is counted: in listen not of the native currency.
LEMMA OpenKeeps ==
  ASSUME NEW l, NEW n \in [CurrencyIds -> Nat], Kept(l, n),
         NEW a \in Accounts, NEW c \in CurrencyIds
  PROVE  LET m == OnNewTokenAccount(l, c, a)
         IN /\ Kept(m, [n EXCEPT ![c] = @ + 1])
            /\ m.runtime = l.runtime /\ m.tokens = l.tokens
            /\ \A b \in Accounts : m.balances[b] >= l.balances[b]
<1> DEFINE given == AirDropNewUser(l, c, a)
           m == OnNewTokenAccount(l, c, a)
           p == [n EXCEPT ![c] = @ + 1]
<1>1. l \in Ledgers /\ l.balances \in [Accounts -> Nat] /\ l.runtime \in Runtimes
  BY DEF Kept, Ledgers
<1>2. /\ Kept(given, n) /\ given.runtime = l.runtime /\ given.tokens = l.tokens
      /\ \A b \in Accounts : given.balances[b] >= l.balances[b]
  <2>1. CASE given = NativeDeposit(l, a, AirDropAmount)
    <3>1. AirDropAmount \in Nat
      BY LedgerAssumption
    <3> QED BY <2>1, <3>1, NativeDepositKeeps
  <2>2. CASE given = l
    BY <1>1, <2>2
  <2> QED BY <2>1, <2>2 DEF AirDropNewUser
<1>3. CASE l.runtime = "listen" /\ c = Native
  <2>1. m = l
    BY <1>3 DEF OnNewTokenAccount, ListenOnNewTokenAccount
  <2>2. Counted(l, p)
    <3>1. \A d \in CurrencyIds \ {Native} : p[d] = n[d]
      BY <1>3
    <3> QED BY <1>3, <3>1 DEF Counted, Kept
  <2> QED BY <1>1, <2>1, <2>2 DEF Kept
<1>4. CASE ~(l.runtime = "listen" /\ c = Native)
  <2> DEFINE users == [given.users EXCEPT ![c] = @ + 1]
  <2>1. m = CountUser(given, c)
    BY <1>4 DEF OnNewTokenAccount, ListenOnNewTokenAccount, TistenOnNewTokenAccount
  <2> HIDE DEF given
  <2>2. /\ given \in Ledgers /\ given.users \in [CurrencyIds -> Nat]
        /\ given.runtime \in Runtimes
    BY <1>2 DEF Kept, Ledgers
  <2>3. m = [given EXCEPT !.users = users]
    BY <2>1, <2>2 DEF CountUser, Ledgers
  <2>4. users \in [CurrencyIds -> Nat]
    BY <2>2
  <2> HIDE DEF m, users
  <2>5. /\ m \in Ledgers /\ SameMoney(given, m) /\ m.providers = given.providers
        /\ m.users = users
    BY <2>2, <2>3, <2>4 DEF Ledgers, SameMoney
  <2>6. Backed(m)
    BY <1>2, <2>5 DEF Kept, Backed, HeldBy, SameMoney
  <2>7. AliveIn(m) = AliveIn(given)
    BY <2>5 DEF AliveIn
  <2>8. /\ users[c] = given.users[c] + 1 /\ p[c] = n[c] + 1
        /\ \A d \in CurrencyIds \ {c} : users[d] = given.users[d] /\ p[d] = n[d]
    BY <2>2 DEF users
  <2>9. /\ Native \in CurrencyIds /\ n[c] \in Nat /\ n[Native] \in Nat
        /\ Cardinality(AliveIn(given)) \in Nat
    BY LedgerAssumption, LedgerFinite
  <2> HIDE DEF p
  <2>10. Counted(m, p)
    <3>1. \A d \in CurrencyIds \ {Native} : m.users[d] = p[d]
      BY <1>2, <2>5, <2>8 DEF Counted, Kept
    <3>2. m.runtime = "listen" => m.users[Native] <= Cardinality(AliveIn(m))
      BY <1>2, <1>4, <2>5, <2>7, <2>8, <2>9 DEF Counted, Kept, SameMoney
    <3>3. m.runtime = "tisten" => m.users[Native] = Cardinality(AliveIn(m)) + p[Native]
      <4>1. SUFFICES ASSUME m.runtime = "tisten"
                     PROVE  m.users[Native] = Cardinality(AliveIn(m)) + p[Native]
        OBVIOUS
      <4>2. given.users[Native] = Cardinality(AliveIn(given)) + n[Native]
        BY <1>2, <2>5, <4>1 DEF Counted, Kept, SameMoney
      <4>3. CASE c = Native
        BY <2>5, <2>7, <2>8, <2>9, <4>2, <4>3
      <4>4. CASE c # Native
        BY <2>5, <2>7, <2>8, <2>9, <4>2, <4>4
      <4> QED BY <4>3, <4>4
    <3> QED BY <3>1, <3>2, <3>3 DEF Counted
  <2>11. /\ Kept(m, p) /\ m.runtime = l.runtime /\ m.tokens = l.tokens
         /\ \A b \in Accounts : m.balances[b] >= l.balances[b]
    BY <1>2, <2>5, <2>6, <2>10 DEF Kept, SameMoney
  <2> QED BY <2>11 DEF m, p
<1> QED BY <1>3, <1>4

\* A token account less is counted.
LEMMA CloseKeeps ==
  ASSUME NEW l, NEW n \in [CurrencyIds -> Nat], Kept(l, n),
         NEW c \in CurrencyIds, n[c] >= 1
  PROVE  LET m == OnKilledTokenAccount(l, c)
         IN /\ Kept(m, [n EXCEPT ![c] = @ - 1]) /\ SameMoney(l, m)
<1> DEFINE m == OnKilledTokenAccount(l, c)
           users == [l.users EXCEPT ![c] = SaturatingSub(@, 1)]
           p == [n EXCEPT ![c] = @ - 1]
<1>1. /\ l \in Ledgers /\ l.users \in [CurrencyIds -> Nat] /\ Native \in CurrencyIds
      /\ l.runtime \in Runtimes
  BY LedgerAssumption DEF Kept, Ledgers
<1>2. m = [l EXCEPT !.users = users]
  BY <1>1 DEF OnKilledTokenAccount, UncountUser, Ledgers
<1>3. users \in [CurrencyIds -> Nat]
  BY <1>1 DEF SaturatingSub
<1>4. /\ users[c] = SaturatingSub(l.users[c], 1) /\ p[c] = n[c] - 1
      /\ \A d \in CurrencyIds \ {c} : users[d] = l.users[d] /\ p[d] = n[d]
  BY <1>1
<1> HIDE DEF m, users, p
<1>5. /\ m \in Ledgers /\ SameMoney(l, m) /\ m.providers = l.providers /\ m.users = users
  BY <1>1, <1>2, <1>3 DEF Ledgers, SameMoney
<1>6. Backed(m)
  BY <1>5 DEF Kept, Backed, HeldBy, SameMoney
<1>7. AliveIn(m) = AliveIn(l) /\ m.runtime = l.runtime
  BY <1>5 DEF AliveIn, SameMoney
<1>8. /\ n[c] \in Nat /\ n[Native] \in Nat /\ Cardinality(AliveIn(l)) \in Nat
      /\ l.users[c] \in Nat /\ l.users[Native] \in Nat
  BY <1>1, LedgerFinite
<1>9. Counted(l, n)
  BY DEF Kept
<1>10. Counted(m, p)
  <2>1. ASSUME NEW d \in CurrencyIds \ {Native}
        PROVE  m.users[d] = p[d]
    <3>1. l.users[d] = n[d]
      BY <1>9 DEF Counted
    <3>2. CASE d = c
      BY <1>4, <1>5, <1>8, <3>1, <3>2 DEF SaturatingSub
    <3>3. CASE d # c
      BY <1>4, <1>5, <3>1, <3>3
    <3> QED BY <3>2, <3>3
  <2>2. users[Native] <= l.users[Native]
    <3>1. CASE c = Native
      BY <1>4, <1>8, <3>1 DEF SaturatingSub
    <3>2. CASE c # Native
      BY <1>1, <1>4, <1>8, <3>2
    <3> QED BY <3>1, <3>2
  <2>3. users[Native] \in Nat
    BY <1>1, <1>3
  <2>4. m.runtime = "listen" => m.users[Native] <= Cardinality(AliveIn(m))
    BY <1>5, <1>7, <1>8, <1>9, <2>2, <2>3 DEF Counted
  <2>5. m.runtime = "tisten" => m.users[Native] = Cardinality(AliveIn(m)) + p[Native]
    <3>1. SUFFICES ASSUME m.runtime = "tisten"
                   PROVE  m.users[Native] = Cardinality(AliveIn(m)) + p[Native]
      OBVIOUS
    <3>2. l.users[Native] = Cardinality(AliveIn(l)) + n[Native]
      BY <1>7, <1>9, <3>1 DEF Counted
    <3>3. CASE c = Native
      BY <1>4, <1>5, <1>7, <1>8, <3>2, <3>3 DEF SaturatingSub
    <3>4. CASE c # Native
      BY <1>1, <1>4, <1>5, <1>7, <1>8, <3>2, <3>4
    <3> QED BY <3>3, <3>4
  <2> QED BY <2>1, <2>4, <2>5 DEF Counted
<1>11. Kept(m, p) /\ SameMoney(l, m)
  BY <1>5, <1>6, <1>10 DEF Kept
<1> QED BY <1>11 DEF m, p

\* m is l with amount tokens of c on account a; nobody's native money is taken.
Stores(l, m, c, a, amount) ==
  /\ m.runtime = l.runtime
  /\ TokenBalance(m, c, a) = amount
  /\ \A d \in CurrencyIds, b \in Accounts :
       <<d, b>> # <<c, a>> => TokenBalance(m, d, b) = TokenBalance(l, d, b)
  /\ \A b \in Accounts : m.balances[b] >= l.balances[b]

\* The tokens are stored before anything is counted.
LEMMA TokensStored ==
  ASSUME NEW l \in Ledgers, NEW c \in CurrencyIds, NEW a \in Accounts, NEW amount \in Nat,
         NEW tokens,
         tokens = Put(l.tokens, <<c, a>>, amount)
           \/ (tokens = Without(l.tokens, <<c, a>>) /\ amount = 0)
  PROVE  LET m == [l EXCEPT !.tokens = tokens]
         IN /\ m \in Ledgers /\ m.tokens = tokens /\ m.balances = l.balances
            /\ m.runtime = l.runtime /\ m.providers = l.providers /\ m.users = l.users
            /\ \A k : k \in Ledgers /\ k.tokens = tokens /\ k.runtime = l.runtime
                        /\ (\A b \in Accounts : k.balances[b] >= l.balances[b])
                        => Stores(l, k, c, a, amount)
<1> DEFINE m == [l EXCEPT !.tokens = tokens]
           key == <<c, a>>
<1>1. l.tokens \in TokenMaps /\ key \in TokenKeys
  BY DEF Ledgers, TokenKeys
<1>2. /\ l.tokens = [k \in DOMAIN l.tokens |-> l.tokens[k]] /\ DOMAIN l.tokens \subseteq TokenKeys
      /\ \A k \in DOMAIN l.tokens : l.tokens[k] \in Nat
  BY <1>1, TokenMapType
<1> DEFINE old == l.tokens
<1> HIDE DEF old, key
<1>3. /\ old = [k \in DOMAIN old |-> old[k]] /\ DOMAIN old \subseteq TokenKeys
      /\ \A k \in DOMAIN old : old[k] \in Nat
      /\ tokens = Put(old, key, amount) \/ (tokens = Without(old, key) /\ amount = 0)
  BY <1>2 DEF old, key
<1>4. /\ tokens = [k \in DOMAIN tokens |-> tokens[k]] /\ DOMAIN tokens \subseteq TokenKeys
      /\ \A k \in DOMAIN tokens : tokens[k] \in Nat
      /\ key \in DOMAIN tokens => tokens[key] = amount
      /\ key \notin DOMAIN tokens => amount = 0
      /\ \A k : k # key => (k \in DOMAIN tokens <=> k \in DOMAIN old)
      /\ \A k \in DOMAIN tokens : k # key => tokens[k] = old[k]
  <2>1. CASE tokens = Put(old, key, amount)
    <3>1. /\ DOMAIN tokens = DOMAIN old \cup {key}
          /\ tokens = [k \in DOMAIN tokens |-> tokens[k]]
          /\ tokens[key] = amount
          /\ \A k \in DOMAIN tokens : k # key => tokens[k] = old[k]
      BY <2>1 DEF Put
    <3> QED BY <1>1, <1>3, <3>1
  <2>2. CASE tokens = Without(old, key) /\ amount = 0
    <3>1. /\ DOMAIN tokens = DOMAIN old \ {key}
          /\ tokens = [k \in DOMAIN tokens |-> tokens[k]]
          /\ \A k \in DOMAIN tokens : tokens[k] = old[k]
      BY <2>2 DEF Without
    <3> QED BY <1>1, <1>3, <2>2, <3>1
  <2> QED BY <1>3, <2>1, <2>2
<1>5. tokens \in TokenMaps
  BY <1>4, TokenMapType
<1>6. /\ m \in Ledgers /\ m.tokens = tokens /\ m.balances = l.balances
      /\ m.runtime = l.runtime /\ m.providers = l.providers /\ m.users = l.users
  BY <1>5 DEF Ledgers
<1>7. ASSUME NEW k, k.tokens = tokens, k.runtime = l.runtime,
             \A b \in Accounts : k.balances[b] >= l.balances[b]
      PROVE  Stores(l, k, c, a, amount)
  <2>1. TokenBalance(k, c, a) = amount
    BY <1>4, <1>7 DEF TokenBalance, key
  <2>2. ASSUME NEW d \in CurrencyIds, NEW b \in Accounts, <<d, b>> # <<c, a>>
        PROVE  TokenBalance(k, d, b) = TokenBalance(l, d, b)
    <3>1. <<d, b>> # key
      BY <2>2 DEF key
    <3>2. /\ <<d, b>> \in DOMAIN tokens <=> <<d, b>> \in DOMAIN old
          /\ <<d, b>> \in DOMAIN tokens => tokens[<<d, b>>] = old[<<d, b>>]
      BY <1>4, <3>1
    <3> QED BY <1>7, <3>2 DEF TokenBalance, old
  <2> QED BY <1>7, <2>1, <2>2 DEF Stores
<1> QED BY <1>6, <1>7

\* orml_tokens stores a balance: the account that opens gets its provider and is
\* counted, the one that closes gives up its own provider and no other.
LEMMA SetTokenKeeps ==
  ASSUME NEW l, Sound(l), NEW c \in CurrencyIds, NEW a \in Accounts, NEW amount \in Nat
  PROVE  /\ Sound(SetToken(l, c, a, amount))
         /\ Stores(l, SetToken(l, c, a, amount), c, a, amount)
<1> DEFINE m == SetToken(l, c, a, amount)
           key == <<c, a>>
           exists == amount > 0 \/ l.existential[c] = 0
           tokens == IF exists THEN Put(l.tokens, key, amount) ELSE Without(l.tokens, key)
           stored == [l EXCEPT !.tokens = tokens]
           n == TokenAccounts(l)
<1>1. /\ l \in Ledgers /\ Backed(l) /\ Counted(l, n) /\ n \in [CurrencyIds -> Nat]
      /\ l.balances \in [Accounts -> Nat] /\ l.providers \in [Accounts -> Nat]
  BY LedgerFinite DEF Sound, Kept, Ledgers, TokenAccounts
<1>2. [l EXCEPT !.tokens = IF exists THEN Put(@, key, amount) ELSE Without(@, key)] = stored
  BY <1>1 DEF Ledgers
<1>3. m = CASE key \notin DOMAIN l.tokens /\ exists ->
                 OnNewTokenAccount(IncProviders(stored, a), c, a)
            [] key \in DOMAIN l.tokens /\ ~exists ->
                 OnKilledTokenAccount(DecProviders(stored, a), c)
            [] OTHER -> stored
  BY <1>2 DEF SetToken
<1>4. \/ tokens = Put(l.tokens, key, amount)
      \/ (tokens = Without(l.tokens, key) /\ amount = 0)
  OBVIOUS
<1>5. /\ exists => DOMAIN tokens = DOMAIN l.tokens \cup {key}
      /\ ~exists => DOMAIN tokens = DOMAIN l.tokens \ {key}
  BY DEF Put, Without
<1>6. \A d \in CurrencyIds : n[d] = Cardinality(HoldersIn(l, d))
  BY DEF TokenAccounts
<1> HIDE DEF m, tokens, exists, n
<1>7. /\ stored \in Ledgers /\ stored.tokens = tokens /\ stored.balances = l.balances
      /\ stored.runtime = l.runtime /\ stored.providers = l.providers
      /\ stored.users = l.users
      /\ \A k : k \in Ledgers /\ k.tokens = tokens /\ k.runtime = l.runtime
                  /\ (\A b \in Accounts : k.balances[b] >= l.balances[b])
                  => Stores(l, k, c, a, amount)
  BY <1>1, <1>4, TokensStored
<1> HIDE DEF stored
<1>8. Counted(stored, n)
  BY <1>1, <1>7 DEF Counted, AliveIn
<1>9. \A k : k.tokens = tokens =>
        /\ \A d : HoldersIn(k, d) = HoldersIn(stored, d)
        /\ \A b : HeldBy(k, b) = HeldBy(stored, b)
  BY <1>7 DEF HoldersIn, HeldBy
<1>10. \A b \in Accounts :
         /\ l.providers[b] >= Cardinality(HeldBy(l, b)) + (IF l.balances[b] > 0 THEN 1 ELSE 0)
         /\ l.balances[b] = 0 \/ l.balances[b] >= NativeED
         /\ l.balances[b] \in Nat /\ l.providers[b] \in Nat
         /\ Cardinality(HeldBy(l, b)) \in Nat
  BY <1>1, LedgerFinite DEF Backed
<1>11. CASE key \notin DOMAIN l.tokens /\ exists
  <2> DEFINE counted == IncProviders(stored, a)
             p == [n EXCEPT ![c] = @ + 1]
  <2>1. m = OnNewTokenAccount(counted, c, a)
    BY <1>3, <1>11
  <2>2. /\ counted \in Ledgers /\ SameMoney(stored, counted) /\ Counted(counted, n)
        /\ counted.providers = [l.providers EXCEPT ![a] = @ + 1]
    BY <1>1, <1>7, <1>8, IncKeeps
  <2> HIDE DEF counted
  <2>3. /\ Cardinality(HoldersIn(stored, c)) = Cardinality(HoldersIn(l, c)) + 1
        /\ Cardinality(HeldBy(stored, a)) = Cardinality(HeldBy(l, a)) + 1
        /\ \A d \in CurrencyIds \ {c} : HoldersIn(stored, d) = HoldersIn(l, d)
        /\ \A b \in Accounts \ {a} : HeldBy(stored, b) = HeldBy(l, b)
    BY <1>5, <1>7, <1>11, AccountMore DEF key
  <2>4. ASSUME NEW b \in Accounts
        PROVE  /\ counted.providers[b] >=
                    Cardinality(HeldBy(counted, b)) + (IF counted.balances[b] > 0 THEN 1 ELSE 0)
               /\ counted.balances[b] = 0 \/ counted.balances[b] >= NativeED
    <3>1. HeldBy(counted, b) = HeldBy(stored, b) /\ counted.balances[b] = l.balances[b]
      BY <1>7, <1>9, <2>2 DEF SameMoney
    <3>2. CASE b = a
      <4>1. counted.providers[b] = l.providers[b] + 1
        BY <1>1, <2>2, <3>2
      <4> QED BY <1>10, <2>3, <3>1, <3>2, <4>1
    <3>3. CASE b # a
      <4>1. counted.providers[b] = l.providers[b]
        BY <1>1, <2>2, <3>3
      <4> QED BY <1>10, <2>3, <3>1, <3>3, <4>1
    <3> QED BY <3>2, <3>3
  <2>5. Kept(counted, n)
    BY <2>2, <2>4 DEF Kept, Backed
  <2>6. /\ Kept(m, p) /\ m.runtime = counted.runtime /\ m.tokens = counted.tokens
        /\ \A b \in Accounts : m.balances[b] >= counted.balances[b]
    BY <1>1, <2>1, <2>5, OpenKeeps
  <2>7. /\ m.runtime = l.runtime /\ m.tokens = tokens
        /\ \A b \in Accounts : m.balances[b] >= l.balances[b]
    BY <1>7, <2>2, <2>6 DEF SameMoney
  <2>8. ASSUME NEW d \in CurrencyIds
        PROVE  p[d] = Cardinality(HoldersIn(m, d))
    <3>1. HoldersIn(m, d) = HoldersIn(stored, d)
      BY <1>9, <2>7
    <3> QED BY <1>1, <1>6, <2>3, <3>1
  <2>9. p = TokenAccounts(m)
    BY <1>1, <2>8 DEF TokenAccounts
  <2>10. m \in Ledgers
    BY <2>6 DEF Kept
  <2>11. Sound(m) /\ Stores(l, m, c, a, amount)
    BY <1>7, <2>6, <2>7, <2>9, <2>10 DEF Sound
  <2> QED BY <2>11 DEF m
<1>12. CASE key \in DOMAIN l.tokens /\ ~exists
  <2> DEFINE counted == DecProviders(stored, a)
             p == [n EXCEPT ![c] = @ - 1]
  <2>1. m = OnKilledTokenAccount(counted, c)
    BY <1>3, <1>12
  <2>2. /\ Cardinality(HoldersIn(l, c)) = Cardinality(HoldersIn(stored, c)) + 1
        /\ Cardinality(HeldBy(l, a)) = Cardinality(HeldBy(stored, a)) + 1
        /\ \A d \in CurrencyIds \ {c} : HoldersIn(l, d) = HoldersIn(stored, d)
        /\ \A b \in Accounts \ {a} : HeldBy(l, b) = HeldBy(stored, b)
    <3>1. key \notin DOMAIN stored.tokens /\ DOMAIN l.tokens = DOMAIN stored.tokens \cup {key}
      BY <1>5, <1>7, <1>12
    <3> QED BY <3>1, AccountMore DEF key
  <2>3. /\ Cardinality(HeldBy(stored, a)) \in Nat
        /\ Cardinality(HoldersIn(stored, c)) \in Nat
    BY LedgerFinite
  <2>4. l.providers[a] >= 1
    BY <1>10, <2>2, <2>3
  <2>5. /\ counted \in Ledgers /\ SameMoney(stored, counted) /\ Counted(counted, n)
        /\ counted.providers = [l.providers EXCEPT ![a] = @ - 1]
    <3>1. stored.providers[a] >= 1
      BY <1>7, <2>4
    <3> QED BY <1>1, <1>7, <1>8, <3>1, DecKeeps
  <2> HIDE DEF counted
  <2>6. ASSUME NEW b \in Accounts
        PROVE  /\ counted.providers[b] >=
                    Cardinality(HeldBy(counted, b)) + (IF counted.balances[b] > 0 THEN 1 ELSE 0)
               /\ counted.balances[b] = 0 \/ counted.balances[b] >= NativeED
    <3>1. HeldBy(counted, b) = HeldBy(stored, b) /\ counted.balances[b] = l.balances[b]
      BY <1>7, <1>9, <2>5 DEF SameMoney
    <3>2. CASE b = a
      <4>1. counted.providers[b] = l.providers[b] - 1
        BY <1>1, <2>5, <3>2
      <4> QED BY <1>10, <2>2, <2>3, <3>1, <3>2, <4>1
    <3>3. CASE b # a
      <4>1. counted.providers[b] = l.providers[b]
        BY <1>1, <2>5, <3>3
      <4> QED BY <1>10, <2>2, <3>1, <3>3, <4>1
    <3> QED BY <3>2, <3>3
  <2>7. Kept(counted, n)
    BY <2>5, <2>6 DEF Kept, Backed
  <2>8. n[c] >= 1
    BY <1>6, <2>2, <2>3
  <2>9. Kept(m, p) /\ SameMoney(counted, m)
    BY <1>1, <2>1, <2>7, <2>8, CloseKeeps
  <2>10. /\ m.runtime = l.runtime /\ m.tokens = tokens /\ m.balances = l.balances
    BY <1>7, <2>5, <2>9 DEF SameMoney
  <2>11. ASSUME NEW d \in CurrencyIds
        PROVE  p[d] = Cardinality(HoldersIn(m, d))
    <3>1. HoldersIn(m, d) = HoldersIn(stored, d)
      BY <1>9, <2>10
    <3> QED BY <1>1, <1>6, <2>2, <2>3, <3>1
  <2>12. p = TokenAccounts(m)
    BY <1>1, <2>11 DEF TokenAccounts
  <2>13. m \in Ledgers /\ \A b \in Accounts : m.balances[b] >= l.balances[b]
    BY <1>10, <2>9, <2>10 DEF Kept
  <2>14. Sound(m) /\ Stores(l, m, c, a, amount)
    BY <1>7, <2>9, <2>10, <2>12, <2>13 DEF Sound
  <2> QED BY <2>14 DEF m
<1>13. CASE key \in DOMAIN l.tokens <=> exists
  <2>1. m = stored /\ DOMAIN tokens = DOMAIN l.tokens
    BY <1>3, <1>5, <1>13
  <2>2. /\ \A d : HoldersIn(m, d) = HoldersIn(l, d)
        /\ \A b : HeldBy(m, b) = HeldBy(l, b)
    BY <1>7, <2>1 DEF HoldersIn, HeldBy
  <2>3. Backed(m)
    BY <1>7, <1>10, <2>1, <2>2 DEF Backed
  <2>4. TokenAccounts(m) = n
    BY <2>2 DEF TokenAccounts, n
  <2>5. \A b \in Accounts : m.balances[b] >= l.balances[b]
    BY <1>7, <1>10, <2>1
  <2>6. Sound(m) /\ Stores(l, m, c, a, amount)
    BY <1>7, <1>8, <2>1, <2>3, <2>4, <2>5 DEF Sound, Kept
  <2> QED BY <2>6 DEF m
<1> QED BY <1>11, <1>12, <1>13

\* What changes no token account leaves the counts as they are.
LEMMA SameTokens ==
  ASSUME NEW l, Sound(l), NEW m, m.tokens = l.tokens
  PROVE  /\ Kept(l, TokenAccounts(l)) /\ TokenAccounts(l) \in [CurrencyIds -> Nat]
         /\ TokenAccounts(m) = TokenAccounts(l)
<1>1. \A c \in CurrencyIds : HoldersIn(m, c) = HoldersIn(l, c)
  BY DEF HoldersIn
<1> QED BY <1>1, LedgerFinite DEF Sound, TokenAccounts

LEMMA IncSound ==
  ASSUME NEW l, Sound(l), NEW a \in Accounts
  PROVE  Sound(IncProviders(l, a)) /\ SameMoney(l, IncProviders(l, a))
<1> DEFINE n == TokenAccounts(l)
           m == IncProviders(l, a)
<1>1. l \in Ledgers /\ Counted(l, n) /\ n \in [CurrencyIds -> Nat] /\ Backed(l)
  BY SameTokens DEF Kept
<1> HIDE DEF n
<1>2. /\ m \in Ledgers /\ SameMoney(l, m) /\ Counted(m, n)
      /\ m.providers = [l.providers EXCEPT ![a] = @ + 1]
  BY <1>1, IncKeeps
<1>3. TokenAccounts(m) = n
  BY <1>2, SameTokens DEF SameMoney, n
<1> HIDE DEF m
<1>4. l.providers \in [Accounts -> Nat]
  BY <1>1 DEF Ledgers
<1>5. ASSUME NEW b \in Accounts
      PROVE  /\ m.providers[b] >=
                  Cardinality(HeldBy(m, b)) + (IF m.balances[b] > 0 THEN 1 ELSE 0)
             /\ m.balances[b] = 0 \/ m.balances[b] >= NativeED
  <2>1. HeldBy(m, b) = HeldBy(l, b) /\ m.balances[b] = l.balances[b]
    BY <1>2 DEF SameMoney, HeldBy
  <2>2. m.providers[b] \in Nat /\ m.providers[b] >= l.providers[b] /\ l.providers[b] \in Nat
    BY <1>2, <1>4
  <2>3. Cardinality(HeldBy(l, b)) \in Nat
    BY LedgerFinite
  <2>4. /\ l.providers[b] >= Cardinality(HeldBy(l, b)) + (IF l.balances[b] > 0 THEN 1 ELSE 0)
        /\ l.balances[b] = 0 \/ l.balances[b] >= NativeED
    BY <1>1 DEF Backed
  <2> QED BY <2>1, <2>2, <2>3, <2>4
<1> QED BY <1>2, <1>3, <1>5 DEF Sound, Kept, Backed, m

LEMMA NativeDepositSound ==
  ASSUME NEW l, Sound(l), NEW a \in Accounts, NEW amount \in Nat
  PROVE  LET m == NativeDeposit(l, a, amount)
         IN /\ Sound(m) /\ m.tokens = l.tokens
            /\ \A b \in Accounts : m.balances[b] >= l.balances[b]
<1> DEFINE n == TokenAccounts(l)
           m == NativeDeposit(l, a, amount)
<1>1. Kept(l, n) /\ n \in [CurrencyIds -> Nat]
  BY SameTokens
<1> HIDE DEF n
<1>2. /\ Kept(m, n) /\ m.tokens = l.tokens
      /\ \A b \in Accounts : m.balances[b] >= l.balances[b]
  BY <1>1, NativeDepositKeeps
<1>3. TokenAccounts(m) = n
  BY <1>2, SameTokens DEF n
<1> QED BY <1>2, <1>3 DEF Sound

\* A withdrawal of native money changes the balance of its account alone, and
\* that is not used up when the air drop stays.
LEMMA NativeWithdrawSound ==
  ASSUME NEW l, Sound(l), NEW a \in Accounts, NEW amount \in Nat,
         NativeBalance(l, a) >= amount
  PROVE  LET m == NativeWithdraw(l, a, amount)
         IN /\ Sound(m) /\ m.tokens = l.tokens
            /\ \A b \in Accounts \ {a} : m.balances[b] = l.balances[b]
            /\ LeavesAirDrop(l, a, amount) => m.balances[a] > 0
<1> DEFINE n == TokenAccounts(l)
           left == l.balances[a] - amount
           m == SetNative(l, a, left)
<1>1. /\ Kept(l, n) /\ n \in [CurrencyIds -> Nat] /\ l.balances \in [Accounts -> Nat]
      /\ l.balances[a] \in Nat /\ l.balances[a] >= amount
  BY SameTokens DEF Kept, Ledgers, NativeBalance
<1>2. left \in Nat
  BY <1>1
<1>3. LeavesAirDrop(l, a, amount) => left >= NativeED /\ left > 0
  BY <1>1, LedgerAssumption DEF LeavesAirDrop, SaturatingSub, NativeBalance
<1> HIDE DEF n, left
<1>4. /\ Kept(m, n) /\ m.tokens = l.tokens
      /\ m.balances = [l.balances EXCEPT ![a] = IF left >= NativeED THEN left ELSE 0]
  BY <1>1, <1>2, SetNativeKeeps
<1>5. TokenAccounts(m) = n
  BY <1>4, SameTokens DEF n
<1>6. m = NativeWithdraw(l, a, amount)
  BY DEF NativeWithdraw, NativeBalance, left
<1> HIDE DEF m
<1>7. /\ \A b \in Accounts \ {a} : m.balances[b] = l.balances[b]
      /\ LeavesAirDrop(l, a, amount) => m.balances[a] > 0
  BY <1>1, <1>3, <1>4
<1>8. Sound(m)
  BY <1>4, <1>5 DEF Sound
<1> QED BY <1>4, <1>6, <1>7, <1>8

LEMMA TokenBalanceType ==
  ASSUME NEW l, Sound(l), NEW c, NEW a
  PROVE  TokenBalance(l, c, a) \in Nat
<1>1. IsLedger(l)
  BY LedgersAre DEF Sound, Kept
<1> QED BY <1>1 DEF IsLedger, TokenBalance

LEMMA TokenDepositSound ==
  ASSUME NEW l, Sound(l), NEW c \in CurrencyIds, NEW a \in Accounts, NEW amount \in Nat
  PROVE  LET m == TokenDeposit(l, c, a, amount)
         IN Sound(m) /\ Stores(l, m, c, a, TokenBalance(l, c, a) + amount)
<1> DEFINE m == TokenDeposit(l, c, a, amount)
           total == TokenBalance(l, c, a) + amount
<1>1. TokenBalance(l, c, a) \in Nat /\ total \in Nat
  BY TokenBalanceType
<1>2. CASE amount = 0
  <2>1. m = l /\ total = TokenBalance(l, c, a)
    BY <1>1, <1>2 DEF TokenDeposit
  <2>2. \A b \in Accounts : l.balances[b] >= l.balances[b]
    BY DEF Sound, Kept, Ledgers
  <2> QED BY <2>1, <2>2 DEF Stores
<1>3. CASE amount # 0
  <2>1. m = SetToken(l, c, a, total)
    BY <1>3 DEF TokenDeposit
  <2> HIDE DEF total, m
  <2>2. Sound(m) /\ Stores(l, m, c, a, total)
    BY <1>1, <2>1, SetTokenKeeps
  <2> QED BY <2>2 DEF total, m
<1> QED BY <1>2, <1>3

LEMMA TokenWithdrawSound ==
  ASSUME NEW l, Sound(l), NEW c \in CurrencyIds, NEW a \in Accounts, NEW amount \in Nat,
         CanTokenWithdraw(l, c, a, amount)
  PROVE  LET m == TokenWithdraw(l, c, a, amount)
         IN Sound(m) /\ Stores(l, m, c, a, TokenBalance(l, c, a) - amount)
<1> DEFINE m == TokenWithdraw(l, c, a, amount)
           left == TokenBalance(l, c, a) - amount
<1>1. TokenBalance(l, c, a) \in Nat /\ left \in Nat
  BY TokenBalanceType DEF CanTokenWithdraw
<1>2. CASE amount = 0
  <2>1. m = l /\ left = TokenBalance(l, c, a)
    BY <1>1, <1>2 DEF TokenWithdraw
  <2>2. \A b \in Accounts : l.balances[b] >= l.balances[b]
    BY DEF Sound, Kept, Ledgers
  <2> QED BY <2>1, <2>2 DEF Stores
<1>3. CASE amount # 0
  <2>1. m = SetToken(l, c, a, left)
    BY <1>3 DEF TokenWithdraw
  <2> HIDE DEF left, m
  <2>2. Sound(m) /\ Stores(l, m, c, a, left)
    BY <1>1, <2>1, SetTokenKeeps
  <2> QED BY <2>2 DEF left, m
<1> QED BY <1>2, <1>3

\* All the tokens of a currency.
SupplyOf(l, c) == SumFunction([a \in Accounts |-> TokenBalance(l, c, a)])

\* From ledger l to ledger m no account loses the last of its native money.
NobodyLeft(l, m) == \A b \in Accounts : l.balances[b] > 0 => m.balances[b] > 0

LEMMA SupplySame ==
  ASSUME NEW l, NEW m, NEW c \in CurrencyIds,
         \A a \in Accounts : TokenBalance(m, c, a) = TokenBalance(l, c, a)
  PROVE  SupplyOf(m, c) = SupplyOf(l, c)
BY DEF SupplyOf

\* A change of the settings leaves the money and the counts.
LEMMA SettingsKeep ==
  ASSUME NEW l, Sound(l), NEW m, m \in Ledgers, m.runtime = l.runtime,
         m.balances = l.balances, m.tokens = l.tokens, m.providers = l.providers,
         m.users = l.users
  PROVE  Sound(m) /\ NobodyLeft(l, m) /\ \A d \in CurrencyIds : SupplyOf(m, d) = SupplyOf(l, d)
<1>1. \A a : HeldBy(m, a) = HeldBy(l, a)
  BY DEF HeldBy
<1>2. AliveIn(m) = AliveIn(l) /\ TokenAccounts(m) = TokenAccounts(l)
  BY SameTokens DEF AliveIn
<1>3. Backed(m) /\ Counted(m, TokenAccounts(m))
  BY <1>1, <1>2 DEF Sound, Kept, Backed, Counted
<1>4. \A d \in CurrencyIds : SupplyOf(m, d) = SupplyOf(l, d)
  BY SupplySame DEF TokenBalance
<1> QED BY <1>3, <1>4 DEF Sound, Kept, NobodyLeft

\* The supply of a currency follows the balance that is stored.
LEMMA SupplyStored ==
  ASSUME NEW l, Sound(l), NEW m, Sound(m), NEW c \in CurrencyIds, NEW a \in Accounts,
         NEW amount \in Nat, Stores(l, m, c, a, amount)
  PROVE  /\ SupplyOf(l, c) \in Int
         /\ SupplyOf(m, c) = SupplyOf(l, c) - TokenBalance(l, c, a) + amount
         /\ \A d \in CurrencyIds \ {c} : SupplyOf(m, d) = SupplyOf(l, d)
<1> DEFINE f == [b \in Accounts |-> TokenBalance(l, c, b)]
           g == [b \in Accounts |-> TokenBalance(m, c, b)]
<1>1. /\ IsFiniteSet(Accounts) /\ DOMAIN f = Accounts /\ DOMAIN g = Accounts
      /\ f[a] = TokenBalance(l, c, a) /\ g[a] = amount
      /\ \A b \in Accounts \ {a} : g[b] = f[b]
  <2>1. \A b \in Accounts \ {a} : <<c, b>> # <<c, a>>
    OBVIOUS
  <2> QED BY <2>1, LedgerAssumption DEF Stores
<1>2. IntegerOn(f, Accounts)
  BY TokenBalanceType DEF IntegerOn
<1>3. SupplyOf(l, c) = SumFunctionOnSet(f, Accounts)
  BY DEF SupplyOf, SumFunction
<1>4. SupplyOf(m, c) = SumFunctionOnSet(g, Accounts)
  BY DEF SupplyOf, SumFunction
<1> HIDE DEF f, g
<1>5. SumFunctionOnSet(f, Accounts) \in Int
  BY <1>1, <1>2, SumInt
<1>6. SumFunctionOnSet(g, Accounts) = SumFunctionOnSet(f, Accounts) - f[a] + g[a]
  BY <1>1, <1>2, SumUpdate
<1>7. ASSUME NEW d \in CurrencyIds \ {c}
      PROVE  SupplyOf(m, d) = SupplyOf(l, d)
  <2>1. \A b \in Accounts : TokenBalance(m, d, b) = TokenBalance(l, d, b)
    BY DEF Stores
  <2> QED BY <2>1, SupplySame
<1> QED BY <1>1, <1>3, <1>4, <1>5, <1>6, <1>7

\* A transfer of tokens leaves the supply of every currency.
LEMMA TokenTransferSound ==
  ASSUME NEW l, Sound(l), NEW c \in CurrencyIds, NEW from \in Accounts,
         NEW to \in Accounts, from # to, NEW amount \in Nat \ {0},
         CanTokenTransfer(l, c, from, to, amount)
  PROVE  LET m == TokenTransfer(l, c, from, to, amount)
         IN /\ Sound(m) /\ NobodyLeft(l, m)
            /\ \A d \in CurrencyIds : SupplyOf(m, d) = SupplyOf(l, d)
<1> DEFINE k == TokenWithdraw(l, c, from, amount)
           m == TokenDeposit(k, c, to, amount)
           left == TokenBalance(l, c, from) - amount
           total == TokenBalance(k, c, to) + amount
<1>1. m = TokenTransfer(l, c, from, to, amount)
  BY DEF TokenTransfer
<1>2. CanTokenWithdraw(l, c, from, amount)
  BY DEF CanTokenTransfer
<1>3. Sound(k) /\ Stores(l, k, c, from, left)
  BY <1>2, TokenWithdrawSound
<1> HIDE DEF k
<1>4. Sound(m) /\ Stores(k, m, c, to, total)
  BY <1>3, TokenDepositSound
<1> HIDE DEF m
<1>5. /\ TokenBalance(l, c, from) \in Nat /\ TokenBalance(k, c, to) \in Nat
      /\ left \in Nat /\ total \in Nat
  BY <1>2, <1>3, TokenBalanceType DEF CanTokenWithdraw
<1>6. /\ SupplyOf(l, c) \in Int /\ SupplyOf(k, c) = SupplyOf(l, c) - amount
      /\ \A d \in CurrencyIds \ {c} : SupplyOf(k, d) = SupplyOf(l, d)
  BY <1>3, <1>5, SupplyStored
<1>7. /\ SupplyOf(k, c) \in Int /\ SupplyOf(m, c) = SupplyOf(k, c) + amount
      /\ \A d \in CurrencyIds \ {c} : SupplyOf(m, d) = SupplyOf(k, d)
  BY <1>3, <1>4, <1>5, SupplyStored
<1>8. NobodyLeft(l, m)
  BY <1>3, <1>4 DEF Stores, NobodyLeft, Sound, Kept, Ledgers
<1>9. \A d \in CurrencyIds : SupplyOf(m, d) = SupplyOf(l, d)
  BY <1>6, <1>7
<1> QED BY <1>1, <1>4, <1>8, <1>9

\* Deposits of the native currency make no tokens.
LEMMA DepositSound ==
  ASSUME NEW l, Sound(l), NEW c \in CurrencyIds, NEW a \in Accounts, NEW amount \in Nat
  PROVE  LET m == Deposit(l, c, a, amount)
         IN /\ Sound(m) /\ NobodyLeft(l, m)
            /\ \A d \in CurrencyIds : d # c \/ c = Native => SupplyOf(m, d) = SupplyOf(l, d)
            /\ c # Native => Stores(l, m, c, a, TokenBalance(l, c, a) + amount)
<1>1. CASE c = Native
  <2> DEFINE m == NativeDeposit(l, a, amount)
  <2>1. m = Deposit(l, c, a, amount)
    BY <1>1 DEF Deposit
  <2>2. /\ Sound(m) /\ m.tokens = l.tokens
        /\ \A b \in Accounts : m.balances[b] >= l.balances[b]
    BY NativeDepositSound
  <2> HIDE DEF m
  <2>3. NobodyLeft(l, m)
    BY <2>2 DEF NobodyLeft, Sound, Kept, Ledgers
  <2>4. \A d \in CurrencyIds : SupplyOf(m, d) = SupplyOf(l, d)
    BY <2>2, SupplySame DEF TokenBalance
  <2> QED BY <1>1, <2>1, <2>2, <2>3, <2>4
<1>2. CASE c # Native
  <2> DEFINE m == TokenDeposit(l, c, a, amount)
             total == TokenBalance(l, c, a) + amount
  <2>1. m = Deposit(l, c, a, amount)
    BY <1>2 DEF Deposit
  <2>2. Sound(m) /\ Stores(l, m, c, a, total)
    BY TokenDepositSound
  <2> HIDE DEF m
  <2>3. NobodyLeft(l, m)
    BY <2>2 DEF Stores, NobodyLeft, Sound, Kept, Ledgers
  <2>4. total \in Nat
    BY TokenBalanceType
  <2>5. \A d \in CurrencyIds \ {c} : SupplyOf(m, d) = SupplyOf(l, d)
    BY <2>2, <2>4, SupplyStored
  <2> QED BY <1>2, <2>1, <2>2, <2>3, <2>5
<1> QED BY <1>1, <1>2

\* Withdrawals leave the air drop and take no tokens of the native currency.
LEMMA WithdrawSound ==
  ASSUME NEW l, Sound(l), NEW c \in CurrencyIds, NEW a \in Accounts,
         NEW amount \in Nat \ {0}, CanWithdraw(l, c, a, amount)
  PROVE  LET m == Withdraw(l, c, a, amount)
         IN /\ Sound(m) /\ NobodyLeft(l, m)
            /\ \A d \in CurrencyIds : d # c \/ c = Native => SupplyOf(m, d) = SupplyOf(l, d)
            /\ c # Native => Stores(l, m, c, a, TokenBalance(l, c, a) - amount)
<1>0. /\ l.balances \in [Accounts -> Nat] /\ AirDropAmount \in Nat
  BY LedgerAssumption DEF Sound, Kept, Ledgers
<1>1. CASE c = Native
  <2> DEFINE m == NativeWithdraw(l, a, amount)
  <2>1. m = Withdraw(l, c, a, amount)
    BY <1>1 DEF Withdraw
  <2>2. LeavesAirDrop(l, a, amount)
    BY <1>1 DEF CanWithdraw
  <2>3. NativeBalance(l, a) >= amount
    BY <1>0, <2>2 DEF LeavesAirDrop, SaturatingSub, NativeBalance
  <2>4. /\ Sound(m) /\ m.tokens = l.tokens /\ m.balances[a] > 0
        /\ \A b \in Accounts \ {a} : m.balances[b] = l.balances[b]
    BY <2>2, <2>3, NativeWithdrawSound
  <2> HIDE DEF m
  <2>5. NobodyLeft(l, m)
    BY <2>4 DEF NobodyLeft
  <2>6. \A d \in CurrencyIds : SupplyOf(m, d) = SupplyOf(l, d)
    BY <2>4, SupplySame DEF TokenBalance
  <2> QED BY <1>1, <2>1, <2>4, <2>5, <2>6
<1>2. CASE c # Native
  <2> DEFINE m == TokenWithdraw(l, c, a, amount)
             left == TokenBalance(l, c, a) - amount
  <2>1. m = Withdraw(l, c, a, amount)
    BY <1>2 DEF Withdraw
  <2>2. CanTokenWithdraw(l, c, a, amount)
    BY <1>2 DEF CanWithdraw
  <2>3. Sound(m) /\ Stores(l, m, c, a, left)
    BY <2>2, TokenWithdrawSound
  <2> HIDE DEF m
  <2>4. NobodyLeft(l, m)
    BY <2>3 DEF Stores, NobodyLeft, Sound, Kept, Ledgers
  <2>5. left \in Nat
    BY <2>2, TokenBalanceType DEF CanTokenWithdraw
  <2>6. \A d \in CurrencyIds \ {c} : SupplyOf(m, d) = SupplyOf(l, d)
    BY <2>3, <2>5, SupplyStored
  <2> QED BY <1>2, <2>1, <2>3, <2>4, <2>6
<1> QED BY <1>1, <1>2

\* A transfer leaves every supply, and the payer's air drop.
LEMMA TransferSound ==
  ASSUME NEW l, Sound(l), NEW c \in CurrencyIds, NEW from \in Accounts,
         NEW to \in Accounts, from # to, NEW amount \in Nat \ {0},
         CanTransfer(l, c, from, to, amount)
  PROVE  LET m == Transfer(l, c, from, to, amount)
         IN /\ Sound(m) /\ NobodyLeft(l, m)
            /\ \A d \in CurrencyIds : SupplyOf(m, d) = SupplyOf(l, d)
<1>1. CASE c = Native
  <2> DEFINE k == Withdraw(l, c, from, amount)
             m == Deposit(k, c, to, amount)
  <2>1. m = Transfer(l, c, from, to, amount)
    BY DEF Transfer
  <2>2. CanWithdraw(l, c, from, amount)
    BY <1>1 DEF CanTransfer, CanWithdraw
  <2>3. /\ Sound(k) /\ NobodyLeft(l, k)
        /\ \A d \in CurrencyIds : SupplyOf(k, d) = SupplyOf(l, d)
    BY <1>1, <2>2, WithdrawSound
  <2> HIDE DEF k
  <2>4. /\ Sound(m) /\ NobodyLeft(k, m)
        /\ \A d \in CurrencyIds : SupplyOf(m, d) = SupplyOf(k, d)
    BY <1>1, <2>3, DepositSound
  <2> HIDE DEF m
  <2> QED BY <2>1, <2>3, <2>4 DEF NobodyLeft
<1>2. CASE c # Native
  <2>1. CanTokenTransfer(l, c, from, to, amount)
    BY <1>2 DEF CanTransfer
  <2>2. Transfer(l, c, from, to, amount) = TokenTransfer(l, c, from, to, amount)
    BY <1>2 DEF Transfer, TokenTransfer, Withdraw, Deposit
  <2> QED BY <2>1, <2>2, TokenTransferSound
<1> QED BY <1>1, <1>2

\* The ledger without an account.
LEMMA NoLedgerSound ==
  ASSUME NEW runtime \in Runtimes
  PROVE  Sound(NoLedger(runtime))
<1> DEFINE l == NoLedger(runtime)
<1>1. /\ l.tokens = EmptyMap /\ l.runtime = runtime
      /\ \A a \in Accounts : l.providers[a] = 0 /\ l.balances[a] = 0
      /\ \A c \in CurrencyIds : l.users[c] = 0
  BY DEF NoLedger
<1>2. EmptyMap \in TokenMaps
  BY TokenMapType DEF EmptyMap
<1>3. l \in Ledgers
  BY <1>2 DEF NoLedger, Ledgers
<1> HIDE DEF l
<1>4. /\ \A c \in CurrencyIds : HoldersIn(l, c) = {}
      /\ \A a \in Accounts : HeldBy(l, a) = {}
      /\ AliveIn(l) = {}
  BY <1>1 DEF HoldersIn, HeldBy, AliveIn, EmptyMap
<1>5. Cardinality({}) = 0
  BY FS_EmptySet
<1>6. Backed(l)
  BY <1>1, <1>4, <1>5 DEF Backed
<1>7. \A c \in CurrencyIds : TokenAccounts(l)[c] = 0
  BY <1>4, <1>5 DEF TokenAccounts
<1>8. Counted(l, TokenAccounts(l))
  BY <1>1, <1>4, <1>5, <1>7, LedgerAssumption DEF Counted
<1> QED BY <1>3, <1>6, <1>8 DEF Sound, Kept, l
=============================================================================
