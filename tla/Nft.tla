---------------------------------- MODULE Nft ----------------------------------
(***************************************************************************)
(* The nft pallet (pallets/nft/src/lib.rs): classes of tokens, tokens that *)
(* are minted without an owner, claimed for native and LIKE money, made    *)
(* the active image of an account, sold, given away and burned.            *)
(*                                                                         *)
(* One action per dispatchable, and one for destroy_class, a public        *)
(* function of the pallet. A failing step stores nothing: every error path *)
(* is a guard. The vectors of the storage are searched and updated as      *)
(* sets, which is what they are here; a token id is its class and number.  *)
(***************************************************************************)
EXTENDS Integers, FiniteSets, Functions

CONSTANTS
  Users,
  None,              \* the Rust None where an owner is optional
  AirDropAmount,     \* whoever pays keeps more than this
  InitialNative,     \* native balance of every user at genesis
  InitialLike,       \* LIKE balance of every user at genesis
  ClassDataChoices,  \* the data classes are created with
  Prices,            \* what tokens are offered for
  MaxClasses,        \* bound: classes ever created
  MaxTokens          \* bound: tokens minted of one class

ASSUME NftAssumption ==
  /\ IsFiniteSet(Users) /\ None \notin Users
  /\ AirDropAmount \in Nat /\ InitialNative \in Nat /\ InitialLike \in Nat
  /\ MaxClasses \in Nat /\ MaxTokens \in Nat
  /\ Prices \subseteq Nat

ClassIds == 0 .. MaxClasses - 1
TokenIds == ClassIds \X (0 .. MaxTokens - 1)
Levels == {data.level : data \in ClassDataChoices}

ASSUME ClassDataAssumption ==
  ClassDataChoices \subseteq
    [level : Levels, like_threshold : Nat, claim_cost : Nat,
     maximum_quantity : Nat]

ClassInfo ==
  [total_issuance : Nat, issuer : Users, data : ClassDataChoices]

\* TokenInfo with its TokenData and NftStatus. Of sell_records the code only
\* asks whether there are any. The copy of claim_cost and the hashes are
\* stored and never read.
TokenInfo ==
  [owner : Users \cup {None}, like_threshold : Nat, sold : BOOLEAN,
   is_in_sale : BOOLEAN, is_active_image : BOOLEAN, is_claimed : BOOLEAN]

SaleInfo == [seller : Users, price : Prices]

VARIABLES
  native,           \* native balance of every user
  like,             \* LIKE balance of every user
  NextClassId,
  NextTokenId,      \* class id -> the next token's number
  Classes,          \* class id -> ClassInfo, for the classes that exist
  Tokens,           \* token id -> TokenInfo, for the tokens minted
  IssuerOf,         \* level -> <<issuer, class id>>
  TokensOf,         \* account -> the tokens it owns
  NoOwnerTokensOf,  \* class id -> its tokens without an owner
  InSaleTokens      \* token id -> SaleInfo, for the tokens in sale

vars == <<native, like, NextClassId, NextTokenId, Classes, Tokens, IssuerOf,
          TokensOf, NoOwnerTokensOf, InSaleTokens>>

classes == <<NextClassId, NextTokenId, Classes, IssuerOf>>
owners == <<TokensOf, NoOwnerTokensOf>>
money == <<native, like>>

MoneyTyped == native \in [Users -> Nat] /\ like \in [Users -> Nat]

ClassesTyped ==
  /\ NextClassId \in Nat /\ NextTokenId \in [ClassIds -> Nat]
  /\ DOMAIN Classes \subseteq ClassIds
  /\ \A c \in DOMAIN Classes : Classes[c] \in ClassInfo
  /\ DOMAIN IssuerOf \subseteq Levels
  /\ \A l \in DOMAIN IssuerOf : IssuerOf[l] \in Users \X ClassIds

TokensTyped ==
  /\ DOMAIN Tokens \subseteq TokenIds
  /\ \A t \in DOMAIN Tokens : Tokens[t] \in TokenInfo
  /\ TokensOf \in [Users -> SUBSET TokenIds]
  /\ NoOwnerTokensOf \in [ClassIds -> SUBSET TokenIds]
  /\ DOMAIN InSaleTokens \subseteq TokenIds
  /\ \A t \in DOMAIN InSaleTokens : InSaleTokens[t] \in SaleInfo

\* The types of the storage: no balance goes below zero, however a claim splits
\* its cost.
TypeOK == MoneyTyped /\ ClassesTyped /\ TokensTyped

EmptyMap == [x \in {} |-> x]

\* The map f with key k set to v, and without key k.
Put(f, k, v) == [x \in DOMAIN f \cup {k} |-> IF x = k THEN v ELSE f[x]]
Without(f, k) == [x \in DOMAIN f \ {k} |-> f[x]]

Init ==
  /\ native = [u \in Users |-> InitialNative]
  /\ like = [u \in Users |-> InitialLike]
  /\ NextClassId = 0
  /\ NextTokenId = [c \in ClassIds |-> 0]
  /\ Classes = EmptyMap
  /\ Tokens = EmptyMap
  /\ IssuerOf = EmptyMap
  /\ TokensOf = [u \in Users |-> {}]
  /\ NoOwnerTokensOf = [c \in ClassIds |-> {}]
  /\ InSaleTokens = EmptyMap

-----------------------------------------------------------------------------
(* Helpers.                                                                *)

\* is_in_sale
IsInSale(token) == token \in DOMAIN InSaleTokens

\* is_owner; None is no account.
IsOwner(who, token) == token \in DOMAIN Tokens /\ Tokens[token].owner = who

\* Whether who can withdraw amount in the native currency: more than the air
\* drop has to stay, unless nothing is paid.
CanPay(who, amount) == amount = 0 \/ native[who] - amount > AirDropAmount

\* Mutant: the new owner is written down before the old one is struck out.
TransferOwnershipReversed(from, to, token) ==
  [[TokensOf EXCEPT ![to] = @ \cup {token}] EXCEPT ![from] = @ \ {token}]

\* transfer_ownership: TokensOf when token goes from one account to another,
\* or stays.
TransferOwnership(from, to, token) ==
  [[TokensOf EXCEPT ![from] = @ \ {token}] EXCEPT ![to] = @ \cup {token}]

-----------------------------------------------------------------------------
(* Classes.                                                                *)

\* create_class: anyone may, for any level, and takes the level over.
CreateClass(who, data) ==
  /\ NextClassId < MaxClasses
  /\ NextClassId' = NextClassId + 1
  /\ Classes' = Put(Classes, NextClassId,
       [total_issuance |-> 0, issuer |-> who, data |-> data])
  /\ IssuerOf' = Put(IssuerOf, data.level, <<who, NextClassId>>)
  /\ UNCHANGED <<money, NextTokenId, Tokens, owners, InSaleTokens>>

\* Mutant: the quantity is compared before the new token is counted.
HasRoomUncounted(class) == class.data.maximum_quantity >= class.total_issuance

\* Whether another token of this class may be minted.
HasRoom(class) == class.data.maximum_quantity >= class.total_issuance + 1

MintedToken ==
  [owner |-> None, like_threshold |-> 0, sold |-> FALSE,
   is_in_sale |-> FALSE, is_active_image |-> FALSE, is_claimed |-> FALSE]

\* mint
Mint(who, c) ==
  LET token == <<c, NextTokenId[c]>>
  IN /\ c \in DOMAIN Classes
     /\ NextTokenId[c] < MaxTokens
     /\ Classes[c].issuer = who
     /\ HasRoom(Classes[c])
     /\ NextTokenId' = [NextTokenId EXCEPT ![c] = @ + 1]
     /\ Classes' = [Classes EXCEPT ![c].total_issuance = @ + 1]
     /\ Tokens' = Put(Tokens, token, MintedToken)
     /\ NoOwnerTokensOf' = [NoOwnerTokensOf EXCEPT ![c] = @ \cup {token}]
     /\ UNCHANGED <<money, NextClassId, IssuerOf, TokensOf, InSaleTokens>>

\* Mutant: the class goes, its level stays.
UnlistedKept(class) == IssuerOf

\* What destroy_class leaves of IssuerOf: the level of the class is removed,
\* also when a later class has taken it over.
Unlisted(class) == Without(IssuerOf, class.data.level)

\* Mutant: a class is there as long as someone owns a token of it.
DestroyableUnowned(c) == \A u \in Users : \A t \in TokensOf[u] : t[1] # c

\* Whether destroy_class finds no token issued. Burning lowers no total_issuance,
\* so a class that ever had a token stays.
Destroyable(c) == Classes[c].total_issuance = 0

\* destroy_class
DestroyClass(who, c) ==
  /\ c \in DOMAIN Classes
  /\ Classes[c].issuer = who
  /\ Destroyable(c)
  /\ IssuerOf' = Unlisted(Classes[c])
  /\ Classes' = Without(Classes, c)
  /\ UNCHANGED <<money, NextClassId, NextTokenId, Tokens, owners, InSaleTokens>>

-----------------------------------------------------------------------------
(* Tokens.                                                                 *)

\* What a claim pays to the issuer, and burns besides the cost: half the cost,
\* unless the token has been sold before.
HalfCost(token, cost) ==
  IF cost = 0 \/ Tokens[token].sold THEN 0 ELSE cost \div 2

\* claim
Claim(who, token) ==
  LET class == Classes[token[1]]
      cost == class.data.claim_cost
      half == HalfCost(token, cost)
      to_issuer == IF who = class.issuer THEN 0 ELSE half
  IN /\ IsOwner(None, token)
     /\ ~IsInSale(token)
     /\ token[1] \in DOMAIN Classes
     /\ CanPay(who, to_issuer + half + cost)
     /\ like[who] >= class.data.like_threshold
     /\ native' = [[native EXCEPT ![who] = @ - (to_issuer + half + cost)]
                     EXCEPT ![class.issuer] = @ + to_issuer]
     /\ like' = [like EXCEPT ![who] = @ - class.data.like_threshold]
     /\ Tokens' = [Tokens EXCEPT
          ![token].owner = who,
          ![token].like_threshold = class.data.like_threshold,
          ![token].is_claimed = TRUE,
          ![token].is_in_sale = FALSE,
          ![token].is_active_image = FALSE]
     /\ NoOwnerTokensOf' = [NoOwnerTokensOf EXCEPT ![token[1]] = @ \ {token}]
     /\ TokensOf' = [TokensOf EXCEPT ![who] = @ \cup {token}]
     /\ UNCHANGED <<classes, InSaleTokens>>

\* Mutant: the threshold stays with the token.
BurnedLocked(token) == [Tokens[token] EXCEPT !.owner = None, !.is_claimed = FALSE]

\* What is left of a token that is burned.
Burned(token) ==
  [owner |-> None, like_threshold |-> 0, sold |-> Tokens[token].sold,
   is_in_sale |-> FALSE, is_active_image |-> FALSE, is_claimed |-> FALSE]

\* burn: the token is there to be claimed again, its sales remembered.
Burn(who, token) ==
  /\ IsOwner(who, token)
  /\ ~IsInSale(token)
  /\ ~Tokens[token].is_active_image
  /\ like' = [like EXCEPT ![who] = @ + Tokens[token].like_threshold]
  /\ TokensOf' = [TokensOf EXCEPT ![who] = @ \ {token}]
  /\ Tokens' = [Tokens EXCEPT ![token] = Burned(token)]
  /\ NoOwnerTokensOf' = [NoOwnerTokensOf EXCEPT ![token[1]] = @ \cup {token}]
  /\ UNCHANGED <<native, classes, InSaleTokens>>

\* transfer
Transfer(who, to, token) ==
  /\ token \in DOMAIN Tokens
  /\ ~Tokens[token].is_in_sale /\ Tokens[token].is_claimed
  /\ ~Tokens[token].is_active_image
  /\ IsOwner(who, token)
  /\ Tokens' = [Tokens EXCEPT ![token].owner = to]
  /\ TokensOf' = TransferOwnership(who, to, token)
  /\ UNCHANGED <<money, classes, NoOwnerTokensOf, InSaleTokens>>

\* Mutant: the token is activated and the others stay as they are.
ActivatedAlso(who, token) == [Tokens EXCEPT ![token].is_active_image = TRUE]

\* active: the tokens when token is the active image of its owner, and the
\* others he has are not.
Activated(who, token) ==
  [t \in DOMAIN Tokens |->
     IF t \in TokensOf[who] \cup {token}
     THEN [Tokens[t] EXCEPT !.is_active_image = (t = token)]
     ELSE Tokens[t]]

\* active fails when any token of the owner is in sale.
Active(who, token) ==
  /\ IsOwner(who, token)
  /\ ~Tokens[token].is_active_image
  /\ \A t \in TokensOf[who] \cup {token} : ~IsInSale(t) /\ IsOwner(who, t)
  /\ Tokens' = Activated(who, token)
  /\ UNCHANGED <<money, classes, owners, InSaleTokens>>

\* inactive, which an inactive token passes as well
Inactive(who, token) ==
  /\ IsOwner(who, token)
  /\ ~IsInSale(token)
  /\ Tokens' = [Tokens EXCEPT ![token].is_active_image = FALSE]
  /\ UNCHANGED <<money, classes, owners, InSaleTokens>>

-----------------------------------------------------------------------------
(* Sales.                                                                  *)

\* Mutant: an active image may be offered.
MayOfferActive(who, token) == IsOwner(who, token) /\ ~IsInSale(token)

MayOffer(who, token) ==
  IsOwner(who, token) /\ ~Tokens[token].is_active_image /\ ~IsInSale(token)

\* offer_token_for_sale
OfferTokenForSale(who, token, price) ==
  /\ MayOffer(who, token)
  /\ Tokens' = [Tokens EXCEPT ![token].is_in_sale = TRUE]
  /\ InSaleTokens' = Put(InSaleTokens, token, [seller |-> who, price |-> price])
  /\ UNCHANGED <<money, classes, owners>>

\* withdraw_sale
WithdrawSale(who, token) ==
  /\ IsOwner(who, token)
  /\ IsInSale(token)
  /\ Tokens' = [Tokens EXCEPT ![token].is_in_sale = FALSE]
  /\ InSaleTokens' = Without(InSaleTokens, token)
  /\ UNCHANGED <<money, classes, owners>>

\* Mutant: the class's issuer is paid.
SaleProceedsToIssuer(token) == Classes[token[1]].issuer

\* Who is paid when a token in sale is bought.
SaleProceedsTo(token) == InSaleTokens[token].seller

\* buy_token; the seller may buy it himself and pays nothing.
BuyToken(who, token) ==
  LET price == InSaleTokens[token].price
      seller == SaleProceedsTo(token)
  IN /\ token \in DOMAIN Tokens
     /\ IsInSale(token)
     /\ Tokens[token].owner # None
     /\ who = seller \/ CanPay(who, price)
     /\ native' = [[native EXCEPT ![who] = @ - price] EXCEPT ![seller] = @ + price]
     /\ InSaleTokens' = Without(InSaleTokens, token)
     /\ Tokens' = [Tokens EXCEPT ![token].owner = who,
                                 ![token].sold = TRUE,
                                 ![token].is_in_sale = FALSE]
     /\ TokensOf' = TransferOwnership(Tokens[token].owner, who, token)
     /\ UNCHANGED <<like, classes, NoOwnerTokensOf>>

-----------------------------------------------------------------------------

ClassNext ==
  \E who \in Users :
    \/ \E data \in ClassDataChoices : CreateClass(who, data)
    \/ \E c \in ClassIds : Mint(who, c) \/ DestroyClass(who, c)

TokenNext ==
  \E who \in Users, token \in TokenIds :
    \/ Claim(who, token)
    \/ Burn(who, token)
    \/ \E to \in Users : Transfer(who, to, token)
    \/ Active(who, token)
    \/ Inactive(who, token)
    \/ \E price \in Prices : OfferTokenForSale(who, token, price)
    \/ WithdrawSale(who, token)
    \/ BuyToken(who, token)

Next == ClassNext \/ TokenNext

Spec == Init /\ [][Next]_vars
=============================================================================
