------------------------------- MODULE NftProofs -------------------------------
(***************************************************************************)
(* The nft pallet keeps owners, lists, sales and classes in step, for any  *)
(* users, classes and prices.                                              *)
(*                                                                         *)
(* The invariant has a part on tokens and a part on classes. That the      *)
(* lists agree with the owners and the sales with the marks is inductive   *)
(* only together: a token that is given away must not be in sale, which    *)
(* transfer asks of the mark alone. That no class of a token is destroyed  *)
(* rests on the count of tokens, and that the count is right on the next   *)
(* number being one no token has. That LIKE is neither made nor lost needs *)
(* that a token without an owner locks none.                               *)
(***************************************************************************)
EXTENDS NftProperties, SumTheorems

\* OwnershipAgrees, token by token.
Listed ==
  /\ \A u \in Users, t \in TokenIds :
       t \in TokensOf[u] <=> (t \in DOMAIN Tokens /\ Tokens[t].owner = u)
  /\ \A c \in ClassIds, t \in TokenIds :
       t \in NoOwnerTokensOf[c]
         <=> (t \in DOMAIN Tokens /\ t[1] = c /\ Tokens[t].owner = None)

\* OneActive, for two tokens of an owner.
Single ==
  \A s, t \in DOMAIN Tokens :
    Tokens[s].is_active_image /\ Tokens[t].is_active_image
      /\ Tokens[s].owner = Tokens[t].owner => s = t

IsMap(f) == f = [x \in DOMAIN f |-> f[x]]

TokenPart ==
  /\ TokensTyped /\ IsMap(Tokens) /\ IsMap(InSaleTokens)
  /\ Listed /\ SalesAgree /\ Single

\* Ids are given out once.
IdsFresh ==
  /\ \A c \in DOMAIN Classes : c < NextClassId
  /\ \A t \in DOMAIN Tokens : t[2] < NextTokenId[t[1]]

\* TokensHaveClass is kept because total_issuance counts the tokens of a class ever
\* minted, burned ones too.
TokensCounted ==
  /\ \A t \in DOMAIN Tokens : t[1] \in DOMAIN Classes
  /\ \A c \in DOMAIN Classes :
       /\ Classes[c].total_issuance = Cardinality(TokensOfClass(c))
       /\ Classes[c].total_issuance <= Classes[c].data.maximum_quantity

ClassPart ==
  /\ ClassesTyped /\ IsMap(Classes) /\ IsMap(IssuerOf)
  /\ IdsFresh /\ IssuerOfExists /\ TokensCounted

IndInv == TokenPart /\ ClassPart

-----------------------------------------------------------------------------
(* What follows from the invariant.                                        *)

LEMMA ListedAgrees == TokenPart => OwnershipAgrees
<1> SUFFICES ASSUME TokenPart
             PROVE  OwnershipAgrees
  OBVIOUS
<1>1. ASSUME NEW u \in Users
      PROVE  TokensOf[u] = {t \in DOMAIN Tokens : Tokens[t].owner = u}
  BY DEF TokenPart, TokensTyped, Listed
<1>2. ASSUME NEW c \in ClassIds
      PROVE  NoOwnerTokensOf[c] = {t \in TokensOfClass(c) : Tokens[t].owner = None}
  BY DEF TokenPart, TokensTyped, Listed, TokensOfClass
<1> QED BY <1>1, <1>2 DEF OwnershipAgrees

LEMMA SingleIsOne == TokenPart => OneActive
<1> SUFFICES ASSUME TokenPart, NEW u \in Users
             PROVE  Cardinality({t \in TokensOf[u] : Tokens[t].is_active_image}) <= 1
  BY DEF OneActive
<1> DEFINE active == {t \in TokensOf[u] : Tokens[t].is_active_image}
<1>1. \A s, t \in active : s = t
  <2>1. \A t \in active : t \in DOMAIN Tokens /\ Tokens[t].owner = u
    BY DEF TokenPart, TokensTyped, Listed
  <2> QED BY <2>1 DEF TokenPart, Single
<1> HIDE DEF active
<1>2. Cardinality(active) <= 1
  <2>1. CASE active = {}
    <3>1. Cardinality(active) = 0
      BY <2>1, FS_EmptySet
    <3> QED BY <3>1
  <2>2. CASE active # {}
    <3>1. PICK t : t \in active
      BY <2>2
    <3>2. active = {t}
      BY <1>1, <3>1
    <3>3. Cardinality(active) = 1
      BY <3>2, FS_Singleton
    <3> QED BY <3>3
  <2> QED BY <2>1, <2>2
<1> QED BY <1>2 DEF active

\* The tokens of a class have a number each.
LEMMA TokensOfClassFinite ==
  ASSUME TokenPart, NEW c
  PROVE  IsFiniteSet(TokensOfClass(c))
<1>1. IsFiniteSet({c})
  BY FS_Singleton
<1> DEFINE last == MaxTokens - 1
<1> last \in Int
  BY NftAssumption
<1> HIDE DEF last
<1>2. IsFiniteSet(0 .. last)
  BY FS_Interval
<1>3. IsFiniteSet({c} \X (0 .. last))
  BY <1>1, <1>2, FS_Product
<1>4. TokensOfClass(c) \subseteq {c} \X (0 .. last)
  BY DEF last, TokenPart, TokensTyped, TokenIds, TokensOfClass
<1> QED BY <1>3, <1>4, FS_Subset

-----------------------------------------------------------------------------
(* Steps on tokens.                                                        *)

\* The classes stay as they are.
LEMMA ClassesKept ==
  ASSUME IndInv, UNCHANGED classes, DOMAIN Tokens' = DOMAIN Tokens
  PROVE  ClassPart'
BY DEF IndInv, ClassPart, classes, ClassesTyped, IsMap, IdsFresh, IssuerOfExists,
       TokensCounted, TokensOfClass

\* The lists of the accounts and of the classes follow a token's new value.
OwnersFollow(token, new) ==
  /\ TokensOf' \in [Users -> SUBSET TokenIds]
  /\ \A u \in Users : token \in TokensOf'[u] <=> new.owner = u
  /\ \A u \in Users, t \in TokenIds \ {token} :
       t \in TokensOf'[u] <=> t \in TokensOf[u]

ClassListsFollow(token, new) ==
  /\ NoOwnerTokensOf' \in [ClassIds -> SUBSET TokenIds]
  /\ \A c \in ClassIds :
       token \in NoOwnerTokensOf'[c] <=> (token[1] = c /\ new.owner = None)
  /\ \A c \in ClassIds, t \in TokenIds \ {token} :
       t \in NoOwnerTokensOf'[c] <=> t \in NoOwnerTokensOf[c]

\* So do the sales.
SalesFollow(token, new) ==
  /\ IsMap(InSaleTokens)'
  /\ DOMAIN InSaleTokens' \ {token} = DOMAIN InSaleTokens \ {token}
  /\ \A t \in DOMAIN InSaleTokens \ {token} : InSaleTokens'[t] = InSaleTokens[t]
  /\ new.is_in_sale <=> token \in DOMAIN InSaleTokens'
  /\ token \in DOMAIN InSaleTokens' =>
       /\ InSaleTokens'[token] \in SaleInfo
       /\ InSaleTokens'[token].seller = new.owner
       /\ ~new.is_active_image

\* The new value is one that a token of its owner may have.
Agreeing(token, new) ==
  /\ new \in TokenInfo
  /\ new.is_claimed <=> new.owner # None
  /\ new.is_active_image =>
       /\ new.owner # None
       /\ \A t \in DOMAIN Tokens \ {token} :
            Tokens[t].owner = new.owner => ~Tokens[t].is_active_image

\* One token changes, and the lists and sales follow it.
LEMMA TokenChanges ==
  ASSUME TokenPart, NEW token \in DOMAIN Tokens, NEW new,
         Tokens' = [Tokens EXCEPT ![token] = new],
         OwnersFollow(token, new), ClassListsFollow(token, new),
         SalesFollow(token, new), Agreeing(token, new)
  PROVE  TokenPart' /\ DOMAIN Tokens' = DOMAIN Tokens
<1>1. /\ IsMap(Tokens)' /\ DOMAIN Tokens' = DOMAIN Tokens
      /\ Tokens'[token] = new
      /\ \A t \in DOMAIN Tokens \ {token} : Tokens'[t] = Tokens[t]
  <2>1. Tokens' = [t \in DOMAIN Tokens |-> IF t = token THEN new ELSE Tokens[t]]
    BY DEF TokenPart, IsMap
  <2> QED BY <2>1 DEF IsMap
<1>2. TokensTyped'
  BY <1>1 DEF TokenPart, TokensTyped, OwnersFollow, ClassListsFollow, SalesFollow,
              Agreeing
<1>3. Listed'
  BY <1>1 DEF TokenPart, TokensTyped, Listed, OwnersFollow, ClassListsFollow
<1>4. SalesAgree'
  <2>1. ASSUME NEW t \in DOMAIN Tokens
        PROVE  /\ Tokens'[t].is_in_sale = IsInSale(t)'
               /\ Tokens'[t].is_claimed = (Tokens'[t].owner # None)
               /\ Tokens'[t].owner = None => ~Tokens'[t].is_active_image
    <3>1. CASE t = token
      BY <1>1, <3>1 DEF IsInSale, SalesFollow, Agreeing, TokenInfo
    <3>2. CASE t # token
      <4>1. Tokens'[t] = Tokens[t] /\ IsInSale(t)' = IsInSale(t)
        BY <1>1, <3>2 DEF SalesFollow, IsInSale
      <4> QED BY <4>1 DEF TokenPart, SalesAgree
    <3> QED BY <3>1, <3>2
  <2>2. \A t \in DOMAIN InSaleTokens' :
          /\ t \in DOMAIN Tokens
          /\ Tokens'[t].owner = InSaleTokens'[t].seller
          /\ ~Tokens'[t].is_active_image
    BY <1>1 DEF TokenPart, SalesAgree, SalesFollow
  <2> QED BY <1>1, <2>1, <2>2 DEF SalesAgree
<1>5. Single'
  BY <1>1 DEF TokenPart, Single, Agreeing
<1>6. IsMap(InSaleTokens)'
  BY DEF SalesFollow
<1> QED BY <1>1, <1>2, <1>3, <1>4, <1>5, <1>6 DEF TokenPart

LEMMA TokenStep ==
  ASSUME IndInv, NEW token \in DOMAIN Tokens, NEW new, UNCHANGED classes,
         Tokens' = [Tokens EXCEPT ![token] = new],
         OwnersFollow(token, new), ClassListsFollow(token, new),
         SalesFollow(token, new), Agreeing(token, new)
  PROVE  IndInv'
BY TokenChanges, ClassesKept DEF IndInv

\* What the lists say of a token that is there.
LEMMA TokenFacts ==
  ASSUME IndInv, NEW token \in DOMAIN Tokens
  PROVE  /\ token \in TokenIds /\ token[1] \in ClassIds
         /\ Tokens[token] \in TokenInfo
         /\ \A u \in Users : token \in TokensOf[u] <=> Tokens[token].owner = u
         /\ \A c \in ClassIds :
              token \in NoOwnerTokensOf[c]
                <=> (token[1] = c /\ Tokens[token].owner = None)
         /\ Tokens[token].is_in_sale <=> token \in DOMAIN InSaleTokens
         /\ Tokens[token].is_claimed <=> Tokens[token].owner # None
<1>1. token \in TokenIds /\ token[1] \in ClassIds /\ Tokens[token] \in TokenInfo
  BY DEF IndInv, TokenPart, TokensTyped, TokenIds
<1> QED BY <1>1 DEF IndInv, TokenPart, Listed, SalesAgree, IsInSale, TokenInfo

\* claim: a token without an owner gets one; it was in no sale and no one's image.
LEMMA ClaimKeeps ==
  ASSUME IndInv, NEW who \in Users, NEW token \in TokenIds, Claim(who, token)
  PROVE  IndInv'
<1> DEFINE old == Tokens[token]
           threshold == Classes[token[1]].data.like_threshold
           new == [old EXCEPT !.owner = who, !.like_threshold = threshold,
                              !.is_claimed = TRUE, !.is_in_sale = FALSE,
                              !.is_active_image = FALSE]
<1>1. /\ token \in DOMAIN Tokens /\ token \notin DOMAIN InSaleTokens
      /\ old \in TokenInfo /\ old.owner = None
  BY DEF Claim, IsOwner, IsInSale, IndInv, TokenPart, TokensTyped
<1>2. threshold \in Nat
  BY ClassDataAssumption DEF Claim, IndInv, ClassPart, ClassesTyped, ClassInfo
<1>3. /\ UNCHANGED <<classes, InSaleTokens>>
      /\ NoOwnerTokensOf' = [NoOwnerTokensOf EXCEPT ![token[1]] = @ \ {token}]
      /\ TokensOf' = [TokensOf EXCEPT ![who] = @ \cup {token}]
  BY DEF Claim
<1>4. Tokens' = [Tokens EXCEPT ![token] = new]
  BY DEF Claim
<1> HIDE DEF old, threshold
<1>5. /\ new \in TokenInfo /\ new.owner = who /\ new.is_claimed /\ ~new.is_in_sale
      /\ ~new.is_active_image
  BY <1>1, <1>2 DEF TokenInfo
<1> HIDE DEF new
<1>6. /\ token[1] \in ClassIds /\ who # None
      /\ \A u \in Users : token \notin TokensOf[u]
  BY <1>1, NftAssumption DEF old, TokenIds, IndInv, TokenPart, Listed
<1>7. OwnersFollow(token, new)
  BY <1>3, <1>5, <1>6 DEF IndInv, TokenPart, TokensTyped, OwnersFollow
<1>8. ClassListsFollow(token, new)
  BY <1>3, <1>5, <1>6 DEF IndInv, TokenPart, TokensTyped, Listed, ClassListsFollow
<1>9. SalesFollow(token, new)
  BY <1>1, <1>3, <1>5 DEF IndInv, TokenPart, SalesFollow
<1>10. Agreeing(token, new)
  BY <1>5, <1>6 DEF Agreeing
<1> QED BY <1>1, <1>3, <1>4, <1>7, <1>8, <1>9, <1>10, TokenStep

\* burn: what is not in sale and no one's image goes back to its class.
LEMMA BurnKeeps ==
  ASSUME IndInv, NEW who \in Users, NEW token \in TokenIds, Burn(who, token)
  PROVE  IndInv'
<1> DEFINE new == Burned(token)
<1>1. /\ token \in DOMAIN Tokens /\ token \notin DOMAIN InSaleTokens
      /\ Tokens[token].owner = who
      /\ UNCHANGED <<classes, InSaleTokens>>
      /\ TokensOf' = [TokensOf EXCEPT ![who] = @ \ {token}]
      /\ NoOwnerTokensOf' = [NoOwnerTokensOf EXCEPT ![token[1]] = @ \cup {token}]
      /\ Tokens' = [Tokens EXCEPT ![token] = new]
  BY DEF Burn, IsOwner, IsInSale
<1>2. /\ new \in TokenInfo /\ new.owner = None
      /\ ~new.is_claimed /\ ~new.is_in_sale /\ ~new.is_active_image
  BY <1>1, TokenFacts DEF Burned, TokenInfo
<1> HIDE DEF new
<1>3. OwnersFollow(token, new)
  BY <1>1, <1>2, TokenFacts, NftAssumption
     DEF IndInv, TokenPart, TokensTyped, OwnersFollow
<1>4. ClassListsFollow(token, new)
  BY <1>1, <1>2, TokenFacts DEF IndInv, TokenPart, TokensTyped, ClassListsFollow
<1>5. SalesFollow(token, new)
  BY <1>1, <1>2 DEF IndInv, TokenPart, SalesFollow
<1>6. Agreeing(token, new)
  BY <1>2 DEF Agreeing
<1> QED BY <1>1, <1>3, <1>4, <1>5, <1>6, TokenStep

\* transfer: by the mark the token is not in sale, so it has no entry either.
LEMMA TransferKeeps ==
  ASSUME IndInv, NEW who \in Users, NEW to \in Users, NEW token \in TokenIds,
         Transfer(who, to, token)
  PROVE  IndInv'
<1> DEFINE old == Tokens[token]
           new == [old EXCEPT !.owner = to]
<1>1. /\ token \in DOMAIN Tokens /\ old.owner = who
      /\ ~old.is_in_sale /\ old.is_claimed /\ ~old.is_active_image
      /\ UNCHANGED <<classes, NoOwnerTokensOf, InSaleTokens>>
      /\ TokensOf' = TransferOwnership(who, to, token)
      /\ Tokens' = [Tokens EXCEPT ![token] = new]
  BY DEF Transfer, IsOwner
<1>2. old \in TokenInfo /\ token \notin DOMAIN InSaleTokens
  BY <1>1, TokenFacts
<1> HIDE DEF old
<1>3. /\ new \in TokenInfo /\ new.owner = to
      /\ new.is_claimed /\ ~new.is_in_sale /\ ~new.is_active_image
  BY <1>1, <1>2 DEF TokenInfo
<1> HIDE DEF new
<1>4. OwnersFollow(token, new)
  BY <1>1, <1>3, TokenFacts
     DEF old, IndInv, TokenPart, TokensTyped, OwnersFollow, TransferOwnership
<1>5. ClassListsFollow(token, new)
  BY <1>1, <1>3, TokenFacts, NftAssumption
     DEF old, IndInv, TokenPart, TokensTyped, ClassListsFollow
<1>6. SalesFollow(token, new)
  BY <1>1, <1>2, <1>3 DEF IndInv, TokenPart, SalesFollow
<1>7. Agreeing(token, new)
  BY <1>3, NftAssumption DEF Agreeing
<1> QED BY <1>1, <1>4, <1>5, <1>6, <1>7, TokenStep

\* inactive: the token is no one's image and otherwise as it was.
LEMMA InactiveKeeps ==
  ASSUME IndInv, NEW who \in Users, NEW token \in TokenIds, Inactive(who, token)
  PROVE  IndInv'
<1> DEFINE old == Tokens[token]
           new == [old EXCEPT !.is_active_image = FALSE]
<1>1. /\ token \in DOMAIN Tokens /\ token \notin DOMAIN InSaleTokens
      /\ UNCHANGED <<classes, owners, InSaleTokens>>
      /\ Tokens' = [Tokens EXCEPT ![token] = new]
  BY DEF Inactive, IsOwner, IsInSale
<1>2. /\ old \in TokenInfo /\ ~old.is_in_sale
      /\ old.is_claimed <=> old.owner # None
  BY <1>1, TokenFacts
<1> HIDE DEF old
<1>3. /\ new \in TokenInfo /\ new.owner = old.owner
      /\ new.is_claimed = old.is_claimed
      /\ ~new.is_in_sale /\ ~new.is_active_image
  BY <1>2 DEF TokenInfo
<1> HIDE DEF new
<1>4. OwnersFollow(token, new)
  BY <1>1, <1>3, TokenFacts
     DEF old, owners, IndInv, TokenPart, TokensTyped, OwnersFollow
<1>5. ClassListsFollow(token, new)
  BY <1>1, <1>3, TokenFacts
     DEF old, owners, IndInv, TokenPart, TokensTyped, ClassListsFollow
<1>6. SalesFollow(token, new)
  BY <1>1, <1>3 DEF IndInv, TokenPart, SalesFollow
<1>7. Agreeing(token, new)
  BY <1>2, <1>3 DEF Agreeing
<1> QED BY <1>1, <1>4, <1>5, <1>6, <1>7, TokenStep

\* offer_token_for_sale: the mark and the entry come together.
LEMMA OfferKeeps ==
  ASSUME IndInv, NEW who \in Users, NEW token \in TokenIds, NEW price \in Prices,
         OfferTokenForSale(who, token, price)
  PROVE  IndInv'
<1> DEFINE old == Tokens[token]
           new == [old EXCEPT !.is_in_sale = TRUE]
           sale == [seller |-> who, price |-> price]
<1>1. /\ token \in DOMAIN Tokens /\ old.owner = who /\ ~old.is_active_image
      /\ UNCHANGED <<classes, owners>>
      /\ InSaleTokens' = Put(InSaleTokens, token, sale)
      /\ Tokens' = [Tokens EXCEPT ![token] = new]
  BY DEF OfferTokenForSale, MayOffer, IsOwner
<1>2. /\ old \in TokenInfo
      /\ old.is_claimed <=> old.owner # None
  BY <1>1, TokenFacts
<1> HIDE DEF old
<1>3. /\ new \in TokenInfo /\ new.owner = who
      /\ new.is_claimed = old.is_claimed
      /\ new.is_in_sale /\ ~new.is_active_image
  BY <1>1, <1>2 DEF TokenInfo
<1>4. sale \in SaleInfo /\ sale.seller = who
  BY DEF SaleInfo
<1> HIDE DEF new, sale
<1>5. OwnersFollow(token, new)
  BY <1>1, <1>3, TokenFacts
     DEF old, owners, IndInv, TokenPart, TokensTyped, OwnersFollow
<1>6. ClassListsFollow(token, new)
  BY <1>1, <1>3, TokenFacts
     DEF old, owners, IndInv, TokenPart, TokensTyped, ClassListsFollow
<1>7. SalesFollow(token, new)
  <2>1. /\ IsMap(InSaleTokens)'
        /\ DOMAIN InSaleTokens' = DOMAIN InSaleTokens \cup {token}
        /\ InSaleTokens'[token] = sale
        /\ \A t \in DOMAIN InSaleTokens \ {token} : InSaleTokens'[t] = InSaleTokens[t]
    BY <1>1 DEF Put, IsMap
  <2> QED BY <1>3, <1>4, <2>1 DEF SalesFollow
<1>8. Agreeing(token, new)
  BY <1>1, <1>2, <1>3 DEF Agreeing
<1> QED BY <1>1, <1>5, <1>6, <1>7, <1>8, TokenStep

\* withdraw_sale: they go together.
LEMMA WithdrawKeeps ==
  ASSUME IndInv, NEW who \in Users, NEW token \in TokenIds, WithdrawSale(who, token)
  PROVE  IndInv'
<1> DEFINE old == Tokens[token]
           new == [old EXCEPT !.is_in_sale = FALSE]
<1>1. /\ token \in DOMAIN Tokens /\ token \in DOMAIN InSaleTokens
      /\ UNCHANGED <<classes, owners>>
      /\ InSaleTokens' = Without(InSaleTokens, token)
      /\ Tokens' = [Tokens EXCEPT ![token] = new]
  BY DEF WithdrawSale, IsOwner, IsInSale
<1>2. /\ old \in TokenInfo /\ ~old.is_active_image
      /\ old.is_claimed <=> old.owner # None
  BY <1>1, TokenFacts DEF IndInv, TokenPart, SalesAgree
<1> HIDE DEF old
<1>3. /\ new \in TokenInfo /\ new.owner = old.owner
      /\ new.is_claimed = old.is_claimed
      /\ ~new.is_in_sale /\ ~new.is_active_image
  BY <1>2 DEF TokenInfo
<1> HIDE DEF new
<1>4. OwnersFollow(token, new)
  BY <1>1, <1>3, TokenFacts
     DEF old, owners, IndInv, TokenPart, TokensTyped, OwnersFollow
<1>5. ClassListsFollow(token, new)
  BY <1>1, <1>3, TokenFacts
     DEF old, owners, IndInv, TokenPart, TokensTyped, ClassListsFollow
<1>6. SalesFollow(token, new)
  BY <1>1, <1>3 DEF Without, IsMap, SalesFollow
<1>7. Agreeing(token, new)
  BY <1>2, <1>3 DEF Agreeing
<1> QED BY <1>1, <1>4, <1>5, <1>6, <1>7, TokenStep

\* buy_token: what is in sale is no one's image, so its new owner keeps his.
LEMMA BuyKeeps ==
  ASSUME IndInv, NEW who \in Users, NEW token \in TokenIds, BuyToken(who, token)
  PROVE  IndInv'
<1> DEFINE old == Tokens[token]
           new == [old EXCEPT !.owner = who, !.sold = TRUE, !.is_in_sale = FALSE]
<1>1. /\ token \in DOMAIN Tokens /\ token \in DOMAIN InSaleTokens /\ old.owner # None
      /\ UNCHANGED <<classes, NoOwnerTokensOf>>
      /\ InSaleTokens' = Without(InSaleTokens, token)
      /\ TokensOf' = TransferOwnership(old.owner, who, token)
      /\ Tokens' = [Tokens EXCEPT ![token] = new]
  BY DEF BuyToken, IsInSale
<1>2. /\ old \in TokenInfo /\ ~old.is_active_image /\ old.is_claimed
      /\ old.owner \in Users
  BY <1>1, TokenFacts DEF IndInv, TokenPart, SalesAgree, TokenInfo
<1> HIDE DEF old
<1>3. /\ new \in TokenInfo /\ new.owner = who
      /\ new.is_claimed /\ ~new.is_in_sale /\ ~new.is_active_image
  BY <1>2 DEF TokenInfo
<1> HIDE DEF new
<1>4. OwnersFollow(token, new)
  BY <1>1, <1>2, <1>3, TokenFacts
     DEF old, IndInv, TokenPart, TokensTyped, OwnersFollow, TransferOwnership
<1>5. ClassListsFollow(token, new)
  BY <1>1, <1>2, <1>3, TokenFacts, NftAssumption
     DEF old, IndInv, TokenPart, TokensTyped, ClassListsFollow
<1>6. SalesFollow(token, new)
  BY <1>1, <1>3 DEF Without, IsMap, SalesFollow
<1>7. Agreeing(token, new)
  BY <1>3, NftAssumption DEF Agreeing
<1> QED BY <1>1, <1>4, <1>5, <1>6, <1>7, TokenStep

\* active: of the owner's tokens this one alone is his image then.
LEMMA ActiveKeeps ==
  ASSUME IndInv, NEW who \in Users, NEW token \in TokenIds, Active(who, token)
  PROVE  IndInv'
<1>1. /\ token \in DOMAIN Tokens /\ Tokens[token].owner = who
      /\ \A t \in TokensOf[who] \cup {token} : t \notin DOMAIN InSaleTokens
      /\ UNCHANGED <<classes, owners, InSaleTokens>>
      /\ Tokens' = Activated(who, token)
  BY DEF Active, IsOwner, IsInSale
<1>2. IsMap(Tokens)' /\ DOMAIN Tokens' = DOMAIN Tokens
  BY <1>1 DEF Activated, IsMap
<1>3. ASSUME NEW t \in DOMAIN Tokens
      PROVE  /\ Tokens'[t] \in TokenInfo
             /\ Tokens'[t].owner = Tokens[t].owner
             /\ Tokens'[t].is_in_sale = Tokens[t].is_in_sale
             /\ Tokens'[t].is_claimed = Tokens[t].is_claimed
             /\ Tokens[t].owner # who =>
                  Tokens'[t].is_active_image = Tokens[t].is_active_image
             /\ Tokens[t].owner = who => (Tokens'[t].is_active_image <=> t = token)
  <2> DEFINE old == Tokens[t]
             new == [old EXCEPT !.is_active_image = (t = token)]
  <2>1. /\ old \in TokenInfo
        /\ t \in TokensOf[who] \cup {token} <=> old.owner = who
    BY <1>1, TokenFacts
  <2>2. Tokens'[t] = IF t \in TokensOf[who] \cup {token} THEN new ELSE old
    BY <1>1 DEF Activated
  <2> HIDE DEF old
  <2>3. /\ new \in TokenInfo /\ new.owner = old.owner
        /\ new.is_in_sale = old.is_in_sale /\ new.is_claimed = old.is_claimed
        /\ new.is_active_image <=> t = token
    BY <2>1 DEF TokenInfo
  <2> HIDE DEF new
  <2> QED BY <2>1, <2>2, <2>3 DEF old
<1>4. TokensTyped'
  BY <1>1, <1>2, <1>3 DEF owners, IndInv, TokenPart, TokensTyped
<1>5. Listed'
  BY <1>1, <1>2, <1>3 DEF owners, IndInv, TokenPart, Listed
<1>6. SalesAgree'
  <2>1. ASSUME NEW t \in DOMAIN Tokens
        PROVE  /\ Tokens'[t].is_in_sale = IsInSale(t)'
               /\ Tokens'[t].is_claimed = (Tokens'[t].owner # None)
               /\ Tokens'[t].owner = None => ~Tokens'[t].is_active_image
    BY <1>1, <1>3, NftAssumption DEF IndInv, TokenPart, SalesAgree, IsInSale
  <2>2. \A t \in DOMAIN InSaleTokens' :
          /\ t \in DOMAIN Tokens
          /\ Tokens'[t].owner = InSaleTokens'[t].seller
          /\ ~Tokens'[t].is_active_image
    BY <1>1, <1>3, TokenFacts DEF IndInv, TokenPart, SalesAgree
  <2> QED BY <1>2, <2>1, <2>2 DEF SalesAgree
<1>7. Single'
  BY <1>2, <1>3 DEF IndInv, TokenPart, Single
<1>8. IsMap(InSaleTokens)'
  BY <1>1 DEF IndInv, TokenPart
<1> QED BY <1>1, <1>2, <1>4, <1>5, <1>6, <1>7, <1>8, ClassesKept DEF IndInv, TokenPart

-----------------------------------------------------------------------------
(* Steps on classes.                                                       *)

\* mint: the token's number is new, and its class counts it.
LEMMA MintKeeps ==
  ASSUME IndInv, NEW who \in Users, NEW c \in ClassIds, Mint(who, c)
  PROVE  IndInv'
<1> DEFINE token == <<c, NextTokenId[c]>>
           class == Classes[c]
           minted == [class EXCEPT !.total_issuance = @ + 1]
<1>1. /\ c \in DOMAIN Classes /\ NextTokenId[c] < MaxTokens /\ HasRoom(class)
      /\ NextTokenId' = [NextTokenId EXCEPT ![c] = @ + 1]
      /\ Classes' = [Classes EXCEPT ![c] = minted]
      /\ Tokens' = Put(Tokens, token, MintedToken)
      /\ NoOwnerTokensOf' = [NoOwnerTokensOf EXCEPT ![c] = @ \cup {token}]
      /\ UNCHANGED <<NextClassId, IssuerOf, TokensOf, InSaleTokens>>
  BY DEF Mint
<1>2. /\ token \in TokenIds /\ token[1] = c /\ token[2] = NextTokenId[c]
      /\ token \notin DOMAIN Tokens
  BY <1>1, NftAssumption DEF TokenIds, IndInv, ClassPart, ClassesTyped, IdsFresh
<1>3. /\ class \in ClassInfo
      /\ minted \in ClassInfo
      /\ minted.total_issuance = class.total_issuance + 1
      /\ minted.issuer = class.issuer /\ minted.data = class.data
  <2>1. class \in ClassInfo
    BY <1>1 DEF IndInv, ClassPart, ClassesTyped
  <2> HIDE DEF class
  <2> QED BY <2>1 DEF ClassInfo
<1>4. /\ MintedToken \in TokenInfo /\ MintedToken.owner = None
      /\ ~MintedToken.is_in_sale /\ ~MintedToken.is_claimed
      /\ ~MintedToken.is_active_image
  BY DEF MintedToken, TokenInfo
<1>5. /\ c \in DOMAIN Classes /\ IsMap(Classes)' /\ DOMAIN Classes' = DOMAIN Classes
      /\ Classes'[c] = minted
      /\ \A d \in DOMAIN Classes \ {c} : Classes'[d] = Classes[d]
  BY <1>1 DEF IsMap, IndInv, ClassPart
<1> HIDE DEF minted
<1>6. /\ IsMap(Tokens)' /\ DOMAIN Tokens' = DOMAIN Tokens \cup {token}
      /\ Tokens'[token] = MintedToken
      /\ \A t \in DOMAIN Tokens \ {token} : Tokens'[t] = Tokens[t]
  BY <1>1 DEF Put, IsMap
<1>7. /\ NextTokenId' \in [ClassIds -> Nat]
      /\ NextTokenId'[c] = NextTokenId[c] + 1
      /\ \A d \in ClassIds \ {c} : NextTokenId'[d] = NextTokenId[d]
  BY <1>1 DEF IndInv, ClassPart, ClassesTyped
<1>8. TokenPart'
  <2> HIDE DEF token
  <2>1. TokensTyped'
    BY <1>1, <1>2, <1>4, <1>6 DEF IndInv, TokenPart, TokensTyped
  <2>2. Listed'
    <3>1. \A u \in Users : token \notin TokensOf[u]
      BY <1>2 DEF IndInv, TokenPart, Listed
    <3>2. \A d \in ClassIds :
            /\ token \in NoOwnerTokensOf'[d] <=> d = c
            /\ \A t \in TokenIds \ {token} :
                 t \in NoOwnerTokensOf'[d] <=> t \in NoOwnerTokensOf[d]
      BY <1>1, <1>2 DEF IndInv, TokenPart, TokensTyped, Listed
    <3> QED BY <1>1, <1>2, <1>4, <1>6, <3>1, <3>2, NftAssumption
            DEF IndInv, TokenPart, TokensTyped, Listed
  <2>3. SalesAgree'
    <3>1. ASSUME NEW t \in DOMAIN Tokens'
          PROVE  /\ Tokens'[t].is_in_sale = IsInSale(t)'
                 /\ Tokens'[t].is_claimed = (Tokens'[t].owner # None)
                 /\ Tokens'[t].owner = None => ~Tokens'[t].is_active_image
      <4>1. CASE t = token
        <5>1. ~IsInSale(t)'
          BY <1>1, <1>2, <4>1 DEF IsInSale, IndInv, TokenPart, SalesAgree
        <5>2. Tokens'[t] = MintedToken
          BY <1>6, <4>1
        <5>3. /\ Tokens'[t].is_in_sale = FALSE /\ Tokens'[t].is_claimed = FALSE
              /\ Tokens'[t].is_active_image = FALSE /\ Tokens'[t].owner = None
          BY <5>2 DEF MintedToken
        <5>4. IsInSale(t)' = FALSE
          BY <5>1 DEF IsInSale
        <5> QED BY <5>3, <5>4
      <4>2. CASE t # token
        <5>1. t \in DOMAIN Tokens /\ Tokens'[t] = Tokens[t] /\ IsInSale(t)' = IsInSale(t)
          BY <1>1, <1>6, <4>2 DEF IsInSale
        <5> QED BY <5>1 DEF IndInv, TokenPart, SalesAgree
      <4> QED BY <4>1, <4>2
    <3>2. \A t \in DOMAIN InSaleTokens' :
            /\ t \in DOMAIN Tokens'
            /\ Tokens'[t].owner = InSaleTokens'[t].seller
            /\ ~Tokens'[t].is_active_image
      BY <1>1, <1>2, <1>6 DEF IndInv, TokenPart, SalesAgree
    <3> QED BY <3>1, <3>2 DEF SalesAgree
  <2>4. Single'
    BY <1>2, <1>4, <1>6 DEF IndInv, TokenPart, Single
  <2>5. IsMap(InSaleTokens)'
    BY <1>1 DEF IndInv, TokenPart
  <2> QED BY <1>6, <2>1, <2>2, <2>3, <2>4, <2>5 DEF TokenPart
<1>9. ClassPart'
  <2>1. ClassesTyped'
    BY <1>1, <1>3, <1>5, <1>7 DEF IndInv, ClassPart, ClassesTyped
  <2>2. IdsFresh'
    <3>1. \A t \in DOMAIN Tokens : t[1] \in ClassIds /\ t[2] \in Nat
      BY DEF IndInv, TokenPart, TokensTyped, TokenIds
    <3>2. NextTokenId \in [ClassIds -> Nat]
      BY DEF IndInv, ClassPart, ClassesTyped
    <3>3. \A t \in DOMAIN Tokens : t[2] < NextTokenId'[t[1]]
      BY <1>7, <3>1, <3>2 DEF IndInv, ClassPart, IdsFresh
    <3>4. token[2] < NextTokenId'[token[1]]
      BY <1>2, <1>7, <3>2
    <3> HIDE DEF token
    <3> QED BY <1>1, <1>5, <1>6, <3>3, <3>4 DEF IndInv, ClassPart, IdsFresh
  <2>3. IssuerOfExists'
    BY <1>1, <1>3, <1>5 DEF IndInv, ClassPart, ClassesTyped, IssuerOfExists
  <2>4. TokensCounted'
    <3> HIDE DEF token
    <3>1. TokensOfClass(c)' = TokensOfClass(c) \cup {token}
      BY <1>2, <1>6 DEF TokensOfClass
    <3>2. \A d \in DOMAIN Classes \ {c} : TokensOfClass(d)' = TokensOfClass(d)
      BY <1>2, <1>6 DEF TokensOfClass
    <3>3. IsFiniteSet(TokensOfClass(c)) /\ token \notin TokensOfClass(c)
      <4>1. IsFiniteSet(TokensOfClass(c))
        BY TokensOfClassFinite DEF IndInv
      <4> QED BY <1>2, <4>1 DEF TokensOfClass
    <3>4. Cardinality(TokensOfClass(c)') = Cardinality(TokensOfClass(c)) + 1
      BY <3>1, <3>3, FS_AddElement
    <3>5. class.data.maximum_quantity >= class.total_issuance + 1
      BY <1>1 DEF HasRoom
    <3>6. /\ Classes'[c].total_issuance = Cardinality(TokensOfClass(c)')
          /\ Classes'[c].total_issuance <= Classes'[c].data.maximum_quantity
      BY <1>1, <1>3, <1>5, <3>4, <3>5 DEF IndInv, ClassPart, TokensCounted
    <3>7. \A t \in DOMAIN Tokens' : t[1] \in DOMAIN Classes'
      BY <1>1, <1>2, <1>5, <1>6 DEF IndInv, ClassPart, TokensCounted
    <3>8. ASSUME NEW d \in DOMAIN Classes \ {c}
          PROVE  /\ Classes'[d].total_issuance = Cardinality(TokensOfClass(d)')
                 /\ Classes'[d].total_issuance <= Classes'[d].data.maximum_quantity
      BY <1>5, <3>2 DEF IndInv, ClassPart, TokensCounted
    <3> QED BY <1>5, <3>6, <3>7, <3>8 DEF TokensCounted
  <2>5. IsMap(IssuerOf)'
    BY <1>1 DEF IndInv, ClassPart
  <2> QED BY <1>5, <2>1, <2>2, <2>3, <2>4, <2>5 DEF ClassPart
<1> QED BY <1>8, <1>9 DEF IndInv

\* Calls that leave the tokens alone.
LEMMA TokensKept ==
  ASSUME IndInv, UNCHANGED <<Tokens, owners, InSaleTokens>>
  PROVE  TokenPart' /\ \A c : TokensOfClass(c)' = TokensOfClass(c)
BY DEF IndInv, owners, TokenPart, TokensTyped, IsMap, Listed, SalesAgree, IsInSale,
       Single, TokensOfClass

\* create_class: the id is new, so no token and no level is of the class yet but
\* the level it takes over.
LEMMA CreateClassKeeps ==
  ASSUME IndInv, NEW who \in Users, NEW data \in ClassDataChoices,
         CreateClass(who, data)
  PROVE  IndInv'
<1> PICK c : c = NextClassId
  OBVIOUS
<1> DEFINE class == [total_issuance |-> 0, issuer |-> who, data |-> data]
<1>1. /\ c < MaxClasses /\ NextClassId' = c + 1
      /\ Classes' = Put(Classes, c, class)
      /\ IssuerOf' = Put(IssuerOf, data.level, <<who, c>>)
      /\ UNCHANGED <<NextTokenId, Tokens, owners, InSaleTokens>>
  BY DEF CreateClass
<1>2. c \in ClassIds /\ c \notin DOMAIN Classes
  BY <1>1, NftAssumption DEF ClassIds, IndInv, ClassPart, ClassesTyped, IdsFresh
<1>3. class \in ClassInfo /\ data.level \in Levels
  BY DEF ClassInfo, Levels
<1>4. /\ IsMap(Classes)' /\ DOMAIN Classes' = DOMAIN Classes \cup {c}
      /\ Classes'[c] = class
      /\ \A d \in DOMAIN Classes \ {c} : Classes'[d] = Classes[d]
  BY <1>1 DEF Put, IsMap
<1>5. /\ IsMap(IssuerOf)' /\ DOMAIN IssuerOf' = DOMAIN IssuerOf \cup {data.level}
      /\ IssuerOf'[data.level] = <<who, c>>
      /\ \A l \in DOMAIN IssuerOf \ {data.level} : IssuerOf'[l] = IssuerOf[l]
  BY <1>1 DEF Put, IsMap
<1>6. TokenPart' /\ \A d : TokensOfClass(d)' = TokensOfClass(d)
  BY <1>1, TokensKept
<1>7. ClassesTyped'
  BY <1>1, <1>2, <1>3, <1>4, <1>5 DEF IndInv, ClassPart, ClassesTyped
<1>8. IdsFresh'
  BY <1>1, <1>4 DEF IndInv, ClassPart, ClassesTyped, IdsFresh, ClassIds
<1>9. IssuerOfExists'
  BY <1>2, <1>4, <1>5 DEF IndInv, ClassPart, IssuerOfExists
<1>10. TokensCounted'
  <2>1. Cardinality(TokensOfClass(c)') = 0
    <3>1. TokensOfClass(c)' = {}
      BY <1>2, <1>6 DEF IndInv, ClassPart, TokensCounted, TokensOfClass
    <3> QED BY <3>1, FS_EmptySet
  <2>2. data.maximum_quantity \in Nat
    BY ClassDataAssumption
  <2>3. \A t \in DOMAIN Tokens' : t[1] \in DOMAIN Classes'
    BY <1>1, <1>4 DEF IndInv, ClassPart, TokensCounted
  <2>4. ASSUME NEW d \in DOMAIN Classes'
        PROVE  /\ Classes'[d].total_issuance = Cardinality(TokensOfClass(d)')
               /\ Classes'[d].total_issuance <= Classes'[d].data.maximum_quantity
    <3>1. CASE d = c
      <4>1. Classes'[c].total_issuance = 0 /\ Classes'[c].data = data
        BY <1>4
      <4> QED BY <2>1, <2>2, <3>1, <4>1
    <3>2. CASE d # c
      <4>1. d \in DOMAIN Classes /\ Classes'[d] = Classes[d]
        BY <1>4, <3>2
      <4>2. TokensOfClass(d)' = TokensOfClass(d)
        BY <1>6
      <4> QED BY <4>1, <4>2 DEF IndInv, ClassPart, TokensCounted
    <3> QED BY <3>1, <3>2
  <2> QED BY <2>3, <2>4 DEF TokensCounted
<1> QED BY <1>4, <1>5, <1>6, <1>7, <1>8, <1>9, <1>10 DEF IndInv, ClassPart

\* destroy_class: by the count the class has no token, and a level that leads to
\* it is its own, which goes with it.
LEMMA DestroyClassKeeps ==
  ASSUME IndInv, NEW who \in Users, NEW c \in ClassIds, DestroyClass(who, c)
  PROVE  IndInv'
<1> DEFINE level == Classes[c].data.level
<1>1. /\ c \in DOMAIN Classes /\ Classes[c].total_issuance = 0
      /\ IssuerOf' = Without(IssuerOf, level)
      /\ Classes' = Without(Classes, c)
      /\ UNCHANGED <<NextClassId, NextTokenId, Tokens, owners, InSaleTokens>>
  BY DEF DestroyClass, Destroyable, Unlisted
<1>2. /\ IsMap(Classes)' /\ DOMAIN Classes' = DOMAIN Classes \ {c}
      /\ \A d \in DOMAIN Classes' : Classes'[d] = Classes[d]
  BY <1>1 DEF Without, IsMap
<1>3. /\ IsMap(IssuerOf)' /\ DOMAIN IssuerOf' = DOMAIN IssuerOf \ {level}
      /\ \A l \in DOMAIN IssuerOf' : IssuerOf'[l] = IssuerOf[l]
  BY <1>1 DEF Without, IsMap
<1>4. TokenPart' /\ \A d : TokensOfClass(d)' = TokensOfClass(d)
  BY <1>1, TokensKept
<1>5. ClassesTyped' /\ IdsFresh'
  BY <1>1, <1>2, <1>3 DEF IndInv, ClassPart, ClassesTyped, IdsFresh
<1>6. IssuerOfExists'
  BY <1>2, <1>3 DEF IndInv, ClassPart, IssuerOfExists
<1>7. TokensOfClass(c) = {}
  <2>1. IsFiniteSet(TokensOfClass(c))
    BY TokensOfClassFinite DEF IndInv
  <2>2. Cardinality(TokensOfClass(c)) = 0
    BY <1>1 DEF IndInv, ClassPart, TokensCounted
  <2> QED BY <2>1, <2>2, FS_EmptySet
<1>8. TokensCounted'
  <2>1. \A t \in DOMAIN Tokens' : t[1] \in DOMAIN Classes'
    BY <1>1, <1>2, <1>7 DEF IndInv, ClassPart, TokensCounted, TokensOfClass
  <2> QED BY <1>2, <1>4, <2>1 DEF IndInv, ClassPart, TokensCounted
<1> QED BY <1>2, <1>3, <1>4, <1>5, <1>6, <1>8 DEF IndInv, ClassPart

-----------------------------------------------------------------------------
(* The theorems.                                                           *)

LEMMA InitIndInv == Init => IndInv
<1> SUFFICES ASSUME Init
             PROVE  IndInv
  OBVIOUS
<1>1. /\ DOMAIN Tokens = {} /\ DOMAIN InSaleTokens = {}
      /\ DOMAIN Classes = {} /\ DOMAIN IssuerOf = {}
  BY DEF Init, EmptyMap
<1>2. IsMap(Tokens) /\ IsMap(InSaleTokens) /\ IsMap(Classes) /\ IsMap(IssuerOf)
  BY DEF Init, EmptyMap, IsMap
<1>3. TokenPart
  BY <1>1, <1>2 DEF Init, TokenPart, TokensTyped, Listed, SalesAgree, Single
<1>4. ClassPart
  BY <1>1, <1>2 DEF Init, ClassPart, ClassesTyped, IdsFresh, IssuerOfExists, TokensCounted
<1> QED BY <1>3, <1>4 DEF IndInv

LEMMA NextIndInv == IndInv /\ [Next]_vars => IndInv'
<1> SUFFICES ASSUME IndInv, [Next]_vars
             PROVE  IndInv'
  OBVIOUS
<1>1. CASE ClassNext
  BY <1>1, CreateClassKeeps, MintKeeps, DestroyClassKeeps DEF ClassNext
<1>2. CASE TokenNext
  <2>1. PICK who \in Users, token \in TokenIds :
          \/ Claim(who, token) \/ Burn(who, token)
          \/ \E to \in Users : Transfer(who, to, token)
          \/ Active(who, token) \/ Inactive(who, token)
          \/ \E price \in Prices : OfferTokenForSale(who, token, price)
          \/ WithdrawSale(who, token) \/ BuyToken(who, token)
    BY <1>2 DEF TokenNext
  <2> QED BY <2>1, ClaimKeeps, BurnKeeps, TransferKeeps, ActiveKeeps, InactiveKeeps,
             OfferKeeps, WithdrawKeeps, BuyKeeps
<1>3. CASE UNCHANGED vars
  <2>1. UNCHANGED <<classes, Tokens, owners, InSaleTokens>>
    BY <1>3 DEF vars, classes, owners
  <2> QED BY <2>1, TokensKept, ClassesKept DEF IndInv
<1> QED BY <1>1, <1>2, <1>3 DEF Next

LEMMA SpecIndInv == Spec => []IndInv
<1> QED BY InitIndInv, NextIndInv, PTL DEF Spec

\* A token is listed once, where its owner says (the nft pallet's TokensOf and
\* NoOwnerTokensOf, which every call updates one after the other).
THEOREM OwnersAgree == Spec => []OwnershipAgrees
<1> QED BY SpecIndInv, ListedAgrees, PTL DEF IndInv

\* The mark of a token, the entry of its sale and its owner agree, and what is in
\* sale or has no owner is no one's image (offer_token_for_sale, withdraw_sale,
\* buy_token, transfer).
THEOREM SalesStayAgreed == Spec => []SalesAgree
<1>1. IndInv => SalesAgree
  BY DEF IndInv, TokenPart
<1> QED BY SpecIndInv, <1>1, PTL

\* An account has one active image at most (active, claim, buy_token).
THEOREM OneActiveImage == Spec => []OneActive
<1> QED BY SpecIndInv, SingleIsOne, PTL DEF IndInv

\* A level leads to a class that exists and is of that level, whoever took the
\* level over and whatever classes are gone (create_class, destroy_class).
THEOREM IssuersExist == Spec => []IssuerOfExists
<1>1. IndInv => IssuerOfExists
  BY DEF IndInv, ClassPart
<1> QED BY SpecIndInv, <1>1, PTL

\* A token that is there, owned or burned, has its class, of which there are never
\* more tokens than its maximum_quantity (mint, burn, destroy_class).
THEOREM ClassesStay == Spec => []TokensHaveClass
<1>1. IndInv => TokensHaveClass
  BY DEF IndInv, ClassPart, TokensCounted, TokensHaveClass
<1> QED BY SpecIndInv, <1>1, PTL

-----------------------------------------------------------------------------
(* Money.                                                                  *)

\* Whoever pays has it.
LEMMA ClaimPays ==
  ASSUME IndInv, MoneyTyped, NEW who \in Users, NEW token \in TokenIds,
         Claim(who, token)
  PROVE  MoneyTyped'
<1> DEFINE class == Classes[token[1]]
           cost == class.data.claim_cost
           threshold == class.data.like_threshold
           half == HalfCost(token, cost)
           to_issuer == IF who = class.issuer THEN 0 ELSE half
<1>1. /\ CanPay(who, to_issuer + half + cost) /\ like[who] >= threshold
      /\ native' = [[native EXCEPT ![who] = @ - (to_issuer + half + cost)]
                      EXCEPT ![class.issuer] = @ + to_issuer]
      /\ like' = [like EXCEPT ![who] = @ - threshold]
  BY DEF Claim
<1>2. class.issuer \in Users /\ cost \in Nat /\ threshold \in Nat
  BY ClassDataAssumption DEF Claim, IndInv, ClassPart, ClassesTyped, ClassInfo
<1> HIDE DEF class, cost, threshold
<1>3. half \in Nat
  BY <1>2 DEF HalfCost
<1> HIDE DEF half
<1>4. to_issuer \in Nat
  BY <1>3
<1> HIDE DEF to_issuer
<1>5. native[who] - (to_issuer + half + cost) \in Nat
  BY <1>1, <1>2, <1>3, <1>4, NftAssumption DEF CanPay, MoneyTyped
<1>6. native' \in [Users -> Nat]
  BY <1>1, <1>2, <1>4, <1>5 DEF MoneyTyped
<1>7. like' \in [Users -> Nat]
  BY <1>1, <1>2 DEF MoneyTyped
<1> QED BY <1>6, <1>7 DEF MoneyTyped

LEMMA BuyPays ==
  ASSUME IndInv, MoneyTyped, NEW who \in Users, NEW token \in TokenIds,
         BuyToken(who, token)
  PROVE  MoneyTyped'
<1> DEFINE price == InSaleTokens[token].price
           seller == InSaleTokens[token].seller
<1>1. /\ who = seller \/ CanPay(who, price)
      /\ native' = [[native EXCEPT ![who] = @ - price] EXCEPT ![seller] = @ + price]
      /\ UNCHANGED like
  BY DEF BuyToken, SaleProceedsTo
<1>2. price \in Nat /\ seller \in Users
  BY NftAssumption DEF BuyToken, IsInSale, IndInv, TokenPart, TokensTyped, SaleInfo
<1> HIDE DEF price, seller
<1>3. CASE who = seller
  BY <1>1, <1>2, <1>3 DEF MoneyTyped
<1>4. CASE who # seller
  <2>1. native[who] - price \in Nat
    BY <1>1, <1>2, <1>4, NftAssumption DEF CanPay, MoneyTyped
  <2> QED BY <1>1, <1>2, <1>4, <2>1 DEF MoneyTyped
<1> QED BY <1>3, <1>4

LEMMA BurnPays ==
  ASSUME IndInv, MoneyTyped, NEW who \in Users, NEW token \in TokenIds,
         Burn(who, token)
  PROVE  MoneyTyped'
<1>1. Tokens[token].like_threshold \in Nat
  BY DEF Burn, IsOwner, IndInv, TokenPart, TokensTyped, TokenInfo
<1> QED BY <1>1 DEF Burn, MoneyTyped

LEMMA NextPays == IndInv /\ MoneyTyped /\ [Next]_vars => MoneyTyped'
<1> SUFFICES ASSUME IndInv, MoneyTyped, [Next]_vars
             PROVE  MoneyTyped'
  OBVIOUS
<1>1. CASE UNCHANGED money
  BY <1>1 DEF money, MoneyTyped
<1>2. CASE ClassNext
  BY <1>1, <1>2 DEF ClassNext, CreateClass, Mint, DestroyClass
<1>3. CASE TokenNext
  <2>1. PICK who \in Users, token \in TokenIds :
          \/ Claim(who, token) \/ Burn(who, token) \/ BuyToken(who, token)
          \/ UNCHANGED money
    BY <1>3 DEF TokenNext, Transfer, Active, Inactive, OfferTokenForSale, WithdrawSale
  <2> QED BY <1>1, <2>1, ClaimPays, BurnPays, BuyPays
<1>4. CASE UNCHANGED vars
  BY <1>1, <1>4 DEF vars, money
<1> QED BY <1>2, <1>3, <1>4 DEF Next

\* Everything has its type: no balance of either currency goes below zero by a
\* claim or a purchase (claim, buy_token).
THEOREM Types == Spec => []TypeOK
<1>1. Init => MoneyTyped
  BY NftAssumption DEF Init, MoneyTyped
<1>2. IndInv /\ MoneyTyped => TypeOK
  BY DEF IndInv, TokenPart, ClassPart, TypeOK
<1> QED BY SpecIndInv, <1>1, NextPays, <1>2, PTL DEF Spec

\* What SellerPaid says of a step.
Paid ==
  \A t \in DOMAIN InSaleTokens :
    LET sale == InSaleTokens[t]
        buyer == Tokens'[t].owner
    IN Tokens'[t].owner # Tokens[t].owner =>
         /\ native'[sale.seller] = native[sale.seller] + sale.price
         /\ native'[buyer] = native[buyer] - sale.price
         /\ \A u \in Users \ {buyer, sale.seller} : native'[u] = native[u]

\* A token in sale changes owners only when it is bought.
LEMMA NextPaid == IndInv /\ MoneyTyped /\ [Next]_vars => Paid
<1> SUFFICES ASSUME IndInv, MoneyTyped, [Next]_vars,
                    NEW t \in DOMAIN InSaleTokens,
                    Tokens'[t].owner # Tokens[t].owner
             PROVE  LET sale == InSaleTokens[t]
                        buyer == Tokens'[t].owner
                    IN /\ native'[sale.seller] = native[sale.seller] + sale.price
                       /\ native'[buyer] = native[buyer] - sale.price
                       /\ \A u \in Users \ {buyer, sale.seller} : native'[u] = native[u]
  BY DEF Paid
<1>1. /\ t \in DOMAIN Tokens /\ t \in TokenIds
      /\ Tokens[t].owner = InSaleTokens[t].seller
      /\ Tokens[t].is_in_sale
      /\ InSaleTokens[t].seller \in Users /\ InSaleTokens[t].price \in Nat
  BY NftAssumption
     DEF IndInv, TokenPart, TokensTyped, SalesAgree, IsInSale, SaleInfo
<1>2. PICK who \in Users : BuyToken(who, t)
  <2>1. CASE ClassNext
    <3>1. ASSUME NEW who \in Users, NEW c \in ClassIds, Mint(who, c)
          PROVE  FALSE
      <4>1. t # <<c, NextTokenId[c]>>
        BY <1>1 DEF TokenIds, IndInv, ClassPart, ClassesTyped, IdsFresh
      <4>2. Tokens' = Put(Tokens, <<c, NextTokenId[c]>>, MintedToken)
        BY <3>1 DEF Mint
      <4> QED BY <1>1, <4>1, <4>2 DEF Put
    <3> QED BY <2>1, <3>1 DEF ClassNext, CreateClass, DestroyClass
  <2>2. CASE TokenNext
    <3>1. PICK who \in Users, token \in TokenIds :
            \/ Claim(who, token) \/ Burn(who, token)
            \/ \E to \in Users : Transfer(who, to, token)
            \/ Active(who, token) \/ Inactive(who, token)
            \/ \E price \in Prices : OfferTokenForSale(who, token, price)
            \/ WithdrawSale(who, token) \/ BuyToken(who, token)
      BY <2>2 DEF TokenNext
    <3>2. CASE Claim(who, token)
      BY <1>1, <3>2 DEF Claim, IsInSale
    <3>3. CASE Burn(who, token)
      BY <1>1, <3>3 DEF Burn, IsInSale
    <3>4. CASE \E to \in Users : Transfer(who, to, token)
      BY <1>1, <3>4 DEF Transfer
    <3>5. CASE Active(who, token)
      BY <1>1, <3>5 DEF Active, Activated
    <3>6. CASE Inactive(who, token)
      BY <1>1, <3>6 DEF Inactive
    <3>7. CASE \E price \in Prices : OfferTokenForSale(who, token, price)
      BY <1>1, <3>7 DEF OfferTokenForSale
    <3>8. CASE WithdrawSale(who, token)
      BY <1>1, <3>8 DEF WithdrawSale
    <3>9. CASE BuyToken(who, token)
      <4>1. CASE token = t
        BY <3>9, <4>1
      <4>2. CASE token # t
        BY <1>1, <3>9, <4>2 DEF BuyToken
      <4> QED BY <4>1, <4>2
    <3> QED BY <3>1, <3>2, <3>3, <3>4, <3>5, <3>6, <3>7, <3>8, <3>9
  <2>3. CASE UNCHANGED vars
    BY <2>3 DEF vars
  <2> QED BY <2>1, <2>2, <2>3 DEF Next
<1>3. /\ native' = [[native EXCEPT ![who] = @ - InSaleTokens[t].price]
                      EXCEPT ![InSaleTokens[t].seller] = @ + InSaleTokens[t].price]
      /\ Tokens'[t].owner = who
  BY <1>1, <1>2 DEF BuyToken, SaleProceedsTo, IndInv, TokenPart, TokensTyped, TokenInfo
<1> QED BY <1>1, <1>3 DEF MoneyTyped

\* Who loses a token that was in sale is paid his price for it (buy_token).
THEOREM SellersPaid == Spec => SellerPaid
<1>1. Init => MoneyTyped
  BY NftAssumption DEF Init, MoneyTyped
<1>2. IndInv /\ MoneyTyped /\ [Next]_vars => [Paid]_vars
  BY NextPaid
<1>3. Spec => [][Paid]_vars
  BY SpecIndInv, <1>1, <1>2, NextPays, PTL DEF Spec
<1> QED BY <1>3 DEF SellerPaid, Paid

-----------------------------------------------------------------------------
(* LIKE.                                                                   *)

\* What has no owner locks no LIKE: it was never claimed, or burned since.
Unlocked ==
  \A t \in DOMAIN Tokens : Tokens[t].owner = None => Tokens[t].like_threshold = 0

LikePart == MoneyTyped /\ Unlocked /\ LikeBacked

Locks == [t \in DOMAIN Tokens |-> Tokens[t].like_threshold]

\* There are tokens of finitely many classes, and finitely many of each.
LEMMA TokenIdsFinite == IsFiniteSet(TokenIds)
<1>1. MaxClasses - 1 \in Int /\ MaxTokens - 1 \in Int
  BY NftAssumption
<1>2. IsFiniteSet(0 .. MaxClasses - 1) /\ IsFiniteSet(0 .. MaxTokens - 1)
  BY <1>1, FS_Interval
<1> QED BY <1>2, FS_Product DEF TokenIds, ClassIds

\* The sums of LikeBacked are sums of integers over finite sets.
LEMMA LikeSums ==
  ASSUME TokenPart, MoneyTyped
  PROVE  /\ IsFiniteSet(Users) /\ DOMAIN like = Users /\ IntegerOn(like, Users)
         /\ IsFiniteSet(DOMAIN Tokens) /\ IntegerOn(Locks, DOMAIN Tokens)
         /\ SumFunction(like) = SumFunctionOnSet(like, Users)
         /\ LockedLike = SumFunctionOnSet(Locks, DOMAIN Tokens)
<1>1. /\ IsFiniteSet(Users) /\ DOMAIN like = Users /\ IntegerOn(like, Users)
  BY NftAssumption DEF MoneyTyped, IntegerOn
<1>2. IsFiniteSet(DOMAIN Tokens)
  BY TokenIdsFinite, FS_Subset DEF TokenPart, TokensTyped
<1>3. IntegerOn(Locks, DOMAIN Tokens)
  BY DEF TokenPart, TokensTyped, TokenInfo, Locks, IntegerOn
<1>4. /\ SumFunction(like) = SumFunctionOnSet(like, Users)
      /\ LockedLike = SumFunctionOnSet(Locks, DOMAIN Tokens)
  BY <1>1 DEF SumFunction, LockedLike, Locks
<1> QED BY <1>1, <1>2, <1>3, <1>4

\* Primed.
LikeSummed ==
  /\ DOMAIN like = Users /\ IntegerOn(like, Users)
  /\ SumFunction(like) = SumFunctionOnSet(like, Users)
  /\ LockedLike = SumFunctionOnSet(Locks, DOMAIN Tokens)

LEMMA LikeSummedNow == TokenPart /\ MoneyTyped => LikeSummed
BY LikeSums DEF LikeSummed

LEMMA LikeSummedAfter == (TokenPart /\ MoneyTyped)' => LikeSummed'
BY LikeSummedNow, PTL

\* What an account pays is locked in a token, what a token gives up comes back.
LEMMA LikeMoves ==
  ASSUME IndInv, IndInv', MoneyTyped, MoneyTyped', LikeBacked,
         NEW who \in Users, NEW token \in DOMAIN Tokens, NEW d \in Int,
         like' = [like EXCEPT ![who] = @ - d],
         DOMAIN Tokens' = DOMAIN Tokens,
         Tokens'[token].like_threshold = Tokens[token].like_threshold + d,
         \A t \in DOMAIN Tokens \ {token} :
           Tokens'[t].like_threshold = Tokens[t].like_threshold
  PROVE  LikeBacked'
<1>1. /\ IsFiniteSet(Users) /\ DOMAIN like = Users /\ IntegerOn(like, Users)
      /\ IsFiniteSet(DOMAIN Tokens) /\ IntegerOn(Locks, DOMAIN Tokens)
      /\ SumFunction(like) = SumFunctionOnSet(like, Users)
      /\ LockedLike = SumFunctionOnSet(Locks, DOMAIN Tokens)
  BY LikeSums DEF IndInv
<1>2. /\ IntegerOn(like', Users)
      /\ SumFunction(like)' = SumFunctionOnSet(like', Users)
      /\ LockedLike' = SumFunctionOnSet(Locks', DOMAIN Tokens)
  BY LikeSummedAfter DEF IndInv, LikeSummed
<1>3. /\ like'[who] = like[who] - d /\ like[who] \in Int /\ like'[who] \in Int
      /\ \A u \in Users \ {who} : like'[u] = like[u]
  BY <1>1, <1>2 DEF IntegerOn
<1> DEFINE after == like'
<1>4. after[who] \in Int /\ \A u \in Users \ {who} : after[u] = like[u]
  BY <1>3
<1> HIDE DEF after
<1>5. SumFunctionOnSet(after, Users) =
        SumFunctionOnSet(like, Users) - like[who] + after[who]
  BY <1>1, <1>4, SumUpdate
<1>6. SumFunctionOnSet(like', Users) = SumFunctionOnSet(like, Users) - d
  <2>1. SumFunctionOnSet(like, Users) \in Int
    BY <1>1, SumInt
  <2> QED BY <1>3, <1>5, <2>1 DEF after
<1>7. /\ Locks'[token] = Locks[token] + d /\ Locks[token] \in Int
      /\ \A t \in DOMAIN Tokens \ {token} : Locks'[t] = Locks[t]
  BY <1>1 DEF Locks, IntegerOn
<1>8. Locks'[token] \in Int
  BY <1>7
<1>9. SumFunctionOnSet(Locks', DOMAIN Tokens) =
        SumFunctionOnSet(Locks, DOMAIN Tokens) - Locks[token] + Locks'[token]
  BY <1>1, <1>7, <1>8, SumUpdate
<1>10. /\ SumFunctionOnSet(like, Users) \in Int
       /\ SumFunctionOnSet(Locks, DOMAIN Tokens) \in Int
  BY <1>1, SumInt
<1>11. SumFunctionOnSet(Locks', DOMAIN Tokens) =
         SumFunctionOnSet(Locks, DOMAIN Tokens) + d
  BY <1>7, <1>9, <1>10
<1>12. SumFunction(like)' + LockedLike' = SumFunction(like) + LockedLike
  BY <1>1, <1>2, <1>6, <1>10, <1>11
<1> QED BY <1>12 DEF LikeBacked

\* Other steps leave the balances and what the tokens lock, a new token locks
\* nothing.
LEMMA LikeStays ==
  ASSUME IndInv, IndInv', MoneyTyped, MoneyTyped', LikeBacked,
         UNCHANGED like, DOMAIN Tokens \subseteq DOMAIN Tokens',
         \A t \in DOMAIN Tokens :
           Tokens'[t].like_threshold = Tokens[t].like_threshold,
         \A t \in DOMAIN Tokens' \ DOMAIN Tokens : Tokens'[t].like_threshold = 0
  PROVE  LikeBacked'
<1> DEFINE old == DOMAIN Tokens
           minted == DOMAIN Tokens' \ DOMAIN Tokens
<1>1. /\ IsFiniteSet(old) /\ IntegerOn(Locks, old)
      /\ LockedLike = SumFunctionOnSet(Locks, old)
  BY LikeSums DEF IndInv
<1>2. LockedLike' = SumFunctionOnSet(Locks', DOMAIN Tokens')
  BY LikeSummedAfter DEF IndInv, LikeSummed
<1>3. /\ \A t \in old : Locks'[t] = Locks[t]
      /\ \A t \in minted : Locks'[t] = 0
  BY DEF Locks
<1>4. IsFiniteSet(DOMAIN Tokens')
  BY TokenIdsFinite, FS_Subset DEF IndInv, TokenPart, TokensTyped
<1>5. /\ old \cup minted = DOMAIN Tokens' /\ old \cap minted = {}
      /\ IsFiniteSet(minted)
  BY <1>4, FS_Subset
<1> HIDE DEF old, minted
<1>6. IntegerOn(Locks', old \cup minted)
  BY <1>1, <1>3 DEF IntegerOn
<1>7. SumFunctionOnSet(Locks', DOMAIN Tokens') =
        SumFunctionOnSet(Locks', old) + SumFunctionOnSet(Locks', minted)
  BY <1>1, <1>5, <1>6, SumUnion
<1>8. SumFunctionOnSet(Locks', minted) = 0
  BY <1>3, <1>5, SumZeros
<1>9. /\ SumFunctionOnSet(Locks', old) = SumFunctionOnSet(Locks, old)
      /\ SumFunctionOnSet(Locks, old) \in Int
  BY <1>1, <1>3, SumAgree, SumInt
<1>10. LockedLike' = LockedLike
  BY <1>1, <1>2, <1>7, <1>8, <1>9
<1> QED BY <1>10 DEF LikeBacked

\* claim: the threshold of the class goes from the account into the token, which
\* locked nothing.
LEMMA ClaimBacked ==
  ASSUME IndInv, IndInv', MoneyTyped, MoneyTyped', Unlocked, LikeBacked,
         NEW who \in Users, NEW token \in TokenIds, Claim(who, token)
  PROVE  Unlocked' /\ LikeBacked'
<1> DEFINE threshold == Classes[token[1]].data.like_threshold
<1>1. /\ token \in DOMAIN Tokens /\ Tokens[token].owner = None
      /\ Tokens[token].like_threshold = 0
  BY DEF Claim, IsOwner, Unlocked
<1>2. threshold \in Nat
  BY ClassDataAssumption DEF Claim, IndInv, ClassPart, ClassesTyped, ClassInfo
<1>3. /\ like' = [like EXCEPT ![who] = @ - threshold]
      /\ Tokens' = [Tokens EXCEPT
           ![token].owner = who,
           ![token].like_threshold = threshold,
           ![token].is_claimed = TRUE,
           ![token].is_in_sale = FALSE,
           ![token].is_active_image = FALSE]
  BY DEF Claim
<1> HIDE DEF threshold
<1>4. /\ DOMAIN Tokens' = DOMAIN Tokens
      /\ \A t \in DOMAIN Tokens \ {token} : Tokens'[t] = Tokens[t]
  BY <1>3
<1>5. Tokens'[token].like_threshold = threshold /\ Tokens'[token].owner = who
  BY <1>1, <1>3 DEF IndInv, TokenPart, TokensTyped, TokenInfo
<1>6. Unlocked'
  BY <1>4, <1>5, NftAssumption DEF Unlocked
<1>7. /\ threshold \in Int
      /\ Tokens'[token].like_threshold = Tokens[token].like_threshold + threshold
  BY <1>1, <1>2, <1>5
<1>8. like' = [like EXCEPT ![who] = @ - threshold]
  BY <1>3
<1>9. \A t \in DOMAIN Tokens \ {token} :
        Tokens'[t].like_threshold = Tokens[t].like_threshold
  BY <1>4
<1>10. LikeBacked'
  BY <1>1, <1>4, <1>7, <1>8, <1>9, LikeMoves
<1> QED BY <1>6, <1>10

\* burn: what the token locks comes back, to whoever owns it now.
LEMMA BurnBacked ==
  ASSUME IndInv, IndInv', MoneyTyped, MoneyTyped', Unlocked, LikeBacked,
         NEW who \in Users, NEW token \in TokenIds, Burn(who, token)
  PROVE  Unlocked' /\ LikeBacked'
<1> DEFINE d == 0 - Tokens[token].like_threshold
<1>1. /\ token \in DOMAIN Tokens
      /\ like' = [like EXCEPT ![who] = @ + Tokens[token].like_threshold]
      /\ Tokens' = [Tokens EXCEPT ![token] = Burned(token)]
  BY DEF Burn, IsOwner
<1>2. Tokens[token].like_threshold \in Nat
  BY <1>1, TokenFacts DEF TokenInfo
<1>3. /\ DOMAIN Tokens' = DOMAIN Tokens
      /\ \A t \in DOMAIN Tokens \ {token} : Tokens'[t] = Tokens[t]
      /\ Tokens'[token].like_threshold = 0
  BY <1>1 DEF Burned
<1>4. Unlocked'
  BY <1>3 DEF Unlocked
<1>5. d \in Int /\ Tokens'[token].like_threshold = Tokens[token].like_threshold + d
  BY <1>2, <1>3
<1>6. like' = [like EXCEPT ![who] = @ - d]
  <2>1. like[who] + Tokens[token].like_threshold = like[who] - d
    BY <1>2 DEF MoneyTyped
  <2> QED BY <1>1, <2>1
<1> HIDE DEF d
<1> QED BY <1>1, <1>3, <1>4, <1>5, <1>6, LikeMoves

\* No other step on tokens moves LIKE; those that give a token to another leave
\* what it locks.
ThresholdsKept ==
  /\ UNCHANGED like /\ DOMAIN Tokens' = DOMAIN Tokens
  /\ \A t \in DOMAIN Tokens :
       /\ Tokens'[t].like_threshold = Tokens[t].like_threshold
       /\ Tokens'[t].owner = None => Tokens[t].owner = None

LEMMA ThresholdsStay ==
  ASSUME IndInv, NEW who \in Users, NEW token \in TokenIds,
         \/ \E to \in Users : Transfer(who, to, token)
         \/ Active(who, token)
         \/ Inactive(who, token)
         \/ \E price \in Prices : OfferTokenForSale(who, token, price)
         \/ WithdrawSale(who, token)
         \/ BuyToken(who, token)
  PROVE  ThresholdsKept
<1>1. /\ \A t \in DOMAIN Tokens : Tokens[t] \in TokenInfo
      /\ None \notin Users
  BY NftAssumption DEF IndInv, TokenPart, TokensTyped
<1>2. ASSUME NEW to \in Users, Transfer(who, to, token)
      PROVE  ThresholdsKept
  BY <1>1, <1>2 DEF Transfer, money, ThresholdsKept, TokenInfo
<1>3. CASE Active(who, token)
  BY <1>1, <1>3 DEF Active, Activated, money, ThresholdsKept, TokenInfo
<1>4. CASE Inactive(who, token)
  BY <1>1, <1>4 DEF Inactive, money, ThresholdsKept, TokenInfo
<1>5. ASSUME NEW price \in Prices, OfferTokenForSale(who, token, price)
      PROVE  ThresholdsKept
  BY <1>1, <1>5 DEF OfferTokenForSale, money, ThresholdsKept, TokenInfo
<1>6. CASE WithdrawSale(who, token)
  BY <1>1, <1>6 DEF WithdrawSale, money, ThresholdsKept, TokenInfo
<1>7. CASE BuyToken(who, token)
  BY <1>1, <1>7 DEF BuyToken, ThresholdsKept, TokenInfo
<1> QED BY <1>2, <1>3, <1>4, <1>5, <1>6, <1>7

LEMMA KeptBacked ==
  ASSUME IndInv, IndInv', MoneyTyped, MoneyTyped', Unlocked, LikeBacked,
         ThresholdsKept
  PROVE  Unlocked' /\ LikeBacked'
<1>1. Unlocked'
  BY DEF Unlocked, ThresholdsKept
<1>2. LikeBacked'
  BY LikeStays DEF ThresholdsKept
<1> QED BY <1>1, <1>2

\* mint: the new token has no owner and locks nothing.
LEMMA MintBacked ==
  ASSUME IndInv, IndInv', MoneyTyped, MoneyTyped', Unlocked, LikeBacked,
         NEW who \in Users, NEW c \in ClassIds, Mint(who, c)
  PROVE  Unlocked' /\ LikeBacked'
<1> DEFINE token == <<c, NextTokenId[c]>>
<1>1. token \notin DOMAIN Tokens
  BY DEF TokenIds, IndInv, ClassPart, TokenPart, TokensTyped, ClassesTyped, IdsFresh
<1>2. UNCHANGED like /\ Tokens' = Put(Tokens, token, MintedToken)
  BY DEF Mint, money
<1> HIDE DEF token
<1>3. /\ DOMAIN Tokens' = DOMAIN Tokens \cup {token}
      /\ Tokens'[token] = MintedToken
      /\ \A t \in DOMAIN Tokens : Tokens'[t] = Tokens[t]
  BY <1>1, <1>2 DEF Put
<1>4. MintedToken.like_threshold = 0
  BY DEF MintedToken
<1>5. Unlocked'
  BY <1>3, <1>4 DEF Unlocked
<1>6. LikeBacked'
  BY <1>2, <1>3, <1>4, LikeStays
<1> QED BY <1>5, <1>6

LEMMA NextBacked == IndInv /\ IndInv' /\ LikePart /\ [Next]_vars => LikePart'
<1> SUFFICES ASSUME IndInv, IndInv', LikePart, [Next]_vars
             PROVE  LikePart'
  OBVIOUS
<1>1. /\ MoneyTyped /\ Unlocked /\ LikeBacked /\ MoneyTyped'
  BY NextPays DEF LikePart
<1>2. CASE UNCHANGED <<like, Tokens>>
  <2>1. ThresholdsKept
    BY <1>2 DEF ThresholdsKept
  <2> QED BY <1>1, <2>1, KeptBacked DEF LikePart
<1>3. CASE ClassNext
  <2>1. PICK who \in Users :
          \/ \E c \in ClassIds : Mint(who, c)
          \/ UNCHANGED <<like, Tokens>>
    BY <1>3 DEF ClassNext, CreateClass, DestroyClass, money
  <2> QED BY <1>1, <1>2, <2>1, MintBacked DEF LikePart
<1>4. CASE TokenNext
  <2>1. PICK who \in Users, token \in TokenIds :
          \/ Claim(who, token) \/ Burn(who, token)
          \/ \E to \in Users : Transfer(who, to, token)
          \/ Active(who, token) \/ Inactive(who, token)
          \/ \E price \in Prices : OfferTokenForSale(who, token, price)
          \/ WithdrawSale(who, token) \/ BuyToken(who, token)
    BY <1>4 DEF TokenNext
  <2>2. CASE Claim(who, token)
    BY <1>1, <2>2, ClaimBacked DEF LikePart
  <2>3. CASE Burn(who, token)
    BY <1>1, <2>3, BurnBacked DEF LikePart
  <2>4. CASE \/ \E to \in Users : Transfer(who, to, token)
             \/ Active(who, token) \/ Inactive(who, token)
             \/ \E price \in Prices : OfferTokenForSale(who, token, price)
             \/ WithdrawSale(who, token) \/ BuyToken(who, token)
    <3>1. ThresholdsKept
      BY <2>4, ThresholdsStay
    <3> QED BY <1>1, <3>1, KeptBacked DEF LikePart
  <2> QED BY <2>1, <2>2, <2>3, <2>4
<1>5. CASE UNCHANGED vars
  BY <1>2, <1>5 DEF vars
<1> QED BY <1>3, <1>4, <1>5 DEF Next

\* At genesis every account has the same, and there are no tokens.
LEMMA InitBacked == Init => LikePart
<1> SUFFICES ASSUME Init
             PROVE  LikePart
  OBVIOUS
<1>1. MoneyTyped /\ Unlocked
  BY NftAssumption DEF Init, MoneyTyped, Unlocked, EmptyMap
<1>2. IsFiniteSet(Users) /\ InitialLike \in Int
  BY NftAssumption
<1>3. SumFunction(like) = InitialLike * Cardinality(Users)
  <2>1. DOMAIN like = Users /\ \A u \in Users : like[u] = InitialLike
    BY DEF Init
  <2>2. SumFunctionOnSet(like, Users) = InitialLike * Cardinality(Users)
    BY <1>2, <2>1, SumSame
  <2> QED BY <2>1, <2>2 DEF SumFunction
<1>4. LockedLike = 0
  <2>1. DOMAIN [t \in DOMAIN Tokens |-> Tokens[t].like_threshold] = {}
    BY DEF Init, EmptyMap
  <2> QED BY <2>1, SumEmpty DEF LockedLike, SumFunction
<1>5. InitialLike * Cardinality(Users) \in Int
  BY <1>2, FS_CardinalityType
<1>6. LikeBacked
  BY <1>3, <1>4, <1>5 DEF LikeBacked
<1> QED BY <1>1, <1>6 DEF LikePart

\* The LIKE that claims lock in tokens and the LIKE of the accounts add up to what
\* there was, although a token changes owners between claim and burn (claim,
\* burn, transfer, buy_token).
THEOREM LikeStaysBacked == Spec => []LikeBacked
<1>1. Spec => []LikePart
  BY SpecIndInv, InitBacked, NextBacked, PTL DEF Spec
<1> QED BY <1>1, PTL DEF LikePart
=============================================================================
