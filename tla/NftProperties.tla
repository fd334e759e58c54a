----------------------------- MODULE NftProperties -----------------------------
(***************************************************************************)
(* What the nft pallet keeps in step: owners and the lists of tokens,      *)
(* sales and the tokens in sale, LIKE money and what tokens lock.          *)
(* Nft!TypeOK is the type invariant.                                       *)
(***************************************************************************)
EXTENDS Nft

TokensOfClass(c) == {t \in DOMAIN Tokens : t[1] = c}

\* Each token is listed once, where its owner says: with its owner, or with its
\* class when it has none. The lists and the owner are separate storage that
\* claims, burns, sales and gifts update one after the other.
OwnershipAgrees ==
  /\ \A u \in Users : TokensOf[u] = {t \in DOMAIN Tokens : Tokens[t].owner = u}
  /\ \A c \in ClassIds :
       NoOwnerTokensOf[c] = {t \in TokensOfClass(c) : Tokens[t].owner = None}

\* A token is marked as in sale exactly while there is an entry for it, the
\* seller of that entry owns it, and it is no one's active image; what has no
\* owner is neither in sale, active nor claimed.
SalesAgree ==
  /\ \A t \in DOMAIN Tokens : Tokens[t].is_in_sale = IsInSale(t)
  /\ \A t \in DOMAIN InSaleTokens :
       /\ t \in DOMAIN Tokens
       /\ Tokens[t].owner = InSaleTokens[t].seller
       /\ ~Tokens[t].is_active_image
  /\ \A t \in DOMAIN Tokens :
       /\ Tokens[t].is_claimed = (Tokens[t].owner # None)
       /\ Tokens[t].owner = None => ~Tokens[t].is_active_image

\* An account has one active image at most, whatever it buys, is given or
\* claims next to it.
OneActive ==
  \A u \in Users :
    Cardinality({t \in TokensOf[u] : Tokens[t].is_active_image}) <= 1

\* A level's issuer is the issuer of a class that exists and is of that level,
\* although any account may take a level over and a destroyed class takes its
\* level with it.
IssuerOfExists ==
  \A l \in DOMAIN IssuerOf :
    LET c == IssuerOf[l][2]
    IN /\ c \in DOMAIN Classes
       /\ Classes[c].issuer = IssuerOf[l][1]
       /\ Classes[c].data.level = l

\* A class never has more tokens than its maximum_quantity, and a token that is
\* there has its class: a burned one is there again without owner, and its next
\* claim reads from the class what it costs. So a class goes only as long as it
\* has no token, burned ones included; the tests of the pallet, which are not
\* compiled, expect a class to go once its tokens are burned (tests.rs:148).
TokensHaveClass ==
  /\ \A t \in DOMAIN Tokens : t[1] \in DOMAIN Classes
  /\ \A c \in DOMAIN Classes :
       Cardinality(TokensOfClass(c)) <= Classes[c].data.maximum_quantity

LockedLike ==
  SumFunction([t \in DOMAIN Tokens |-> Tokens[t].like_threshold])

\* The LIKE that claims take is locked in tokens and comes back by burning
\* them, once and to whoever owns them then: none is made and none is lost.
LikeBacked ==
  SumFunction(like) + LockedLike = InitialLike * Cardinality(Users)

\* Who loses a token that was in sale is paid his price for it by the one who
\* gets it, and no one else's native money moves.
SellerPaid ==
  [][\A t \in DOMAIN InSaleTokens :
       LET sale == InSaleTokens[t]
           buyer == Tokens'[t].owner
       IN Tokens'[t].owner # Tokens[t].owner =>
            /\ native'[sale.seller] = native[sale.seller] + sale.price
            /\ native'[buyer] = native[buyer] - sale.price
            /\ \A u \in Users \ {buyer, sale.seller} : native'[u] = native[u]]_vars
=============================================================================
