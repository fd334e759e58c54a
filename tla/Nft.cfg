\* Two users mint, claim, sell, give away and burn the tokens of two classes.
SPECIFICATION Spec
CONSTANTS
  u1 = u1
  u2 = u2
  None = None
  Users = {u1, u2}
  AirDropAmount = 1
  InitialNative = 8
  InitialLike = 3
  ClassDataChoices <- TwoClasses
  Prices = {1}
  MaxClasses = 2
  MaxTokens = 2
SYMMETRY Symmetry
INVARIANTS OwnershipAgrees SalesAgree OneActive IssuerOfExists
           TokensHaveClass LikeBacked
PROPERTIES SellerPaid
\* Behaviours end when all classes are created and no one can pay.
CHECK_DEADLOCK FALSE
