\* A conversation in a window of 40 tokens over every adapter.
SPECIFICATION Spec
CONSTANTS
  None = None
  Setups <- Programs
  Questions <- ShortAndLong
  Direct <- Requests
  Responses <- ResponseKinds
  MaxSaid = 6
INVARIANTS
  TypeOK
  RecentAndPinnedKept
  BudgetOrProtected
  TokensAccounted
  ModelSeesConversation
  PayloadCarriesRequest

