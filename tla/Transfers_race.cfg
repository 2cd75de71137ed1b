SPECIFICATION Spec
CONSTANTS
  checking = checking
  savings = savings
  foreign = foreign
  usd = usd
  eur = eur
  cA = cA
  cB = cB
  None = None
  Txns <- FourTxns
  AccountOf <- Accounts
  CurrencyOf <- Currencies
  Worth <- Worths
  At <- Moments
  Late <- LastTwo
  Window = 1
  CandidateLimit = 2
  Chunk = 2
  MinorUnit = 1
  Clients <- TwoClients
  MaxGroups = 2
CHECK_DEADLOCK FALSE
SYMMETRY ClientsAreAlike
INVARIANTS PassAgreesWithPicker PairsAreSound
PROPERTIES GroupsAreKeptWhole
