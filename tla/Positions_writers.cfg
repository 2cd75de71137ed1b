SPECIFICATION MCSpec
CONSTANTS
  home = home
  linked = linked
  fund = fund
  abroad = abroad
  usd = usd
  eur = eur
  cA = cA
  cB = cB
  None = None
  Null = Null
  Trades <- Events
  Typed <- TwoRows
  MaxTrades = 3
  Accounts <- Both
  Derived <- HomeOnly
  Securities <- Funds
  CurrencyOf <- Currencies
  Base = usd
  LastDay = 2
  Requests <- Asked
  BankLists <- Lists
  Clients <- TwoClients
  MaxRequests = 3
CHECK_DEADLOCK FALSE
SYMMETRY ClientsAreAlike
INVARIANTS FoldIsSound MirrorIsSound
PROPERTIES PositionsAreKept
