SPECIFICATION MCSpec
CONSTANTS
  chk = chk
  eur = eur
  brk = brk
  ann = ann
  bob = bob
  food = food
  pay = pay
  between = between
  vti = vti
  money = money
  usd = usd
  euro = euro
  Absent = Absent
  Accounts <- AllAccounts
  Investments <- Brokerages
  OwnerOf <- Holders
  CurrencyOf <- Abroad
  Opening <- Openings
  Base = usd
  Owners <- People
  TypeOf <- Types
  Securities <- Traded
  Cash = money
  FirstDay <- First
  LastDay <- LastOf
  RateTapes <- Rates
  PriceTapes <- Prices
  Observed <- Reporting
  Kinds <- Stories
  Posts <- Posted
  Dated <- Nearby
  Parts <- Halves
  Bars <- Weeks
  Charts <- Asked
  MaxSteps = 2
  PlanAmounts <- Planned
INVARIANTS UnexplainedIsNamed SameMoney PastIsTrue PlansMeetTheSpending WindowsAreCut
CHECK_DEADLOCK FALSE
