SPECIFICATION MCSpec
CONSTANTS
  c1 = c1
  c2 = c2
  a1 = a1
  cafe = cafe
  ref = ref
  bank1 = bank1
  j1 = j1
  j2 = j2
  w1 = w1
  w2 = w2
  h1 = h1
  h2 = h2
  usd = usd
  aud = aud
  None = None
  NoCharge = NoCharge
  Null = Null
  Charges <- TwoCharges
  AmountOf <- Alike
  WordsOf <- OtherWords
  Days <- Days0
  MatchDays = 0
  CandidateLimit = 3
  Gestures = {"posted_at", "enter", "delete"}
  MaxId = 2
  MaxRows = 3
  MaxEntered = 1
  Connections = {bank1}
  Jobs = {j1, j2}
  Workers = {w1, w2}
  MaxAttempts = 1
  Households = {h1, h2}
  Currencies = {usd, aud}
  LastDay = 3
  Starts <- Starts0
SYMMETRY Symmetry
INVARIANTS OneRowEach WorkArrives WorkIsKept OneRunningPerConnection RatesReachEveryCache
CHECK_DEADLOCK FALSE
