SPECIFICATION MCSpec
CONSTANTS
  food = food
  acme = acme
  shop = shop
  None = None
  Unset = Unset
  Amounts <- TwoAmounts
  Days <- TwoDays
  Rated <- SecondDay
  Quotes <- OneRate
  Minor = 2
  Categories <- FoodOnly
  Merchants <- BothNames
  Rules <- ThreeRules
  Shares <- Halves
  Parts <- PartsOf
  Sendable <- Together
  Overlaps <- NoOne
INVARIANTS RunsAgain
PROPERTIES CachesStayRight PeopleDecide
