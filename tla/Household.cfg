SPECIFICATION MCSpec
CONSTANTS
  None = None
  Null = Null
  AccountIds = {1, 2, 3}
  OwnerIds = {1, 2, 3, 4, 5}
  GroupIds = {1, 2, 3}
  CatIds = {1, 2, 3}
  RowIds = {1, 2}
  OwnerNames = {"ALEX", "shared", "Kim", "KIM"}
  Lower <- MCLower
  Requests = {r1, r2}
  Cards = {1, 2, 3}
  CardNames = {"blue", "plain", "new"}
  FirstName <- MCFirstName
  Connections = {"p", "q"}
  Payloads <- MCPayloads
  CardType <- MCCardType
  AgentName = "added"
  Starts <- MCStarts
  Patches <- MCPatches
  MaxDay = 2
  MaxNumber = 3
  ann = ann
  bob = bob
  s1 = s1
  s2 = s2
  q1 = q1
  q2 = q2
  Emails <- MCEmails
  SessionIds <- MCSessions
  Browsers <- MCBrowsers
  TokenIds = {t1}
  Calls = {k1}
  Idle = 1
  Absolute = 2
  TokenLife = 2
  Resolution = 1
  MaxTime = 3
  MaxEdits = 1
  Scenarios <- MCScenarios
SYMMETRY Swaps
INVARIANTS
  HouseholdIsSound
  AccountsAreApart
  OneHousehold
  OverIsOver
  AgentsActForTheOwner
PROPERTIES
  EditsStayPut
CHECK_DEADLOCK FALSE
