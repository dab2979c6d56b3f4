SPECIFICATION SalesSpec
VIEW SalesView
CONSTANTS
  Tills = {"t1", "t2", "t3", "t4"}
  TillKinds <- TillScenarios
  Amounts = {1, 2}
  Clerks = {"c1", "c2", "c3", "c4"}
  Items = {"i1", "i2"}
  Sends = 2
  FormIds = {"f1", "f2"}
  FormSets <- FormScenarios
  Visit <- VisitOfForms
  LinkCount = 2
  FormHands = {1, 2, 3, 4}
  FormPlans <- HandPlans
  Offered = {1}
  Editors = {1, 2}
  Drafts <- FirstRows
  Changes <- EditScenarios
  Places = {"L1", "L2"}
  StripeKeys = FALSE
  SettingLimit = 4
  DayLen = 4
  MaxDays = 2
  LastTime = 24
  Queries <- SearchedQueries
  Merchants = {"A", "B"}
  Holdings <- HoldingsHere
  Services = {7}
  Clicks = {1, 2, 3, 4, 5}
  ClickPlans <- ClickScenarios
  LastImport = 2
INVARIANTS
  CounterSafe
  InvoicesSafe
  
  SlotsSafe
  SquareLinkSafe
PROPERTY FormsSafe
CHECK_DEADLOCK FALSE
