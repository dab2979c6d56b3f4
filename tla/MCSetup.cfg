SPECIFICATION SetupSpec
VIEW SetupView
CONSTANTS
  Emails = {"e1", "e2"}
  Profiles = {"p1", "p2"}
  Doors = {"d1", "d2", "d3", "d4"}
  DoorKinds <- DoorScenarios
  TryLimit = 1
  LastPassword = 2
  LastRow = 3
  Accounts = {"fb", "ig"}
  Studios = {"s1", "s2"}
  Persons = {"u1"}
  Messages = {"m1", "m2"}
  Hands = {"h1", "h2", "h3", "h4", "h5"}
  HandRoles <- SocialScenarios
  SetupTries = 1
  Offices = {1, 2, 3, 4, 5, 6}
  OfficeJobs <- OfficeScenarios
  ServiceCount = 2
  Adopted = 1
  Requests = {1, 2, 3}
  RequestJobs <- CampaignScenarios
  FailLimit = 1
  Texts = {1}
  SenderKinds <- ReceiptScenarios
  Callers = {"g1", "g2", "g3", "g4"}
  CallerKinds <- CallerScenarios
  LastRotation = 2
  Locations = {"A", "B", "C"}
  LocationRows <- FirstLocations
  Saves = {1, 2, 3}
  SaveKinds <- SaveScenarios
  Edits = {1, 2, 3}
  EditKinds <- EditScenarios
  FirstRows <- KnownRows
  Places = {"p1", "p2"}
  Staff = {1, 2, 3}
  Commands <- ActivationScenarios
  FirstPhones <- ApprovedPhone
  FirstTexts <- PassedTexts
  CarrierStates = {"CAMPAIGN_REJECTED"}
  OutsideLimit = 1
  Visits = {"v1", "v2", "v3"}
  VisitKinds <- VisitScenarios
  OutsideChanges = 3
INVARIANTS
  SocialSafe
  
  GoogleSafe
  
  
  

  
  
  
CHECK_DEADLOCK FALSE
