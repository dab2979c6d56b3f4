SPECIFICATION FrontSpec
VIEW FrontView
SYMMETRY Interchangeable
CONSTANTS
  Staff = {"s1", "s2"}
  MaxVersion = 2
  MaxRequests = 3
  n1 = n1
  n2 = n2
  q1 = q1
  q2 = q2
  Lines = {n1, n2}
  FormOf <- LineForms
  Texts = {"t1", "t2"}
  FormLimit = 1
  Desks = {"d1", "d2", "d3", "d4"}
  DeskKinds <- DeskScenarios
  LastMessage = 2
  LastDraft = 2
  LastSwitch = 1
  Artists = {"a1", "a2"}
  Runs = {q1, q2}
  p1 = p1
  p2 = p2
  Prices = {p1, p2}
  LastLine = 3
  LastEvent = 4
  LastTool = 2
  Turns = {"u1", "u2", "u3"}
  TurnKinds <- TurnScenarios
  LastVersion = 3
  LastStep = 1
INVARIANT ConsentSafe
PROPERTIES
  
  
  DraftsSafe
  
  TurnsSafe
CHECK_DEADLOCK FALSE
