SPECIFICATION Spec
CONSTANTS
  c1 = c1
  c2 = c2
  c3 = c3
  c4 = c4
  jobA = jobA
  jobB = jobB
  NoCar = NoCar
  NumOrders = 3
  Vehicle = {c1, c2, c3, c4}
  Model = {"m", "n"}
  Card = {jobA, jobB}
  CardOf <- MCCardOf
  MaxDay = 25
  StepWeight <- MCStepWeight
  DefaultStep = "normal"
  LateCost <- MCLateCost
  EarlyCost = 15
  BreakCost <- MCBreakCost
  NoCarCost = 100000000
  Scale = 100
  Sweep <- MCSweep
  Books <- TellingBooks
  PriorityChoices <- TurnPriority
  OnlyChoices <- TurnOnly
  NeverChoices <- TurnNever
  AlsoChoices <- TurnAlso
  ChurnChoices <- TurnChurn
INVARIANTS
  CandidatesCanBeBumped
