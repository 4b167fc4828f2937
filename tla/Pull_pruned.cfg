SPECIFICATION Spec
CONSTANTS
  k1 = k1
  k2 = k2
  c1 = c1
  c2 = c2
  Key = {k1, k2}
  Code = {c1, c2}
  Model = {"m", "n"}
  Blank = Blank
  NoCar = NoCar
  NotYet = NotYet
  LastDay = 3
  OrderFiles <- MCOrderFiles
  VehicleFiles <- MCVehicleFiles
INVARIANTS
  PruningLossless
