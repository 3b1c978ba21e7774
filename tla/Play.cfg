SPECIFICATION Spec
CONSTANTS
  p1 = p1  p2 = p2  near = near  far = far
  hall = hall  yard = yard  pier = pier  torch = torch
  ann = ann  bob = bob  realm1 = realm1  realm2 = realm2
  None = None
  Procs = {p1, p2}
  Rooms = {hall, yard, pier}
  Items = {torch}
  Zones = {near, far}
  ZoneRooms <- McZoneRooms
  ZoneSpawn <- McZoneSpawn
  Exits <- McExits
  Floor <- McFloor
  Seed = hall
  Characters <- McCharacters
  Name <- McName
  Home <- McHome
  Begun <- McBegun
  ZoneWorld <- McZoneWorld
  Listed <- McListed
  DefaultSpawn <- McDefaultSpawn
  MaxCommands = 2
  MaxChanges = 2
  CanFail = TRUE
SYMMETRY ProcSymmetry
INVARIANTS WhispersPrivate YellReaches OkMeansDone
CHECK_DEADLOCK FALSE
