SPECIFICATION Spec
CONSTANTS
  p1 = p1  p2 = p2  near = near  far = far
  hall = hall  yard = yard  pier = pier  torch = torch
  ann = ann  bob = bob  realm1 = realm1  realm2 = realm2
  None = None
  Procs = {p1, p2}
  Rooms = {hall, yard, pier}
  Items = {torch}
  Zones = {near, far}
  ZoneRooms <- McZoneRooms
  ZoneSpawn <- McZoneSpawn
  Exits <- McExits
  Floor <- McFloor
  Seed = hall
  Characters = {1, 2}
  Name <- TwinName
  Home <- TwinHome
  Begun = {1, 2}
  ZoneWorld <- TwinWorld
  Listed <- TwinListed
  DefaultSpawn <- TwinDefaultSpawn
  MaxCommands = 1
  MaxChanges = 0
  CanFail = FALSE
INVARIANT LocatedAtHome
CHECK_DEADLOCK FALSE
