SPECIFICATION Spec
CONSTANTS
  Zones = {"small", "large"}
  ObjSize <- MCObjSize
  PageSize = 5
  MaxPg = 3
  HeaderSize = 1
  MinObjects = 2
  MaxObjects = 3
  AreaPages = 3
INVARIANT FreesLive
