SPECIFICATION Spec
CONSTANTS
  Recs = {r1, r2}
  Fds = {3, 4}
  NetTypes = {"internet", "intranet"}
  SendLen = 3
  RecvLen = 2
  DataLens = {1, 2}
  MaxTraffic = 2
  Careful = TRUE
INVARIANT SessionsSound
PROPERTIES
  ImplementsSessions
  CloseJustified
  DisconnectEnds
  Told
