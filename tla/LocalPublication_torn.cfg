CONSTANTS
  a = a  b = b  d1 = d1  d2 = d2
  NoUpload = NoUpload
  Uploads <- MCUploads
  Size <- MCSize
  Deleters <- MCDeleters
  Crews <- LoopOnly
  MaxFaults = 1
SPECIFICATION FairSpec
CHECK_DEADLOCK FALSE
PROPERTIES ReservationResolves
