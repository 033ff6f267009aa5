CONSTANTS
  a = a  b = b  d1 = d1  d2 = d2
  NoUpload = NoUpload
  Uploads <- MCUploads
  Size <- MCSize
  Deleters <- MCDeleters
  Crews <- RequestAndLoop
  MaxFaults = 0
SPECIFICATION Spec
CHECK_DEADLOCK FALSE
INVARIANTS PublishedStored
