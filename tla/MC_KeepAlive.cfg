CONSTANTS
  Slots = {1}
  Interval = 5
  HbPeriod = 5
  Timeout = 10
  Bandwidth = 1
  FileChunks = {7}
  MaxUploads = 1
  MayRefuse = FALSE
  MaxFailures = 0
SPECIFICATION Spec
PROPERTY KeptAliveNotReaped
