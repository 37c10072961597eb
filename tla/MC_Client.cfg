\* transfer: one offer of a file of one or two chunks that the sender can
\* open; the receiver's save may fail; either client may disconnect.
\* app: two server entries (an old connection and a new one), the code's
\* 5 s timer, 5 s heartbeat thread and 10 s timeout, a link of one chunk
\* per second, one upload of two chunks, one refusal or link failure.
CONSTANTS
  Sender = Sender
  Receiver = Receiver
  None = None
  Sizes = {1, 2}
  Readable = {TRUE}
  EditDeltas = {0}
  SaveMayFail = TRUE
  Slots = {1, 2}
  Interval = 5
  HbPeriod = 5
  Timeout = 10
  Bandwidth = 1
  FileChunks = {2}
  MaxUploads = 1
  MayRefuse = TRUE
  MaxFailures = 1
SPECIFICATION ClientSpec
CHECK_DEADLOCK FALSE
INVARIANT TypeOK
INVARIANT ReceivedIntact
INVARIANT RowsAgree
PROPERTY TransferResolves
INVARIANT AppTypeOK
PROPERTY KeptAliveNotReaped
PROPERTY ConnectAttemptResolves
PROPERTY RetryLogsIn
