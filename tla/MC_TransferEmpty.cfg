\* A zero-length file that the sender can open; the receiver's save succeeds.
\* (With Sizes = {1} and Readable = {FALSE} the same property fails when the
\* sender can no longer open the file on ACCEPT.)
CONSTANTS
  Sender = Sender
  Receiver = Receiver
  None = None
  Sizes = {0}
  Readable = {TRUE}
  EditDeltas = {0}
  SaveMayFail = FALSE
SPECIFICATION Spec
CHECK_DEADLOCK FALSE
PROPERTY TransferResolves
