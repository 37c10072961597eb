CONSTANTS
  a = a
  n1 = n1
  Empty = Empty
  None = None
  Fds = {1}
  MaxConns = 2
  MaxSends = 3
  MaxOnline = 2
  MayGoSilent = TRUE
  MayClose = TRUE
  MayStop = TRUE
  FileIds = {}
  ClientIds <- MCClientIds
  Nicks <- MCNicks
  ClientMsgs <- MCClientMsgs
  MsgsOf <- MCMsgsOf
SPECIFICATION Spec
PROPERTY NoDispatchAfterDisconnectRequest
