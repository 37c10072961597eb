CONSTANTS
  a = a
  b = b
  n1 = n1
  n2 = n2
  f1 = f1
  Empty = Empty
  None = None
  Fds = {1, 2}
  MaxConns = 3
  MaxSends = 4
  MaxOnline = 2
  MayGoSilent = FALSE
  MayClose = TRUE
  MayStop = FALSE
  ClientIds <- MCClientIds
  Nicks <- MCNicks
  FileIds <- MCFileIds
  ClientMsgs <- MCClientMsgs
  MsgsOf <- MCMsgsOf
SPECIFICATION Spec
INVARIANT FileRelayParties
