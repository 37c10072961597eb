CONSTANTS
  a = a
  b = b
  c = c
  n1 = n1
  n2 = n2
  n3 = n3
  f1 = f1
  Empty = Empty
  None = None
  Fds = {1, 2, 3}
  MaxConns = 3
  MaxSends = 7
  MaxOnline = 3
  MayGoSilent = FALSE
  MayClose = FALSE
  MayStop = FALSE
  ClientIds <- MCClientIds
  Nicks <- MCNicks
  FileIds <- MCFileIds
  ClientMsgs <- MCClientMsgs
  MsgsOf <- MCMsgsOf
SPECIFICATION Spec
INVARIANT TransferNotRedirected
