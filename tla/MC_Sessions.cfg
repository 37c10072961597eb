CONSTANTS
  a = a
  b = b
  c = c
  n1 = n1
  n2 = n2
  n3 = n3
  Empty = Empty
  None = None
  Fds = {1, 2, 3}
  MaxConns = 4
  MaxSends = 3
  MaxOnline = 2
  MayGoSilent = FALSE
  MayClose = TRUE
  MayStop = TRUE
  FileIds = {}
  ClientIds <- MCClientIds
  Nicks <- MCNicks
  ClientMsgs <- MCClientMsgs
  MsgsOf <- MCMsgsOf
SPECIFICATION Spec
INVARIANT TypeOK
INVARIANT RosterInvariants
INVARIANT UserListsConverge
