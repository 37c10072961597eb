CONSTANTS
  HeaderLen = 3
  MaxBody = 2
  Magic = 7
  Sizes = {0, 1, 3}
  Cap = 2
  TrimThreshold = 2
  MaxBytes = 6
  Fds = {4, 5}
  ListenFd = 3
  Conns = {1, 2}
  MaxData = 2
  Base = 4
  WordBytes = 2
  IdWidth = 2
  NickWidth = 2
  FileIdWidth = 3
  TextWidth = 2
  Hosts = {"LE", "BE"}
  RawBytes = {0, 1}
  RawLayouts = {"LoginRequest", "FileOfferResponse"}
SPECIFICATION WireSpec
CHECK_DEADLOCK FALSE
INVARIANT FramerTypeOK
 
INVARIANT ClientFramingExact
INVARIANT CodecRoundTrip
INVARIANT CodecFieldsBounded
INVARIANT CodecUserListRoundTrip
INVARIANT CodecFileDataRoundTrip
INVARIANT ConnTypeOK
INVARIANT ConnBufferCompact
INVARIANT ConnWriteInterestMatches
PROPERTY ConnChannelRefined
PROPERTY ConnAllDelivered
INVARIANT ReactorTypeOK
INVARIANT HandlerTableExact
PROPERTY AcceptServed
PROPERTY ReadinessServed
PROPERTY PeerCloseReaped
