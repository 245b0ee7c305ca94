SPECIFICATION HttpSpec
CONSTANTS
  Transfers <- Various
  MaskKeys <- MaskKey
  kMaxLength = 130
  kFrameSize = 1446
  ReadSizes = {1, 5}
  MaxMessages = 0
  MaxInFlight = 2
  Requests <- Posts
  OtherReplies <- Replies
  HttpUrls <- HttpHandlers
  WebSocketUrls <- WebSocketHandlers
  m_enableWebSocket = TRUE
  SHA1 <- Digest
  WebSocketGuid <- Guid
  HTTP_MAX_HEADER_SIZE = 80
  ULLONG_MAX = 1000000
  HttpReadSizes = {1}
  WriteCuts = {}
  MaxRequests = 1
CHECK_DEADLOCK FALSE
INVARIANT HeadersSurviveReads
