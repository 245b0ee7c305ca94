SPECIFICATION HttpSpec
CONSTANTS
  Transfers <- Various
  MaskKeys <- MaskKey
  kMaxLength = 130
  kFrameSize = 1446
  ReadSizes = {1, 5}
  MaxMessages = 2
  MaxInFlight = 2
  Requests <- AllRequests
  OtherReplies <- Replies
  HttpUrls <- HttpHandlers
  WebSocketUrls <- WebSocketHandlers
  m_enableWebSocket = TRUE
  SHA1 <- Digest
  WebSocketGuid <- Guid
  HTTP_MAX_HEADER_SIZE = 80
  ULLONG_MAX = 1000000
  HttpReadSizes = {5}
  WriteCuts = {4, 20}
  MaxRequests = 2
CHECK_DEADLOCK FALSE
INVARIANTS
  TypeOK
  DeliveredIsSent
  RequestArrives
  HeadersArrive
  AnswerIsOwn
  FullAnswerIsTaken
  HeaderLimitKept
  AssertsHold
  HandlerIsSet
  HandshakeIsRight
PROPERTIES
  MessagesArrive
  RequestEnds
