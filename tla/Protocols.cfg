INIT MCInit
NEXT MCNext
CONSTANTS
  n1 = n1
  n2 = n2
  v1 = v1
  v2 = v2
  DEFAULT_WINDOW_SIZE = 3
  WINDOW_UPDATE_THRESHOLD = 2
  MaxWindow = 7
  MAX_STREAM_ID = 5
  NoLimit = NoLimit
  Connections <- MCConnections
  MaxFrames = 2
  MaxMessageUnits = 3
  STATIC_TABLE <- MCStaticTable
  HeaderLists <- MCHeaderLists
  Weight <- MCWeight
  TableSizes = {0, 4}
  FirstSize = 3
  PrefixMax = 3
  DigitBase = 2
  MaxBlocks = 4
  MaxOnWire = 2
  MaxResizes = 2
  QSTATIC_TABLE <- MCQTable
  Fields <- MCFields
  MAX_HEADER_FIELDS = 2
  MaxFields = 3
  Texts = {48, 97, 122, 0, 200, 255}
  MaxText = 2
  POOL_SIZE = 2
  H1Setups <- MCH1Setups
  max_header_section = 5
  max_body_size = 3
  max_chunk_size = 2
  max_trailer_section = 1
  max_decompressed_size = 4
  Expansion = 2
  MaxRequests = 2
  H3Setups <- MCH3Setups
  ControlFrames <- MCControlFrames
  MAX_PENDING = 3
  MaxWrites = 2
  MaxEvents = 2
  send_queue_capacity = 1
  MaxTransmits = 1
  QuicSetups <- MCQuicSetups
INVARIANTS
  WindowsAgree CallsAnswered StatusesTrue HeadersInStep ResponsesTrue StreamsInOrder 
CHECK_DEADLOCK FALSE
