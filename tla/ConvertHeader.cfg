SPECIFICATION MCSpec
CONSTANTS
  BLOCK_DATA_SIZE = 60
  ObsInfos <- MCObsInfos
  payload_size = 8
  WIDE = 4
  UdpConfs <- MCUdpConfs
  BYTE = 4
  MaxInits = 2
  Recordings <- MCRecordings
  MAX_NO_ANTS = 4
  SAMPLES_PER_PACKET = 2
  ROW = 2
  HEADER_LEN = 1
  Statuses <- MCStatuses
  MaxReads = 3
  No = 2
  h_pwrbuf_size = 2
  MaxDumps = 3
  MaxFaults = 2
INVARIANT HeaderInEveryFile
CHECK_DEADLOCK FALSE
