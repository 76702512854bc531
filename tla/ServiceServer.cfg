\* The bounded game may have sent and read all it does.
CHECK_DEADLOCK FALSE
SPECIFICATION PartsSpec
CONSTANTS
  r1 = r1
  r2 = r2
  Readers = {r1, r2}
  Packets <- MCPackets
  Services <- MCServices
  ReadSizes <- MCReadSizes
  ReplySize = 2
  Guesses <- MCGuesses
  MaxGuesses = 1
  MaxPackets = 2
INVARIANTS
  LoneReaderNeverEmpty
  AnswersStayWhole
PROPERTIES
  EveryPacketParsed
  ImplementsReplyStream
  PacketsParsedRight
