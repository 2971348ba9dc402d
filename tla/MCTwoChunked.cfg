SPECIFICATION Spec
CONSTANTS
  Bodies <- TwoBodies
  Uploads <- MCUploads
  Conversations <- MCConversations
  Moves <- InPlaceOnly
  MaxPiece = 64
INVARIANT BodyInBuffer
CHECK_DEADLOCK FALSE
