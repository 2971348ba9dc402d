SPECIFICATION Spec
CONSTANTS
  Bodies <- OneBody
  Uploads <- MCUploads
  Conversations <- MCConversations
  Moves <- InPlaceOnly
  MaxPiece = 64
INVARIANTS NothingInvented NothingLost
CHECK_DEADLOCK FALSE
