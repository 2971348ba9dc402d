SPECIFICATION Spec
CONSTANTS
  Bodies <- OneBody
  Uploads <- MCUploads
  Conversations <- MCConversations
  Moves <- SomeMoves
  MaxPiece = 64
INVARIANT Defragmented
CHECK_DEADLOCK FALSE
