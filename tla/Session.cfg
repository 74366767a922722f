SPECIFICATION Spec
CONSTANTS
  Channels <- MCChannels
  Voiced <- MCVoiced
  Chats = {k1, k2}
  NoChannel = NoChannel
  NoChat = NoChat
INVARIANTS
  TypeOK
  ChatsKeepASource
  
  
