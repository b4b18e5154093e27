SPECIFICATION FairSpec
CONSTANTS
  t1 = t1
  d1 = d1
  chat1 = chat1
  chat2 = chat2
  Texts = {t1}
  Documents = {d1}
  Replies = {r1}
  NoJob = NoJob
  Chats = {chat1, chat2}
  ChatOf <- MCChatOf
  MessageIds = {1, 2}
  MaxInbox = 3
INVARIANTS
  TypeOK
  FileThereDuringUpload
  CallbacksAwaited
PROPERTIES
  ImplementsSends
  EverySendTold
  FilesRemoved
CHECK_DEADLOCK FALSE
