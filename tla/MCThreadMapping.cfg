CONSTANTS
  general = general
  side = side
  mail = mail
  letter = letter
  telegram = telegram
  gmail = gmail
  c1 = c1
  c2 = c2
  c3 = c3
  b1 = b1
  NoTopic = NoTopic
  Topics <- MCTopics
  ChannelTopics <- MCChannelTopics
  VisibleTopics <- MCVisibleTopics
  Component <- MCComponent
  Calls <- MCCalls
  Binders <- MCBinders
  d1 = d1
  d2 = d2
  Channels = {chat}
  InboundCalls <- MCInboundCalls
  NoRecord = NoRecord
  MaxMessages = 2
  MaxReplays = 1
  MaxChannelCommands = 2
  MaxTroubles = 1
SYMMETRY MCSymmetry
SPECIFICATION MCSpec
CHECK_DEADLOCK FALSE
INVARIANTS
  TopicsAreOneConversation
  TopicsAreReached
  InboundIsRecorded
