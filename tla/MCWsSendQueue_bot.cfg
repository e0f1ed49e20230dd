\* The bot's server: one io thread, and the thread of a twitch_client.
SPECIFICATION FairSpec
CONSTANTS
  Threads = {io, irc}
  Closers = {io}
  MaxPosts = 4
INVARIANTS OneChain BufferAlive WireFramed CallbackTruthful CloseOnce
PROPERTIES DeliverySpec DeliveryLive
CHECK_DEADLOCK FALSE
