\* Two subscribers, queues of two, a board that sends four messages.
SPECIFICATION FairSpec
CONSTANTS
  Subscribers = {s1, s2}
  QueueSize = 2
  MaxMessages = 4
INVARIANTS TakenInOrder
PROPERTIES BlockedReadersReturn
CHECK_DEADLOCK FALSE
