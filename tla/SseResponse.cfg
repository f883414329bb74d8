\* Three notifications, two frame slots, an ordinary request or a subscription.
SPECIFICATION FairSpec
CONSTANTS
  Notifiers = {n1, n2, n3}
  Answer = Answer
  Opener = Opener
  Nobody = Nobody
  MaxPending = 2
INVARIANTS
  SlotsAddUp
  CompletionIsDelivered
PROPERTIES
  ImplementsStream
  CloseUnblocks
  AnswerEndsStream
CHECK_DEADLOCK FALSE
