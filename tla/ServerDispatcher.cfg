\* One id, so that the second request always contends for the first one's.
SPECIFICATION FairSpec
CONSTANTS
  Ids = {i1}
  Owners = {o1, o2}
  NoOwner = NoOwner
  FailureCapacity = 1
  MaxNotifications = 1
INVARIANTS
  IdHeldWhileWorking
PROPERTIES
  ImplementsLifecycle
  IdEventuallyFreed
  FailuresAreSupervised
  CloseFinishes
CHECK_DEADLOCK FALSE
