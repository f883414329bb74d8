\* Two tasks, one with a time to live; a cancellation, a waiter, pages of one.
SPECIFICATION Spec
CONSTANTS
  Tasks = {t1, t2}
  Timed = {t1}
  Cancels = {c1}
  Waits = {w1}
  PageSize = 1
INVARIANTS
  ResultMatchesStatus
  CancelIsFinal
  PagingSkipsOnlyRemoved
PROPERTIES
  WaitersAreAnswered
CHECK_DEADLOCK FALSE
