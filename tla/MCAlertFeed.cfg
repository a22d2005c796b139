\* A page of two rows, a third alert, one click.
SPECIFICATION FeedSpec
CONSTANTS
  Slots = {l1, l2}
  Limit = 2
  Cap = 3
  MaxAlerts = 3
  MaxClicks = 1
  MaxLosses = 0
CHECK_DEADLOCK FALSE
INVARIANT
  AckedWasVisible
